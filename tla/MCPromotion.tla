----------------------------- MODULE MCPromotion -----------------------------
(***************************************************************************)
(* Small instances of the promotion driver: plans of one or two release    *)
(* units, with or without writers and runs that do not keep out of each    *)
(* other's way.                                                            *)
(***************************************************************************)
EXTENDS Promotion

Setting(operation, units, overlap, drifts) ==
    [operation |-> operation, units |-> units, overlap |-> overlap, drifts |-> drifts]

OneUnit == {Setting("automatic", 1, FALSE, {})}

\* One run at a time; runs that were taken for lost, and delayed finish commands,
\* beside a recovery; and writers that give an alias a digest of the plan or another.
Disturbances == {
    Setting("automatic", 2, FALSE, {}),
    Setting("backfill-ghcr", 1, TRUE, {}),
    Setting("backfill-ghcr", 1, FALSE, {"target"}),
    Setting("backfill-ghcr", 2, FALSE, {"other"})}
=============================================================================
