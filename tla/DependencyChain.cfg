CONSTANTS
    LastMinor = 1
    Pins <- Releases
    Changes <- Edits
    Bounds <- OneOrTwo
SPECIFICATION Spec
INVARIANTS TypeOK AutoMergeIsEligible PinsAreReal AliasesMatchMain
PROPERTIES OlderPatchIsRollback AliasesNeverGoBack DeliveryIsImplemented
