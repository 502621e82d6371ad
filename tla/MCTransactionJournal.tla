------------------------ MODULE MCTransactionJournal ------------------------
\* Small instances of the transaction journal.  Callers, plans and result files
\* are interchangeable in the runs whose plans are all of one operation and
\* whose properties are safety properties.
EXTENDS TransactionJournal, TLC

CallerSymmetry == Permutations(Callers)
Symmetry == Permutations(Callers) \cup Permutations(Plans) \cup Permutations(Results)

=============================================================================
