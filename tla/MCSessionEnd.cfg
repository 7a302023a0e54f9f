SPECIFICATION FairSpec
INVARIANTS EndCauseIsTrue OneReason
PROPERTIES LoopsEndTogether RetiredEnds
CHECK_DEADLOCK FALSE
