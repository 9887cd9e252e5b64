SPECIFICATION FairSpec
CONSTANT MaxTx = 3
INVARIANTS TypeOK WatermarkOnlyCompleted SortedChain NoTransactionLost WakeupPending
PROPERTIES ImplementsWatermark WatermarkCatchesUp CommitFinishes
CHECK_DEADLOCK FALSE
