SPECIFICATION Spec
CONSTANTS
  Filling = {0, 1, 2}
  Flags <- QueryFlags
  Number <- Numbers
  Extra <- Extras
  Strange <- StrangeBytes
  Script <- Scripts
  Height <- Heights
  TxInputs <- SomeInputs
  TxOutputs <- SomeOutputs
  Items <- SomeItems
  Commit <- ACommit
  MaxInputs = 2
  MaxOutputs = 2
  MaxParts = 3
  MaxItems = 1
  MaxSigs = 2
INVARIANTS
  WhatIsWrittenIsRead
  CutIsNoticed
  RelayedUnchangedOrNotCanonical
  RecordsAreStrict
  ValuesReadBack
  TransactionsReadBack
  SignaturesHold
CHECK_DEADLOCK FALSE
