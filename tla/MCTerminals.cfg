CONSTANTS
  Terms = {"a", "b"}
  Tasks = {"task"}
  ParentOf <- MCParentOf
  CAPTURES = 1
  CAPTURE_MAX = 2
  Malformed <- MCMalformed
  MaxBytes <- MCBytes
  MaxWrites <- MCWrites
SPECIFICATION FairSpec
INVARIANTS OwnOutput FedInOrder Accounted
PROPERTY EventuallyDrawn
CHECK_DEADLOCK FALSE
