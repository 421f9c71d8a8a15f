SPECIFICATION Spec
CHECK_DEADLOCK FALSE
CONSTANTS
  Senders = {s1, s2}
  NumPartitions = 2
  Key = {1, 2, 3, 4}
  Hash <- MCHash
  MaxRecords = 3
  MaxTotal = 4
INVARIANTS
  NothingLostOrRepeated
PROPERTIES
  GroupsSpec
  AllPartitionsAppear
