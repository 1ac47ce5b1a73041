SPECIFICATION FairSpec
CONSTANTS
  Namespaces = {"cu-a"}
  Foreign = {"default"}
  Entries <- AnnAndOdd
  MaxWrites = 2
  MaxRegs = 1
  MaxFaults = 1
  MaxMeddle = 1
INVARIANTS OnlyAdmins
PROPERTIES BindingsFollow
CHECK_DEADLOCK FALSE
