SPECIFICATION FairSpec
CONSTANTS
  Modulus = 32
  ISN = 30
  ServerBytes = 4
  ClientBytes = 2
  MaxLen = 2
  Window = 1
  Faults = {"loss", "duplication", "timeout"}
  MaxFaults = 2
  OtherFrames = {"ARP", "ICMP", "UDP"}
INVARIANTS TypeOK   
PROPERTIES WholeStreamDelivered
CHECK_DEADLOCK FALSE
