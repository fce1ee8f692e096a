CONSTANTS
  Tokens = {t1, t2}
  Groups = {g1, g2}
  Routes = {r1, r2}
  nullptr = nullptr
  status_error_flag = 128
  NotReadyStatus = 134  \* FirmwareError("NotReady")
  Buffers = {b1, b2, b3}
  QueueSize = 2
  MCasts = {m1, m2}
  FrameSize = 1
  MaxTries = 2
  Handed = "Dhcp4ConfigData"
SPECIFICATION FairSpec
INVARIANTS
  NetworkTypeOK
  EndSeen
  MembershipAsAsked
  OneOwner
  LeaseAsTold
PROPERTIES
  LedgerSpec
  TokensEnd
CHECK_DEADLOCK FALSE
