CONSTANTS
  status_error_flag = 128
  gateway = gateway
  peer = peer
  first = first
  second = second
  host = host
  junk = junk
  zero_mac = zero_mac
  zero_tail = zero_tail
  nullptr = nullptr
  config = config
  SwAddresses <- MCSwAddresses
  Events <- MCEvents
  Macs <- MCMacs
  Tails <- MCTails
  NotReadyStatus <- LibraryWord
SPECIFICATION Spec
INVARIANT NoStrayWrite
