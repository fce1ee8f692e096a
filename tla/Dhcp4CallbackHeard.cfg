CONSTANTS
  MaxTries = 1
  Handed = "Dhcp4ModeData"
SPECIFICATION DhcpSpec
INVARIANT LeaseAsTold
CHECK_DEADLOCK FALSE
