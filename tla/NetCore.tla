------------------------------ MODULE NetCore ------------------------------
(***************************************************************************)
(* The MacAddress objects of net_core.hpp: a union of 32 bytes with the 6  *)
(* bytes of an Ethernet address.  An object is the address and the tail of *)
(* 26 bytes behind it, which operator== compares as well.                  *)
(***************************************************************************)
CONSTANTS Macs,      \* contents of the six bytes
          Tails,     \* contents of the other bytes
          zero_mac,
          zero_tail

ASSUME MacsAssumption == zero_mac \in Macs /\ zero_tail \in Tails

MacAddress == [mac : Macs, tail : Tails]

\* MacAddress(): the initializer data_{0} clears all bytes.
NewMacAddress == [mac |-> zero_mac, tail |-> zero_tail]

\* MacAddress(mac): only the member `mac` of the union is initialized, the
\* tail is whatever was in memory.
MacAddressOf(mac) == [mac : {mac}, tail : Tails]

\* Mutant: operator= without `data_.bytes = {0}`.
AssignMacKeepsTail(object, mac) == [object EXCEPT !.mac = mac]

\* object = mac
AssignMac(object, mac) == [mac |-> mac, tail |-> zero_tail]

\* object == other
EqualMacAddress(object, other) == object = other

\* A firmware that knows hardware addresses of six bytes writes these only.
WriteMac(object, mac) == [object EXCEPT !.mac = mac]

=============================================================================
