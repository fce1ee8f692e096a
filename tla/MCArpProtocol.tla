--------------------------- MODULE MCArpProtocol ---------------------------
(* A small instance of ArpProtocol: two addresses, two events, one host.   *)
EXTENDS ArpProtocol

CONSTANTS gateway, peer, first, second, host, junk

MCSwAddresses == {gateway, peer}
MCEvents == {first, second}
MCMacs == {zero_mac, host}
MCTails == {zero_tail, junk}

\* The word a client compares a result with: the word the firmware returns, or the
\* enumerator Status::NotReady of the library.
FirmwareWord == FirmwareError("NotReady")
LibraryWord == ErrorStatus("NotReady")

=============================================================================
