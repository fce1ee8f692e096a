------------------------------ MODULE Network ------------------------------
(***************************************************************************)
(* The network protocols a client can open, each between the client and    *)
(* its driver.  They reach each other only inside the firmware, so that a  *)
(* behaviour is one of the protocol drawn at its beginning.  Those with    *)
(* completion tokens share their variables and are held to one promise.    *)
(***************************************************************************)
EXTENDS CompletionTokens

CONSTANTS Buffers, QueueSize, MCasts, FrameSize,  \* SimpleNetworkProtocol
          MaxTries, Handed                        \* DHCP4Protocol

ASSUME NetworkAssumption ==
  /\ QueueSize \in Nat /\ FrameSize \in Nat \ {0} /\ MaxTries \in Nat
  /\ Handed \in {"Dhcp4ConfigData", "Dhcp4ModeData"}

VARIABLES protocol, disable_background_polling_, connection, active_flag_,
          dhcp_state, tries, callback, completion, exchange, set_up,
          told, state, sending, recycled, arrived, filters, mcast, known, lent, enabled, listed

Ip4 == INSTANCE Ipv4Protocol
Mnp == INSTANCE ManagedNetworkProtocol
Tcp4 == INSTANCE Tcp4Protocol
Dns4 == INSTANCE Dns4Protocol
Dhcp4 == INSTANCE Dhcp4Protocol
Snp == INSTANCE SimpleNetworkProtocol

WithTokens == {"Ip4", "Mnp", "Tcp4", "Dns4"}

dhcp_vars == <<dhcp_state, tries, callback, completion, exchange, set_up, told>>
snp_vars == <<state, sending, recycled, arrived, filters, mcast, known, lent, enabled, listed>>
own_vars == <<disable_background_polling_, connection, active_flag_>>
vars == <<protocol, token_vars, own_vars, dhcp_vars, snp_vars>>

Init ==
  /\ protocol \in WithTokens \cup {"Dhcp4", "Snp"}
  /\ TokensInit
  /\ events \in IF protocol \in WithTokens \ {"Dns4"} THEN SUBSET Tokens ELSE {{}}
  /\ disable_background_polling_ = FALSE
  /\ connection = "Closed" /\ active_flag_ = FALSE
  /\ Dhcp4!DhcpInit
  /\ Snp!SnpInit

Ipv4 ==
  /\ protocol = "Ip4" /\ Ip4!Ipv4Next
  /\ UNCHANGED <<protocol, own_vars, dhcp_vars, snp_vars>>

ManagedNetwork ==
  /\ protocol = "Mnp" /\ Mnp!MnpNext
  /\ UNCHANGED <<protocol, connection, active_flag_, dhcp_vars, snp_vars>>

Tcp ==
  /\ protocol = "Tcp4" /\ Tcp4!TcpNext
  /\ UNCHANGED <<protocol, disable_background_polling_, dhcp_vars, snp_vars>>

Dns ==
  /\ protocol = "Dns4" /\ Dns4!DnsNext
  /\ UNCHANGED <<protocol, own_vars, dhcp_vars, snp_vars>>

Dhcp ==
  /\ protocol = "Dhcp4" /\ Dhcp4!DhcpNext
  /\ UNCHANGED <<protocol, token_vars, own_vars, snp_vars>>

SimpleNetwork ==
  /\ protocol = "Snp" /\ Snp!SnpNext
  /\ UNCHANGED <<protocol, token_vars, own_vars, dhcp_vars>>

Next == Ipv4 \/ ManagedNetwork \/ Tcp \/ Dns \/ Dhcp \/ SimpleNetwork

Spec == Init /\ [][Next]_vars

\* What ends a token that does not wait for someone else to send: the packet
\* is sent or answered, or the driver's timer has counted its timeout down;
\* with the background polling disabled it is the client that polls.
FinishesWith(t) ==
  \/ protocol = "Ip4" /\ Ip4!Ipv4Ends(t) /\ UNCHANGED own_vars
  \/ protocol = "Mnp" /\ (Mnp!MnpEnds(t) \/ Mnp!poll(t)) /\ UNCHANGED <<connection, active_flag_>>
  \/ protocol = "Dns4" /\ Dns4!DnsEnds(t) /\ UNCHANGED own_vars
  \/ /\ protocol = "Tcp4"
     /\ CASE held[t] = "Transmit" -> Tcp4!Transferred(t)
          [] held[t] = "Connect"  -> Tcp4!Handshake
          [] held[t] = "Close"    -> Tcp4!Closes
     /\ UNCHANGED disable_background_polling_

Finishes(t) ==
  /\ held[t] \in Ending
  /\ FinishesWith(t)
  /\ UNCHANGED <<protocol, dhcp_vars, snp_vars>>

\* The same of the address and of an exchange with a DHCP server.
DhcpFinishes(action) ==
  /\ protocol = "Dhcp4"
  /\ action
  /\ UNCHANGED <<protocol, token_vars, own_vars, snp_vars>>

FairSpec ==
  /\ Spec
  /\ \A t \in Tokens : WF_vars(Finishes(t))
  /\ WF_vars(DhcpFinishes(Dhcp4!Progress))
  /\ WF_vars(DhcpFinishes(Dhcp4!ExchangeEnds))

-----------------------------------------------------------------------------
\* All variables have their types, the tokens' and those of each protocol; the transmit
\* queue of the interface is never longer than it can be.
NetworkTypeOK == TokensTypeOK /\ Tcp4!TcpTypeOK /\ Dhcp4!DhcpTypeOK /\ Snp!SnpTypeOK

\* Each protocol keeps the promise of a ledger of tokens: a token is taken when it is
\* submitted, left alone while it is held, and given back once; as aborted only
\* if the client has cancelled it, closed the connection or reset the instance.
Ledger == INSTANCE TokenLedger WITH held <- Pending, result <- status
LedgerSpec == Ledger!Spec

\* A client that waits for a token can tell whether it has ended, and only then:
\* by the event; with DNS by the status and the data alone, which must not be
\* those of the lookup before.  This is a client that knows the firmware's word for
\* "not ready"; NetworkProofs shows what becomes of one that takes Status::NotReady.
EndSeen == \A t \in Tokens : wanted[t] # "none" => (Noticed(t) <=> t \notin Pending)

\* The driver is in the groups the client has joined and has the routes it has added,
\* nothing left from before a reset; the network interface has the filters the
\* client has asked for, through all its states.
MembershipAsAsked ==
  /\ groups = joined /\ routes = routed
  /\ filters = enabled /\ mcast = listed

\* A transmit buffer belongs to the client or to the interface, which queues or has yet
\* to recycle it; and the client, who cannot read the mode, knows the state
\* in which that is so.
OneOwner ==
  /\ lent = sending \cup recycled
  /\ known = state

\* A client that uses the address of its lease still has it (see Dhcp4Protocol).
LeaseAsTold == Dhcp4!LeaseAsTold

\* What the client has sent, looked up, connected or closed ends, with or without an
\* answer, ...
EveryTokenEnds == \A t \in Tokens : wanted[t] \in Ending ~> Noticed(t)

\* ... and so do the start of a lease and an exchange.
TokensEnd ==
  /\ EveryTokenEnds
  /\ completion = "pending" ~> completion # "pending"
  /\ exchange = "pending" ~> exchange # "pending"

=============================================================================
