---------------------------- MODULE Tcp4Protocol ----------------------------
(***************************************************************************)
(* Tcp4Protocol (tcp_v4.hpp): one connection, or one listening instance,   *)
(* with a token for each of connect, accept, transmit, receive and close.  *)
(* The peer may answer, send, close or reset the connection at any moment. *)
(***************************************************************************)
EXTENDS CompletionTokens

VARIABLES
  connection,   \* the Tcp4ConnectionState
  active_flag_  \* of the access point: the client connects, or it listens

tcp_vars == <<token_vars, connection, active_flag_>>

Tcp4ConnectionState ==
  {"Closed", "Listen", "SynSent", "SynReceived", "Established", "FinWait1", "FinWait2",
   "Closing", "TimeWait", "CloseWait", "LastAck"}

TcpTypeOK == connection \in Tcp4ConnectionState /\ active_flag_ \in BOOLEAN

TcpInit ==
  /\ TokensInit
  /\ events \subseteq Tokens
  /\ connection = "Closed"
  /\ active_flag_ = FALSE

TcpServices ==
  <<"GetModeData", "Configure", "Routes", "Connect", "Accept", "Transmit", "Receive",
    "Close", "Cancel", "Poll">>

TcpFields ==
  <<"get_mode_data_", "configure_", "routes_", "connect_", "accept_", "transmit_",
    "receive_", "close_", "cancel_", "poll_">>

TcpService(field) == Behind(TcpFields, TcpServices, field)

-----------------------------------------------------------------------------
\* The driver and the peer.

Goes(from, to) == connection \in from /\ connection' = to

TcpKeeps == UNCHANGED <<configured, ledgers, events, asked, active_flag_>>

\* The answer to the first segment; two that connect at once both receive one.
Handshake ==
  /\ \/ Goes({"SynSent"}, "SynReceived") /\ UNCHANGED tokens
     \/ Goes({"SynSent", "SynReceived"}, "Established") /\
          End(HeldFor({"Connect"}), All("Success"))
  /\ TcpKeeps

\* A listening instance hands the connection to a child with the token.
Accepted(t) ==
  /\ connection = "Listen"
  /\ held[t] = "Accept"
  /\ End({t}, All("Success"))
  /\ TcpKeeps /\ UNCHANGED connection

\* Data is sent to the peer or comes from it.
Transferred(t) ==
  \/ /\ held[t] = "Transmit"
     /\ connection \in {"Established", "CloseWait", "FinWait1", "Closing", "LastAck"}
     /\ End({t}, All("Success"))
     /\ TcpKeeps /\ UNCHANGED connection
  \/ /\ held[t] = "Receive"
     /\ connection \in {"Established", "FinWait1", "FinWait2"}
     /\ End({t}, All("Success"))
     /\ TcpKeeps /\ UNCHANGED connection

\* The peer has closed: nothing more will be received.
PeerCloses ==
  /\ \/ Goes({"Established"}, "CloseWait")
     \/ Goes({"FinWait1"}, "Closing")
     \/ Goes({"FinWait1", "FinWait2"}, "TimeWait")
  /\ End(HeldFor({"Receive"}), All("ConnectionFin"))
  /\ TcpKeeps

\* Our end of the connection is closed: acknowledged, given up after
\* fin_timeout_, or aborted when the client closed.
Acknowledged ==
  /\ Goes({"FinWait1"}, "FinWait2") \/ Goes({"Closing"}, "TimeWait")
  /\ UNCHANGED tokens
  /\ TcpKeeps

Ended ==
  /\ HeldFor({"Close"}) # {}
  /\ Goes({"FinWait2", "TimeWait", "LastAck", "Closed"}, "Closed")
  /\ End(Pending, [t \in Tokens |-> IF held[t] = "Close" THEN "Success" ELSE "Aborted"])
  /\ TcpKeeps

Closes == Acknowledged \/ Ended

\* The peer resets, or does not answer for connection_timeout_.
Breaks(word) ==
  /\ Goes(Tcp4ConnectionState \ {"Closed", "Listen"}, "Closed")
  /\ End(Pending, All(word))
  /\ TcpKeeps

TcpDriver ==
  \/ Handshake \/ PeerCloses \/ Closes
  \/ \E word \in {"ConnectionReset", "Timeout"} : Breaks(word)
  \/ \E t \in Tokens : Accepted(t) \/ Transferred(t)

-----------------------------------------------------------------------------
\* The methods.

configure(active_flag) ==
  /\ ~configured
  /\ configured' = TRUE
  /\ active_flag_' = active_flag
  /\ connection' = IF active_flag THEN "Closed" ELSE "Listen"
  /\ UNCHANGED <<ledgers, tokens, events>>

reset ==
  /\ configured
  /\ Unconfigure
  /\ connection' = "Closed"
  /\ UNCHANGED <<events, active_flag_>>

routes_(delete, route) ==
  /\ configured
  /\ RoutesService(delete, route)
  /\ UNCHANGED <<configured, groups, joined, tokens, events, connection, active_flag_>>

add_route(route) == routes_(FALSE, route) /\ routed' = routed \cup {route}
delete_route(route) == routes_(TRUE, route) /\ routed' = routed \ {route}

\* When the driver takes a token of each kind, and what it does: nothing more
\* is sent or received once the client has closed.
Accepts(service) ==
  /\ HeldFor({"Close"}) = {}
  /\ CASE service = "Connect"  -> active_flag_ /\ Goes({"Closed"}, "SynSent")
       [] service = "Accept"   -> Goes({"Listen"}, "Listen")
       [] service = "Transmit" -> connection \in {"Established", "CloseWait"} /\ UNCHANGED connection
       [] service = "Receive"  -> Goes({"Established"}, "Established")
       [] service = "Close"    -> Goes({"Established"}, "FinWait1") \/ Goes({"CloseWait"}, "LastAck")
       [] service = "Abort"    -> Goes({"Established", "CloseWait"}, "Closed")

submit(token, purpose, field) ==
  /\ Submit(token, purpose, TcpService(field))
  /\ Accepts(TcpService(field))
  /\ UNCHANGED <<configured, ledgers, events, active_flag_>>

connect(token) == submit(token, "Connect", "connect_")
accept(token) == submit(token, "Accept", "accept_")
transmit(token) == submit(token, "Transmit", "transmit_")
receive(token) == submit(token, "Receive", "receive_")

\* To close is to ask for all the tokens back; abort_on_close_, of the token,
\* does without the handshake.
close(token, abort_on_close_) ==
  /\ token \in events /\ wanted[token] = "none"
  /\ Take(token, TcpService("close_"))
  /\ Accepts(IF abort_on_close_ THEN "Abort" ELSE TcpService("close_"))
  /\ wanted' = [wanted EXCEPT ![token] = "Close"]
  /\ asked' = (asked \cup Pending) \ {token}
  /\ UNCHANGED <<configured, ledgers, events, active_flag_, status, filled, signaled>>

\* Not of a token of close; a connect that is cancelled leaves nothing behind.
cancel(token) ==
  LET ended == {t \in Pending : token \in {t, nullptr} /\ held[t] # "Close"} IN
  /\ configured
  /\ Abort(ended)
  /\ connection' = IF \E t \in ended : held[t] = "Connect" THEN "Closed" ELSE connection
  /\ UNCHANGED <<configured, ledgers, events, active_flag_>>

poll == configured /\ TcpDriver

TcpNext ==
  \/ \E active_flag \in BOOLEAN : configure(active_flag)
  \/ reset \/ TcpDriver \/ poll
  \/ \E route \in Routes : add_route(route) \/ delete_route(route)
  \/ \E t \in Tokens :
       \/ connect(t) \/ accept(t) \/ transmit(t) \/ receive(t)
       \/ \E abort_on_close_ \in BOOLEAN : close(t, abort_on_close_)
       \/ Collect(t) /\ UNCHANGED <<connection, active_flag_>>
  \/ \E token \in Tokens \cup {nullptr} : cancel(token)

=============================================================================
