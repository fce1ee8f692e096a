---------------------------- MODULE Ipv4Protocol ----------------------------
(***************************************************************************)
(* Ipv4Protocol (ipv4.hpp): packets are sent and received with completion  *)
(* tokens, groups and routes are set up, and a null pointer resets it all. *)
(***************************************************************************)
EXTENDS CompletionTokens

Ipv4Init == TokensInit /\ events \subseteq Tokens

Ipv4Services ==
  <<"GetModeData", "Configure", "Groups", "Routes", "Transmit", "Receive", "Cancel", "Poll">>

\* Mutant: transmit_ and receive_ stand in the other order.
Ipv4FieldsSwapped ==
  <<"get_mode_data_", "configure_", "groups_", "routes_", "receive_", "transmit_",
    "cancel_", "poll_">>

Ipv4Fields ==
  <<"get_mode_data_", "configure_", "groups_", "routes_", "transmit_", "receive_",
    "cancel_", "poll_">>

Ipv4Service(field) == Behind(Ipv4Fields, Ipv4Services, field)

-----------------------------------------------------------------------------
\* The driver: a transmission ends when it is sent or by transmit_timeout_, a
\* reception by a packet or by receive_timeout_.
Ipv4Ends(t) ==
  /\ held[t] # "none"
  /\ \E word \in {"Success", "Timeout"} : End({t}, All(word))
  /\ UNCHANGED <<configured, ledgers, events, asked>>

-----------------------------------------------------------------------------
\* The methods.

configure ==
  /\ ~configured
  /\ configured' = TRUE
  /\ UNCHANGED <<ledgers, tokens, events>>

reset ==
  /\ configured
  /\ Unconfigure
  /\ UNCHANGED events

groups_(join, group) ==
  /\ configured
  /\ GroupsService(join, group)
  /\ UNCHANGED <<configured, routes, routed, tokens, events>>

join_group(address) == groups_(TRUE, address) /\ Joins(TRUE, address)
leave_group(address) == groups_(FALSE, address) /\ Joins(FALSE, address)
leave_all_groups == groups_(FALSE, nullptr) /\ joined' = {}

routes_(delete, route) ==
  /\ configured
  /\ RoutesService(delete, route)
  /\ UNCHANGED <<configured, groups, joined, tokens, events>>

add_route(route) == routes_(FALSE, route) /\ routed' = routed \cup {route}

\* Mutant: the flag is that of the driver's table, where it says `add`.
delete_routeAdds(route) == routes_(FALSE, route) /\ routed' = routed \ {route}

delete_route(route) == routes_(TRUE, route) /\ routed' = routed \ {route}

transmit(token) ==
  /\ Submit(token, "Transmit", Ipv4Service("transmit_"))
  /\ UNCHANGED <<configured, ledgers, events>>

recieve(token) ==
  /\ Submit(token, "Receive", Ipv4Service("receive_"))
  /\ UNCHANGED <<configured, ledgers, events>>

\* Mutant: the token is not passed on, so that all of them end.
cancelAll(token) ==
  /\ configured
  /\ End(Pending, All("Aborted"))
  /\ asked' = asked \cup (Pending \cap {token})
  /\ UNCHANGED <<configured, ledgers, events>>

cancel(token) ==
  /\ configured
  /\ Cancel(token)
  /\ UNCHANGED <<configured, ledgers, events>>

\* Lets the driver do at once what its timer would have it do later.
poll == configured /\ \E t \in Tokens : Ipv4Ends(t)

Ipv4Next ==
  \/ configure \/ reset \/ leave_all_groups \/ poll
  \/ \E group \in Groups : join_group(group) \/ leave_group(group)
  \/ \E route \in Routes : add_route(route) \/ delete_route(route)
  \/ \E t \in Tokens : transmit(t) \/ recieve(t) \/ Collect(t) \/ Ipv4Ends(t)
  \/ \E token \in Tokens \cup {nullptr} : cancel(token)

=============================================================================
