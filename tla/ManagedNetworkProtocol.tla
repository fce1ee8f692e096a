----------------------- MODULE ManagedNetworkProtocol -----------------------
(***************************************************************************)
(* ManagedNetworkProtocol (managed_network.hpp): frames with completion    *)
(* tokens and multicast groups.  A client that disables the background     *)
(* polling must poll itself, or none of its tokens ever ends.              *)
(***************************************************************************)
EXTENDS CompletionTokens

VARIABLE disable_background_polling_  \* of the configuration

mnp_vars == <<token_vars, disable_background_polling_>>

MnpInit ==
  /\ TokensInit
  /\ events \subseteq Tokens
  /\ disable_background_polling_ = FALSE

MnpServices ==
  <<"GetModeData", "Configure", "McastIpToMac", "Groups", "Transmit", "Receive",
    "Cancel", "Poll">>

MnpFields ==
  <<"get_mode_data_", "configure_", "mcast_ip_to_mac_", "groups_", "transmit_",
    "receive_", "cancel_", "poll_">>

MnpService(field) == Behind(MnpFields, MnpServices, field)

-----------------------------------------------------------------------------
\* The driver looks after its tokens from a timer or when it is polled.
MnpProgress(t) ==
  /\ held[t] # "none"
  /\ \E word \in {"Success", "Timeout"} : End({t}, All(word))
  /\ UNCHANGED <<configured, ledgers, events, asked, disable_background_polling_>>

MnpEnds(t) == ~disable_background_polling_ /\ MnpProgress(t)

-----------------------------------------------------------------------------
\* The methods.

\* Also an instance that is configured already; a null pointer resets it.
configure(config_data) ==
  IF config_data = nullptr
  THEN configured /\ Unconfigure /\ disable_background_polling_' = FALSE /\ UNCHANGED events
  ELSE /\ configured' = TRUE
       /\ disable_background_polling_' = config_data.disable_background_polling_
       /\ UNCHANGED <<ledgers, tokens, events>>

groups_(join, mac_address) ==
  /\ configured
  /\ GroupsService(join, mac_address)
  /\ UNCHANGED <<configured, routes, routed, tokens, events, disable_background_polling_>>

join_group(mac_address) == groups_(TRUE, mac_address) /\ Joins(TRUE, mac_address)
leave_group(mac_address) == groups_(FALSE, mac_address) /\ Joins(FALSE, mac_address)

leave_all_groups == groups_(FALSE, nullptr) /\ joined' = {}

transmit(token) ==
  /\ Submit(token, "Transmit", MnpService("transmit_"))
  /\ UNCHANGED <<configured, ledgers, events, disable_background_polling_>>

receive(token) ==
  /\ Submit(token, "Receive", MnpService("receive_"))
  /\ UNCHANGED <<configured, ledgers, events, disable_background_polling_>>

cancel(token) ==
  /\ configured
  /\ MnpService("cancel_") = "Cancel"
  /\ Cancel(token)
  /\ UNCHANGED <<configured, ledgers, events, disable_background_polling_>>

\* What is due of a token is done by the call.
poll(t) == configured /\ MnpService("poll_") = "Poll" /\ MnpProgress(t)

MnpNext ==
  \/ \E polling \in BOOLEAN : configure([disable_background_polling_ |-> polling])
  \/ configure(nullptr)
  \/ leave_all_groups
  \/ \E group \in Groups : join_group(group) \/ leave_group(group)
  \/ \E t \in Tokens :
       \/ transmit(t) \/ receive(t) \/ MnpEnds(t) \/ poll(t)
       \/ Collect(t) /\ UNCHANGED disable_background_polling_
  \/ \E token \in Tokens \cup {nullptr} : cancel(token)

=============================================================================
