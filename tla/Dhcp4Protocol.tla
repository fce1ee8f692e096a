--------------------------- MODULE Dhcp4Protocol ---------------------------
(***************************************************************************)
(* DHCP4Protocol (dhcp.hpp): a client configures the driver, has it obtain *)
(* an address, and uses the address until it is lost.  It reads the state  *)
(* with get_mode_data, and hears from its Dhcp4Callback what happens in    *)
(* between: leases are renewed, rebound, refused and lost by timers.       *)
(* A driver finds the callback or a null pointer: that it finds another    *)
(* word in its place, and calls it, is out of the model.                   *)
(***************************************************************************)
EXTENDS Naturals, Sequences

CONSTANTS MaxTries,  \* discover_try_count_ and request_try_count_
          Handed     \* what a client hands to configure: the name of a class

VARIABLES
  dhcp_state,  \* the Dhcp4State
  tries,       \* the packets sent without an answer
  callback,    \* the driver has the callback of the client
  completion,  \* the event of start or renew_rebind: "none", "pending" or "signaled"
  exchange,    \* the token of transmit_recieve, likewise
  set_up,      \* the configuration of the client is in force
  told         \* the client has an address, as it has been told

dhcp_vars == <<dhcp_state, tries, callback, completion, exchange, set_up, told>>

Dhcp4State ==
  {"Stopped", "Init", "Selecting", "Requesting", "Bound", "Renewing", "Rebinding",
   "InitReboot", "Rebooting"}
Leased == {"Bound", "Renewing", "Rebinding"}

DhcpTypeOK ==
  /\ dhcp_state \in Dhcp4State
  /\ tries \in 0 .. MaxTries
  /\ callback \in BOOLEAN
  /\ completion \in {"none", "pending", "signaled"}
  /\ exchange \in {"none", "pending", "signaled"}
  /\ set_up \in BOOLEAN
  /\ told \in BOOLEAN

DhcpInit ==
  /\ dhcp_state = "Stopped"
  /\ tries = 0
  /\ callback = FALSE
  /\ completion = "none"
  /\ exchange = "none"
  /\ set_up = FALSE
  /\ told = FALSE

-----------------------------------------------------------------------------
\* The objects, by units of eight bytes: every member of Dhcp4ConfigData begins
\* one, and so does config_data_ in a Dhcp4ModeData.

\* Mutant: the callback stands behind its context.
Dhcp4ConfigDataSwapped ==
  <<"discover_try_count_", "discover_timeout_", "request_try_count_", "request_timeout_",
    "client_address_", "callback_context_", "dhcp4_callback_", "option_count_", "option_list_">>

Dhcp4ConfigData ==
  <<"discover_try_count_", "discover_timeout_", "request_try_count_", "request_timeout_",
    "client_address_", "dhcp4_callback_", "callback_context_", "option_count_", "option_list_">>

Dhcp4ModeData == <<"state_">> \o Dhcp4ConfigData

\* The driver reads a Dhcp4ConfigData: the member at each place.
Expected ==
  <<"discover_try_count_", "discover_timeout_", "request_try_count_", "request_timeout_",
    "client_address_", "dhcp4_callback_", "callback_context_", "option_count_", "option_list_">>

Object == IF Handed = "Dhcp4ModeData" THEN Dhcp4ModeData ELSE Dhcp4ConfigData
Reads(member) ==
  \E i \in DOMAIN Expected : Expected[i] = member /\ Object[i] = member

-----------------------------------------------------------------------------
\* The driver.

\* The callback is called with each Dhcp4Event; a client gives the address up
\* when it hears that it is lost.
Calls(event) == told' = (told /\ ~(callback /\ event = "AddressLost"))

Completes ==
  completion' = IF completion = "pending" THEN "signaled" ELSE completion

Keeps == UNCHANGED <<callback, exchange, set_up>>

\* RcvdOffer, SelectOffer, SendRequest.
Offer ==
  /\ dhcp_state = "Selecting"
  /\ dhcp_state' = "Requesting"
  /\ tries' = 0
  /\ Keeps /\ UNCHANGED <<completion, told>>

\* RcvdAck, BoundCompleted.
Ack ==
  /\ dhcp_state \in {"Requesting", "Rebooting", "Renewing", "Rebinding"}
  /\ dhcp_state' = "Bound"
  /\ tries' = 0
  /\ Completes
  /\ Keeps /\ UNCHANGED told

\* The address, if there was one, is no longer the client's.
Lose ==
  /\ dhcp_state' = "Init"
  /\ tries' = 0
  /\ Completes
  /\ Calls("AddressLost")
  /\ Keeps

Nak == dhcp_state \in {"Requesting", "Rebooting", "Renewing", "Rebinding"} /\ Lose

Waits == dhcp_state \in {"Selecting", "Requesting", "Rebooting"}

Resend ==
  /\ Waits
  /\ tries < MaxTries
  /\ tries' = tries + 1
  /\ Keeps /\ UNCHANGED <<dhcp_state, completion, told>>

Fail == Waits /\ tries = MaxTries /\ Lose

\* EnterRenewing after half of the lease, EnterRebinding, and its end.
EnterRenewing ==
  /\ dhcp_state = "Bound"
  /\ dhcp_state' = "Renewing"
  /\ Keeps /\ UNCHANGED <<tries, completion, told>>

EnterRebinding ==
  /\ dhcp_state = "Renewing"
  /\ dhcp_state' = "Rebinding"
  /\ Keeps /\ UNCHANGED <<tries, completion, told>>

Expires == dhcp_state = "Rebinding" /\ Lose

\* A response, or timeout_value_.
ExchangeEnds ==
  /\ exchange = "pending"
  /\ exchange' = "signaled"
  /\ UNCHANGED <<dhcp_state, tries, callback, completion, set_up, told>>

Progress == Offer \/ Ack \/ Nak \/ Resend \/ Fail \/ EnterRebinding \/ Expires
DhcpDriver == Progress \/ EnterRenewing \/ ExchangeEnds

-----------------------------------------------------------------------------
\* The methods.

Configurable == dhcp_state \in {"Stopped", "Init", "InitReboot", "Bound"}

\* `earlier`: client_address_ is an address the client had before.  In a
\* Dhcp4ModeData it is zero, as are the timeouts: the driver would call what stands
\* there, and take a pointer for the address.
configure(earlier) ==
  /\ Configurable
  /\ earlier => Reads("client_address_")
  /\ callback' = Reads("dhcp4_callback_")
  /\ dhcp_state' = IF dhcp_state # "Stopped" THEN dhcp_state
                   ELSE IF earlier THEN "InitReboot" ELSE "Init"
  /\ set_up' = TRUE
  /\ UNCHANGED <<tries, completion, exchange, told>>

\* The client gives up what it has.
reset ==
  /\ Configurable
  /\ callback' = FALSE
  /\ set_up' = FALSE
  /\ told' = FALSE
  /\ UNCHANGED <<dhcp_state, tries, completion, exchange>>

start ==
  /\ dhcp_state \in {"Init", "InitReboot"}
  /\ completion = "none"
  /\ dhcp_state' = IF dhcp_state = "Init" THEN "Selecting" ELSE "Rebooting"
  /\ tries' = 0
  /\ completion' = "pending"
  /\ UNCHANGED <<callback, exchange, set_up, told>>

renew_rebind(rebind_request) ==
  /\ dhcp_state = "Bound"
  /\ completion = "none"
  /\ dhcp_state' = IF rebind_request THEN "Rebinding" ELSE "Renewing"
  /\ completion' = "pending"
  /\ UNCHANGED <<tries, callback, exchange, set_up, told>>

release ==
  /\ dhcp_state \in {"Bound", "InitReboot"}
  /\ dhcp_state' = "Init"
  /\ told' = FALSE
  /\ UNCHANGED <<tries, callback, completion, exchange, set_up>>

\* What is under way is given up, and the client waits for it no longer.
stop ==
  /\ dhcp_state' = "Stopped"
  /\ tries' = 0
  /\ completion' = "none"
  /\ told' = FALSE
  /\ UNCHANGED <<callback, exchange, set_up>>

\* The event of the token clears when the client looks.
transmit_recieve ==
  /\ exchange = "none"
  /\ exchange' = "pending"
  /\ UNCHANGED <<dhcp_state, tries, callback, completion, set_up, told>>

Collects ==
  /\ exchange = "signaled"
  /\ exchange' = "none"
  /\ UNCHANGED <<dhcp_state, tries, callback, completion, set_up, told>>

\* The client looks at the mode, also when its event is signaled.
get_mode_data ==
  /\ told' = (set_up /\ dhcp_state \in Leased)
  /\ completion' = IF completion = "signaled" THEN "none" ELSE completion
  /\ UNCHANGED <<dhcp_state, tries, callback, exchange, set_up>>

DhcpNext ==
  \/ \E earlier \in BOOLEAN : configure(earlier)
  \/ \E rebind_request \in BOOLEAN : renew_rebind(rebind_request)
  \/ reset \/ start \/ release \/ stop \/ transmit_recieve \/ Collects \/ get_mode_data
  \/ DhcpDriver

DhcpSpec == DhcpInit /\ [][DhcpNext]_dhcp_vars

-----------------------------------------------------------------------------
\* A client that has been told of its address uses it only while the lease lasts: what it
\* read with get_mode_data is corrected by the callback that it has put into
\* the Dhcp4ConfigData, whenever the address is refused or lost.
LeaseAsTold == told => dhcp_state \in Leased

=============================================================================
