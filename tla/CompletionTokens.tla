-------------------------- MODULE CompletionTokens --------------------------
(***************************************************************************)
(* What the asynchronous network protocols have in common: the client      *)
(* submits a completion token, the driver holds it, ends it later, writes  *)
(* its status and signals its event; multicast groups and routes are kept  *)
(* by the driver.  The classes give a client no way to set the event of a  *)
(* token: it is there only if the client has written to the object itself. *)
(***************************************************************************)
EXTENDS Status, Sequences

CONSTANTS Tokens,  \* the completion tokens of the client
          Groups,  \* multicast addresses
          Routes,  \* routes, each a subnet, its mask and a gateway
          nullptr,
          NotReadyStatus  \* the word a client takes for "not ready"

ASSUME TokensAssumption == nullptr \notin Tokens \cup Groups

ASSUME NotReadyAssumption ==
  NotReadyStatus \in {FirmwareError("NotReady"), ErrorStatus("NotReady")}

VARIABLES
  configured,  \* the instance has been configured
  held,        \* what the driver holds each token for, "none" if it does not
  groups,      \* the groups the driver has joined
  routes,      \* the routes in its table
  status,      \* the status_ of each token
  filled,      \* the tokens without an event whose data_ points to an answer
  signaled,    \* the tokens whose event is signaled
  events,      \* the tokens that have an event
  wanted,      \* what the client waits for with each token, or "none"
  asked,       \* the tokens it has asked to have back
  joined,      \* the groups it has joined
  routed       \* the routes it has added

ledgers == <<groups, routes, joined, routed>>
tokens == <<held, status, filled, signaled, wanted, asked>>
token_vars == <<configured, ledgers, tokens, events>>

Words == {"Success", "NotReady", "Aborted", "Timeout", "ConnectionFin", "ConnectionReset"}
Purposes == {"Transmit", "Receive", "Connect", "Accept", "Close",
             "HostNameToIp", "IpToHostName", "GeneralLookUp"}

\* The word a driver writes to a token for each of them; those of a connection
\* have no enumerator.
StatusWord(name) ==
  CASE name = "Success"         -> Success
    [] name = "ConnectionFin"   -> status_error_flag + 104
    [] name = "ConnectionReset" -> status_error_flag + 105
    [] OTHER                    -> FirmwareError(name)

\* Those that end although no one else sends anything.
Ending == Purposes \ {"Receive", "Accept"}

TokensTypeOK ==
  /\ configured \in BOOLEAN
  /\ held \in [Tokens -> Purposes \cup {"none"}]
  /\ groups \subseteq Groups
  /\ routes \subseteq Routes
  /\ status \in [Tokens -> Words]
  /\ filled \subseteq Tokens
  /\ signaled \subseteq events
  /\ events \subseteq Tokens
  /\ wanted \in [Tokens -> Purposes \cup {"none"}]
  /\ asked \subseteq Tokens
  /\ joined \subseteq Groups
  /\ routed \subseteq Routes

TokensInit ==
  /\ configured = FALSE
  /\ held = [t \in Tokens |-> "none"]
  /\ groups = {} /\ routes = {}
  /\ status = [t \in Tokens |-> "Success"]
  /\ filled = {} /\ signaled = {}
  /\ wanted = held
  /\ asked = {}
  /\ joined = {} /\ routed = {}

\* The service behind a field: the one at its place in the firmware's table.
Behind(fields, services, field) ==
  services[CHOOSE i \in DOMAIN fields : fields[i] = field]

-----------------------------------------------------------------------------
\* The driver.

Pending == {t \in Tokens : held[t] # "none"}
HeldFor(purposes) == {t \in Tokens : held[t] \in purposes}

\* Tokens end, each with its word; an event is signaled if there is one (the
\* data of the token are not looked at before, and left out).
End(ended, word) ==
  /\ held' = [t \in Tokens |-> IF t \in ended THEN "none" ELSE held[t]]
  /\ status' = [t \in Tokens |-> IF t \in ended THEN word[t] ELSE status[t]]
  /\ filled' = filled \cup {t \in ended \ events : word[t] = "Success"}
  /\ signaled' = signaled \cup (ended \cap events)
  /\ UNCHANGED wanted

All(word) == [t \in Tokens |-> word]

\* A token that is taken is not one the driver has already.
Take(t, service) ==
  /\ configured
  /\ held[t] = "none"
  /\ held' = [held EXCEPT ![t] = service]

\* The client asks for tokens, which end at once.
Abort(ended) ==
  /\ End(ended, All("Aborted"))
  /\ asked' = asked \cup ended

\* A null pointer means all tokens.
Cancel(token) == Abort({t \in Pending : token \in {t, nullptr}})

\* A null address means all groups.
GroupsService(join, group) ==
  groups' = IF join THEN groups \cup {group}
            ELSE IF group = nullptr THEN {} ELSE groups \ {group}

RoutesService(delete, route) ==
  routes' = IF delete THEN routes \ {route} ELSE routes \cup {route}

\* configure_ with a null pointer drops all the instance has.
Unconfigure ==
  /\ configured' = FALSE
  /\ Abort(Pending)
  /\ groups' = {} /\ routes' = {}
  /\ joined' = {} /\ routed' = {}

-----------------------------------------------------------------------------
\* The client.

\* A token that was submitted is left alone until its end has been seen.
Submit(t, purpose, service) ==
  /\ t \in events
  /\ wanted[t] = "none"
  /\ Take(t, service)
  /\ wanted' = [wanted EXCEPT ![t] = purpose]
  /\ asked' = asked \ {t}
  /\ UNCHANGED <<status, filled, signaled>>

\* With an event, the client waits for it; without one all it can do is look
\* whether the status or the data of the token have become what they were not.
\* Status::NotReady is the word of success (see Status), so one that compares
\* with it takes a token that is not ready for one that has ended.
Noticed(t) ==
  IF t \in events THEN t \in signaled
  ELSE t \in filled \/ StatusWord(status[t]) \notin {Success, NotReadyStatus}

\* check_event clears the signal.
Collect(t) ==
  /\ wanted[t] # "none"
  /\ Noticed(t)
  /\ wanted' = [wanted EXCEPT ![t] = "none"]
  /\ signaled' = signaled \ {t}
  /\ UNCHANGED <<configured, ledgers, held, status, filled, events, asked>>

Joins(join, group) ==
  joined' = IF join THEN joined \cup {group} ELSE joined \ {group}

=============================================================================
