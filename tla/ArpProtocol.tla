---------------------------- MODULE ArpProtocol ----------------------------
(***************************************************************************)
(* ArpProtocol (arp.hpp) between a client and the firmware's driver.  The  *)
(* methods of the class pass their arguments to the function pointers of   *)
(* the interface: here each method is an action that calls the operator of *)
(* its pointer, named as the pointer is.  What is behind the pointers is   *)
(* the driver's, modelled from the signatures and the UEFI specification.  *)
(*                                                                         *)
(* A request is asynchronous.  It returns "not ready", and later a reply,  *)
(* a time-out, a cancel or a reset writes the target and signals the       *)
(* event.  The client waits for the event with check_event of BootServices *)
(* and has one request at most under way with each event.                  *)
(***************************************************************************)
EXTENDS Status, NetCore

CONSTANTS SwAddresses,    \* protocol addresses to be resolved
          Events,         \* events of the client, one target with each
          nullptr,        \* the null pointer
          config,         \* an ArpConfigData
          NotReadyStatus  \* the word the client takes for "not ready"

ASSUME ArpAssumption ==
  /\ nullptr \notin SwAddresses \cup Events \cup {config}
  /\ NotReadyStatus \in {FirmwareError("NotReady"), ErrorStatus("NotReady")}

VARIABLES
  configured,  \* the instance has been configured
  cache,       \* the entry of each protocol address
  requests,    \* the requests under way
  signaled,    \* the state of each event
  target,      \* the MacAddress a request with this event is to fill in
  asked,       \* what the client waits for with each event, or nullptr
  expected,    \* a MacAddress the client compares its results with
  assigned,    \* it was built by operator= and not by the constructor
  call,        \* the method of the last step, if it was a call
  status       \* the word it returned

driver == <<configured, cache>>
memory == <<signaled, target>>
client == <<asked, expected, assigned>>
vars == <<driver, requests, memory, client, call, status>>

Kinds == {"absent", "dynamic", "static", "deny"}
Request == [sw : SwAddresses, event : Events, target : Events]
Call == [method : {"configure", "reset", "add", "delete_entry", "flush", "find", "request",
                   "cancel", "check_event", "none"},
         sw : SwAddresses \cup {nullptr},
         event : Events \cup {nullptr}]

TypeOK ==
  /\ configured \in BOOLEAN
  /\ cache \in [SwAddresses -> [kind : Kinds, hw : Macs]]
  /\ requests \subseteq Request
  /\ signaled \in [Events -> BOOLEAN]
  /\ target \in [Events -> MacAddress]
  /\ asked \in [Events -> SwAddresses \cup {nullptr}]
  /\ expected \in MacAddress
  /\ assigned \in BOOLEAN
  /\ call \in Call
  /\ status \in Word

Absent == [kind |-> "absent", hw |-> zero_mac]
NoCall == [method |-> "none", sw |-> nullptr, event |-> nullptr]

Init ==
  /\ configured = FALSE
  /\ cache = [sw \in SwAddresses |-> Absent]
  /\ requests = {}
  /\ signaled = [e \in Events |-> FALSE]
  /\ target = [e \in Events |-> NewMacAddress]
  /\ asked = [e \in Events |-> nullptr]
  /\ assigned \in BOOLEAN
  /\ \E mac \in Macs :
       IF assigned THEN \E object \in MacAddressOf(zero_mac) : expected = AssignMac(object, mac)
                   ELSE expected \in MacAddressOf(mac)
  /\ call = NoCall
  /\ status = Success

-----------------------------------------------------------------------------
\* The driver.

Returns(word) == status' = word

\* The driver ends requests: the targets get their result, the events are signaled.
End(ended, mac) ==
  /\ requests' = requests \ ended
  /\ target' = [e \in Events |-> IF \E r \in ended : r.target = e
                                 THEN WriteMac(target[e], mac) ELSE target[e]]
  /\ signaled' = [e \in Events |-> signaled[e] \/ \E r \in ended : r.event = e]

NothingEnds == UNCHANGED <<requests, memory>>

Fails(name) ==
  /\ Returns(FirmwareError(name))
  /\ NothingEnds
  /\ UNCHANGED driver

RequestsFor(sw) == {r \in requests : r.sw = sw}

configure_(data) ==
  IF data = nullptr
  THEN /\ configured' = FALSE
       /\ cache' = [sw \in SwAddresses |-> Absent]
       /\ End(requests, zero_mac)
       /\ Returns(Success)
  ELSE IF configured THEN Fails("AccessDenied")
  ELSE /\ configured' = TRUE
       /\ Returns(Success)
       /\ NothingEnds
       /\ UNCHANGED cache

\* A static entry answers the requests that wait for it.
add_(deny_flag, sw, hw, overwrite) ==
  IF ~configured THEN Fails("NotStarted")
  ELSE IF cache[sw].kind # "absent" /\ ~overwrite THEN Fails("AccessDenied")
  ELSE /\ cache' = [cache EXCEPT ![sw] = IF deny_flag THEN [kind |-> "deny", hw |-> zero_mac]
                                         ELSE [kind |-> "static", hw |-> hw]]
       /\ End(IF deny_flag THEN {} ELSE RequestsFor(sw), hw)
       /\ Returns(Success)
       /\ UNCHANGED configured

\* A null address stands for all entries.
Entries(by_sw_address, address) ==
  {sw \in SwAddresses :
     /\ cache[sw].kind # "absent"
     /\ address \in {nullptr, IF by_sw_address THEN sw ELSE cache[sw].hw}}

Forget(gone) ==
  /\ cache' = [sw \in SwAddresses |-> IF sw \in gone THEN Absent ELSE cache[sw]]
  /\ IF gone = {} THEN Returns(FirmwareError("NotFound")) ELSE Returns(Success)
  /\ NothingEnds
  /\ UNCHANGED configured

delete_(by_sw_address, address) ==
  IF ~configured THEN Fails("NotStarted")
  ELSE Forget(Entries(by_sw_address, address))

\* The entries go to a buffer of the driver's, which the model leaves out.
find_(by_sw_address, address) ==
  IF ~configured THEN Fails("NotStarted")
  ELSE IF Entries(by_sw_address, address) = {} THEN Fails("NotFound")
  ELSE /\ Returns(Success)
       /\ NothingEnds
       /\ UNCHANGED driver

flush_ ==
  IF ~configured THEN Fails("NotStarted")
  ELSE Forget({sw \in SwAddresses : cache[sw].kind = "dynamic"})

request_(sw, event, buffer) ==
  IF ~configured THEN Fails("NotStarted")
  ELSE IF cache[sw].kind = "deny" THEN Fails("AccessDenied")
  ELSE IF cache[sw].kind # "absent"
  THEN /\ target' = [target EXCEPT ![buffer] = WriteMac(@, cache[sw].hw)]
       /\ signaled' = [e \in Events |-> signaled[e] \/ e = event]
       /\ Returns(Success)
       /\ UNCHANGED <<driver, requests>>
  ELSE IF event = nullptr THEN Fails("NotReady")
  ELSE /\ requests' = requests \cup {[sw |-> sw, event |-> event, target |-> buffer]}
       /\ Returns(FirmwareError("NotReady"))
       /\ UNCHANGED <<driver, memory>>

\* Two null pointers stand for all requests.
cancel_(sw, event) ==
  IF ~configured THEN Fails("NotStarted")
  ELSE IF (sw = nullptr) # (event = nullptr) THEN Fails("InvalidParameter")
  ELSE LET ended == {r \in requests : \/ sw = nullptr
                                      \/ r.sw = sw /\ r.event = event}
       IN  IF sw # nullptr /\ ended = {} THEN Fails("NotFound")
           ELSE /\ End(ended, zero_mac)
                /\ Returns(Success)
                /\ UNCHANGED driver

\* A host replies, and the driver remembers the address.
Reply(sw, mac) ==
  /\ configured
  /\ RequestsFor(sw) # {}
  /\ cache[sw].kind # "deny"
  /\ cache' = [cache EXCEPT ![sw] = [kind |-> "dynamic", hw |-> mac]]
  /\ End(RequestsFor(sw), mac)
  /\ call' = NoCall
  /\ UNCHANGED <<configured, client, status>>

\* The retries are used up without a reply.
GiveUp(sw) ==
  /\ RequestsFor(sw) # {}
  /\ End(RequestsFor(sw), zero_mac)
  /\ call' = NoCall
  /\ UNCHANGED <<driver, client, status>>

\* An entry times out.
Decay(sw) ==
  /\ cache[sw].kind = "dynamic"
  /\ cache' = [cache EXCEPT ![sw] = Absent]
  /\ call' = NoCall
  /\ NothingEnds
  /\ UNCHANGED <<configured, client, status>>

-----------------------------------------------------------------------------
\* The methods, as a client calls them.

Called(method, sw, event) == call' = [method |-> method, sw |-> sw, event |-> event]

configure ==
  /\ configure_(config)
  /\ Called("configure", nullptr, nullptr)
  /\ UNCHANGED client

\* Mutant: reset hands a configuration over.
resetConfigures ==
  /\ configure_(config)
  /\ Called("reset", nullptr, nullptr)
  /\ UNCHANGED client

reset ==
  /\ configure_(nullptr)
  /\ Called("reset", nullptr, nullptr)
  /\ UNCHANGED client

\* Mutant: the hardware address is lost on the way.
addDropsAddress(deny_flag, sw, hw, overwrite) ==
  /\ add_(deny_flag, sw, nullptr, overwrite)
  /\ Called("add", sw, nullptr)
  /\ UNCHANGED client

add(deny_flag, sw, hw, overwrite) ==
  /\ add_(deny_flag, sw, hw, overwrite)
  /\ Called("add", sw, nullptr)
  /\ UNCHANGED client

delete_entry(by_sw_address, address) ==
  /\ delete_(by_sw_address, address)
  /\ Called("delete_entry", nullptr, nullptr)
  /\ UNCHANGED client

find(by_sw_address, address) ==
  /\ find_(by_sw_address, address)
  /\ Called("find", nullptr, nullptr)
  /\ UNCHANGED client

flush ==
  /\ flush_
  /\ Called("flush", nullptr, nullptr)
  /\ UNCHANGED client

\* Mutant: the event is lost on the way.
requestDropsEvent(sw, event) ==
  /\ asked[event] = nullptr
  /\ request_(sw, nullptr, event)
  /\ Called("request", sw, event)
  /\ asked' = [asked EXCEPT ![event] =
                 IF status' \in {Success, NotReadyStatus} THEN sw ELSE nullptr]
  /\ UNCHANGED <<expected, assigned>>

\* A client that is told "resolved" or "not ready" waits for the event; any
\* other word means to it that the request has failed.
request(sw, event) ==
  /\ asked[event] = nullptr
  /\ request_(sw, event, event)
  /\ Called("request", sw, event)
  /\ asked' = [asked EXCEPT ![event] =
                 IF status' \in {Success, NotReadyStatus} THEN sw ELSE nullptr]
  /\ UNCHANGED <<expected, assigned>>

\* Mutant: both arguments are lost on the way.
cancelDropsArguments(sw, event) ==
  /\ cancel_(nullptr, nullptr)
  /\ Called("cancel", sw, event)
  /\ UNCHANGED client

cancel(sw, event) ==
  /\ cancel_(sw, event)
  /\ Called("cancel", sw, event)
  /\ UNCHANGED client

\* Mutant: the pointer called is the neighbour's, signal_event_.
check_eventSignals(event) ==
  /\ asked[event] # nullptr
  /\ Returns(Success)
  /\ asked' = [asked EXCEPT ![event] = nullptr]
  /\ signaled' = [signaled EXCEPT ![event] = TRUE]
  /\ Called("check_event", nullptr, event)
  /\ UNCHANGED <<driver, requests, target, expected, assigned>>

\* check_event of BootServices clears a signaled event.
check_event(event) ==
  /\ asked[event] # nullptr
  /\ Returns(IF signaled[event] THEN Success ELSE FirmwareError("NotReady"))
  /\ asked' = [asked EXCEPT ![event] = IF signaled[event] THEN nullptr ELSE @]
  /\ signaled' = [signaled EXCEPT ![event] = FALSE]
  /\ Called("check_event", nullptr, event)
  /\ UNCHANGED <<driver, requests, target, expected, assigned>>

-----------------------------------------------------------------------------
Driver ==
  \E sw \in SwAddresses : Decay(sw) \/ GiveUp(sw) \/ \E mac \in Macs : Reply(sw, mac)

Client ==
  \/ configure \/ reset \/ flush
  \/ \E sw \in SwAddresses, hw \in Macs, deny_flag, overwrite \in BOOLEAN :
       add(deny_flag, sw, hw, overwrite)
  \/ \E sw \in SwAddresses \cup {nullptr} : delete_entry(TRUE, sw) \/ find(TRUE, sw)
  \/ \E hw \in Macs : delete_entry(FALSE, hw) \/ find(FALSE, hw)
  \/ \E sw \in SwAddresses, event \in Events : request(sw, event)
  \/ \E sw \in SwAddresses \cup {nullptr}, event \in Events \cup {nullptr} : cancel(sw, event)
  \/ \E event \in Events : check_event(event)

Next == Driver \/ Client

Spec == Init /\ [][Next]_vars

\* The driver's timer counts the retries of every request down.
FairSpec == Spec /\ \A sw \in SwAddresses : WF_vars(GiveUp(sw))

-----------------------------------------------------------------------------
RequestOf(event) == [sw |-> asked[event], event |-> event, target |-> event]

\* No wake-up is lost: a client that waits for an event has a request under
\* way that will signal it, for the address it asked for, or the event is
\* signaled already.  A request lost between request() and the driver, or an
\* event cleared by anyone but check_event, leaves the client waiting for good.
WaitIsBacked ==
  \A e \in Events : asked[e] # nullptr => signaled[e] \/ RequestOf(e) \in requests

\* The driver writes and signals nothing behind the client's back: every request
\* under way is one the client waits for, and an event is signaled once for
\* each request, when nothing is under way with it any more.  A client that
\* takes a request for failed may free its target: a late reply would then write to memory it has given up.
NoStrayWrite ==
  /\ \A r \in requests : asked[r.event] # nullptr /\ r = RequestOf(r.event)
  /\ \A e \in Events : signaled[e] => asked[e] # nullptr /\ RequestOf(e) \notin requests

\* A call ends the requests it names and no others: a cancel of one request
\* leaves the requests of other events and addresses alone.
EndedBy(method, sw, event, r) ==
  \/ method = "reset"
  \/ method = "add" /\ sw = r.sw
  \/ method = "cancel" /\ <<sw, event>> \in {<<nullptr, nullptr>>, <<r.sw, r.event>>}

OthersSpared ==
  [][call'.method # "none" =>
       \A r \in requests : r \notin requests' =>
         EndedBy(call'.method, call'.sw, call'.event, r)]_vars

\* After reset() or a cancel no request that it names is left under way,
\* and each of their events has been signaled.
StoppedAtOnce ==
  [][call'.method = "reset" \/ (call'.method = "cancel" /\ configured) =>
       \A r \in requests : EndedBy(call'.method, call'.sw, call'.event, r) =>
         r \notin requests' /\ signaled'[r.event]]_vars

\* A client that waits for a request sees its event signaled, whatever
\* else is cached, cancelled, denied or reset in the meantime.
RequestsEnd == \A e \in Events : asked[e] # nullptr ~> signaled[e] \/ asked[e] = nullptr

\* A MacAddress assigned from six bytes equals a MacAddress the driver
\* has filled in if and only if the six bytes do: the tails agree because
\* data_{0} and operator= both clear them, and the driver never writes them.
ResultComparable ==
  assigned => \A e \in Events :
    EqualMacAddress(target[e], expected) <=> target[e].mac = expected.mac

\* The same of every MacAddress built from six bytes, by the constructor as well:
\* operator== finds a resolved address equal to the address expected.
ComparesAddresses ==
  \A e \in Events : signaled[e] =>
    (EqualMacAddress(target[e], expected) <=> target[e].mac = expected.mac)

=============================================================================
