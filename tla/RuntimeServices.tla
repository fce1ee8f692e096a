-------------------------- MODULE RuntimeServices --------------------------
(***************************************************************************)
(* The services of runtime_services.hpp: the variable store, its           *)
(* enumeration, the wakeup alarm and the reset of the machine, between a   *)
(* client and the firmware.  The client keeps a ledger of what it was told *)
(* has been written; drivers write variables too, also while the client    *)
(* enumerates them, and the machine may lose its power at any moment.      *)
(***************************************************************************)
EXTENDS Integers

CONSTANTS Names,      \* names of variables, each with its vendor GUID
          Written,    \* the attributes variables are written with
          MaxLength,  \* the length of a variable the store has room for
          Times,      \* times the alarm can be set to
          nullptr,    \* no time, no variable
          start,      \* the empty name an enumeration starts from
          done        \* the enumeration has found no further name

ASSUME RuntimeAssumption == MaxLength \in Nat \ {0}
ASSUME CursorAssumption ==
  /\ {start, done, nullptr} \cap Names = {}
  /\ start # done /\ nullptr \notin {start, done}

VARIABLES
  store,     \* [attributes, length] of each variable, nullptr if there is none
  order,     \* <<m, n>> if the enumeration has the variable m before n
  alarm,     \* the time the machine wakes up at, or nullptr
  phase,     \* "boot" until the boot services end, then "runtime"
  virtual,   \* the runtime services have been given their virtual addresses
  written,   \* the client's ledger of the store
  asked,     \* and of the alarm
  cursor,    \* the name the enumeration has reached, nullptr if there is none
  seen,      \* the names it has returned
  again,     \* and more than once
  touched,   \* the variables written since it has begun
  lost       \* the variable at the cursor was one of them

enumeration == <<cursor, seen, again, touched, lost>>
runtime_vars == <<store, order, alarm, phase, virtual, written, asked, enumeration>>

\* The bits of VariableAttribute that decide on an access and on a write.
VariableAttribute == {"NonVolatile", "BootServiceAccess", "RuntimeAccess", "AppendWrite"}
Access == {"BootServiceAccess", "RuntimeAccess"}
ASSUME WrittenAssumption == Written \subseteq SUBSET VariableAttribute

Kept == SUBSET (VariableAttribute \ {"AppendWrite"})
Variable == [attributes : Kept, length : 1 .. MaxLength]
Answer == [attributes : Kept, length : 1 .. MaxLength, copied : BOOLEAN]
ASSUME NullAssumption == nullptr \notin Variable \cup Answer

Existing == {n \in Names : store[n] # nullptr}

RuntimeTypeOK ==
  /\ store \in [Names -> Variable \cup {nullptr}]
  /\ order \subseteq Existing \X Existing
  /\ \A m, n \in Existing : <<m, n>> \in order <=> m # n /\ <<n, m>> \notin order
  /\ alarm \in Times \cup {nullptr}
  /\ phase \in {"boot", "runtime"}
  /\ virtual \in BOOLEAN
  /\ written \in [Names -> Variable \cup {nullptr}]
  /\ asked \in Times \cup {nullptr}
  /\ cursor \in Names \cup {start, done, nullptr}
  /\ again \subseteq seen
  /\ seen \subseteq Names
  /\ touched \subseteq Names
  /\ lost \in BOOLEAN

NoEnumeration ==
  cursor = nullptr /\ seen = {} /\ again = {} /\ touched = {} /\ lost = FALSE

RuntimeInit ==
  /\ store = [n \in Names |-> nullptr]
  /\ order = {}
  /\ alarm = nullptr
  /\ phase = "boot"
  /\ virtual = FALSE
  /\ written = store
  /\ asked = nullptr
  /\ NoEnumeration

-----------------------------------------------------------------------------
\* The table: its function pointers, and the services the firmware puts in
\* their places.

RuntimeTable ==
  <<"GetTime", "SetTime", "GetWakeupTime", "SetWakeupTime", "SetVirtualAddressMap",
    "ConvertPointer", "GetVariable", "GetNextVariableName", "SetVariable",
    "GetNextHighMonotonicCount", "ResetSystem", "UpdateCapsule",
    "QueryCapsuleCapabilities", "QueryVariableInfo">>

RuntimeFields ==
  <<"get_time_", "set_time_", "get_wakeup_time_", "set_wakeup_time_",
    "set_virtual_address_map_", "convert_pointer_", "get_variable_",
    "get_next_variable_name_", "set_variable_", "get_next_high_monotonic_count_",
    "reset_system_", "update_capsule_", "query_capsule_capabilities_",
    "query_variable_info_">>

\* The service a call through a field enters.
RuntimeBehind(field) == RuntimeTable[CHOOSE i \in DOMAIN RuntimeFields : RuntimeFields[i] = field]

-----------------------------------------------------------------------------
\* The firmware.

Visible(n) ==
  store[n] # nullptr /\ (phase = "runtime" => "RuntimeAccess" \in store[n].attributes)

\* What a write makes of a variable.
Deletes(attributes, size) ==
  attributes \cap Access = {} \/ (size = 0 /\ "AppendWrite" \notin attributes)

Result(old, attributes, size) ==
  IF Deletes(attributes, size) \/ (old = nullptr /\ size = 0) THEN nullptr
  ELSE [attributes |-> attributes \ {"AppendWrite"},
        length |-> size + IF "AppendWrite" \in attributes /\ old # nullptr THEN old.length ELSE 0]

Accepts(n, attributes, size) ==
  /\ "RuntimeAccess" \in attributes => "BootServiceAccess" \in attributes
  /\ store[n] # nullptr =>
       /\ Visible(n)
       /\ Deletes(attributes, size) \/ store[n].attributes = attributes \ {"AppendWrite"}
  /\ store[n] = nullptr => ~Deletes(attributes, size)
  /\ phase = "runtime" =>
       {"NonVolatile", "RuntimeAccess"} \subseteq
         IF store[n] = nullptr THEN attributes ELSE store[n].attributes
  /\ Result(store[n], attributes, size) \in Variable \cup {nullptr}

\* The order of the other variables, and with n behind them.
Without(n) == {pair \in order : pair[1] # n /\ pair[2] # n}
MovedBehind(n) == Without(n) \cup {<<m, n>> : m \in Existing \ {n}}

\* A variable written again may be moved behind the others.
set_variable_(n, attributes, size) ==
  IF ~Accepts(n, attributes, size) THEN UNCHANGED <<store, order>>
  ELSE LET new == Result(store[n], attributes, size) IN
       /\ store' = [store EXCEPT ![n] = new]
       /\ order' \in IF new = nullptr THEN {Without(n)}
                     ELSE {MovedBehind(n)} \cup IF store[n] = nullptr THEN {} ELSE {order}

\* The next visible name, none after the last, an error if the name is gone.
Following(n) ==
  IF n # start /\ ~Visible(n) THEN nullptr
  ELSE LET rest == {m \in Names : Visible(m) /\ (n = start \/ <<n, m>> \in order)} IN
       IF rest = {} THEN done
       ELSE CHOOSE m \in rest : \A other \in rest \ {m} : <<m, other>> \in order

NonVolatile(v) == v # nullptr /\ "NonVolatile" \in v.attributes
Survivors(s) == [n \in Names |-> IF NonVolatile(s[n]) THEN s[n] ELSE nullptr]

\* What remains of the variables when the machine starts again.
Restart ==
  /\ store' = Survivors(store)
  /\ order' = {pair \in order : NonVolatile(store[pair[1]]) /\ NonVolatile(store[pair[2]])}
  /\ phase' = "boot"
  /\ virtual' = FALSE
  /\ UNCHANGED alarm

Forgets ==
  /\ written' = Survivors(written)
  /\ cursor' = nullptr /\ seen' = {} /\ again' = {} /\ touched' = {} /\ lost' = FALSE
  /\ UNCHANGED asked

PowerLoss == Restart /\ Forgets

\* The boot services end.
ExitBoot ==
  /\ phase = "boot"
  /\ phase' = "runtime"
  /\ UNCHANGED <<store, order, alarm, virtual, written, asked, enumeration>>

-----------------------------------------------------------------------------
\* The methods, as the client calls them.

\* Mutant: the bit AppendWrite is masked out with the others that are not
\* kept.
set_variableMasks(n, attributes, size) ==
  /\ IF RuntimeBehind("set_variable_") = "SetVariable"
     THEN set_variable_(n, attributes \ {"AppendWrite"}, size)
     ELSE UNCHANGED <<store, order>>
  /\ written' = IF Accepts(n, attributes, size)
                THEN [written EXCEPT ![n] = Result(@, attributes, size)] ELSE written
  /\ touched' = CASE cursor = nullptr -> {}
                  [] cursor # nullptr /\ Accepts(n, attributes, size) -> touched \cup {n}
                  [] OTHER -> touched
  /\ lost' = (lost \/ (n = cursor /\ Accepts(n, attributes, size)))
  /\ UNCHANGED <<alarm, phase, virtual, asked, cursor, seen, again>>

\* By the client, or a driver of the client's; it learns whether it succeeds.
set_variable(n, attributes, size) ==
  /\ IF RuntimeBehind("set_variable_") = "SetVariable"
     THEN set_variable_(n, attributes, size)
     ELSE UNCHANGED <<store, order>>
  /\ written' = IF Accepts(n, attributes, size)
                THEN [written EXCEPT ![n] = Result(@, attributes, size)] ELSE written
  /\ touched' = CASE cursor = nullptr -> {}
                  [] cursor # nullptr /\ Accepts(n, attributes, size) -> touched \cup {n}
                  [] OTHER -> touched
  /\ lost' = (lost \/ (n = cursor /\ Accepts(n, attributes, size)))
  /\ UNCHANGED <<alarm, phase, virtual, asked, cursor, seen, again>>

\* What a read returns, which is the length and no data into a smaller buffer.
get_variable(n, size) ==
  IF RuntimeBehind("get_variable_") # "GetVariable" \/ ~Visible(n) THEN nullptr
  ELSE [attributes |-> store[n].attributes, length |-> store[n].length,
        copied |-> store[n].length <= size]

begin_enumeration ==
  /\ cursor' = start
  /\ seen' = {} /\ again' = {} /\ touched' = {} /\ lost' = FALSE
  /\ UNCHANGED <<store, order, alarm, phase, virtual, written, asked>>

\* Mutant: a first call is made for the size only, which returns a name too.
get_next_variable_nameTwice ==
  /\ cursor \notin {nullptr, done}
  /\ cursor' = IF Following(cursor) \in Names THEN Following(Following(cursor)) ELSE Following(cursor)
  /\ seen' = seen \cup ({cursor'} \cap Names)
  /\ again' = again \cup ({cursor'} \cap seen)
  /\ UNCHANGED <<store, order, alarm, phase, virtual, written, asked, touched, lost>>

get_next_variable_name ==
  /\ cursor \notin {nullptr, done}
  /\ cursor' = IF RuntimeBehind("get_next_variable_name_") = "GetNextVariableName"
               THEN Following(cursor) ELSE nullptr
  /\ seen' = seen \cup ({cursor'} \cap Names)
  /\ again' = again \cup ({cursor'} \cap seen)
  /\ UNCHANGED <<store, order, alarm, phase, virtual, written, asked, touched, lost>>

\* One overload takes a time and enables the alarm, the other disables it.
set_wakeup_time(time) ==
  /\ alarm' = IF RuntimeBehind("set_wakeup_time_") = "SetWakeupTime" THEN time ELSE alarm
  /\ asked' = time
  /\ UNCHANGED <<store, order, phase, virtual, written, enumeration>>

get_wakeup_time == IF RuntimeBehind("get_wakeup_time_") = "GetWakeupTime" THEN alarm ELSE nullptr

\* Once, after the boot services have ended.
set_virtual_address_map ==
  /\ phase = "runtime"
  /\ ~virtual
  /\ virtual' = (RuntimeBehind("set_virtual_address_map_") = "SetVirtualAddressMap")
  /\ UNCHANGED <<store, order, alarm, phase, written, asked, enumeration>>

\* Both overloads; they do not return.
reset_system ==
  /\ IF RuntimeBehind("reset_system_") = "ResetSystem" THEN Restart
     ELSE UNCHANGED <<store, order, alarm, phase, virtual>>
  /\ Forgets

RuntimeNext ==
  \/ \E n \in Names, attributes \in Written, size \in 0 .. MaxLength :
       set_variable(n, attributes, size)
  \/ \E time \in Times \cup {nullptr} : set_wakeup_time(time)
  \/ begin_enumeration \/ get_next_variable_name
  \/ set_virtual_address_map \/ reset_system \/ ExitBoot \/ PowerLoss

RuntimeSpec == RuntimeInit /\ [][RuntimeNext]_runtime_vars

-----------------------------------------------------------------------------
\* What set_variable and set_wakeup_time were told to write can be read back by
\* get_variable and get_wakeup_time, across appends, refused writes, the end of the
\* boot services, resets and power losses: no more and no less than what must survive.
WritesKept ==
  /\ \A n \in Names, size \in 0 .. MaxLength :
       LET v == get_variable(n, size) IN
       IF v = nullptr
       THEN written[n] = nullptr \/ (phase = "runtime" /\ "RuntimeAccess" \notin written[n].attributes)
       ELSE /\ written[n] = [attributes |-> v.attributes, length |-> v.length]
            /\ v.copied <=> size >= written[n].length
  /\ get_wakeup_time = asked

\* An enumeration that get_next_variable_name has ended returned every variable that nobody
\* has written since it began, exactly once, whatever was written, moved or
\* deleted beside it, unless that was the variable it had just reached.
EnumerationExact ==
  cursor = done /\ ~lost =>
    \A n \in Names \ touched : Visible(n) => n \in seen /\ n \notin again

=============================================================================
