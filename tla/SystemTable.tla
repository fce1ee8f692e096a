---------------------------- MODULE SystemTable ----------------------------
(***************************************************************************)
(* The configuration tables of SystemTable (system_table.hpp): the three   *)
(* methods that read them, one step per load, against a firmware that      *)
(* installs and removes tables in notification functions.                  *)
(*                                                                         *)
(* Neither method takes a lock or raises the TPL: each loads               *)
(* configuration_table_ and num_table_entries_ separately and walks memory *)
(* the firmware may shift or release meanwhile.  A notification runs to    *)
(* its end before the interrupted method goes on, so it is one step here.  *)
(* One call is in progress at a time: the methods share nothing but the    *)
(* table, which they do not write.                                         *)
(***************************************************************************)
EXTENDS Status

CONSTANTS Guids,      \* vendor GUIDs
          Addresses,  \* where the firmware may place the array of tables
          nullptr,    \* the null pointer
          MaxTables   \* bound on the number of tables

ASSUME TablesAssumption ==
  /\ MaxTables \in Nat \ {0}
  /\ nullptr \notin Addresses
  /\ nullptr \notin Guids

VARIABLES
  configuration_table_,  \* the address of the array
  num_table_entries_,    \* its number of tables
  entries,               \* the GUID in each slot of the array
  extent,                \* the slots written since it was allocated
  masked,                \* the client has raised the TPL
  pc,                    \* the next step of the method, "idle" between calls
  method,                \* the method called last
  guid,                  \* the parameter `guid` of find
  i,                     \* the parameter `index` of get, the loop index of find
  span_data, span_size,  \* the span the method has built
  entry,                 \* *entry: an address and a slot, or Null
  status,                \* the word returned by the last call
  disturbed,             \* a table came or went since the call began
  guarded                \* the TPL has been raised ever since the call began

firmware == <<configuration_table_, num_table_entries_, entries, extent>>
locals == <<method, guid, i, span_data, span_size>>
result == <<entry, status>>
history == <<disturbed, guarded>>
vars == <<firmware, masked, pc, locals, result, history>>

Slots == 0 .. MaxTables - 1
Null == <<nullptr, 0>>

TypeOK ==
  /\ configuration_table_ \in Addresses
  /\ num_table_entries_ \in 0 .. MaxTables
  /\ entries \in [Slots -> Guids]
  /\ extent \in 0 .. MaxTables
  /\ masked \in BOOLEAN
  /\ pc \in {"idle", "load", "load_size", "load_data", "scan", "check", "address"}
  /\ method \in {"none", "find", "get", "tables"}
  /\ guid \in Guids
  /\ i \in 0 .. MaxTables + 1
  /\ span_data \in Addresses
  /\ span_size \in 0 .. MaxTables
  /\ entry \in (Addresses \X (0 .. MaxTables)) \cup {Null}
  /\ status \in Word
  /\ disturbed \in BOOLEAN
  /\ guarded \in BOOLEAN

Used == 0 .. num_table_entries_ - 1
Installed == {entries[s] : s \in Used}

\* The firmware files at most one table under a GUID.
UniqueGuids == \A s, t \in Used : entries[s] = entries[t] => s = t

Init ==
  /\ configuration_table_ \in Addresses
  /\ num_table_entries_ \in 0 .. MaxTables
  /\ entries \in [Slots -> Guids]
  /\ UniqueGuids
  /\ extent = num_table_entries_
  /\ masked = FALSE
  /\ pc = "idle"
  /\ method = "none"
  /\ guid \in Guids
  /\ i = 0
  /\ span_data = configuration_table_
  /\ span_size = 0
  /\ entry = Null
  /\ status = Success
  /\ disturbed = FALSE
  /\ guarded = FALSE

-----------------------------------------------------------------------------
\* The firmware.  Its notification functions run unless the TPL is raised.

\* Mutant: raise_tpl does not reach the firmware.
PreemptsAlways == TRUE

Preempts == ~masked

\* A table under a new GUID is appended; a table under a known GUID only
\* gets another vendor_table, which no method looks at.
Append(g) ==
  /\ Preempts
  /\ num_table_entries_ < MaxTables
  /\ g \notin Installed
  /\ entries' = [entries EXCEPT ![num_table_entries_] = g]
  /\ num_table_entries_' = num_table_entries_ + 1
  /\ disturbed' = TRUE
  /\ UNCHANGED <<masked, pc, locals, result, guarded>>

InstallInPlace(g) ==
  /\ Append(g)
  /\ extent' = IF extent > num_table_entries_ THEN extent ELSE num_table_entries_ + 1
  /\ UNCHANGED configuration_table_

\* The tables are copied to a larger array and the old one is released.
InstallMoved(g, address) ==
  /\ Append(g)
  /\ address # configuration_table_
  /\ configuration_table_' = address
  /\ extent' = num_table_entries_ + 1

\* The tables after slot s move one slot down; the last slot keeps its GUID.
Remove(s) ==
  /\ Preempts
  /\ entries' = [t \in Slots |-> IF s <= t /\ t + 1 \in Used THEN entries[t + 1] ELSE entries[t]]
  /\ num_table_entries_' = num_table_entries_ - 1
  /\ disturbed' = TRUE
  /\ UNCHANGED <<configuration_table_, extent, masked, pc, locals, result, guarded>>

-----------------------------------------------------------------------------
\* The client raises and restores the TPL between its calls.

RaiseTPL ==
  /\ pc = "idle"
  /\ ~masked
  /\ masked' = TRUE
  /\ UNCHANGED <<firmware, pc, locals, result, history>>

RestoreTPL ==
  /\ pc = "idle"
  /\ masked
  /\ masked' = FALSE
  /\ guarded' = FALSE
  /\ UNCHANGED <<firmware, pc, locals, result, disturbed>>

-----------------------------------------------------------------------------
\* The methods.

Call(m, first) ==
  /\ pc = "idle"
  /\ pc' = first
  /\ method' = m
  /\ disturbed' = FALSE
  /\ guarded' = masked
  /\ UNCHANGED <<firmware, masked, span_data, span_size>>

Return(where, word) ==
  /\ pc' = "idle"
  /\ entry' = where
  /\ status' = word
  /\ UNCHANGED <<firmware, masked, locals, history>>

find_configuration_table(g) ==
  /\ Call("find", "load")
  /\ guid' = g
  /\ i' = 0
  /\ UNCHANGED result

configuration_tables ==
  /\ Call("tables", "load")
  /\ UNCHANGED <<guid, i, result>>

get_configuration_table(index) ==
  /\ Call("get", "check")
  /\ i' = index
  /\ UNCHANGED <<guid, result>>

\* get_configuration_table with a null `entry`: nothing is written.
get_configuration_table_null ==
  /\ Call("none", "idle")
  /\ status' = ErrorStatus("InvalidParameter")
  /\ UNCHANGED <<guid, i, entry>>

\* The span is built from two loads, in the order the compiler chose.
SpanBuilt == pc' = IF method = "find" THEN "scan" ELSE "idle"

LoadData ==
  /\ pc \in {"load", "load_data"}
  /\ span_data' = configuration_table_
  /\ IF pc = "load" THEN pc' = "load_size" ELSE SpanBuilt
  /\ UNCHANGED <<firmware, masked, method, guid, i, span_size, result, history>>

\* Mutant: the span is one table too long.
LoadSizePastEnd ==
  /\ pc \in {"load", "load_size"}
  /\ span_size' = num_table_entries_ + 1
  /\ IF pc = "load" THEN pc' = "load_data" ELSE SpanBuilt
  /\ UNCHANGED <<firmware, masked, method, guid, i, span_data, result, history>>

LoadSize ==
  /\ pc \in {"load", "load_size"}
  /\ span_size' = num_table_entries_
  /\ IF pc = "load" THEN pc' = "load_data" ELSE SpanBuilt
  /\ UNCHANGED <<firmware, masked, method, guid, i, span_data, result, history>>

\* A slot of a released array, or one never written, may hold any GUID.
Readable(address, s) == address = configuration_table_ /\ s < extent

Matches ==
  IF Readable(span_data, i) THEN {entries[i] = guid} ELSE BOOLEAN

ScanHit ==
  /\ pc = "scan"
  /\ i < span_size
  /\ TRUE \in Matches
  /\ Return(<<span_data, i>>, Success)

\* Mutants: the loop forgets ++, or steps over a table.
ScanMissStuck ==
  /\ pc = "scan"
  /\ i < span_size
  /\ FALSE \in Matches
  /\ UNCHANGED <<firmware, masked, pc, locals, result, history>>

ScanMissSkips ==
  /\ pc = "scan"
  /\ i < span_size
  /\ FALSE \in Matches
  /\ i' = IF i + 2 < span_size THEN i + 2 ELSE span_size
  /\ UNCHANGED <<firmware, masked, pc, method, guid, span_data, span_size, result, history>>

ScanMiss ==
  /\ pc = "scan"
  /\ i < span_size
  /\ FALSE \in Matches
  /\ i' = i + 1
  /\ UNCHANGED <<firmware, masked, pc, method, guid, span_data, span_size, result, history>>

\* Mutant: the entry is not reset when the loop finds nothing.
ScanEndKeepsEntry ==
  /\ pc = "scan"
  /\ i = span_size
  /\ Return(entry, ErrorStatus("NotFound"))

ScanEnd ==
  /\ pc = "scan"
  /\ i = span_size
  /\ Return(Null, ErrorStatus("NotFound"))

\* Mutant: the bounds check is dropped.
IndexNeverRefused == FALSE

IndexRefused == i > num_table_entries_

GetRefuse ==
  /\ pc = "check"
  /\ IndexRefused
  /\ Return(Null, ErrorStatus("InvalidParameter"))

GetAccept ==
  /\ pc = "check"
  /\ ~IndexRefused
  /\ pc' = "address"
  /\ UNCHANGED <<firmware, masked, locals, result, history>>

GetAddress ==
  /\ pc = "address"
  /\ Return(<<configuration_table_, i>>, Success)

-----------------------------------------------------------------------------
Firmware ==
  \/ \E g \in Guids : InstallInPlace(g)
  \/ \E g \in Guids, address \in Addresses : InstallMoved(g, address)
  \/ \E s \in Used : Remove(s)

Client ==
  \/ RaiseTPL \/ RestoreTPL
  \/ \E g \in Guids : find_configuration_table(g)
  \/ configuration_tables
  \/ \E index \in 0 .. MaxTables + 1 : get_configuration_table(index)
  \/ get_configuration_table_null

Step ==
  \/ LoadData \/ LoadSize
  \/ ScanHit \/ ScanMiss \/ ScanEnd
  \/ GetRefuse \/ GetAccept \/ GetAddress

Next == Firmware \/ Client \/ Step

Spec == Init /\ [][Next]_vars

\* A notification returns to the code it interrupted, so a method that has
\* begun goes on; nobody owes the client a table or the firmware a call.
FairSpec == Spec /\ WF_vars(Step)

-----------------------------------------------------------------------------
Returned(m) == pc = "idle" /\ method = m

LookupExact ==
  IF guid \in Installed
  THEN \E s \in Used : entries[s] = guid /\ entry = <<configuration_table_, s>>
  ELSE entry = Null

\* If no table came or went since find_configuration_table was called, then the
\* entry it has returned, if any, is one of the array in use and holds
\* the GUID, and no entry means that the GUID has no table.
FindExact == Returned("find") /\ ~disturbed => LookupExact

\* The same of every lookup made at a raised TPL, until the TPL is restored:
\* raise_tpl is what the library offers to keep the table still.
GuardedFindExact == Returned("find") /\ guarded => LookupExact

\* While the table is as it was at the call, the loop of find_configuration_table
\* reads only written slots of the array in use, never beyond the end.
ReadsInBounds ==
  pc = "scan" /\ i < span_size /\ ~disturbed => Readable(span_data, i)

\* get_configuration_table resolves the index of a table to that table, and
\* turns an index beyond the array down, if the table did not change.
GetResolves ==
  Returned("get") /\ ~disturbed =>
    /\ i < num_table_entries_ => entry = <<configuration_table_, i>>
    /\ i > num_table_entries_ => entry = Null

\* The span of configuration_tables() covers the tables, no more and no less,
\* unless the table changed between its two loads or after.
SpanWhole ==
  Returned("tables") /\ ~disturbed =>
    /\ span_data = configuration_table_
    /\ span_size = num_table_entries_
    /\ \A s \in 0 .. span_size - 1 : Readable(span_data, s)

\* Every call returns, however often the table changes under it.
CallsReturn == pc # "idle" ~> pc = "idle"

\* What the enumerators are for: a find_configuration_table that found nothing returns a word that
\* status_is_error tells from success (core.hpp).
FailureIsReported ==
  Returned("find") /\ entry = Null => status_is_error(status)

\* get_configuration_table checks its index so as to hand out tables of the
\* array only.
GetInBounds ==
  Returned("get") /\ ~disturbed /\ entry # Null => entry[2] < num_table_entries_

\* find_configuration_table implements the abstract lookup.
Finding == method = "find"
Registry == INSTANCE ConfigurationRegistry WITH
  Guids <- Guids,
  NoGuid <- nullptr,
  installed <- Installed,
  asked <- IF Finding THEN guid ELSE nullptr,
  busy <- Finding /\ pc # "idle",
  changed <- Finding /\ disturbed,
  answer <- IF ~Returned("find") THEN "none"
            ELSE IF entry = Null THEN "missing" ELSE "found"
RegistrySpec == Registry!Spec

=============================================================================
