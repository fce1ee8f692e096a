------------------------- MODULE SystemTableProofs -------------------------
(***************************************************************************)
(* Proofs about SystemTable, for every set of GUIDs and addresses, every   *)
(* number of tables and every width of a status word.                      *)
(***************************************************************************)
EXTENDS SystemTable, StatusProofs

\* The three words the methods return.
LEMMA ReturnedWords ==
  /\ Success \in Word
  /\ ErrorStatus("NotFound") = 0
  /\ ErrorStatus("InvalidParameter") = 0
<1>1. {"NotFound", "InvalidParameter"} \subseteq DOMAIN ErrorNumber
  BY DEF ErrorNumber
<1> QED BY <1>1, Words, ErrorsEqualSuccess DEF Success

-----------------------------------------------------------------------------
(* The inductive invariant.                                                *)

\* The firmware's side: unique GUIDs, all of them in written slots.
Shape == UniqueGuids /\ num_table_entries_ <= extent

\* A raised TPL keeps the table still.
Masking == guarded => masked /\ ~disturbed

\* Where each method can be, and the bounds its locals keep in any case.
Control ==
  /\ pc \in {"load", "load_size", "load_data"} =>
       method \in {"find", "tables"} /\ (method = "find" => i = 0)
  /\ pc = "scan" => method = "find" /\ i <= span_size
  /\ pc \in {"check", "address"} => method = "get"
  /\ pc = "address" => i <= MaxTables

\* What a method knows of the table, as long as nobody touches it: the loads
\* it has made are still right, and the slots it has passed do not match.
Knowledge ==
  ~disturbed =>
    /\ pc \in {"load_size", "scan"} => span_data = configuration_table_
    /\ pc \in {"load_data", "scan"} => span_size = num_table_entries_
    /\ pc = "scan" => \A s \in 0 .. i - 1 : entries[s] # guid
    /\ pc = "address" => i <= num_table_entries_

IInv ==
  /\ TypeOK /\ Shape /\ Masking /\ Control /\ Knowledge
  /\ FindExact /\ GetResolves /\ SpanWhole

-----------------------------------------------------------------------------
(* Every state the system starts in satisfies the invariant.               *)

LEMMA InitIInv == Init => IInv
<1> SUFFICES ASSUME Init PROVE IInv
  OBVIOUS
<1>1. TypeOK
  <2>1. i \in 0 .. MaxTables + 1 /\ span_size \in 0 .. MaxTables
    BY TablesAssumption DEF Init
  <2>2. entry \in (Addresses \X (0 .. MaxTables)) \cup {Null}
    BY DEF Init
  <2>3. span_data \in Addresses /\ status \in Word
    BY ReturnedWords DEF Init
  <2> QED BY <2>1, <2>2, <2>3 DEF Init, TypeOK
<1>2. Shape
  BY <1>1 DEF Init, Shape, TypeOK
<1>3. Masking /\ Control /\ Knowledge
  BY DEF Init, Masking, Control, Knowledge
<1>4. FindExact /\ GetResolves /\ SpanWhole
  BY DEF Init, FindExact, GetResolves, SpanWhole, Returned
<1> QED BY <1>1, <1>2, <1>3, <1>4 DEF IInv

-----------------------------------------------------------------------------
(* Every step preserves it.                                                *)

\* Installing a table keeps the array well formed, wherever it is put.
LEMMA AppendStep ==
  ASSUME IInv, NEW g \in Guids, Append(g),
         configuration_table_' \in Addresses,
         extent' \in 0 .. MaxTables, num_table_entries_' <= extent'
  PROVE  IInv'
<1> USE TablesAssumption DEF IInv
<1>1. TypeOK'
  BY DEF Append, TypeOK, Slots, locals, result
<1>2. Shape'
  <2>1. ASSUME NEW s \in Used', NEW t \in Used', entries'[s] = entries'[t]
        PROVE  s = t
    <3>1. \A u \in Used : u \in Slots /\ u # num_table_entries_ /\ entries'[u] = entries[u]
      BY DEF Append, Used, TypeOK, Slots
    <3>2. num_table_entries_ \in Slots /\ entries'[num_table_entries_] = g
      BY DEF Append, TypeOK, Slots
    <3>3. Used' = Used \cup {num_table_entries_}
      BY DEF Append, TypeOK, Used
    <3>4. \A u \in Used : entries'[u] # g
      BY <3>1 DEF Append, Installed
    <3> QED BY <2>1, <3>1, <3>2, <3>3, <3>4 DEF Shape, UniqueGuids
  <2> QED BY <2>1 DEF Shape, UniqueGuids
<1>3. Masking' /\ Control' /\ Knowledge'
  BY DEF Append, Preempts, Masking, Control, Knowledge, locals
<1>4. FindExact' /\ GetResolves' /\ SpanWhole'
  BY DEF Append, FindExact, GetResolves, SpanWhole
<1> QED BY <1>1, <1>2, <1>3, <1>4

\* Removing a table keeps the array well formed.
LEMMA RemoveStep ==
  ASSUME IInv, NEW s \in Used, Remove(s)
  PROVE  IInv'
<1> USE TablesAssumption DEF IInv
<1>a. s \in Int /\ num_table_entries_ \in 1 .. MaxTables /\ Used \subseteq Slots
  BY TablesAssumption DEF TypeOK, Used, Slots
<1>b. entries \in [Slots -> Guids]
  BY DEF TypeOK
<1>1. TypeOK'
  <2>1. \A t \in Slots : (IF s <= t /\ t + 1 \in Used THEN entries[t + 1] ELSE entries[t]) \in Guids
    BY <1>a, <1>b
  <2>2. entries' \in [Slots -> Guids]
    BY <2>1 DEF Remove
  <2>3. num_table_entries_' \in 0 .. MaxTables
    BY <1>a DEF Remove
  <2> QED BY <2>2, <2>3 DEF Remove, TypeOK, Slots, locals, result
<1>2. Shape'
  <2> DEFINE from(t) == IF s <= t THEN t + 1 ELSE t
  <2>0. Used' = 0 .. num_table_entries_ - 2
    BY <1>a DEF Remove, Used
  <2>1. \A t \in Used' : t \in Slots /\ from(t) \in Used /\ entries'[t] = entries[from(t)]
    <3> SUFFICES ASSUME NEW t \in Used'
                 PROVE  t \in Slots /\ from(t) \in Used /\ entries'[t] = entries[from(t)]
      OBVIOUS
    <3>0. t \in 0 .. num_table_entries_ - 2
      BY <2>0
    <3>1. t \in Used /\ t + 1 \in Used /\ t \in Slots
      BY <1>a, <3>0 DEF Used
    <3>2. entries'[t] = IF s <= t THEN entries[t + 1] ELSE entries[t]
      BY <3>1 DEF Remove
    <3> QED BY <3>1, <3>2
  <2>2. \A t, u \in Used' : from(t) = from(u) => t = u
    BY DEF Used, TypeOK
  <2>3. UniqueGuids'
    BY <2>1, <2>2 DEF Shape, UniqueGuids
  <2>4. (num_table_entries_ <= extent)'
    BY DEF Remove, Shape, TypeOK
  <2> QED BY <2>3, <2>4 DEF Shape
<1>3. Masking' /\ Control' /\ Knowledge'
  BY DEF Remove, Preempts, Masking, Control, Knowledge, locals
<1>4. FindExact' /\ GetResolves' /\ SpanWhole'
  BY DEF Remove, FindExact, GetResolves, SpanWhole
<1> QED BY <1>1, <1>2, <1>3, <1>4

\* Raising and restoring the TPL: a guarded call stops being guarded.
LEMMA TPLStep ==
  ASSUME IInv, RaiseTPL \/ RestoreTPL
  PROVE  IInv'
<1> USE DEF IInv, RaiseTPL, RestoreTPL, firmware, locals, result, history
<1>1. TypeOK'
  BY DEF TypeOK, Slots
<1>2. Shape' /\ Masking' /\ Control' /\ Knowledge'
  BY DEF Shape, UniqueGuids, Used, Masking, Control, Knowledge
<1>3. FindExact' /\ GetResolves' /\ SpanWhole'
  BY DEF FindExact, GetResolves, SpanWhole, Returned, LookupExact, Installed, Used, Readable
<1> QED BY <1>1, <1>2, <1>3

\* Entering a method: nothing has been touched since it began.
LEMMA CallStep ==
  ASSUME IInv,
         \/ \E g \in Guids : find_configuration_table(g)
         \/ configuration_tables
         \/ \E index \in 0 .. MaxTables + 1 : get_configuration_table(index)
         \/ get_configuration_table_null
  PROVE  IInv'
<1> USE TablesAssumption DEF IInv, Call, firmware, result
<1>1. CASE \E g \in Guids : find_configuration_table(g)
  <2> USE <1>1 DEF find_configuration_table
  <2>1. TypeOK'
    <3>1. i' \in 0 .. MaxTables + 1 /\ guid' \in Guids
      OBVIOUS
    <3> QED BY <3>1 DEF TypeOK, Slots
  <2>2. Shape' /\ Masking' /\ Control' /\ Knowledge'
    BY DEF Shape, UniqueGuids, Used, Masking, Control, Knowledge
  <2>3. FindExact' /\ GetResolves' /\ SpanWhole'
    BY DEF FindExact, GetResolves, SpanWhole, Returned
  <2> QED BY <2>1, <2>2, <2>3
<1>2. CASE configuration_tables
  <2> USE <1>2 DEF configuration_tables
  <2>1. TypeOK'
    BY DEF TypeOK, Slots
  <2>2. Shape' /\ Masking' /\ Control' /\ Knowledge'
    BY DEF Shape, UniqueGuids, Used, Masking, Control, Knowledge
  <2>3. FindExact' /\ GetResolves' /\ SpanWhole'
    BY DEF FindExact, GetResolves, SpanWhole, Returned
  <2> QED BY <2>1, <2>2, <2>3
<1>3. CASE \E index \in 0 .. MaxTables + 1 : get_configuration_table(index)
  <2> USE <1>3 DEF get_configuration_table
  <2>1. TypeOK'
    BY DEF TypeOK, Slots
  <2>2. Shape' /\ Masking' /\ Control' /\ Knowledge'
    BY DEF Shape, UniqueGuids, Used, Masking, Control, Knowledge
  <2>3. FindExact' /\ GetResolves' /\ SpanWhole'
    BY DEF FindExact, GetResolves, SpanWhole, Returned
  <2> QED BY <2>1, <2>2, <2>3
<1>4. CASE get_configuration_table_null
  <2> USE <1>4 DEF get_configuration_table_null
  <2>1. TypeOK'
    <3>1. status' \in Word
      BY ReturnedWords DEF Success
    <3> QED BY <3>1 DEF TypeOK, Slots
  <2>2. Shape' /\ Masking' /\ Control' /\ Knowledge'
    BY DEF Shape, UniqueGuids, Used, Masking, Control, Knowledge
  <2>3. FindExact' /\ GetResolves' /\ SpanWhole'
    BY DEF FindExact, GetResolves, SpanWhole, Returned
  <2> QED BY <2>1, <2>2, <2>3
<1> QED BY <1>1, <1>2, <1>3, <1>4

\* The two loads of a span.
LEMMA LoadStep ==
  ASSUME IInv, LoadData \/ LoadSize
  PROVE  IInv'
<1> USE TablesAssumption DEF IInv, LoadData, LoadSize, SpanBuilt, firmware, result, history
<1>1. TypeOK'
  BY DEF TypeOK, Slots
<1>2. Shape' /\ Masking'
  BY DEF Shape, UniqueGuids, Used, Masking
<1>3. Control'
  BY DEF Control, TypeOK
<1>4. Knowledge'
  BY DEF Knowledge, Control, TypeOK
<1>5. FindExact' /\ GetResolves'
  BY DEF FindExact, GetResolves, Returned, Control
<1>6. SpanWhole'
  BY DEF SpanWhole, Returned, Knowledge, Control, Readable, Shape, TypeOK
<1> QED BY <1>1, <1>2, <1>3, <1>4, <1>5, <1>6

\* A return leaves the firmware and the history alone.
LEMMA ReturnStep ==
  ASSUME IInv, NEW where, NEW word, Return(where, word),
         where \in (Addresses \X (0 .. MaxTables)) \cup {Null}, word \in Word,
         FindExact', GetResolves', method # "tables"
  PROVE  IInv'
<1> USE DEF IInv, Return, firmware, locals, history
<1>1. TypeOK'
  BY DEF TypeOK, Slots
<1>2. Shape' /\ Masking' /\ Control' /\ Knowledge'
  BY DEF Shape, UniqueGuids, Used, Masking, Control, Knowledge
<1>3. SpanWhole'
  BY DEF SpanWhole, Returned
<1> QED BY <1>1, <1>2, <1>3

\* The loop of find_configuration_table.
LEMMA ScanStep ==
  ASSUME IInv, ScanHit \/ ScanMiss \/ ScanEnd
  PROVE  IInv'
<1> USE TablesAssumption DEF IInv
<1>0. /\ pc = "scan" /\ method = "find" /\ i <= span_size
      /\ i \in 0 .. MaxTables + 1 /\ span_size \in 0 .. MaxTables
      /\ num_table_entries_ \in 0 .. MaxTables /\ extent \in 0 .. MaxTables
      /\ num_table_entries_ <= extent
  BY DEF ScanHit, ScanMiss, ScanEnd, Control, TypeOK, Shape
<1>1. CASE ScanHit
  <2> USE <1>1 DEF ScanHit
  <2>1. <<span_data, i>> \in Addresses \X (0 .. MaxTables)
    BY <1>0 DEF TypeOK
  <2>2. ASSUME ~disturbed PROVE LookupExact'
    <3>1. span_data = configuration_table_ /\ i \in Used
      BY <1>0, <2>2 DEF Knowledge, Used
    <3>2. entries[i] = guid
      <4>1. Readable(span_data, i)
        BY <1>0, <3>1 DEF Readable, Used
      <4> QED BY <4>1, Zenon DEF Matches
    <3>3. entry' = <<configuration_table_, i>>
      BY <3>1 DEF Return
    <3>4. guid' = guid /\ entries' = entries /\ Used' = Used
          /\ configuration_table_' = configuration_table_
      BY DEF Return, firmware, locals, Used
    <3>5. guid' \in Installed' /\ \E s \in Used' : entries'[s] = guid' /\ entry' = <<configuration_table_', s>>
      BY <3>1, <3>2, <3>3, <3>4 DEF Installed
    <3> QED BY <3>5 DEF LookupExact
  <2>3. FindExact' /\ GetResolves'
    BY <1>0, <2>2 DEF Return, FindExact, GetResolves, Returned, history, locals
  <2> QED BY <1>0, <2>1, <2>3, ReturnedWords, ReturnStep
<1>2. CASE ScanMiss
  <2> USE <1>2 DEF ScanMiss, firmware, result, history
  <2>1. TypeOK'
    BY <1>0 DEF TypeOK, Slots
  <2>2. Shape' /\ Masking' /\ Control'
    BY <1>0 DEF Shape, UniqueGuids, Used, Masking, Control
  <2>3. Knowledge'
    <3>1. ASSUME ~disturbed PROVE entries[i] # guid
      <4>1. Readable(span_data, i)
        BY <1>0, <3>1 DEF Knowledge, Readable
      <4> QED BY <4>1, Zenon DEF Matches
    <3>2. ASSUME ~disturbed, NEW s \in 0 .. i PROVE entries[s] # guid
      BY <1>0, <3>1, <3>2 DEF Knowledge
    <3>3. 0 .. i' - 1 = 0 .. i
      BY <1>0
    <3> QED BY <1>0, <3>2, <3>3 DEF Knowledge
  <2>4. FindExact' /\ GetResolves' /\ SpanWhole'
    BY <1>0 DEF FindExact, GetResolves, SpanWhole, Returned
  <2> QED BY <2>1, <2>2, <2>3, <2>4
<1>3. CASE ScanEnd
  <2> USE <1>3 DEF ScanEnd
  <2>1. ASSUME ~disturbed PROVE LookupExact'
    <3>1. i = num_table_entries_
      BY <1>0, <2>1 DEF Knowledge
    <3>2. guid \notin Installed
      BY <1>0, <2>1, <3>1 DEF Knowledge, Installed, Used
    <3>3. guid' \notin Installed' /\ entry' = Null
      BY <3>2 DEF Return, firmware, locals, Installed, Used
    <3> QED BY <3>3 DEF LookupExact
  <2>2. FindExact' /\ GetResolves'
    BY <1>0, <2>1 DEF Return, FindExact, GetResolves, Returned, history, locals
  <2> QED BY <1>0, <2>2, ReturnedWords, ReturnStep DEF Success
<1> QED BY <1>1, <1>2, <1>3

\* get_configuration_table: the check, then the address.
LEMMA GetStep ==
  ASSUME IInv, GetRefuse \/ GetAccept \/ GetAddress
  PROVE  IInv'
<1> USE TablesAssumption DEF IInv
<1>0. /\ method = "get" /\ i \in 0 .. MaxTables + 1
      /\ num_table_entries_ \in 0 .. MaxTables
  BY DEF GetRefuse, GetAccept, GetAddress, Control, TypeOK
<1>1. CASE GetRefuse
  <2>1. FindExact' /\ GetResolves'
    BY <1>0, <1>1 DEF GetRefuse, IndexRefused, Return, FindExact, GetResolves, Returned, firmware, locals
  <2> QED BY <1>0, <1>1, <2>1, ReturnedWords, ReturnStep DEF GetRefuse, Success
<1>2. CASE GetAccept
  <2> USE <1>2 DEF GetAccept, firmware, locals, result, history
  <2>1. TypeOK'
    BY DEF TypeOK, Slots
  <2>2. Shape' /\ Masking' /\ Control' /\ Knowledge'
    BY <1>0 DEF Shape, UniqueGuids, Used, Masking, Control, Knowledge, IndexRefused
  <2>3. FindExact' /\ GetResolves' /\ SpanWhole'
    BY DEF FindExact, GetResolves, SpanWhole, Returned
  <2> QED BY <2>1, <2>2, <2>3
<1>3. CASE GetAddress
  <2>1. <<configuration_table_, i>> \in Addresses \X (0 .. MaxTables)
    BY <1>0, <1>3 DEF GetAddress, Control, TypeOK
  <2>2. FindExact' /\ GetResolves'
    BY <1>0, <1>3 DEF GetAddress, Return, FindExact, GetResolves, Returned, Knowledge, firmware, locals, history
  <2> QED BY <1>0, <1>3, <2>1, <2>2, ReturnedWords, ReturnStep DEF GetAddress
<1> QED BY <1>1, <1>2, <1>3

-----------------------------------------------------------------------------
(* The invariant and what follows from it.                                 *)

LEMMA StepIInv == IInv /\ [Next]_vars => IInv'
<1> SUFFICES ASSUME IInv, [Next]_vars PROVE IInv'
  OBVIOUS
<1>1. ASSUME NEW g \in Guids, InstallInPlace(g) PROVE IInv'
  <2>1. configuration_table_' \in Addresses /\ extent' \in 0 .. MaxTables /\ num_table_entries_' <= extent'
    BY <1>1, TablesAssumption DEF InstallInPlace, Append, IInv, TypeOK
  <2> QED BY <1>1, <2>1, AppendStep DEF InstallInPlace
<1>2. ASSUME NEW g \in Guids, NEW address \in Addresses, InstallMoved(g, address) PROVE IInv'
  <2>1. configuration_table_' \in Addresses /\ extent' \in 0 .. MaxTables /\ num_table_entries_' <= extent'
    BY <1>2, TablesAssumption DEF InstallMoved, Append, IInv, TypeOK
  <2> QED BY <1>2, <2>1, AppendStep DEF InstallMoved
<1>3. ASSUME NEW s \in Used, Remove(s) PROVE IInv'
  BY <1>3, RemoveStep
<1>4. CASE Client
  BY <1>4, TPLStep, CallStep DEF Client
<1>5. CASE Step
  BY <1>5, LoadStep, ScanStep, GetStep DEF Step
<1>6. CASE UNCHANGED vars
  BY <1>6 DEF vars, firmware, locals, result, history, IInv, TypeOK, Slots, Shape,
     UniqueGuids, Used, Masking, Control, Knowledge, FindExact, GetResolves, SpanWhole,
     Returned, LookupExact, Installed, Readable
<1> QED BY <1>1, <1>2, <1>3, <1>4, <1>5, <1>6 DEF Next, Firmware

\* IInv holds in every reachable state.
THEOREM Invariance == Spec => []IInv
  BY InitIInv, StepIInv, PTL DEF Spec

\* The types of all variables (the bounds of entry's slot and of the loop
\* index among them) hold in every reachable state.
THEOREM TypeCorrect == Spec => []TypeOK
<1>1. IInv => TypeOK
  BY DEF IInv
<1> QED BY <1>1, Invariance, PTL

\* find_configuration_table is exact if the table stays put.
THEOREM FindCorrect == Spec => []FindExact
<1>1. IInv => FindExact
  BY DEF IInv
<1> QED BY <1>1, Invariance, PTL

\* find_configuration_table is exact at a raised TPL, whatever the firmware wants to do.
THEOREM GuardedFindCorrect == Spec => []GuardedFindExact
<1>1. IInv => GuardedFindExact
  BY DEF IInv, Masking, FindExact, GuardedFindExact
<1> QED BY <1>1, Invariance, PTL

\* The loop of find_configuration_table stays inside the written slots of
\* the array if the table stays put.
THEOREM ReadsCorrect == Spec => []ReadsInBounds
<1>1. IInv => ReadsInBounds
  BY DEF IInv, Shape, Knowledge, ReadsInBounds, Readable, TypeOK
<1> QED BY <1>1, Invariance, PTL

\* get_configuration_table resolves every index of a table and refuses every index beyond the
\* array's end (the index of the end itself is the exception it accepts).
THEOREM GetCorrect == Spec => []GetResolves
<1>1. IInv => GetResolves
  BY DEF IInv
<1> QED BY <1>1, Invariance, PTL

\* The span of configuration_tables() covers the tables if they stay put.
THEOREM SpanCorrect == Spec => []SpanWhole
<1>1. IInv => SpanWhole
  BY DEF IInv
<1> QED BY <1>1, Invariance, PTL

-----------------------------------------------------------------------------
(* find_configuration_table implements the abstract lookup.                *)

\* Installing a table files one GUID more.
LEMMA AppendFiles ==
  ASSUME IInv, NEW g \in Guids, Append(g)
  PROVE  Installed' = Installed \cup {g}
<1> USE TablesAssumption DEF IInv
<1>1. Used' = Used \cup {num_table_entries_} /\ num_table_entries_ \notin Used
  BY DEF Append, TypeOK, Used
<1>2. \A u \in Used : entries'[u] = entries[u]
  BY <1>1 DEF Append, Used, TypeOK, Slots
<1>3. entries'[num_table_entries_] = g
  BY DEF Append, TypeOK, Slots
<1> QED BY <1>1, <1>2, <1>3 DEF Installed

\* Removing a table takes exactly its GUID away.
LEMMA RemoveUnfiles ==
  ASSUME IInv, NEW s \in Used, Remove(s)
  PROVE  Installed' = Installed \ {entries[s]}
<1> USE TablesAssumption DEF IInv
<1>1. /\ s \in Int /\ num_table_entries_ \in 1 .. MaxTables
      /\ Used \subseteq Slots /\ Used' = 0 .. num_table_entries_ - 2
  BY DEF TypeOK, Used, Slots, Remove
<1>2. ASSUME NEW t \in Used' PROVE entries'[t] \in Installed \ {entries[s]}
  <2>0. t \in 0 .. num_table_entries_ - 2
    BY <1>1
  <2>1. t \in Used /\ t + 1 \in Used /\ t \in Slots
    BY <1>1, <2>0 DEF Used
  <2>2. entries'[t] = IF s <= t THEN entries[t + 1] ELSE entries[t]
    BY <2>1 DEF Remove
  <2>3. CASE s <= t
    <3>1. entries'[t] = entries[t + 1] /\ t + 1 # s
      BY <1>1, <2>0, <2>2, <2>3
    <3> QED BY <2>1, <3>1 DEF Shape, UniqueGuids, Installed
  <2>4. CASE ~(s <= t)
    <3>1. entries'[t] = entries[t] /\ t # s
      BY <1>1, <2>0, <2>2, <2>4
    <3> QED BY <2>1, <3>1 DEF Shape, UniqueGuids, Installed
  <2> QED BY <2>3, <2>4
<1>3. ASSUME NEW t \in Used, t # s PROVE entries[t] \in Installed'
  <2> DEFINE u == IF s < t THEN t - 1 ELSE t
  <2>1. u \in 0 .. num_table_entries_ - 2 /\ u \in Slots /\ u + 1 \in Used
    BY <1>1, <1>3 DEF Used, Slots
  <2>2. entries'[u] = entries[t]
    BY <1>1, <1>3, <2>1 DEF Remove, Used
  <2> QED BY <1>1, <2>1, <2>2 DEF Installed
<1> QED BY <1>2, <1>3 DEF Installed

\* The initial states map to initial states of the abstract lookup.
LEMMA InitRefines == Init => Registry!Init
<1> SUFFICES ASSUME Init PROVE Registry!Init
  OBVIOUS
<1>1. TypeOK
  BY InitIInv DEF IInv
<1>2. Used \subseteq Slots
  BY <1>1, TablesAssumption DEF TypeOK, Used, Slots
<1>3. Installed \subseteq Guids
  BY <1>1, <1>2 DEF TypeOK, Installed
<1> QED BY <1>3 DEF Init, Registry!Init, Finding, Returned

\* A step that leaves alone all the lookup is mapped to is a stutter.
LEMMA Stutters ==
  ASSUME Installed' = Installed, Finding' = Finding, guid' = guid,
         disturbed' = disturbed, (Finding => pc' = pc /\ entry' = entry)
  PROVE  UNCHANGED Registry!vars
  BY DEF Registry!vars, Finding, Returned

\* Every step of the firmware, the client or a method is a step of the
\* abstract lookup, or none.
LEMMA StepRefines == IInv /\ [Next]_vars => [Registry!Next]_Registry!vars
<1> SUFFICES ASSUME IInv, [Next]_vars PROVE [Registry!Next]_Registry!vars
  OBVIOUS
<1>0. guid \in Guids /\ guid # nullptr /\ disturbed \in BOOLEAN
  BY TablesAssumption DEF IInv, TypeOK
<1>1. ASSUME NEW g \in Guids, Append(g) PROVE Registry!Install(g)
  <2>1. Installed' = Installed \cup {g}
    BY <1>1, AppendFiles
  <2> QED BY <1>0, <1>1, <2>1 DEF Append, Registry!Install, Finding, Returned, locals, result
<1>2. ASSUME NEW s \in Used, Remove(s) PROVE Registry!Remove(entries[s])
  <2>1. Installed' = Installed \ {entries[s]}
    BY <1>2, RemoveUnfiles
  <2> QED BY <1>0, <1>2, <2>1 DEF Remove, Registry!Remove, Finding, Returned, locals, result
<1>3. ASSUME NEW g \in Guids, find_configuration_table(g) PROVE Registry!Ask(g)
  BY <1>3 DEF find_configuration_table, Call, firmware, Registry!Ask, Finding, Returned, Installed, Used
<1>4. CASE \/ configuration_tables \/ get_configuration_table_null
           \/ \E index \in 0 .. MaxTables + 1 : get_configuration_table(index)
  <2>1. /\ pc = "idle" /\ method' # "find" /\ Installed' = Installed
    BY <1>4 DEF configuration_tables, get_configuration_table_null, get_configuration_table,
       Call, firmware, Installed, Used
  <2>2. Registry!Forget
    BY <2>1 DEF Registry!Forget, Finding, Returned
  <2> QED BY <2>2 DEF Registry!Next
<1>5. CASE RaiseTPL \/ RestoreTPL
  BY <1>5, Stutters DEF RaiseTPL, RestoreTPL, firmware, locals, result, history, Installed, Used, Finding
<1>6. CASE LoadData \/ LoadSize \/ ScanMiss \/ GetAccept
  <2>1. /\ Installed' = Installed /\ method' = method /\ guid' = guid
        /\ disturbed' = disturbed /\ entry' = entry
    BY <1>6 DEF LoadData, LoadSize, ScanMiss, GetAccept, firmware, locals, result, history, Installed, Used
  <2>2. ASSUME Finding PROVE (pc' # "idle") /\ (pc # "idle")
    BY <1>6, <2>2 DEF LoadData, LoadSize, SpanBuilt, ScanMiss, GetAccept, Finding
  <2>3. UNCHANGED Registry!vars
    BY <2>1, <2>2 DEF Registry!vars, Finding, Returned
  <2> QED BY <2>3
<1>7. CASE ScanHit \/ ScanEnd
  <2>1. /\ pc = "scan" /\ method = "find" /\ pc' = "idle"
        /\ Installed' = Installed /\ method' = method /\ guid' = guid /\ disturbed' = disturbed
    BY <1>7 DEF ScanHit, ScanEnd, Return, firmware, locals, history, Installed, Used, IInv, Control
  <2>2. ASSUME ~disturbed PROVE entry' # Null <=> guid \in Installed
    <3>1. LookupExact'
      BY <1>7, <2>1, <2>2, ScanStep DEF IInv, FindExact, Returned
    <3>2. configuration_table_' # nullptr
      BY <1>7, TablesAssumption DEF ScanHit, ScanEnd, Return, firmware, IInv, TypeOK
    <3> QED BY <2>1, <3>1, <3>2 DEF LookupExact, Null
  <2>3. Registry!Answer
    BY <2>1, <2>2 DEF Registry!Answer, Finding, Returned
  <2> QED BY <2>3 DEF Registry!Next
<1>8. CASE GetRefuse \/ GetAddress
  <2>1. method = "get"
    BY <1>8 DEF GetRefuse, GetAddress, IInv, Control
  <2> QED BY <1>8, <2>1, Stutters DEF GetRefuse, GetAddress, Return, firmware, locals, history, Installed, Used, Finding
<1>9. CASE UNCHANGED vars
  BY <1>9, Stutters DEF vars, firmware, locals, result, history, Installed, Used, Finding
<1>10. CASE Firmware
  <2>1. ASSUME NEW g \in Guids, Append(g) PROVE Registry!Next
    BY <1>1, <2>1 DEF Registry!Next
  <2>2. ASSUME NEW s \in Used, Remove(s) PROVE Registry!Next
    <3>1. s \in Slots /\ entries \in [Slots -> Guids]
      BY TablesAssumption DEF IInv, TypeOK, Used, Slots
    <3>2. entries[s] \in Guids
      BY <3>1
    <3> QED BY <1>2, <2>2, <3>2 DEF Registry!Next
  <2> QED BY <1>10, <2>1, <2>2 DEF Firmware, InstallInPlace, InstallMoved
<1>11. CASE \E g \in Guids : find_configuration_table(g)
  BY <1>3, <1>11 DEF Registry!Next
<1>12. CASE Client
  BY <1>4, <1>5, <1>11, <1>12 DEF Client
<1>13. CASE Step
  BY <1>6, <1>7, <1>8, <1>13 DEF Step
<1> QED BY <1>9, <1>10, <1>12, <1>13 DEF Next

\* find_configuration_table keeps the abstract promise: an exact answer on a
\* table nobody touched, and an answer of some kind otherwise.
THEOREM FindImplementsRegistry == Spec => RegistrySpec
  BY InitRefines, Invariance, StepRefines, PTL DEF Spec, RegistrySpec, Registry!Spec

=============================================================================
