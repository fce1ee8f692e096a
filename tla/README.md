# MuchCool-EFI in TLA+

MuchCool-EFI is a C++20 library of headers over the tables and protocols of
UEFI firmware: classes laid over the firmware's memory, with methods that call
the function pointers they find there. The library holds little code of its own,
and its difficulties lie where that code meets the firmware: memory that changes
under a loop, functions that interrupt other functions, requests that end later
than the call that made them, fields that stand where the firmware puts something
else, status words computed at compile time. This directory models those
meetings, checks them with TLC and proves the main results with TLAPS.

Paths below are relative to `src/include/efi/`.

## Inventory

| Part | Source | State | Operations | Modelled in |
|---|---|---|---|---|
| Status words | `core.hpp` 71-135 | none | `status_error_code_`, `status_warning_code_`, `operator!`, `status_is_error` | `Status` |
| Other core types | `core.hpp` | plain data: `Guid`, `Time`, `Table`, enumerations | comparison, getters | as model values |
| System table | `system_table.hpp` | pointer and number of configuration tables (the firmware's) | `configuration_tables`, `get_configuration_table`, `find_configuration_table`, getters | `SystemTable`, `ConfigurationRegistry` |
| Boot services: TPL, events, timers | `boot_services.hpp` 305-344 | the firmware's events, queue, levels | `raise_tpl` ... `set_timer` | `EventServices` |
| Boot services: memory, exit | `boot_services.hpp` 350-410 | memory map and its key | `allocate_pages`, `free_pages`, `allocate_pool`, `free_pool`, `get_memory_map`, `exit_boot_services` | `MemoryMap`, `SizedRead` |
| Boot services: images, protocols | `boot_services.hpp` 412-530 | images, interfaces, list of opens | `load_image`, `start_image`, `exit`, `open_protocol`, `close_protocol`, `locate_handle_buffer` | `Protocols` |
| Boot services: layout of the class | `boot_services.hpp` | none | the fields every method calls through | `BootTable` |
| Runtime services | `runtime_services.hpp` | variables, alarm, address map | `set_variable`, `get_variable`, `get_next_variable_name`, `set_wakeup_time`, `get_wakeup_time`, `set_virtual_address_map`, `reset_system` | `RuntimeServices` |
| Network core | `net_core.hpp` | `MacAddress`, `Ipv4Address`, `Ipv6Address` objects | construction, assignment, comparison | `NetCore` (MAC addresses) |
| ARP | `protocol/arp.hpp` | cache and requests (the driver's) | all eight methods | `ArpProtocol` |
| IPv4 | `protocol/ipv4.hpp` | tokens, groups, routes | all but `get_mode_data` | `Ipv4Protocol` |
| Managed network | `protocol/managed_network.hpp` | tokens, groups, polling | all but two that read | `ManagedNetworkProtocol` |
| TCP4 | `protocol/tcp_v4.hpp` | a connection, tokens, routes | all but `get_mode_data` | `Tcp4Protocol` |
| DNS4 | `protocol/dns_v4.hpp` | lookups, tokens without events | `configure`, `reset`, lookups, `cancel`, `poll` | `Dns4Protocol` |
| DHCP4 | `protocol/dhcp.hpp` | lease state, callback | all but `build` and `parse` | `Dhcp4Protocol` |
| Simple network | `protocol/simple_network.hpp` | state, buffers, filters | `start` ... `shutdown`, `receive_filters`, `get_status`, `transmit`, `receive` | `SimpleNetworkProtocol` |
| Device paths | `protocol/device_path.hpp` | packed nodes (the firmware's) | `type`, `subtype`, `length`, the node classes | `DevicePath` |
| Files | `protocol/file.hpp`, `file_system.hpp` | handles, positions, contents | `open`, `close`, `delete_file`, `read`, `write`, `set_position`, `set_info` | `FileProtocol` |
| Block and disk I/O, load file | `protocol/block_io.hpp`, `disk_io.hpp`, `load_file.hpp` | media | one-line wrappers | not modelled |
| Console, serial, graphics, EDID, pointer | `protocol/simple_text*.hpp`, `serial.hpp`, `graphics_output.hpp`, `edid.hpp`, `pointer.hpp` | device modes | device I/O | not modelled |
| Debugging | `protocol/debug_support.hpp`, `debug_port.hpp` | callbacks, processor context | register, poll | not modelled |
| NIC identifier, platform, build | `protocol/nic.hpp`, `platform/x64.hpp`, `efi.hpp`, `source/efi.cpp` | constants | none | not modelled |

How the parts interact: the client gets a `SystemTable` from the firmware and
from it `BootServices` and `RuntimeServices`; from boot services it gets protocol
interfaces, and passes them events it has created with boot services. Every
method but those of `SystemTable` and of the value types calls one function
pointer with its arguments and returns what that returns. There is one processor.
Concurrency comes from notification functions: they interrupt code at a lower
task priority level (TPL), run to their end, and may call anything. Between two
calls of the client drivers, timers, peers and the loss of power come in.

What is hard here, and has no test in the repository:

- a loop over firmware memory that notification functions shift, grow or release;
- nested levels: who may interrupt whom, and what `restore_tpl` sets off;
- asynchronous requests whose result arrives during the call, after it, after a
  cancel or never, in tokens some of which have no event;
- a size or a key that is stale when it is used: the memory map's buffer and key,
  an enumeration by the last name, an address the client believes it has;
- an open that must be undone by whoever made it, or by the end of its image;
- classes whose members stand where firmware reads something else;
- telling "failed" from "under way" by status words computed from a wrong mask.

What makes each part correct:

- *status words*: an error enumerator equals the word the firmware returns for
  the error, and the two tests accept it (they do not: see the findings);
- *system table*: a lookup is exact if nothing changed under it, always exact at
  a raised TPL, and reads nothing outside the array;
- *events*: levels nest, no signal is lost, a closed event stays silent;
- *memory*: a loader leaves with the map as it is, writes beyond no buffer, and
  does leave;
- *protocols*: a device opened exclusively is alone, the list of opens is what
  the images hold, drivers that try what a search returns leave no device behind;
- *runtime services*: what was written can be read back and survives what it
  must, an enumeration leaves out and repeats nothing that was left alone;
- *files*: what a close has covered survives a crash;
- *device paths*: a walk by length stays on node boundaries, and no class reads
  beyond its node;
- *network*: a token comes back once, is seen to, and does; groups, routes,
  filters, buffers and the lease are what the client takes them for;
- *ARP*: no wake-up is lost, no target is written behind the client's back;
- *addresses*: equal addresses compare equal.

## Modules

The firmware behind a function pointer is modelled by an operator with the name
of the pointer or the service (`open_protocol_`, `FileSystem`), external to the
repository; the method is an action that calls it. Where the order of the
fields of a class decides which service a call enters, the fields are a sequence
next to the firmware's (`Fields` and `Services`). The methods of `RuntimeServices`,
`FileProtocol` and the network protocols but DHCP enter whatever service stands at the place
of their field (`Behind`), so that fields which change places call the wrong one.
Those of `Protocols` ask that the right one stands there (`Enters`), and are never
taken otherwise; `EventServices`, `MemoryMap`, `ArpProtocol` and `Dhcp4Protocol` do not
consult the layout. The client's knowledge is kept apart from the firmware's state,
in ledgers made from what its calls have told it; the properties relate the two.

- **`Status`** computes the enumerators of `enum class Status` as `core.hpp` does.
  A word keeps its number and the weight of its top bit, `status_error_flag`,
  2^63 in the code and any number above 35 here. `FirmwareError(name)` is the word
  that firmware returns for the same error.
- **`ConfigurationRegistry`** is the abstract lookup: a set of GUIDs, a question,
  an answer that is exact unless a table came or went in between.
- **`SystemTable`** has a step for every load of the three methods. `pc` is the
  method's next step, `span_data` and `span_size` are the two members of the
  span it builds, loaded in either order. The firmware appends a table in place,
  moves the array to append one, or removes one, whenever the TPL is not raised.
  A slot that is not the array's any more may hold any GUID (`Readable`,
  `Matches`). `disturbed` and `guarded` are history variables. The comparison of
  two GUIDs is one step: 16 bytes the firmware writes as one. The method with a
  null `entry` is an action where the code checks it (`get_configuration_table`)
  and is not called where it does not (`find_configuration_table`). Firmware that
  reinstalls a table under a known GUID changes `vendor_table` alone, which no
  method reads, so there is no action for it.
- **`EventServices`** has the eight methods on the TPL, events and timers as
  actions of the frame that runs. `frames` is the set of levels at which code has
  been entered, the application's first, and `level` the level each has now; the
  topmost frame runs. A queued notification above the running level precedes
  everything else (`Settled`). `queued` and `earlier` are the queue and its order.
  The two tests of `check_event` around the call of a `NotifyWait` function are
  two steps. A frame has at most one raise outstanding.
- **`MemoryMap`** has a loader that allocates, sizes a buffer, reads the map and
  leaves, and drivers that allocate and free until the first `exit_boot_services`.
  Sizes are counted in descriptors, runs of pages of one type. A key is "current"
  or "stale" (`Touch`). A buffer too small may still yield a key, and the first
  exit notifies drivers, which may change the map under it. `Retry` is the loop of
  a loader that was refused. **`SizedRead`** is the abstract read by a size.
- **`BootTable`** is the order of the fields of `class BootServices` and of the
  services in the firmware's table.
- **`Protocols`** has images started one inside the other (`started` is the
  stack), one protocol on some handles, and opens with the three attributes that
  decide who may open what else. An exclusive open and an uninstallation stop
  drivers, one of which may refuse (`Stopped`); `exit` and `UnloadImage` end an
  image with its opens. `held` is what the images believe they hold.
  `Overload` is the overload of `locate_handle_buffer` that an argument selects: none,
  a `const Guid&`, or a `Guid*`, which is taken for a registration. `untried` is what
  drivers have still to try: what the last search returned (`searched` says for which
  argument), and the devices that have come, gone or been let go of since.
- **`RuntimeServices`** has a variable store with attributes and lengths, appends
  and deletions, a writer beside an enumeration, `ExitBoot`, `reset_system` and
  `PowerLoss`; `order` has a pair for each two variables of which the enumeration
  has one before the other; `written` and `asked` are the client's ledgers,
  `touched` and `lost` what an enumeration must not be held to.
- **`FileProtocol`** has handles with positions on files that are cached and
  written to the disk by a close or when the file system likes; `Crash` leaves
  the disk. `since` is the contents a file has had since its last close.
- **`DevicePath`** has the sizes of the members of every node class, the subtypes
  by which a client selects one, and the nodes firmware builds; a path of up to
  `MaxNodes` of them is walked by `length()`. `Ends` says where each of some parts
  that lie one behind the other ends: the nodes of a path, and the members of a
  packed class, whose size is `SizeOf`.
- **`TokenLedger`** is the promise of asynchronous protocols: a token is taken,
  left alone while held, given back once, and as aborted only if that was asked
  for. **`CompletionTokens`** is what four protocols share: the tokens the driver
  holds, their status and events, groups and routes, and how a client tells that
  a token has ended (`Noticed`). The classes offer no setter for the event, so
  which tokens have one is drawn at the beginning. Without one the client compares
  the status with words: `StatusWord` is the word a driver writes, and
  `NotReadyStatus` the word the client takes for "not ready", the firmware's or the
  library's `Status::NotReady`, which is the word of success.
- **`Ipv4Protocol`**, **`ManagedNetworkProtocol`**, **`Tcp4Protocol`**,
  **`Dns4Protocol`** have the methods of their classes with the driver and the
  peer behind them: an end by answer or time-out, background polling switched off,
  a connection with its eleven states and a peer that closes or resets it, a close with
  the handshake or, as `abort_on_close_` of its token says, without, lookups whose
  tokens are constructed anew each time.
- **`Dhcp4Protocol`** has the nine states of a lease, tries, refusals, renewal,
  rebinding and expiry. `Reads` says whether the driver finds a member where it
  looks, which depends on the class the client hands over (`Handed`). In a
  `Dhcp4ModeData` it looks for the callback at `client_address_`; the model has that
  zero, and the driver calls nothing. With any other address the driver would call
  it as a function, which is out of the model.
- **`SimpleNetworkProtocol`** has the three states of an interface, the transmit
  queue, recycled buffers, and filters; the class has no field for the mode, so
  `known`, `lent`, `enabled` and `listed` are what a client can know.
- **`Network`** composes the six: they reach each other only inside the firmware,
  so each behaviour is one of the protocol drawn at its beginning.
- **`NetCore`** models a `MacAddress` as six bytes and the tail of 26 behind
  them; constructing from six bytes leaves any tail, assigning clears it.
- **`ArpProtocol`** has the eight methods of `arp.hpp` and `check_event`, with
  replies, time-outs and cache decay of the driver (`Reply`, `GiveUp`, `Decay`). A
  client makes one request at a time with each event and waits for it when it is
  told "resolved" or "not ready".
- **`MCSystemTable`, `MCEventServices`, `MCArpProtocol`, `MCServices`** give the
  constants values for TLC; `MCServices` puts `Protocols`, `RuntimeServices`,
  `FileProtocol` and `DevicePath`, which share nothing, into one run. The modules
  ending in **`Proofs`** hold the theorems.

An operator whose comment begins with `Mutant` is a plausible mistake in the
definition it stands before. No specification uses it; each property has been
seen to fail when a mutant replaces its original.

## Runs

| Run | Config | Shows |
|---|---|---|
| `system_table` | `MCSystemTable.cfg` | lookups, index and span are exact when undisturbed, lookups at a raised TPL always; reads stay in bounds; calls return; `find_configuration_table` implements `ConfigurationRegistry` |
| `events` | `MCEventServices.cfg` | levels nest; signals, closed events and timers are as the client left them |
| `events_live` | `EventServicesLive.cfg` | a signaled event of the highest notification TPL is notified |
| `arp` | `MCArpProtocol.cfg` | no wake-up lost, no stray write, cancels and resets end what they name; every request a client waits for ends |
| `memory` | `MemoryMap.cfg` | a loader leaves with the map as it is, no buffer is overrun, the retries of a refused exit end; `get_memory_map` implements `SizedRead` |
| `services` | `MCServices.cfg` | protocols, variables, files and device paths: each call leaves the firmware as its caller believes |
| `network` | `Network.cfg` | tokens come back once (`TokenLedger`), are seen to end and do end; groups, routes, filters, buffers and the lease are what the client takes them for |
| `failure_is_reported` | `SystemTableFailureIsReported.cfg` | *violated*: "not found" is the word of success |
| `get_in_bounds` | `SystemTableGetInBounds.cfg` | *violated*: the index one past the end is accepted |
| `arp_not_ready` | `ArpProtocolNoStrayWrite.cfg` | *violated*: a client that trusts `Status::NotReady` has memory written it believes free |
| `mac_compare` | `ArpProtocolComparesAddresses.cfg` | *violated*: equal six-byte addresses compare unequal |
| `dhcp_callback` | `Dhcp4CallbackHeard.cfg` | *violated*: a client that hands `configure` the class it asks for is never called back, and goes on with an address it has lost |

Bounds.

- `system_table`: `status_error_flag` is 128, which as any number above 35
  separates the words. Two tables, three GUIDs and two places for the array:
  enough for a table to be missed because another before it went, for the array to
  move and move back, and for an index below, at and above the end.
- `events`: two events are enough for a function to interrupt another and signal
  it or close it; `MaxTPL` is 3, so that there are two levels for notifications
  and the highest, which masks the timer. Events are only compared for equality,
  so symmetry is sound. `events_live` leaves out types that neither notify nor
  delay a notification.
- `arp`: two addresses and two events, so that a call can hit the wrong one of
  each, two hardware addresses and two tails.
- `memory`: four pages and three types, so that an allocation splits, joins or
  keeps runs; two descriptors of slack, so that a buffer is too small, just large
  enough or too large after the allocation of the buffer itself.
- `services`: two devices and three images of which two are drivers, so that one
  drives, one competes and one opens exclusively; three variables, so that a name
  moves past or behind the cursor while another is left alone, lengths of up to
  two and so one append; one file with two handles and room for two bytes, so that
  writes meet each other and the limit; paths of two nodes of every class and their
  end, with and without data. Drivers and variables are interchangeable (symmetry).
- `network`: two tokens (one to be hit by what was meant for the other), two
  groups and routes, three buffers for a queue of two, a multicast list of two,
  frames of one byte against buffers of none and one, two tries. `Handed` is
  `Dhcp4ConfigData`: a client that knows what the driver reads and casts, since
  `configure` does not take it. `NotReadyStatus` is 134, `FirmwareError("NotReady")` for the
  `status_error_flag` of 128: a client that knows the firmware's word.

Deadlock is not checked in `events` (an application may wait for an event nobody
signals, which in `boot_services.hpp` is a call that never returns), `memory` (the
boot services have ended), `services` (a path has been walked), `network` and
`dhcp_callback` (the loss of power and the end of a client are not modelled, and
a lookup or a lease need not be followed by another).

Fairness. `SystemTable`: weak fairness of the method's own steps, since a
notification returns to the code it interrupted. `ArpProtocol`: weak fairness of
the driver's last retry only; nothing forces a host to reply, nor the client to do
anything. `EventServices`: the firmware calls what is queued and finishes a test it
has begun (weak); notification functions return and code that raised the TPL
restores it (strong, because they may be interrupted, or call something else
first, over and over). `SignalRuns` is stated for the highest notification TPL:
below it, functions that signal one another for ever do starve the rest.
`MemoryMap`: weak fairness of the loader once it has been refused, which is a loop
of its own. `Network`: weak fairness of the end of each token by itself (a packet
is sent, an answer comes or the driver's timer runs out; without background
polling it is the client that polls), of the lease's timers and of an exchange.
Receptions and accepts wait for someone else and are promised nothing.

## Findings

- `core.hpp:74` masks with `&` where the number has to be combined with the
  top bit, so every error enumerator is 0, the word of `Status::Success`. A
  lookup that finds nothing is reported as success, and a client that compares
  an ARP result with `Status::NotReady` takes a request under way for failed. So does
  one that compares the status of a DNS lookup: it takes a lookup its driver has marked
  as not ready for one that has ended (`EnumeratorEndsLookups`).
- `system_table.hpp:102` accepts the index equal to the number of tables.
- `net_core.hpp:55` leaves the bytes behind the address unset that
  `operator==` compares.
- `protocol/dhcp.hpp:202` passes a `Dhcp4ModeData` where the driver reads a
  `Dhcp4ConfigData`: every member is read eight bytes off, so the callback is
  never found. With the other class (`network`) the lease is as told.

Met while modelling, and left out of the runs:

- the template overloads that ask for the concept of `core.hpp:289` have no class
  that satisfies it, and `get_variable<T>` and `set_variable<T>` do not compile
  when they are instantiated;
- `SasExDevicePath` (`protocol/device_path.hpp:561`) has a member `reserved_` too
  many, so `ReadsInNode` leaves that class out;
- no method tells a `VendorRestServiceDevicePath` (`protocol/device_path.hpp:652`) from
  a `RestServiceDevicePath`, whose subtype it shares and whose members have no getter:
  it is not modelled;
- `Contoller` and `BMC` are both 5 (`protocol/device_path.hpp:45`) while firmware
  writes 6 for a BMC, so `ReadsInNode` is for a walk that does not test for BMC
  (`Shadowed`); for one that does, `ContollerReadTooFar` proves that it fails.

## Proofs

All theorems hold for every value of the constants under the assumptions
stated with them (`ErrorFlagAssumption`, `TablesAssumption`, `EventsAssumption`,
`MacsAssumption`, `ArpAssumption`, `MemoryAssumption`, `ProtocolsAssumption`,
`RuntimeAssumption`, `CursorAssumption`, `WrittenAssumption`, `NullAssumption`,
`VolumeAssumption`, `AbsentAssumption`, `PathAssumption`, `TokensAssumption`,
`NotReadyAssumption`, `NetworkAssumption`). Every invariant and every action property
of the runs that pass is stated by a theorem, and so are the three refinements; where a
theorem has a hypothesis of its own, it is named below.

- `StatusProofs`: every error enumerator equals success
  (`ErrorsEqualSuccess`); the tests hold of firmware's words and of no
  enumerator (`ErrorTests`); no enumerator matches a firmware word
  (`EnumeratorsMatchNothing`).
- `SystemTableProofs`: each invariant of the run, and that
  `find_configuration_table` implements `ConfigurationRegistry`. `FindExact`
  alone is not inductive. `IInv` adds what a method knows while it runs
  undisturbed (`Knowledge`), what a raised TPL excludes (`Masking`), and which
  locals each `pc` fixes (`Control`, `Shape`).
- `EventServicesProofs`: each invariant of the run. `IInv` adds that the
  client's events are the firmware's, that what is waited for is open, and that
  a signaled event with a notification is queued, which is why a second signal
  need not queue it. Nesting needs that the frame which runs is the topmost and
  that a function is entered above its level only.
- `ArpProtocolProofs`: each invariant and action property of the run. Types,
  `WaitIsBacked`, `ResultComparable` and the two action properties hold whichever
  word the client takes for "not ready", the firmware's or the library's; `IInv`
  ties every wait to a request or a signal and every target to a clear tail, and
  the action properties follow method by method. `NoStrayWrite` holds under the
  hypothesis `NotReadyStatus = FirmwareError("NotReady")`, by induction beside
  `IInv`. With the library's enumerator it fails at each request that is under way
  (`EnumeratorLosesRequests`), as `arp_not_ready` shows: no client waits in vain,
  but memory is written behind its back. `EveryRequestEnds` is the liveness
  property `RequestsEnd`: a wait stays what it is until it is over (`WaitStays`), its
  request is under way all the while (`WaitUnderWay`, from `WaitIsBacked`), and the
  driver's giving it up ends it (`GiveUpEnds`).
- `MemoryMapProofs`: both invariants of the run, and that `get_memory_map`
  implements `SizedRead`, for a memory of any size. `MapFresh` speaks of the end
  only; `IInv` says what makes it hold there: a current key belongs to the copy
  (`KeyOfCopy`), only a current key lets the loader out (`Left`), and its pages
  are marked (`PagesMarked`).
- `ProtocolsProofs`: `ExclusiveAlone`, `OpensAsHeld`, `SweepLeavesNone` and the types.
  The first two need each other, and that the images said to have started are
  those on the stack, each once (`StackOK`): an image that ends takes its opens
  with it, and is gone from nowhere else. `SweepLeavesNone` needs both: an open by a driver
  is refused only because of an entry in the firmware's list, and that somebody holds what
  the entry stands for is `OpensAsHeld`. It is for the searches by a `const Guid&` and
  without an argument; after one by a `Guid*` nothing is left to try
  (`PointerFindsNothing`).
- `ServicesProofs`, which takes the four parts of `MCServices` one by one and then
  together:
  - files: `ClosedSurvives`, from the stronger fact that also what the file system
    sees of a file has been its contents since the last close (`CacheSince`);
    the types, which say that writes at any position leave no gap in a file, from
    the fact that an open handle is on a file that exists (`OpenIsThere`);
  - variables: `WritesKept`, from the equality of the ledgers and the store
    (`LedgersAgree`); the types;
  - enumeration: `EnumerationExact` speaks of the end only. Inductive is
    `ReturnedSoFar`: among the variables left alone, those up to the cursor have
    been returned, once, and no other has. That the next name lies behind the
    cursor and nothing lies between needs a transitive order with a next element,
    and both follow from one fact about it, that every set of variables has a
    first one (`WellOrdered`). A write moves one variable behind all others, a
    deletion or a restart takes some out, and both leave it so;
  - device paths: `ReadsInNode`, for paths of any length with data of any length,
    under the hypothesis `"BMC" \in Shadowed`. The walk is on the beginning of a
    node (`PathInv`) because a node ends at the running sum of the lengths
    (`EndsStep`), and each class is no longer than the least node it can be taken
    for (`Fits`, one lemma for every type). The hypothesis is needed:
    `ContollerReadTooFar` gives a path that a client which tests for a BMC reads
    beyond;
  - composition: a behaviour of `MCServices` is one of each part, possibly
    stuttering (`PartsAlone`), so that every theorem of a part holds of it
    (`ServicesTyped`, `ServicesHold`).
- `NetworkProofs`: all invariants of the run and the refinement of `TokenLedger`.
  A step of the four protocols with tokens is one of four kinds (`EndStep`,
  `TakeStep`, `CollectStep`, none); each kind keeps `TokensInv` and is a step of
  the ledger (`StepKeeps`), and a lemma per protocol shows that its steps are of
  these kinds. The hard case is TCP: what the driver ends as aborted with the
  connection was asked for when the client closed it (`AskedAtClose`). That the end of a
  token is seen holds under the hypothesis `KnowsWord`, that the client takes the
  firmware's word for "not ready" and not the library's (`EndIsSeen`, and with it
  `TokensNoticed`; `WordsToldApart` says what the word is needed for); with the
  library's, `EnumeratorEndsLookups` shows what goes wrong. The other theorems do not
  depend on the word. The lease is as told under the hypothesis
  `Handed = "Dhcp4ConfigData"`, and by the finding only then. `TokensNoticed` is the
  first part of the liveness property `TokensEnd`: every token that waits for nobody
  else ends. It needs to know what is held when (`HeldInv`): a token of TCP is held
  only in the states of the connection that lead to its end, and a connection that the
  client is closing (`GoingDown`) has a token of close to see it through. Data that is
  not sent when the connection reaches `FinWait2` is not sent any more: it ends because
  the close does (`HalfOpenEnds`).

Liveness. The prover does not reason about `ENABLED`, which `WF_` and `SF_` are
defined by. The two liveness theorems write the weak fairness of the specification
out, with the guard of the action in the place of `ENABLED`: `FairGiveUps` for `GiveUp`,
`FairFinishes` for `Finishes`. It is the same assumption, because the guard is all the
action asks of a state (its other conjuncts say what each variable becomes, and a
step changes one of them), but that it is the same is read off the action and not
proved. From there on the argument is one of invariants and of a fixed number of
stages, which temporal logic carries.

Model-checked only: the liveness properties `CallsReturn`, `SignalRuns` and
`LeavingEnds`, and of `TokensEnd` the start of a lease and the exchange. The exchange is
a single step; each of the others comes down a number that has no fixed bound (the
tables still to scan, the functions queued before and the frames under way, the
descriptors by which the buffer was too small, the tries left), and to
conclude that it ends takes an induction whose formula is temporal. It cannot be had
from the least counterexample, as below, since there is no set of the
numbers for which a temporal formula holds.

Induction over data. The library's induction theorems take an operator as
a parameter, which the provers at hand cannot instantiate. That a running sum
exists for any number of terms, and is what its recursive definition says, is
proved by the least counterexample instead (`RunningSum`): a set of naturals has a
least element (`NatLeast`), because among the intervals up to its elements one is
within the others, by the well-foundedness of strict inclusion on finite sets.

## Not modelled, and why

The firmware behind the function pointers is not in the repository. It is
modelled from the signatures and the UEFI specification, as external
definitions, just as far as the properties need it. Of what is in it:

- plain data and getters of constant members have no behaviour; `Ipv4Address`
  and `Ipv6Address` are compared whole and have no tail;
- boot services: `locate_handle`, `handle_protocol`, `locate_device_path`,
  `locate_protocol` and `protocols_per_handle` leave nothing behind that the
  properties see; `stall(float)` converts a floating-point number;
  the library keeps no state of the watchdog; `copy_mem`, `set_mem`,
  `calculate_crc32` and the monotonic counter pass their arguments on. The fields
  `register_protocol_notify_` and `unload_image_` have no method;
- runtime services: `get_time`, `set_time`, capsules, `convert_pointer` and the
  monotonic counter pass their arguments on;
- DHCP: `build` and `parse` make or read a packet in the client's memory; DNS:
  `update_dns_cache`, since a lookup answered from the cache is one that ends at
  once; simple network: `station_address`, `statistics`, `nv_data` and
  `mcast_ip_to_mac` set or read a register each;
- files: `flush_`, `FileProtocol2` and `FileIOToken` have fields and no methods;
- block and disk I/O, `LoadFile`: a transfer handed on; a medium that changes
  between the read of its id and a transfer is for the firmware to detect;
- console, serial, graphics, EDID, pointer: device input and output behind
  one-line methods, without a rule to check; debugging: processor state; NIC
  identifier, platform and build: no behaviour.

## What is left

Three liveness properties and part of a fourth stay with TLC. A model of media change in block I/O would
be of the firmware alone. No other part of the library has state or order of its
own.
