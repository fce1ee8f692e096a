----------------------- MODULE SimpleNetworkProtocol -----------------------
(***************************************************************************)
(* SimpleNetworkProtocol (simple_network.hpp): the interface is started    *)
(* and initialized, frames are queued and their buffers given back one by  *)
(* one, frames that have arrived are received.  The class has no field for *)
(* the mode: a client knows the state and its buffers from its calls only. *)
(***************************************************************************)
EXTENDS Naturals, Sequences, FiniteSets

CONSTANTS Buffers,    \* transmit buffers of the client
          QueueSize,  \* how many the interface can hold
          MCasts,     \* multicast addresses
          FrameSize   \* the bytes of a frame that arrives

VARIABLES
  state,     \* the SimpleNetworkState
  sending,   \* the buffers in the transmit queue
  recycled,  \* those that have been sent
  arrived,   \* a frame has arrived
  filters,   \* the RecieveFilterSettings that are enabled
  mcast,     \* the multicast filter
  known,      \* the state as the client knows it
  lent,      \* the buffers it has transmitted and not got back
  enabled,   \* the settings it has enabled
  listed     \* the multicast addresses it has listed

interface == <<state, sending, recycled, arrived, filters, mcast>>
snp_vars == <<interface, known, lent, enabled, listed>>

SimpleNetworkState == {"Stopped", "Started", "Initialized"}
RecieveFilterSettings == {"Unicast", "Multicast"}

SnpTypeOK ==
  /\ state \in SimpleNetworkState
  /\ sending \subseteq Buffers
  /\ recycled \subseteq Buffers \ sending
  /\ Cardinality(sending) <= QueueSize
  /\ arrived \in BOOLEAN
  /\ filters \subseteq RecieveFilterSettings
  /\ mcast \subseteq MCasts
  /\ known \in SimpleNetworkState
  /\ lent \subseteq Buffers
  /\ enabled \subseteq RecieveFilterSettings
  /\ listed \subseteq MCasts

SnpInit ==
  /\ state = "Stopped" /\ known = "Stopped"
  /\ sending = {} /\ recycled = {} /\ lent = {}
  /\ arrived = FALSE
  /\ filters = {} /\ enabled = {}
  /\ mcast = {} /\ listed = {}

SnpServices ==
  <<"Revision", "Start", "Stop", "Initialize", "Reset", "Shutdown", "ReceiveFilters",
    "StationAddress", "Statistics", "MCastIpToMac", "NvData", "GetStatus", "Transmit",
    "Receive", "WaitForPacket">>

\* Mutant: shutdown_ and reset_ stand in the other order.
SnpFieldsSwapped ==
  <<"revision_", "start_", "stop_", "initialize_", "shutdown_", "reset_",
    "receive_filters_", "station_address_", "statistics_", "mcast_ip_to_mac_", "nv_data_",
    "get_status_", "transmit_", "receive_", "wait_for_packet_">>

SnpFields ==
  <<"revision_", "start_", "stop_", "initialize_", "reset_", "shutdown_",
    "receive_filters_", "station_address_", "statistics_", "mcast_ip_to_mac_", "nv_data_",
    "get_status_", "transmit_", "receive_", "wait_for_packet_">>

SnpService(field) == SnpServices[CHOOSE i \in DOMAIN SnpFields : SnpFields[i] = field]

-----------------------------------------------------------------------------
\* The interface.

\* A service that moves from one state to another empties the queues; out of
\* its state it is refused.
From == [Start |-> "Stopped", Stop |-> "Started", Initialize |-> "Started",
         Reset |-> "Initialized", Shutdown |-> "Initialized"]
To == [Start |-> "Started", Stop |-> "Stopped", Initialize |-> "Initialized",
       Reset |-> "Initialized", Shutdown |-> "Started"]

Moves(service) ==
  /\ state = From[service]
  /\ state' = To[service]
  /\ sending' = {} /\ recycled' = {}
  /\ arrived' = FALSE
  /\ IF service = "Reset" THEN UNCHANGED <<filters, mcast>>
     ELSE filters' = {} /\ mcast' = {}

Sent(buffer) ==
  /\ buffer \in sending
  /\ sending' = sending \ {buffer}
  /\ recycled' = recycled \cup {buffer}
  /\ UNCHANGED <<state, arrived, filters, mcast, known, lent, enabled, listed>>

Arrives ==
  /\ state = "Initialized"
  /\ filters # {}
  /\ arrived' = TRUE
  /\ UNCHANGED <<state, sending, recycled, filters, mcast, known, lent, enabled, listed>>

-----------------------------------------------------------------------------
\* The methods.

\* Of a call that succeeds the client knows the state it leads to.
moves(field, state_) ==
  /\ Moves(SnpService(field))
  /\ known' = state_
  /\ lent' = {}

forgets == enabled' = {} /\ listed' = {}

start == moves("start_", "Started") /\ forgets
stop == moves("stop_", "Stopped") /\ forgets
initialize == moves("initialize_", "Initialized") /\ forgets
reset == moves("reset_", "Initialized") /\ UNCHANGED <<enabled, listed>>
shutdown == moves("shutdown_", "Started") /\ forgets

ReceiveFilters(enable, disable, reset_mcast_filter, mcast_filter) ==
  /\ state = "Initialized"
  /\ filters' = (filters \cup enable) \ disable
  /\ mcast' = IF reset_mcast_filter THEN {}
              ELSE IF mcast_filter = {} THEN mcast ELSE mcast_filter
  /\ UNCHANGED <<state, sending, recycled, arrived>>

Knows(enable, disable, reset_mcast_filter, mcast_filter) ==
  /\ enabled' = (enabled \cup enable) \ disable
  /\ listed' = IF reset_mcast_filter THEN {}
               ELSE IF mcast_filter = {} THEN listed ELSE mcast_filter
  /\ UNCHANGED <<known, lent>>

receive_filters(enable, disable, reset_mcast_filter, mcast_filter) ==
  /\ ReceiveFilters(enable, disable, reset_mcast_filter, mcast_filter)
  /\ Knows(enable, disable, reset_mcast_filter, mcast_filter)

\* The interface gives one buffer back to a caller that has room for it.
get_status(tx_buf) ==
  /\ state = "Initialized"
  /\ IF recycled = {} \/ ~tx_buf THEN UNCHANGED <<recycled, lent>>
     ELSE \E buffer \in recycled :
            /\ recycled' = recycled \ {buffer}
            /\ lent' = lent \ {buffer}
  /\ UNCHANGED <<state, sending, arrived, filters, mcast, known, enabled, listed>>

\* Mutant: a queue that is full is only found when a buffer comes back.
transmitWhenFull(buffer) ==
  /\ state = "Initialized"
  /\ buffer \notin lent
  /\ sending' = sending \cup {buffer}
  /\ lent' = lent \cup {buffer}
  /\ UNCHANGED <<state, recycled, arrived, filters, mcast, known, enabled, listed>>

\* Refused while the queue is full.
transmit(buffer) ==
  /\ state = "Initialized"
  /\ buffer \notin lent
  /\ Cardinality(sending) < QueueSize
  /\ sending' = sending \cup {buffer}
  /\ lent' = lent \cup {buffer}
  /\ UNCHANGED <<state, recycled, arrived, filters, mcast, known, enabled, listed>>

\* A frame that does not fit the buffer stays.
receive(buffer_size) ==
  /\ state = "Initialized"
  /\ arrived
  /\ arrived' = (FrameSize > buffer_size)
  /\ UNCHANGED <<state, sending, recycled, filters, mcast, known, lent, enabled, listed>>

SnpNext ==
  \/ start \/ stop \/ initialize \/ reset \/ shutdown \/ Arrives
  \/ \E enable, disable \in SUBSET RecieveFilterSettings,
        reset_mcast_filter \in BOOLEAN, mcast_filter \in SUBSET MCasts :
       receive_filters(enable, disable, reset_mcast_filter, mcast_filter)
  \/ \E tx_buf \in BOOLEAN : get_status(tx_buf)
  \/ \E buffer \in Buffers : transmit(buffer) \/ Sent(buffer)
  \/ \E buffer_size \in {FrameSize - 1, FrameSize} : receive(buffer_size)

=============================================================================
