---------------------------- MODULE Dns4Protocol ----------------------------
(***************************************************************************)
(* DNS4Protocol (dns_v4.hpp): three kinds of lookup, each with a token     *)
(* whose constructor leaves it without an event and with the status        *)
(* Success.  It has no setter: a token is constructed anew for every       *)
(* lookup, and the client looks at its status and data to see the end; it  *)
(* must know the firmware's word for "not ready", which the library lacks. *)
(***************************************************************************)
EXTENDS CompletionTokens

DnsInit == TokensInit /\ events = {}

DnsServices ==
  <<"GetModeData", "Configure", "HostNameToIp", "IpToHostName", "GeneralLookUp",
    "UpdateDnsCache", "Poll", "Cancel">>

DnsFields ==
  <<"get_mode_data_", "configure_", "hostname_to_ip_", "ip_to_hostname_",
    "general_lookup_", "update_dns_cache_", "poll_", "cancel_">>

DnsService(field) == Behind(DnsFields, DnsServices, field)

\* An answer, also one from the cache, or the last of the retries has timed out.
DnsEnds(t) ==
  /\ held[t] # "none"
  /\ \E word \in {"Success", "Timeout"} : End({t}, All(word))
  /\ UNCHANGED <<configured, ledgers, events, asked>>

-----------------------------------------------------------------------------
\* The methods.

configure ==
  /\ ~configured
  /\ configured' = TRUE
  /\ UNCHANGED <<ledgers, tokens, events>>

reset ==
  /\ configured
  /\ Unconfigure
  /\ UNCHANGED events

\* Mutant: the constructor without the initializer of data_.
Dns4CompletionTokenKeepsData(t) == [status |-> "Success", filled |-> filled]

\* The constructor, for a token in the memory of t.
Dns4CompletionToken(t) == [status |-> "Success", filled |-> filled \ {t}]

\* Some drivers write to the status that the token is not ready.
lookup(token, purpose, field) ==
  LET new == Dns4CompletionToken(token) IN
  /\ wanted[token] = "none"
  /\ Take(token, DnsService(field))
  /\ \E word \in {new.status, "NotReady"} : status' = [status EXCEPT ![token] = word]
  /\ filled' = new.filled
  /\ wanted' = [wanted EXCEPT ![token] = purpose]
  /\ asked' = asked \ {token}
  /\ UNCHANGED <<configured, ledgers, signaled, events>>

hostname_to_ip(token) == lookup(token, "HostNameToIp", "hostname_to_ip_")
ip_to_hostname(token) == lookup(token, "IpToHostName", "ip_to_hostname_")
general_lookup(token) == lookup(token, "GeneralLookUp", "general_lookup_")

cancel(token) ==
  /\ configured
  /\ Cancel(token)
  /\ UNCHANGED <<configured, ledgers, events>>

poll(t) == configured /\ DnsService("poll_") = "Poll" /\ DnsEnds(t)

DnsNext ==
  \/ configure \/ reset
  \/ \E t \in Tokens :
       \/ hostname_to_ip(t) \/ ip_to_hostname(t) \/ general_lookup(t)
       \/ DnsEnds(t) \/ poll(t) \/ Collect(t)
  \/ \E token \in Tokens \cup {nullptr} : cancel(token)

=============================================================================
