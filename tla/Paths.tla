------------------------------- MODULE Paths --------------------------------
(***************************************************************************)
(* What the daemon derives from its facts: the path candidates of its      *)
(* peers (merged_path_candidates of crates/fabric), the best of them for a *)
(* traffic class (crates/routing), and the state of the network as the     *)
(* last probes found it (crates/netcheck).                                 *)
(*                                                                         *)
(* The candidates are a set: where two have the same score the code takes  *)
(* the first of its list, and any of them may be the best here.  A loss is *)
(* counted in tenths of a percent.  An address is what the code looks for  *)
(* in its text.  What is only printed is left out.                         *)
(***************************************************************************)
EXTENDS Integers, Sequences, FiniteSetsExt

CONSTANTS
  RelayInfo,      \* [a relay's peer -> the rest of its announcement]
  Worker, Fra,    \* the peers of the built-in state: worker-17, fra-relay-1
  NoRelay,
  Window          \* how many probe observations are kept: 8

TrafficClasses == {"Control", "Interactive", "Bulk", "Background"}

\* is_direct_quic_address, is_ipv6_address
Addresses == [quic : BOOLEAN, v6 : BOOLEAN]

ProbeObservations == [status : {"Pending", "Passed", "Failed"}, latency : Nat]

(* NetcheckReport; `public' is the family of public_udp_addr.  The latency *)
(* of an observation that has not passed is of no account.                 *)
NetcheckReports ==
  [nat    : {"Unknown", "RestrictedCone", "Symmetric", "UdpBlocked"},
   udp    : BOOLEAN,
   ipv6   : BOOLEAN,
   public : {"none", "v4", "v6"},
   mapped : BOOLEAN,
   probes : Seq(ProbeObservations)]

Announcements ==
  [addresses : SUBSET Addresses, mbps : Nat, classes : SUBSET STRING]

ASSUME PathsAssumption ==
  /\ DOMAIN RelayInfo # {}
  /\ Fra \in DOMAIN RelayInfo /\ Worker \notin DOMAIN RelayInfo
  /\ NoRelay \notin DOMAIN RelayInfo
  /\ \A r \in DOMAIN RelayInfo : RelayInfo[r] \in Announcements
  /\ Window \in Nat \ {0}

-----------------------------------------------------------------------------
(* crates/netcheck and reprobe_netcheck.                                   *)

PendingNetcheck ==
  [nat |-> "Unknown", udp |-> FALSE, ipv6 |-> FALSE, public |-> "none", mapped |-> FALSE,
   probes |-> << [status |-> "Pending", latency |-> 0] >>]

FixtureNetcheck ==
  [nat |-> "RestrictedCone", udp |-> TRUE, ipv6 |-> TRUE, public |-> "v4", mapped |-> FALSE,
   probes |-> << [status |-> "Passed", latency |-> 12], [status |-> "Passed", latency |-> 24] >>]

PassedLatencies(net) ==
  {net.probes[i].latency : i \in {j \in DOMAIN net.probes : net.probes[j].status = "Passed"}}

\* best_probe_latency_ms(..).unwrap_or(default)
BestProbe(net, default) ==
  IF PassedLatencies(net) = {} THEN default ELSE Min(PassedLatencies(net))

Reachable(net) == net.udp \/ net.ipv6

\* What a public address or a mapped port says about the network.
Assessed(net) ==
  LET mapped == net.mapped \/ net.public # "none"
  IN  [net EXCEPT !.udp = @ \/ mapped,
                  !.nat = IF mapped /\ @ \in {"Unknown", "UdpBlocked"}
                          THEN "RestrictedCone" ELSE @,
                  !.ipv6 = @ \/ net.public = "v6"]

\* A mutant: what earlier observations found is not carried on.
ObservationAfresh(net) ==
  IF Reachable(net)
  THEN [status |-> "Passed", latency |-> 20]
  ELSE [status |-> "Failed", latency |-> 0]

\* The observation that is made of it.
Observation(net) ==
  IF Reachable(net)
  THEN [status |-> "Passed", latency |-> BestProbe(net, 20)]
  ELSE [status |-> "Failed", latency |-> 0]

Latest(probes) ==
  IF Len(probes) > Window THEN SubSeq(probes, Len(probes) - Window + 1, Len(probes)) ELSE probes

\* reprobe_netcheck
ReprobeNetcheck(net) ==
  LET assessed == Assessed(net)
  IN  [assessed EXCEPT !.probes = Latest(Append(@, Observation(assessed)))]

-----------------------------------------------------------------------------
(* crates/routing.                                                         *)

SupportsClass(c, class) == class \in c.classes

\* saturating_sub
Monus(m, n) == IF m > n THEN m - n ELSE 0

Score(c, class) ==
  CASE class \in {"Control", "Interactive"} -> c.rtt + 2 * c.jitter + c.penalty + c.loss
    [] class = "Bulk" -> c.penalty + Monus(250, c.throughput \div 4)
    [] class = "Background" -> c.penalty + (c.rtt \div 2) + ((8 * c.loss) \div 10)

\* A mutant: the largest score is taken.
SelectLargest(candidates, class) ==
  {c \in candidates :
     /\ SupportsClass(c, class)
     /\ \A d \in candidates : SupportsClass(d, class) => Score(c, class) >= Score(d, class)}

\* select_best_path
SelectBestPath(candidates, class) ==
  {c \in candidates :
     /\ SupportsClass(c, class)
     /\ \A d \in candidates : SupportsClass(d, class) => Score(c, class) <= Score(d, class)}

\* best_path
BestPath(candidates, peer, class) == SelectBestPath({c \in candidates : c.peer = peer}, class)

-----------------------------------------------------------------------------
(* The candidates made of bootstrap hints and of the relay map.            *)

\* endpoint_path_kind, relay_path_kind
PathKind(addresses) == IF \E a \in addresses : a.v6 THEN "DirectIpv6" ELSE "DirectUdp"

\* A peer that a hint names.
ToHinted(hint, net) ==
  [peer |-> hint.peer, kind |-> PathKind(hint.addresses), relay |-> NoRelay,
   source |-> "Bootstrap", classes |-> TrafficClasses,
   rtt |-> BestProbe(net, 40),
   jitter |-> IF net.udp THEN 3 ELSE 12,
   loss |-> IF net.udp THEN 2 ELSE 15,
   throughput |-> IF net.udp THEN 600 ELSE 120,
   penalty |-> 0]

SynthesizedDirect(hints, net) ==
  IF Reachable(net)
  THEN {ToHinted(h, net) : h \in {g \in hints : \E a \in g.addresses : a.quic}}
  ELSE {}

\* relay_traffic_classes: names it does not know are dropped.
ClassNamed ==
  [name \in {"NetworkControl", "InteractiveRpc", "Background", "Bulk"} |->
     CASE name = "NetworkControl" -> "Control"
       [] name = "InteractiveRpc" -> "Interactive"
       [] OTHER -> name]

RelayTrafficClasses(names) ==
  LET known == {ClassNamed[n] : n \in names \cap DOMAIN ClassNamed}
  IN  IF known = {} THEN {"Control", "Interactive"} ELSE known

DirectRelayRtt(relay, net) ==
  BestProbe(net, IF net.udp THEN 30 ELSE 70)
    + (IF PathKind(RelayInfo[relay].addresses) = "DirectIpv6" /\ net.ipv6 THEN 5 ELSE 15)

DirectRelayJitter(net) == IF net.udp THEN 4 ELSE 14
DirectRelayLoss(net) == IF net.udp THEN 3 ELSE 18

RelayThroughput(relay) ==
  LET mbps == RelayInfo[relay].mbps
  IN  IF mbps < 100 THEN 100 ELSE IF mbps > 5000 THEN 5000 ELSE mbps

\* A relay as a peer.
ToRelay(relay, net) ==
  [peer |-> relay, kind |-> PathKind(RelayInfo[relay].addresses), relay |-> NoRelay,
   source |-> "AuthorityRelay", classes |-> RelayTrafficClasses(RelayInfo[relay].classes),
   rtt |-> DirectRelayRtt(relay, net), jitter |-> DirectRelayJitter(net),
   loss |-> DirectRelayLoss(net), throughput |-> RelayThroughput(relay), penalty |-> 0]

\* A peer by way of a relay.
ThroughRelay(peer, relay, net) ==
  [peer |-> peer, kind |-> "Relay", relay |-> relay,
   source |-> "AuthorityRelay", classes |-> RelayTrafficClasses(RelayInfo[relay].classes),
   rtt |-> 2 * DirectRelayRtt(relay, net) + 20, jitter |-> DirectRelayJitter(net) + 5,
   loss |-> DirectRelayLoss(net) + 4,
   throughput |-> IF RelayThroughput(relay) \div 2 < 80 THEN 80 ELSE RelayThroughput(relay) \div 2,
   penalty |-> 25]

SynthesizedRelay(peers, relays, net) ==
  {ToRelay(r, net) : r \in relays}
  \cup {ThroughRelay(p, r, net) : p \in peers \ relays, r \in relays}

Observed(candidates) == {c \in candidates : c.source = "Observed"}

\* The candidates of LocalNode::fixture.
FixtureCandidates ==
  {[peer |-> Worker, kind |-> "DirectIpv6", relay |-> NoRelay, source |-> "Observed",
    classes |-> {"Interactive", "Control"},
    rtt |-> 13, jitter |-> 1, loss |-> 1, throughput |-> 780, penalty |-> 0],
   [peer |-> Worker, kind |-> "Relay", relay |-> Fra, source |-> "Observed",
    classes |-> {"Interactive", "Bulk"},
    rtt |-> 24, jitter |-> 4, loss |-> 3, throughput |-> 1200, penalty |-> 25]}

=============================================================================
