----------------------------- MODULE NodeProofs -----------------------------
(***************************************************************************)
(* Proofs about what a daemon derives from its facts, for all relays,      *)
(* hints, revocations and any number of commands.                          *)
(***************************************************************************)
EXTENDS Node, AuthorityProofs, WellFoundedInduction

(* Every step of the daemon is a step of module Authority or leaves its    *)
(* variables alone: what is proved about the facts there holds here.       *)
THEOREM NodeRefinesAuthority == NodeSpec => Spec
<1>1. NodeInit => Init  BY DEF NodeInit
<1>2. [NodeNext]_nodeVars => [Next]_vars
  BY DEF NodeNext, NodeRefresh, NodeSyncSnapshot, NodeSyncRevocations, NodeRestart, Reprobe,
         Next, Refresh, nodeVars
<1> QED  BY <1>1, <1>2, PTL DEF NodeSpec, Spec

-----------------------------------------------------------------------------
\* The derived part is a record with four fields.
IsView(v) ==
  v = [peers |-> v.peers, netcheck |-> v.netcheck, denied |-> v.denied,
       candidates |-> v.candidates]

\* What is synthesized is not observed.
LEMMA SynthesizedNotObserved ==
  ASSUME NEW hints, NEW peers, NEW relays, NEW net
  PROVE  Observed(SynthesizedDirect(hints, net) \cup SynthesizedRelay(peers, relays, net)) = {}
BY DEF Observed, SynthesizedDirect, SynthesizedRelay, ToHinted, ToRelay, ThroughRelay

\* Recomputing leaves the observed candidates.
LEMMA MergedObserved ==
  ASSUME NEW v, NEW facts
  PROVE  Observed(MergedPathCandidates(v, facts)) = Observed(v.candidates)
<1> DEFINE made == SynthesizedDirect(facts.hints, v.netcheck)
                     \cup SynthesizedRelay(DOMAIN v.peers, facts.relayMap.relays, v.netcheck)
<1>1. Observed(made) = {}  BY SynthesizedNotObserved
<1>2. MergedPathCandidates(v, facts) = Observed(v.candidates) \cup made
  BY DEF MergedPathCandidates
<1> HIDE DEF made
<1> QED  BY <1>1, <1>2 DEF Observed

\* What Recompute changes, and that doing it again changes nothing.
LEMMA RecomputeView ==
  ASSUME NEW v, IsView(v), NEW facts, NEW w, w = Recompute(v, facts)
  PROVE  /\ IsView(w)
         /\ w.peers = v.peers /\ w.netcheck = v.netcheck /\ w.denied = v.denied
         /\ w.candidates = MergedPathCandidates(v, facts)
         /\ Observed(w.candidates) = Observed(v.candidates)
         /\ w.candidates = MergedPathCandidates(w, facts)
<1>1. /\ IsView(w)
      /\ w.peers = v.peers /\ w.netcheck = v.netcheck /\ w.denied = v.denied
      /\ w.candidates = MergedPathCandidates(v, facts)
  BY DEF Recompute, IsView
<1>2. Observed(w.candidates) = Observed(v.candidates)  BY <1>1, MergedObserved
<1>3. w.candidates = MergedPathCandidates(w, facts)  BY <1>1, <1>2 DEF MergedPathCandidates
<1> QED  BY <1>1, <1>2, <1>3

\* After sync_authority_snapshot the derived part is that of the new facts.
LEMMA SyncViewCurrent ==
  ASSUME NEW v, IsView(v), NEW facts, NEW w, w = SyncView(v, facts)
  PROVE  /\ IsView(w)
         /\ w.netcheck = v.netcheck
         /\ w.denied = DeniedPeers(facts)
         /\ Observed(w.candidates) = Observed(v.candidates)
         /\ w.candidates = MergedPathCandidates(w, facts)
         /\ w.peers = MergePeers(v.peers, HintPeers(facts.hints))
<1> DEFINE u == [v EXCEPT !.peers = MergePeers(@, HintPeers(facts.hints)),
                          !.denied = DeniedPeers(facts)]
<1>1. /\ IsView(u) /\ u.netcheck = v.netcheck /\ u.denied = DeniedPeers(facts)
      /\ u.candidates = v.candidates /\ u.peers = MergePeers(v.peers, HintPeers(facts.hints))
  <2> DEFINE t == [v EXCEPT !.peers = MergePeers(@, HintPeers(facts.hints))]
  <2>1. /\ IsView(t) /\ t.netcheck = v.netcheck /\ t.denied = v.denied
        /\ t.candidates = v.candidates
        /\ t.peers = MergePeers(v.peers, HintPeers(facts.hints))
    BY DEF IsView
  <2>2. u = [t EXCEPT !.denied = DeniedPeers(facts)]  OBVIOUS
  <2> HIDE DEF t, u
  <2> QED  BY <2>1, <2>2 DEF IsView
<1>2. w = Recompute(u, facts)  BY DEF SyncView
<1> HIDE DEF u
<1> QED  BY <1>1, <1>2, RecomputeView

\* After apply_relay_map it is that of the facts with the newer map.
LEMMA MapViewCurrent ==
  ASSUME NEW v, IsView(v), NEW facts \in NodeStates, NEW map,
         v.candidates = MergedPathCandidates(v, facts),
         NEW w, w = MapView(v, facts, map)
  PROVE  /\ IsView(w)
         /\ w.netcheck = v.netcheck
         /\ w.denied = v.denied
         /\ Observed(w.candidates) = Observed(v.candidates)
         /\ w.candidates = MergedPathCandidates(w, ApplyRelayMap(facts, map))
         /\ \/ w.peers = v.peers /\ ApplyRelayMap(facts, map) = facts
            \/ /\ w.peers = MergePeers(v.peers, RelayPeers(map))
               /\ ApplyRelayMap(facts, map) = [facts EXCEPT !.relayMap = map]
<1>1. CASE facts.relayMap.version > map.version
  BY <1>1 DEF MapView, ApplyRelayMap
<1>2. CASE ~ (facts.relayMap.version > map.version)
  <2> DEFINE u == [v EXCEPT !.peers = MergePeers(@, RelayPeers(map))]
             new == [facts EXCEPT !.relayMap = map]
  <2>1. /\ IsView(u) /\ u.netcheck = v.netcheck /\ u.denied = v.denied
        /\ u.candidates = v.candidates /\ u.peers = MergePeers(v.peers, RelayPeers(map))
    BY DEF IsView
  <2>2. w = Recompute(u, new) /\ ApplyRelayMap(facts, map) = new
    BY <1>2 DEF MapView, ApplyRelayMap
  <2>3. new = [facts EXCEPT !.relayMap = map]  OBVIOUS
  <2> HIDE DEF u, new
  <2> QED  BY <2>1, <2>2, <2>3, RecomputeView
<1> QED  BY <1>1, <1>2

\* The denied peers depend on the membership and the revocations alone.
LEMMA DeniedPeersOf ==
  ASSUME NEW f, NEW g, f.membership = g.membership, f.revs = g.revs
  PROVE  DeniedPeers(f) = DeniedPeers(g)
BY DEF DeniedPeers

\* The candidates depend on the hints and on the relays of the map.
LEMMA CandidatesOf ==
  ASSUME NEW v, NEW f, NEW g, f.hints = g.hints, f.relayMap = g.relayMap
  PROVE  MergedPathCandidates(v, f) = MergedPathCandidates(v, g)
BY DEF MergedPathCandidates

\* A seeded daemon's derived part is that of the facts it was seeded with.
LEMMA SeedViewCurrent ==
  ASSUME NEW facts \in NodeStates, NEW w,
         w = MapView(SeedView(facts), facts, facts.relayMap)
  PROVE  /\ IsView(w)
         /\ w.netcheck = PendingNetcheck
         /\ w.denied = DeniedPeers(facts)
         /\ Observed(w.candidates) = {}
         /\ w.candidates = MergedPathCandidates(w, facts)
         /\ w.peers = MergePeers(HintPeers(facts.hints), RelayPeers(facts.relayMap))
<1> DEFINE v == SeedView(facts)
           u == [v EXCEPT !.peers = MergePeers(@, RelayPeers(facts.relayMap))]
<1>1. /\ IsView(v) /\ v.peers = HintPeers(facts.hints) /\ v.netcheck = PendingNetcheck
      /\ v.denied = DeniedPeers(facts) /\ v.candidates = {}
  BY DEF SeedView, IsView
<1>2. [facts EXCEPT !.relayMap = facts.relayMap] = facts  BY DEF NodeStates
<1>3. ~ (facts.relayMap.version > facts.relayMap.version)  BY DEF NodeStates, RelayMaps
<1>4. w = Recompute(u, facts)  BY <1>2, <1>3 DEF MapView
<1> HIDE DEF v
<1>5. /\ IsView(u) /\ u.netcheck = PendingNetcheck /\ u.denied = DeniedPeers(facts)
      /\ u.candidates = {}
      /\ u.peers = MergePeers(HintPeers(facts.hints), RelayPeers(facts.relayMap))
  BY <1>1 DEF IsView
<1>6. Observed({}) = {}  BY DEF Observed
<1> HIDE DEF u
<1> QED  BY <1>4, <1>5, <1>6, RecomputeView

\* FactsCurrent, and what makes EXCEPT mean what it says.
CurrentInv == IsView(view) /\ FactsCurrent

(* The derived part of state.json is that of the facts, for all facts:     *)
(* sync_authority_snapshot and apply_relay_map recompute the paths,        *)
(* apply_revocations the denied peers, and what each leaves alone does not *)
(* depend on what it changes.                                              *)
THEOREM FactsCurrentCorrect == NodeSpec => []FactsCurrent
<1>1. NodeInit /\ AuthorityTypeOK => CurrentInv
  <2> SUFFICES ASSUME NodeInit, AuthorityTypeOK PROVE CurrentInv  OBVIOUS
  <2>0. node \in NodeStates  BY DEF AuthorityTypeOK
  <2>1. CASE SyncArg
    <3>1. PICK net \in StartNetchecks : view = Recompute(OwnView(node, net), node)
      BY <2>1 DEF NodeInit
    <3>2. IsView(OwnView(node, net)) /\ OwnView(node, net).denied = DeniedPeers(node)
      BY DEF IsView, OwnView
    <3> QED  BY <3>1, <3>2, RecomputeView DEF CurrentInv, FactsCurrent
  <2>2. CASE ~ SyncArg
    <3>1. view = MapView(SeedView(node), node, node.relayMap)  BY <2>2 DEF NodeInit
    <3> QED  BY <2>0, <3>1, SeedViewCurrent DEF CurrentInv, FactsCurrent
  <2> QED  BY <2>1, <2>2
<1>2. AuthorityTypeOK /\ AuthorityTypeOK' /\ CurrentInv /\ [NodeNext]_nodeVars => CurrentInv'
  <2> SUFFICES ASSUME AuthorityTypeOK, AuthorityTypeOK', CurrentInv, [NodeNext]_nodeVars
               PROVE  CurrentInv'
    OBVIOUS
  <2>0. /\ node \in NodeStates /\ node' \in NodeStates /\ IsView(view)
        /\ view.denied = DeniedPeers(node)
        /\ view.candidates = MergedPathCandidates(view, node)
    BY DEF AuthorityTypeOK, CurrentInv, FactsCurrent
  <2>00. SUFFICES /\ IsView(view')
                  /\ view'.denied = DeniedPeers(node')
                  /\ view'.candidates = MergedPathCandidates(view', node')
    BY DEF CurrentInv, FactsCurrent, IsView, DeniedPeers, MergedPathCandidates
  <2>1. CASE view' = view /\ node' = node  BY <2>0, <2>1
  <2>2. CASE NodeSyncSnapshot
    <3> DEFINE merged == MergeSnapshot(node, sync.snap)
               first == SyncView(view, merged)
    <3>1. /\ node' = ApplyRelayMap(merged, sync.map)
          /\ view' = MapView(first, merged, sync.map)
          /\ sync.snap \in Snapshots /\ sync.map \in RelayMaps
      BY <2>2 DEF NodeSyncSnapshot, SyncSnapshot, AuthorityTypeOK
    <3>2. merged \in NodeStates
      BY <2>0, <3>1 DEF MergeSnapshot, NodeStates, Snapshots
    <3> HIDE DEF merged
    <3>3. /\ IsView(first) /\ first.denied = DeniedPeers(merged)
          /\ first.candidates = MergedPathCandidates(first, merged)
      BY <2>0, SyncViewCurrent
    <3> HIDE DEF first
    <3>4. /\ IsView(view') /\ view'.denied = first.denied
          /\ view'.candidates = MergedPathCandidates(view', node')
      BY <3>1, <3>2, <3>3, MapViewCurrent
    <3>5. node'.membership = merged.membership /\ node'.revs = merged.revs
      BY <3>1, <3>2 DEF ApplyRelayMap, NodeStates
    <3>6. DeniedPeers(node') = DeniedPeers(merged)  BY <3>5, DeniedPeersOf
    <3> QED  BY <3>3, <3>4, <3>6
  <2>3. CASE NodeSyncRevocations
    <3> DEFINE first == Recompute(view, node)
    <3>1. /\ node' = ApplyRevocations(node, sync.revs)
          /\ view' = [first EXCEPT !.denied = DeniedPeers(node')]
      BY <2>3 DEF NodeSyncRevocations, SyncRevocations, RevocationsView
    <3>2. /\ IsView(first) /\ first.candidates = MergedPathCandidates(first, node)
      BY <2>0, RecomputeView
    <3> HIDE DEF first
    <3>3. /\ IsView(view') /\ view'.denied = DeniedPeers(node')
          /\ view'.candidates = first.candidates /\ view'.peers = first.peers
          /\ view'.netcheck = first.netcheck
      BY <3>1, <3>2 DEF IsView
    <3>4. node'.hints = node.hints /\ node'.relayMap = node.relayMap
      BY <2>0, <3>1 DEF ApplyRevocations, NodeStates
    <3>5. MergedPathCandidates(view', node') = MergedPathCandidates(first, node)
      BY <3>3, <3>4 DEF MergedPathCandidates
    <3> QED  BY <3>2, <3>3, <3>5
  <2>4. CASE NodeRestart
    <3>1. CASE SyncArg  BY <2>0, <2>4, <3>1 DEF NodeRestart, Restart
    <3>2. CASE ~ SyncArg
      <4>1. view' = MapView(SeedView(node'), node', node'.relayMap)
        BY <2>4, <3>2 DEF NodeRestart
      <4> QED  BY <2>0, <4>1, SeedViewCurrent
    <3> QED  BY <3>1, <3>2
  <2>5. CASE Reprobe
    <3> DEFINE first == [view EXCEPT !.netcheck = ReprobeNetcheck(@)]
    <3>1. view' = Recompute(first, node) /\ node' = node  BY <2>5 DEF Reprobe, vars
    <3>2. IsView(first) /\ first.denied = view.denied  BY <2>0 DEF IsView
    <3> HIDE DEF first
    <3> QED  BY <2>0, <3>1, <3>2, RecomputeView
  <2> QED
    BY <2>1, <2>2, <2>3, <2>4, <2>5
       DEF NodeNext, NodeRefresh, nodeVars, vars, Tick, Sign, ReadState, WriteState,
           FetchSnapshot, FetchRelayMap, FetchRevocations, SyncRefused, SyncFails, Ends
<1>3. NodeSpec => []AuthorityTypeOK  BY NodeRefinesAuthority, AuthorityTypeCorrect, PTL
<1>4. CurrentInv => FactsCurrent  BY DEF CurrentInv
<1> QED  BY <1>1, <1>2, <1>3, <1>4, PTL DEF NodeSpec

-----------------------------------------------------------------------------
(* What the netcheck report of a daemon satisfies: if the network is       *)
(* reachable, or a reprobe would find that it is, a probe has passed.      *)
NetOK(net) ==
  /\ net \in NetcheckReports
  /\ Reachable(Assessed(net)) => PassedLatencies(net) # {}

\* A set of naturals that is not empty has a least element, and it is Min.
LEMMA MinLeast ==
  ASSUME NEW S \in SUBSET Nat, S # {}
  PROVE  Min(S) \in S /\ \A n \in S : Min(S) <= n
<1> DEFINE R == {ss \in Nat \X Nat : ss[1] < ss[2]}
<1>1. OpToRel(<, Nat) = R  BY Zenon DEF OpToRel
<1>2. IsWellFoundedOn(R, Nat)  BY <1>1, NatLessThanWellFounded
<1> HIDE DEF R
<1>3. PICK x \in S : \A y \in S : ~ (<<y, x>> \in R)  BY <1>2, WFMin
<1>4. ASSUME NEW y \in S PROVE x <= y
  <2>1. ~ (<<y, x>> \in Nat \X Nat /\ <<y, x>>[1] < <<y, x>>[2])  BY <1>3 DEF R
  <2>2. ~ (y < x)  BY <2>1
  <2> QED  BY <2>2
<1> QED  BY <1>4 DEF Min

\* It is the only one.
LEMMA MinUnique ==
  ASSUME NEW S \in SUBSET Nat, NEW m \in S, \A n \in S : m <= n
  PROVE  Min(S) = m
<1>1. Min(S) \in S /\ \A n \in S : Min(S) <= n  BY MinLeast
<1>2. Min(S) \in Nat /\ m \in Nat /\ Min(S) <= m /\ m <= Min(S)  BY <1>1
<1> QED  BY <1>2

\* The window keeps the newest observation and invents none.
LEMMA LatestKeeps ==
  ASSUME NEW T, NEW s \in Seq(T), NEW e \in T, NEW w, w = Latest(Append(s, e))
  PROVE  /\ w \in Seq(T) /\ Len(w) \in DOMAIN w
         /\ w[Len(w)] = e
         /\ \A i \in DOMAIN w : w[i] = e \/ \E j \in DOMAIN s : w[i] = s[j]
<1> DEFINE a == Append(s, e)
<1>1. /\ a \in Seq(T) /\ Len(a) = Len(s) + 1 /\ a[Len(a)] = e
      /\ \A j \in 1 .. Len(a) : a[j] = e \/ (j \in DOMAIN s /\ a[j] = s[j])
  OBVIOUS
<1> HIDE DEF a
<1>2. Len(s) \in Nat /\ Window \in Nat \ {0}  BY PathsAssumption
<1>3. CASE Len(a) > Window
  <2>1. w = SubSeq(a, Len(a) - Window + 1, Len(a))  BY <1>3 DEF Latest, a
  <2>2. /\ w \in Seq(T) /\ Len(w) = Window
        /\ \A i \in 1 .. Window : w[i] = a[i + Len(a) - Window]
    BY <1>1, <1>2, <1>3, <2>1
  <2>3. \A i \in 1 .. Window : i + Len(a) - Window \in 1 .. Len(a)  BY <1>1, <1>2, <1>3
  <2>4. DOMAIN w = 1 .. Window /\ Window \in 1 .. Window  BY <1>2, <2>2
  <2>5. w[Window] = a[Len(a)]  BY <1>1, <1>2, <2>2
  <2>6. \A i \in 1 .. Window : w[i] = e \/ \E j \in DOMAIN s : w[i] = s[j]
    BY <1>1, <2>2, <2>3
  <2> QED  BY <1>1, <2>2, <2>4, <2>5, <2>6
<1>4. CASE ~ (Len(a) > Window)
  <2>1. w = a  BY <1>4 DEF Latest, a
  <2> QED  BY <1>1, <1>2, <2>1
<1> QED  BY <1>3, <1>4

\* The latencies are naturals.
LEMMA LatenciesNat ==
  ASSUME NEW net \in NetcheckReports
  PROVE  PassedLatencies(net) \in SUBSET Nat
<1>1. net.probes \in Seq(ProbeObservations)  BY DEF NetcheckReports
<1>2. \A i \in DOMAIN net.probes : net.probes[i] \in ProbeObservations  BY <1>1
<1>3. \A i \in DOMAIN net.probes : net.probes[i].latency \in Nat  BY <1>2 DEF ProbeObservations
<1> QED  BY <1>3 DEF PassedLatencies

\* What a reprobe finds out, it finds out at once.
LEMMA AssessedOnce ==
  ASSUME NEW net \in NetcheckReports, NEW mid, mid = Assessed(net)
  PROVE  /\ mid \in NetcheckReports /\ mid.probes = net.probes
         /\ PassedLatencies(mid) = PassedLatencies(net)
         /\ Reachable(net) => Reachable(mid)
         /\ mid.public = net.public /\ mid.mapped = net.mapped
         /\ mid.udp = (net.udp \/ net.mapped \/ net.public # "none")
         /\ mid.ipv6 = (net.ipv6 \/ net.public = "v6")
<1>1. /\ mid \in NetcheckReports /\ mid.probes = net.probes
      /\ mid.public = net.public /\ mid.mapped = net.mapped
      /\ mid.udp = (net.udp \/ net.mapped \/ net.public # "none")
      /\ mid.ipv6 = (net.ipv6 \/ net.public = "v6")
  BY DEF Assessed, NetcheckReports
<1> QED  BY <1>1 DEF PassedLatencies, Reachable

\* Beyond that it changes no cost, if the network is reachable.
LEMMA ReprobeKeeps ==
  ASSUME NEW net, NetOK(net), NEW mid, mid = Assessed(net), NEW new, new = ReprobeNetcheck(net)
  PROVE  /\ NetOK(new)
         /\ new.udp = mid.udp /\ new.ipv6 = mid.ipv6
         /\ Reachable(Assessed(new)) => Reachable(mid)
         /\ Reachable(mid) => \A d : BestProbe(new, d) = BestProbe(net, d)
<1> DEFINE obs == Observation(mid)
           P == PassedLatencies(net)
<1>0. net \in NetcheckReports /\ (Reachable(mid) => P # {})  BY DEF NetOK
<1>1. /\ mid \in NetcheckReports /\ mid.probes = net.probes
      /\ PassedLatencies(mid) = P
      /\ mid.public = net.public /\ mid.mapped = net.mapped
      /\ mid.udp = (net.udp \/ net.mapped \/ net.public # "none")
      /\ mid.ipv6 = (net.ipv6 \/ net.public = "v6")
  BY <1>0, AssessedOnce
<1>3. P \in SUBSET Nat  BY <1>0, LatenciesNat
<1> HIDE DEF P
<1>4. P # {} => Min(P) \in P /\ \A n \in P : Min(P) <= n  BY <1>3, MinLeast
<1>5. /\ obs \in ProbeObservations
      /\ Reachable(mid) => obs.status = "Passed" /\ obs.latency = Min(P)
      /\ ~ Reachable(mid) => obs.status = "Failed"
  <2>1. CASE Reachable(mid)
    <3>1. obs = [status |-> "Passed", latency |-> Min(P)]
      BY <1>0, <1>1, <2>1 DEF Observation, BestProbe
    <3>2. Min(P) \in Nat  BY <1>0, <1>3, <1>4, <2>1
    <3>3. obs \in ProbeObservations  BY <3>1, <3>2 DEF ProbeObservations
    <3> QED  BY <2>1, <3>1, <3>3
  <2>2. CASE ~ Reachable(mid)
    <3>1. obs = [status |-> "Failed", latency |-> 0]  BY <2>2 DEF Observation
    <3> QED  BY <2>2, <3>1 DEF ProbeObservations
  <2> QED  BY <2>1, <2>2
<1>6. new = [mid EXCEPT !.probes = Latest(Append(@, obs))]  BY DEF ReprobeNetcheck
<1> HIDE DEF obs
<1>7. net.probes \in Seq(ProbeObservations)  BY <1>0 DEF NetcheckReports
<1>8. /\ new.probes = Latest(Append(net.probes, obs))
      /\ new.udp = mid.udp /\ new.ipv6 = mid.ipv6
      /\ new.public = net.public /\ new.mapped = net.mapped
  BY <1>1, <1>6 DEF NetcheckReports
<1> DEFINE w == new.probes
<1>9. /\ w \in Seq(ProbeObservations) /\ Len(w) \in DOMAIN w /\ w[Len(w)] = obs
      /\ \A i \in DOMAIN w : w[i] = obs \/ \E j \in DOMAIN net.probes : w[i] = net.probes[j]
  BY <1>5, <1>7, <1>8, LatestKeeps
<1>10. new \in NetcheckReports  BY <1>1, <1>6, <1>8, <1>9 DEF NetcheckReports
<1>11. Reachable(Assessed(new)) => Reachable(mid)
  <2>1. /\ Assessed(new).udp = (new.udp \/ new.mapped \/ new.public # "none")
        /\ Assessed(new).ipv6 = (new.ipv6 \/ new.public = "v6")
    BY <1>10, AssessedOnce
  <2> QED  BY <1>1, <1>8, <2>1 DEF Reachable
<1>12. CASE Reachable(mid)
  <2>1. \A j \in DOMAIN net.probes : net.probes[j].status = "Passed" => net.probes[j].latency \in P
    BY DEF P, PassedLatencies
  <2>2. PassedLatencies(new) \subseteq P
    <3> SUFFICES ASSUME NEW i \in DOMAIN w, w[i].status = "Passed" PROVE w[i].latency \in P
      BY DEF PassedLatencies
    <3>1. CASE w[i] = obs  BY <1>0, <1>4, <1>5, <1>12, <3>1
    <3>2. CASE \E j \in DOMAIN net.probes : w[i] = net.probes[j]  BY <2>1, <3>2
    <3> QED  BY <1>9, <3>1, <3>2
  <2>3. Min(P) \in PassedLatencies(new)  BY <1>5, <1>9, <1>12 DEF PassedLatencies
  <2>4. Min(PassedLatencies(new)) = Min(P)
    BY <1>0, <1>3, <1>4, <1>12, <2>2, <2>3, MinUnique
  <2>5. \A d : BestProbe(new, d) = BestProbe(net, d)
    BY <1>0, <1>12, <2>3, <2>4 DEF BestProbe, P
  <2> QED  BY <1>8, <1>10, <1>11, <2>3, <2>5 DEF NetOK
<1>13. CASE ~ Reachable(mid)
  BY <1>8, <1>10, <1>11, <1>13 DEF NetOK
<1> QED  BY <1>12, <1>13

\* The costs depend on reachability and on the best probe alone.
LEMMA CandidatesOfNet ==
  ASSUME NEW m, NEW n, m.udp = n.udp, m.ipv6 = n.ipv6,
         \A d : BestProbe(m, d) = BestProbe(n, d),
         NEW hints, NEW peers, NEW relays
  PROVE  /\ SynthesizedDirect(hints, m) = SynthesizedDirect(hints, n)
         /\ SynthesizedRelay(peers, relays, m) = SynthesizedRelay(peers, relays, n)
<1>0. \A h : ToHinted(h, m) = ToHinted(h, n)  BY DEF ToHinted
<1>1. SynthesizedDirect(hints, m) = SynthesizedDirect(hints, n)
  BY <1>0 DEF SynthesizedDirect, Reachable
<1>2. \A r : /\ DirectRelayRtt(r, m) = DirectRelayRtt(r, n)
             /\ DirectRelayJitter(m) = DirectRelayJitter(n)
             /\ DirectRelayLoss(m) = DirectRelayLoss(n)
  BY DEF DirectRelayRtt, DirectRelayJitter, DirectRelayLoss
<1>3. \A r, p : ToRelay(r, m) = ToRelay(r, n) /\ ThroughRelay(p, r, m) = ThroughRelay(p, r, n)
  BY <1>2 DEF ToRelay, ThroughRelay
<1> QED  BY <1>1, <1>3 DEF SynthesizedRelay

\* The report a daemon begins with is one, and no step but Reprobe touches it.
NetInv == IsView(view) /\ NetOK(view.netcheck)

LEMMA InitialNets == NetOK(PendingNetcheck) /\ \A net \in StartNetchecks : NetOK(net)
<1>1. NetOK(PendingNetcheck)
  <2>1. PendingNetcheck \in NetcheckReports
    BY DEF PendingNetcheck, NetcheckReports, ProbeObservations
  <2>2. Assessed(PendingNetcheck).udp = FALSE /\ Assessed(PendingNetcheck).ipv6 = FALSE
    BY <2>1, AssessedOnce DEF PendingNetcheck
  <2> QED  BY <2>1, <2>2 DEF NetOK, Reachable
<1>2. ASSUME NEW net \in StartNetchecks PROVE NetOK(net)
  <2>1. net \in NetcheckReports /\ net.probes = FixtureNetcheck.probes  BY NodeAssumption
  <2>2. net.probes[1].latency \in PassedLatencies(net)
    BY <2>1 DEF PassedLatencies, FixtureNetcheck
  <2> QED  BY <2>1, <2>2 DEF NetOK
<1> QED  BY <1>1, <1>2

LEMMA NetInvCorrect == NodeSpec => []NetInv
<1>1. NodeInit /\ AuthorityTypeOK => NetInv
  <2> SUFFICES ASSUME NodeInit, AuthorityTypeOK PROVE NetInv  OBVIOUS
  <2>1. CASE SyncArg
    <3>1. PICK net \in StartNetchecks : view = Recompute(OwnView(node, net), node)
      BY <2>1 DEF NodeInit
    <3>2. IsView(OwnView(node, net)) /\ OwnView(node, net).netcheck = net
      BY DEF IsView, OwnView
    <3> QED  BY <3>1, <3>2, RecomputeView, InitialNets DEF NetInv
  <2>2. CASE ~ SyncArg
    <3>1. view = MapView(SeedView(node), node, node.relayMap)  BY <2>2 DEF NodeInit
    <3>2. node \in NodeStates  BY DEF AuthorityTypeOK
    <3> QED  BY <3>1, <3>2, SeedViewCurrent, InitialNets DEF NetInv
  <2> QED  BY <2>1, <2>2
<1>2. AuthorityTypeOK /\ AuthorityTypeOK' /\ NetInv /\ [NodeNext]_nodeVars => NetInv'
  <2> SUFFICES ASSUME AuthorityTypeOK, AuthorityTypeOK', NetInv, [NodeNext]_nodeVars
               PROVE  NetInv'
    OBVIOUS
  <2>0. IsView(view) /\ NetOK(view.netcheck) /\ node \in NodeStates /\ node' \in NodeStates
    BY DEF NetInv, AuthorityTypeOK
  <2>00. SUFFICES IsView(view') /\ NetOK(view'.netcheck)
    BY DEF NetInv, IsView, NetOK, NetcheckReports, Reachable, Assessed, PassedLatencies,
           ProbeObservations
  <2>1. CASE view' = view  BY <2>0, <2>1
  <2>2. CASE NodeSyncSnapshot
    <3> DEFINE merged == MergeSnapshot(node, sync.snap)
               first == SyncView(view, merged)
    <3>1. /\ view' = MapView(first, merged, sync.map)
          /\ sync.snap \in Snapshots /\ sync.map \in RelayMaps
      BY <2>2 DEF NodeSyncSnapshot, SyncSnapshot, AuthorityTypeOK
    <3>2. merged \in NodeStates
      BY <2>0, <3>1 DEF MergeSnapshot, NodeStates, Snapshots
    <3> HIDE DEF merged
    <3>3. /\ IsView(first) /\ first.netcheck = view.netcheck
          /\ first.candidates = MergedPathCandidates(first, merged)
      BY <2>0, SyncViewCurrent
    <3> HIDE DEF first
    <3> QED  BY <2>0, <3>1, <3>2, <3>3, MapViewCurrent
  <2>3. CASE NodeSyncRevocations
    <3> DEFINE first == Recompute(view, node)
    <3>1. view' = [first EXCEPT !.denied = DeniedPeers(node')]
      BY <2>3 DEF NodeSyncRevocations, RevocationsView
    <3>2. IsView(first) /\ first.netcheck = view.netcheck  BY <2>0, RecomputeView
    <3> HIDE DEF first
    <3> QED  BY <2>0, <3>1, <3>2 DEF IsView
  <2>4. CASE NodeRestart
    <3>1. CASE SyncArg  BY <2>0, <2>4, <3>1 DEF NodeRestart
    <3>2. CASE ~ SyncArg
      <4>1. view' = MapView(SeedView(node'), node', node'.relayMap)
        BY <2>4, <3>2 DEF NodeRestart
      <4> QED  BY <2>0, <4>1, SeedViewCurrent, InitialNets
    <3> QED  BY <3>1, <3>2
  <2>5. CASE Reprobe
    <3> DEFINE first == [view EXCEPT !.netcheck = ReprobeNetcheck(@)]
    <3>1. view' = Recompute(first, node)  BY <2>5 DEF Reprobe
    <3>2. IsView(first) /\ first.netcheck = ReprobeNetcheck(view.netcheck)
      BY <2>0 DEF IsView
    <3> HIDE DEF first
    <3>3. NetOK(first.netcheck)  BY <2>0, <3>2, ReprobeKeeps
    <3> QED  BY <3>1, <3>2, <3>3, RecomputeView
  <2> QED
    BY <2>1, <2>2, <2>3, <2>4, <2>5 DEF NodeNext, NodeRefresh, nodeVars
<1>3. NodeSpec => []AuthorityTypeOK  BY NodeRefinesAuthority, AuthorityTypeCorrect, PTL
<1> QED  BY <1>1, <1>2, <1>3, PTL DEF NodeSpec

(* A reprobe moves paths only by what it finds out, for all relays, hints, *)
(* reports to start with and any window: where the network is reachable    *)
(* the observation it appends has the best latency of those it may forget, *)
(* so no cost and no choice depends on how often the network was probed.   *)
THEOREM ReprobeMovesByFindingCorrect == NodeSpec => ReprobeMovesByFinding
<1>1. NetInv /\ [NodeNext]_nodeVars => [ReprobeMovesByFindingStep]_nodeVars
  <2> DEFINE found == [view EXCEPT !.netcheck = Assessed(@)]
             first == [view EXCEPT !.netcheck = ReprobeNetcheck(@)]
  <2> SUFFICES ASSUME NetInv, Reprobe, Reachable(view'.netcheck)
               PROVE  view'.candidates = MergedPathCandidates(found, node)
    BY DEF ReprobeMovesByFindingStep
  <2>1. view' = Recompute(first, node)  BY DEF Reprobe
  <2>2. /\ IsView(first) /\ first.netcheck = ReprobeNetcheck(view.netcheck)
        /\ first.peers = view.peers /\ first.candidates = view.candidates
        /\ found.netcheck = Assessed(view.netcheck)
        /\ found.peers = view.peers /\ found.candidates = view.candidates
    BY DEF NetInv, IsView
  <2> HIDE DEF first, found
  <2>3. view'.candidates = MergedPathCandidates(first, node) /\ view'.netcheck = first.netcheck
    BY <2>1, <2>2, RecomputeView
  <2>4. /\ first.netcheck.udp = found.netcheck.udp /\ first.netcheck.ipv6 = found.netcheck.ipv6
        /\ \A d : BestProbe(first.netcheck, d) = BestProbe(view.netcheck, d)
    <3>1. /\ first.netcheck.udp = found.netcheck.udp /\ first.netcheck.ipv6 = found.netcheck.ipv6
          /\ Reachable(found.netcheck) =>
               \A d : BestProbe(first.netcheck, d) = BestProbe(view.netcheck, d)
      BY <2>2, ReprobeKeeps DEF NetInv
    <3> QED  BY <2>3, <3>1 DEF Reachable
  <2>5. \A d : BestProbe(found.netcheck, d) = BestProbe(view.netcheck, d)
    <3>1. PassedLatencies(found.netcheck) = PassedLatencies(view.netcheck)
      BY <2>2, AssessedOnce DEF NetInv, NetOK
    <3> QED  BY <3>1 DEF BestProbe
  <2>6. /\ SynthesizedDirect(node.hints, first.netcheck)
             = SynthesizedDirect(node.hints, found.netcheck)
        /\ SynthesizedRelay(DOMAIN view.peers, node.relayMap.relays, first.netcheck)
             = SynthesizedRelay(DOMAIN view.peers, node.relayMap.relays, found.netcheck)
    <3>1. \A d : BestProbe(first.netcheck, d) = BestProbe(found.netcheck, d)  BY <2>4, <2>5
    <3> QED  BY <2>4, <3>1, CandidatesOfNet
  <2> QED  BY <2>2, <2>3, <2>6 DEF MergedPathCandidates
<1> QED  BY <1>1, NetInvCorrect, PTL DEF NodeSpec, ReprobeMovesByFinding

-----------------------------------------------------------------------------
(* What a plan needs of the derived part: the relays and the hinted peers  *)
(* are known, every peer has an address unless it is a relay without any,  *)
(* and what was observed comes from the built-in state, whose best probe   *)
(* is still the best where the network is reachable.                       *)
Known(v, facts) ==
  /\ \A p \in DOMAIN v.peers : v.peers[p] # {} \/ p \in Unaddressed
  /\ facts.relayMap.relays \subseteq DOMAIN v.peers
  /\ \A h \in facts.hints : h.peer \in DOMAIN v.peers

ObservedOK(v) ==
  /\ Observed(v.candidates) \subseteq FixtureCandidates
  /\ Observed(v.candidates) # {} =>
       /\ Worker \in DOMAIN v.peers
       /\ Reachable(Assessed(v.netcheck)) => \A d : BestProbe(v.netcheck, d) = 12

PathsInv == IsView(view) /\ Known(view, node) /\ ObservedOK(view)

\* The peers that hints name have an address.
LEMMA HintedPeers ==
  ASSUME NEW hints \in SUBSET Hints, NEW w, w = HintPeers(hints)
  PROVE  /\ \A h \in hints : h.peer \in DOMAIN w
         /\ \A p \in DOMAIN w : w[p] # {}
<1>1. DOMAIN w = {h.peer : h \in hints}  BY DEF HintPeers
<1>2. ASSUME NEW p \in DOMAIN w PROVE w[p] # {}
  <2>1. PICK h \in hints : h.peer = p  BY <1>1
  <2> DEFINE g == CHOOSE h1 \in hints : h1.peer = p
  <2>2. g \in hints  BY <2>1
  <2>3. w[p] = g.addresses  BY <1>1 DEF HintPeers
  <2> HIDE DEF g
  <2> QED  BY <2>2, <2>3, NodeAssumption
<1> QED  BY <1>1, <1>2

\* A relay is known by the addresses it announced.
LEMMA RelaysAsPeers ==
  ASSUME NEW map \in RelayMaps, NEW w, w = RelayPeers(map)
  PROVE  /\ DOMAIN w = map.relays
         /\ \A p \in DOMAIN w : w[p] # {} \/ p \in Unaddressed
BY DEF RelayPeers, RelayMaps, Unaddressed

\* An upsert forgets nobody and leaves nobody without an address.
LEMMA KnownMerged ==
  ASSUME NEW known, NEW more, NEW w, w = MergePeers(known, more),
         \A p \in DOMAIN known : known[p] # {} \/ p \in Unaddressed,
         \A p \in DOMAIN more : more[p] # {} \/ p \in Unaddressed
  PROVE  /\ \A p \in DOMAIN w : w[p] # {} \/ p \in Unaddressed
         /\ DOMAIN known \subseteq DOMAIN w /\ DOMAIN more \subseteq DOMAIN w
<1>1. /\ DOMAIN w = DOMAIN known \cup DOMAIN more
      /\ \A p \in DOMAIN w : \/ p \in DOMAIN more /\ w[p] = more[p]
                             \/ p \in DOMAIN known /\ w[p] = known[p]
  BY DEF MergePeers
<1> QED  BY <1>1

\* Merging a snapshot and applying a map leave what a plan needs.
LEMMA SyncViewKnown ==
  ASSUME NEW v, IsView(v), NEW old, Known(v, old), ObservedOK(v),
         NEW facts \in NodeStates, facts.relayMap = old.relayMap,
         NEW w, w = SyncView(v, facts)
  PROVE  Known(w, facts) /\ ObservedOK(w)
<1> DEFINE more == HintPeers(facts.hints)
<1>1. /\ w.netcheck = v.netcheck /\ Observed(w.candidates) = Observed(v.candidates)
      /\ w.peers = MergePeers(v.peers, more)
  BY SyncViewCurrent
<1>2. facts.hints \in SUBSET Hints  BY DEF NodeStates
<1>3. (\A h \in facts.hints : h.peer \in DOMAIN more) /\ \A p \in DOMAIN more : more[p] # {}
  BY <1>2, HintedPeers
<1> HIDE DEF more
<1>4. /\ \A p \in DOMAIN w.peers : w.peers[p] # {} \/ p \in Unaddressed
      /\ DOMAIN v.peers \subseteq DOMAIN w.peers /\ DOMAIN more \subseteq DOMAIN w.peers
  BY <1>1, <1>3, KnownMerged DEF Known
<1> QED  BY <1>1, <1>3, <1>4 DEF Known, ObservedOK

LEMMA MapViewKnown ==
  ASSUME NEW v, IsView(v), NEW facts \in NodeStates, NEW map \in RelayMaps,
         v.candidates = MergedPathCandidates(v, facts), Known(v, facts), ObservedOK(v),
         NEW w, w = MapView(v, facts, map)
  PROVE  Known(w, ApplyRelayMap(facts, map)) /\ ObservedOK(w)
<1> DEFINE more == RelayPeers(map)
           new == ApplyRelayMap(facts, map)
<1>1. /\ w.netcheck = v.netcheck /\ Observed(w.candidates) = Observed(v.candidates)
      /\ \/ w.peers = v.peers /\ new = facts
         \/ w.peers = MergePeers(v.peers, more) /\ new = [facts EXCEPT !.relayMap = map]
  BY MapViewCurrent
<1>2. DOMAIN more = map.relays /\ \A p \in DOMAIN more : more[p] # {} \/ p \in Unaddressed
  BY RelaysAsPeers
<1> HIDE DEF more, new
<1>3. CASE w.peers = v.peers /\ new = facts
  BY <1>1, <1>3 DEF Known, ObservedOK, new
<1>4. CASE w.peers = MergePeers(v.peers, more) /\ new = [facts EXCEPT !.relayMap = map]
  <2>1. /\ \A p \in DOMAIN w.peers : w.peers[p] # {} \/ p \in Unaddressed
        /\ DOMAIN v.peers \subseteq DOMAIN w.peers /\ DOMAIN more \subseteq DOMAIN w.peers
    BY <1>2, <1>4, KnownMerged DEF Known
  <2>2. new.relayMap = map /\ new.hints = facts.hints  BY <1>4 DEF NodeStates
  <2>3. Known(w, new)  BY <1>2, <2>1, <2>2 DEF Known
  <2> QED  BY <1>1, <2>1, <2>3 DEF ObservedOK, new
<1> QED  BY <1>1, <1>3, <1>4

LEMMA SeedViewKnown ==
  ASSUME NEW facts \in NodeStates, NEW w,
         w = MapView(SeedView(facts), facts, facts.relayMap)
  PROVE  Known(w, facts) /\ ObservedOK(w)
<1> DEFINE hinted == HintPeers(facts.hints)
           more == RelayPeers(facts.relayMap)
<1>1. Observed(w.candidates) = {} /\ w.peers = MergePeers(hinted, more)
  BY SeedViewCurrent
<1>2. facts.hints \in SUBSET Hints /\ facts.relayMap \in RelayMaps  BY DEF NodeStates
<1>3. (\A h \in facts.hints : h.peer \in DOMAIN hinted) /\ \A p \in DOMAIN hinted : hinted[p] # {}
  BY <1>2, HintedPeers
<1>4. /\ DOMAIN more = facts.relayMap.relays
      /\ \A p \in DOMAIN more : more[p] # {} \/ p \in Unaddressed
  BY <1>2, RelaysAsPeers
<1> DEFINE u == w.peers
<1>5. u = MergePeers(hinted, more)  BY <1>1
<1> HIDE DEF hinted, more, u
<1>6. \A p \in DOMAIN hinted : hinted[p] # {} \/ p \in Unaddressed  BY <1>3
<1>7. /\ \A p \in DOMAIN u : u[p] # {} \/ p \in Unaddressed
      /\ DOMAIN hinted \subseteq DOMAIN u /\ DOMAIN more \subseteq DOMAIN u
  BY <1>4, <1>5, <1>6, KnownMerged
<1> QED  BY <1>1, <1>3, <1>4, <1>7 DEF Known, ObservedOK, u

\* The best probe of the built-in state.
LEMMA FixtureProbe ==
  ASSUME NEW net, net.probes = FixtureNetcheck.probes
  PROVE  \A d : BestProbe(net, d) = 12
<1> DEFINE P == PassedLatencies(net)
<1>1. net.probes
        = << [status |-> "Passed", latency |-> 12], [status |-> "Passed", latency |-> 24] >>
  BY DEF FixtureNetcheck
<1>2. P = {12, 24}  BY <1>1 DEF PassedLatencies
<1> HIDE DEF P
<1>3. Min(P) = 12  BY <1>2, MinUnique
<1> QED  BY <1>2, <1>3 DEF BestProbe, P

LEMMA OwnViewKnown ==
  ASSUME NEW facts \in NodeStates, facts.relayMap = OwnMap, facts.hints = {},
         NEW net \in StartNetchecks, NEW w, w = Recompute(OwnView(facts, net), facts)
  PROVE  Known(w, facts) /\ ObservedOK(w)
<1> DEFINE v == OwnView(facts, net)
<1>1. /\ IsView(v) /\ v.netcheck = net /\ v.candidates = FixtureCandidates
      /\ v.peers = [p \in {Worker, Fra} |-> {[quic |-> TRUE, v6 |-> FALSE]}]
  BY DEF OwnView, IsView
<1>2. w = Recompute(v, facts)  OBVIOUS
<1> HIDE DEF v
<1>3. /\ w.peers = v.peers /\ w.netcheck = v.netcheck
      /\ Observed(w.candidates) = Observed(v.candidates)
  BY <1>1, <1>2, RecomputeView
<1>4. facts.relayMap.relays = {Fra}  BY NodeAssumption DEF FixtureMap
<1>5. Known(w, facts)  BY <1>1, <1>3, <1>4 DEF Known
<1>6. ObservedOK(w)
  <2>1. Observed(v.candidates) \subseteq FixtureCandidates  BY <1>1 DEF Observed
  <2>2. \A d : BestProbe(net, d) = 12  BY NodeAssumption, FixtureProbe
  <2> QED  BY <1>1, <1>3, <2>1, <2>2 DEF ObservedOK
<1> QED  BY <1>5, <1>6

LEMMA PathsInvCorrect == NodeSpec => []PathsInv
<1>1. NodeInit /\ AuthorityTypeOK /\ CurrentInv => PathsInv
  <2> SUFFICES ASSUME NodeInit, AuthorityTypeOK, CurrentInv PROVE PathsInv  OBVIOUS
  <2>0. node \in NodeStates /\ IsView(view)  BY DEF AuthorityTypeOK, CurrentInv
  <2>1. CASE SyncArg
    <3>1. PICK net \in StartNetchecks : view = Recompute(OwnView(node, net), node)
      BY <2>1 DEF NodeInit
    <3>2. node.relayMap = OwnMap /\ node.hints = {}
      BY <2>1 DEF NodeInit, Init, Seed, ProjectedSnapshot, InitialState
    <3> QED  BY <2>0, <3>1, <3>2, OwnViewKnown DEF PathsInv
  <2>2. CASE ~ SyncArg
    <3>1. view = MapView(SeedView(node), node, node.relayMap)  BY <2>2 DEF NodeInit
    <3> QED  BY <2>0, <3>1, SeedViewKnown DEF PathsInv
  <2> QED  BY <2>1, <2>2
<1>2. /\ AuthorityTypeOK /\ AuthorityTypeOK' /\ CurrentInv /\ CurrentInv' /\ NetInv
      /\ PathsInv /\ [NodeNext]_nodeVars
      => PathsInv'
  <2> SUFFICES ASSUME AuthorityTypeOK, AuthorityTypeOK', CurrentInv, CurrentInv', NetInv,
                      PathsInv, [NodeNext]_nodeVars
               PROVE  PathsInv'
    OBVIOUS
  <2>0. /\ node \in NodeStates /\ node' \in NodeStates /\ IsView(view) /\ IsView(view')
        /\ Known(view, node) /\ ObservedOK(view) /\ NetOK(view.netcheck)
    BY DEF AuthorityTypeOK, CurrentInv, IsView, PathsInv, NetInv
  <2>00. SUFFICES Known(view', node') /\ ObservedOK(view')
    BY <2>0 DEF PathsInv, Known, ObservedOK, IsView, Observed, BestProbe, PassedLatencies,
                Reachable, Assessed
  <2>1. CASE view' = view /\ node' = node  BY <2>0, <2>1
  <2>2. CASE NodeSyncSnapshot
    <3> DEFINE merged == MergeSnapshot(node, sync.snap)
               first == SyncView(view, merged)
    <3>1. /\ node' = ApplyRelayMap(merged, sync.map)
          /\ view' = MapView(first, merged, sync.map)
          /\ sync.snap \in Snapshots /\ sync.map \in RelayMaps
      BY <2>2 DEF NodeSyncSnapshot, SyncSnapshot, AuthorityTypeOK
    <3>2. merged \in NodeStates /\ merged.relayMap = node.relayMap
      BY <2>0, <3>1 DEF MergeSnapshot, NodeStates, Snapshots
    <3> HIDE DEF merged
    <3>3. IsView(first) /\ first.candidates = MergedPathCandidates(first, merged)
      BY <2>0, SyncViewCurrent
    <3>4. Known(first, merged) /\ ObservedOK(first)  BY <2>0, <3>2, SyncViewKnown
    <3> HIDE DEF first
    <3> QED  BY <3>1, <3>2, <3>3, <3>4, MapViewKnown
  <2>3. CASE NodeSyncRevocations
    <3> DEFINE first == Recompute(view, node)
    <3>1. /\ node' = ApplyRevocations(node, sync.revs)
          /\ view' = [first EXCEPT !.denied = DeniedPeers(node')]
      BY <2>3 DEF NodeSyncRevocations, SyncRevocations, RevocationsView
    <3>2. /\ IsView(first) /\ first.peers = view.peers /\ first.netcheck = view.netcheck
          /\ Observed(first.candidates) = Observed(view.candidates)
      BY <2>0, RecomputeView
    <3> HIDE DEF first
    <3>3. /\ view'.candidates = first.candidates /\ view'.peers = first.peers
          /\ view'.netcheck = first.netcheck
      BY <3>1, <3>2 DEF IsView
    <3>4. node'.hints = node.hints /\ node'.relayMap = node.relayMap
      BY <2>0, <3>1 DEF ApplyRevocations, NodeStates
    <3> QED  BY <2>0, <3>2, <3>3, <3>4 DEF Known, ObservedOK
  <2>4. CASE NodeRestart
    <3>1. CASE SyncArg  BY <2>0, <2>4, <3>1 DEF NodeRestart, Restart
    <3>2. CASE ~ SyncArg
      <4>1. view' = MapView(SeedView(node'), node', node'.relayMap)
        BY <2>4, <3>2 DEF NodeRestart
      <4> QED  BY <2>0, <4>1, SeedViewKnown
    <3> QED  BY <3>1, <3>2
  <2>5. CASE Reprobe
    <3> DEFINE first == [view EXCEPT !.netcheck = ReprobeNetcheck(@)]
    <3>1. view' = Recompute(first, node) /\ node' = node  BY <2>5 DEF Reprobe, vars
    <3>2. /\ IsView(first) /\ first.netcheck = ReprobeNetcheck(view.netcheck)
          /\ first.peers = view.peers /\ first.candidates = view.candidates
      BY <2>0 DEF IsView
    <3> HIDE DEF first
    <3>3. Reachable(Assessed(first.netcheck)) =>
            /\ Reachable(Assessed(view.netcheck))
            /\ \A d : BestProbe(first.netcheck, d) = BestProbe(view.netcheck, d)
      BY <2>0, <3>2, ReprobeKeeps
    <3>4. /\ view'.peers = view.peers /\ view'.netcheck = first.netcheck
          /\ Observed(view'.candidates) = Observed(view.candidates)
      BY <3>1, <3>2, RecomputeView
    <3> QED  BY <2>0, <3>1, <3>3, <3>4 DEF Known, ObservedOK
  <2> QED
    BY <2>1, <2>2, <2>3, <2>4, <2>5
       DEF NodeNext, NodeRefresh, nodeVars, vars, Tick, Sign, ReadState, WriteState,
           FetchSnapshot, FetchRelayMap, FetchRevocations, SyncRefused, SyncFails, Ends
<1>3. NodeSpec => []AuthorityTypeOK  BY NodeRefinesAuthority, AuthorityTypeCorrect, PTL
<1>4. NetInv /\ FactsCurrent => CurrentInv  BY DEF NetInv, CurrentInv
<1> QED  BY <1>1, <1>2, <1>3, <1>4, NetInvCorrect, FactsCurrentCorrect, PTL DEF NodeSpec

\* Where a candidate comes from.
LEMMA CandidateCases ==
  ASSUME FactsCurrent, PathsInv, NEW c \in view.candidates
  PROVE  \/ c.source = "Observed" /\ c \in FixtureCandidates /\ Observed(view.candidates) # {}
         \/ \E h \in node.hints : c = ToHinted(h, view.netcheck) /\ Reachable(view.netcheck)
         \/ \E r \in node.relayMap.relays : c = ToRelay(r, view.netcheck)
         \/ \E p \in DOMAIN view.peers \ node.relayMap.relays, r \in node.relayMap.relays :
              c = ThroughRelay(p, r, view.netcheck)
<1>1. CASE c \in Observed(view.candidates)
  BY <1>1 DEF PathsInv, ObservedOK, Observed
<1>2. CASE c \in SynthesizedDirect(node.hints, view.netcheck)
  BY <1>2 DEF SynthesizedDirect
<1>3. CASE c \in SynthesizedRelay(DOMAIN view.peers, node.relayMap.relays, view.netcheck)
  BY <1>3 DEF SynthesizedRelay
<1> QED  BY <1>1, <1>2, <1>3 DEF FactsCurrent, MergedPathCandidates

\* What is chosen is a candidate of the peer, at least as good as any other.
LEMMA BestIs ==
  ASSUME NEW peer, NEW class, NEW c \in Best(peer, class)
  PROVE  /\ c \in view.candidates /\ c.peer = peer /\ SupportsClass(c, class)
         /\ \A d \in view.candidates : d.peer = peer /\ SupportsClass(d, class) =>
              Score(c, class) <= Score(d, class)
BY DEF Best, BestPath, SelectBestPath

\* A peer with an address has an endpoint, whatever the kind of the path.
LEMMA EndpointsOf ==
  ASSUME NEW addresses, NEW kind
  PROVE  addresses # {} => RouteEndpoints(addresses, kind) # {}
BY DEF RouteEndpoints

(* Whatever is announced, hinted, revoked, probed or restarted, the best   *)
(* path can be planned: its peer is known and has an endpoint to try.  The *)
(* plan fails only for the relay of an observed path that the map dropped. *)
THEOREM PlansUsableCorrect == NodeSpec => []PlansUsable
<1>1. AuthorityTypeOK /\ FactsCurrent /\ PathsInv => PlansUsable
  <2> SUFFICES ASSUME AuthorityTypeOK, FactsCurrent, PathsInv,
                      NEW peer, NEW class, NEW c \in Best(peer, class)
               PROVE  /\ PeerKnown(view, c)
                      /\ RelayKnown(node, c) =>
                           /\ peer \notin Unaddressed => Plan(view, node, c).endpoints # {}
                           /\ c.kind = "Relay" /\ c.relay \notin Unaddressed =>
                                Plan(view, node, c).relayEndpoints # {}
                      /\ ~ RelayKnown(node, c) => c.source = "Observed"
    BY DEF PlansUsable
  <2>0. RelayKnown(node, c) /\ c.kind = "Relay" => c.relay \in Relays
    BY DEF RelayKnown, AuthorityTypeOK, NodeStates, RelayMaps
  <2>1. c \in view.candidates /\ c.peer = peer  BY BestIs
  <2>2. /\ \A p \in DOMAIN view.peers : view.peers[p] # {} \/ p \in Unaddressed
        /\ node.relayMap.relays \subseteq DOMAIN view.peers
        /\ \A h \in node.hints : h.peer \in DOMAIN view.peers
    BY DEF PathsInv, Known
  <2>3. /\ c.peer \in DOMAIN view.peers
        /\ c.source = "Observed" \/ RelayKnown(node, c)
    <3>1. CASE c.source = "Observed" /\ c \in FixtureCandidates /\ Observed(view.candidates) # {}
      <4>1. Worker \in DOMAIN view.peers  BY <3>1 DEF PathsInv, ObservedOK
      <4>2. c.peer = Worker  BY <3>1 DEF FixtureCandidates
      <4> QED  BY <3>1, <4>1, <4>2
    <3>2. ASSUME NEW h \in node.hints, c = ToHinted(h, view.netcheck)
          PROVE  c.peer \in DOMAIN view.peers /\ RelayKnown(node, c)
      <4>1. c.peer = h.peer /\ c.kind # "Relay"  BY <3>2 DEF ToHinted, PathKind
      <4> QED  BY <2>2, <4>1 DEF RelayKnown
    <3>3. ASSUME NEW r \in node.relayMap.relays, c = ToRelay(r, view.netcheck)
          PROVE  c.peer \in DOMAIN view.peers /\ RelayKnown(node, c)
      <4>1. c.peer = r /\ c.kind # "Relay"  BY <3>3 DEF ToRelay, PathKind
      <4> QED  BY <2>2, <4>1 DEF RelayKnown
    <3>4. ASSUME NEW p \in DOMAIN view.peers, NEW r \in node.relayMap.relays,
                 c = ThroughRelay(p, r, view.netcheck)
          PROVE  c.peer \in DOMAIN view.peers /\ RelayKnown(node, c)
      <4>1. c.peer = p /\ c.relay = r  BY <3>4 DEF ThroughRelay
      <4> QED  BY <4>1 DEF RelayKnown
    <3> QED  BY <2>1, <3>1, <3>2, <3>3, <3>4, CandidateCases
  <2>4. peer \notin Unaddressed => Plan(view, node, c).endpoints # {}
    <3>1. peer \notin Unaddressed => view.peers[c.peer] # {}  BY <2>1, <2>2, <2>3
    <3>2. Plan(view, node, c).endpoints = RouteEndpoints(view.peers[c.peer], c.kind)  BY DEF Plan
    <3> QED  BY <3>1, <3>2, EndpointsOf
  <2>5. c.kind = "Relay" /\ c.relay \in Relays /\ c.relay \notin Unaddressed =>
          Plan(view, node, c).relayEndpoints # {}
    <3> DEFINE a == RelayInfo[c.relay].addresses
    <3>1. c.kind = "Relay" => Plan(view, node, c).relayEndpoints = RouteEndpoints(a, PathKind(a))
      BY DEF Plan
    <3>2. c.relay \in Relays /\ c.relay \notin Unaddressed => a # {}  BY DEF Unaddressed
    <3> HIDE DEF a
    <3> QED  BY <3>1, <3>2, EndpointsOf
  <2> QED  BY <2>0, <2>3, <2>4, <2>5 DEF PeerKnown
<1>2. NodeSpec => []AuthorityTypeOK  BY NodeRefinesAuthority, AuthorityTypeCorrect, PTL
<1> QED  BY <1>1, <1>2, FactsCurrentCorrect, PathsInvCorrect, PTL

-----------------------------------------------------------------------------
(* What a path costs.                                                      *)

\* The two defaults for a best probe differ by at most 10.
LEMMA Probes ==
  ASSUME NEW net, NetOK(net)
  PROVE  \E a \in Nat, b \in Nat :
           /\ BestProbe(net, 40) = a
           /\ BestProbe(net, IF net.udp THEN 30 ELSE 70) = b
           /\ a <= b + 10
           /\ net.udp \in BOOLEAN /\ net.ipv6 \in BOOLEAN
<1> DEFINE P == PassedLatencies(net)
<1>1. net \in NetcheckReports /\ net.udp \in BOOLEAN /\ net.ipv6 \in BOOLEAN
  BY DEF NetOK, NetcheckReports
<1>2. P \in SUBSET Nat  BY <1>1, LatenciesNat
<1> HIDE DEF P
<1>3. CASE P = {}
  BY <1>1, <1>3 DEF BestProbe, P
<1>4. CASE P # {}
  <2>1. Min(P) \in Nat  BY <1>2, <1>4, MinLeast
  <2> QED  BY <1>1, <1>4, <2>1 DEF BestProbe, P
<1> QED  BY <1>3, <1>4

\* The costs that are made up for a hinted peer and for one behind a relay.
LEMMA HintedCosts ==
  ASSUME NEW h, NEW net, NEW c, c = ToHinted(h, net)
  PROVE  /\ c.rtt = BestProbe(net, 40) /\ c.penalty = 0
         /\ c.jitter = IF net.udp THEN 3 ELSE 12
         /\ c.loss = IF net.udp THEN 2 ELSE 15
BY DEF ToHinted

LEMMA RelayedCosts ==
  ASSUME NEW p, NEW r, NEW net, NEW c, c = ThroughRelay(p, r, net),
         NEW b \in Nat, b = BestProbe(net, IF net.udp THEN 30 ELSE 70), net.udp \in BOOLEAN
  PROVE  /\ c.rtt \in {2 * b + 30, 2 * b + 50} /\ c.penalty = 25
         /\ c.jitter = IF net.udp THEN 9 ELSE 19
         /\ c.loss = IF net.udp THEN 7 ELSE 22
<1>1. /\ c.rtt = 2 * DirectRelayRtt(r, net) + 20 /\ c.penalty = 25
      /\ c.jitter = DirectRelayJitter(net) + 5 /\ c.loss = DirectRelayLoss(net) + 4
  BY DEF ThroughRelay
<1>2. DirectRelayRtt(r, net) \in {b + 5, b + 15}  BY DEF DirectRelayRtt
<1>3. /\ DirectRelayJitter(net) = IF net.udp THEN 4 ELSE 14
      /\ DirectRelayLoss(net) = IF net.udp THEN 3 ELSE 18
  BY DEF DirectRelayJitter, DirectRelayLoss
<1> QED  BY <1>1, <1>2, <1>3

\* Classes other than Bulk: a relay is never as good as a hinted address,
LEMMA HintedBeatsRelay ==
  ASSUME NEW net, NetOK(net), NEW h, NEW p, NEW r, NEW class \in TrafficClasses \ {"Bulk"},
         NEW d, d = ToHinted(h, net), NEW c, c = ThroughRelay(p, r, net)
  PROVE  ~ (Score(c, class) <= Score(d, class))
<1>1. PICK a \in Nat, b \in Nat :
           /\ BestProbe(net, 40) = a
           /\ BestProbe(net, IF net.udp THEN 30 ELSE 70) = b
           /\ a <= b + 10
           /\ net.udp \in BOOLEAN /\ net.ipv6 \in BOOLEAN
  BY Probes
<1>2. /\ d.rtt = a /\ d.penalty = 0
      /\ d.jitter = (IF net.udp THEN 3 ELSE 12) /\ d.loss = (IF net.udp THEN 2 ELSE 15)
  BY <1>1, HintedCosts
<1>3. /\ c.rtt \in {2 * b + 30, 2 * b + 50} /\ c.penalty = 25
      /\ c.jitter = (IF net.udp THEN 9 ELSE 19) /\ c.loss = (IF net.udp THEN 7 ELSE 22)
  BY <1>1, RelayedCosts
<1>4. CASE class \in {"Control", "Interactive"}
  <2>1. Score(c, class) = c.rtt + 2 * c.jitter + c.penalty + c.loss  BY <1>4 DEF Score
  <2>2. Score(d, class) = d.rtt + 2 * d.jitter + d.penalty + d.loss  BY <1>4 DEF Score
  <2>3. Score(d, class) \in Nat /\ Score(d, class) <= a + 39  BY <1>1, <1>2, <2>2
  <2>4. Score(c, class) \in Nat /\ Score(c, class) >= 2 * b + 80  BY <1>1, <1>3, <2>1
  <2> QED  BY <1>1, <2>3, <2>4
<1>5. CASE class = "Background"
  <2>1. Score(c, class) = c.penalty + (c.rtt \div 2) + ((8 * c.loss) \div 10)  BY <1>5 DEF Score
  <2>2. Score(d, class) = d.penalty + (d.rtt \div 2) + ((8 * d.loss) \div 10)  BY <1>5 DEF Score
  <2>3. Score(d, class) \in Nat /\ Score(d, class) <= (a \div 2) + 12  BY <1>1, <1>2, <2>2
  <2>4. Score(c, class) \in Nat /\ Score(c, class) >= b + 40  BY <1>1, <1>3, <2>1
  <2>5. a \div 2 \in Nat /\ a \div 2 <= a  BY <1>1
  <2> QED  BY <1>1, <2>3, <2>4, <2>5
<1> QED  BY <1>4, <1>5 DEF TrafficClasses

\* nor as good as the observed direct path.
LEMMA ObservedBeatsRelay ==
  ASSUME NEW net, NetOK(net), NEW p, NEW r, NEW class \in {"Control", "Interactive"},
         NEW d \in FixtureCandidates, d.kind # "Relay", NEW c, c = ThroughRelay(p, r, net)
  PROVE  ~ (Score(c, class) <= Score(d, class))
<1>1. PICK a \in Nat, b \in Nat :
           /\ BestProbe(net, IF net.udp THEN 30 ELSE 70) = b
           /\ net.udp \in BOOLEAN
  BY Probes
<1>2. d.rtt = 13 /\ d.jitter = 1 /\ d.loss = 1 /\ d.penalty = 0  BY DEF FixtureCandidates
<1>3. /\ c.rtt \in {2 * b + 30, 2 * b + 50} /\ c.penalty = 25
      /\ c.jitter = (IF net.udp THEN 9 ELSE 19) /\ c.loss = (IF net.udp THEN 7 ELSE 22)
  BY <1>1, RelayedCosts
<1>4. Score(c, class) = c.rtt + 2 * c.jitter + c.penalty + c.loss  BY DEF Score
<1>5. Score(d, class) = d.rtt + 2 * d.jitter + d.penalty + d.loss  BY DEF Score
<1>6. Score(d, class) = 16  BY <1>2, <1>5
<1>7. Score(c, class) \in Nat /\ Score(c, class) >= 80  BY <1>1, <1>3, <1>4
<1> QED  BY <1>6, <1>7

\* The observed path through a relay is not as good as the observed direct
\* one, nor as one to a hinted address with the probes of the built-in state,
\* even if it has ipv6 only (51 to 60).
LEMMA DirectBeatsObserved ==
  ASSUME NEW c \in FixtureCandidates, c.kind = "Relay", NEW class \in TrafficClasses \ {"Bulk"},
         SupportsClass(c, class), NEW d,
         \/ d \in FixtureCandidates /\ d.kind # "Relay"
         \/ \E h, net : d = ToHinted(h, net) /\ BestProbe(net, 40) = 12
  PROVE  ~ (Score(c, class) <= Score(d, class))
<1>1. c.rtt = 24 /\ c.jitter = 4 /\ c.loss = 3 /\ c.penalty = 25 /\ class = "Interactive"
  BY DEF FixtureCandidates, SupportsClass, TrafficClasses
<1>2. Score(c, class) = c.rtt + 2 * c.jitter + c.penalty + c.loss  BY <1>1 DEF Score
<1>3. Score(d, class) = d.rtt + 2 * d.jitter + d.penalty + d.loss  BY <1>1 DEF Score
<1>4. CASE d \in FixtureCandidates /\ d.kind # "Relay"
  <2>1. d.rtt = 13 /\ d.jitter = 1 /\ d.loss = 1 /\ d.penalty = 0
    BY <1>4 DEF FixtureCandidates
  <2> QED  BY <1>1, <1>2, <1>3, <2>1
<1>5. ASSUME NEW h, NEW net, d = ToHinted(h, net), BestProbe(net, 40) = 12
      PROVE  ~ (Score(c, class) <= Score(d, class))
  <2>1. d.rtt = 12 /\ d.jitter \in {3, 12} /\ d.loss \in {2, 15} /\ d.penalty = 0
    BY <1>5, HintedCosts
  <2> QED  BY <1>1, <1>2, <1>3, <2>1
<1> QED  BY <1>4, <1>5

(* Except for bulk traffic no relay is preferred to a direct path, for all *)
(* announcements and any probes: the invariant says which costs can meet,  *)
(* and for each such pair the relay's score is the larger one.             *)
THEOREM DirectPreferredCorrect == NodeSpec => []DirectPreferred
<1>1. AuthorityTypeOK /\ FactsCurrent /\ PathsInv /\ NetInv => DirectPreferred
  <2> SUFFICES ASSUME AuthorityTypeOK, FactsCurrent, PathsInv, NetInv,
                      NEW peer, NEW class \in TrafficClasses \ {"Bulk"},
                      NEW c \in Best(peer, class), NEW d \in view.candidates,
                      d.peer = peer, SupportsClass(d, class), d.kind # "Relay", c.kind = "Relay"
               PROVE  FALSE
    BY DEF DirectPreferred
  <2> DEFINE net == view.netcheck
             relays == node.relayMap.relays
  <2>0. NetOK(net) /\ relays \subseteq Relays
    BY DEF NetInv, AuthorityTypeOK, NodeStates, RelayMaps
  <2>1. /\ c \in view.candidates /\ c.peer = peer /\ SupportsClass(c, class)
        /\ Score(c, class) <= Score(d, class)
    BY BestIs
  <2>2. \/ c \in FixtureCandidates /\ Observed(view.candidates) # {}
        \/ \E p \in DOMAIN view.peers \ relays, r \in relays : c = ThroughRelay(p, r, net)
    <3>1. \A h : ToHinted(h, net).kind # "Relay"  BY DEF ToHinted, PathKind
    <3>2. \A r : ToRelay(r, net).kind # "Relay"  BY DEF ToRelay, PathKind
    <3> QED  BY <2>1, <3>1, <3>2, CandidateCases
  <2>3. \/ d \in FixtureCandidates
        \/ \E h \in node.hints : d = ToHinted(h, net) /\ Reachable(net)
        \/ \E r \in relays : d = ToRelay(r, net)
    <3>1. \A p, r : ThroughRelay(p, r, net).kind = "Relay"  BY DEF ThroughRelay
    <3> QED  BY <3>1, CandidateCases
  <2>4. ASSUME NEW r \in relays, d = ToRelay(r, net) PROVE FALSE
    <3>1. peer = r  BY <2>4 DEF ToRelay
    <3>2. CASE c \in FixtureCandidates
      <4>1. c.peer = Worker  BY <3>2 DEF FixtureCandidates
      <4> QED  BY <2>0, <2>1, <3>1, <4>1, PathsAssumption, NodeAssumption
    <3>3. ASSUME NEW p \in DOMAIN view.peers \ relays, NEW q \in relays,
                 c = ThroughRelay(p, q, net)
          PROVE  FALSE
      <4>1. c.peer = p  BY <3>3 DEF ThroughRelay
      <4> QED  BY <2>1, <3>1, <4>1
    <3> QED  BY <2>2, <3>2, <3>3
  <2>5. CASE c \in FixtureCandidates /\ Observed(view.candidates) # {}
    <3>1. Reachable(net) => BestProbe(net, 40) = 12
      <4>1. Reachable(net) => Reachable(Assessed(net))  BY <2>0, AssessedOnce DEF NetOK
      <4> QED  BY <2>5, <4>1 DEF PathsInv, ObservedOK
    <3> HIDE DEF net
    <3> QED  BY <2>1, <2>3, <2>4, <2>5, <3>1, DirectBeatsObserved
  <2>6. ASSUME NEW p, NEW r, c = ThroughRelay(p, r, net) PROVE FALSE
    <3>1. CASE d \in FixtureCandidates
      <4>1. class \in {"Control", "Interactive"}
        BY <3>1 DEF FixtureCandidates, SupportsClass, TrafficClasses
      <4> HIDE DEF net
      <4> QED  BY <2>0, <2>1, <2>6, <3>1, <4>1, ObservedBeatsRelay
    <3>2. ASSUME NEW h, d = ToHinted(h, net) PROVE FALSE
      <4> HIDE DEF net
      <4> QED  BY <2>0, <2>1, <2>6, <3>2, HintedBeatsRelay
    <3> QED  BY <2>3, <2>4, <3>1, <3>2
  <2> QED  BY <2>2, <2>5, <2>6
<1>2. NodeSpec => []AuthorityTypeOK  BY NodeRefinesAuthority, AuthorityTypeCorrect, PTL
<1> QED  BY <1>1, <1>2, FactsCurrentCorrect, PathsInvCorrect, NetInvCorrect, PTL

=============================================================================
