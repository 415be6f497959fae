-------------------------------- MODULE Node --------------------------------
(***************************************************************************)
(* A daemon that synchronises with the authority (module Authority) and    *)
(* what it derives from the facts it has (module Paths): the peers it      *)
(* knows, the peers it is denied, the paths to choose from.  These are     *)
(* kept in state.json beside the facts, and each operation that changes a  *)
(* fact brings them up to date, or does not need to.                       *)
(***************************************************************************)
EXTENDS Authority, Paths

CONSTANTS
  Local,          \* the daemon's peer
  Permitting,     \* the capabilities that allow the protocol
  StartNetchecks  \* the reports a state.json may hold when the daemon starts

NodePeers == {Local, Worker} \cup Relays \cup {h.peer : h \in Hints}

RevocationTargets ==
  [kind : {"peer"}, peer : NodePeers]
  \cup [kind : {"membership"}, issued : Times]
  \cup [kind : {"grant"}, seq : Sequence]

\* The relay map of fixture_daemon_state.
FixtureMap == [version |-> 1, relays |-> {Fra}]

ASSUME NodeAssumption ==
  /\ DOMAIN RelayInfo = Relays
  /\ OwnMap = FixtureMap
  /\ \A h \in Hints : h.addresses # {} /\ h.addresses \subseteq Addresses
  /\ Targets \subseteq RevocationTargets
  /\ Permitting \subseteq Bodies
  /\ Local \notin Relays
  /\ \A net \in StartNetchecks :
       net \in NetcheckReports /\ net.probes = FixtureNetcheck.probes

VARIABLE view  \* what DaemonState derives from the facts

nodeVars == <<vars, view>>

-----------------------------------------------------------------------------
(* PeerStore: the addresses of the known peers.  An upsert replaces.       *)

\* A mutant: the peers known before are not taken over.
MergePeersForgets(known, incoming) == incoming

\* merge_bootstrap_peers, merge_relay_peers
MergePeers(known, incoming) ==
  [p \in DOMAIN known \cup DOMAIN incoming |->
     IF p \in DOMAIN incoming THEN incoming[p] ELSE known[p]]

\* bootstrap_peers
HintPeers(hints) ==
  [p \in {h.peer : h \in hints} |-> (CHOOSE h \in hints : h.peer = p).addresses]

\* relay_peers
RelayPeers(map) == [r \in map.relays |-> RelayInfo[r].addresses]

\* denied_peers
DeniedPeers(facts) ==
  {r.target.peer : r \in {s \in facts.revs : s.target.kind = "peer"}}
  \cup (IF \E r \in facts.revs :
             r.target.kind = "membership" /\ r.target.issued = facts.membership.issued
        THEN {Local} ELSE {})

\* merged_path_candidates
MergedPathCandidates(v, facts) ==
  Observed(v.candidates)
  \cup SynthesizedDirect(facts.hints, v.netcheck)
  \cup SynthesizedRelay(DOMAIN v.peers, facts.relayMap.relays, v.netcheck)

Recompute(v, facts) == [v EXCEPT !.candidates = MergedPathCandidates(v, facts)]

-----------------------------------------------------------------------------
(* The second half of the operations that change facts.                    *)

\* from_authority_snapshot, without the relay map.
SeedView(facts) ==
  [peers |-> HintPeers(facts.hints), netcheck |-> PendingNetcheck,
   denied |-> DeniedPeers(facts), candidates |-> {}]

\* The state a daemon begins with when it runs without an authority, after
\* its first synchronisation: the built-in one, but for what the file says of
\* the network.
OwnView(facts, net) ==
  [peers |-> [p \in {Worker, Fra} |-> {[quic |-> TRUE, v6 |-> FALSE]}],
   netcheck |-> net, denied |-> DeniedPeers(facts),
   candidates |-> FixtureCandidates]

\* sync_authority_snapshot; `facts' are the merged ones.
SyncView(v, facts) ==
  Recompute([v EXCEPT !.peers = MergePeers(@, HintPeers(facts.hints)),
                      !.denied = DeniedPeers(facts)],
            facts)

\* A mutant: the candidates are left as they are.
MapViewOnly(v, facts, map) ==
  IF facts.relayMap.version > map.version
  THEN v
  ELSE [v EXCEPT !.peers = MergePeers(@, RelayPeers(map))]

\* apply_relay_map; an older map is ignored.
MapView(v, facts, map) ==
  IF facts.relayMap.version > map.version
  THEN v
  ELSE Recompute([v EXCEPT !.peers = MergePeers(@, RelayPeers(map))],
                 [facts EXCEPT !.relayMap = map])

\* A mutant: the denied peers are left as they are.
RevocationsViewOnly(v, facts) == v

\* apply_revocations; `facts' has the revocations.
RevocationsView(v, facts) == [v EXCEPT !.denied = DeniedPeers(facts)]

-----------------------------------------------------------------------------
NodeInit ==
  /\ Init
  /\ \/ SyncArg /\ \E net \in StartNetchecks : view = Recompute(OwnView(node, net), node)
     \/ ~ SyncArg /\ view = MapView(SeedView(node), node, node.relayMap)

NodeSyncSnapshot ==
  LET merged == MergeSnapshot(node, sync.snap)
  IN  /\ SyncSnapshot
      /\ view' = MapView(SyncView(view, merged), merged, sync.map)

\* ensure_state recomputes the candidates before the revocations are applied.
NodeSyncRevocations ==
  /\ SyncRevocations
  /\ view' = RevocationsView(Recompute(view, node), node')

NodeRestart ==
  /\ Restart
  /\ view' = IF SyncArg THEN view ELSE MapView(SeedView(node'), node', node'.relayMap)

\* The network trigger: reprobe_network_change.
Reprobe ==
  /\ up
  /\ sync.pc = "wait"
  /\ view' = Recompute([view EXCEPT !.netcheck = ReprobeNetcheck(@)], node)
  /\ UNCHANGED vars

NodeRefresh ==
  \/ (FetchSnapshot \/ FetchRelayMap \/ SyncRefused \/ FetchRevocations) /\ UNCHANGED view
  \/ NodeSyncSnapshot \/ NodeSyncRevocations

NodeNext ==
  \/ (Tick \/ \E i \in Issuers : Sign(i) \/ ReadState(i) \/ WriteState(i)) /\ UNCHANGED view
  \/ NodeRefresh
  \/ SyncFails /\ UNCHANGED view
  \/ NodeRestart
  \/ Reprobe

(* Fairness is that of module Authority: the interval elapses again and    *)
(* again.                                                                  *)
NodeSpec == NodeInit /\ [][NodeNext]_nodeVars /\ WF_vars(Refresh)

-----------------------------------------------------------------------------
(* crates/policy as explain_policy uses it.                                *)

\* grants_for_peer, is_capability_revoked
ActiveGrants(facts) ==
  {g \in facts.grants :
     ~ \E r \in facts.revs : r.target.kind = "grant" /\ r.target.seq = g.seq}

\* explain_local_protocol_policy: the one rule asks for a capability.
LocalProtocolAllowed(facts) == \E g \in ActiveGrants(facts) : g.body \in Permitting

\* explain_policy
Allowed(v, facts, peer) == peer \notin v.denied /\ LocalProtocolAllowed(facts)

(* route_plan for the candidate that was selected.                         *)

\* endpoint_matches_path_kind
MatchesPathKind(address, kind) ==
  CASE kind = "DirectIpv6" -> address.quic /\ address.v6
    [] kind = "DirectUdp" -> address.quic /\ ~ address.v6
    [] kind = "Relay" -> address.quic

RouteEndpoints(addresses, kind) ==
  LET matching == {a \in addresses : MatchesPathKind(a, kind)}
  IN  IF matching = {} THEN addresses ELSE matching

\* The relay of the plan is looked up in the map.
RelayKnown(facts, c) == c.kind = "Relay" => c.relay \in facts.relayMap.relays

\* PeerNotFound is not returned.
PeerKnown(v, c) == c.peer \in DOMAIN v.peers

Plan(v, facts, c) ==
  [peer |-> c.peer, kind |-> c.kind, source |-> c.source,
   endpoints |-> RouteEndpoints(v.peers[c.peer], c.kind),
   relayEndpoints |->
     IF c.kind = "Relay"
     THEN RouteEndpoints(RelayInfo[c.relay].addresses, PathKind(RelayInfo[c.relay].addresses))
     ELSE {}]

Best(peer, class) == BestPath(view.candidates, peer, class)

-----------------------------------------------------------------------------
(* The derived part of state.json is what the facts yield, in whatever     *)
(* order snapshots, relay maps, revocations and probes arrive, although    *)
(* each operation updates only what it thinks it has changed: the paths    *)
(* are those of the current relay map, hints, peers and probes, and the    *)
(* denied peers those of the current membership and revocations.           *)
FactsCurrent ==
  /\ view.denied = DeniedPeers(node)
  /\ view.candidates = MergedPathCandidates(view, node)

\* The relays announced without an address: add-relay does not ask for one.
Unaddressed == {r \in Relays : RelayInfo[r].addresses = {}}

(* Whatever path is best, route_plan finds the peer and gives the          *)
(* transport an endpoint to try, unless a relay was announced without any; *)
(* it fails for one reason only: the best path was observed through a      *)
(* relay that a newer map no longer names.                                 *)
PlansUsable ==
  \A peer \in NodePeers, class \in TrafficClasses : \A c \in Best(peer, class) :
    /\ PeerKnown(view, c)
    /\ RelayKnown(node, c) =>
         /\ peer \notin Unaddressed => Plan(view, node, c).endpoints # {}
         /\ c.kind = "Relay" /\ c.relay \notin Unaddressed =>
              Plan(view, node, c).relayEndpoints # {}
    /\ ~ RelayKnown(node, c) => c.source = "Observed"

(* Except for bulk traffic, a peer that can be reached directly is not     *)
(* reached through a relay: whatever was probed or announced, the costs    *)
(* made up for a relay stay above those of a direct path.                  *)
DirectPreferred ==
  \A peer \in NodePeers, class \in TrafficClasses \ {"Bulk"} :
    \A c \in Best(peer, class), d \in view.candidates :
      d.peer = peer /\ SupportsClass(d, class) /\ d.kind # "Relay" => c.kind # "Relay"

(* A reprobe moves paths only by what it newly finds out about the network *)
(* (a public address or a mapped port makes udp reachable): the paths are  *)
(* those this finding alone yields.  That it also appends an observation   *)
(* and forgets the oldest one moves none, for what the oldest was worth is *)
(* carried on by the new one.  (Where nothing is reachable the observation *)
(* is a failure, and the costs of relays rise when the last success is     *)
(* forgotten.)                                                             *)
ReprobeMovesByFindingStep ==
  Reprobe /\ Reachable(view'.netcheck) =>
    view'.candidates = MergedPathCandidates([view EXCEPT !.netcheck = Assessed(@)], node)
ReprobeMovesByFinding == [][ReprobeMovesByFindingStep]_nodeVars

(* Nothing the target of the revocation stands for is allowed.             *)
Enforced(target) ==
  CASE target.kind = "peer" -> ~ Allowed(view, node, target.peer)
    [] target.kind = "membership" ->
         node.membership.issued = target.issued => ~ Allowed(view, node, Local)
    [] target.kind = "grant" -> \A g \in ActiveGrants(node) : g.seq # target.seq

(* A revocation whose command has ended is enforced by the daemon's        *)
(* policy from some time on: it reaches the facts and what is derived from *)
(* them, and neither a later snapshot nor a restart undoes it.  (Unless    *)
(* commands overlapped, see RevocationsArriveInTurn, or errors end the     *)
(* daemon again and again.)                                                *)
RevocationsEnforced ==
  \A r \in RevocationsIssued :
    <>Published(r) => \/ <>[](overlapped \/ Enforced(r.target))
                      \/ []<>(~ up)

=============================================================================
