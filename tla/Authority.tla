----------------------------- MODULE Authority ------------------------------
(***************************************************************************)
(* The authority (cmd/authority) and a daemon that synchronises with it    *)
(* over HTTP (crates/control, LocalControlPlane of crates/fabric).         *)
(*                                                                         *)
(* The authority's state is one JSON file.  Every command of the CLI is a  *)
(* process of its own: it signs an artifact (reading the clock and, for a  *)
(* grant or a revocation, the next sequence number from the file), reads   *)
(* the file again, adds the artifact and writes the file back.  Nothing    *)
(* keeps two commands apart.  The server reads the file for each request.  *)
(*                                                                         *)
(* One subject is modelled, the daemon's own identity.  The content of an  *)
(* artifact is a model value.  Enrollment tokens, which the daemon does    *)
(* not use, are left out, and so are signatures.  The daemon's own load    *)
(* and save of its state file is one step here; module Daemon takes it     *)
(* apart.  What the daemon derives from these facts is in module Node.     *)
(***************************************************************************)
EXTENDS Naturals, FiniteSets

CONSTANTS
  Issuers,        \* CLI processes that may run at the same time
  Bodies,         \* roles of a membership, capabilities of a grant
  Targets,        \* what a revocation is about
  Relays,         \* relay announcements
  Hints,          \* bootstrap hints, each about a peer
  OwnMap,         \* the relay map of a daemon that ran without an authority
  MaxTime,        \* bound: the clock
  MaxCommands,    \* bound: how many commands are run
  Arguments,      \* what the daemon may be started with
  NoArtifact

Times == 0 .. MaxTime
Sequence == Nat \ {0}

Memberships == [issued : Times, body : Bodies]
Grants == [seq : Sequence, body : Bodies]
Revocations == [seq : Sequence, target : Targets]

Artifacts ==
  [kind : {"membership"}, value : Memberships]
  \cup [kind : {"capability"}, value : Grants]
  \cup [kind : {"revocation"}, value : Revocations]
  \cup [kind : {"relay"}, value : Relays]
  \cup [kind : {"hint"}, value : Hints]

ASSUME AuthorityAssumption ==
  /\ Bodies # {}
  /\ MaxTime \in Nat /\ MaxCommands \in Nat \ {0}
  /\ Arguments \subseteq [sync : BOOLEAN, revocationSync : BOOLEAN]
  /\ NoArtifact \notin Artifacts

(* AuthorityState, and the facts a daemon keeps of it in state.json.       *)
RelayMaps == [version : Nat, relays : SUBSET Relays]

ASSUME OwnMapAssumption == OwnMap \in RelayMaps

AuthorityStates ==
  [membership : Memberships,
   grants     : SUBSET Grants,
   revs       : SUBSET Revocations,
   nextGrant  : Sequence,
   nextRev    : Sequence,
   relayMap   : RelayMaps,
   hints      : SUBSET Hints]

NodeStates ==
  [membership : Memberships,
   grants     : SUBSET Grants,
   revs       : SUBSET Revocations,
   relayMap   : RelayMaps,
   hints      : SUBSET Hints]

(* What projected_snapshot makes of it for the subject.                    *)
Snapshots ==
  [membership : Memberships,
   grants     : SUBSET Grants,
   revs       : SUBSET Revocations,
   hints      : SUBSET Hints]

VARIABLES
  now,       \* the clock, in seconds
  auth,      \* the authority's state file
  cli,       \* what each CLI process is executing
  commands,  \* how many commands were run
  issued,    \* history: the artifacts whose command has ended
  node,      \* the daemon's state file
  sync,      \* what the daemon's refresh is executing, and has fetched
  up,        \* the daemon runs
  args,      \* the daemon's arguments
  overlapped \* history: a command began while another was under way

vars == <<now, auth, cli, commands, issued, node, sync, up, args, overlapped>>

SyncArg == args.sync                  \* --sync
RevocationSync == args.revocationSync \* --revocation-sync

-----------------------------------------------------------------------------
(* The state file of the authority.                                        *)

\* initial_state, with the daemon's subject added and nothing granted yet.
\* The bootstrap addresses given to it name no peer.
InitialState(body) ==
  [membership |-> [issued |-> 0, body |-> body],
   grants |-> {}, revs |-> {}, nextGrant |-> 1, nextRev |-> 1,
   relayMap |-> [version |-> 0, relays |-> {}], hints |-> {}]

Later(m, n) == IF m > n THEN m ELSE n

\* persist_issued_artifact, add_member, add_relay and add_bootstrap.
AddMember(s, m) == [s EXCEPT !.membership = m]

AddGrant(s, g) ==
  [s EXCEPT !.grants = {h \in @ : h.seq # g.seq} \cup {g},
            !.nextGrant = Later(@, g.seq + 1)]

\* A mutant: the sequence number is not counted on.
AddRevocationOnly(s, r) == [s EXCEPT !.revs = @ \cup {r}]

AddRevocation(s, r) ==
  [s EXCEPT !.revs = @ \cup {r},
            !.nextRev = Later(@, r.seq + 1)]

AddRelay(s, relay) ==
  [s EXCEPT !.relayMap = [version |-> @.version + 1, relays |-> @.relays \cup {relay}]]

\* upsert_bootstrap_hint
AddHint(s, hint) == [s EXCEPT !.hints = {h \in @ : h.peer # hint.peer} \cup {hint}]

PersistArtifact(s, a) ==
  CASE a.kind = "membership" -> AddMember(s, a.value)
    [] a.kind = "capability" -> AddGrant(s, a.value)
    [] a.kind = "revocation" -> AddRevocation(s, a.value)
    [] a.kind = "relay" -> AddRelay(s, a.value)
    [] a.kind = "hint" -> AddHint(s, a.value)

\* projected_snapshot for the subject.
ProjectedSnapshot(s) ==
  [membership |-> s.membership, grants |-> s.grants, revs |-> s.revs, hints |-> s.hints]

\* A mutant: one past the cursor.
FilteredRevocationsSkips(s, after) == {r \in s.revs : r.seq > after + 1}

\* filtered_revocations; without a cursor, `after' is 0.
FilteredRevocations(s, after) == {r \in s.revs : r.seq > after}

-----------------------------------------------------------------------------
(* The facts of the daemon.                                                *)

\* max_revocation_sequence
MaxRevocationSequence(revs) ==
  IF revs = {} THEN 0 ELSE (CHOOSE r \in revs : \A s \in revs : s.seq <= r.seq).seq

\* merge_membership refuses an older certificate, and another one that was
\* issued in the same second.
MembershipMerges(current, incoming) ==
  \/ incoming.issued > current.issued
  \/ incoming = current

\* merge_snapshot refuses a grant that differs from the known one of its
\* sequence number.
GrantsMerge(current, incoming) ==
  \A g \in incoming, h \in current : g.seq = h.seq => g = h

\* A mutant: the snapshot is taken over whatever the daemon knows.
MergesAlways(facts, snap) == TRUE

Merges(facts, snap) ==
  /\ MembershipMerges(facts.membership, snap.membership)
  /\ GrantsMerge(facts.grants, snap.grants)

\* merge_snapshot and sync_authority_snapshot.
MergeSnapshot(facts, snap) ==
  [facts EXCEPT !.membership = snap.membership,
                !.grants = snap.grants,
                !.revs = @ \cup snap.revs,
                !.hints = snap.hints]

\* apply_relay_map
ApplyRelayMap(facts, map) ==
  IF facts.relayMap.version > map.version THEN facts ELSE [facts EXCEPT !.relayMap = map]

\* apply_revocations
ApplyRevocations(facts, revs) == [facts EXCEPT !.revs = @ \cup revs]

\* from_authority_snapshot
Seed(snap, map) ==
  [membership |-> snap.membership, grants |-> snap.grants, revs |-> snap.revs,
   relayMap |-> map, hints |-> snap.hints]

-----------------------------------------------------------------------------
Resting == [pc |-> "wait", snap |-> NoArtifact, map |-> NoArtifact, revs |-> {}]
NoCommand == [pc |-> "done", art |-> NoArtifact, copy |-> NoArtifact]

Commands ==
  [pc   : {"done", "read", "write"},
   art  : Artifacts \cup {NoArtifact},
   copy : AuthorityStates \cup {NoArtifact}]

Syncs ==
  [pc   : {"wait", "relays", "merge", "cursor", "apply"},
   snap : Snapshots \cup {NoArtifact},
   map  : RelayMaps \cup {NoArtifact},
   revs : SUBSET Revocations]

\* The next sequence numbers are above the ones in use.
NextAbove(s) ==
  /\ \A g \in s.grants : g.seq < s.nextGrant
  /\ \A r \in s.revs : r.seq < s.nextRev

(* The types, and: whatever commands overwrite each other, the file never  *)
(* hands out a sequence number that it holds.                              *)
AuthorityTypeOK ==
  /\ now \in Times
  /\ auth \in AuthorityStates /\ NextAbove(auth)
  /\ cli \in [Issuers -> Commands]
  /\ \A i \in Issuers :
       /\ cli[i].pc # "done" => cli[i].art \in Artifacts
       /\ cli[i].pc = "write" => cli[i].copy \in AuthorityStates /\ NextAbove(cli[i].copy)
  /\ commands \in 0 .. MaxCommands
  /\ issued \subseteq Artifacts
  /\ node \in NodeStates
  /\ sync \in Syncs
  /\ sync.pc \in {"relays", "merge"} => sync.snap \in Snapshots
  /\ sync.pc = "merge" => sync.map \in RelayMaps
  /\ up \in BOOLEAN
  /\ args \in Arguments
  /\ overlapped \in BOOLEAN

(* The daemon has been seeded or, with --sync, has synchronised for the    *)
(* first time since it ran without an authority: its relay map is newer.   *)
Init ==
  /\ now = 0
  /\ args \in Arguments
  /\ \E body \in Bodies :
       /\ auth = InitialState(body)
       /\ node = Seed(ProjectedSnapshot(auth), IF SyncArg THEN OwnMap ELSE auth.relayMap)
  /\ cli = [i \in Issuers |-> NoCommand]
  /\ commands = 0
  /\ issued = {}
  /\ sync = Resting
  /\ up = TRUE
  /\ overlapped = FALSE

Tick ==
  /\ now < MaxTime
  /\ now' = now + 1
  /\ UNCHANGED <<auth, cli, commands, issued, node, sync, up, args, overlapped>>

-----------------------------------------------------------------------------
(* The CLI.                                                                *)

Signed ==
  [kind : {"membership"}, value : [issued : {now}, body : Bodies]]
  \cup [kind : {"capability"}, value : [seq : {auth.nextGrant}, body : Bodies]]
  \cup [kind : {"revocation"}, value : [seq : {auth.nextRev}, target : Targets]]
  \cup [kind : {"relay"}, value : Relays]
  \cup [kind : {"hint"}, value : Hints]

\* issue, add-member, add-relay, add-bootstrap: the artifact is made.
Sign(i) ==
  /\ cli[i].pc = "done"
  /\ commands < MaxCommands
  /\ commands' = commands + 1
  /\ \E a \in Signed : cli' = [cli EXCEPT ![i] = [NoCommand EXCEPT !.pc = "read", !.art = a]]
  /\ overlapped' = (overlapped \/ \E j \in Issuers : cli[j].pc # "done")
  /\ UNCHANGED <<now, auth, issued, node, sync, up, args>>

ReadState(i) ==
  /\ cli[i].pc = "read"
  /\ cli' = [cli EXCEPT ![i].pc = "write", ![i].copy = auth]
  /\ UNCHANGED <<now, auth, commands, issued, node, sync, up, args, overlapped>>

\* save_state, and the artifact is printed.
WriteState(i) ==
  /\ cli[i].pc = "write"
  /\ auth' = PersistArtifact(cli[i].copy, cli[i].art)
  /\ issued' = issued \cup {cli[i].art}
  /\ cli' = [cli EXCEPT ![i] = NoCommand]
  /\ UNCHANGED <<now, commands, node, sync, up, args, overlapped>>

-----------------------------------------------------------------------------
(* refresh_state of the daemon: sync_authority_origin with --sync, then    *)
(* sync_authority_revocations_origin with --revocation-sync.  An error     *)
(* ends the process.                                                       *)

FetchSnapshot ==
  /\ up /\ SyncArg
  /\ sync.pc = "wait"
  /\ sync' = [Resting EXCEPT !.pc = "relays", !.snap = ProjectedSnapshot(auth)]
  /\ UNCHANGED <<now, auth, cli, commands, issued, node, up, args, overlapped>>

FetchRelayMap ==
  /\ up
  /\ sync.pc = "relays"
  /\ sync' = [sync EXCEPT !.pc = "merge", !.map = auth.relayMap]
  /\ UNCHANGED <<now, auth, cli, commands, issued, node, up, args, overlapped>>

SyncSnapshot ==
  /\ up
  /\ sync.pc = "merge"
  /\ Merges(node, sync.snap)
  /\ node' = ApplyRelayMap(MergeSnapshot(node, sync.snap), sync.map)
  /\ sync' = [Resting EXCEPT !.pc = IF RevocationSync THEN "cursor" ELSE "wait"]
  /\ UNCHANGED <<now, auth, cli, commands, issued, up, args, overlapped>>

\* The request carries the highest sequence number the daemon knows.
FetchRevocations ==
  /\ up /\ RevocationSync
  /\ sync.pc = (IF SyncArg THEN "cursor" ELSE "wait")
  /\ sync' = [Resting EXCEPT !.pc = "apply",
                !.revs = FilteredRevocations(auth, MaxRevocationSequence(node.revs))]
  /\ UNCHANGED <<now, auth, cli, commands, issued, node, up, args, overlapped>>

SyncRevocations ==
  /\ up
  /\ sync.pc = "apply"
  /\ node' = ApplyRevocations(node, sync.revs)
  /\ sync' = Resting
  /\ UNCHANGED <<now, auth, cli, commands, issued, up, args, overlapped>>

Ends ==
  /\ up' = FALSE
  /\ sync' = Resting
  /\ UNCHANGED <<now, auth, cli, commands, issued, node, args, overlapped>>

\* The snapshot does not merge.
SyncRefused ==
  /\ up
  /\ sync.pc = "merge"
  /\ ~ Merges(node, sync.snap)
  /\ Ends

\* A request fails.
SyncFails ==
  /\ up
  /\ sync.pc \in {"wait", "relays", "cursor"}
  /\ Ends

\* initialize_state: without --sync the state file is seeded anew.
Restart ==
  /\ ~ up
  /\ up' = TRUE
  /\ node' = IF SyncArg THEN node ELSE Seed(ProjectedSnapshot(auth), auth.relayMap)
  /\ UNCHANGED <<now, auth, cli, commands, issued, sync, args, overlapped>>

-----------------------------------------------------------------------------
Refresh ==
  \/ FetchSnapshot \/ FetchRelayMap \/ SyncSnapshot \/ SyncRefused
  \/ FetchRevocations \/ SyncRevocations

Next ==
  \/ Tick
  \/ \E i \in Issuers : Sign(i) \/ ReadState(i) \/ WriteState(i)
  \/ Refresh \/ SyncFails \/ Restart

(* The interval elapses again and again.                                   *)
Spec == Init /\ [][Next]_vars /\ WF_vars(Refresh)

-----------------------------------------------------------------------------
(* As long as no two commands were under way at the same time, no two     *)
(* revocations in the authority's file have the same sequence number: the  *)
(* daemon's cursor (after_sequence) tells them apart.                      *)
SequencesUnique ==
  overlapped \/ \A r, s \in auth.revs : r.seq = s.seq => r = s

\* A revocation whose command has ended.
Published(r) == [kind |-> "revocation", value |-> r] \in issued

RevocationsIssued == [seq : 1 .. MaxCommands, target : Targets]

(* A revocation whose command has ended reaches the daemon, by way of the  *)
(* cursor or of the snapshot, or an error ends the daemon.                 *)
RevocationsArrive ==
  \A r \in RevocationsIssued : Published(r) ~> (~ up \/ r \in node.revs)

(* The same, as long as no two commands were under way at the same time.   *)
RevocationsArriveInTurn ==
  \A r \in RevocationsIssued : Published(r) ~> (~ up \/ r \in node.revs \/ overlapped)

(* Whatever the authority's file loses when commands overwrite each other, *)
(* a synchronisation never takes the daemon back: not to an older          *)
(* membership, not behind a revocation, not to an older relay map, and not *)
(* to another grant under a known sequence number.                         *)
Forward(old, new) ==
  /\ new.membership.issued >= old.membership.issued
  /\ old.revs \subseteq new.revs
  /\ new.relayMap.version >= old.relayMap.version
  /\ GrantsMerge(old.grants, new.grants)

NoRollbackStep == ~ Restart => Forward(node, node')
NoRollback == [][NoRollbackStep]_vars

=============================================================================
