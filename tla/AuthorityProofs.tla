--------------------------- MODULE AuthorityProofs --------------------------
(***************************************************************************)
(* Proofs about the authority and a synchronising daemon, for every number *)
(* of commands that run at the same time.                                  *)
(***************************************************************************)
EXTENDS Authority, TLAPS

\* Adding an artifact to a file keeps its types and its next sequence numbers.
LEMMA PersistKeeps ==
  ASSUME NEW s \in AuthorityStates, NextAbove(s), NEW a \in Artifacts
  PROVE  PersistArtifact(s, a) \in AuthorityStates /\ NextAbove(PersistArtifact(s, a))
<1> USE DEF NextAbove, AuthorityStates
<1>1. CASE a.kind = "membership"
  <2>1. a.value \in Memberships  BY <1>1 DEF Artifacts
  <2>2. PersistArtifact(s, a) = AddMember(s, a.value)  BY <1>1 DEF PersistArtifact
  <2> QED  BY <2>1, <2>2 DEF AddMember
<1>2. CASE a.kind = "capability"
  <2>1. a.value \in Grants  BY <1>2 DEF Artifacts
  <2>2. PersistArtifact(s, a) = AddGrant(s, a.value)  BY <1>2 DEF PersistArtifact
  <2>3. /\ a.value.seq \in Sequence
        /\ Later(s.nextGrant, a.value.seq + 1) \in Sequence
        /\ Later(s.nextGrant, a.value.seq + 1) >= s.nextGrant
        /\ Later(s.nextGrant, a.value.seq + 1) > a.value.seq
    BY <2>1 DEF Grants, Later, Sequence
  <2>4. \A h \in s.grants : h.seq \in Sequence  BY DEF Grants
  <2>5. AddGrant(s, a.value) \in AuthorityStates  BY <2>1, <2>3 DEF AddGrant
  <2>6. NextAbove(AddGrant(s, a.value))  BY <2>3, <2>4 DEF AddGrant, Sequence
  <2> QED  BY <2>2, <2>5, <2>6
<1>3. CASE a.kind = "revocation"
  <2>1. a.value \in Revocations  BY <1>3 DEF Artifacts
  <2>2. PersistArtifact(s, a) = AddRevocation(s, a.value)  BY <1>3 DEF PersistArtifact
  <2>3. /\ a.value.seq \in Sequence
        /\ Later(s.nextRev, a.value.seq + 1) \in Sequence
        /\ Later(s.nextRev, a.value.seq + 1) >= s.nextRev
        /\ Later(s.nextRev, a.value.seq + 1) > a.value.seq
    BY <2>1 DEF Revocations, Later, Sequence
  <2>4. \A r \in s.revs : r.seq \in Sequence  BY DEF Revocations
  <2>5. AddRevocation(s, a.value) \in AuthorityStates  BY <2>1, <2>3 DEF AddRevocation
  <2>6. NextAbove(AddRevocation(s, a.value))  BY <2>3, <2>4 DEF AddRevocation, Sequence
  <2> QED  BY <2>2, <2>5, <2>6
<1>4. CASE a.kind = "relay"
  <2>1. a.value \in Relays  BY <1>4 DEF Artifacts
  <2>2. PersistArtifact(s, a) = AddRelay(s, a.value)  BY <1>4 DEF PersistArtifact
  <2> QED  BY <2>1, <2>2 DEF AddRelay, RelayMaps
<1>5. CASE a.kind = "hint"
  <2>1. a.value \in Hints  BY <1>5 DEF Artifacts
  <2>2. PersistArtifact(s, a) = AddHint(s, a.value)  BY <1>5 DEF PersistArtifact
  <2> QED  BY <2>1, <2>2 DEF AddHint
<1> QED  BY <1>1, <1>2, <1>3, <1>4, <1>5 DEF Artifacts

\* What a command signs is an artifact.
LEMMA SignedArtifacts ==
  ASSUME now \in Times, auth \in AuthorityStates
  PROVE  Signed \subseteq Artifacts
BY DEF Signed, Artifacts, AuthorityStates, Memberships, Grants, Revocations

(* Every reachable state is well typed, and the authority's file never     *)
(* hands out a sequence number it holds, however many commands read and    *)
(* write it at the same time.                                              *)
THEOREM AuthorityTypeCorrect == Spec => []AuthorityTypeOK
<1>1. Init => AuthorityTypeOK
  <2> SUFFICES ASSUME Init PROVE AuthorityTypeOK  OBVIOUS
  <2>1. PICK body \in Bodies :
          /\ auth = InitialState(body)
          /\ node = Seed(ProjectedSnapshot(auth), IF SyncArg THEN OwnMap ELSE auth.relayMap)
    BY DEF Init
  <2>2. auth \in AuthorityStates /\ NextAbove(auth)
    BY <2>1, AuthorityAssumption
       DEF InitialState, AuthorityStates, NextAbove, Memberships, Times, RelayMaps, Sequence
  <2>3. node \in NodeStates
    BY <2>1, <2>2, OwnMapAssumption DEF Seed, ProjectedSnapshot, AuthorityStates, NodeStates
  <2>4. cli \in [Issuers -> Commands] /\ \A i \in Issuers : cli[i].pc = "done"
    BY DEF Init, NoCommand, Commands
  <2>5. sync \in Syncs /\ sync.pc = "wait"  BY DEF Init, Resting, Syncs
  <2>6. now \in Times /\ commands \in 0 .. MaxCommands
    BY AuthorityAssumption DEF Init, Times
  <2>7. issued \subseteq Artifacts /\ up \in BOOLEAN /\ overlapped \in BOOLEAN
    BY DEF Init
  <2>8. args \in Arguments  BY DEF Init
  <2> QED
    BY <2>2, <2>3, <2>4, <2>5, <2>6, <2>7, <2>8 DEF AuthorityTypeOK
<1>2. AuthorityTypeOK /\ [Next]_vars => AuthorityTypeOK'
  <2> SUFFICES ASSUME AuthorityTypeOK, [Next]_vars PROVE AuthorityTypeOK'  OBVIOUS
  <2> USE DEF AuthorityTypeOK
  <2>1. CASE Tick  BY <2>1, AuthorityAssumption DEF Tick, Times
  <2>2. ASSUME NEW i \in Issuers, Sign(i) PROVE AuthorityTypeOK'
    <3>1. PICK a \in Signed :
            cli' = [cli EXCEPT ![i] = [NoCommand EXCEPT !.pc = "read", !.art = a]]
      BY <2>2 DEF Sign
    <3>2. a \in Artifacts  BY SignedArtifacts
    <3>3. [NoCommand EXCEPT !.pc = "read", !.art = a] \in Commands
      BY <3>2 DEF NoCommand, Commands
    <3>4. cli' \in [Issuers -> Commands]  BY <3>1, <3>3
    <3>5. ASSUME NEW j \in Issuers
          PROVE  /\ cli'[j].pc # "done" => cli'[j].art \in Artifacts
                 /\ cli'[j].pc = "write" =>
                      cli'[j].copy \in AuthorityStates /\ NextAbove(cli'[j].copy)
      <4>1. CASE j = i  BY <3>1, <3>2, <4>1 DEF NoCommand
      <4>2. CASE j # i  BY <3>1, <4>2
      <4> QED  BY <4>1, <4>2
    <3>6. commands' \in 0 .. MaxCommands  BY <2>2, AuthorityAssumption DEF Sign
    <3> QED  BY <2>2, <3>4, <3>5, <3>6 DEF Sign
  <2>3. ASSUME NEW i \in Issuers, ReadState(i) PROVE AuthorityTypeOK'
    <3>1. cli' = [cli EXCEPT ![i] = [@ EXCEPT !.pc = "write", !.copy = auth]]
      BY <2>3 DEF ReadState, Commands
    <3>2. cli[i] \in Commands /\ cli[i].art \in Artifacts  BY <2>3 DEF ReadState
    <3>3. cli' \in [Issuers -> Commands]  BY <3>1, <3>2 DEF Commands
    <3>4. ASSUME NEW j \in Issuers
          PROVE  /\ cli'[j].pc # "done" => cli'[j].art \in Artifacts
                 /\ cli'[j].pc = "write" =>
                      cli'[j].copy \in AuthorityStates /\ NextAbove(cli'[j].copy)
      <4>1. CASE j = i  BY <3>1, <3>2, <4>1 DEF Commands
      <4>2. CASE j # i  BY <3>1, <4>2
      <4> QED  BY <4>1, <4>2
    <3> QED  BY <2>3, <3>3, <3>4 DEF ReadState
  <2>4. ASSUME NEW i \in Issuers, WriteState(i) PROVE AuthorityTypeOK'
    <3>1. /\ cli[i].art \in Artifacts
          /\ cli[i].copy \in AuthorityStates
          /\ NextAbove(cli[i].copy)
      BY <2>4 DEF WriteState
    <3>2. auth' \in AuthorityStates /\ NextAbove(auth)'
      <4>1. auth' = PersistArtifact(cli[i].copy, cli[i].art)  BY <2>4 DEF WriteState
      <4>2. auth' \in AuthorityStates /\ NextAbove(auth')  BY <3>1, <4>1, PersistKeeps
      <4> QED  BY <4>2 DEF NextAbove
    <3>3. cli' \in [Issuers -> Commands]  BY <2>4 DEF WriteState, NoCommand, Commands
    <3>4. ASSUME NEW j \in Issuers
          PROVE  /\ cli'[j].pc # "done" => cli'[j].art \in Artifacts
                 /\ cli'[j].pc = "write" =>
                      cli'[j].copy \in AuthorityStates /\ NextAbove(cli'[j].copy)
      <4>1. CASE j = i  BY <2>4, <4>1 DEF WriteState, NoCommand
      <4>2. CASE j # i  BY <2>4, <4>2 DEF WriteState
      <4> QED  BY <4>1, <4>2
    <3>5. issued' \subseteq Artifacts  BY <2>4, <3>1 DEF WriteState
    <3> QED  BY <2>4, <3>2, <3>3, <3>4, <3>5 DEF WriteState
  <2>5. CASE FetchSnapshot
    <3>1. ProjectedSnapshot(auth) \in Snapshots
      BY DEF ProjectedSnapshot, AuthorityStates, Snapshots
    <3>2. sync' \in Syncs /\ sync'.pc = "relays" /\ sync'.snap \in Snapshots
      BY <2>5, <3>1 DEF FetchSnapshot, Resting, Syncs
    <3> QED  BY <2>5, <3>2 DEF FetchSnapshot
  <2>6. CASE FetchRelayMap
    <3>1. auth.relayMap \in RelayMaps  BY DEF AuthorityStates
    <3>2. /\ sync' \in Syncs /\ sync'.pc = "merge"
          /\ sync'.snap \in Snapshots /\ sync'.map \in RelayMaps
      BY <2>6, <3>1 DEF FetchRelayMap, Syncs
    <3> QED  BY <2>6, <3>2 DEF FetchRelayMap
  <2>7. CASE SyncSnapshot
    <3>1. sync.snap \in Snapshots /\ sync.map \in RelayMaps  BY <2>7 DEF SyncSnapshot
    <3>2. MergeSnapshot(node, sync.snap) \in NodeStates
      BY <3>1 DEF MergeSnapshot, NodeStates, Snapshots
    <3>3. node' \in NodeStates
      BY <2>7, <3>1, <3>2 DEF SyncSnapshot, ApplyRelayMap, NodeStates
    <3>4. sync' \in Syncs /\ sync'.pc \in {"cursor", "wait"}
      BY <2>7 DEF SyncSnapshot, Resting, Syncs
    <3> QED  BY <2>7, <3>3, <3>4 DEF SyncSnapshot
  <2>8. CASE FetchRevocations
    <3>1. FilteredRevocations(auth, MaxRevocationSequence(node.revs)) \subseteq Revocations
      BY DEF FilteredRevocations, AuthorityStates
    <3>2. sync' \in Syncs /\ sync'.pc = "apply"
      BY <2>8, <3>1 DEF FetchRevocations, Resting, Syncs
    <3> QED  BY <2>8, <3>2 DEF FetchRevocations
  <2>9. CASE SyncRevocations
    <3>1. node' \in NodeStates
      BY <2>9 DEF SyncRevocations, ApplyRevocations, NodeStates, Syncs
    <3>2. sync' \in Syncs /\ sync'.pc = "wait"  BY <2>9 DEF SyncRevocations, Resting, Syncs
    <3> QED  BY <2>9, <3>1, <3>2 DEF SyncRevocations
  <2>10. CASE SyncFails \/ SyncRefused
    <3>1. Ends  BY <2>10 DEF SyncFails, SyncRefused
    <3>2. sync' \in Syncs /\ sync'.pc = "wait"  BY <3>1 DEF Ends, Resting, Syncs
    <3> QED  BY <3>1, <3>2 DEF Ends
  <2>11. CASE Restart
    <3>1. Seed(ProjectedSnapshot(auth), auth.relayMap) \in NodeStates
      BY DEF Seed, ProjectedSnapshot, AuthorityStates, NodeStates
    <3> QED  BY <2>11, <3>1 DEF Restart
  <2>12. CASE UNCHANGED vars  BY <2>12 DEF vars
  <2> QED
    BY <2>1, <2>2, <2>3, <2>4, <2>5, <2>6, <2>7, <2>8, <2>9, <2>10, <2>11, <2>12
       DEF Next, Refresh
<1> QED  BY <1>1, <1>2, PTL DEF Spec

-----------------------------------------------------------------------------
\* No two grants of a set have the same sequence number.
Unique(grants) == GrantsMerge(grants, grants)

(* What NoRollback rests on: every copy of the grants is free of           *)
(* duplicates, since AddGrant replaces a grant of the same number.         *)
GrantsUnique ==
  /\ Unique(auth.grants)
  /\ Unique(node.grants)
  /\ \A i \in Issuers : cli[i].pc = "write" => Unique(cli[i].copy.grants)
  /\ sync.pc \in {"relays", "merge"} => Unique(sync.snap.grants)

\* Adding an artifact leaves the grants free of duplicates.
LEMMA PersistUnique ==
  ASSUME NEW s \in AuthorityStates, Unique(s.grants), NEW a \in Artifacts
  PROVE  Unique(PersistArtifact(s, a).grants)
<1> USE DEF AuthorityStates, PersistArtifact
<1>1. CASE a.kind = "membership"  BY <1>1 DEF AddMember
<1>2. CASE a.kind = "capability"
  <2>1. PersistArtifact(s, a).grants = {h \in s.grants : h.seq # a.value.seq} \cup {a.value}
    BY <1>2 DEF AddGrant
  <2> QED  BY <2>1 DEF Unique, GrantsMerge
<1>3. CASE a.kind = "revocation"  BY <1>3 DEF AddRevocation
<1>4. CASE a.kind = "relay"  BY <1>4 DEF AddRelay
<1>5. CASE a.kind = "hint"  BY <1>5 DEF AddHint
<1> QED  BY <1>1, <1>2, <1>3, <1>4, <1>5 DEF Artifacts

(* In every reachable state no copy of the grants has two of one sequence  *)
(* number, although two commands may sign with the same number: the later  *)
(* writer's grant replaces the earlier one.                                *)
THEOREM GrantsUniqueCorrect == Spec => []GrantsUnique
<1>1. Init => GrantsUnique
  <2> SUFFICES ASSUME Init PROVE GrantsUnique  OBVIOUS
  <2>1. auth.grants = {} /\ node.grants = {}
    BY DEF Init, InitialState, Seed, ProjectedSnapshot
  <2>2. \A i \in Issuers : cli[i].pc = "done"  BY DEF Init, NoCommand
  <2>3. sync.pc = "wait"  BY DEF Init, Resting
  <2> QED  BY <2>1, <2>2, <2>3 DEF GrantsUnique, Unique, GrantsMerge
<1>2. AuthorityTypeOK /\ GrantsUnique /\ [Next]_vars => GrantsUnique'
  <2> SUFFICES ASSUME AuthorityTypeOK, GrantsUnique, [Next]_vars PROVE GrantsUnique'
    OBVIOUS
  <2>0. /\ Unique(auth.grants)
        /\ Unique(node.grants)
        /\ \A i \in Issuers : cli[i].pc = "write" => Unique(cli[i].copy.grants)
        /\ sync.pc \in {"relays", "merge"} => Unique(sync.snap.grants)
    BY DEF GrantsUnique
  <2>00. SUFFICES /\ Unique(auth'.grants)
                  /\ Unique(node'.grants)
                  /\ \A i \in Issuers : cli'[i].pc = "write" => Unique(cli'[i].copy.grants)
                  /\ sync'.pc \in {"relays", "merge"} => Unique(sync'.snap.grants)
    BY DEF GrantsUnique, Unique, GrantsMerge
  <2>1. CASE Tick  BY <2>0, <2>1 DEF Tick
  <2>2. ASSUME NEW i \in Issuers, Sign(i)
        PROVE  /\ UNCHANGED <<auth, node, sync>>
               /\ \A j \in Issuers : cli'[j].pc = "write" => Unique(cli'[j].copy.grants)
    <3>1. PICK a \in Signed :
            cli' = [cli EXCEPT ![i] = [NoCommand EXCEPT !.pc = "read", !.art = a]]
      BY <2>2 DEF Sign
    <3>2. cli'[i].pc = "read" /\ \A j \in Issuers : j # i => cli'[j] = cli[j]
      BY <3>1 DEF NoCommand, AuthorityTypeOK
    <3> QED  BY <2>0, <2>2, <3>2 DEF Sign
  <2>3. ASSUME NEW i \in Issuers, ReadState(i)
        PROVE  /\ UNCHANGED <<auth, node, sync>>
               /\ \A j \in Issuers : cli'[j].pc = "write" => Unique(cli'[j].copy.grants)
    <3>1. cli' = [cli EXCEPT ![i] = [@ EXCEPT !.pc = "write", !.copy = auth]]
      BY <2>3 DEF ReadState
    <3>2. cli'[i].copy = auth /\ \A j \in Issuers : j # i => cli'[j] = cli[j]
      BY <3>1 DEF AuthorityTypeOK, Commands
    <3> QED  BY <2>0, <2>3, <3>2 DEF ReadState
  <2>4. ASSUME NEW i \in Issuers, WriteState(i)
        PROVE  /\ UNCHANGED <<node, sync>>
               /\ Unique(auth'.grants)
               /\ \A j \in Issuers : cli'[j].pc = "write" => Unique(cli'[j].copy.grants)
    <3>1. /\ cli[i].art \in Artifacts
          /\ cli[i].copy \in AuthorityStates
          /\ Unique(cli[i].copy.grants)
      BY <2>0, <2>4 DEF WriteState, AuthorityTypeOK
    <3>2. auth' = PersistArtifact(cli[i].copy, cli[i].art)  BY <2>4 DEF WriteState
    <3>3. Unique(auth'.grants)  BY <3>1, <3>2, PersistUnique
    <3>4. cli'[i].pc = "done" /\ \A j \in Issuers : j # i => cli'[j] = cli[j]
      BY <2>4 DEF WriteState, NoCommand, AuthorityTypeOK
    <3> QED  BY <2>0, <2>4, <3>3, <3>4 DEF WriteState
  <2>5. CASE FetchSnapshot  BY <2>0, <2>5 DEF FetchSnapshot, Resting, ProjectedSnapshot
  <2>6. CASE FetchRelayMap
    <3>1. sync'.snap = sync.snap  BY <2>6 DEF FetchRelayMap, AuthorityTypeOK, Syncs
    <3> QED  BY <2>0, <2>6, <3>1 DEF FetchRelayMap
  <2>7. CASE SyncSnapshot
    <3>1. node'.grants = sync.snap.grants
      BY <2>7 DEF SyncSnapshot, ApplyRelayMap, MergeSnapshot, AuthorityTypeOK, NodeStates
    <3>2. sync'.pc \in {"cursor", "wait"}  BY <2>7 DEF SyncSnapshot, Resting
    <3> QED  BY <2>0, <2>7, <3>1, <3>2 DEF SyncSnapshot
  <2>8. CASE FetchRevocations  BY <2>0, <2>8 DEF FetchRevocations, Resting
  <2>9. CASE SyncRevocations
    <3>1. node'.grants = node.grants
      BY <2>9 DEF SyncRevocations, ApplyRevocations, AuthorityTypeOK, NodeStates
    <3> QED  BY <2>0, <2>9, <3>1 DEF SyncRevocations, Resting
  <2>10. CASE SyncFails \/ SyncRefused
    BY <2>0, <2>10 DEF SyncFails, SyncRefused, Ends, Resting
  <2>11. CASE Restart
    <3>1. node'.grants = node.grants \/ node'.grants = auth.grants
      BY <2>11 DEF Restart, Seed, ProjectedSnapshot
    <3> QED  BY <2>0, <2>11, <3>1 DEF Restart
  <2>12. CASE UNCHANGED vars  BY <2>0, <2>12 DEF vars
  <2> QED
    BY <2>0, <2>1, <2>2, <2>3, <2>4, <2>5, <2>6, <2>7, <2>8, <2>9, <2>10, <2>11, <2>12
       DEF Next, Refresh
<1> QED  BY <1>1, <1>2, AuthorityTypeCorrect, PTL DEF Spec

-----------------------------------------------------------------------------
\* Facts are not behind themselves.
LEMMA ForwardReflexive ==
  ASSUME NEW facts \in NodeStates, Unique(facts.grants)
  PROVE  Forward(facts, facts)
BY DEF Forward, Unique, NodeStates, Memberships, Times, RelayMaps

(* A synchronisation never takes the daemon back, however commands of the  *)
(* authority overwrite each other's files: an older membership and a       *)
(* changed grant are refused, revocations are united, and an older relay   *)
(* map is ignored.                                                         *)
THEOREM NoRollbackCorrect == Spec => NoRollback
<1>1. AuthorityTypeOK /\ GrantsUnique /\ [Next]_vars => [NoRollbackStep]_vars
  <2> SUFFICES ASSUME AuthorityTypeOK, GrantsUnique, Next, ~ Restart
               PROVE  Forward(node, node')
    BY DEF NoRollbackStep
  <2>0. node \in NodeStates /\ Unique(node.grants)  BY DEF AuthorityTypeOK, GrantsUnique
  <2>1. CASE node' = node  BY <2>0, <2>1, ForwardReflexive
  <2>2. CASE SyncSnapshot
    <3> DEFINE merged == MergeSnapshot(node, sync.snap)
    <3>1. sync.snap \in Snapshots /\ sync.map \in RelayMaps
      BY <2>2 DEF SyncSnapshot, AuthorityTypeOK
    <3>2. node' = ApplyRelayMap(merged, sync.map) /\ Merges(node, sync.snap)
      BY <2>2 DEF SyncSnapshot
    <3>3. /\ merged.membership = sync.snap.membership
          /\ merged.grants = sync.snap.grants
          /\ merged.revs = node.revs \cup sync.snap.revs
          /\ merged.relayMap = node.relayMap
      BY <2>0 DEF MergeSnapshot, NodeStates
    <3>4. merged \in NodeStates
      BY <2>0, <3>1 DEF MergeSnapshot, NodeStates, Snapshots
    <3> HIDE DEF merged
    <3>5. /\ node'.membership = merged.membership
          /\ node'.grants = merged.grants
          /\ node'.revs = merged.revs
          /\ node'.relayMap.version >= merged.relayMap.version
      BY <3>1, <3>2, <3>4 DEF ApplyRelayMap, NodeStates, RelayMaps
    <3>6. node'.membership.issued >= node.membership.issued
      BY <2>0, <3>1, <3>2, <3>3, <3>5
         DEF Merges, MembershipMerges, NodeStates, Snapshots, Memberships, Times
    <3>7. GrantsMerge(node.grants, node'.grants)  BY <3>2, <3>3, <3>5 DEF Merges
    <3> QED  BY <3>3, <3>5, <3>6, <3>7 DEF Forward
  <2>3. CASE SyncRevocations
    <3>1. /\ node'.membership = node.membership
          /\ node'.grants = node.grants
          /\ node'.relayMap = node.relayMap
          /\ node'.revs = node.revs \cup sync.revs
      BY <2>0, <2>3 DEF SyncRevocations, ApplyRevocations, NodeStates
    <3>2. Forward(node, node)  BY <2>0, ForwardReflexive
    <3> QED  BY <3>1, <3>2 DEF Forward
  <2> QED
    BY <2>1, <2>2, <2>3
       DEF Next, Refresh, Tick, Sign, ReadState, WriteState, FetchSnapshot, FetchRelayMap,
           FetchRevocations, SyncFails, SyncRefused, Ends
<1> QED  BY <1>1, AuthorityTypeCorrect, GrantsUniqueCorrect, PTL DEF Spec, NoRollback

-----------------------------------------------------------------------------
(* What SequencesUnique rests on: commands that take turns each write back *)
(* the file as it is, with a number above the ones in it.                  *)
InTurn ==
  ~ overlapped =>
    /\ \A i, j \in Issuers : cli[i].pc # "done" /\ cli[j].pc # "done" => i = j
    /\ \A i \in Issuers : cli[i].pc = "write" => cli[i].copy = auth
    /\ \A i \in Issuers : cli[i].pc # "done" /\ cli[i].art.kind = "revocation"
         => \A r \in auth.revs : r.seq < cli[i].art.value.seq
    /\ \A r, s \in auth.revs : r.seq = s.seq => r = s

(* As long as commands take turns, the numbers of the revocations in the   *)
(* authority's file are distinct, for any number of commands: the daemon's *)
(* cursor is sound for sequential use of the authority's CLI.              *)
THEOREM SequencesUniqueCorrect == Spec => []SequencesUnique
<1>1. Init => InTurn
  <2> SUFFICES ASSUME Init PROVE InTurn  OBVIOUS
  <2>1. auth.revs = {}  BY DEF Init, InitialState
  <2>2. \A i \in Issuers : cli[i].pc = "done"  BY DEF Init, NoCommand
  <2> QED  BY <2>1, <2>2 DEF InTurn
<1>2. AuthorityTypeOK /\ InTurn /\ [Next]_vars => InTurn'
  <2> SUFFICES ASSUME AuthorityTypeOK, InTurn, [Next]_vars, ~ overlapped' PROVE InTurn'
    BY DEF InTurn
  <2>0. overlapped = FALSE
    BY DEF Next, Refresh, Tick, Sign, ReadState, WriteState, FetchSnapshot, FetchRelayMap,
           SyncSnapshot, SyncRefused, FetchRevocations, SyncRevocations, SyncFails, Ends,
           Restart, vars, AuthorityTypeOK
  <2>00. /\ \A i, j \in Issuers : cli[i].pc # "done" /\ cli[j].pc # "done" => i = j
         /\ \A i \in Issuers : cli[i].pc = "write" => cli[i].copy = auth
         /\ \A i \in Issuers : cli[i].pc # "done" /\ cli[i].art.kind = "revocation"
              => \A r \in auth.revs : r.seq < cli[i].art.value.seq
         /\ \A r, s \in auth.revs : r.seq = s.seq => r = s
    BY <2>0 DEF InTurn
  <2>1. CASE cli' = cli /\ auth' = auth  BY <2>00, <2>1 DEF InTurn
  <2>2. ASSUME NEW i \in Issuers, Sign(i) PROVE InTurn'
    <3>1. PICK a \in Signed :
            cli' = [cli EXCEPT ![i] = [NoCommand EXCEPT !.pc = "read", !.art = a]]
      BY <2>2 DEF Sign
    <3>2. auth' = auth /\ \A j \in Issuers : cli[j].pc = "done"
      BY <2>0, <2>2 DEF Sign
    <3>3. /\ cli'[i].pc = "read" /\ cli'[i].art = a
          /\ \A j \in Issuers : j # i => cli'[j].pc = "done"
      BY <3>1, <3>2 DEF NoCommand, AuthorityTypeOK
    <3>4. a.kind = "revocation" => a.value.seq = auth.nextRev  BY DEF Signed
    <3>5. \A r \in auth.revs : r.seq < auth.nextRev  BY DEF AuthorityTypeOK, NextAbove
    <3> QED  BY <2>00, <3>2, <3>3, <3>4, <3>5 DEF InTurn
  <2>3. ASSUME NEW i \in Issuers, ReadState(i) PROVE InTurn'
    <3>1. /\ cli[i].pc = "read" /\ auth' = auth
          /\ cli' = [cli EXCEPT ![i] = [@ EXCEPT !.pc = "write", !.copy = auth]]
      BY <2>3 DEF ReadState
    <3>2. /\ cli'[i].copy = auth /\ cli'[i].art = cli[i].art
          /\ \A j \in Issuers : j # i => cli'[j] = cli[j]
      BY <3>1 DEF AuthorityTypeOK, Commands
    <3> QED  BY <2>00, <3>1, <3>2 DEF InTurn
  <2>4. ASSUME NEW i \in Issuers, WriteState(i) PROVE InTurn'
    <3>1. /\ cli[i].pc = "write" /\ cli[i].copy = auth
          /\ auth' = PersistArtifact(auth, cli[i].art)
          /\ cli' = [cli EXCEPT ![i] = NoCommand]
      BY <2>00, <2>4 DEF WriteState
    <3>2. \A j \in Issuers : cli'[j].pc = "done"
      BY <2>00, <3>1 DEF NoCommand, AuthorityTypeOK
    <3>3. auth \in AuthorityStates /\ cli[i].art \in Artifacts
      BY <3>1 DEF AuthorityTypeOK
    <3>4. CASE cli[i].art.kind # "revocation"
      <4>1. auth'.revs = auth.revs
        BY <3>1, <3>3, <3>4
           DEF PersistArtifact, AddMember, AddGrant, AddRelay, AddHint, Artifacts, AuthorityStates
      <4> QED  BY <2>00, <3>2, <4>1 DEF InTurn
    <3>5. CASE cli[i].art.kind = "revocation"
      <4> DEFINE new == cli[i].art.value
      <4>1. auth'.revs = auth.revs \cup {new}
        BY <3>1, <3>3, <3>5 DEF PersistArtifact, AddRevocation, AuthorityStates
      <4>2. \A r \in auth.revs : r.seq < new.seq  BY <2>00, <3>1, <3>5
      <4>3. \A r \in auth.revs \cup {new} : r.seq \in Nat
        BY <3>3, <3>5 DEF AuthorityStates, Artifacts, Revocations, Sequence
      <4> HIDE DEF new
      <4>4. ASSUME NEW r \in auth'.revs, NEW s \in auth'.revs, r.seq = s.seq
            PROVE  r = s
        BY <2>00, <4>1, <4>2, <4>3, <4>4
      <4> QED  BY <3>2, <4>4 DEF InTurn
    <3> QED  BY <3>4, <3>5
  <2> QED
    BY <2>1, <2>2, <2>3, <2>4
       DEF Next, Refresh, Tick, FetchSnapshot, FetchRelayMap, SyncSnapshot, SyncRefused,
           FetchRevocations, SyncRevocations, SyncFails, Ends, Restart, vars
<1>3. InTurn => SequencesUnique  BY DEF InTurn, SequencesUnique
<1> QED  BY <1>1, <1>2, <1>3, AuthorityTypeCorrect, PTL DEF Spec

=============================================================================
