-------------------------- MODULE TransportProofs ---------------------------
(***************************************************************************)
(* Proofs about the session registry for any number of threads and         *)
(* sessions and any relay.                                                 *)
(***************************************************************************)
EXTENDS Transport, RelayRuntimeLemmas, WellFoundedInduction

(* The locals of a thread that executes nothing.                           *)
LEMMA IdleShape == Idle \in Calls /\ CallShape(Idle) /\ Held(Idle) = {}
<1>1. (CHOOSE k \in Keys : TRUE) \in Keys  BY TransportAssumption
<1>2. Idle \in Calls  BY <1>1 DEF Idle, Calls, Pcs, Routes
<1>3. CallShape(Idle)  BY DEF CallShape, Idle
<1>4. Held(Idle) = {}  BY DEF Held, Idle
<1> QED  BY <1>2, <1>3, <1>4

(* An operation that moves on keeps the shape of all calls.                *)
LEMMA Moved ==
  ASSUME call \in [Threads -> Calls], \A u \in Threads : CallShape(call[u]),
         NEW t \in Threads, NEW c \in Calls, CallShape(c),
         call' = [call EXCEPT ![t] = c]
  PROVE  /\ call' \in [Threads -> Calls]
         /\ \A u \in Threads : CallShape(call'[u])
<1>1. \A u \in Threads : call'[u] = IF u = t THEN c ELSE call[u]  OBVIOUS
<1> QED  BY <1>1

(* An operation that returns.                                              *)
LEMMA Returned ==
  ASSUME call \in [Threads -> Calls], \A u \in Threads : CallShape(call[u]),
         NEW t \in Threads, Return(t)
  PROVE  /\ call' \in [Threads -> Calls]
         /\ \A u \in Threads : CallShape(call'[u])
BY IdleShape, Moved DEF Return

(* A request to the relay for a key is a request.                          *)
LEMMA RelayRequestType ==
  ASSUME NEW k \in Keys, NEW a \in AttemptIds
  PROVE  RelayRequest(k, a) \in Requests
BY TransportAssumption DEF RelayRequest, Requests

(* The relay's table stays one and gains one open session at most.         *)
LEMMA OpenAcceptedEffect ==
  ASSUME NEW k \in Keys, NEW id \in Ids, relay \in Tables, OpenAccepted(k, id)
  PROVE  /\ relay' \in Tables
         /\ OpenIds(relay') \subseteq OpenIds(relay) \cup {id}
<1>1. PICK a \in AttemptIds : relay' = OpenSession(relay, RelayRequest(k, a), id)
  BY DEF OpenAccepted
<1> QED  BY <1>1, RelayRequestType, OpenSessionType, OpenSessionAddsOne

(* A close that is answered takes the identifier off the open ones.        *)
LEMMA CloseEffect ==
  ASSUME NEW id \in Ids, relay \in Tables, CloseAccepted(id)
  PROVE  /\ relay' \in Tables
         /\ OpenIds(relay') \subseteq OpenIds(relay) \ {id}
BY CloseSessionType, CloseSessionCloses DEF CloseAccepted

(* A close that fails may have taken effect; it opens nothing.             *)
LEMMA CloseFailsEffect ==
  ASSUME NEW id \in Ids, relay \in Tables, CloseFails(id)
  PROVE  /\ relay' \in Tables
         /\ OpenIds(relay') \subseteq OpenIds(relay)
BY CloseSessionType, CloseSessionCloses DEF CloseFails

(* Changing the state of a snapshot does not change its path.              *)
LEMMA WithStateShape ==
  ASSUME NEW snap, WellFormed(snap), NEW s \in SessionStates, NEW w \in Causes \cup {NoCause}
  PROVE  /\ WellFormed(WithState(snap, s, w))
         /\ WithState(snap, s, w).kind = snap.kind
         /\ WithState(snap, s, w).tsid = snap.tsid
BY DEF WellFormed, WithState, Snapshots

(* update_session_state keeps the registry well formed and every path.     *)
LEMMA UpdateStateShape ==
  ASSUME RegistryTypeOK, Shape,
         NEW k \in Keys, NEW s \in SessionStates, NEW w \in Causes \cup {NoCause},
         UpdateState(k, s, w)
  PROVE  /\ runtime' \in [Keys -> Snapshots \cup {NoSession}]
         /\ \A j \in Keys : runtime'[j] # NoSession => WellFormed(runtime'[j])
         /\ \A j \in Keys : /\ IsRelay(runtime[j]) <=> IsRelay(runtime'[j])
                            /\ IsRelay(runtime[j]) => runtime'[j].tsid = runtime[j].tsid
<1>1. CASE runtime[k] = NoSession
  BY <1>1 DEF UpdateState, RegistryTypeOK, Shape
<1>2. CASE runtime[k] # NoSession
  <2> DEFINE new == WithState(runtime[k], s, w)
  <2>1. WellFormed(runtime[k])  BY <1>2 DEF Shape
  <2>2. WellFormed(new) /\ new.kind = runtime[k].kind /\ new.tsid = runtime[k].tsid
    BY <2>1, WithStateShape
  <2>3. new # NoSession /\ new \in Snapshots
    BY <2>2, NoSnapshotAssumption DEF WellFormed
  <2>4. runtime' = [runtime EXCEPT ![k] = new]
    BY <1>2 DEF UpdateState
  <2>5. \A j \in Keys : runtime'[j] = IF j = k THEN new ELSE runtime[j]
    BY <2>4 DEF RegistryTypeOK
  <2> HIDE DEF new
  <2> QED  BY <1>2, <2>1, <2>2, <2>3, <2>4, <2>5 DEF RegistryTypeOK, Shape, IsRelay
<1> QED  BY <1>1, <1>2

(* The types and the shapes are inductive: one step per action.            *)
LEMMA ShapeStep ==
  ASSUME RegistryTypeOK, Shape, [Next]_vars
  PROVE  RegistryTypeOK' /\ Shape'
<1> DEFINE Good == /\ call' \in [Threads -> Calls]
                   /\ \A u \in Threads : CallShape(call'[u])
           Kept == /\ runtime' \in [Keys -> Snapshots \cup {NoSession}]
                   /\ \A k \in Keys : runtime'[k] # NoSession => WellFormed(runtime'[k])
<1>0. /\ call \in [Threads -> Calls]
      /\ \A u \in Threads : call[u] \in Calls /\ CallShape(call[u])
      /\ relay \in Tables /\ lost \subseteq Ids /\ suppressed \subseteq Keys
  BY DEF RegistryTypeOK, Shape
<1>k. UNCHANGED runtime => Kept  BY DEF RegistryTypeOK, Shape
<1>g. UNCHANGED call => Good  BY <1>0
<1>q. ASSUME Good, Kept, relay' \in Tables, lost' \subseteq Ids, suppressed' \subseteq Keys
      PROVE  RegistryTypeOK' /\ Shape'
  BY <1>q DEF RegistryTypeOK, Shape
<1>r. ASSUME NEW t \in Threads, Return(t) PROVE Good
  BY <1>r, <1>0, Returned
<1>m. ASSUME NEW t \in Threads, NEW c \in Calls, CallShape(c), call' = [call EXCEPT ![t] = c]
      PROVE  Good
  BY <1>m, <1>0, Moved
<1> HIDE DEF Good, Kept
<1>1. ASSUME NEW t \in Threads, NEW k \in Keys, NEW s \in CallerStates,
             NEW w \in Causes \cup {NoCause}, SetState(t, k, s, w)
      PROVE  RegistryTypeOK' /\ Shape'
  <2>1. Kept
    BY <1>1, UpdateStateShape, TransportAssumption DEF SetState, Kept
  <2> QED  BY <1>1, <2>1, <1>0, <1>g, <1>q DEF SetState
<1>2. ASSUME NEW t \in Threads, NEW k \in Keys, Suppress(t, k) \/ Unsuppress(t, k)
      PROVE  RegistryTypeOK' /\ Shape'
  <2>1. suppressed' \subseteq Keys  BY <1>2, <1>0 DEF Suppress, Unsuppress
  <2> QED  BY <1>2, <2>1, <1>0, <1>k, <1>g, <1>q DEF Suppress, Unsuppress
<1>3. ASSUME NEW t \in Threads, NEW k \in Keys, NEW r \in Routes, BeginConnect(t, k, r)
      PROVE  RegistryTypeOK' /\ Shape'
  <2> DEFINE c == [pc |-> "open", op |-> "connect", key |-> k, route |-> r,
                   tsid |-> NoId, snap |-> NoSession, cause |-> NoCause]
  <2>1. c \in Calls  BY DEF Calls, Pcs
  <2>2. CallShape(c)  BY DEF CallShape
  <2>3. call' = [call EXCEPT ![t] = c]  BY <1>3 DEF BeginConnect, Begin
  <2>4. Good  BY <2>1, <2>2, <2>3, <1>m
  <2> QED  BY <1>3, <2>4, <1>0, <1>k, <1>q DEF BeginConnect
<1>4. ASSUME NEW t \in Threads, NEW k \in Keys, NEW r \in Routes, BeginMigrate(t, k, r)
      PROVE  RegistryTypeOK' /\ Shape'
  <2> DEFINE c == [pc |-> "existing", op |-> "migrate", key |-> k, route |-> r,
                   tsid |-> NoId, snap |-> NoSession, cause |-> NoCause]
  <2>1. c \in Calls  BY DEF Calls, Pcs
  <2>2. CallShape(c)  BY DEF CallShape
  <2>3. call' = [call EXCEPT ![t] = c]  BY <1>4 DEF BeginMigrate, Begin
  <2>4. Good  BY <2>1, <2>2, <2>3, <1>m
  <2>5. Kept  BY <1>4, UpdateStateShape DEF BeginMigrate, SessionStates, Kept
  <2> QED  BY <1>4, <2>4, <2>5, <1>0, <1>q DEF BeginMigrate
<1>5. ASSUME NEW t \in Threads, NEW k \in Keys, NEW w \in Causes \cup {NoCause},
             BeginClose(t, k, w)
      PROVE  RegistryTypeOK' /\ Shape'
  <2> DEFINE v == IF runtime[k] # NoSession /\ runtime[k].cause # NoCause
                  THEN runtime[k].cause ELSE w
             c == [pc |-> "mark", op |-> "close", key |-> k, route |-> "unusable",
                   tsid |-> NoId, snap |-> NoSession, cause |-> v]
  <2>1. v \in Causes \cup {NoCause}
    BY DEF RegistryTypeOK, Snapshots
  <2>2. call' = [call EXCEPT ![t] = c]  BY <1>5 DEF BeginClose, Begin
  <2>3. c \in Calls
    <3> HIDE DEF v
    <3> QED  BY <2>1 DEF Calls, Pcs, Routes
  <2>4. CallShape(c)  BY DEF CallShape
  <2>5. Good  BY <2>2, <2>3, <2>4, <1>m
  <2> QED  BY <1>5, <2>5, <1>0, <1>k, <1>q DEF BeginClose
<1>6. ASSUME NEW t \in Threads, OpenDirect(t)
      PROVE  RegistryTypeOK' /\ Shape'
  <2> DEFINE c == [call[t] EXCEPT !.pc = AfterOpen(call[t].op)]
  <2>1. call' = [call EXCEPT ![t] = c]  BY <1>6 DEF OpenDirect, Goto
  <2>2. c \in Calls  BY <1>0 DEF Calls, AfterOpen, Pcs
  <2>3. CallShape(c)
    BY <1>0, <1>6, TransportAssumption
       DEF CallShape, AfterOpen, OpenDirect, At, Calls, PathKinds
  <2> QED  BY <2>1, <2>2, <2>3, <1>m, <1>6, <1>0, <1>k, <1>q DEF OpenDirect
<1>7. ASSUME NEW t \in Threads, NEW id \in Ids, OpenRelay(t, id)
      PROVE  RegistryTypeOK' /\ Shape'
  <2> DEFINE c == [call[t] EXCEPT !.tsid = id, !.pc = AfterOpen(call[t].op)]
  <2>1. call' = [call EXCEPT ![t] = c]  BY <1>7, <1>0 DEF OpenRelay, Goto, Calls
  <2>2. c \in Calls  BY <1>0 DEF Calls, AfterOpen, Pcs
  <2>3. CallShape(c)
    BY <1>0, <1>7 DEF CallShape, AfterOpen, OpenRelay, At, Calls, PathKinds
  <2>4. relay' \in Tables
    BY <1>7, <1>0, OpenAcceptedEffect DEF OpenRelay, Calls
  <2> QED  BY <2>1, <2>2, <2>3, <2>4, <1>m, <1>7, <1>0, <1>k, <1>q DEF OpenRelay
<1>8. ASSUME NEW t \in Threads, NEW id \in Ids, OpenRelayAnswerLost(t, id)
      PROVE  RegistryTypeOK' /\ Shape'
  <2>1. relay' \in Tables
    BY <1>8, <1>0, OpenAcceptedEffect DEF OpenRelayAnswerLost, Calls
  <2> QED  BY <2>1, <1>r, <1>8, <1>0, <1>k, <1>q DEF OpenRelayAnswerLost
<1>9. ASSUME NEW t \in Threads, OpenRelayFails(t) \/ OpenInvalid(t)
      PROVE  RegistryTypeOK' /\ Shape'
  BY <1>r, <1>9, <1>0, <1>k, <1>q DEF OpenRelayFails, OpenFails, OpenInvalid
<1>10. ASSUME NEW t \in Threads, Insert(t)
       PROVE  RegistryTypeOK' /\ Shape'
  <2> DEFINE k == call[t].key
             new == NewSnapshot(call[t])
             c == [call[t] EXCEPT !.snap = runtime[k], !.pc = "closePrev"]
  <2>1. k \in Keys  BY <1>0 DEF Calls
  <2>2. WellFormed(new)
    BY <1>0, <1>10, TransportAssumption
       DEF CallShape, Insert, At, NewSnapshot, WellFormed, Snapshots, SessionStates, Calls,
           PathKinds
  <2>3. new # NoSession /\ new \in Snapshots
    BY <2>2, NoSnapshotAssumption DEF WellFormed
  <2>4. runtime' = [runtime EXCEPT ![k] = new]  BY <1>10 DEF Insert
  <2>5. Kept
    <3> HIDE DEF new, k
    <3> QED  BY <2>1, <2>2, <2>3, <2>4 DEF RegistryTypeOK, Shape, Kept
  <2>6. CASE Replaces(runtime[k], new)
    <3>1. call' = [call EXCEPT ![t] = c]  BY <1>10, <2>6, <1>0 DEF Insert, Goto, Calls
    <3>2. WellFormed(runtime[k]) /\ runtime[k].kind = "relay"
      BY <2>1, <2>6 DEF Replaces, IsRelay, Shape
    <3>3. c \in Calls  BY <3>2, <1>0 DEF Calls, Pcs, WellFormed
    <3>4. CallShape(c)  BY <3>2, <1>0 DEF CallShape, Calls
    <3> QED  BY <3>1, <3>3, <3>4, <2>5, <1>m, <1>10, <1>0, <1>q DEF Insert
  <2>7. CASE ~ Replaces(runtime[k], new)
    BY <2>7, <2>5, <1>r, <1>10, <1>0, <1>q DEF Insert
  <2> QED  BY <2>6, <2>7
<1>11. ASSUME NEW t \in Threads, ClosePrev(t) \/ ClosePrevFails(t)
       PROVE  RegistryTypeOK' /\ Shape'
  <2>1. call[t].snap.tsid \in Ids
    BY <1>0, <1>11 DEF ClosePrev, ClosePrevFails, At, CallShape, WellFormed
  <2>2. relay' \in Tables /\ lost' \subseteq Ids
    BY <2>1, <1>0, <1>11, CloseEffect, CloseFailsEffect DEF ClosePrev, ClosePrevFails
  <2> QED  BY <2>2, <1>r, <1>11, <1>0, <1>k, <1>q DEF ClosePrev, ClosePrevFails
<1>12. ASSUME NEW t \in Threads, ReadExisting(t)
       PROVE  RegistryTypeOK' /\ Shape'
  <2> DEFINE k == call[t].key
             c == [call[t] EXCEPT !.snap = runtime[k], !.pc = "open"]
  <2>1. k \in Keys  BY <1>0 DEF Calls
  <2>2. WellFormed(runtime[k])  BY <1>12, <2>1 DEF ReadExisting, Shape
  <2>3. call' = [call EXCEPT ![t] = c]  BY <1>12, <1>0 DEF ReadExisting, Goto, Calls
  <2>4. c \in Calls  BY <2>2, <1>0 DEF Calls, Pcs, WellFormed
  <2>5. call[t].op = "migrate" /\ call[t].tsid = NoId
    BY <1>0, <1>12 DEF ReadExisting, At, CallShape
  <2>6. CallShape(c)  BY <2>2, <2>5, <1>0 DEF CallShape, Calls
  <2> QED  BY <2>3, <2>4, <2>6, <1>m, <1>12, <1>0, <1>k, <1>q DEF ReadExisting
<1>12a. ASSUME NEW t \in Threads, NotOwned(t)
        PROVE  RegistryTypeOK' /\ Shape'
  BY <1>r, <1>12a, <1>0, <1>k, <1>q DEF NotOwned
<1>13. ASSUME NEW t \in Threads, CloseOld(t)
       PROVE  RegistryTypeOK' /\ Shape'
  <2> DEFINE c == [call[t] EXCEPT !.pc = "insert"]
  <2>1. c \in Calls  BY <1>0 DEF Calls, Pcs
  <2>2. CallShape(c)  BY <1>0, <1>13 DEF CallShape, CloseOld, At, Calls
  <2>3. WellFormed(call[t].snap)  BY <1>0, <1>13 DEF CallShape, CloseOld, At
  <2>4. Good  BY <2>1, <2>2, <1>13, <1>m DEF CloseOld, Goto
  <2>5. relay' \in Tables
    BY <2>3, <1>13, <1>0, CloseEffect DEF CloseOld, Replaces, IsRelay, WellFormed
  <2> QED  BY <2>4, <2>5, <1>13, <1>0, <1>k, <1>q DEF CloseOld
<1>13a. ASSUME NEW t \in Threads, CloseOldFails(t)
        PROVE  RegistryTypeOK' /\ Shape'
  <2>1. WellFormed(call[t].snap)  BY <1>0, <1>13a DEF CallShape, CloseOldFails, At
  <2>2. call[t].snap.tsid \in Ids
    BY <2>1, <1>13a DEF CloseOldFails, Replaces, IsRelay, WellFormed
  <2>3. relay' \in Tables  BY <2>2, <1>13a, <1>0, CloseFailsEffect DEF CloseOldFails
  <2>4. Held(call[t]) \subseteq Ids  BY <2>2, <1>0 DEF Held, Calls
  <2>5. lost' \subseteq Ids  BY <2>2, <2>4, <1>13a, <1>0 DEF CloseOldFails
  <2> QED  BY <2>3, <2>5, <1>r, <1>13a, <1>0, <1>k, <1>q DEF CloseOldFails
<1>14. ASSUME NEW t \in Threads, MarkClosing(t)
       PROVE  RegistryTypeOK' /\ Shape'
  <2> DEFINE c == [call[t] EXCEPT !.pc = "remove"]
  <2>1. call[t].key \in Keys /\ call[t].cause \in Causes \cup {NoCause}  BY <1>0 DEF Calls
  <2>2. Kept
    BY <2>1, <1>14, UpdateStateShape DEF MarkClosing, SessionStates, Kept
  <2>3. c \in Calls  BY <1>0 DEF Calls, Pcs
  <2>4. CallShape(c)  BY <1>0 DEF CallShape, Calls
  <2>5. Good  BY <2>3, <2>4, <1>14, <1>m DEF MarkClosing, Goto
  <2> QED  BY <2>2, <2>5, <1>14, <1>0, <1>q DEF MarkClosing
<1>15. ASSUME NEW t \in Threads, Remove(t)
       PROVE  RegistryTypeOK' /\ Shape'
  <2> DEFINE k == call[t].key
             pc == IF IsRelay(runtime[k]) THEN "closeRemoved" ELSE "record"
             c == [call[t] EXCEPT !.snap = runtime[k], !.pc = pc]
  <2>1. k \in Keys  BY <1>0 DEF Calls
  <2>2. CASE runtime[k] = NoSession
    BY <2>2, <1>r, <1>15, <1>0, <1>k, <1>q DEF Remove
  <2>3. CASE runtime[k] # NoSession
    <3>1. WellFormed(runtime[k])  BY <2>1, <2>3 DEF Shape
    <3>2. call' = [call EXCEPT ![t] = c]  BY <1>15, <2>3, <1>0 DEF Remove, Goto, Calls
    <3>3. c \in Calls  BY <3>1, <1>0 DEF Calls, Pcs, WellFormed
    <3>4. CallShape(c)  BY <3>1, <2>3, <1>0 DEF CallShape, Calls, IsRelay
    <3>5. runtime' = [runtime EXCEPT ![k] = NoSession]  BY <1>15, <2>3 DEF Remove
    <3>6. Kept  BY <3>5, <2>1 DEF RegistryTypeOK, Shape, Kept
    <3> QED  BY <3>2, <3>3, <3>4, <3>6, <1>m, <1>15, <1>0, <1>q DEF Remove
  <2> QED  BY <2>2, <2>3
<1>16. ASSUME NEW t \in Threads, CloseRemoved(t)
       PROVE  RegistryTypeOK' /\ Shape'
  <2> DEFINE c == [call[t] EXCEPT !.pc = "record"]
  <2>1. WellFormed(call[t].snap) /\ call[t].snap.tsid \in Ids
    BY <1>0, <1>16 DEF CloseRemoved, At, CallShape, WellFormed
  <2>2. relay' \in Tables  BY <2>1, <1>0, <1>16, CloseEffect DEF CloseRemoved
  <2>3. c \in Calls  BY <1>0 DEF Calls, Pcs
  <2>4. CallShape(c)  BY <2>1, <1>0 DEF CallShape, Calls
  <2>5. Good  BY <2>3, <2>4, <1>16, <1>m DEF CloseRemoved, Goto
  <2> QED  BY <2>2, <2>5, <1>16, <1>0, <1>k, <1>q DEF CloseRemoved
<1>16a. ASSUME NEW t \in Threads, CloseRemovedFails(t)
        PROVE  RegistryTypeOK' /\ Shape'
  <2>1. call[t].snap.tsid \in Ids
    BY <1>0, <1>16a DEF CloseRemovedFails, At, CallShape, WellFormed
  <2>2. relay' \in Tables /\ lost' \subseteq Ids
    BY <2>1, <1>0, <1>16a, CloseFailsEffect DEF CloseRemovedFails
  <2> QED  BY <2>2, <1>r, <1>16a, <1>0, <1>k, <1>q DEF CloseRemovedFails
<1>17. ASSUME NEW t \in Threads, Record(t)
       PROVE  RegistryTypeOK' /\ Shape'
  BY <1>r, <1>17, <1>0, <1>k, <1>q DEF Record
<1>18. CASE RelayRestart
  <2>1. relay' \in Tables  BY <1>18 DEF RelayRestart, EmptyTable, Tables
  <2>2. lost' \subseteq Ids  BY <1>18, <1>0 DEF RelayRestart
  <2> QED  BY <2>1, <2>2, <1>18, <1>0, <1>k, <1>g, <1>q DEF RelayRestart
<1>19. CASE UNCHANGED vars
  BY <1>19, <1>0, <1>k, <1>g, <1>q DEF vars
<1> QED
  BY <1>1, <1>2, <1>3, <1>4, <1>5, <1>6, <1>7, <1>8, <1>9, <1>10, <1>11, <1>12, <1>12a,
     <1>13, <1>13a, <1>14, <1>15, <1>16, <1>16a, <1>17, <1>18, <1>19
     DEF Next, CallerStep, AdapterStep, Proceeds, Fails

-----------------------------------------------------------------------------
(* NoOrphan, identifier by identifier.                                     *)
InRegistry(x) == \E k \in Keys : IsRelay(runtime[k]) /\ runtime[k].tsid = x

InHands(x) == \E t \in Threads : x \in Held(call[t])

Accounted(x) == InRegistry(x) \/ InHands(x) \/ x \in lost

LEMMA NoOrphanPointwise == NoOrphan <=> \A x \in OpenIds(relay) : Accounted(x)
BY DEF NoOrphan, Referenced, Accounted, InRegistry, InHands

(* A step of one thread loses sight of no identifier if what it takes out  *)
(* of the registry, and what it lets go of, is still accounted for; what   *)
(* it opens is accounted for as well.                                      *)
LEMMA StillAccounted ==
  ASSUME NoOrphan, lost \subseteq lost',
         NEW t \in Threads, \A u \in Threads \ {t} : call'[u] = call[u],
         \A x \in OpenIds(relay') \ OpenIds(relay) : Accounted(x)',
         \A x \in OpenIds(relay') : InRegistry(x) => Accounted(x)',
         \A x \in OpenIds(relay') : x \in Held(call[t]) => Accounted(x)'
  PROVE  NoOrphan'
<1> SUFFICES ASSUME NEW x \in OpenIds(relay') PROVE Accounted(x)'
  BY DEF NoOrphan, Referenced, Accounted, InRegistry, InHands
<1>1. CASE x \notin OpenIds(relay)  BY <1>1
<1>2. CASE InRegistry(x)  BY <1>2
<1>3. CASE InHands(x)
  <2>1. PICK u \in Threads : x \in Held(call[u])  BY <1>3 DEF InHands
  <2>2. CASE u = t  BY <2>1, <2>2
  <2>3. CASE u # t
    <3>1. x \in Held(call'[u])  BY <2>1, <2>3
    <3> QED  BY <3>1 DEF Accounted, InHands
  <2> QED  BY <2>2, <2>3
<1>4. CASE x \in lost  BY <1>4 DEF Accounted
<1>5. x \in OpenIds(relay) => Accounted(x)  BY NoOrphanPointwise
<1> QED  BY <1>1, <1>2, <1>3, <1>4, <1>5 DEF Accounted

(* One step per action; the hypotheses of StillAccounted are what an       *)
(* action can disturb.                                                     *)
LEMMA NoOrphanStep ==
  ASSUME RegistryTypeOK, Shape, NoOrphan, [Next]_vars
  PROVE  NoOrphan'
<1> DEFINE Tracked == \A x : InRegistry(x) => InRegistry(x)'
           Others(t) == \A u \in Threads \ {t} : call'[u] = call[u]
<1>0. /\ call \in [Threads -> Calls]
      /\ \A u \in Threads : call[u] \in Calls /\ CallShape(call[u])
      /\ runtime \in [Keys -> Snapshots \cup {NoSession}]
      /\ relay \in Tables /\ lost \subseteq Ids
  BY DEF RegistryTypeOK, Shape
<1>t. UNCHANGED runtime => Tracked  BY DEF InRegistry
<1>s. ASSUME NEW k \in Keys, NEW s \in SessionStates, NEW w \in Causes \cup {NoCause},
             UpdateState(k, s, w)
      PROVE  Tracked
  BY <1>s, UpdateStateShape DEF InRegistry
<1>o. ASSUME NEW t \in Threads, NEW c, call' = [call EXCEPT ![t] = c]
      PROVE  Others(t) /\ call'[t] = c
  BY <1>o, <1>0
<1>r. ASSUME NEW t \in Threads, Return(t)
      PROVE  Others(t)
  BY <1>r, <1>o DEF Return
\* Neither the registry nor the thread loses an identifier that stays open.
<1>q. ASSUME NEW t \in Threads, Others(t), Tracked, lost \subseteq lost',
             OpenIds(relay') \subseteq OpenIds(relay),
             \A x \in OpenIds(relay') \cap Held(call[t]) : Accounted(x)'
      PROVE  NoOrphan'
  BY <1>q, StillAccounted DEF Accounted
<1> HIDE DEF Tracked, Others
<1>1. ASSUME NEW t \in Threads, NEW k \in Keys, NEW s \in CallerStates,
             NEW w \in Causes \cup {NoCause}, SetState(t, k, s, w)
      PROVE  NoOrphan'
  <2>1. Tracked  BY <1>1, <1>s, TransportAssumption DEF SetState
  <2>2. Others(t)  BY <1>1 DEF SetState, Others
  <2>3. \A x \in Held(call[t]) : Accounted(x)'
    BY <1>1 DEF SetState, Accounted, InHands
  <2> QED  BY <2>1, <2>2, <2>3, <1>1, <1>q DEF SetState
<1>2. ASSUME NEW t \in Threads, NEW k \in Keys, Suppress(t, k) \/ Unsuppress(t, k)
      PROVE  NoOrphan'
  BY <1>2 DEF Suppress, Unsuppress, NoOrphan, Referenced
<1>3. ASSUME NEW t \in Threads, NEW k \in Keys, NEW r \in Routes, BeginConnect(t, k, r)
      PROVE  NoOrphan'
  <2>1. Others(t)  BY <1>3, <1>o DEF BeginConnect, Begin
  <2>2. Held(call[t]) = {}  BY <1>3 DEF BeginConnect, At, Held
  <2> QED  BY <2>1, <2>2, <1>3, <1>t, <1>q DEF BeginConnect
<1>4. ASSUME NEW t \in Threads, NEW k \in Keys, NEW r \in Routes, BeginMigrate(t, k, r)
      PROVE  NoOrphan'
  <2>1. Others(t)  BY <1>4, <1>o DEF BeginMigrate, Begin
  <2>2. Held(call[t]) = {}  BY <1>4 DEF BeginMigrate, At, Held
  <2>3. Tracked  BY <1>4, <1>s DEF BeginMigrate, SessionStates
  <2> QED  BY <2>1, <2>2, <2>3, <1>4, <1>q DEF BeginMigrate
<1>5. ASSUME NEW t \in Threads, NEW k \in Keys, NEW w \in Causes \cup {NoCause},
             BeginClose(t, k, w)
      PROVE  NoOrphan'
  <2>1. Others(t)  BY <1>5, <1>o DEF BeginClose, Begin
  <2>2. Held(call[t]) = {}  BY <1>5 DEF BeginClose, At, Held
  <2> QED  BY <2>1, <2>2, <1>5, <1>t, <1>q DEF BeginClose
<1>6. ASSUME NEW t \in Threads, OpenDirect(t)
      PROVE  NoOrphan'
  <2>1. Others(t)  BY <1>6, <1>o DEF OpenDirect, Goto
  <2>2. Held(call[t]) = {}  BY <1>6 DEF OpenDirect, At, Held
  <2> QED  BY <2>1, <2>2, <1>6, <1>t, <1>q DEF OpenDirect
<1>7. ASSUME NEW t \in Threads, NEW id \in Ids, OpenRelay(t, id)
      PROVE  NoOrphan'
  <2> DEFINE c == [call[t] EXCEPT !.tsid = id, !.pc = AfterOpen(call[t].op)]
  <2>1. call' = [call EXCEPT ![t] = c]  BY <1>7, <1>0 DEF OpenRelay, Goto, Calls
  <2>2. OpenIds(relay') \subseteq OpenIds(relay) \cup {id}
    BY <1>7, <1>0, OpenAcceptedEffect DEF OpenRelay, Calls
  <2>3. id \in Held(c)
    BY <1>0, TransportAssumption DEF Held, AfterOpen, Calls
  <2>4. Others(t) /\ call'[t] = c  BY <2>1, <1>o
  <2>5. Accounted(id)'  BY <2>3, <2>4 DEF Accounted, InHands
  <2>6. Held(call[t]) = {}  BY <1>7 DEF OpenRelay, At, Held
  <2>7. Tracked /\ lost \subseteq lost'  BY <1>7, <1>t DEF OpenRelay
  <2> HIDE DEF c
  <2> QED  BY <2>2, <2>4, <2>5, <2>6, <2>7, StillAccounted DEF Tracked, Others, Accounted
<1>8. ASSUME NEW t \in Threads, NEW id \in Ids, OpenRelayAnswerLost(t, id)
      PROVE  NoOrphan'
  <2>1. OpenIds(relay') \subseteq OpenIds(relay) \cup {id}
    BY <1>8, <1>0, OpenAcceptedEffect DEF OpenRelayAnswerLost, Calls
  <2>2. Accounted(id)' /\ lost \subseteq lost'
    BY <1>8 DEF OpenRelayAnswerLost, Accounted
  <2>3. Held(call[t]) = {}  BY <1>8 DEF OpenRelayAnswerLost, At, Held
  <2>4. Tracked /\ Others(t)  BY <1>8, <1>t, <1>r DEF OpenRelayAnswerLost
  <2> QED  BY <2>1, <2>2, <2>3, <2>4, StillAccounted DEF Tracked, Others, Accounted
<1>9. ASSUME NEW t \in Threads, OpenRelayFails(t) \/ OpenInvalid(t)
      PROVE  NoOrphan'
  <2>1. Held(call[t]) = {}  BY <1>9 DEF OpenRelayFails, OpenInvalid, At, Held
  <2> QED  BY <2>1, <1>9, <1>t, <1>r, <1>q DEF OpenRelayFails, OpenFails, OpenInvalid
<1>10. ASSUME NEW t \in Threads, Insert(t)
       PROVE  NoOrphan'
  <2> DEFINE k == call[t].key
             new == NewSnapshot(call[t])
             c == [call[t] EXCEPT !.snap = runtime[k], !.pc = "closePrev"]
  <2>1. k \in Keys  BY <1>0 DEF Calls
  <2>2. runtime' = [runtime EXCEPT ![k] = new]  BY <1>10 DEF Insert
  <2>3. /\ runtime'[k] = new
        /\ \A j \in Keys \ {k} : runtime'[j] = runtime[j]
    <3> HIDE DEF k, new
    <3> QED  BY <2>1, <2>2, <1>0
  <2>4. new # NoSession
    <3>1. new \in Snapshots
      BY <1>0, <1>10 DEF Insert, At, CallShape, NewSnapshot, Snapshots, SessionStates, Calls
    <3> QED  BY <3>1, NoSnapshotAssumption
  \* What the thread held is the path of the session it has registered.
  <2>5. ASSUME NEW x \in Held(call[t]) PROVE Accounted(x)'
    <3>1. x = call[t].tsid /\ call[t].tsid # NoId
      BY <2>5, <1>10 DEF Insert, At, Held
    <3>2. call[t].route = "relay"
      BY <3>1, <1>0, <1>10 DEF Insert, At, CallShape, Calls
    <3>3. new.kind = "relay" /\ new.tsid = x
      BY <3>1, <3>2 DEF NewSnapshot
    <3>4. IsRelay(new)  BY <3>3, <2>4 DEF IsRelay
    <3> HIDE DEF k, new
    <3> QED  BY <2>1, <2>3, <3>3, <3>4 DEF Accounted, InRegistry
  \* What was in the registry is there still, or the thread holds it now.
  <2>6. ASSUME NEW x, InRegistry(x) PROVE Accounted(x)'
    <3>1. PICK j \in Keys : IsRelay(runtime[j]) /\ runtime[j].tsid = x
      BY <2>6 DEF InRegistry
    <3>2. CASE j # k
      <4> HIDE DEF k, new
      <4> QED  BY <3>1, <3>2, <2>3 DEF Accounted, InRegistry
    <3>3. CASE j = k /\ Replaces(runtime[k], new)
      <4>1. call' = [call EXCEPT ![t] = c]
        BY <1>10, <3>3, <1>0 DEF Insert, Goto, Calls
      <4>2. call'[t] = c  BY <4>1, <1>o
      <4>3. x \in Held(c)  BY <3>1, <3>3, <1>0 DEF Held, Calls
      <4> HIDE DEF c
      <4> QED  BY <4>2, <4>3 DEF Accounted, InHands
    <3>4. CASE j = k /\ ~ Replaces(runtime[k], new)
      <4>1. new.tsid = x /\ new.kind = "relay"
        <5> HIDE DEF new, k
        <5> QED  BY <3>1, <3>4 DEF Replaces
      <4>2. IsRelay(new)  BY <4>1, <2>4 DEF IsRelay
      <4> HIDE DEF new, k
      <4> QED  BY <4>1, <4>2, <2>1, <2>3 DEF Accounted, InRegistry
    <3> QED  BY <3>2, <3>3, <3>4
  <2>7. Others(t)  BY <1>10, <1>o, <1>r DEF Insert, Goto
  <2>8. relay' = relay /\ lost' = lost  BY <1>10 DEF Insert
  <2> QED  BY <2>5, <2>6, <2>7, <2>8, StillAccounted DEF Others
<1>11. ASSUME NEW t \in Threads, ClosePrev(t)
       PROVE  NoOrphan'
  <2>1. call[t].snap.tsid \in Ids
    BY <1>0, <1>11 DEF ClosePrev, At, CallShape, WellFormed
  <2>2. Held(call[t]) = {call[t].snap.tsid}  BY <1>11 DEF ClosePrev, At, Held
  <2>3. Tracked /\ Others(t) /\ UNCHANGED lost  BY <1>11, <1>t, <1>r DEF ClosePrev
  <2>4. OpenIds(relay') \subseteq OpenIds(relay) \ {call[t].snap.tsid}
    BY <2>1, <1>11, <1>0, CloseEffect DEF ClosePrev
  <2> QED  BY <2>2, <2>3, <2>4, <1>q
<1>11a. ASSUME NEW t \in Threads, ClosePrevFails(t)
        PROVE  NoOrphan'
  <2>1. call[t].snap.tsid \in Ids
    BY <1>0, <1>11a DEF ClosePrevFails, At, CallShape, WellFormed
  <2>2. Held(call[t]) \subseteq lost' /\ lost \subseteq lost'
    BY <1>11a DEF ClosePrevFails, At, Held
  <2>3. Tracked /\ Others(t)  BY <1>11a, <1>t, <1>r DEF ClosePrevFails
  <2>4. OpenIds(relay') \subseteq OpenIds(relay)
    BY <2>1, <1>11a, <1>0, CloseFailsEffect DEF ClosePrevFails
  <2> QED  BY <2>2, <2>3, <2>4, <1>q DEF Accounted
<1>12. ASSUME NEW t \in Threads, ReadExisting(t) \/ NotOwned(t)
       PROVE  NoOrphan'
  <2>1. Others(t)  BY <1>12, <1>o, <1>r DEF ReadExisting, NotOwned, Goto
  <2>2. Held(call[t]) = {}  BY <1>12 DEF ReadExisting, NotOwned, At, Held
  <2> QED  BY <2>1, <2>2, <1>12, <1>t, <1>q DEF ReadExisting, NotOwned
<1>13. ASSUME NEW t \in Threads, CloseOld(t)
       PROVE  NoOrphan'
  <2> DEFINE c == [call[t] EXCEPT !.pc = "insert"]
  <2>1. WellFormed(call[t].snap)  BY <1>0, <1>13 DEF CallShape, CloseOld, At
  <2>2. Tracked /\ UNCHANGED lost  BY <1>13, <1>t DEF CloseOld
  <2>3. Others(t) /\ call'[t] = c  BY <1>13, <1>o DEF CloseOld, Goto
  <2>4. Held(call[t]) = Held(c)  BY <1>0, <1>13 DEF CloseOld, At, Held, Calls
  <2>5. \A x \in Held(call[t]) : Accounted(x)'
    <3> HIDE DEF c
    <3> QED  BY <2>3, <2>4 DEF Accounted, InHands
  <2>6. OpenIds(relay') \subseteq OpenIds(relay)
    BY <2>1, <1>13, <1>0, CloseEffect DEF CloseOld, Replaces, IsRelay, WellFormed
  <2> QED  BY <2>2, <2>3, <2>5, <2>6, <1>q
<1>13a. ASSUME NEW t \in Threads, CloseOldFails(t)
        PROVE  NoOrphan'
  <2>1. WellFormed(call[t].snap)  BY <1>0, <1>13a DEF CallShape, CloseOldFails, At
  <2>2. call[t].snap.tsid \in Ids
    BY <2>1, <1>13a DEF CloseOldFails, Replaces, IsRelay, WellFormed
  <2>3. OpenIds(relay') \subseteq OpenIds(relay)
    BY <2>2, <1>13a, <1>0, CloseFailsEffect DEF CloseOldFails
  <2>4. Held(call[t]) \subseteq lost' /\ lost \subseteq lost'  BY <1>13a DEF CloseOldFails
  <2>5. Tracked /\ Others(t)  BY <1>13a, <1>t, <1>r DEF CloseOldFails
  <2> QED  BY <2>3, <2>4, <2>5, <1>q DEF Accounted
<1>14. ASSUME NEW t \in Threads, MarkClosing(t)
       PROVE  NoOrphan'
  <2>1. call[t].key \in Keys /\ call[t].cause \in Causes \cup {NoCause}  BY <1>0 DEF Calls
  <2>2. Tracked  BY <2>1, <1>14, <1>s DEF MarkClosing, SessionStates
  <2>3. Others(t)  BY <1>14, <1>o DEF MarkClosing, Goto
  <2>4. Held(call[t]) = {}  BY <1>14 DEF MarkClosing, At, Held
  <2> QED  BY <2>2, <2>3, <2>4, <1>14, <1>q DEF MarkClosing
<1>15. ASSUME NEW t \in Threads, Remove(t)
       PROVE  NoOrphan'
  <2> DEFINE k == call[t].key
             pc == IF IsRelay(runtime[k]) THEN "closeRemoved" ELSE "record"
             c == [call[t] EXCEPT !.snap = runtime[k], !.pc = pc]
  <2>1. k \in Keys  BY <1>0 DEF Calls
  <2>2. Held(call[t]) = {}  BY <1>15 DEF Remove, At, Held
  <2>3. relay' = relay /\ lost' = lost  BY <1>15 DEF Remove
  <2>4. CASE runtime[k] = NoSession
    BY <2>2, <2>3, <2>4, <1>r, <1>t, <1>q, <1>15 DEF Remove
  <2>5. CASE runtime[k] # NoSession
    <3>1. call' = [call EXCEPT ![t] = c]  BY <1>15, <2>5, <1>0 DEF Remove, Goto, Calls
    <3>2. Others(t) /\ call'[t] = c  BY <3>1, <1>o
    <3>3. runtime' = [runtime EXCEPT ![k] = NoSession]  BY <1>15, <2>5 DEF Remove
    <3>4. ASSUME NEW x, InRegistry(x) PROVE Accounted(x)'
      <4>1. PICK j \in Keys : IsRelay(runtime[j]) /\ runtime[j].tsid = x
        BY <3>4 DEF InRegistry
      <4>2. CASE j # k
        <5>1. runtime'[j] = runtime[j]  BY <3>3, <4>2, <1>0
        <5> QED  BY <4>1, <5>1 DEF Accounted, InRegistry
      <4>3. CASE j = k
        <5>1. x \in Held(c)  BY <4>1, <4>3, <1>0 DEF Held, Calls
        <5> HIDE DEF c
        <5> QED  BY <5>1, <3>2 DEF Accounted, InHands
      <4> QED  BY <4>2, <4>3
    <3> QED  BY <3>2, <3>4, <2>2, <2>3, StillAccounted DEF Others
  <2> QED  BY <2>4, <2>5
<1>16. ASSUME NEW t \in Threads, CloseRemoved(t)
       PROVE  NoOrphan'
  <2>1. call[t].snap.tsid \in Ids
    BY <1>0, <1>16 DEF CloseRemoved, At, CallShape, WellFormed
  <2>2. Held(call[t]) = {call[t].snap.tsid}  BY <1>16 DEF CloseRemoved, At, Held
  <2>3. Tracked /\ Others(t) /\ UNCHANGED lost
    BY <1>16, <1>t, <1>o DEF CloseRemoved, Goto
  <2>4. OpenIds(relay') \subseteq OpenIds(relay) \ {call[t].snap.tsid}
    BY <2>1, <1>16, <1>0, CloseEffect DEF CloseRemoved
  <2> QED  BY <2>2, <2>3, <2>4, <1>q
<1>16a. ASSUME NEW t \in Threads, CloseRemovedFails(t)
        PROVE  NoOrphan'
  <2>1. call[t].snap.tsid \in Ids
    BY <1>0, <1>16a DEF CloseRemovedFails, At, CallShape, WellFormed
  <2>2. Held(call[t]) \subseteq lost' /\ lost \subseteq lost'
    BY <1>16a DEF CloseRemovedFails, At, Held
  <2>3. Tracked /\ Others(t)  BY <1>16a, <1>t, <1>r DEF CloseRemovedFails
  <2>4. OpenIds(relay') \subseteq OpenIds(relay)
    BY <2>1, <1>16a, <1>0, CloseFailsEffect DEF CloseRemovedFails
  <2> QED  BY <2>2, <2>3, <2>4, <1>q DEF Accounted
<1>17. ASSUME NEW t \in Threads, Record(t)
       PROVE  NoOrphan'
  <2>1. Held(call[t]) = {}  BY <1>17 DEF Record, At, Held
  <2> QED  BY <2>1, <1>17, <1>t, <1>r, <1>q DEF Record
<1>18. CASE RelayRestart
  <2>1. OpenIds(relay') = {}
    BY <1>18 DEF RelayRestart, EmptyTable, OpenIds, HasStatus
  <2> QED  BY <2>1 DEF NoOrphan
<1>19. CASE UNCHANGED vars
  BY <1>19 DEF vars, NoOrphan, Referenced
<1> QED
  BY <1>1, <1>2, <1>3, <1>4, <1>5, <1>6, <1>7, <1>8, <1>9, <1>10, <1>11, <1>11a, <1>12,
     <1>13, <1>13a, <1>14, <1>15, <1>16, <1>16a, <1>17, <1>18, <1>19
     DEF Next, CallerStep, AdapterStep, Proceeds, Fails

-----------------------------------------------------------------------------
(* Who refers to a transport session at the relay: a registered session, a *)
(* thread that brings it to the registry, one that closes it because it    *)
(* was replaced or removed, a migration that will close it, and a          *)
(* migration that has closed it and registers its replacement next.        *)
Registers(k, x) == IsRelay(runtime[k]) /\ runtime[k].tsid = x

Brings(t, x) == call[t].pc \in {"closeOld", "insert"} /\ call[t].tsid = x

Drops(t, x) == call[t].pc \in {"closePrev", "closeRemoved"} /\ call[t].snap.tsid = x

Moves(t, x) ==
  call[t].pc \in {"open", "closeOld"} /\ call[t].op = "migrate" /\ call[t].snap.tsid = x

Supersedes(t, k, x) ==
  At(t, "insert") /\ call[t].op = "migrate" /\ call[t].key = k /\ call[t].snap.tsid = x

InUse(x) ==
  \/ \E k \in Keys : Registers(k, x)
  \/ \E t \in Threads : Brings(t, x) \/ Drops(t, x) \/ Moves(t, x)

(* The life of a transport session that no failed request and no restart   *)
(* of the relay has touched: the relay knows it; it is the path of one     *)
(* session at most; the thread that opened it is the only one to know of   *)
(* it until it registers it; whoever closes it has made sure that it is    *)
(* not registered, or is the migration that replaces it.                   *)
OneOwner(x) ==
  /\ InUse(x) => relay[x] # NoSession /\ x \notin AttemptIds
  /\ \A k, j \in Keys : Registers(k, x) /\ Registers(j, x) => k = j
  /\ \A t \in Threads : Brings(t, x) =>
       /\ x \in OpenIds(relay)
       /\ \A k \in Keys : ~ Registers(k, x)
       /\ \A u \in Threads : (Brings(u, x) => u = t) /\ ~ Drops(u, x) /\ ~ Moves(u, x)
  /\ \A t \in Threads, k \in Keys : Drops(t, x) => ~ Registers(k, x)
  /\ \A t \in Threads, k \in Keys : Moves(t, x) /\ Registers(k, x) => k = call[t].key
  /\ \A k \in Keys : Registers(k, x) =>
       x \in OpenIds(relay) \/ \E t \in Threads : Supersedes(t, k, x)

Owned == \A x \in Ids \ lost : OneOwner(x)

(* A step of one thread that registers nothing keeps the ownership of an   *)
(* identifier if it takes on a part towards it only as its part allows,    *)
(* and closes it only when nobody relies on it.                            *)
LEMMA OwnerKept ==
  ASSUME NEW x \in Ids, OneOwner(x),
         NEW t \in Threads, \A u \in Threads \ {t} : call'[u] = call[u],
         \A k \in Keys : Registers(k, x)' => Registers(k, x),
         relay[x] # NoSession => relay'[x] # NoSession,
         x \in OpenIds(relay) /\ x \notin OpenIds(relay') =>
           /\ \A u \in Threads : ~ Brings(u, x)
           /\ \A k \in Keys : Registers(k, x)' => Supersedes(t, k, x)',
         Brings(t, x)' => Brings(t, x),
         Drops(t, x)' => \/ Drops(t, x)
                         \/ InUse(x) /\ (\A u \in Threads : ~ Brings(u, x)')
                            /\ \A k \in Keys : ~ Registers(k, x)',
         Moves(t, x)' => \/ Moves(t, x) /\ call'[t].key = call[t].key
                         \/ call'[t].key \in Keys /\ Registers(call'[t].key, x),
         \A k \in Keys : Supersedes(t, k, x) => Supersedes(t, k, x)' \/ ~ Registers(k, x)'
  PROVE  OneOwner(x)'
<1>1. \A u \in Threads \ {t} :
        /\ Brings(u, x)' <=> Brings(u, x)
        /\ Drops(u, x)' <=> Drops(u, x)
        /\ Moves(u, x)' <=> Moves(u, x)
        /\ \A k \in Keys : Supersedes(u, k, x)' <=> Supersedes(u, k, x)
        /\ call'[u].key = call[u].key
  BY DEF Brings, Drops, Moves, Supersedes, At
<1>2. InUse(x)' => InUse(x)
  BY <1>1 DEF InUse
<1>3. (InUse(x) => relay[x] # NoSession /\ x \notin AttemptIds)'
  BY <1>2 DEF OneOwner
<1>4. \A k, j \in Keys : Registers(k, x)' /\ Registers(j, x)' => k = j
  BY DEF OneOwner
<1>5. \A u \in Threads : Brings(u, x)' => Brings(u, x)
  BY <1>1
<1>6. ASSUME NEW u \in Threads, Brings(u, x)'
      PROVE  /\ x \in OpenIds(relay')
             /\ \A k \in Keys : ~ Registers(k, x)'
             /\ \A v \in Threads : (Brings(v, x)' => v = u) /\ ~ Drops(v, x)' /\ ~ Moves(v, x)'
  <2>1. /\ x \in OpenIds(relay)
        /\ \A k \in Keys : ~ Registers(k, x)
        /\ \A v \in Threads : (Brings(v, x) => v = u) /\ ~ Drops(v, x) /\ ~ Moves(v, x)
    BY <1>5, <1>6 DEF OneOwner
  <2> QED  BY <1>1, <1>5, <1>6, <2>1
<1>7. ASSUME NEW u \in Threads, NEW k \in Keys, Drops(u, x)' PROVE ~ Registers(k, x)'
  BY <1>1, <1>7 DEF OneOwner
<1>8. ASSUME NEW u \in Threads, NEW k \in Keys, Moves(u, x)', Registers(k, x)'
      PROVE  k = call'[u].key
  BY <1>1, <1>8 DEF OneOwner
<1>9. ASSUME NEW k \in Keys, Registers(k, x)'
      PROVE  x \in OpenIds(relay') \/ \E u \in Threads : Supersedes(u, k, x)'
  <2>1. x \in OpenIds(relay) \/ \E u \in Threads : Supersedes(u, k, x)
    BY <1>9 DEF OneOwner
  <2> QED  BY <1>1, <1>9, <2>1
<1> QED  BY <1>3, <1>4, <1>6, <1>7, <1>8, <1>9 DEF OneOwner

(* What the requests to the relay do to an identifier.                     *)
LEMMA OpenElsewhere ==
  ASSUME NEW k \in Keys, NEW id \in Ids, NEW x \in Ids \ AttemptIds, relay \in Tables,
         OpenAccepted(k, id)
  PROVE  /\ x # id => relay'[x] = relay[x]
         /\ relay[id] = NoSession
         /\ id \in OpenIds(relay')
<1>1. PICK a \in AttemptIds : /\ OpenOutcome(relay, RelayRequest(k, a), id) = "Accepted"
                              /\ relay' = OpenSession(relay, RelayRequest(k, a), id)
  BY DEF OpenAccepted
<1>2. relay[id] = NoSession  BY <1>1 DEF OpenOutcome
<1>3. RelayRequest(k, a) \in Requests /\ RelayRequest(k, a).attempt = a
  BY RelayRequestType DEF RelayRequest
<1> QED  BY <1>1, <1>2, <1>3, OpenSessionElsewhere

LEMMA CloseElsewhere ==
  ASSUME NEW id \in Ids, NEW x \in Ids, relay \in Tables, CloseAccepted(id) \/ CloseFails(id)
  PROVE  /\ x # id => relay'[x] = relay[x]
         /\ relay[x] # NoSession => relay'[x] # NoSession
BY CloseSessionElsewhere DEF CloseAccepted, CloseFails

(* One step per action: which part it takes on towards an identifier.      *)
LEMMA OwnedStep ==
  ASSUME RegistryTypeOK, Shape, Owned, [Next]_vars
  PROVE  Owned'
<1> SUFFICES ASSUME NEW x \in Ids, x \notin lost' PROVE OneOwner(x)'
  BY DEF Owned
<1> DEFINE Others(t) == \A u \in Threads \ {t} : call'[u] = call[u]
           NoneNew == \A k \in Keys : Registers(k, x)' => Registers(k, x)
<1>0. /\ call \in [Threads -> Calls]
      /\ \A u \in Threads : call[u] \in Calls /\ CallShape(call[u])
      /\ runtime \in [Keys -> Snapshots \cup {NoSession}]
      /\ relay \in Tables /\ lost \subseteq Ids
      /\ x # NoId
  BY TransportAssumption DEF RegistryTypeOK, Shape
<1>x. x \notin lost => OneOwner(x)  BY DEF Owned
<1>t. UNCHANGED runtime => NoneNew  BY DEF Registers
<1>s. ASSUME NEW k \in Keys, NEW s \in SessionStates, NEW w \in Causes \cup {NoCause},
             UpdateState(k, s, w)
      PROVE  NoneNew
  BY <1>s, UpdateStateShape DEF Registers
<1>o. ASSUME NEW t \in Threads, NEW c, call' = [call EXCEPT ![t] = c]
      PROVE  Others(t) /\ call'[t] = c
  BY <1>o, <1>0
<1>c. relay'[x] = relay[x] => (x \in OpenIds(relay) <=> x \in OpenIds(relay'))
  BY DEF OpenIds, HasStatus
\* The identifier stays as it is at the relay, the thread takes on no part.
<1>q. ASSUME NEW t \in Threads, NEW c, call' = [call EXCEPT ![t] = c], NoneNew, x \notin lost,
             relay'[x] = relay[x],
             c.pc \in {"closeOld", "insert"} /\ c.tsid = x => Brings(t, x),
             c.pc \notin {"closePrev", "closeRemoved"},
             c.pc \in {"open", "closeOld"} /\ c.op = "migrate" /\ c.snap.tsid = x
               => Moves(t, x) /\ c.key = call[t].key,
             ~ At(t, "insert")
      PROVE  OneOwner(x)'
  <2>1. Others(t) /\ call'[t] = c  BY <1>q, <1>o
  <2>2. /\ Brings(t, x)' => Brings(t, x)
        /\ ~ Drops(t, x)'
        /\ Moves(t, x)' => Moves(t, x) /\ call'[t].key = call[t].key
    BY <2>1, <1>q DEF Brings, Drops, Moves
  <2>3. \A k \in Keys : ~ Supersedes(t, k, x)  BY <1>q DEF Supersedes
  <2> QED  BY <2>1, <2>2, <2>3, <1>q, <1>c, <1>x, OwnerKept
<1>r. ASSUME NEW t \in Threads, Return(t), NoneNew, x \notin lost, relay'[x] = relay[x],
             ~ At(t, "insert")
      PROVE  OneOwner(x)'
  BY <1>r, <1>q DEF Return, Idle
<1>n. ASSUME NEW t \in Threads, UNCHANGED call, NoneNew, x \notin lost, UNCHANGED relay
      PROVE  OneOwner(x)'
  <2>1. /\ Brings(t, x)' <=> Brings(t, x)
        /\ Drops(t, x)' <=> Drops(t, x)
        /\ Moves(t, x)' <=> Moves(t, x)
        /\ \A k \in Keys : Supersedes(t, k, x)' <=> Supersedes(t, k, x)
    BY <1>n DEF Brings, Drops, Moves, Supersedes, At
  <2> QED  BY <2>1, <1>n, <1>x, OwnerKept
<1> HIDE DEF NoneNew
<1>1. ASSUME NEW t \in Threads, NEW k \in Keys, NEW s \in CallerStates,
             NEW w \in Causes \cup {NoCause}, SetState(t, k, s, w)
      PROVE  OneOwner(x)'
  <2>1. NoneNew  BY <1>1, <1>s, TransportAssumption DEF SetState
  <2> QED  BY <2>1, <1>1, <1>n DEF SetState
<1>2. ASSUME NEW t \in Threads, NEW k \in Keys, Suppress(t, k) \/ Unsuppress(t, k)
      PROVE  OneOwner(x)'
  BY <1>2, <1>t, <1>n DEF Suppress, Unsuppress
<1>3. ASSUME NEW t \in Threads, NEW k \in Keys, NEW r \in Routes, BeginConnect(t, k, r)
      PROVE  OneOwner(x)'
  BY <1>3, <1>t, <1>q DEF BeginConnect, Begin, At
<1>4. ASSUME NEW t \in Threads, NEW k \in Keys, NEW r \in Routes, BeginMigrate(t, k, r)
      PROVE  OneOwner(x)'
  <2>1. NoneNew  BY <1>4, <1>s DEF BeginMigrate, SessionStates
  <2> QED  BY <2>1, <1>4, <1>q DEF BeginMigrate, Begin, At
<1>5. ASSUME NEW t \in Threads, NEW k \in Keys, NEW w \in Causes \cup {NoCause},
             BeginClose(t, k, w)
      PROVE  OneOwner(x)'
  BY <1>5, <1>t, <1>q DEF BeginClose, Begin, At
<1>6. ASSUME NEW t \in Threads, OpenDirect(t)
      PROVE  OneOwner(x)'
  <2> DEFINE c == [call[t] EXCEPT !.pc = AfterOpen(call[t].op)]
  <2>1. call' = [call EXCEPT ![t] = c]  BY <1>6 DEF OpenDirect, Goto
  <2>2. /\ c.pc \in {"closeOld", "insert"} /\ c.tsid = NoId
        /\ c.op = call[t].op /\ c.snap = call[t].snap /\ c.key = call[t].key
    BY <1>0, <1>6 DEF OpenDirect, At, CallShape, Calls, AfterOpen
  <2>3. NoneNew /\ At(t, "open") /\ relay' = relay /\ lost' = lost
    BY <1>6, <1>t DEF OpenDirect
  <2> HIDE DEF c
  <2> QED  BY <2>1, <2>2, <2>3, <1>0, <1>q DEF At, Moves
<1>7. ASSUME NEW t \in Threads, NEW id \in Ids \ AttemptIds, OpenRelay(t, id)
      PROVE  OneOwner(x)'
  <2> DEFINE c == [call[t] EXCEPT !.tsid = id, !.pc = AfterOpen(call[t].op)]
  <2>1. call' = [call EXCEPT ![t] = c]  BY <1>7, <1>0 DEF OpenRelay, Goto, Calls
  <2>2. /\ c.pc \in {"closeOld", "insert"} /\ c.tsid = id
        /\ c.op = call[t].op /\ c.snap = call[t].snap /\ c.key = call[t].key
    BY <1>0, <1>7 DEF OpenRelay, At, Calls, AfterOpen
  <2>3. NoneNew /\ At(t, "open") /\ lost' = lost
    BY <1>7, <1>t DEF OpenRelay
  <2>4. call[t].key \in Keys /\ OpenAccepted(call[t].key, id)  BY <1>7, <1>0 DEF OpenRelay, Calls
  <2> HIDE DEF c
  \* The relay draws an identifier that it does not know.
  <2>5. CASE x = id
    <3>1. relay[x] = NoSession /\ x \in OpenIds(relay')
      BY <2>4, <2>5, <1>0, OpenElsewhere
    <3>2. relay'[x] # NoSession  BY <3>1 DEF OpenIds, HasStatus
    <3>3. OneOwner(x) /\ ~ InUse(x)  BY <3>1, <2>3, <1>x DEF OneOwner
    <3>4. /\ \A k \in Keys : ~ Registers(k, x) /\ ~ Registers(k, x)'
          /\ \A u \in Threads : ~ Brings(u, x) /\ ~ Drops(u, x) /\ ~ Moves(u, x)
      BY <3>3, <2>3 DEF InUse, NoneNew
    <3>5. Others(t) /\ call'[t] = c  BY <2>1, <1>o
    <3>6. /\ \A u \in Threads : ~ Drops(u, x)'
          /\ \A u \in Threads \ {t} : ~ Brings(u, x)' /\ ~ Moves(u, x)'
          /\ ~ Moves(t, x)'
      BY <3>4, <3>5, <2>2, <2>3 DEF Brings, Drops, Moves, At
    <3> QED  BY <3>1, <3>2, <3>4, <3>6, <2>5, <1>7 DEF OneOwner
  <2>6. CASE x # id /\ x \notin AttemptIds
    <3>1. relay'[x] = relay[x]  BY <2>4, <2>6, <1>0, OpenElsewhere
    <3> QED  BY <3>1, <2>1, <2>2, <2>3, <2>6, <1>q DEF At, Moves
  <2>7. CASE x \in AttemptIds
    <3>1. OneOwner(x) /\ ~ InUse(x)  BY <2>3, <2>7, <1>x DEF OneOwner
    <3>2. /\ \A k \in Keys : ~ Registers(k, x)'
          /\ \A u \in Threads : ~ Brings(u, x) /\ ~ Drops(u, x) /\ ~ Moves(u, x)
      BY <3>1, <2>3 DEF InUse, NoneNew
    <3>3. Others(t) /\ call'[t] = c  BY <2>1, <1>o
    <3>4. \A u \in Threads : ~ Brings(u, x)' /\ ~ Drops(u, x)' /\ ~ Moves(u, x)'
      BY <3>2, <3>3, <2>2, <2>3, <2>7, <1>7 DEF Brings, Drops, Moves, At
    <3> QED  BY <3>2, <3>4 DEF OneOwner, InUse
  <2> QED  BY <2>5, <2>6, <2>7
<1>8. ASSUME NEW t \in Threads, NEW id \in Ids \ AttemptIds, OpenRelayAnswerLost(t, id)
      PROVE  OneOwner(x)'
  <2>1. /\ call' = [call EXCEPT ![t] = Idle] /\ NoneNew /\ ~ At(t, "insert")
        /\ x # id /\ x \notin lost /\ Return(t)
    BY <1>8, <1>t DEF OpenRelayAnswerLost, Return, At
  <2>2. call[t].key \in Keys /\ OpenAccepted(call[t].key, id)
    BY <1>8, <1>0 DEF OpenRelayAnswerLost, Calls
  <2>3. CASE x \notin AttemptIds
    <3>1. relay'[x] = relay[x]  BY <2>1, <2>2, <2>3, <1>0, OpenElsewhere
    <3> QED  BY <3>1, <2>1, <1>r
  <2>4. CASE x \in AttemptIds
    <3>1. OneOwner(x) /\ ~ InUse(x)  BY <2>1, <2>4, <1>x DEF OneOwner
    <3>2. /\ \A k \in Keys : ~ Registers(k, x)'
          /\ \A u \in Threads : ~ Brings(u, x) /\ ~ Drops(u, x) /\ ~ Moves(u, x)
      BY <3>1, <2>1 DEF InUse, NoneNew
    <3>3. Others(t) /\ call'[t] = Idle  BY <2>1, <1>o
    <3>4. \A u \in Threads : ~ Brings(u, x)' /\ ~ Drops(u, x)' /\ ~ Moves(u, x)'
      BY <3>2, <3>3 DEF Brings, Drops, Moves, Idle
    <3> QED  BY <3>2, <3>4 DEF OneOwner, InUse
  <2> QED  BY <2>3, <2>4
<1>9. ASSUME NEW t \in Threads, OpenRelayFails(t) \/ OpenInvalid(t) \/ NotOwned(t) \/ Record(t)
      PROVE  OneOwner(x)'
  BY <1>9, <1>t, <1>r DEF OpenRelayFails, OpenFails, OpenInvalid, NotOwned, Record, At
<1>10. ASSUME NEW t \in Threads, Insert(t)
       PROVE  OneOwner(x)'
  <2>1. PICK k \in Keys : k = call[t].key  BY <1>0 DEF Calls
  <2> DEFINE new == NewSnapshot(call[t])
             c == [call[t] EXCEPT !.snap = runtime[k], !.pc = "closePrev"]
  <2>2. runtime' = [runtime EXCEPT ![k] = new]  BY <1>10, <2>1 DEF Insert
  <2>3. /\ runtime'[k] = new
        /\ \A j \in Keys \ {k} : runtime'[j] = runtime[j]
    <3> HIDE DEF new
    <3> QED  BY <2>1, <2>2, <1>0
  <2>4. x \notin lost /\ relay' = relay /\ At(t, "insert") /\ OneOwner(x)
    BY <1>10, <1>x DEF Insert
  <2>5. IsRelay(new) /\ new.tsid = x => Brings(t, x)
    BY <2>4 DEF IsRelay, NewSnapshot, Brings, At
  <2>6. /\ Registers(k, x)' => Brings(t, x)
        /\ \A j \in Keys \ {k} : Registers(j, x)' <=> Registers(j, x)
    <3> HIDE DEF new
    <3> QED  BY <2>3, <2>5 DEF Registers
  <2>7. Others(t)  BY <1>10, <1>o, <1>r DEF Insert, Goto, Return
  <2>8. /\ ~ Brings(t, x)' /\ ~ Moves(t, x)'
        /\ Drops(t, x)' => Registers(k, x)
    <3>1. CASE Replaces(runtime[k], new)
      <4>1. call' = [call EXCEPT ![t] = c]  BY <1>10, <2>1, <3>1, <1>0 DEF Insert, Goto, Calls
      <4>2. call'[t] = c  BY <4>1, <1>o
      <4>3. c.pc = "closePrev" /\ c.snap = runtime[k]  BY <1>0 DEF Calls
      <4>4. IsRelay(runtime[k])  BY <3>1 DEF Replaces
      <4> HIDE DEF c
      <4> QED  BY <4>2, <4>3, <4>4 DEF Brings, Moves, Drops, Registers
    <3>2. CASE ~ Replaces(runtime[k], new)
      <4>1. call' = [call EXCEPT ![t] = Idle]  BY <1>10, <2>1, <3>2 DEF Insert, Return
      <4>2. call'[t] = Idle  BY <4>1, <1>o
      <4> QED  BY <4>2 DEF Brings, Moves, Drops, Idle
    <3> QED  BY <3>1, <3>2
  <2>9. \A u \in Threads \ {t} :
          /\ Brings(u, x)' <=> Brings(u, x)
          /\ Drops(u, x)' <=> Drops(u, x)
          /\ Moves(u, x)' <=> Moves(u, x)
          /\ \A j \in Keys : Supersedes(u, j, x)' <=> Supersedes(u, j, x)
          /\ call'[u].key = call[u].key
    BY <2>7 DEF Brings, Drops, Moves, Supersedes, At
  <2>10. \A j \in Keys \ {k} : ~ Supersedes(t, j, x)  BY <2>1 DEF Supersedes
  <2> HIDE DEF new
  \* The thread registers what it alone knows of.
  <2>11. CASE Brings(t, x)
    <3>1. /\ x \in OpenIds(relay') /\ relay'[x] # NoSession /\ x \notin AttemptIds
          /\ \A j \in Keys : ~ Registers(j, x)
          /\ \A u \in Threads \ {t} : ~ Brings(u, x) /\ ~ Drops(u, x) /\ ~ Moves(u, x)
      BY <2>4, <2>11 DEF OneOwner, InUse
    <3> QED  BY <3>1, <2>1, <2>6, <2>8, <2>9 DEF OneOwner
  \* Another thread knows of the identifier, or it was the session's path.
  <2>12. CASE ~ Brings(t, x)
    <3>1. ~ Registers(k, x)'  BY <2>6, <2>12
    <3>2. \A j \in Keys : Registers(j, x)' => j # k /\ Registers(j, x)  BY <3>1, <2>6
    <3>3. Drops(t, x)' => /\ InUse(x)
                          /\ \A u \in Threads : ~ Brings(u, x)'
                          /\ \A j \in Keys : ~ Registers(j, x)'
      BY <2>1, <2>4, <2>8, <2>9, <2>12, <3>2 DEF OneOwner, InUse
    <3>4. \A j \in Keys : Supersedes(t, j, x) => ~ Registers(j, x)'
      BY <2>10, <3>1
    <3> QED  BY <2>4, <2>7, <2>8, <3>2, <3>3, <3>4, OwnerKept
  <2> QED  BY <2>11, <2>12
\* Whoever closes a replaced or removed transport session: nobody relies on it.
<1>d. ASSUME NEW t \in Threads, NEW c, call' = [call EXCEPT ![t] = c],
             c.pc \in {"idle", "record"},
             At(t, "closePrev") \/ At(t, "closeRemoved"), UNCHANGED <<runtime, lost>>,
             CloseAccepted(call[t].snap.tsid)
      PROVE  OneOwner(x)'
  <2> DEFINE id == call[t].snap.tsid
  <2>1. id \in Ids  BY <1>0, <1>d DEF At, CallShape, WellFormed
  <2>2. NoneNew /\ x \notin lost /\ OneOwner(x) /\ ~ At(t, "insert")  BY <1>d, <1>t, <1>x DEF At
  <2>3. CASE x # id
    <3>1. relay'[x] = relay[x]  BY <2>1, <2>3, <1>0, <1>d, CloseElsewhere
    <3> QED  BY <3>1, <2>2, <1>d, <1>q
  <2>4. CASE x = id
    <3>1. relay[x] # NoSession => relay'[x] # NoSession
      BY <2>1, <1>0, <1>d, CloseElsewhere
    <3>2. Drops(t, x)  BY <2>4, <1>d DEF Drops, At
    <3>3. /\ \A u \in Threads : ~ Brings(u, x)
          /\ \A k \in Keys : ~ Registers(k, x) /\ ~ Registers(k, x)'
      BY <3>2, <2>2 DEF OneOwner, NoneNew
    <3>4. Others(t) /\ call'[t] = c  BY <1>d, <1>o
    <3>5. ~ Brings(t, x)' /\ ~ Drops(t, x)' /\ ~ Moves(t, x)'
      BY <3>4, <1>d DEF Brings, Drops, Moves
    <3> QED  BY <3>1, <3>3, <3>4, <3>5, <2>2, OwnerKept
  <2> QED  BY <2>3, <2>4
<1>11. ASSUME NEW t \in Threads, ClosePrev(t)
       PROVE  OneOwner(x)'
  BY <1>11, <1>d DEF ClosePrev, Return, Idle
<1>12. ASSUME NEW t \in Threads, CloseRemoved(t)
       PROVE  OneOwner(x)'
  <2> DEFINE c == [call[t] EXCEPT !.pc = "record"]
  <2>1. call' = [call EXCEPT ![t] = c] /\ c.pc = "record"
    BY <1>12, <1>0 DEF CloseRemoved, Goto, Calls
  <2> HIDE DEF c
  <2> QED  BY <1>12, <2>1, <1>d DEF CloseRemoved
<1>13. ASSUME NEW t \in Threads, ClosePrevFails(t) \/ CloseRemovedFails(t) \/ CloseOldFails(t)
       PROVE  OneOwner(x)'
  <2> DEFINE id == call[t].snap.tsid
  <2>1. id \in Ids
    BY <1>0, <1>13 DEF ClosePrevFails, CloseRemovedFails, CloseOldFails, At, CallShape,
                       WellFormed, Replaces, IsRelay
  <2>2. x # id /\ x \notin lost /\ NoneNew /\ ~ At(t, "insert") /\ Return(t) /\ CloseFails(id)
    BY <1>13, <1>t DEF ClosePrevFails, CloseRemovedFails, CloseOldFails, At
  <2>3. relay'[x] = relay[x]  BY <2>1, <2>2, <1>0, CloseElsewhere
  <2> QED  BY <2>2, <2>3, <1>r
<1>14. ASSUME NEW t \in Threads, ReadExisting(t)
       PROVE  OneOwner(x)'
  <2> DEFINE k == call[t].key
             c == [call[t] EXCEPT !.snap = runtime[k], !.pc = "open"]
  <2>1. k \in Keys  BY <1>0 DEF Calls
  <2>2. WellFormed(runtime[k]) /\ runtime[k] # NoSession  BY <1>14, <2>1 DEF ReadExisting, Shape
  <2>3. call' = [call EXCEPT ![t] = c]  BY <1>14, <1>0 DEF ReadExisting, Goto, Calls
  <2>4. Others(t) /\ call'[t] = c  BY <2>3, <1>o
  <2>5. c.pc = "open" /\ c.snap = runtime[k] /\ c.key = k  BY <1>0 DEF Calls
  <2>6. runtime[k].tsid = x => Registers(k, x)
    BY <2>2, <1>0 DEF Registers, IsRelay, WellFormed
  <2> HIDE DEF c
  <2>7. /\ ~ Brings(t, x)' /\ ~ Drops(t, x)'
        /\ Moves(t, x)' => Registers(call'[t].key, x)
    BY <2>4, <2>5, <2>6 DEF Brings, Drops, Moves
  <2>8. \A j \in Keys : ~ Supersedes(t, j, x)  BY <1>14 DEF ReadExisting, Supersedes, At
  <2>9. NoneNew /\ x \notin lost /\ OneOwner(x) /\ relay' = relay
    BY <1>14, <1>t, <1>x DEF ReadExisting
  <2> QED  BY <2>1, <2>4, <2>5, <2>7, <2>8, <2>9, OwnerKept DEF NoneNew
\* A migration closes the old path of the session it is about, and of no other.
<1>15. ASSUME NEW t \in Threads, CloseOld(t)
       PROVE  OneOwner(x)'
  <2> DEFINE id == call[t].snap.tsid
             c == [call[t] EXCEPT !.pc = "insert"]
  <2>1. WellFormed(call[t].snap) /\ call[t].op = "migrate" /\ call[t].key \in Keys
    BY <1>0, <1>15 DEF CallShape, CloseOld, At, Calls
  <2>2. call' = [call EXCEPT ![t] = c]  BY <1>15 DEF CloseOld, Goto
  <2>3. /\ c.pc = "insert" /\ c.tsid = call[t].tsid /\ c.op = call[t].op
        /\ c.key = call[t].key /\ c.snap = call[t].snap
    BY <1>0 DEF Calls
  <2>4. NoneNew /\ x \notin lost /\ OneOwner(x) /\ At(t, "closeOld")
    BY <1>15, <1>t, <1>x DEF CloseOld
  <2> HIDE DEF c
  <2>5. CASE relay'[x] = relay[x]
    BY <2>2, <2>3, <2>4, <2>5, <1>q DEF At, Brings
  <2>6. CASE relay'[x] # relay[x]
    <3>1. Replaces(call[t].snap, NewSnapshot(call[t])) /\ CloseAccepted(id)
      BY <2>6, <1>15 DEF CloseOld
    <3>2. id \in Ids  BY <3>1, <2>1 DEF Replaces, IsRelay, WellFormed
    <3>3. x = id /\ (relay[x] # NoSession => relay'[x] # NoSession)
      BY <3>1, <3>2, <2>6, <1>0, CloseElsewhere
    <3>4. Moves(t, x)  BY <3>3, <2>1, <2>4 DEF Moves, At
    <3>5. /\ \A u \in Threads : ~ Brings(u, x)
          /\ \A k \in Keys : Registers(k, x) => k = call[t].key
      BY <3>4, <2>4 DEF OneOwner
    <3>6. Others(t) /\ call'[t] = c  BY <2>2, <1>o
    <3>7. /\ \A k \in Keys : k = call[t].key => Supersedes(t, k, x)'
          /\ ~ Drops(t, x)' /\ ~ Moves(t, x)' /\ (Brings(t, x)' => Brings(t, x))
      BY <3>3, <3>6, <2>1, <2>3, <2>4 DEF Supersedes, At, Drops, Moves, Brings
    <3>8. \A k \in Keys : ~ Supersedes(t, k, x)  BY <2>4 DEF Supersedes, At
    <3> QED  BY <3>3, <3>5, <3>6, <3>7, <3>8, <2>4, OwnerKept DEF NoneNew
  <2> QED  BY <2>5, <2>6
<1>16. ASSUME NEW t \in Threads, MarkClosing(t)
       PROVE  OneOwner(x)'
  <2> DEFINE c == [call[t] EXCEPT !.pc = "remove"]
  <2>1. call[t].key \in Keys /\ call[t].cause \in Causes \cup {NoCause}  BY <1>0 DEF Calls
  <2>2. NoneNew  BY <2>1, <1>16, <1>s DEF MarkClosing, SessionStates
  <2>3. call' = [call EXCEPT ![t] = c] /\ c.pc = "remove"
    BY <1>16, <1>0 DEF MarkClosing, Goto, Calls
  <2> HIDE DEF c
  <2> QED  BY <2>2, <2>3, <1>16, <1>q DEF MarkClosing, At
<1>17. ASSUME NEW t \in Threads, Remove(t)
       PROVE  OneOwner(x)'
  <2>0. PICK k \in Keys : k = call[t].key  BY <1>0 DEF Calls
  <2> DEFINE pc == IF IsRelay(runtime[k]) THEN "closeRemoved" ELSE "record"
             c == [call[t] EXCEPT !.snap = runtime[k], !.pc = pc]
  <2>1. x \notin lost /\ OneOwner(x) /\ relay' = relay /\ At(t, "remove")
    BY <1>17, <1>x DEF Remove
  <2>2. CASE runtime[k] = NoSession
    BY <2>0, <2>1, <2>2, <1>r, <1>t, <1>17 DEF Remove, At
  <2>3. CASE runtime[k] # NoSession
    <3>1. call' = [call EXCEPT ![t] = c]  BY <1>17, <2>0, <2>3, <1>0 DEF Remove, Goto, Calls
    <3>2. Others(t) /\ call'[t] = c  BY <3>1, <1>o
    <3>3. runtime' = [runtime EXCEPT ![k] = NoSession]  BY <1>17, <2>0, <2>3 DEF Remove
    <3>4. /\ ~ Registers(k, x)'
          /\ \A j \in Keys \ {k} : Registers(j, x)' => Registers(j, x)
      BY <3>3, <1>0 DEF Registers, IsRelay
    <3>5. /\ c.pc \in {"closeRemoved", "record"} /\ c.snap = runtime[k]
          /\ c.pc = "closeRemoved" => IsRelay(runtime[k])
      BY <1>0 DEF Calls
    <3> HIDE DEF c
    <3>6. /\ ~ Brings(t, x)' /\ ~ Moves(t, x)'
          /\ Drops(t, x)' => Registers(k, x)
      BY <3>2, <3>5 DEF Brings, Moves, Drops, Registers
    <3>7. Registers(k, x) => /\ InUse(x)
                             /\ \A u \in Threads : ~ Brings(u, x)
                             /\ \A j \in Keys : ~ Registers(j, x)'
      BY <3>4, <2>1 DEF OneOwner, InUse
    <3>8. \A u \in Threads : Brings(u, x)' => Brings(u, x)
      BY <3>2, <3>6 DEF Brings
    <3>9. \A j \in Keys : ~ Supersedes(t, j, x)  BY <2>1 DEF Supersedes, At
    <3> QED  BY <3>2, <3>4, <3>6, <3>7, <3>8, <3>9, <2>1, OwnerKept
  <2> QED  BY <2>2, <2>3
\* What the relay forgets counts as lost.
<1>18. CASE RelayRestart
  <2>1. relay[x] = NoSession /\ x \notin lost  BY <1>18 DEF RelayRestart
  <2>2. ~ InUse(x)  BY <2>1, <1>x DEF OneOwner
  <2>3. UNCHANGED <<runtime, call>>  BY <1>18 DEF RelayRestart
  <2>4. /\ \A k \in Keys : ~ Registers(k, x)'
        /\ \A u \in Threads : ~ Brings(u, x)' /\ ~ Drops(u, x)' /\ ~ Moves(u, x)'
    BY <2>2, <2>3 DEF InUse, Registers, Brings, Drops, Moves
  <2> QED  BY <2>4 DEF OneOwner, InUse
<1>19. CASE UNCHANGED vars
  BY <1>19, <1>x DEF vars, OneOwner, InUse, Registers, Brings, Drops, Moves, Supersedes, At,
                     OpenIds, HasStatus
<1> QED
  BY <1>1, <1>2, <1>3, <1>4, <1>5, <1>6, <1>7, <1>8, <1>9, <1>10, <1>11, <1>12, <1>13,
     <1>14, <1>15, <1>16, <1>17, <1>18, <1>19
     DEF Next, CallerStep, AdapterStep, Proceeds, Fails

-----------------------------------------------------------------------------
(* The ledger.                                                             *)

(* A set of natural numbers has a least element: induction over data, by   *)
(* the least counterexample.                                               *)
LEMMA LeastNatural ==
  ASSUME NEW T \in SUBSET Nat, T # {}
  PROVE  \E n \in T : \A m \in T : n <= m
<1> DEFINE R == {ss \in Nat \X Nat : ss[1] < ss[2]}
<1>1. IsWellFoundedOn(R, Nat)  BY NatLessThanWellFounded, Zenon DEF OpToRel
<1>2. \E x \in T : \A y \in T : ~ (<<y, x>> \in R)
  <2> HIDE DEF R
  <2> QED  BY <1>1, WFMin
<1>3. PICK n \in T : \A m \in T : ~ (<<m, n>> \in R)  BY <1>2
<1>4. ASSUME NEW m \in T PROVE n <= m
  <2>1. m \in Nat /\ n \in Nat  OBVIOUS
  <2>2. m < n => <<m, n>> \in R  BY <2>1
  <2>3. ~ (m < n)  BY <1>3, <2>2
  <2> QED  BY <2>1, <2>3
<1> QED  BY <1>4

(* What retain has kept of the first n entries, for every n.               *)
Keeps(h, n, ledger, key) ==
  /\ h \in [0..n -> Seq(LedgerEntries)]
  /\ h[0] = <<>>
  /\ \A i \in 1..n : h[i] = IF ledger[i].key = key THEN h[i - 1]
                            ELSE Append(h[i - 1], ledger[i])

(* retain is what its recursion says.                                      *)
LEMMA RetainDefined ==
  ASSUME NEW ledger \in Seq(LedgerEntries), NEW key
  PROVE  \E h : Keeps(h, Len(ledger), ledger, key) /\ Retain(ledger, key) = h[Len(ledger)]
<1> DEFINE N == Len(ledger)
           T == {n \in 0..N : ~ \E h : Keeps(h, n, ledger, key)}
<1>0. N \in Nat /\ \A i \in 1..N : ledger[i] \in LedgerEntries  OBVIOUS
<1> HIDE DEF N
<1>1. ASSUME NEW n \in T, \A m \in T : n <= m PROVE FALSE
  <2>0. n \in Nat /\ n <= N  BY <1>0
  <2>1. CASE n = 0
    <3>1. Keeps([i \in 0..0 |-> <<>>], 0, ledger, key)  BY DEF Keeps
    <3> QED  BY <3>1, <2>1
  <2>2. CASE n # 0
    <3>1. n - 1 \in 0..N /\ n - 1 \notin T  BY <2>0, <2>2, <1>0, <1>1
    <3>2. PICK g : Keeps(g, n - 1, ledger, key)  BY <3>1
    <3> DEFINE e == IF ledger[n].key = key THEN g[n - 1] ELSE Append(g[n - 1], ledger[n])
               h == [i \in 0..n |-> IF i = n THEN e ELSE g[i]]
    <3>3. g[n - 1] \in Seq(LedgerEntries)  BY <3>2, <2>0, <2>2 DEF Keeps
    <3>4. ledger[n] \in LedgerEntries  BY <2>0, <2>2, <1>0
    <3>5. e \in Seq(LedgerEntries)  BY <3>3, <3>4
    <3>6. h[n] = e /\ \A i \in 0..(n - 1) : h[i] = g[i]
      <4> HIDE DEF e
      <4> QED  BY <2>0
    <3>7. h \in [0..n -> Seq(LedgerEntries)]
      <4> HIDE DEF e
      <4> QED  BY <3>2, <3>5, <2>0, <2>2 DEF Keeps
    <3>8. h[0] = <<>>
      <4> HIDE DEF h
      <4> QED  BY <3>2, <3>6, <2>0, <2>2 DEF Keeps
    <3>9. ASSUME NEW i \in 1..n
          PROVE  h[i] = IF ledger[i].key = key THEN h[i - 1] ELSE Append(h[i - 1], ledger[i])
      <4> HIDE DEF h
      <4>1. CASE i = n  BY <4>1, <3>6, <2>0, <2>2
      <4>2. CASE i # n
        <5>1. i \in 1..(n - 1) /\ i - 1 \in 0..(n - 1) /\ i \in 0..(n - 1)  BY <4>2, <2>0
        <5> QED  BY <5>1, <3>2, <3>6 DEF Keeps
      <4> QED  BY <4>1, <4>2
    <3> HIDE DEF h
    <3>10. Keeps(h, n, ledger, key)  BY <3>7, <3>8, <3>9 DEF Keeps
    <3> QED  BY <3>10
  <2> QED  BY <2>1, <2>2
<1>2. T = {}
  <2>1. T \in SUBSET Nat  BY <1>0
  <2> HIDE DEF T
  <2> QED  BY <2>1, <1>1, LeastNatural
<1>3. PICK g : Keeps(g, N, ledger, key)
  <2>1. N \in 0..N  BY <1>0
  <2> QED  BY <2>1, <1>2
<1> DEFINE Elem(h, i) == IF i = 0 THEN <<>>
                         ELSE IF ledger[i].key = key THEN h[i - 1]
                         ELSE Append(h[i - 1], ledger[i])
<1>4. \E h : h = [i \in 0..N |-> Elem(h, i)]
  <2>1. \A i \in 0..N : g[i] = Elem(g, i)
    <3>1. \A i \in 0..N : i = 0 \/ i \in 1..N  BY <1>0
    <3> QED  BY <3>1, <1>3 DEF Keeps
  <2> HIDE DEF Elem
  <2>2. g = [i \in 0..N |-> Elem(g, i)]  BY <2>1, <1>3 DEF Keeps
  <2> QED  BY <2>2
<1>5. PICK h : h = [i \in 0..N |-> Elem(h, i)] /\ Retain(ledger, key) = h[N]
  BY <1>4 DEF Retain, N
<1>6. DOMAIN h = 0..N /\ \A i \in 0..N : h[i] = Elem(h, i)
  <2> HIDE DEF Elem
  <2> QED  BY <1>5
<1>7. /\ h[0] = <<>>
      /\ \A i \in 1..N : h[i] = IF ledger[i].key = key THEN h[i - 1]
                                ELSE Append(h[i - 1], ledger[i])
  <2>1. \A i \in 1..N : i \in 0..N /\ i # 0  BY <1>0
  <2>2. 0 \in 0..N  BY <1>0
  <2> QED  BY <2>1, <2>2, <1>6
<1> DEFINE U == {n \in 0..N : h[n] \notin Seq(LedgerEntries)}
<1>8. ASSUME NEW n \in U, \A m \in U : n <= m PROVE FALSE
  <2>1. n # 0
    <3>1. h[0] \in Seq(LedgerEntries)  BY <1>7
    <3> QED  BY <3>1
  <2>2. n \in 1..N /\ n - 1 \in 0..N /\ n - 1 \notin U  BY <2>1, <1>0, <1>8
  <2>3. h[n - 1] \in Seq(LedgerEntries) /\ ledger[n] \in LedgerEntries  BY <2>2, <1>0
  <2>4. h[n] = IF ledger[n].key = key THEN h[n - 1] ELSE Append(h[n - 1], ledger[n])
    BY <2>2, <1>7
  <2>5. h[n] \in Seq(LedgerEntries)  BY <2>3, <2>4
  <2> QED  BY <2>5
<1>9. U = {}
  <2>1. U \in SUBSET Nat  BY <1>0
  <2> HIDE DEF U
  <2> QED  BY <2>1, <1>8, LeastNatural
<1>10. h = [i \in 0..N |-> h[i]]
  <2> HIDE DEF Elem
  <2> QED  BY <1>5
<1>11. h \in [0..N -> Seq(LedgerEntries)]  BY <1>9, <1>10
<1>12. Keeps(h, N, ledger, key)  BY <1>7, <1>11 DEF Keeps
<1> QED  BY <1>5, <1>12 DEF N

OneEach(ledger) == \A i, j \in 1..Len(ledger) : ledger[i].key = ledger[j].key => i = j

(* What retain keeps: entries of other sessions, each once if it was there *)
(* once.                                                                   *)
LEMMA RetainKeeps ==
  ASSUME NEW ledger \in Seq(LedgerEntries), NEW key, OneEach(ledger)
  PROVE  /\ Retain(ledger, key) \in Seq(LedgerEntries)
         /\ \A i \in 1..Len(Retain(ledger, key)) : Retain(ledger, key)[i].key # key
         /\ OneEach(Retain(ledger, key))
<1> DEFINE N == Len(ledger)
<1>0. N \in Nat /\ \A i \in 1..N : ledger[i] \in LedgerEntries  OBVIOUS
<1>1. PICK h : Keeps(h, N, ledger, key) /\ Retain(ledger, key) = h[N]  BY RetainDefined
<1> DEFINE Good(n) == /\ \A i \in 1..Len(h[n]) :
                           h[n][i].key # key /\ \E j \in 1..n : h[n][i] = ledger[j]
                      /\ OneEach(h[n])
           T == {n \in 0..N : ~ Good(n)}
<1> HIDE DEF N
<1>2. ASSUME NEW n \in T, \A m \in T : n <= m PROVE FALSE
  <2>1. n # 0
    <3>1. h[0] = <<>>  BY <1>1 DEF Keeps
    <3>2. Good(0)  BY <3>1 DEF OneEach
    <3> HIDE DEF Good
    <3> QED  BY <3>2
  <2>2. n \in 1..N /\ n - 1 \in 0..N /\ n - 1 \notin T
    <3> HIDE DEF Good
    <3> QED  BY <2>1, <1>0, <1>2
  <2> DEFINE g == h[n - 1]
  <2>3. Good(n - 1)
    <3> HIDE DEF Good
    <3> QED  BY <2>2
  <2>4. g \in Seq(LedgerEntries) /\ ledger[n] \in LedgerEntries  BY <2>2, <1>0, <1>1 DEF Keeps
  <2>5. h[n] = IF ledger[n].key = key THEN g ELSE Append(g, ledger[n])
    BY <2>2, <1>1 DEF Keeps
  <2>6. \A j \in 1..(n - 1) : j \in 1..n /\ j \in 1..N /\ j # n  BY <2>2, <1>0
  <2>7. n \in 1..n  BY <2>2, <1>0
  <2> HIDE DEF g
  <2>8. CASE ledger[n].key = key
    <3>1. h[n] = g  BY <2>5, <2>8
    <3> QED  BY <3>1, <2>3, <2>6 DEF g
  <2>9. CASE ledger[n].key # key
    <3> DEFINE e == Append(g, ledger[n])
               L == Len(g)
    <3>1. h[n] = e  BY <2>5, <2>9
    <3>2. /\ L \in Nat /\ Len(e) = L + 1 /\ e[L + 1] = ledger[n]
          /\ \A i \in 1..L : e[i] = g[i]
      BY <2>4
    <3>3. \A i \in 1..(L + 1) : i \in 1..L \/ i = L + 1
      <4> HIDE DEF L
      <4> QED  BY <3>2
    <3>4. /\ \A i \in 1..L : g[i].key # key /\ \E j \in 1..(n - 1) : g[i] = ledger[j]
          /\ \A i, j \in 1..L : g[i].key = g[j].key => i = j
      BY <2>3 DEF g, OneEach
    <3>5. \A j \in 1..(n - 1) : ledger[j].key # ledger[n].key
      BY <2>2, <2>6 DEF OneEach, N
    <3> HIDE DEF e, L
    <3>6. \A i \in 1..(L + 1) : e[i].key # key /\ \E j \in 1..n : e[i] = ledger[j]
      <4>1. ASSUME NEW i \in 1..L
            PROVE  e[i].key # key /\ \E j \in 1..n : e[i] = ledger[j]
        <5>1. PICK j \in 1..(n - 1) : g[i] = ledger[j]  BY <3>4
        <5>2. e[i] = ledger[j] /\ e[i].key # key  BY <5>1, <3>2, <3>4
        <5> QED  BY <5>1, <5>2, <2>6
      <4>2. e[L + 1].key # key /\ \E j \in 1..n : e[L + 1] = ledger[j]
        BY <3>2, <2>7, <2>9
      <4> QED  BY <4>1, <4>2, <3>3
    <3>7. \A i \in 1..L : e[i].key # e[L + 1].key  BY <3>2, <3>4, <3>5
    <3>8. \A i, j \in 1..(L + 1) : e[i].key = e[j].key => i = j
      BY <3>2, <3>3, <3>4, <3>7
    <3>9. Good(n)  BY <3>1, <3>2, <3>6, <3>8 DEF OneEach
    <3> QED  BY <3>9
  <2> QED  BY <2>8, <2>9
<1>3. T = {}
  <2>1. T \in SUBSET Nat  BY <1>0
  <2> HIDE DEF T
  <2> QED  BY <2>1, <1>2, LeastNatural
<1>4. N \in 0..N  BY <1>0
<1>5. Good(N)
  <2> HIDE DEF Good
  <2> QED  BY <1>3, <1>4
<1>6. h[N] \in Seq(LedgerEntries)  BY <1>1, <1>4 DEF Keeps
<1> QED  BY <1>1, <1>5, <1>6

(* record_terminal_session keeps the ledger bounded, with one entry per    *)
(* session.                                                                *)
LEMMA RecordTerminalBounded ==
  ASSUME NEW ledger \in Seq(LedgerEntries), OneEach(ledger), NEW entry \in LedgerEntries
  PROVE  /\ RecordTerminal(ledger, entry) \in Seq(LedgerEntries)
         /\ Len(RecordTerminal(ledger, entry)) <= MaxTerminal
         /\ OneEach(RecordTerminal(ledger, entry))
<1> DEFINE r == Retain(ledger, entry.key)
           all == Append(r, entry)
           L == Len(r)
           lo == IF L + 1 > MaxTerminal THEN L + 1 - MaxTerminal + 1 ELSE 1
<1>1. /\ r \in Seq(LedgerEntries)
      /\ \A i \in 1..Len(r) : r[i].key # entry.key
      /\ OneEach(r)
  BY RetainKeeps
<1> HIDE DEF r
<1>2. /\ L \in Nat /\ Len(all) = L + 1 /\ all[L + 1] = entry
      /\ all \in Seq(LedgerEntries)
      /\ \A i \in 1..L : all[i] = r[i]
  BY <1>1
<1>3. RecordTerminal(ledger, entry) = SubSeq(all, lo, L + 1)
  <2>1. RecordTerminal(ledger, entry) =
          SubSeq(all, IF Len(all) > MaxTerminal THEN Len(all) - MaxTerminal + 1 ELSE 1, Len(all))
    BY Zenon DEF RecordTerminal, r
  <2> DEFINE n == Len(all)
  <2>2. n = L + 1  BY <1>2
  <2> HIDE DEF all, L, n
  <2>3. lo = IF n > MaxTerminal THEN n - MaxTerminal + 1 ELSE 1
    BY <1>2, <2>2, TransportAssumption
  <2> HIDE DEF lo
  <2> QED  BY <2>1, <2>2, <2>3, Zenon DEF n
<1>4. OneEach(all)
  <2>1. \A i \in 1..(L + 1) : i \in 1..L \/ i = L + 1  BY <1>2
  <2> HIDE DEF all, L
  <2>2. \A i \in 1..L : all[i].key # all[L + 1].key  BY <1>1, <1>2 DEF L
  <2>3. \A i, j \in 1..(L + 1) : all[i].key = all[j].key => i = j
    BY <1>1, <1>2, <2>1, <2>2 DEF OneEach, L
  <2> QED  BY <1>2, <2>3 DEF OneEach
<1>5. lo \in 1..(L + 1) /\ MaxTerminal \in Nat /\ L + 1 - lo + 1 <= MaxTerminal
  BY <1>2, TransportAssumption
<1> HIDE DEF all, lo, L
<1> DEFINE sub == SubSeq(all, lo, L + 1)
<1>6. /\ sub \in Seq(LedgerEntries)
      /\ Len(sub) = L + 1 - lo + 1
      /\ \A i \in 1..Len(sub) : sub[i] = all[lo + i - 1] /\ lo + i - 1 \in 1..Len(all)
  BY <1>2, <1>5
<1>7. OneEach(sub)
  <2> HIDE DEF sub
  <2>1. ASSUME NEW i \in 1..Len(sub), NEW j \in 1..Len(sub), sub[i].key = sub[j].key
        PROVE  i = j
    <3>1. PICK a \in 1..Len(all) : a = lo + i - 1 /\ sub[i] = all[a]  BY <1>6
    <3>2. PICK b \in 1..Len(all) : b = lo + j - 1 /\ sub[j] = all[b]  BY <1>6
    <3>3. a = b  BY <1>4, <2>1, <3>1, <3>2 DEF OneEach
    <3> QED  BY <3>1, <3>2, <3>3, <1>2, <1>5, <1>6
  <2> QED  BY <2>1 DEF OneEach
<1> QED  BY <1>3, <1>5, <1>6, <1>7

(* The ledger is written by record_terminal_session alone.                 *)
LedgerOK == terminal \in Seq(LedgerEntries) /\ Len(terminal) <= MaxTerminal /\ OneEach(terminal)

LEMMA LedgerStep ==
  ASSUME RegistryTypeOK, Shape, LedgerOK, [Next]_vars
  PROVE  LedgerOK'
<1>1. ASSUME NEW t \in Threads, Record(t)
      PROVE  LedgerOK'
  <2> DEFINE e == [key |-> call[t].key, cause |-> call[t].snap.cause]
  <2>1. call[t] \in Calls /\ WellFormed(call[t].snap)
    BY <1>1 DEF RegistryTypeOK, Shape, CallShape, Record, At
  <2>2. e \in LedgerEntries  BY <2>1 DEF Calls, WellFormed, Snapshots, LedgerEntries
  <2>3. terminal' = RecordTerminal(terminal, e)  BY <1>1 DEF Record
  <2> HIDE DEF e
  <2> QED  BY <2>2, <2>3, RecordTerminalBounded DEF LedgerOK
<1>2. CASE UNCHANGED terminal  BY <1>2 DEF LedgerOK
<1>3. (\A t \in Threads : ~ Record(t)) => UNCHANGED terminal
  BY DEF Next, CallerStep, AdapterStep, Proceeds, Fails, vars, SetState, Suppress, Unsuppress,
     BeginConnect, BeginMigrate, BeginClose, OpenDirect, OpenRelay, Insert, ClosePrev,
     ReadExisting, CloseOld, MarkClosing, Remove, CloseRemoved, OpenInvalid,
     OpenRelayAnswerLost, OpenRelayFails, ClosePrevFails, NotOwned, CloseOldFails,
     CloseRemovedFails, RelayRestart
<1> QED  BY <1>1, <1>2, <1>3

-----------------------------------------------------------------------------
(* The inductive invariant of the registry.                                *)
IndInv == RegistryTypeOK /\ Shape /\ NoOrphan /\ Owned /\ LedgerOK

(* The types of the registry, its ledger and the operations.               *)
LEMMA IndInvTypes == IndInv => TypeOK
<1> SUFFICES ASSUME IndInv PROVE TypeOK
  OBVIOUS
<1>1. terminal \in Seq(LedgerEntries)  BY DEF IndInv, LedgerOK
<1>2. DOMAIN terminal = 1..Len(terminal)  BY <1>1
<1> QED  BY <1>1, <1>2 DEF IndInv, TypeOK, LedgerOK, OneEach

(* Nothing is open and nothing is under way at the start.                  *)
LEMMA InitIndInv == Init => IndInv
<1> SUFFICES ASSUME Init PROVE IndInv
  OBVIOUS
<1>1. RegistryTypeOK
  BY IdleShape DEF Init, RegistryTypeOK, EmptyTable, Tables
<1>2. Shape  BY IdleShape DEF Init, Shape
<1>3. OpenIds(relay) = {}  BY DEF Init, EmptyTable, OpenIds, HasStatus
<1>4. ASSUME NEW x \in Ids PROVE OneOwner(x)
  BY DEF Init, OneOwner, InUse, Registers, Brings, Drops, Moves, IsRelay, Idle
<1>5. LedgerOK  BY TransportAssumption DEF Init, LedgerOK, OneEach
<1> QED  BY <1>1, <1>2, <1>3, <1>4, <1>5 DEF IndInv, NoOrphan, Owned

(* Every step of every operation, interleaved in any way with requests     *)
(* that fail and a relay that restarts, keeps the inductive invariant.     *)
LEMMA IndInvStep ==
  ASSUME IndInv, [Next]_vars
  PROVE  IndInv'
BY ShapeStep, NoOrphanStep, OwnedStep, LedgerStep DEF IndInv

(* So it holds at all times.                                               *)
THEOREM IndInvCorrect == Spec => []IndInv
BY InitIndInv, IndInvStep, PTL DEF Spec

(* The registries, the relay's table and the locals of every operation     *)
(* (connect, migrate, close_session) keep their types and the shape that   *)
(* later steps of the operation rely on.                                   *)
THEOREM ShapeCorrect == Spec => [](RegistryTypeOK /\ Shape)
<1>1. IndInv => RegistryTypeOK /\ Shape  BY DEF IndInv
<1> QED  BY <1>1, IndInvCorrect, PTL

(* The ledger of closed sessions never exceeds its bound and holds one     *)
(* entry per session, whatever the threads record (record_terminal_session *)
(* keeps the entries of other sessions and drops the oldest ones).         *)
THEOREM TypeCorrect == Spec => []TypeOK
BY IndInvTypes, IndInvCorrect, PTL

(* connect, migrate and close_session of any number of threads forget no   *)
(* transport session that is open at the relay.                            *)
THEOREM NoOrphanCorrect == Spec => []NoOrphan
<1>1. IndInv => NoOrphan  BY DEF IndInv
<1> QED  BY <1>1, IndInvCorrect, PTL

(* The path of a registered session is open at the relay: no thread closes *)
(* a transport session that another one has registered, however connects,  *)
(* migrations and closes of any number of threads and sessions interleave, *)
(* as long as no request fails and the relay keeps its table.              *)
THEOREM RegistryServedCorrect == Spec => []RegistryServed
<1>1. IndInv => RegistryServed
  <2> SUFFICES ASSUME IndInv, NEW k \in Keys, IsRelay(runtime[k]),
                      runtime[k].tsid \notin lost
               PROVE  runtime[k].tsid \in OpenIds(relay) \cup Superseded(k)
    BY DEF RegistryServed
  <2>1. PICK x \in Ids : x = runtime[k].tsid
    BY DEF IndInv, Shape, WellFormed, IsRelay
  <2>2. OneOwner(x) /\ Registers(k, x)  BY <2>1 DEF IndInv, Owned, Registers
  <2>3. x \in OpenIds(relay) \/ \E t \in Threads : Supersedes(t, k, x)
    BY <2>2 DEF OneOwner
  <2> QED  BY <2>1, <2>3 DEF Superseded, Supersedes
<1> QED  BY <1>1, IndInvCorrect, PTL

=============================================================================
