----------------------------- MODULE RelayProofs ----------------------------
(***************************************************************************)
(* Proofs about the relay for every set of peers, identifiers and quotas.  *)
(***************************************************************************)
EXTENDS Relay, RelayRuntimeLemmas

\* What an accepted request makes of the entry of an identifier.
LEMMA AcceptedEntry ==
  ASSUME NEW table \in Tables, NEW req \in Requests, NEW id \in Ids, NEW x \in Ids
  PROVE  OpenSession(table, req, id)[x] =
           IF x = id THEN Entry(req, "Open")
           ELSE IF x = req.attempt THEN Entry(req, "Pending")
           ELSE table[x]
<1>1. req.attempt \in Ids  BY RelayAssumption DEF Requests
<1> QED  BY <1>1 DEF OpenSession, FrameSessionAccepted, FrameOpenSession, Tables

(* Every reachable table of the relay is well typed, and holds an entry    *)
(* only for a request that open_session accepted: no refused request, and  *)
(* no closing of an unknown session, leaves anything behind.               *)
THEOREM TypeCorrect == Spec => []TypeOK
<1>1. Init => TypeOK  BY DEF Init, TypeOK, EmptyTable, Tables
<1>2. TypeOK /\ [Next]_vars => TypeOK'
  <2> SUFFICES ASSUME TypeOK, [Next]_vars PROVE TypeOK'  OBVIOUS
  <2>0. sessions \in Tables  BY DEF TypeOK
  <2>1. ASSUME NEW req \in Requests, NEW id \in Ids, HandleOpen(req, id)
        PROVE  TypeOK'
    <3>1. /\ sessions' = OpenSession(sessions, req, id)
          /\ req.destination \in DOMAIN Destinations
      BY <2>1 DEF HandleOpen, OpenOutcome, KnownDestination
    <3>2. sessions' \in Tables  BY <2>0, <3>1, OpenSessionType
    <3>3. req.attempt \in AttemptIds  BY DEF Requests
    <3>4. ASSUME NEW x \in Ids, sessions'[x] # NoSession
          PROVE  /\ sessions'[x].destination \in DOMAIN Destinations
                 /\ sessions'[x].status = "Pending" => x \in AttemptIds
      <4>1. sessions'[x] = IF x = id THEN Entry(req, "Open")
                           ELSE IF x = req.attempt THEN Entry(req, "Pending")
                           ELSE sessions[x]
        BY <2>0, <3>1, AcceptedEntry
      <4> QED  BY <3>1, <3>3, <3>4, <4>1 DEF TypeOK, Entry
    <3> QED  BY <3>2, <3>4 DEF TypeOK
  <2>2. ASSUME NEW id \in Ids, HandleClose(id)
        PROVE  TypeOK'
    <3>1. sessions' \in Tables  BY <2>0, <2>2, CloseSessionType DEF HandleClose
    <3>2. /\ sessions[id] \in RelaySessions
          /\ sessions' = [sessions EXCEPT ![id].status = "Closed"]
      BY <2>0, <2>2 DEF HandleClose, CloseKnown, CloseSession, FrameClose, Tables
    <3>3. ASSUME NEW x \in Ids, sessions'[x] # NoSession
          PROVE  /\ sessions'[x].destination \in DOMAIN Destinations
                 /\ sessions'[x].status = "Pending" => x \in AttemptIds
      <4>1. CASE x = id
        <5>1. sessions[id] # NoSession  BY <2>2 DEF HandleClose, CloseKnown
        <5>2. /\ sessions'[x].status = "Closed"
              /\ sessions'[x].destination = sessions[id].destination
          BY <2>0, <3>2, <4>1 DEF Tables, RelaySessions
        <5> QED  BY <5>1, <5>2 DEF TypeOK
      <4>2. CASE x # id
        BY <2>0, <3>2, <3>3, <4>2 DEF Tables, TypeOK
      <4> QED  BY <4>1, <4>2
    <3> QED  BY <3>1, <3>3 DEF TypeOK
  <2>3. CASE Restart  BY <2>3 DEF Restart, TypeOK, EmptyTable, Tables
  <2>4. CASE UNCHANGED vars  BY <2>4 DEF vars, TypeOK
  <2> QED  BY <2>1, <2>2, <2>3, <2>4 DEF Next
<1> QED  BY <1>1, <1>2, PTL DEF Spec

(* The quotas hold in every reachable state of the relay, for any number   *)
(* of peers: open_session counts the open sessions of the source before it *)
(* adds one, and no other step opens a session of that peer.               *)
THEOREM QuotaCorrect == Spec => []QuotaRespected
<1>1. Init => QuotaRespected
  <2> SUFFICES ASSUME Init, NEW p \in DOMAIN Quotas
               PROVE  Cardinality(OpenOf(sessions, p)) <= Quotas[p]
    BY DEF QuotaRespected
  <2>1. OpenOf(sessions, p) = {}
    BY DEF Init, EmptyTable, OpenOf, OpenIds, HasStatus
  <2> QED  BY <2>1, FS_EmptySet, RelayAssumption
<1>2. TypeOK /\ QuotaRespected /\ [Next]_vars => QuotaRespected'
  <2> SUFFICES ASSUME TypeOK, QuotaRespected, [Next]_vars, NEW p \in DOMAIN Quotas
               PROVE  Cardinality(OpenOf(sessions', p)) <= Quotas[p]
    BY DEF QuotaRespected, OpenOf, OpenIds, HasStatus
  <2> USE DEF TypeOK
  <2>0. /\ Cardinality(OpenOf(sessions, p)) <= Quotas[p]
        /\ Quotas[p] \in Nat
        /\ Cardinality(OpenOf(sessions, p)) \in Nat
        /\ Cardinality(OpenOf(sessions', p)) \in Nat
    BY RelayAssumption, OpenOfFinite DEF QuotaRespected
  <2>1. ASSUME NEW req \in Requests, NEW id \in Ids, HandleOpen(req, id)
        PROVE  Cardinality(OpenOf(sessions', p)) <= Quotas[p]
    <3>1. sessions' = OpenSession(sessions, req, id) /\ WithinQuota(sessions, req)
      BY <2>1 DEF HandleOpen, OpenOutcome
    <3>2. CASE p = req.source
      <4>1. OpenOf(sessions', p) \subseteq OpenOf(sessions, p) \cup {id}
        BY <3>1, <3>2, OpenSessionOpens
      <4>2. /\ IsFiniteSet(OpenOf(sessions, p) \cup {id})
            /\ Cardinality(OpenOf(sessions, p) \cup {id})
                 <= Cardinality(OpenOf(sessions, p)) + 1
            /\ Cardinality(OpenOf(sessions, p) \cup {id}) \in Nat
        <5> DEFINE S == OpenOf(sessions, p)
        <5>1. IsFiniteSet(S) /\ Cardinality(S) \in Nat  BY OpenOfFinite
        <5>2. /\ IsFiniteSet(S \cup {id})
              /\ \/ Cardinality(S \cup {id}) = Cardinality(S)
                 \/ Cardinality(S \cup {id}) = Cardinality(S) + 1
          <6> HIDE DEF S
          <6> QED  BY <5>1, FS_AddElement
        <5> QED  BY <5>1, <5>2
      <4>3. Cardinality(OpenOf(sessions', p)) <= Cardinality(OpenOf(sessions, p) \cup {id})
        BY <4>1, <4>2, FS_Subset
      <4>4. Cardinality(OpenOf(sessions, p)) < Quotas[p]
        BY <3>1, <3>2 DEF WithinQuota
      <4> QED  BY <2>0, <4>2, <4>3, <4>4
    <3>3. CASE p # req.source
      <4>1. OpenOf(sessions', p) \subseteq OpenOf(sessions, p)
        BY <3>1, <3>3, OpenSessionOpens
      <4> QED  BY <2>0, <4>1, FewerRespect
    <3> QED  BY <3>2, <3>3
  <2>2. ASSUME NEW id \in Ids, HandleClose(id)
        PROVE  Cardinality(OpenOf(sessions', p)) <= Quotas[p]
    <3>1. OpenOf(sessions', p) \subseteq OpenOf(sessions, p)
      BY <2>2, CloseSessionOpensNothing DEF HandleClose
    <3> QED  BY <2>0, <3>1, FewerRespect
  <2>3. CASE Restart
    <3>1. OpenOf(sessions', p) = {}
      BY <2>3 DEF Restart, EmptyTable, OpenOf, OpenIds, HasStatus
    <3> QED  BY <2>0, <3>1, FS_EmptySet
  <2>4. CASE UNCHANGED vars
    BY <2>0, <2>4 DEF vars
  <2> QED  BY <2>1, <2>2, <2>3, <2>4 DEF Next
<1> QED  BY <1>1, <1>2, TypeCorrect, PTL DEF Spec

(* Until the relay restarts, an identifier is never opened a second time   *)
(* and an open session keeps its peers: open_session refuses an identifier *)
(* that is in the table, and close_session leaves the entry there.         *)
THEOREM NoReopenCorrect == Spec => NoReopen
<1>1. TypeOK /\ [Next]_vars => [NoReopenStep]_vars
  <2> SUFFICES ASSUME TypeOK, Next, NEW x \in Ids,
                      sessions[x] # NoSession, HasStatus(sessions', x, "Open")
               PROVE  sessions'[x] = sessions[x]
    BY DEF NoReopenStep
  <2>1. ASSUME NEW req \in Requests, NEW id \in Ids, HandleOpen(req, id)
        PROVE  sessions'[x] = sessions[x]
    <3>1. sessions' = OpenSession(sessions, req, id) /\ sessions[id] = NoSession
      BY <2>1 DEF HandleOpen, OpenOutcome
    <3>2. req.attempt \in Ids  BY RelayAssumption DEF Requests
    <3>3. x # id  BY <3>1
    <3>4. CASE x = req.attempt
      <4>1. sessions'[x] = Entry(req, "Pending")
        BY <3>1, <3>2, <3>3, <3>4
           DEF OpenSession, FrameSessionAccepted, FrameOpenSession, Tables, TypeOK
      <4> QED  BY <4>1 DEF Entry, HasStatus
    <3>5. CASE x # req.attempt
      BY <3>1, <3>2, <3>3, <3>5
         DEF OpenSession, FrameSessionAccepted, FrameOpenSession, Tables, TypeOK
    <3> QED  BY <3>4, <3>5
  <2>2. ASSUME NEW id \in Ids, HandleClose(id)
        PROVE  sessions'[x] = sessions[x]
    <3>1. sessions[id] \in RelaySessions
      BY <2>2 DEF HandleClose, CloseKnown, TypeOK, Tables
    <3>2. sessions' = [sessions EXCEPT ![id].status = "Closed"]
      BY <2>2 DEF HandleClose, CloseKnown, CloseSession, FrameClose
    <3>3. CASE x = id
      <4>1. sessions'[x].status = "Closed"
        BY <3>1, <3>2, <3>3 DEF TypeOK, Tables, RelaySessions
      <4> QED  BY <4>1 DEF HasStatus
    <3>4. CASE x # id  BY <3>2, <3>4 DEF TypeOK, Tables
    <3> QED  BY <3>3, <3>4
  <2>3. CASE Restart  BY <2>3 DEF Restart, EmptyTable, HasStatus
  <2> QED  BY <2>1, <2>2, <2>3 DEF Next
<1> QED  BY <1>1, TypeCorrect, PTL DEF Spec, NoReopen

-----------------------------------------------------------------------------
(* The relay implements the pool of sessions it promises its peers, for    *)
(* every set of peers, identifiers and quotas: accepting a request admits  *)
(* one session and takes its attempt's identifier, closing removes the     *)
(* session from whichever peer has it, and a restart loses all.            *)
THEOREM ImplementsPoolCorrect == Spec => ImplementsPool
<1>1. Init => Pool!Init
  BY DEF Init, Pool!Init, OpenByPeer, UsedIds, EmptyTable, OpenOf, OpenIds, HasStatus
<1>2. TypeOK /\ [Next]_vars => [Pool!Next]_(Pool!poolVars)
  <2> SUFFICES ASSUME TypeOK, [Next]_vars PROVE [Pool!Next]_(Pool!poolVars)  OBVIOUS
  <2>0. sessions \in Tables  BY DEF TypeOK
  <2>1. ASSUME NEW req \in Requests, NEW id \in Ids, HandleOpen(req, id)
        PROVE  Pool!Next
    <3>1. /\ sessions' = OpenSession(sessions, req, id)
          /\ WithinQuota(sessions, req)
          /\ sessions[id] = NoSession
      BY <2>1 DEF HandleOpen, OpenOutcome
    <3>2. req.source \in Peers /\ req.attempt \in Ids
      BY RelayAssumption DEF Requests
    <3>3. \A x \in Ids : sessions'[x] =
            IF x = id THEN Entry(req, "Open")
            ELSE IF x = req.attempt THEN Entry(req, "Pending")
            ELSE sessions[x]
      BY <2>0, <3>1, AcceptedEntry
    <3>4. \A s \in {"Open", "Pending"} :
            /\ Entry(req, s) # NoSession
            /\ Entry(req, s).status = s
            /\ Entry(req, s).source = req.source
      <4>1. \A s \in {"Open", "Pending"} : Entry(req, s) \in RelaySessions
        BY DEF Entry, Requests, RelaySessions
      <4> QED  BY <4>1, NoSessionAssumption DEF Entry
    <3>5. Pool!Below(req.source)
      <4>1. OpenByPeer[req.source] = OpenOf(sessions, req.source)
        BY <3>2 DEF OpenByPeer
      <4>2. req.source \in DOMAIN Quotas =>
              Cardinality(OpenByPeer[req.source]) < Quotas[req.source]
        BY <3>1, <4>1 DEF WithinQuota
      <4> QED  BY <4>2 DEF Pool!Below, Pool!Cardinality, Cardinality
    <3>6. id \notin UsedIds  BY <3>1 DEF UsedIds
    <3>7. UsedIds' = UsedIds \cup {id, req.attempt}
      BY <3>2, <3>3, <3>4 DEF UsedIds
    <3>8. ASSUME NEW q \in Peers
          PROVE  OpenOf(sessions', q) =
                   (OpenOf(sessions, q) \ {req.attempt})
                     \cup (IF q = req.source THEN {id} ELSE {})
      <4>1. ASSUME NEW x \in Ids
            PROVE  x \in OpenOf(sessions', q) <=>
                     \/ x \in OpenOf(sessions, q) \ {req.attempt}
                     \/ q = req.source /\ x = id
        <5>1. CASE x = id
          BY <3>1, <3>3, <3>4, <5>1 DEF OpenOf, OpenIds, HasStatus
        <5>2. CASE x # id /\ x = req.attempt
          BY <3>3, <3>4, <5>2 DEF OpenOf, OpenIds, HasStatus
        <5>3. CASE x # id /\ x # req.attempt
          BY <3>3, <5>3 DEF OpenOf, OpenIds, HasStatus
        <5> QED  BY <5>1, <5>2, <5>3
      <4>2. OpenOf(sessions', q) \subseteq Ids /\ OpenOf(sessions, q) \subseteq Ids
        BY DEF OpenOf, OpenIds
      <4> QED  BY <4>1, <4>2
    <3>9. OpenByPeer' = [q \in Peers |-> (OpenByPeer[q] \ {req.attempt})
                                          \cup (IF q = req.source THEN {id} ELSE {})]
      BY <3>8 DEF OpenByPeer, OpenOf, OpenIds, HasStatus
    <3>10. Pool!Admit(req.source, id, req.attempt)
      BY <3>5, <3>6, <3>7, <3>9 DEF Pool!Admit
    <3> QED  BY <3>2, <3>10 DEF Pool!Next
  <2>2. ASSUME NEW id \in Ids, HandleClose(id)
        PROVE  Pool!Next
    <3>1. sessions[id] # NoSession /\ sessions[id] \in RelaySessions
      BY <2>0, <2>2 DEF HandleClose, CloseKnown, Tables
    <3>2. sessions' = [sessions EXCEPT ![id] = [@ EXCEPT !.status = "Closed"]]
      BY <2>2, <3>1 DEF HandleClose, CloseKnown, CloseSession, FrameClose
    <3>3. /\ sessions'[id] # NoSession /\ sessions'[id].status = "Closed"
          /\ \A x \in Ids : x # id => sessions'[x] = sessions[x]
      <4>1. [sessions[id] EXCEPT !.status = "Closed"] \in RelaySessions
        BY <3>1 DEF RelaySessions
      <4>2. [sessions[id] EXCEPT !.status = "Closed"].status = "Closed"
        BY <3>1 DEF RelaySessions
      <4> QED  BY <2>0, <3>2, <4>1, <4>2, NoSessionAssumption DEF Tables
    <3>4. UsedIds' = UsedIds /\ id \in UsedIds  BY <3>1, <3>3 DEF UsedIds
    <3>5. ASSUME NEW q \in Peers
          PROVE  OpenOf(sessions', q) = OpenOf(sessions, q) \ {id}
      BY <3>3 DEF OpenOf, OpenIds, HasStatus
    <3>6. OpenByPeer' = [q \in Peers |-> OpenByPeer[q] \ {id}]
      BY <3>5 DEF OpenByPeer, OpenOf, OpenIds, HasStatus
    <3> QED  BY <3>4, <3>6 DEF Pool!Next, Pool!Close
  <2>3. CASE Restart
    <3>1. \A id \in Ids : sessions'[id] = NoSession  BY <2>3 DEF Restart, EmptyTable
    <3>2. Pool!LoseAll
      BY <3>1 DEF Pool!LoseAll, OpenByPeer, UsedIds, OpenOf, OpenIds, HasStatus
    <3> QED  BY <3>2 DEF Pool!Next
  <2>4. CASE UNCHANGED vars
    BY <2>4 DEF vars, Pool!poolVars, OpenByPeer, UsedIds, OpenOf, OpenIds, HasStatus
  <2> QED  BY <2>1, <2>2, <2>3, <2>4 DEF Next
<1> QED  BY <1>1, <1>2, TypeCorrect, PTL DEF Spec, ImplementsPool, Pool!Spec

=============================================================================
