------------------------ MODULE RelayRuntimeLemmas -------------------------
(***************************************************************************)
(* What opening and closing a session does to a relay's table: the facts   *)
(* the proofs about the relay and about the daemon's registry rest on.     *)
(***************************************************************************)
EXTENDS RelayRuntime, FiniteSetTheorems, TLAPS

(* The open sessions of a peer are a finite set.                           *)
LEMMA OpenOfFinite ==
  ASSUME NEW table, NEW p
  PROVE  /\ IsFiniteSet(OpenOf(table, p))
         /\ Cardinality(OpenOf(table, p)) \in Nat
<1>1. OpenOf(table, p) \subseteq Ids  BY DEF OpenOf, OpenIds
<1>2. IsFiniteSet(Ids)  BY RelayAssumption
<1> QED  BY <1>1, <1>2, FS_Subset, FS_CardinalityType

(* Accepting a request keeps the table a table.                            *)
LEMMA OpenSessionType ==
  ASSUME NEW table \in Tables, NEW req \in Requests, NEW id \in Ids
  PROVE  OpenSession(table, req, id) \in Tables
<1>1. Entry(req, "Pending") \in RelaySessions /\ Entry(req, "Open") \in RelaySessions
  BY DEF Entry, Requests, RelaySessions
<1>2. req.attempt \in Ids  BY RelayAssumption DEF Requests
<1> QED
  BY <1>1, <1>2 DEF OpenSession, FrameOpenSession, FrameSessionAccepted, Tables

(* Closing an identifier keeps the table a table.                          *)
LEMMA CloseSessionType ==
  ASSUME NEW table \in Tables, NEW id \in Ids
  PROVE  CloseSession(table, id) \in Tables
<1>1. CASE table[id] = NoSession
  BY <1>1 DEF CloseSession, FrameClose
<1>2. CASE table[id] # NoSession
  <2>1. table[id] \in RelaySessions  BY <1>2 DEF Tables
  <2>2. [table[id] EXCEPT !.status = "Closed"] \in RelaySessions
    BY <2>1 DEF RelaySessions
  <2> QED  BY <1>2, <2>2 DEF CloseSession, FrameClose, Tables
<1> QED  BY <1>1, <1>2

(* Accepting a request opens one session of its source and none of anyone  *)
(* else.                                                                   *)
LEMMA OpenSessionOpens ==
  ASSUME NEW table \in Tables, NEW req \in Requests, NEW id \in Ids, NEW p
  PROVE  OpenOf(OpenSession(table, req, id), p)
           \subseteq IF p = req.source THEN OpenOf(table, p) \cup {id} ELSE OpenOf(table, p)
<1> DEFINE new == OpenSession(table, req, id)
<1>1. req.attempt \in Ids  BY RelayAssumption DEF Requests
<1> SUFFICES ASSUME NEW x \in OpenOf(new, p)
             PROVE  x \in IF p = req.source THEN OpenOf(table, p) \cup {id}
                                            ELSE OpenOf(table, p)
  OBVIOUS
<1>2. x \in Ids /\ new[x].status = "Open" /\ new[x].source = p /\ new[x] # NoSession
  BY DEF OpenOf, OpenIds, HasStatus
<1>3. CASE x = id
  <2>1. new[x] = Entry(req, "Open")
    BY <1>1, <1>3 DEF OpenSession, FrameSessionAccepted, FrameOpenSession, Tables
  <2>2. new[x].source = req.source  BY <2>1 DEF Entry
  <2> QED  BY <1>2, <1>3, <2>2
<1>4. CASE x # id /\ x = req.attempt
  <2>1. new[x] = Entry(req, "Pending")
    BY <1>1, <1>4 DEF OpenSession, FrameSessionAccepted, FrameOpenSession, Tables
  <2> QED  BY <1>2, <2>1 DEF Entry
<1>5. CASE x # id /\ x # req.attempt
  <2>1. new[x] = table[x]
    BY <1>1, <1>2, <1>5 DEF OpenSession, FrameSessionAccepted, FrameOpenSession, Tables
  <2> QED  BY <1>2, <2>1 DEF OpenOf, OpenIds, HasStatus
<1> QED  BY <1>3, <1>4, <1>5

(* Closing opens nothing.                                                  *)
LEMMA CloseSessionOpensNothing ==
  ASSUME NEW table \in Tables, NEW id \in Ids, NEW p
  PROVE  OpenOf(CloseSession(table, id), p) \subseteq OpenOf(table, p)
<1> DEFINE new == CloseSession(table, id)
<1> SUFFICES ASSUME NEW x \in OpenOf(new, p) PROVE x \in OpenOf(table, p)
  OBVIOUS
<1>1. x \in Ids /\ new[x].status = "Open" /\ new[x].source = p /\ new[x] # NoSession
  BY DEF OpenOf, OpenIds, HasStatus
<1>2. CASE table[id] = NoSession
  BY <1>2 DEF CloseSession, FrameClose
<1>3. CASE table[id] # NoSession /\ x = id
  <2>1. table[id] \in RelaySessions  BY <1>3 DEF Tables
  <2>2. new[x] = [table[id] EXCEPT !.status = "Closed"]
    BY <1>3 DEF CloseSession, FrameClose, Tables
  <2>3. new[x].status = "Closed"  BY <2>1, <2>2 DEF RelaySessions
  <2> QED  BY <1>1, <2>3
<1>4. CASE table[id] # NoSession /\ x # id
  <2>1. new[x] = table[x]
    BY <1>1, <1>4 DEF CloseSession, FrameClose, Tables
  <2> QED  BY <1>1, <2>1 DEF OpenOf, OpenIds, HasStatus
<1> QED  BY <1>2, <1>3, <1>4

(* A smaller set of open sessions respects the same quota.                 *)
LEMMA FewerRespect ==
  ASSUME NEW t1, NEW t2, NEW p, OpenOf(t2, p) \subseteq OpenOf(t1, p)
  PROVE  Cardinality(OpenOf(t2, p)) <= Cardinality(OpenOf(t1, p))
BY OpenOfFinite, FS_Subset

(* Without regard to the source: opening adds one open identifier.         *)
LEMMA OpenSessionAddsOne ==
  ASSUME NEW table \in Tables, NEW req \in Requests, NEW id \in Ids
  PROVE  OpenIds(OpenSession(table, req, id)) \subseteq OpenIds(table) \cup {id}
<1> SUFFICES ASSUME NEW x \in OpenIds(OpenSession(table, req, id))
             PROVE  x \in OpenIds(table) \cup {id}
  OBVIOUS
<1> DEFINE p == OpenSession(table, req, id)[x].source
<1>1. x \in OpenOf(OpenSession(table, req, id), p)  BY DEF OpenOf
<1>2. OpenOf(OpenSession(table, req, id), p)
        \subseteq IF p = req.source THEN OpenOf(table, p) \cup {id} ELSE OpenOf(table, p)
  <2> HIDE DEF p
  <2> QED  BY OpenSessionOpens
<1>3. OpenOf(table, p) \subseteq OpenIds(table)  BY DEF OpenOf
<1> QED  BY <1>1, <1>2, <1>3

(* Without regard to the source: closing takes the identifier away and     *)
(* adds none.                                                              *)
LEMMA CloseSessionCloses ==
  ASSUME NEW table \in Tables, NEW id \in Ids
  PROVE  OpenIds(CloseSession(table, id)) \subseteq OpenIds(table) \ {id}
<1> DEFINE new == CloseSession(table, id)
<1> SUFFICES ASSUME NEW x \in OpenIds(new) PROVE x \in OpenIds(table) /\ x # id
  OBVIOUS
<1>1. x \in Ids /\ new[x] # NoSession /\ new[x].status = "Open"
  BY DEF OpenIds, HasStatus
<1>2. CASE table[id] = NoSession
  BY <1>1, <1>2 DEF CloseSession, FrameClose, OpenIds, HasStatus
<1>3. CASE table[id] # NoSession /\ x = id
  <2>1. table[id] \in RelaySessions  BY <1>3 DEF Tables
  <2>2. new[x] = [table[id] EXCEPT !.status = "Closed"]
    BY <1>3 DEF CloseSession, FrameClose, Tables
  <2>3. new[x].status = "Closed"  BY <2>1, <2>2 DEF RelaySessions
  <2> QED  BY <1>1, <2>3
<1>4. CASE table[id] # NoSession /\ x # id
  <2>1. new[x] = table[x]
    BY <1>1, <1>4 DEF CloseSession, FrameClose, Tables
  <2> QED  BY <1>1, <1>4, <2>1 DEF OpenIds, HasStatus
<1> QED  BY <1>2, <1>3, <1>4

(* Opening leaves every identifier as it is but the session's, which is    *)
(* open afterwards, and the attempt's.                                     *)
LEMMA OpenSessionElsewhere ==
  ASSUME NEW table \in Tables, NEW req \in Requests, NEW id \in Ids, NEW x \in Ids,
         x # req.attempt
  PROVE  /\ x # id => OpenSession(table, req, id)[x] = table[x]
         /\ id \in OpenIds(OpenSession(table, req, id))
<1> DEFINE new == OpenSession(table, req, id)
<1>1. req.attempt \in Ids  BY RelayAssumption DEF Requests
<1>2. x # id => new[x] = table[x]
  BY <1>1 DEF OpenSession, FrameSessionAccepted, FrameOpenSession, Tables
<1>3. new[id] = Entry(req, "Open")
  BY <1>1 DEF OpenSession, FrameSessionAccepted, FrameOpenSession, Tables
<1>4. Entry(req, "Open") \in RelaySessions /\ Entry(req, "Open").status = "Open"
  BY DEF Entry, Requests, RelaySessions
<1> QED  BY <1>2, <1>3, <1>4, NoSessionAssumption DEF OpenIds, HasStatus

(* Closing an identifier leaves every other one as it is, and forgets      *)
(* none.                                                                   *)
LEMMA CloseSessionElsewhere ==
  ASSUME NEW table \in Tables, NEW id \in Ids, NEW x \in Ids
  PROVE  /\ x # id => CloseSession(table, id)[x] = table[x]
         /\ table[x] # NoSession => CloseSession(table, id)[x] # NoSession
<1> DEFINE new == CloseSession(table, id)
<1>1. CASE table[id] = NoSession
  BY <1>1 DEF CloseSession, FrameClose
<1>2. CASE table[id] # NoSession
  <2>1. table[id] \in RelaySessions  BY <1>2 DEF Tables
  <2>2. [table[id] EXCEPT !.status = "Closed"] \in RelaySessions
    BY <2>1 DEF RelaySessions
  <2>3. new = [table EXCEPT ![id] = [table[id] EXCEPT !.status = "Closed"]]
    BY <1>2 DEF CloseSession, FrameClose
  <2>4. new[id] # NoSession  BY <2>2, <2>3, NoSessionAssumption DEF Tables
  <2>5. x # id => new[x] = table[x]  BY <2>3 DEF Tables
  <2> QED  BY <2>4, <2>5
<1> QED  BY <1>1, <1>2

=============================================================================
