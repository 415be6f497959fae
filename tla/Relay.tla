------------------------------- MODULE Relay --------------------------------
(***************************************************************************)
(* A relay process (crates/relay, cmd/relay).  One thread serves the HTTP  *)
(* control requests of all peers one after the other, so each request is   *)
(* one step.  Nothing is persisted: a restart begins with an empty table.  *)
(* A request that is refused, and the closing of an unknown session (404), *)
(* change nothing and are stuttering steps.                                *)
(***************************************************************************)
EXTENDS RelayRuntime

VARIABLE sessions   \* RelayRuntime.sessions

vars == sessions

(* The table is well typed, and an entry exists only for a request that    *)
(* open_session accepted: its destination is one the relay serves, and it  *)
(* is pending only under the identifier of a client's attempt.             *)
TypeOK ==
  /\ sessions \in Tables
  /\ \A id \in Ids :
       sessions[id] # NoSession =>
         /\ sessions[id].destination \in DOMAIN Destinations
         /\ sessions[id].status = "Pending" => id \in AttemptIds

Init == sessions = EmptyTable

\* A mutant: an identifier that is already in the table is accepted.
HandleOpenNoCheck(req, id) ==
  /\ OpenOutcome(sessions, req, id) \in {"Accepted", "SessionExists"}
  /\ sessions' = OpenSession(sessions, req, id)

\* A mutant: the first frame is applied before the request is checked, so
\* that a refused request leaves a pending entry.
HandleOpenFrameFirst(req, id) ==
  sessions' = IF OpenOutcome(sessions, req, id) = "Accepted"
              THEN OpenSession(sessions, req, id)
              ELSE FrameOpenSession(sessions, req)

\* POST /sessions
HandleOpen(req, id) ==
  /\ OpenOutcome(sessions, req, id) = "Accepted"
  /\ sessions' = OpenSession(sessions, req, id)

\* DELETE /sessions/<id>: 204 for a session in any state, 404 otherwise.
HandleClose(id) ==
  /\ CloseKnown(sessions, id)
  /\ sessions' = CloseSession(sessions, id)

Restart == sessions' = EmptyTable

Next ==
  \/ \E req \in Requests, id \in Ids : HandleOpen(req, id)
  \/ \E id \in Ids : HandleClose(id)
  \/ Restart

Spec == Init /\ [][Next]_vars

-----------------------------------------------------------------------------
(* The quota of a peer bounds its open sessions at all times, whatever     *)
(* requests of other peers come between, and although the pending entries  *)
(* that open_session leaves behind may replace entries of other sessions.  *)
QuotaRespected ==
  \A p \in DOMAIN Quotas : Cardinality(OpenOf(sessions, p)) <= Quotas[p]

(* An identifier is open for one pair of peers only: until the relay       *)
(* restarts, an entry that is not open never becomes open again, and one   *)
(* that stays open keeps its source and its destination.                   *)
NoReopenStep ==
  \A id \in Ids :
    sessions[id] # NoSession /\ HasStatus(sessions', id, "Open")
      => sessions'[id] = sessions[id]

NoReopen == [][NoReopenStep]_vars

-----------------------------------------------------------------------------
(* The table as the peers see it: which of their sessions are open, and    *)
(* which identifiers have an entry.                                        *)
OpenByPeer == [p \in Peers |-> OpenOf(sessions, p)]
UsedIds == {id \in Ids : sessions[id] # NoSession}

Pool == INSTANCE SessionPool WITH open <- OpenByPeer, used <- UsedIds

(* The relay implements the pool: each request of open_session and         *)
(* close_session, with its two frames, is one step of the pool or none.    *)
ImplementsPool == Pool!Spec

=============================================================================
