----------------------------- MODULE Transport ------------------------------
(***************************************************************************)
(* The runtime session registry of quipd (crates/quic,                     *)
(* QuicTransportAdapter) together with the relay it opens transport        *)
(* sessions at.                                                            *)
(*                                                                         *)
(* The daemon's cycle thread and its control-server thread share the       *)
(* adapter.  Every registry has a lock of its own that is released between *)
(* the steps of an operation and while an HTTP request to the relay is     *)
(* under way, so connect, migrate and close_session are sequences of steps *)
(* that interleave.  An HTTP request may be lost before the relay sees it, *)
(* its answer may be lost after the relay has acted, and the relay may     *)
(* restart with an empty table.                                            *)
(*                                                                         *)
(* The session id is a hash of the peer, the protocol and the class, so a  *)
(* key of Keys names both the target and the session.  Runtime events and  *)
(* timestamps are left out.                                                *)
(***************************************************************************)
EXTENDS RelayRuntime, Sequences

CONSTANTS
  Threads,
  Keys,           \* (peer, protocol, class): one logical session id each
  Target,         \* [Keys -> the peer, protocol and class a key stands for]
  LocalPeer,
  DirectKinds,    \* the path kinds other than Relay
  Causes,         \* session closure reasons
  NoCause,
  CallerStates,   \* the states the daemon's callers put a session into
  NoId,           \* no relay transport session
  MaxTerminal     \* MAX_TERMINAL_SESSIONS

PathKinds == DirectKinds \cup {"relay"}

\* A route without a usable endpoint, or for another identity, is unusable.
Routes == PathKinds \cup {"unusable"}

SessionStates ==
  {"Active", "Degraded", "Migrating", "Reconciling", "Closing", "Closed", "Failed"}

ASSUME TransportAssumption ==
  /\ Keys # {}
  /\ Target \in [Keys -> [destination : Peers,
                          protocol    : Protocols \cup {NoProtocol},
                          class       : Classes]]
  /\ LocalPeer \in Peers
  /\ DirectKinds \cap {"relay", "unusable"} = {}
  /\ CallerStates \subseteq SessionStates
  /\ NoId \notin Ids
  /\ NoCause \notin Causes
  /\ MaxTerminal \in Nat \ {0}

(* A SessionSnapshot: its state, its path kind, the transport session at   *)
(* the relay and the closure reason.                                       *)
Snapshots ==
  [state : SessionStates,
   kind  : PathKinds,
   tsid  : Ids \cup {NoId},
   cause : Causes \cup {NoCause}]

ASSUME NoSnapshotAssumption == NoSession \notin Snapshots

VARIABLES
  runtime,     \* runtime_sessions
  terminal,    \* terminal_sessions, oldest first
  suppressed,  \* reconnect_suppressions
  relay,       \* the relay's session table
  call,        \* what each thread is executing
  lost         \* history: relay ids whose fate a failure left open

vars == <<runtime, terminal, suppressed, relay, call, lost>>

(* The locals of an operation: where it is, the session it is about, the   *)
(* kind of route, the transport session it opened, the snapshot it read,   *)
(* replaced or removed, and the closure reason it carries.                 *)
Pcs == {"idle", "existing", "open", "closeOld", "insert", "closePrev",
        "mark", "remove", "closeRemoved", "record"}

Calls ==
  [pc    : Pcs,
   op    : {"connect", "migrate", "close"},
   key   : Keys,
   route : Routes,
   tsid  : Ids \cup {NoId},
   snap  : Snapshots \cup {NoSession},
   cause : Causes \cup {NoCause}]

\* A closed session in the ledger; its state is Closed.
LedgerEntries == [key : Keys, cause : Causes \cup {NoCause}]

IsRelay(snap) == snap # NoSession /\ snap.kind = "relay"

RegistryTypeOK ==
  /\ runtime \in [Keys -> Snapshots \cup {NoSession}]
  /\ suppressed \subseteq Keys
  /\ relay \in Tables
  /\ call \in [Threads -> Calls]
  /\ lost \subseteq Ids

(* The ledger is bounded and has one entry per session.                    *)
TypeOK ==
  /\ RegistryTypeOK
  /\ terminal \in Seq(LedgerEntries)
  /\ Len(terminal) <= MaxTerminal
  /\ \A i, j \in DOMAIN terminal : terminal[i].key = terminal[j].key => i = j

\* The locals of a thread that executes nothing; `key' is of no account.
Idle ==
  [pc |-> "idle", op |-> "connect", key |-> CHOOSE k \in Keys : TRUE, route |-> "unusable",
   tsid |-> NoId, snap |-> NoSession, cause |-> NoCause]

Init ==
  /\ runtime = [k \in Keys |-> NoSession]
  /\ terminal = <<>>
  /\ suppressed = {}
  /\ relay = EmptyTable
  /\ call = [t \in Threads |-> Idle]
  /\ lost = {}

-----------------------------------------------------------------------------
(* Thread-local control.                                                   *)

At(t, pc) == call[t].pc = pc

Goto(t, c, pc) == call' = [call EXCEPT ![t] = [c EXCEPT !.pc = pc]]

\* The operation returns, with or without an error; its locals are gone.
Return(t) == call' = [call EXCEPT ![t] = Idle]

Begin(t, op, k, route, cause, pc) ==
  call' = [call EXCEPT ![t] =
             [pc |-> pc, op |-> op, key |-> k, route |-> route,
              tsid |-> NoId, snap |-> NoSession, cause |-> cause]]

\* The ids a thread holds that nobody else knows of.
Held(c) ==
  (IF c.pc \in {"closeOld", "insert"} /\ c.tsid # NoId THEN {c.tsid} ELSE {})
  \cup (IF c.pc \in {"closePrev", "closeRemoved"} THEN {c.snap.tsid} ELSE {})

-----------------------------------------------------------------------------
(* HTTP requests to the relay (HttpRelayControl).                          *)

RelayRequest(k, attempt) ==
  [attempt     |-> attempt,
   source      |-> LocalPeer,
   destination |-> Target[k].destination,
   protocol    |-> Target[k].protocol,
   class       |-> Target[k].class,
   proof       |-> TRUE]

\* Session ids and attempt ids are independent 128-bit random values; a
\* session id that equals an attempt id is left out.
OpenAccepted(k, id) ==
  \E attempt \in AttemptIds :
    /\ OpenOutcome(relay, RelayRequest(k, attempt), id) = "Accepted"
    /\ relay' = OpenSession(relay, RelayRequest(k, attempt), id)

\* Every answer other than 200, and a request that was never delivered.
OpenFails == UNCHANGED relay

CloseAccepted(id) ==
  /\ CloseKnown(relay, id)
  /\ relay' = CloseSession(relay, id)

\* The request is not delivered, the relay does not know the session, or the
\* answer is lost after the relay has closed it.
CloseFails(id) == relay' \in {relay, CloseSession(relay, id)}

-----------------------------------------------------------------------------
(* update_session_state, suppress_reconnect, clear_reconnect_suppression:  *)
(* one lock, one step.                                                     *)

WithState(snap, state, cause) == [snap EXCEPT !.state = state, !.cause = cause]

UpdateState(k, state, cause) ==
  runtime' = IF runtime[k] = NoSession
             THEN runtime
             ELSE [runtime EXCEPT ![k] = WithState(@, state, cause)]

SetState(t, k, state, cause) ==
  /\ At(t, "idle")
  /\ UpdateState(k, state, cause)
  /\ UNCHANGED <<terminal, suppressed, relay, call, lost>>

Suppress(t, k) ==
  /\ At(t, "idle")
  /\ suppressed' = suppressed \cup {k}
  /\ UNCHANGED <<runtime, terminal, relay, call, lost>>

Unsuppress(t, k) ==
  /\ At(t, "idle")
  /\ suppressed' = suppressed \ {k}
  /\ UNCHANGED <<runtime, terminal, relay, call, lost>>

-----------------------------------------------------------------------------
(* connect                                                                 *)

\* find_reconnect_suppression; a suppressed key is refused on the spot.
BeginConnect(t, k, route) ==
  /\ At(t, "idle")
  /\ k \notin suppressed
  /\ Begin(t, "connect", k, route, NoCause, "open")
  /\ UNCHANGED <<runtime, terminal, suppressed, relay, lost>>

AfterOpen(op) == IF op = "connect" THEN "insert" ELSE "closeOld"

\* direct_session_snapshot: no I/O.
OpenDirect(t) ==
  /\ At(t, "open")
  /\ call[t].route \in DirectKinds
  /\ Goto(t, call[t], AfterOpen(call[t].op))
  /\ UNCHANGED <<runtime, terminal, suppressed, relay, lost>>

\* direct_session_snapshot and relay_session_snapshot: an error before any I/O.
OpenInvalid(t) ==
  /\ At(t, "open")
  /\ call[t].route = "unusable"
  /\ Return(t)
  /\ UNCHANGED <<runtime, terminal, suppressed, relay, lost>>

\* relay_session_snapshot: the relay opens a session and the answer arrives.
OpenRelay(t, id) ==
  /\ At(t, "open")
  /\ call[t].route = "relay"
  /\ OpenAccepted(call[t].key, id)
  /\ Goto(t, [call[t] EXCEPT !.tsid = id], AfterOpen(call[t].op))
  /\ UNCHANGED <<runtime, terminal, suppressed, lost>>

\* relay_session_snapshot: the relay opens a session, the answer is lost.
OpenRelayAnswerLost(t, id) ==
  /\ At(t, "open")
  /\ call[t].route = "relay"
  /\ OpenAccepted(call[t].key, id)
  /\ lost' = lost \cup {id}
  /\ Return(t)
  /\ UNCHANGED <<runtime, terminal, suppressed>>

\* relay_session_snapshot: refused, or not delivered.
OpenRelayFails(t) ==
  /\ At(t, "open")
  /\ call[t].route = "relay"
  /\ OpenFails
  /\ Return(t)
  /\ UNCHANGED <<runtime, terminal, suppressed, lost>>

NewSnapshot(c) ==
  [state |-> "Active",
   kind  |-> c.route,
   tsid  |-> c.tsid,
   cause |-> NoCause]

\* A mutant: replacing a session does not look at the one it replaces.
NeverReplaces(previous, new) == FALSE

\* The transport session of `previous' is not the one of `new'.
Replaces(previous, new) ==
  /\ IsRelay(previous)
  /\ previous.tsid # new.tsid \/ new.kind # "relay"

\* upsert_runtime_session: the insertion.
Insert(t) ==
  LET c == call[t]
      previous == runtime[c.key]
      new == NewSnapshot(c)
  IN  /\ At(t, "insert")
      /\ runtime' = [runtime EXCEPT ![c.key] = new]
      /\ IF Replaces(previous, new)
         THEN Goto(t, [c EXCEPT !.snap = previous], "closePrev")
         ELSE Return(t)
      /\ UNCHANGED <<terminal, suppressed, relay, lost>>

\* upsert_runtime_session: the replaced transport session is closed after the
\* registry lock is released.
ClosePrev(t) ==
  /\ At(t, "closePrev")
  /\ CloseAccepted(call[t].snap.tsid)
  /\ Return(t)
  /\ UNCHANGED <<runtime, terminal, suppressed, lost>>

\* The operation fails and leaves the new session registered.
ClosePrevFails(t) ==
  /\ At(t, "closePrev")
  /\ CloseFails(call[t].snap.tsid)
  /\ lost' = lost \cup {call[t].snap.tsid}
  /\ Return(t)
  /\ UNCHANGED <<runtime, terminal, suppressed>>

-----------------------------------------------------------------------------
(* migrate                                                                 *)

BeginMigrate(t, k, route) ==
  /\ At(t, "idle")
  /\ UpdateState(k, "Migrating", NoCause)
  /\ Begin(t, "migrate", k, route, NoCause, "existing")
  /\ UNCHANGED <<terminal, suppressed, relay, lost>>

ReadExisting(t) ==
  LET existing == runtime[call[t].key]
  IN  /\ At(t, "existing")
      /\ existing # NoSession
      /\ Goto(t, [call[t] EXCEPT !.snap = existing], "open")
      /\ UNCHANGED <<runtime, terminal, suppressed, relay, lost>>

NotOwned(t) ==
  /\ At(t, "existing")
  /\ runtime[call[t].key] = NoSession
  /\ Return(t)
  /\ UNCHANGED <<runtime, terminal, suppressed, relay, lost>>

\* The previous transport session is closed before the new one is registered.
CloseOld(t) ==
  LET c == call[t]
  IN  /\ At(t, "closeOld")
      /\ IF Replaces(c.snap, NewSnapshot(c))
         THEN CloseAccepted(c.snap.tsid)
         ELSE UNCHANGED relay
      /\ Goto(t, c, "insert")
      /\ UNCHANGED <<runtime, terminal, suppressed, lost>>

\* The migration fails and drops the new transport session.
CloseOldFails(t) ==
  LET c == call[t]
  IN  /\ At(t, "closeOld")
      /\ Replaces(c.snap, NewSnapshot(c))
      /\ CloseFails(c.snap.tsid)
      /\ lost' = lost \cup {c.snap.tsid} \cup Held(c)
      /\ Return(t)
      /\ UNCHANGED <<runtime, terminal, suppressed>>

-----------------------------------------------------------------------------
(* close_session                                                           *)

\* `cause' is the closure reason of the snapshot the caller holds; the one
\* found in the registry wins.
BeginClose(t, k, cause) ==
  /\ At(t, "idle")
  /\ Begin(t, "close", k, "unusable",
           IF runtime[k] # NoSession /\ runtime[k].cause # NoCause
           THEN runtime[k].cause ELSE cause, "mark")
  /\ UNCHANGED <<runtime, terminal, suppressed, relay, lost>>

MarkClosing(t) ==
  /\ At(t, "mark")
  /\ UpdateState(call[t].key, "Closing", call[t].cause)
  /\ Goto(t, call[t], "remove")
  /\ UNCHANGED <<terminal, suppressed, relay, lost>>

\* A mutant: the session is looked up, and stays registered.
RemoveLooksUp(t) ==
  LET c == call[t]
      active == runtime[c.key]
  IN  /\ At(t, "remove")
      /\ IF active = NoSession
         THEN Return(t)
         ELSE Goto(t, [c EXCEPT !.snap = active],
                   IF IsRelay(active) THEN "closeRemoved" ELSE "record")
      /\ UNCHANGED <<runtime, terminal, suppressed, relay, lost>>

\* remove_runtime_session
Remove(t) ==
  LET c == call[t]
      active == runtime[c.key]
  IN  /\ At(t, "remove")
      /\ IF active = NoSession
         THEN Return(t) /\ UNCHANGED runtime
         ELSE /\ runtime' = [runtime EXCEPT ![c.key] = NoSession]
              /\ Goto(t, [c EXCEPT !.snap = active],
                      IF IsRelay(active) THEN "closeRemoved" ELSE "record")
      /\ UNCHANGED <<terminal, suppressed, relay, lost>>

CloseRemoved(t) ==
  /\ At(t, "closeRemoved")
  /\ CloseAccepted(call[t].snap.tsid)
  /\ Goto(t, call[t], "record")
  /\ UNCHANGED <<runtime, terminal, suppressed, lost>>

\* The operation fails before the session reaches the ledger.
CloseRemovedFails(t) ==
  /\ At(t, "closeRemoved")
  /\ CloseFails(call[t].snap.tsid)
  /\ lost' = lost \cup {call[t].snap.tsid}
  /\ Return(t)
  /\ UNCHANGED <<runtime, terminal, suppressed>>

\* A mutant: an earlier entry of the session stays.
RecordAppends(ledger, entry) ==
  LET all == Append(ledger, entry)
  IN  SubSeq(all, IF Len(all) > MaxTerminal THEN Len(all) - MaxTerminal + 1 ELSE 1, Len(all))

\* VecDeque::retain: the entries of the other sessions, in their order.
Retain(ledger, key) ==
  LET kept[i \in 0..Len(ledger)] ==
        IF i = 0 THEN <<>>
        ELSE IF ledger[i].key = key THEN kept[i - 1]
        ELSE Append(kept[i - 1], ledger[i])
  IN  kept[Len(ledger)]

\* record_terminal_session
RecordTerminal(ledger, entry) ==
  LET all == Append(Retain(ledger, entry.key), entry)
  IN  SubSeq(all, IF Len(all) > MaxTerminal THEN Len(all) - MaxTerminal + 1 ELSE 1, Len(all))

Record(t) ==
  LET c == call[t]
  IN  /\ At(t, "record")
      /\ terminal' = RecordTerminal(terminal, [key |-> c.key, cause |-> c.snap.cause])
      /\ Return(t)
      /\ UNCHANGED <<runtime, suppressed, relay, lost>>

-----------------------------------------------------------------------------
(* The relay restarts: what it knew is gone.                               *)

RelayRestart ==
  /\ relay' = EmptyTable
  /\ lost' = lost \cup {id \in Ids : relay[id] # NoSession}
  /\ UNCHANGED <<runtime, terminal, suppressed, call>>

-----------------------------------------------------------------------------
CallerStep(t) ==
  \/ \E k \in Keys, s \in CallerStates, w \in Causes \cup {NoCause} : SetState(t, k, s, w)
  \/ \E k \in Keys : Suppress(t, k) \/ Unsuppress(t, k)
  \/ \E k \in Keys, r \in Routes : BeginConnect(t, k, r) \/ BeginMigrate(t, k, r)
  \/ \E k \in Keys, w \in Causes \cup {NoCause} : BeginClose(t, k, w)

\* The steps that lead on to a result, and the ones that end in an error.
Proceeds(t) ==
  \/ OpenDirect(t)
  \/ \E id \in Ids \ AttemptIds : OpenRelay(t, id)
  \/ Insert(t)
  \/ ClosePrev(t)
  \/ ReadExisting(t)
  \/ CloseOld(t)
  \/ MarkClosing(t)
  \/ Remove(t)
  \/ CloseRemoved(t)
  \/ Record(t)

Fails(t) ==
  \/ OpenInvalid(t)
  \/ \E id \in Ids \ AttemptIds : OpenRelayAnswerLost(t, id)
  \/ OpenRelayFails(t)
  \/ ClosePrevFails(t)
  \/ NotOwned(t)
  \/ CloseOldFails(t)
  \/ CloseRemovedFails(t)

AdapterStep(t) == Proceeds(t) \/ Fails(t)

Next == RelayRestart \/ \E t \in Threads : CallerStep(t) \/ AdapterStep(t)

Spec == Init /\ [][Next]_vars

-----------------------------------------------------------------------------
Referenced == {runtime[k].tsid : k \in {j \in Keys : IsRelay(runtime[j])}}

(* No transport session stays open at the relay behind the daemon's back:  *)
(* an open one is the path of a registered session, is in the hands of a   *)
(* thread that will register or close it, or was left by a failed request. *)
(* Connects, migrations and closes of one session by two threads replace   *)
(* and remove each other's paths without forgetting to close them.         *)
NoOrphan ==
  OpenIds(relay) \subseteq
    Referenced \cup lost \cup UNION {Held(call[t]) : t \in Threads}

(* What the steps of an operation know of its locals and of the registry:  *)
(* a snapshot has a transport session at the relay exactly if its path is  *)
(* a relay path, and an operation that is about to close one holds it.     *)
WellFormed(snap) == snap \in Snapshots /\ (snap.kind = "relay" <=> snap.tsid \in Ids)

CallShape(c) ==
  /\ c.pc = "existing" => c.op = "migrate"
  /\ c.pc = "open" => c.op \in {"connect", "migrate"}
  /\ c.pc \in {"open", "closeOld", "insert"} /\ c.op = "migrate" => WellFormed(c.snap)
  /\ c.pc = "closeOld" => c.op = "migrate"
  /\ c.pc \in {"closeOld", "insert"} =>
       c.route \in PathKinds /\ (c.route = "relay" <=> c.tsid \in Ids)
  /\ c.pc \in {"existing", "open"} => c.tsid = NoId
  /\ c.pc \in {"closePrev", "closeRemoved"} => WellFormed(c.snap) /\ c.snap.kind = "relay"
  /\ c.pc = "record" => WellFormed(c.snap)

Shape ==
  /\ \A k \in Keys : runtime[k] # NoSession => WellFormed(runtime[k])
  /\ \A t \in Threads : CallShape(call[t])

(* The other direction: the path of a registered session is open at the    *)
(* relay, unless a failed request or a restart of the relay touched it or  *)
(* a migration that has closed it is about to register its replacement.    *)
Superseded(k) ==
  {call[t].snap.tsid : t \in {u \in Threads : /\ At(u, "insert")
                                            /\ call[u].op = "migrate"
                                            /\ call[u].key = k}}

RegistryServed ==
  \A k \in Keys :
    IsRelay(runtime[k]) =>
      runtime[k].tsid \in OpenIds(relay) \cup lost \cup Superseded(k)

(* A migration ends in an error if the session is no longer registered     *)
(* (docs/runtime-lifecycle.md: "fail clearly if the runtime no longer owns *)
(* the referenced session"): it never registers a session that was closed  *)
(* while the migration was under way.                                      *)
MigrationKeepsOwnership ==
  [][\A t \in Threads :
       /\ At(t, "insert")
       /\ call[t].op = "migrate"
       /\ runtime[call[t].key] = NoSession
       => runtime'[call[t].key] = NoSession]_vars

=============================================================================
