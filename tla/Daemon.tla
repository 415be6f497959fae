------------------------------- MODULE Daemon -------------------------------
(***************************************************************************)
(* The daemon (cmd/quipd and LocalControlPlane of crates/fabric) above the *)
(* session registry of module Transport.                                   *)
(*                                                                         *)
(* Two threads run: the cycle thread (run, run_cycle) and the control      *)
(* server, which serves one operator request at a time.  Both read and     *)
(* write state.json without a lock: an operation loads the file, acts on   *)
(* the registry, possibly waits for the network, and saves what it loaded. *)
(*                                                                         *)
(* The durable facts (membership, grants, revocations, paths) are one      *)
(* version number: what the authority publishes, what the file holds and   *)
(* what an operation has loaded are versions, and a version decides        *)
(* whether the target is allowed and along which route.  There is one      *)
(* target (peer, protocol, class), so the loops over the sessions visit    *)
(* one session at most.  Errors of file I/O are left out.  Module          *)
(* Authority takes the synchronisation apart.                              *)
(***************************************************************************)
EXTENDS Transport

CONSTANTS
  Cycle, Control,  \* the two threads
  Key,             \* the target
  MaxVersion,      \* bound: how often the authority publishes
  Allowing,        \* the versions whose policy allows the target
  Denying,         \* the versions whose policy denies the daemon itself
  Granting,        \* the versions that grant the daemon its listener's protocol
  RouteOf,         \* [version -> the route its paths yield]
  NoRoute,
  Migratable,      \* the path kinds whose sessions are migration capable
  MaxAttempts,     \* RECONNECT_MAX_ATTEMPTS
  NoAttempt,
  SyncArg,         \* --sync
  DisableReconcile,\* --disable-reconcile
  MaxRequests      \* bound: requests of operators and network changes

Versions == 0 .. MaxVersion

ASSUME DaemonAssumption ==
  /\ Threads = {Cycle, Control} /\ Cycle # Control
  /\ Keys = {Key}
  /\ MaxVersion \in Nat /\ MaxRequests \in Nat
  /\ Allowing \subseteq Versions /\ Denying \subseteq Versions
  /\ Granting \subseteq Versions
  /\ NoRoute \notin Routes
  /\ RouteOf \in [Versions -> Routes \cup {NoRoute}]
  /\ Migratable \subseteq PathKinds
  /\ MaxAttempts \in Nat \ {0}
  /\ SyncArg \in BOOLEAN /\ DisableReconcile \in BOOLEAN
  /\ {"OperatorRequested", "PolicyRejected", "PathExhaustion", "LocalRuntimeFailure"} = Causes
  /\ {"Active", "Degraded", "Migrating", "Reconciling", "Closing", "Failed"} = CallerStates

VARIABLES
  published,  \* the authority's snapshot
  file,       \* state.json
  dirty,      \* watched files whose fingerprint is not the monitor's baseline
  attempt,    \* reconnect_attempts
  listener,   \* the state of a listener in runtime_listeners
  completed,  \* what the last event of a completed reevaluation says
  prog,       \* what each thread is executing above the registry
  requests,   \* requests so far
  up          \* the process runs

daemonVars == <<published, file, dirty, attempt, listener, completed, prog, requests, up>>
allVars == <<vars, daemonVars>>

Operations == {"sync", "persist", "reeval", "gather", "reconcile", "target", "baseline",
               "realize", "close", "upgrade"}

Steps == Operations \cup
  {"wait", "save", "quit",
   "evalSession", "evalSuppress", "evalMark", "evalClose", "evalClosing", "evalUnsuppress",
   "evalRoute", "evalMigrate", "evalMigrating", "evalFail", "evalFailClose",
   "evalFailClosing", "evalFailSuppress", "evalListeners", "evalComplete",
   "recSessions", "recMark", "recRead", "recDecide", "recClose", "recClosing",
   "recMigrate", "recMigrating", "recFail",
   "connect", "connecting", "connected", "connectFailed",
   "clsRead", "clsMark", "clsClose", "clsClosing",
   "upgRead", "upgDeny", "upgMark", "upgRoute", "upgrading"}

(* The locals of a thread: the operations still to do, the loaded state,   *)
(* the session it has read and whether run_cycle's copy of the state lists *)
(* a session.                                                              *)
Programs ==
  [pc   : Steps,
   todo : Seq(Operations \cup {"connected"}),
   st   : Versions,
   snap : Snapshots \cup {NoSession},
   seen : BOOLEAN]

Waiting == [pc |-> "wait", todo |-> <<>>, st |-> 0, snap |-> NoSession, seen |-> FALSE]

Attempts ==
  [count : 1 .. MaxAttempts, state : {"BackingOff", "Failed"}, due : BOOLEAN]

(* A retry that has failed for good has used up its attempts, and no       *)
(* other one has.                                                          *)
DaemonTypeOK ==
  /\ TypeOK
  /\ published \in Versions
  /\ file \in 0 .. published
  /\ dirty \subseteq {"state", "snapshot", "network"}
  /\ attempt \in Attempts \cup {NoAttempt}
  /\ attempt # NoAttempt => (attempt.state = "Failed" <=> attempt.count = MaxAttempts)
  /\ listener \in {"Active", "Suppressed"}
  /\ completed \in {"never", "allowed", "denied"}
  /\ prog \in [Threads -> Programs]
  /\ requests \in 0 .. MaxRequests
  /\ up \in BOOLEAN

\* The policy of the facts of version v allows the target.
Allowed(v) == v \in Allowing

\* local_policy_reason: what the facts deny to the daemon itself.
LocallyDenied(v) == v \in Denying

\* The enforced reason of a listener: the daemon is denied, or
\* explain_local_protocol_policy finds no grant for the listener's protocol.
ListenerBarred(v) == LocallyDenied(v) \/ v \notin Granting

\* session_matches_route: a route without endpoints matches no session.
Matches(snap, route) == snap.kind = route

-----------------------------------------------------------------------------
(* Control of a thread.                                                    *)

\* Thread t is about to execute step pc.
On(t, pc) == up /\ prog[t].pc = pc /\ At(t, "idle")

\* The operation returns; the thread goes on with what is left to do.
After(p) ==
  IF p.todo = <<>>
  THEN Waiting
  ELSE [Waiting EXCEPT !.pc = Head(p.todo), !.todo = Tail(p.todo), !.seen = p.seen]

Enter(p, pc) == IF pc = "return" THEN After(p) ELSE [p EXCEPT !.pc = pc]

\* A cycle begins with the operations its trigger calls for.
CycleOf(todo) == After([Waiting EXCEPT !.todo = todo])

\* A mutant: --sync is looked at when the daemon starts only.
RefreshPersists == <<"persist", "reeval", "gather">>

\* refresh_state, for the triggers Startup and IntervalElapsed.
Refresh == <<IF SyncArg THEN "sync" ELSE "persist", "reeval", "gather">>

(* initialize_state has put the facts of version 0 into the file, and the  *)
(* first cycle has the trigger Startup.                                    *)
DaemonInit ==
  /\ Init
  /\ published = 0
  /\ file = 0
  /\ dirty = {}
  /\ attempt = NoAttempt
  /\ listener = "Active"
  /\ completed = "never"
  /\ prog = [t \in Threads |-> IF t = Cycle THEN CycleOf(Refresh) ELSE Waiting]
  /\ requests = 0
  /\ up = TRUE

Become(t, p, pc) == prog' = [prog EXCEPT ![t] = Enter(p, pc)]

To(t, pc) == Become(t, prog[t], pc)

\* Steps that leave the registry alone, and the durable side alone.
RegistryUnchanged == UNCHANGED <<vars, listener, completed>>
DurableUnchanged == UNCHANGED <<published, file, dirty, attempt, listener, completed, requests, up>>

\* ensure_state: the operation loads state.json.
Load(t, pc, next) ==
  /\ On(t, pc)
  /\ Become(t, [prog[t] EXCEPT !.st = file], next)
  /\ RegistryUnchanged /\ DurableUnchanged

\* transport.session_snapshot, or active_sessions: `absent' and `present' are
\* the steps that follow.
Read(t, pc, absent, present) ==
  LET snap == runtime[Key]
  IN  /\ On(t, pc)
      /\ Become(t, [prog[t] EXCEPT !.snap = snap], IF snap = NoSession THEN absent ELSE present)
      /\ RegistryUnchanged /\ DurableUnchanged

\* transport.update_session_state
Mark(t, pc, state, cause, next) ==
  /\ On(t, pc)
  /\ SetState(t, Key, state, cause)
  /\ To(t, next)
  /\ DurableUnchanged

\* transport.suppress_reconnect
SuppressTarget(t, pc, next) ==
  /\ On(t, pc)
  /\ Suppress(t, Key)
  /\ To(t, next)
  /\ DurableUnchanged

\* transport.close_session with the snapshot read before.
Close(t, pc, next) ==
  /\ On(t, pc)
  /\ BeginClose(t, Key, prog[t].snap.cause)
  /\ To(t, next)
  /\ DurableUnchanged

\* transport.migrate along the route of the loaded state.
Migrate(t, pc, next) ==
  /\ On(t, pc)
  /\ BeginMigrate(t, Key, RouteOf[prog[t].st])
  /\ To(t, next)
  /\ DurableUnchanged

\* DaemonState::save of what was loaded.
Save(t) ==
  /\ On(t, "save")
  /\ file' = prog[t].st
  /\ dirty' = dirty \cup {"state"}
  /\ To(t, "return")
  /\ UNCHANGED <<published, attempt, requests, up>>
  /\ RegistryUnchanged

\* An error leaves run_cycle: run returns it and the process exits.
Quit(t) ==
  /\ On(t, "quit")
  /\ up' = (t # Cycle)
  /\ prog' = [prog EXCEPT ![t] = Waiting]
  /\ UNCHANGED <<published, file, dirty, attempt, requests>>
  /\ RegistryUnchanged

-----------------------------------------------------------------------------
(* wait_for_next_cycle: the monitor looks at the network trigger, the      *)
(* state file and the snapshot file, in this order; without a change the   *)
(* interval elapses.                                                       *)

StartCycle(todo, seenFiles) ==
  /\ On(Cycle, "wait")
  /\ prog' = [prog EXCEPT ![Cycle] = CycleOf(todo)]
  /\ dirty' = dirty \ seenFiles
  /\ UNCHANGED <<published, file, attempt, requests, up>>
  /\ RegistryUnchanged

NetworkChangeRequested ==
  /\ "network" \in dirty
  /\ StartCycle(<<"persist", "gather">>, {"network"})

StateChanged ==
  /\ "network" \notin dirty /\ "state" \in dirty
  /\ StartCycle(<<"reeval", "gather">>, {"state"})

AuthoritySnapshotChanged ==
  /\ dirty = {"snapshot"}
  /\ StartCycle(<<"sync", "reeval", "gather">>, {"snapshot"})

IntervalElapsed ==
  /\ dirty = {}
  /\ StartCycle(Refresh, {})

\* The second sync_runtime_sessions of run_cycle and what follows from it:
\* after a reconciliation run_cycle's copy of the state lists no session.
Gather ==
  LET seen == runtime[Key] # NoSession
      reconciles == seen /\ ~ DisableReconcile
  IN  /\ On(Cycle, "gather")
      /\ prog' = [prog EXCEPT ![Cycle] =
                    After([Waiting EXCEPT
                             !.todo = (IF reconciles THEN <<"reconcile">> ELSE <<>>)
                                        \o <<"target", "baseline">>,
                             !.seen = seen /\ ~ reconciles])]
      /\ RegistryUnchanged /\ DurableUnchanged

\* refresh_baseline
Baseline ==
  /\ On(Cycle, "baseline")
  /\ dirty' = {}
  /\ To(Cycle, "return")
  /\ UNCHANGED <<published, file, attempt, requests, up>>
  /\ RegistryUnchanged

-----------------------------------------------------------------------------
(* sync_authority_snapshot, refresh_and_persist, reprobe_network_change.   *)

\* authority_sync_response: the control server goes on to a reevaluation if
\* facts have changed; the cycle has its own list.
AfterSync(t) ==
  IF t = Cycle THEN prog[t].todo
  ELSE IF published # file THEN <<"reeval">>
  ELSE <<>>

SyncAuthority(t) ==
  /\ On(t, "sync")
  /\ Become(t, [prog[t] EXCEPT !.st = published, !.todo = AfterSync(t)], "save")
  /\ RegistryUnchanged /\ DurableUnchanged

\* The authority does not answer, or its snapshot does not merge.
SyncFails(t) ==
  /\ On(t, "sync")
  /\ To(t, "quit")
  /\ RegistryUnchanged /\ DurableUnchanged

Persist(t) == Load(t, "persist", "save")

-----------------------------------------------------------------------------
(* reevaluate_runtime_authority                                            *)

EvalLoad(t) == Load(t, "reeval", "evalSession")

\* A mutant: the session is judged by the target's policy alone.
EvalSessionByTarget(t) ==
  Read(t, "evalSession", "evalListeners",
       IF Allowed(prog[t].st) THEN "evalUnsuppress" ELSE "evalSuppress")

EvalSession(t) ==
  Read(t, "evalSession", "evalListeners",
       IF Allowed(prog[t].st) /\ ~ LocallyDenied(prog[t].st) THEN "evalUnsuppress" ELSE "evalSuppress")

\* Denied: suppress_reconnect, Closing, close_session.
EvalSuppress(t) == SuppressTarget(t, "evalSuppress", "evalMark")

EvalMark(t) == Mark(t, "evalMark", "Closing", "PolicyRejected", "evalClose")

EvalClose(t) == Close(t, "evalClose", "evalClosing")

\* Allowed: clear_reconnect_suppression, then the route.
EvalUnsuppress(t) ==
  /\ On(t, "evalUnsuppress")
  /\ Unsuppress(t, Key)
  /\ To(t, "evalRoute")
  /\ DurableUnchanged

EvalRoute(t) ==
  LET snap == prog[t].snap
      route == RouteOf[prog[t].st]
      differs == route # NoRoute /\ ~ Matches(snap, route)
  IN  /\ On(t, "evalRoute")
      /\ \/ /\ Matches(snap, route) /\ snap.state = "Degraded"
            /\ Mark(t, "evalRoute", "Active", NoCause, "evalListeners")
         \/ /\ Matches(snap, route) /\ snap.state # "Degraded"
            /\ To(t, "evalListeners")
            /\ RegistryUnchanged /\ DurableUnchanged
         \/ /\ differs /\ snap.kind \in Migratable
            /\ Mark(t, "evalRoute", "Migrating", NoCause, "evalMigrate")
         \/ /\ route = NoRoute \/ (differs /\ snap.kind \notin Migratable)
            /\ Mark(t, "evalRoute", "Degraded", NoCause, "evalListeners")

EvalMigrate(t) == Migrate(t, "evalMigrate", "evalMigrating")

\* The migration failed: fail_and_close_session, then suppress_reconnect.
EvalFail(t) == Mark(t, "evalFail", "Failed", "LocalRuntimeFailure", "evalFailClose")

EvalFailClose(t) == Close(t, "evalFailClose", "evalFailClosing")

EvalFailSuppress(t) == SuppressTarget(t, "evalFailSuppress", "evalListeners")

\* A mutant: a grant that is gone does not bar the listener of its protocol.
EvalListenersByDenial(t) ==
  /\ On(t, "evalListeners")
  /\ listener' = IF LocallyDenied(prog[t].st) THEN "Suppressed" ELSE "Active"
  /\ To(t, "evalComplete")
  /\ UNCHANGED <<vars, published, file, dirty, attempt, completed, requests, up>>

(* The loop over the listeners; reading one and updating it is one step,   *)
(* because what is written does not depend on what was read.               *)
EvalListeners(t) ==
  /\ On(t, "evalListeners")
  /\ listener' = IF ListenerBarred(prog[t].st) THEN "Suppressed" ELSE "Active"
  /\ To(t, "evalComplete")
  /\ UNCHANGED <<vars, published, file, dirty, attempt, completed, requests, up>>

\* The event authority.reevaluation_completed.
EvalComplete(t) ==
  /\ On(t, "evalComplete")
  /\ completed' = IF LocallyDenied(prog[t].st) THEN "denied" ELSE "allowed"
  /\ To(t, "return")
  /\ UNCHANGED <<vars, published, file, dirty, attempt, listener, requests, up>>

Reevaluate(t) ==
  \/ EvalLoad(t) \/ EvalSession(t)
  \/ EvalSuppress(t) \/ EvalMark(t) \/ EvalClose(t)
  \/ EvalUnsuppress(t) \/ EvalRoute(t) \/ EvalMigrate(t)
  \/ EvalFail(t) \/ EvalFailClose(t) \/ EvalFailSuppress(t)
  \/ EvalListeners(t) \/ EvalComplete(t)

-----------------------------------------------------------------------------
(* reconcile_sessions                                                      *)

RecLoad(t) == Load(t, "reconcile", "recSessions")

RecSessions(t) == Read(t, "recSessions", "save", "recMark")

RecMark(t) == Mark(t, "recMark", "Reconciling", NoCause, "recRead")

RecRead(t) == Read(t, "recRead", "save", "recDecide")

RecDecide(t) ==
  LET route == RouteOf[prog[t].st]
      allowed == Allowed(prog[t].st)
      matches == Matches(prog[t].snap, route)
  IN  /\ On(t, "recDecide")
      /\ \/ /\ ~ allowed
            /\ Mark(t, "recDecide", "Closing", "PolicyRejected", "recClose")
         \/ /\ allowed /\ route = NoRoute
            /\ Mark(t, "recDecide", "Failed", "PathExhaustion", "recClose")
         \/ /\ allowed /\ matches
            /\ Mark(t, "recDecide", "Active", NoCause, "save")
         \/ /\ allowed /\ route # NoRoute /\ ~ matches
            /\ Mark(t, "recDecide", "Migrating", NoCause, "recMigrate")

RecClose(t) == Close(t, "recClose", "recClosing")

RecMigrate(t) == Migrate(t, "recMigrate", "recMigrating")

\* The migration failed: fail_and_close_session.
RecFail(t) == Mark(t, "recFail", "Failed", "LocalRuntimeFailure", "recClose")

Reconcile(t) ==
  \/ RecLoad(t) \/ RecSessions(t) \/ RecMark(t) \/ RecRead(t) \/ RecDecide(t)
  \/ RecClose(t) \/ RecMigrate(t) \/ RecFail(t)

-----------------------------------------------------------------------------
(* ensure_target_session.  `due' says that the backoff of a scheduled      *)
(* retry is over.                                                          *)

\* A mutant: a retry too many.
ScheduleOneMore(a) ==
  LET n == IF a = NoAttempt THEN 1 ELSE a.count + 1
  IN  [count |-> n,
       state |-> IF n > MaxAttempts THEN "Failed" ELSE "BackingOff",
       due   |-> FALSE]

\* A mutant: the retry scheduled before is not found.
ScheduleAnew(a) ==
  [count |-> 1, state |-> IF MaxAttempts <= 1 THEN "Failed" ELSE "BackingOff", due |-> FALSE]

\* schedule_reconnect
Schedule(a) ==
  LET n == IF a = NoAttempt THEN 1 ELSE a.count + 1
  IN  [count |-> n,
       state |-> IF n >= MaxAttempts THEN "Failed" ELSE "BackingOff",
       due   |-> FALSE]

BackoffOver ==
  /\ up
  /\ attempt # NoAttempt
  /\ ~ attempt.due
  /\ attempt' = [attempt EXCEPT !.due = TRUE]
  /\ UNCHANGED <<published, file, dirty, prog, requests, up>>
  /\ RegistryUnchanged

MayRetry == attempt = NoAttempt \/ (attempt.state = "BackingOff" /\ attempt.due)

EnsureTarget ==
  LET reused == prog[Cycle].seen /\ runtime[Key] # NoSession
      clears == reused \/ Key \in suppressed
  IN  /\ On(Cycle, "target")
      /\ attempt' = IF clears THEN NoAttempt ELSE attempt
      /\ To(Cycle, IF clears \/ ~ MayRetry THEN "return" ELSE "realize")
      /\ UNCHANGED <<published, file, dirty, requests, up>>
      /\ RegistryUnchanged

-----------------------------------------------------------------------------
(* realize_best_path, for the target of the cycle or for session.connect.  *)

RealizeLoad(t) ==
  Load(t, "realize", IF Allowed(file) /\ RouteOf[file] # NoRoute THEN "connect" ELSE "connectFailed")

\* A mutant: the suppression is not looked at.
ConnectUnchecked(t) ==
  /\ On(t, "connect")
  /\ Begin(t, "connect", Key, RouteOf[prog[t].st], NoCause, "open")
  /\ To(t, "connecting")
  /\ UNCHANGED <<runtime, terminal, suppressed, relay, lost>>
  /\ DurableUnchanged

\* transport.connect; a suppressed target is refused.
Connect(t) ==
  /\ On(t, "connect")
  /\ \/ /\ BeginConnect(t, Key, RouteOf[prog[t].st])
        /\ To(t, "connecting")
     \/ /\ Key \in suppressed
        /\ To(t, "connectFailed")
        /\ RegistryUnchanged
  /\ DurableUnchanged

\* The session is saved; the cycle clears its retry.
Connected(t) ==
  /\ On(t, "connected")
  /\ attempt' = IF t = Cycle THEN NoAttempt ELSE attempt
  /\ To(t, "return")
  /\ UNCHANGED <<published, file, dirty, requests, up>>
  /\ RegistryUnchanged

ConnectFailed(t) ==
  /\ On(t, "connectFailed")
  /\ attempt' = IF t = Cycle THEN Schedule(attempt) ELSE attempt
  /\ To(t, "return")
  /\ UNCHANGED <<published, file, dirty, requests, up>>
  /\ RegistryUnchanged

Realize(t) == RealizeLoad(t) \/ Connect(t) \/ Connected(t) \/ ConnectFailed(t)

-----------------------------------------------------------------------------
(* close_session and upgrade_session of LocalControlPlane.                 *)

OperatorClose(t) ==
  \/ Load(t, "close", "clsRead")
  \/ Read(t, "clsRead", "return", "clsMark")
  \/ Mark(t, "clsMark", "Closing", "OperatorRequested", "clsClose")
  \/ Close(t, "clsClose", "clsClosing")

\* A denied upgrade leaves the session registered in state Failed.
OperatorUpgrade(t) ==
  \/ Load(t, "upgrade", "upgRead")
  \/ Read(t, "upgRead", "return", IF Allowed(prog[t].st) THEN "upgMark" ELSE "upgDeny")
  \/ Mark(t, "upgDeny", "Failed", "PolicyRejected", "return")
  \/ Mark(t, "upgMark", "Migrating", NoCause,
          IF RouteOf[prog[t].st] = NoRoute THEN "return" ELSE "upgRoute")
  \/ Migrate(t, "upgRoute", "upgrading")

-----------------------------------------------------------------------------
(* What follows when the registry's operation has returned.                *)

OnOk(pc) ==
  CASE pc \in {"evalClosing", "evalMigrating"} -> "evalListeners"
    [] pc = "evalFailClosing" -> "evalFailSuppress"
    [] pc \in {"recClosing", "recMigrating", "clsClosing", "upgrading", "connecting"} -> "save"

OnError(pc) ==
  CASE pc \in {"evalClosing", "evalFailClosing", "recClosing"} -> "quit"
    [] pc = "evalMigrating" -> "evalFail"
    [] pc = "recMigrating" -> "recFail"
    [] pc = "connecting" -> "connectFailed"
    [] pc \in {"clsClosing", "upgrading"} -> "return"

\* What realize_best_path's caller does after the save.
Saving(p) == IF p.pc = "connecting" THEN [p EXCEPT !.todo = <<"connected">> \o @] ELSE p

RegistryProceeds(t) ==
  /\ up
  /\ Proceeds(t)
  /\ IF call'[t].pc = "idle"
     THEN Become(t, Saving(prog[t]), OnOk(prog[t].pc))
     ELSE UNCHANGED prog
  /\ DurableUnchanged

RegistryFails(t) ==
  /\ up
  /\ Fails(t)
  /\ To(t, OnError(prog[t].pc))
  /\ DurableUnchanged

-----------------------------------------------------------------------------
(* The surroundings.                                                       *)

Publish ==
  /\ published < MaxVersion
  /\ published' = published + 1
  /\ dirty' = dirty \cup {"snapshot"}
  /\ UNCHANGED <<file, attempt, prog, requests, up>>
  /\ RegistryUnchanged

RelayRestarts == RelayRestart /\ UNCHANGED daemonVars

\* The network trigger file is touched.
NetworkChange ==
  /\ requests < MaxRequests
  /\ requests' = requests + 1
  /\ dirty' = dirty \cup {"network"}
  /\ UNCHANGED <<published, file, attempt, prog, up>>
  /\ RegistryUnchanged

\* authority.sync_snapshot, session.connect, session.close, session.upgrade
\* and session.reconcile arrive at the control server.
Request(op) ==
  /\ On(Control, "wait")
  /\ requests < MaxRequests
  /\ requests' = requests + 1
  /\ prog' = [prog EXCEPT ![Control] = [Waiting EXCEPT !.pc = op]]
  /\ UNCHANGED <<published, file, dirty, attempt, up>>
  /\ RegistryUnchanged

-----------------------------------------------------------------------------
Works(t) ==
  \/ Save(t) \/ Quit(t)
  \/ SyncAuthority(t) \/ SyncFails(t) \/ Persist(t)
  \/ Reevaluate(t) \/ Reconcile(t) \/ Realize(t)
  \/ RegistryProceeds(t) \/ RegistryFails(t)

CycleWorks ==
  \/ NetworkChangeRequested \/ StateChanged \/ AuthoritySnapshotChanged \/ IntervalElapsed
  \/ Gather \/ EnsureTarget \/ Baseline
  \/ Works(Cycle)

ControlWorks == OperatorClose(Control) \/ OperatorUpgrade(Control) \/ Works(Control)

DaemonNext ==
  \/ CycleWorks \/ ControlWorks \/ BackoffOver
  \/ \E op \in {"sync", "realize", "close", "upgrade", "reconcile"} : Request(op)
  \/ Publish \/ NetworkChange \/ RelayRestarts

(* Both threads are scheduled, the interval elapses and time passes.       *)
DaemonSpec ==
  /\ DaemonInit
  /\ [][DaemonNext]_allVars
  /\ WF_allVars(CycleWorks)
  /\ WF_allVars(ControlWorks)
  /\ WF_allVars(BackoffOver)

-----------------------------------------------------------------------------
Registered == runtime[Key] # NoSession

(* What the authority publishes for good reaches state.json for good,      *)
(* although operations save what they loaded before (the next interval     *)
(* synchronises again), unless an error has ended the process.             *)
FactsArrive == <>[](~ up \/ file = published)

(* If the facts published for good deny the target or the daemon itself,   *)
(* the session ends for good: whatever reads and saves were under way when *)
(* they arrived, and although a connect may be past its checks or not look *)
(* at the daemon's own denial, reevaluation or reconciliation closes it.   *)
DeniedSessionEnds ==
  <>[](LocallyDenied(published) \/ ~ Allowed(published)) => <>[](~ up \/ ~ Registered)

(* What the facts published for good say of the daemon itself and of its   *)
(* listener's protocol is what the listener is in and what the last event  *)
(* says, for good: although two threads reevaluate with facts they loaded  *)
(* at different times, and the later to finish is not the later to load.   *)
DenialShown ==
  <>[](~ up \/ (/\ listener = "Suppressed" <=> ListenerBarred(published)
                /\ completed = "denied" <=> LocallyDenied(published)))

(* The daemon does not go on forever between a missing session and a       *)
(* retry: once facts and operators are quiet the target has a session, its *)
(* reconnect is suppressed or the retries are used up, unless an error has *)
(* ended the process.  (With --disable-reconcile; otherwise every cycle    *)
(* closes a session it has no route for and may find one again.)           *)
TargetSettles ==
  <>[](\/ ~ up \/ Registered \/ Key \in suppressed
       \/ attempt # NoAttempt /\ attempt.state = "Failed")

(* Reconnect suppression does not outlive the denial it was imposed for    *)
(* (docs/authority-reevaluation.md, Capability Change Semantics: "The      *)
(* daemon should not assume that capability drift is safely deferred until *)
(* the next restart").                                                     *)
SuppressionLifted ==
  <>[](Allowed(file) /\ Allowed(published)) => []<>(~ up \/ Key \notin suppressed)

(* Facts accepted into state.json stay accepted (docs/verification-plan.md,*)
(* Revocation Enforcement: "stale trust is not silently retained").        *)
AcceptedFactsKept == [][file' >= file]_allVars

=============================================================================
