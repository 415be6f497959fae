---------------------------- MODULE DaemonProofs ----------------------------
(***************************************************************************)
(* Proofs about the daemon above the session registry, for any facts the   *)
(* authority publishes, any routes and any relay: what the daemon's two    *)
(* threads do to the registry is what module Transport allows.             *)
(***************************************************************************)
EXTENDS Daemon, TransportProofs

(* The steps at which a thread waits for the registry's operation to       *)
(* return; those at which it uses a snapshot it has read; those at which   *)
(* it is about to go along the route of the state it has loaded; those of  *)
(* a connect, which the cycle makes only while it has retries left.        *)
Calling == {"evalClosing", "evalMigrating", "evalFailClosing", "recClosing", "recMigrating",
            "connecting", "clsClosing", "upgrading"}

Holding == {"evalSuppress", "evalMark", "evalClose", "evalUnsuppress", "evalRoute",
            "evalMigrate", "evalMigrating", "evalFail", "evalFailClose",
            "recDecide", "recClose", "recMigrate", "recMigrating", "recFail",
            "clsMark", "clsClose"}

Routing == {"evalMigrate", "recMigrate", "upgRoute", "connect"}

Retrying == {"realize", "connect", "connecting", "connectFailed"}

(* What the cycle has left to do never includes a connect of its own.      *)
CycleTodo == (Operations \cup {"connected"}) \ {"realize"}

RetriesLeft == attempt # NoAttempt => attempt.state = "BackingOff"

DurableOK ==
  /\ published \in Versions
  /\ file \in 0 .. published
  /\ dirty \subseteq {"state", "snapshot", "network"}
  /\ attempt \in Attempts \cup {NoAttempt}
  /\ attempt # NoAttempt => (attempt.state = "Failed" <=> attempt.count = MaxAttempts)
  /\ listener \in {"Active", "Suppressed"}
  /\ completed \in {"never", "allowed", "denied"}
  /\ requests \in 0 .. MaxRequests
  /\ up \in BOOLEAN

(* The locals of a thread, wherever it is; and what it relies on where it  *)
(* is.                                                                     *)
LocalsOK(t, p) ==
  /\ p \in Programs
  /\ p.st <= published
  /\ t = Cycle => p.todo \in Seq(CycleTodo)

Ready(t, p, pc) ==
  /\ pc \in Holding => p.snap # NoSession
  /\ pc \in Routing => RouteOf[p.st] # NoRoute
  /\ t = Cycle /\ pc \in Retrying => RetriesLeft

ThreadOK(t) ==
  /\ LocalsOK(t, prog[t])
  /\ Ready(t, prog[t], prog[t].pc)
  /\ call[t].pc # "idle" => prog[t].pc \in Calling

ThreadsOK == prog \in [Threads -> Programs] /\ \A t \in Threads : ThreadOK(t)

(* The inductive invariant of the daemon.                                  *)
DaemonInv == IndInv /\ DurableOK /\ ThreadsOK

(* What a step has to show.                                                *)
StepOK == [Next]_vars /\ DurableOK' /\ ThreadsOK'

-----------------------------------------------------------------------------
(* Control of a thread.                                                    *)

(* Names of steps that are told apart.                                     *)
LEMMA StepNames ==
  /\ "return" \notin Steps
  /\ (Operations \cup {"connected"}) \cap (Holding \cup Routing \cup Calling) = {}
  /\ CycleTodo \cap Retrying = {}
  /\ Operations \cup {"connected"} \subseteq Steps
<1>1. /\ "return" \notin Steps
      /\ Operations \cup {"connected"} \subseteq Steps
  BY DEF Steps, Operations
<1>2. (Operations \cup {"connected"}) \cap (Holding \cup Routing \cup Calling) = {}
  BY DEF Operations, Holding, Routing, Calling
<1>3. CycleTodo \cap Retrying = {}
  BY DEF CycleTodo, Operations, Retrying
<1> QED  BY <1>1, <1>2, <1>3

(* The locals of a thread that waits.                                      *)
LEMMA WaitingOK ==
  ASSUME NEW t \in Threads, published \in Versions
  PROVE  Waiting \in Programs /\ LocalsOK(t, Waiting) /\ Ready(t, Waiting, Waiting.pc)
<1>1. 0 \in Versions /\ 0 <= published  BY DaemonAssumption DEF Versions
<1>2. Waiting \in Programs  BY <1>1 DEF Waiting, Programs, Steps
<1>3. LocalsOK(t, Waiting)  BY <1>1, <1>2 DEF LocalsOK, Waiting
<1>4. Ready(t, Waiting, Waiting.pc)  BY DEF Ready, Waiting, Holding, Routing, Retrying
<1> QED  BY <1>2, <1>3, <1>4

(* A thread goes on with what is left to do.                               *)
LEMMA AfterOK ==
  ASSUME NEW t \in Threads, NEW p, published \in Versions,
         p.todo \in Seq(Operations \cup {"connected"}), p.seen \in BOOLEAN,
         t = Cycle => p.todo \in Seq(CycleTodo)
  PROVE  /\ LocalsOK(t, After(p)) /\ Ready(t, After(p), After(p).pc)
         /\ t = Cycle => After(p).pc \notin Retrying
<1>1. CASE p.todo = <<>>
  <2>1. Waiting.pc \notin Retrying  BY DEF Waiting, Retrying
  <2> QED  BY <1>1, <2>1, WaitingOK DEF After
<1>2. CASE p.todo # <<>>
  <2> DEFINE h == Head(p.todo)
             r == Tail(p.todo)
             q == [pc |-> h, todo |-> r, st |-> 0, snap |-> NoSession, seen |-> p.seen]
  <2>1. h \in Operations \cup {"connected"} /\ r \in Seq(Operations \cup {"connected"})
    BY <1>2
  <2>2. t = Cycle => h \in CycleTodo /\ r \in Seq(CycleTodo)
    BY <1>2
  <2>3. After(p) = q  BY <1>2 DEF After, Waiting
  <2>4. 0 \in Versions /\ 0 <= published  BY DaemonAssumption DEF Versions
  <2> HIDE DEF h, r
  <2>5. h \in Steps /\ h \notin Holding \cup Routing /\ (t = Cycle => h \notin Retrying)
    BY <2>1, <2>2, StepNames
  <2>6. q \in Programs  BY <2>1, <2>4, <2>5 DEF Programs
  <2>7. LocalsOK(t, q)  BY <2>2, <2>4, <2>6 DEF LocalsOK
  <2>8. Ready(t, q, q.pc)  BY <2>5 DEF Ready
  <2> QED  BY <2>3, <2>5, <2>7, <2>8
<1> QED  BY <1>1, <1>2

(* The thread enters a step, or returns from its operation.                *)
LEMMA EnterOK ==
  ASSUME NEW t \in Threads, NEW p, LocalsOK(t, p), published \in Versions,
         NEW pc \in Steps \cup {"return"}, Ready(t, p, pc)
  PROVE  /\ LocalsOK(t, Enter(p, pc)) /\ Ready(t, Enter(p, pc), Enter(p, pc).pc)
         /\ pc # "return" => Enter(p, pc).pc = pc
<1>1. CASE pc = "return"
  <2>1. p.todo \in Seq(Operations \cup {"connected"}) /\ p.seen \in BOOLEAN
    BY DEF LocalsOK, Programs
  <2> QED  BY <1>1, <2>1, AfterOK DEF Enter, LocalsOK
<1>2. CASE pc # "return"
  <2> DEFINE q == [p EXCEPT !.pc = pc]
  <2>1. Enter(p, pc) = q  BY <1>2 DEF Enter
  <2>2. /\ q \in Programs
        /\ q.pc = pc /\ q.st = p.st /\ q.todo = p.todo /\ q.snap = p.snap
    BY <1>2 DEF LocalsOK, Programs
  <2> HIDE DEF q
  <2> QED  BY <2>1, <2>2 DEF LocalsOK, Ready
<1> QED  BY <1>1, <1>2

(* One thread moves; what the others rely on stays as it is.               *)
LEMMA OneMoves ==
  ASSUME ThreadsOK,
         NEW t \in Threads, NEW q, prog' = [prog EXCEPT ![t] = q],
         LocalsOK(t, q), Ready(t, q, q.pc), UNCHANGED published,
         t # Cycle \/ q.pc \in Retrying => (RetriesLeft => RetriesLeft'),
         \A u \in Threads \ {t} : call'[u] = call[u],
         call'[t].pc # "idle" => q.pc \in Calling
  PROVE  ThreadsOK'
<1>1. prog'[t] = q /\ \A u \in Threads \ {t} : prog'[u] = prog[u]
  BY DEF ThreadsOK
<1>2. ThreadOK(t)'  BY <1>1 DEF ThreadOK, LocalsOK, Ready, RetriesLeft
<1>3. ASSUME NEW u \in Threads \ {t} PROVE ThreadOK(u)'
  <2>1. ThreadOK(u) /\ prog'[u] = prog[u] /\ call'[u] = call[u]  BY <1>1 DEF ThreadsOK
  <2> QED  BY <2>1 DEF ThreadOK, LocalsOK, Ready, RetriesLeft
<1>4. prog' \in [Threads -> Programs]  BY DEF ThreadsOK, LocalsOK
<1> QED  BY <1>2, <1>3, <1>4 DEF ThreadsOK

(* A thread takes a step above the registry, or starts an operation of it. *)
LEMMA Becomes ==
  ASSUME DaemonInv, NEW t \in Threads, NEW p, LocalsOK(t, p),
         NEW pc \in Steps \cup {"return"}, Ready(t, p, pc), Become(t, p, pc),
         UNCHANGED published, RetriesLeft => RetriesLeft',
         \A u \in Threads \ {t} : call'[u] = call[u],
         call'[t].pc # "idle" => pc \in Calling
  PROVE  ThreadsOK'
<1>1. published \in Versions  BY DEF DaemonInv, DurableOK
<1>2. /\ LocalsOK(t, Enter(p, pc)) /\ Ready(t, Enter(p, pc), Enter(p, pc).pc)
      /\ pc # "return" => Enter(p, pc).pc = pc
  BY <1>1, EnterOK
<1>3. prog' = [prog EXCEPT ![t] = Enter(p, pc)]  BY DEF Become
<1>4. pc \in Calling => pc # "return"  BY DEF Calling
<1> QED  BY <1>2, <1>3, <1>4, OneMoves DEF DaemonInv, Become

-----------------------------------------------------------------------------
(* The kinds of steps that reevaluation, reconciliation, realization and   *)
(* the operator's requests are made of.                                    *)

(* What every kind of step starts from.                                    *)
LEMMA Usual ==
  ASSUME DaemonInv, NEW t \in Threads
  PROVE  /\ LocalsOK(t, prog[t]) /\ Ready(t, prog[t], prog[t].pc)
         /\ prog[t] \in Programs
         /\ Key \in Keys
         /\ call \in [Threads -> Calls]
         /\ runtime[Key] \in Snapshots \cup {NoSession}
         /\ published \in Versions /\ file \in Versions /\ file <= published
         /\ MaxVersion \in Nat
<1>1. LocalsOK(t, prog[t]) /\ Ready(t, prog[t], prog[t].pc)
  BY DEF DaemonInv, ThreadsOK, ThreadOK
<1>2. prog[t] \in Programs  BY <1>1 DEF LocalsOK
<1>3. Key \in Keys  BY DaemonAssumption
<1>4. call \in [Threads -> Calls] /\ runtime[Key] \in Snapshots \cup {NoSession}
  BY <1>3 DEF DaemonInv, IndInv, RegistryTypeOK
<1>5. published \in Versions /\ file \in Versions /\ file <= published /\ MaxVersion \in Nat
  BY DaemonAssumption DEF DaemonInv, DurableOK, Versions
<1> QED  BY <1>1, <1>2, <1>3, <1>4, <1>5

LEMMA DurableKept ==
  ASSUME DurableOK, DurableUnchanged
  PROVE  DurableOK' /\ (RetriesLeft => RetriesLeft') /\ UNCHANGED published
BY DEF DurableOK, DurableUnchanged, RetriesLeft

LEMMA LoadOK ==
  ASSUME DaemonInv, NEW t \in Threads, NEW pc, NEW next \in Steps \cup {"return"},
         next \notin Holding, next \in Routing => RouteOf[file] # NoRoute,
         t = Cycle /\ next \in Retrying => pc \in Retrying,
         Load(t, pc, next)
  PROVE  StepOK
<1> DEFINE p == [prog[t] EXCEPT !.st = file]
<1>1. p \in Programs /\ p.st = file /\ p.todo = prog[t].todo
  BY Usual DEF Programs
<1>2. LocalsOK(t, p)  BY <1>1, Usual DEF LocalsOK
<1>3. Ready(t, prog[t], prog[t].pc) /\ prog[t].pc = pc  BY Usual DEF Load, On
<1>4. Ready(t, p, next)
  <2> HIDE DEF p
  <2> QED  BY <1>1, <1>3 DEF Ready
<1>5. Become(t, p, next) /\ RegistryUnchanged /\ DurableUnchanged /\ call[t].pc = "idle"
  BY DEF Load, On, At
<1> HIDE DEF p
<1>6. ThreadsOK'
  BY <1>2, <1>4, <1>5, DurableKept, Becomes DEF RegistryUnchanged, vars, DaemonInv
<1> QED  BY <1>5, <1>6, DurableKept DEF StepOK, RegistryUnchanged, DaemonInv

LEMMA ReadOK ==
  ASSUME DaemonInv, NEW t \in Threads, NEW pc,
         NEW absent \in Steps \cup {"return"}, NEW present \in Steps \cup {"return"},
         absent \notin Holding \cup Routing \cup Retrying,
         present \notin Routing \cup Retrying,
         Read(t, pc, absent, present)
  PROVE  StepOK
<1> DEFINE snap == runtime[Key]
           p == [prog[t] EXCEPT !.snap = snap]
           next == IF snap = NoSession THEN absent ELSE present
<1>1. snap \in Snapshots \cup {NoSession}  BY Usual
<1>2. p \in Programs /\ p.st = prog[t].st /\ p.todo = prog[t].todo /\ p.snap = snap
  BY <1>1, Usual DEF Programs
<1>3. Become(t, p, next) /\ RegistryUnchanged /\ DurableUnchanged /\ call[t].pc = "idle"
  BY DEF Read, On, At
<1> HIDE DEF p
<1>4. LocalsOK(t, p)  BY <1>2, Usual DEF LocalsOK
<1>5. Ready(t, p, next)  BY <1>2 DEF Ready
<1>6. ThreadsOK'
  BY <1>3, <1>4, <1>5, DurableKept, Becomes DEF RegistryUnchanged, vars, DaemonInv
<1> QED  BY <1>3, <1>6, DurableKept DEF StepOK, RegistryUnchanged, DaemonInv

LEMMA MarkOK ==
  ASSUME DaemonInv, NEW t \in Threads, NEW pc, NEW next \in Steps \cup {"return"},
         NEW state \in CallerStates, NEW cause \in Causes \cup {NoCause},
         next \in Holding => pc \in Holding,
         next \in Routing => RouteOf[prog[t].st] # NoRoute,
         next \notin Retrying,
         Mark(t, pc, state, cause, next)
  PROVE  StepOK
<1>1. SetState(t, Key, state, cause) /\ Become(t, prog[t], next) /\ DurableUnchanged
  BY DEF Mark, To
<1>2. prog[t].pc = pc /\ call[t].pc = "idle" /\ UNCHANGED call
  BY <1>1 DEF Mark, On, At, SetState
<1>3. Ready(t, prog[t], next)  BY <1>2, Usual DEF Ready
<1>4. ThreadsOK'
  BY <1>1, <1>2, <1>3, Usual, DurableKept, Becomes DEF DaemonInv
<1>5. Next
  BY <1>1, Usual DEF Next, CallerStep
<1> QED  BY <1>1, <1>4, <1>5, DurableKept DEF StepOK, DaemonInv

LEMMA SuppressTargetOK ==
  ASSUME DaemonInv, NEW t \in Threads, NEW pc, NEW next \in Steps,
         next \in Holding => pc \in Holding, next \notin Routing \cup Retrying,
         SuppressTarget(t, pc, next)
  PROVE  StepOK
<1>1. Suppress(t, Key) /\ Become(t, prog[t], next) /\ DurableUnchanged
  BY DEF SuppressTarget, To
<1>2. prog[t].pc = pc /\ call[t].pc = "idle" /\ UNCHANGED call
  BY <1>1 DEF SuppressTarget, On, At, Suppress
<1>3. Ready(t, prog[t], next)  BY <1>2, Usual DEF Ready
<1>4. ThreadsOK'
  BY <1>1, <1>2, <1>3, Usual, DurableKept, Becomes DEF DaemonInv
<1>5. Next  BY <1>1, Usual DEF Next, CallerStep
<1> QED  BY <1>1, <1>4, <1>5, DurableKept DEF StepOK, DaemonInv

(* A thread starts an operation of the registry.                           *)
LEMMA BeginOthers ==
  ASSUME call \in [Threads -> Calls], NEW t \in Threads, NEW op, NEW k, NEW route, NEW cause,
         NEW pc, Begin(t, op, k, route, cause, pc)
  PROVE  \A u \in Threads \ {t} : call'[u] = call[u]
BY DEF Begin

LEMMA CloseOK ==
  ASSUME DaemonInv, NEW t \in Threads, NEW pc \in Holding,
         NEW next \in (Steps \cap Calling) \ (Holding \cup Routing \cup Retrying),
         Close(t, pc, next)
  PROVE  StepOK
<1>1. BeginClose(t, Key, prog[t].snap.cause) /\ Become(t, prog[t], next) /\ DurableUnchanged
  BY DEF Close, To
<1>2. prog[t].pc = pc  BY DEF Close, On
<1>3. prog[t].snap.cause \in Causes \cup {NoCause}
  <2>1. prog[t].snap # NoSession  BY <1>2, Usual DEF Ready
  <2>2. prog[t].snap \in Snapshots  BY <2>1, Usual DEF Programs
  <2> QED  BY <2>2 DEF Snapshots
<1>4. \A u \in Threads \ {t} : call'[u] = call[u]
  BY <1>1, Usual, BeginOthers DEF BeginClose
<1>5. Ready(t, prog[t], next)  BY DEF Ready
<1>6. ThreadsOK'
  BY <1>1, <1>4, <1>5, Usual, DurableKept, Becomes DEF DaemonInv
<1>7. Next  BY <1>1, <1>3, Usual DEF Next, CallerStep
<1> QED  BY <1>1, <1>6, <1>7, DurableKept DEF StepOK, DaemonInv

LEMMA MigrateOK ==
  ASSUME DaemonInv, NEW t \in Threads, NEW pc \in Routing,
         NEW next \in (Steps \cap Calling) \ (Routing \cup Retrying),
         next \in Holding => pc \in Holding,
         Migrate(t, pc, next)
  PROVE  StepOK
<1> DEFINE route == RouteOf[prog[t].st]
<1>1. BeginMigrate(t, Key, route) /\ Become(t, prog[t], next) /\ DurableUnchanged
  BY DEF Migrate, To
<1>2. prog[t].pc = pc  BY DEF Migrate, On
<1>3. route \in Routes
  <2>1. prog[t].st \in Versions  BY Usual DEF Programs
  <2> QED  BY <2>1, <1>2, Usual, DaemonAssumption DEF Ready
<1>4. \A u \in Threads \ {t} : call'[u] = call[u]
  BY <1>1, Usual, BeginOthers DEF BeginMigrate
<1>5. Ready(t, prog[t], next)  BY <1>2, Usual DEF Ready
<1>6. ThreadsOK'
  BY <1>1, <1>4, <1>5, Usual, DurableKept, Becomes DEF DaemonInv
<1> HIDE DEF route
<1>7. Next  BY <1>1, <1>3, Usual DEF Next, CallerStep
<1> QED  BY <1>1, <1>6, <1>7, DurableKept DEF StepOK, DaemonInv

(* A step that leaves the registry and the retries alone.                  *)
LEMMA AsideOK ==
  ASSUME DaemonInv, NEW t \in Threads, NEW next \in Steps \cup {"return"},
         next \in Holding => prog[t].pc \in Holding, next \notin Routing \cup Retrying,
         At(t, "idle"), To(t, next), UNCHANGED vars, UNCHANGED <<published, attempt>>, DurableOK'
  PROVE  StepOK
<1>1. Ready(t, prog[t], next)  BY Usual DEF Ready
<1>2. ThreadsOK'
  BY <1>1, Usual, Becomes DEF To, At, vars, RetriesLeft
<1> QED  BY <1>2 DEF StepOK

-----------------------------------------------------------------------------
(* reevaluate_runtime_authority: one step per action.                      *)
LEMMA ReevaluateOK ==
  ASSUME DaemonInv, NEW t \in Threads, Reevaluate(t)
  PROVE  StepOK
<1> USE DEF Steps, Holding, Routing, Retrying, Calling
<1>c. /\ {"Active", "Degraded", "Migrating", "Reconciling", "Closing", "Failed"} = CallerStates
      /\ "PolicyRejected" \in Causes /\ "LocalRuntimeFailure" \in Causes
  BY DaemonAssumption
<1>1. CASE EvalLoad(t)  BY <1>1, LoadOK DEF EvalLoad
<1>2. CASE EvalSession(t)
  <2>1. PICK present \in {"evalUnsuppress", "evalSuppress"} :
          Read(t, "evalSession", "evalListeners", present)
    BY <1>2 DEF EvalSession
  <2> QED  BY <2>1, ReadOK
<1>3. CASE EvalSuppress(t)  BY <1>3, SuppressTargetOK DEF EvalSuppress
<1>4. CASE EvalMark(t)  BY <1>4, <1>c, MarkOK DEF EvalMark
<1>5. CASE EvalClose(t)  BY <1>5, CloseOK DEF EvalClose
<1>6. CASE EvalUnsuppress(t)
  <2>1. Unsuppress(t, Key) /\ Become(t, prog[t], "evalRoute") /\ DurableUnchanged
    BY <1>6 DEF EvalUnsuppress, To
  <2>2. prog[t].pc = "evalUnsuppress" /\ call[t].pc = "idle" /\ UNCHANGED call
    BY <1>6 DEF EvalUnsuppress, On, At, Unsuppress
  <2>3. Ready(t, prog[t], "evalRoute")  BY <2>2, Usual DEF Ready
  <2>4. ThreadsOK'
    BY <2>1, <2>2, <2>3, Usual, DurableKept, Becomes DEF DaemonInv
  <2>5. Next  BY <2>1, Usual DEF Next, CallerStep
  <2> QED  BY <2>1, <2>4, <2>5, DurableKept DEF StepOK, DaemonInv
<1>7. CASE EvalRoute(t)
  <2>1. CASE Mark(t, "evalRoute", "Active", NoCause, "evalListeners")
    BY <2>1, <1>c, MarkOK
  <2>2. CASE Mark(t, "evalRoute", "Degraded", NoCause, "evalListeners")
    BY <2>2, <1>c, MarkOK
  <2>3. CASE /\ Mark(t, "evalRoute", "Migrating", NoCause, "evalMigrate")
             /\ RouteOf[prog[t].st] # NoRoute
    BY <2>3, <1>c, MarkOK
  <2>4. CASE /\ On(t, "evalRoute") /\ To(t, "evalListeners")
             /\ RegistryUnchanged /\ DurableUnchanged
    BY <2>4, DurableKept, AsideOK DEF On, RegistryUnchanged, DurableUnchanged, DaemonInv
  <2> QED  BY <1>7, <2>1, <2>2, <2>3, <2>4 DEF EvalRoute
<1>8. CASE EvalMigrate(t)  BY <1>8, MigrateOK DEF EvalMigrate
<1>9. CASE EvalFail(t)  BY <1>9, <1>c, MarkOK DEF EvalFail
<1>10. CASE EvalFailClose(t)  BY <1>10, CloseOK DEF EvalFailClose
<1>11. CASE EvalFailSuppress(t)  BY <1>11, SuppressTargetOK DEF EvalFailSuppress
<1>12. CASE EvalListeners(t)
  <2>1. DurableOK'  BY <1>12 DEF EvalListeners, DaemonInv, DurableOK
  <2> QED  BY <1>12, <2>1, AsideOK DEF EvalListeners, On
<1>13. CASE EvalComplete(t)
  <2>1. DurableOK'  BY <1>13 DEF EvalComplete, DaemonInv, DurableOK
  <2> QED  BY <1>13, <2>1, AsideOK DEF EvalComplete, On
<1> QED
  BY <1>1, <1>2, <1>3, <1>4, <1>5, <1>6, <1>7, <1>8, <1>9, <1>10, <1>11, <1>12, <1>13
     DEF Reevaluate

(* reconcile_sessions: one step per action.                                *)
LEMMA ReconcileOK ==
  ASSUME DaemonInv, NEW t \in Threads, Reconcile(t)
  PROVE  StepOK
<1> USE DEF Steps, Holding, Routing, Retrying, Calling
<1>c. /\ {"Active", "Degraded", "Migrating", "Reconciling", "Closing", "Failed"} = CallerStates
      /\ {"PolicyRejected", "LocalRuntimeFailure", "PathExhaustion"} \subseteq Causes
  BY DaemonAssumption
<1>1. CASE RecLoad(t)  BY <1>1, LoadOK DEF RecLoad, Operations
<1>2. CASE RecSessions(t)  BY <1>2, ReadOK DEF RecSessions
<1>3. CASE RecMark(t)  BY <1>3, <1>c, MarkOK DEF RecMark
<1>4. CASE RecRead(t)  BY <1>4, ReadOK DEF RecRead
<1>5. CASE RecDecide(t)
  <2>1. CASE Mark(t, "recDecide", "Closing", "PolicyRejected", "recClose")
    BY <2>1, <1>c, MarkOK
  <2>2. CASE Mark(t, "recDecide", "Failed", "PathExhaustion", "recClose")
    BY <2>2, <1>c, MarkOK
  <2>3. CASE Mark(t, "recDecide", "Active", NoCause, "save")
    BY <2>3, <1>c, MarkOK
  <2>4. CASE /\ Mark(t, "recDecide", "Migrating", NoCause, "recMigrate")
             /\ RouteOf[prog[t].st] # NoRoute
    BY <2>4, <1>c, MarkOK
  <2> QED  BY <1>5, <2>1, <2>2, <2>3, <2>4 DEF RecDecide
<1>6. CASE RecClose(t)  BY <1>6, CloseOK DEF RecClose
<1>7. CASE RecMigrate(t)  BY <1>7, MigrateOK DEF RecMigrate
<1>8. CASE RecFail(t)  BY <1>8, <1>c, MarkOK DEF RecFail
<1> QED  BY <1>1, <1>2, <1>3, <1>4, <1>5, <1>6, <1>7, <1>8 DEF Reconcile

(* The operator's session.close and session.upgrade.                       *)
LEMMA OperatorOK ==
  ASSUME DaemonInv, NEW t \in Threads, OperatorClose(t) \/ OperatorUpgrade(t)
  PROVE  StepOK
<1> USE DEF Steps, Holding, Routing, Retrying, Calling
<1>c. /\ {"Active", "Degraded", "Migrating", "Reconciling", "Closing", "Failed"} = CallerStates
      /\ {"PolicyRejected", "OperatorRequested"} \subseteq Causes
  BY DaemonAssumption
<1>1. CASE Load(t, "close", "clsRead")  BY <1>1, LoadOK
<1>2. CASE Read(t, "clsRead", "return", "clsMark")  BY <1>2, ReadOK
<1>3. CASE Mark(t, "clsMark", "Closing", "OperatorRequested", "clsClose")
  BY <1>3, <1>c, MarkOK
<1>4. CASE Close(t, "clsClose", "clsClosing")  BY <1>4, CloseOK
<1>5. CASE Load(t, "upgrade", "upgRead")  BY <1>5, LoadOK
<1>6. ASSUME NEW present \in {"upgMark", "upgDeny"}, Read(t, "upgRead", "return", present)
      PROVE  StepOK
  BY <1>6, ReadOK
<1>7. CASE Mark(t, "upgDeny", "Failed", "PolicyRejected", "return")
  BY <1>7, <1>c, MarkOK
<1>8. CASE Mark(t, "upgMark", "Migrating", NoCause, "return")
  BY <1>8, <1>c, MarkOK
<1>9. CASE /\ Mark(t, "upgMark", "Migrating", NoCause, "upgRoute")
           /\ RouteOf[prog[t].st] # NoRoute
  BY <1>9, <1>c, MarkOK
<1>10. CASE Migrate(t, "upgRoute", "upgrading")  BY <1>10, MigrateOK
<1> QED
  BY <1>1, <1>2, <1>3, <1>4, <1>5, <1>6, <1>7, <1>8, <1>9, <1>10
     DEF OperatorClose, OperatorUpgrade

-----------------------------------------------------------------------------
(* realize_best_path, and what its callers make of the outcome.            *)
LEMMA RealizeOK ==
  ASSUME DaemonInv, NEW t \in Threads, Realize(t)
  PROVE  StepOK
<1> USE DEF Holding, Routing, Retrying, Calling
<1>s. {"connect", "connecting", "connectFailed"} \subseteq Steps  BY DEF Steps
<1>1. CASE RealizeLoad(t)
  <2>1. CASE RouteOf[file] # NoRoute /\ Load(t, "realize", "connect")
    BY <2>1, <1>s, LoadOK
  <2>2. CASE Load(t, "realize", "connectFailed")
    BY <2>2, <1>s, LoadOK
  <2> QED  BY <1>1, <2>1, <2>2 DEF RealizeLoad
<1>2. CASE Connect(t)
  <2>0. prog[t].pc = "connect" /\ call[t].pc = "idle" /\ DurableUnchanged
    BY <1>2 DEF Connect, On, At
  <2>1. Ready(t, prog[t], "connecting") /\ Ready(t, prog[t], "connectFailed")
    BY <2>0, Usual DEF Ready
  <2>2. CASE BeginConnect(t, Key, RouteOf[prog[t].st]) /\ To(t, "connecting")
    <3> DEFINE route == RouteOf[prog[t].st]
    <3>1. route \in Routes
      <4>1. prog[t].st \in Versions  BY Usual DEF Programs
      <4> QED  BY <4>1, <2>0, Usual, DaemonAssumption DEF Ready
    <3>2. \A u \in Threads \ {t} : call'[u] = call[u]
      BY <2>2, Usual, BeginOthers DEF BeginConnect
    <3>3. ThreadsOK'
      BY <1>s, <2>0, <2>1, <2>2, <3>2, Usual, DurableKept, Becomes DEF DaemonInv, To
    <3> HIDE DEF route
    <3>4. Next  BY <2>2, <3>1, Usual DEF Next, CallerStep, route
    <3> QED  BY <2>0, <3>3, <3>4, DurableKept DEF StepOK, DaemonInv
  <2>3. CASE To(t, "connectFailed") /\ RegistryUnchanged
    <3>1. ThreadsOK'
      BY <1>s, <2>0, <2>1, <2>3, Usual, DurableKept, Becomes
         DEF DaemonInv, To, RegistryUnchanged, vars
    <3> QED  BY <2>0, <2>3, <3>1, DurableKept DEF StepOK, DaemonInv, RegistryUnchanged
  <2> QED  BY <1>2, <2>2, <2>3 DEF Connect
\* The two ends: the operation returns, and the cycle's retry is settled.
<1>3. ASSUME On(t, "connected") \/ On(t, "connectFailed"), To(t, "return"), RegistryUnchanged,
             UNCHANGED published, t # Cycle => UNCHANGED attempt, DurableOK'
      PROVE  StepOK
  <2>1. prog' = [prog EXCEPT ![t] = After(prog[t])] /\ call[t].pc = "idle" /\ UNCHANGED call
    BY <1>3 DEF To, Become, Enter, On, At, RegistryUnchanged, vars
  <2>2. /\ prog[t].todo \in Seq(Operations \cup {"connected"}) /\ prog[t].seen \in BOOLEAN
        /\ t = Cycle => prog[t].todo \in Seq(CycleTodo)
    BY Usual DEF LocalsOK, Programs
  <2>3. /\ LocalsOK(t, After(prog[t])) /\ Ready(t, After(prog[t]), After(prog[t]).pc)
        /\ t = Cycle => After(prog[t]).pc \notin Retrying
    BY <2>2, Usual, AfterOK
  <2>4. t # Cycle => (RetriesLeft => RetriesLeft')  BY <1>3 DEF RetriesLeft
  <2>5. ThreadsOK'
    <3> HIDE DEF Retrying, Calling
    <3> QED  BY <2>1, <2>3, <2>4, <1>3, OneMoves DEF DaemonInv
  <2> QED  BY <1>3, <2>5 DEF StepOK, RegistryUnchanged
<1>4. CASE Connected(t)
  <2>1. DurableOK'  BY <1>4 DEF Connected, RegistryUnchanged, DaemonInv, DurableOK
  <2> QED  BY <1>3, <1>4, <2>1 DEF Connected
<1>5. CASE ConnectFailed(t)
  <2>1. prog[t].pc = "connectFailed" /\ (t = Cycle => RetriesLeft)
    BY <1>5, Usual DEF ConnectFailed, On, Ready
  <2>2. ASSUME t = Cycle
        PROVE  /\ Schedule(attempt) \in Attempts
               /\ Schedule(attempt).state = "Failed" <=> Schedule(attempt).count = MaxAttempts
    <3> DEFINE n == IF attempt = NoAttempt THEN 1 ELSE attempt.count + 1
    <3>0. MaxAttempts \in Nat \ {0}  BY DaemonAssumption
    <3>1. n \in 1 .. MaxAttempts
      <4>1. CASE attempt = NoAttempt  BY <4>1, <3>0
      <4>2. CASE attempt # NoAttempt
        <5>1. attempt \in Attempts /\ attempt.count # MaxAttempts
          BY <2>1, <2>2, <4>2 DEF DaemonInv, DurableOK, RetriesLeft
        <5>2. attempt.count \in 1 .. MaxAttempts  BY <5>1 DEF Attempts
        <5> QED  BY <3>0, <4>2, <5>1, <5>2
      <4> QED  BY <4>1, <4>2
    <3>2. Schedule(attempt) = [count |-> n,
                               state |-> IF n >= MaxAttempts THEN "Failed" ELSE "BackingOff",
                               due   |-> FALSE]
      BY DEF Schedule
    <3> HIDE DEF n
    <3> QED  BY <3>0, <3>1, <3>2 DEF Attempts
  <2>3. DurableOK'
    <3>1. CASE t = Cycle
      <4>1. attempt' = Schedule(attempt)  BY <1>5, <3>1 DEF ConnectFailed
      <4> QED  BY <1>5, <2>2, <3>1, <4>1
               DEF ConnectFailed, RegistryUnchanged, DaemonInv, DurableOK
    <3>2. CASE t # Cycle
      BY <1>5, <3>2 DEF ConnectFailed, RegistryUnchanged, DaemonInv, DurableOK
    <3> QED  BY <3>1, <3>2
  <2> QED  BY <1>3, <1>5, <2>3 DEF ConnectFailed
<1> QED  BY <1>1, <1>2, <1>4, <1>5 DEF Realize

(* state.json and the authority.                                           *)
LEMMA DurableStepsOK ==
  ASSUME DaemonInv, NEW t \in Threads,
         Save(t) \/ Quit(t) \/ SyncAuthority(t) \/ SyncFails(t) \/ Persist(t)
  PROVE  StepOK
<1> USE DEF Holding, Routing, Retrying, Calling
<1>s. {"save", "quit"} \subseteq Steps  BY DEF Steps
<1>1. CASE Save(t)
  <2>1. prog[t].st \in 0 .. published
    BY Usual DEF LocalsOK, Programs, Versions
  <2>2. DurableOK'  BY <1>1, <2>1 DEF Save, RegistryUnchanged, DaemonInv, DurableOK
  <2> QED  BY <1>1, <2>2, AsideOK DEF Save, On, RegistryUnchanged
<1>2. CASE Quit(t)
  <2>1. DurableOK'  BY <1>2 DEF Quit, RegistryUnchanged, DaemonInv, DurableOK
  <2>2. prog' = [prog EXCEPT ![t] = Waiting] /\ call[t].pc = "idle" /\ UNCHANGED call
    BY <1>2 DEF Quit, On, At, RegistryUnchanged, vars
  <2>3. LocalsOK(t, Waiting) /\ Ready(t, Waiting, Waiting.pc)  BY Usual, WaitingOK
  <2>4. ThreadsOK'
    BY <1>2, <2>2, <2>3, OneMoves DEF Quit, RetriesLeft, DaemonInv
  <2> QED  BY <1>2, <2>1, <2>4 DEF Quit, RegistryUnchanged, StepOK
<1>3. CASE SyncAuthority(t)
  <2> DEFINE p == [prog[t] EXCEPT !.st = published, !.todo = AfterSync(t)]
  <2>1. /\ AfterSync(t) \in Seq(Operations \cup {"connected"})
        /\ t = Cycle => AfterSync(t) \in Seq(CycleTodo)
    <3>1. /\ prog[t].todo \in Seq(Operations \cup {"connected"})
          /\ t = Cycle => prog[t].todo \in Seq(CycleTodo)
      BY Usual DEF LocalsOK, Programs
    <3>2. CASE t = Cycle
      <4>1. AfterSync(t) = prog[t].todo  BY <3>2 DEF AfterSync
      <4> QED  BY <3>1, <3>2, <4>1
    <3>3. CASE t # Cycle
      <4>1. "reeval" \in Operations \cup {"connected"}  BY DEF Operations
      <4>2. CASE published # file
        <5>1. AfterSync(t) = <<"reeval">>  BY <3>3, <4>2 DEF AfterSync
        <5>2. <<"reeval">> \in Seq(Operations \cup {"connected"})  BY <4>1
        <5> QED  BY <3>3, <5>1, <5>2
      <4>3. CASE published = file
        <5>1. AfterSync(t) = <<>>  BY <3>3, <4>3 DEF AfterSync
        <5>2. <<>> \in Seq(Operations \cup {"connected"})  OBVIOUS
        <5> QED  BY <3>3, <5>1, <5>2
      <4> QED  BY <4>2, <4>3
    <3> QED  BY <3>2, <3>3
  <2>2. /\ p \in Programs /\ p.st = published /\ p.todo = AfterSync(t)
    BY <2>1, Usual DEF Programs
  <2>3. Become(t, p, "save") /\ RegistryUnchanged /\ DurableUnchanged /\ call[t].pc = "idle"
    BY <1>3 DEF SyncAuthority, On, At
  <2> HIDE DEF p
  <2>4. LocalsOK(t, p)  BY <2>1, <2>2, Usual DEF LocalsOK, Versions
  <2>5. Ready(t, p, "save")  BY DEF Ready
  <2>6. ThreadsOK'
    BY <1>s, <2>3, <2>4, <2>5, DurableKept, Becomes DEF RegistryUnchanged, vars, DaemonInv
  <2> QED  BY <2>3, <2>6, DurableKept DEF StepOK, RegistryUnchanged, DaemonInv
<1>4. CASE SyncFails(t)
  BY <1>4, <1>s, DurableKept, AsideOK
     DEF SyncFails, On, RegistryUnchanged, DurableUnchanged, DaemonInv
<1>5. CASE Persist(t)  BY <1>5, <1>s, LoadOK DEF Persist
<1> QED  BY <1>1, <1>2, <1>3, <1>4, <1>5

-----------------------------------------------------------------------------
(* The registry's operation goes on, returns, or fails.                    *)

LEMMA AdapterMoves ==
  ASSUME DaemonInv, NEW t \in Threads, Proceeds(t) \/ Fails(t)
  PROVE  /\ call[t].pc # "idle"
         /\ \A u \in Threads \ {t} : call'[u] = call[u]
         /\ Fails(t) => call'[t].pc = "idle"
<1>0. call \in [Threads -> Calls]  BY Usual
<1>1. ASSUME NEW c, call' = [call EXCEPT ![t] = c]
      PROVE  call'[t] = c /\ \A u \in Threads \ {t} : call'[u] = call[u]
  BY <1>0, <1>1
<1>2. CASE Proceeds(t)
  <2>1. call[t].pc # "idle"
    BY <1>2 DEF Proceeds, OpenDirect, OpenRelay, Insert, ClosePrev, ReadExisting, CloseOld,
                MarkClosing, Remove, CloseRemoved, Record, At
  <2>2. \E c : call' = [call EXCEPT ![t] = c]
    BY <1>2 DEF Proceeds, OpenDirect, OpenRelay, Insert, ClosePrev, ReadExisting, CloseOld,
                MarkClosing, Remove, CloseRemoved, Record, Goto, Return
  <2>3. \A u \in Threads \ {t} : call'[u] = call[u]  BY <2>2, <1>1
  <2>4. ASSUME Fails(t) PROVE call'[t].pc = "idle"
    <3>1. call' = [call EXCEPT ![t] = Idle]
      BY <2>4 DEF Fails, OpenInvalid, OpenRelayAnswerLost, OpenRelayFails, ClosePrevFails,
                  NotOwned, CloseOldFails, CloseRemovedFails, Return
    <3> QED  BY <3>1, <1>1 DEF Idle
  <2> QED  BY <2>1, <2>3, <2>4
<1>3. CASE Fails(t)
  <2>1. call[t].pc # "idle" /\ call' = [call EXCEPT ![t] = Idle]
    BY <1>3 DEF Fails, OpenInvalid, OpenRelayAnswerLost, OpenRelayFails, ClosePrevFails,
                NotOwned, CloseOldFails, CloseRemovedFails, Return, At
  <2>2. call'[t] = Idle /\ \A u \in Threads \ {t} : call'[u] = call[u]  BY <2>1, <1>1
  <2> QED  BY <2>1, <2>2 DEF Idle
<1> QED  BY <1>2, <1>3

LEMMA RegistryStepsOK ==
  ASSUME DaemonInv, NEW t \in Threads, RegistryProceeds(t) \/ RegistryFails(t)
  PROVE  StepOK
<1>1. /\ call[t].pc # "idle"
      /\ \A u \in Threads \ {t} : call'[u] = call[u]
      /\ RegistryFails(t) => call'[t].pc = "idle"
  BY AdapterMoves DEF RegistryProceeds, RegistryFails
<1>2. prog[t].pc \in Calling  BY <1>1 DEF DaemonInv, ThreadsOK, ThreadOK
<1>3. DurableOK' /\ (RetriesLeft => RetriesLeft') /\ UNCHANGED published /\ UNCHANGED attempt
  BY DurableKept DEF RegistryProceeds, RegistryFails, DaemonInv, DurableUnchanged
<1>4. Next  BY DEF RegistryProceeds, RegistryFails, Next, AdapterStep
<1>5. CASE RegistryProceeds(t) /\ call'[t].pc # "idle"
  <2>1. UNCHANGED prog  BY <1>5 DEF RegistryProceeds
  <2>2. ASSUME NEW u \in Threads PROVE ThreadOK(u)'
    <3>1. ThreadOK(u) /\ prog'[u] = prog[u] /\ (u # t => call'[u] = call[u])
      BY <1>1, <2>1 DEF DaemonInv, ThreadsOK
    <3> QED  BY <3>1, <1>2, <1>3 DEF ThreadOK, LocalsOK, Ready
  <2> QED  BY <2>1, <2>2, <1>3, <1>4 DEF StepOK, ThreadsOK, DaemonInv
<1>6. CASE RegistryProceeds(t) /\ call'[t].pc = "idle"
  <2> DEFINE p == Saving(prog[t])
             pc == OnOk(prog[t].pc)
  <2>1. Become(t, p, pc)  BY <1>6 DEF RegistryProceeds
  <2>2. pc \in {"evalListeners", "evalFailSuppress", "save"}
    BY <1>2 DEF Calling, OnOk
  <2>3. LocalsOK(t, p)
    <3>1. CASE prog[t].pc # "connecting"  BY <3>1, Usual DEF Saving
    <3>2. CASE prog[t].pc = "connecting"
      <4> DEFINE todo == <<"connected">> \o prog[t].todo
      <4>1. /\ prog[t].todo \in Seq(Operations \cup {"connected"})
            /\ t = Cycle => prog[t].todo \in Seq(CycleTodo)
        BY Usual DEF LocalsOK, Programs
      <4>2. "connected" \in CycleTodo  BY DEF CycleTodo
      <4>3. /\ todo \in Seq(Operations \cup {"connected"})
            /\ t = Cycle => todo \in Seq(CycleTodo)
        BY <4>1, <4>2
      <4>4. p = [prog[t] EXCEPT !.todo = todo]  BY <3>2, Usual DEF Saving, Programs
      <4> HIDE DEF todo
      <4>5. p \in Programs /\ p.todo = todo /\ p.st = prog[t].st
        BY <4>3, <4>4, Usual DEF Programs
      <4> HIDE DEF p
      <4> QED  BY <4>3, <4>5, Usual DEF LocalsOK
    <3> QED  BY <3>1, <3>2
  <2> HIDE DEF p, pc
  <2>4. pc \in Steps /\ Ready(t, p, pc)
    BY <2>2 DEF Steps, Ready, Holding, Routing, Retrying
  <2>5. ThreadsOK'  BY <2>1, <2>3, <2>4, <1>1, <1>3, <1>6, Becomes
  <2> QED  BY <2>5, <1>3, <1>4 DEF StepOK
<1>7. CASE RegistryFails(t)
  <2> DEFINE pc == OnError(prog[t].pc)
  <2>1. Become(t, prog[t], pc) /\ call'[t].pc = "idle"  BY <1>1, <1>7 DEF RegistryFails, To
  <2>2. /\ pc \in {"quit", "evalFail", "recFail", "connectFailed", "return"}
        /\ pc = "evalFail" => prog[t].pc = "evalMigrating"
        /\ pc = "recFail" => prog[t].pc = "recMigrating"
        /\ pc = "connectFailed" => prog[t].pc = "connecting"
    BY <1>2 DEF Calling, OnError
  <2> HIDE DEF pc
  <2>3. pc \in Steps \cup {"return"} /\ Ready(t, prog[t], pc)
    BY <2>2, Usual DEF Steps, Ready, Holding, Routing, Retrying
  <2>4. ThreadsOK'  BY <2>1, <2>3, <1>1, <1>3, Usual, Becomes
  <2> QED  BY <2>4, <1>3, <1>4 DEF StepOK
<1> QED  BY <1>5, <1>6, <1>7

-----------------------------------------------------------------------------
(* The cycle, and what happens around the two threads.                     *)

(* The cycle goes on with a list of operations.                            *)
LEMMA CycleGoesOn ==
  ASSUME DaemonInv, NEW p, p.todo \in Seq(CycleTodo), p.seen \in BOOLEAN,
         prog' = [prog EXCEPT ![Cycle] = After(p)], At(Cycle, "idle"), UNCHANGED call,
         UNCHANGED <<published, attempt>>
  PROVE  ThreadsOK'
<1>1. Cycle \in Threads  BY DaemonAssumption
<1>2. p.todo \in Seq(Operations \cup {"connected"})
  <2>1. CycleTodo \subseteq Operations \cup {"connected"}  BY DEF CycleTodo
  <2> QED  BY <2>1
<1>3. LocalsOK(Cycle, After(p)) /\ Ready(Cycle, After(p), After(p).pc)
  BY <1>1, <1>2, Usual, AfterOK
<1> QED  BY <1>1, <1>3, OneMoves DEF At, RetriesLeft, DaemonInv

(* wait_for_next_cycle: the lists of operations its triggers call for.     *)
LEMMA TodoLists ==
  /\ Refresh \in Seq(CycleTodo)
  /\ <<"persist", "gather">> \in Seq(CycleTodo)
  /\ <<"reeval", "gather">> \in Seq(CycleTodo)
  /\ <<"sync", "reeval", "gather">> \in Seq(CycleTodo)
<1>1. {"sync", "persist", "reeval", "gather"} \subseteq CycleTodo  BY DEF CycleTodo, Operations
<1> QED  BY <1>1 DEF Refresh

LEMMA CycleStepsOK ==
  ASSUME DaemonInv,
         \/ NetworkChangeRequested \/ StateChanged \/ AuthoritySnapshotChanged \/ IntervalElapsed
         \/ Gather \/ EnsureTarget \/ Baseline
  PROVE  StepOK
<1>0. Cycle \in Threads  BY DaemonAssumption
<1>1. ASSUME NEW todo \in Seq(CycleTodo), NEW seenFiles, StartCycle(todo, seenFiles)
      PROVE  StepOK
  <2> DEFINE p == [Waiting EXCEPT !.todo = todo]
  <2>1. p.todo \in Seq(CycleTodo) /\ p.seen \in BOOLEAN  BY DEF Waiting
  <2>2. ThreadsOK'
    <3>1. prog' = [prog EXCEPT ![Cycle] = After(p)]  BY <1>1 DEF StartCycle, CycleOf
    <3> HIDE DEF p
    <3> QED  BY <1>1, <2>1, <3>1, CycleGoesOn DEF StartCycle, On, RegistryUnchanged, vars
  <2>3. DurableOK'  BY <1>1 DEF StartCycle, RegistryUnchanged, DaemonInv, DurableOK
  <2> QED  BY <1>1, <2>2, <2>3 DEF StepOK, StartCycle, RegistryUnchanged
<1>2. CASE NetworkChangeRequested \/ StateChanged \/ AuthoritySnapshotChanged \/ IntervalElapsed
  BY <1>1, <1>2, TodoLists
     DEF NetworkChangeRequested, StateChanged, AuthoritySnapshotChanged, IntervalElapsed
<1>3. CASE Gather
  <2> DEFINE seen == runtime[Key] # NoSession
             reconciles == seen /\ ~ DisableReconcile
             todo == (IF reconciles THEN <<"reconcile">> ELSE <<>>) \o <<"target", "baseline">>
             p == [Waiting EXCEPT !.todo = todo, !.seen = seen /\ ~ reconciles]
  <2>1. todo \in Seq(CycleTodo)
    <3>1. {"reconcile", "target", "baseline"} \subseteq CycleTodo  BY DEF CycleTodo, Operations
    <3> QED  BY <3>1
  <2>2. prog' = [prog EXCEPT ![Cycle] = After(p)]  BY <1>3 DEF Gather
  <2> HIDE DEF todo
  <2>3. p.todo \in Seq(CycleTodo) /\ p.seen \in BOOLEAN  BY <2>1 DEF Waiting
  <2> HIDE DEF p
  <2>4. ThreadsOK'
    BY <1>3, <2>2, <2>3, CycleGoesOn
       DEF Gather, On, RegistryUnchanged, DurableUnchanged, vars
  <2> QED  BY <1>3, <2>4, DurableKept DEF StepOK, Gather, RegistryUnchanged, DaemonInv
<1>4. CASE EnsureTarget
  <2> DEFINE clears == (prog[Cycle].seen /\ runtime[Key] # NoSession) \/ Key \in suppressed
             pc == IF clears \/ ~ MayRetry THEN "return" ELSE "realize"
  <2>1. /\ Become(Cycle, prog[Cycle], pc) /\ call[Cycle].pc = "idle" /\ UNCHANGED call
        /\ UNCHANGED published
    BY <1>4 DEF EnsureTarget, To, On, At, RegistryUnchanged, vars
  <2>2. attempt' \in {NoAttempt, attempt}  BY <1>4 DEF EnsureTarget
  <2>3. pc \in Steps \cup {"return"} /\ Ready(Cycle, prog[Cycle], pc)
    BY DEF Steps, Operations, Ready, Holding, Routing, Retrying, MayRetry, RetriesLeft
  <2>4. RetriesLeft => RetriesLeft'  BY <2>2 DEF RetriesLeft
  <2> HIDE DEF pc
  <2>5. ThreadsOK'  BY <1>0, <2>1, <2>3, <2>4, Usual, Becomes
  <2>6. DurableOK'
    BY <1>4, <2>2 DEF EnsureTarget, RegistryUnchanged, DaemonInv, DurableOK
  <2> QED  BY <1>4, <2>5, <2>6 DEF StepOK, EnsureTarget, RegistryUnchanged
<1>5. CASE Baseline
  <2>1. DurableOK'  BY <1>5 DEF Baseline, RegistryUnchanged, DaemonInv, DurableOK
  <2> QED
    BY <1>0, <1>5, <2>1, AsideOK
       DEF Baseline, On, RegistryUnchanged, Holding, Routing, Retrying
<1> QED  BY <1>2, <1>3, <1>4, <1>5

LEMMA AroundOK ==
  ASSUME DaemonInv, BackoffOver \/ Publish \/ NetworkChange \/ RelayRestarts
  PROVE  StepOK
<1>0. published \in Versions /\ MaxVersion \in Nat
  BY DaemonAssumption DEF DaemonInv, DurableOK
<1>1. UNCHANGED <<prog, call>>
  BY DEF BackoffOver, Publish, NetworkChange, RelayRestarts, RegistryUnchanged, vars,
         RelayRestart, daemonVars
<1>2. published' >= published /\ published' \in Versions
  BY <1>0 DEF BackoffOver, Publish, NetworkChange, RelayRestarts, daemonVars, Versions
<1>3. RetriesLeft => RetriesLeft'
  <2>1. CASE BackoffOver
    <3>1. attempt \in Attempts  BY <2>1 DEF BackoffOver, DaemonInv, DurableOK
    <3>2. attempt'.state = attempt.state  BY <2>1, <3>1 DEF BackoffOver, Attempts
    <3> QED  BY <2>1, <3>2 DEF BackoffOver, RetriesLeft
  <2>2. CASE ~ BackoffOver
    BY <2>2 DEF Publish, NetworkChange, RelayRestarts, daemonVars, RetriesLeft
  <2> QED  BY <2>1, <2>2
<1>4. ThreadsOK'
  <2>1. ASSUME NEW u \in Threads PROVE ThreadOK(u)'
    <3>1. ThreadOK(u) /\ prog'[u] = prog[u] /\ call'[u] = call[u]
      BY <1>1 DEF DaemonInv, ThreadsOK
    <3>2. prog[u].st <= published'
      BY <3>1, <1>0, <1>2 DEF ThreadOK, LocalsOK, Programs, Versions
    <3> QED  BY <3>1, <3>2, <1>3 DEF ThreadOK, LocalsOK, Ready
  <2> QED  BY <2>1, <1>1 DEF DaemonInv, ThreadsOK
<1>5. DurableOK'
  <2>1. CASE BackoffOver
    <3>1. attempt \in Attempts  BY <2>1 DEF BackoffOver, DaemonInv, DurableOK
    <3>2. /\ attempt' \in Attempts /\ attempt'.state = attempt.state
          /\ attempt'.count = attempt.count
      BY <2>1, <3>1 DEF BackoffOver, Attempts
    <3> QED  BY <2>1, <3>2 DEF BackoffOver, RegistryUnchanged, DaemonInv, DurableOK
  <2>2. CASE Publish
    BY <2>2, <1>0, <1>2 DEF Publish, RegistryUnchanged, DaemonInv, DurableOK, Versions
  <2>3. CASE NetworkChange
    BY <2>3, DaemonAssumption DEF NetworkChange, RegistryUnchanged, DaemonInv, DurableOK
  <2>4. CASE RelayRestarts
    BY <2>4 DEF RelayRestarts, daemonVars, DaemonInv, DurableOK
  <2> QED  BY <2>1, <2>2, <2>3, <2>4
<1>6. [Next]_vars
  BY DEF BackoffOver, Publish, NetworkChange, RelayRestarts, RegistryUnchanged, Next
<1> QED  BY <1>4, <1>5, <1>6 DEF StepOK

(* A request arrives at the control server.                                *)
LEMMA RequestOK ==
  ASSUME DaemonInv, NEW op \in {"sync", "realize", "close", "upgrade", "reconcile"}, Request(op)
  PROVE  StepOK
<1> DEFINE q == [Waiting EXCEPT !.pc = op]
<1>1. Control \in Threads /\ Control # Cycle  BY DaemonAssumption
<1>2. Waiting \in Programs /\ LocalsOK(Control, Waiting)  BY <1>1, Usual, WaitingOK
<1>3. /\ q \in Programs /\ q.pc = op /\ q.st = Waiting.st /\ q.todo = Waiting.todo
  BY <1>2 DEF Programs, Steps, Operations
<1>4. prog' = [prog EXCEPT ![Control] = q] /\ call[Control].pc = "idle" /\ UNCHANGED call
  BY DEF Request, On, At, RegistryUnchanged, vars
<1> HIDE DEF q
<1>5. LocalsOK(Control, q)  BY <1>1, <1>2, <1>3 DEF LocalsOK
<1>6. Ready(Control, q, q.pc)  BY <1>1, <1>3 DEF Ready, Holding, Routing
<1>7. ThreadsOK'
  BY <1>1, <1>4, <1>5, <1>6, OneMoves DEF Request, RetriesLeft, DaemonInv
<1>8. DurableOK'
  BY DaemonAssumption DEF Request, RegistryUnchanged, DaemonInv, DurableOK
<1> QED  BY <1>7, <1>8 DEF StepOK, Request, RegistryUnchanged

-----------------------------------------------------------------------------
(* Every step of the daemon keeps the invariant and is a step of the       *)
(* registry, or leaves the registry alone.                                 *)
LEMMA WorksOK ==
  ASSUME DaemonInv, NEW t \in Threads, Works(t)
  PROVE  StepOK
BY ReevaluateOK, ReconcileOK, RealizeOK, DurableStepsOK, RegistryStepsOK DEF Works

LEMMA DaemonStep ==
  ASSUME DaemonInv, [DaemonNext]_allVars
  PROVE  DaemonInv' /\ [Next]_vars
<1>1. Cycle \in Threads /\ Control \in Threads  BY DaemonAssumption
<1>2. StepOK
  <2>1. CASE CycleWorks  BY <1>1, <2>1, CycleStepsOK, WorksOK DEF CycleWorks
  <2>2. CASE ControlWorks  BY <1>1, <2>2, OperatorOK, WorksOK DEF ControlWorks
  <2>3. CASE UNCHANGED allVars
    <3>1. DurableOK'  BY <2>3 DEF allVars, daemonVars, DaemonInv, DurableOK
    <3>2. ASSUME NEW u \in Threads PROVE ThreadOK(u)'
      <4>1. ThreadOK(u)  BY DEF DaemonInv, ThreadsOK
      <4> QED
        BY <2>3, <4>1 DEF allVars, daemonVars, vars, ThreadOK, LocalsOK, Ready, RetriesLeft
    <3> QED  BY <2>3, <3>1, <3>2 DEF allVars, daemonVars, DaemonInv, ThreadsOK, StepOK
  <2> QED  BY <2>1, <2>2, <2>3, AroundOK, RequestOK DEF DaemonNext
<1>3. IndInv'  BY <1>2, IndInvStep DEF DaemonInv, StepOK
<1> QED  BY <1>2, <1>3 DEF StepOK, DaemonInv

LEMMA InitDaemonInv == DaemonInit => DaemonInv
<1> SUFFICES ASSUME DaemonInit PROVE DaemonInv
  OBVIOUS
<1> DEFINE p == [Waiting EXCEPT !.todo = Refresh]
<1>1. IndInv  BY InitIndInv DEF DaemonInit
<1>2. published \in Versions  BY DaemonAssumption DEF DaemonInit, Versions
<1>3. DurableOK  BY <1>2, DaemonAssumption DEF DaemonInit, DurableOK
<1>4. /\ p.todo \in Seq(CycleTodo) /\ p.todo \in Seq(Operations \cup {"connected"})
      /\ p.seen \in BOOLEAN
  <2>1. CycleTodo \subseteq Operations \cup {"connected"}  BY DEF CycleTodo
  <2>2. Refresh \in Seq(Operations \cup {"connected"})  BY <2>1, TodoLists
  <2> QED  BY <2>2, TodoLists DEF Waiting
<1>5. CycleOf(Refresh) = After(p)  BY DEF CycleOf
<1> HIDE DEF p
<1>6. ASSUME NEW t \in Threads
      PROVE  /\ LocalsOK(t, After(p)) /\ Ready(t, After(p), After(p).pc)
             /\ LocalsOK(t, Waiting) /\ Ready(t, Waiting, Waiting.pc)
  BY <1>2, <1>4, AfterOK, WaitingOK
<1>7. ASSUME NEW t \in Threads
      PROVE  LocalsOK(t, prog[t]) /\ Ready(t, prog[t], prog[t].pc)
  <2>1. prog[t] = IF t = Cycle THEN After(p) ELSE Waiting  BY <1>5 DEF DaemonInit
  <2> QED  BY <1>6, <2>1
<1>8. \A t \in Threads : call[t].pc = "idle"  BY DEF DaemonInit, Init, Idle
<1>9. prog \in [Threads -> Programs]
  <2>1. \A t \in Threads : prog[t] \in Programs  BY <1>7 DEF LocalsOK
  <2> QED  BY <2>1 DEF DaemonInit
<1> QED  BY <1>1, <1>3, <1>7, <1>8, <1>9 DEF DaemonInv, ThreadsOK, ThreadOK

(* What a thread of the daemon relies on where it is holds there: it waits *)
(* for the registry only in the steps that started an operation of it,     *)
(* uses only a snapshot that it has read, and goes only along a route.     *)
THEOREM DaemonInvCorrect == DaemonSpec => []DaemonInv
BY InitDaemonInv, DaemonStep, PTL DEF DaemonSpec

(* The versions, the retry and the locals of both threads keep their       *)
(* types.  In particular no operation saves facts the authority has not    *)
(* published, and a retry is given up (Failed) exactly when it has used up *)
(* its attempts: ensure_target_session never counts beyond                 *)
(* RECONNECT_MAX_ATTEMPTS, though the other thread reads and writes the    *)
(* state meanwhile.                                                        *)
THEOREM DaemonTypeCorrect == DaemonSpec => []DaemonTypeOK
<1>1. DaemonInv => DaemonTypeOK
  BY IndInvTypes DEF DaemonInv, DurableOK, ThreadsOK, DaemonTypeOK
<1> QED  BY <1>1, DaemonInvCorrect, PTL

(* The daemon implements the registry's specification: reevaluation,       *)
(* reconciliation, connects, retries and operator requests of both threads *)
(* drive the registry only through its operations, one at a time each.     *)
THEOREM DaemonImplementsTransport == DaemonSpec => Spec
<1>1. DaemonInit => Init  BY DEF DaemonInit
<1>2. DaemonInv /\ [DaemonNext]_allVars => [Next]_vars  BY DaemonStep
<1> QED  BY <1>1, <1>2, DaemonInvCorrect, PTL DEF DaemonSpec, Spec

(* So what is proved of the registry holds of the daemon: whatever its two *)
(* threads do to the target's session, no transport session is forgotten   *)
(* at the relay, and the path of a registered session is served there.     *)
THEOREM DaemonKeepsSessions == DaemonSpec => [](NoOrphan /\ RegistryServed)
BY DaemonImplementsTransport, NoOrphanCorrect, RegistryServedCorrect, PTL

=============================================================================
