--------------------------- MODULE InspectionProofs --------------------------
(***************************************************************************)
(* Proofs about the control server's reports, for any facts, routes and    *)
(* number of requests: the daemon keeps what was proved of it while        *)
(* reports are made, and a report neither misses what lasts nor raises an  *)
(* alarm that nothing justifies.                                           *)
(***************************************************************************)
EXTENDS Inspection, DaemonProofs

(* A registered session is in a state its callers give it: it is Closed    *)
(* only in the ledger.                                                     *)
StatesOK == runtime[Key] # NoSession => runtime[Key].state \in CallerStates

(* Where a report is: its reads follow one another, and the paths are read *)
(* twice.                                                                  *)
PathPcs == {"paths", "pathSuppressions", "pathAttempts", "pathTerminal"}

PastEvents == report.pc \notin {"idle", "status", "events"}

PastAttempts == report.pc \in PathPcs \cup {"inventory"}

PastInventory == report.again /\ report.pc # "inventory"

OrderOK ==
  /\ report.pc = "inventory" => report.again
  /\ report.again => report.pc \in PathPcs \cup {"inventory"}

(* Some issue names condition c.                                           *)
Named(c) == NamedBy(c) \cap report.issues # {}

(* What has lasted so far holds now, and was named by the reads that show  *)
(* it, or is in what they have left for a later step.                      *)
LastingOK ==
  /\ report.always \subseteq Trouble
  /\ "denied" \in report.always =>
       /\ report.pc = "events" => report.denied
       /\ PastEvents => Named("denied")
  /\ "recorded" \in report.always /\ PastEvents => Named("recorded")
  /\ "suppressed" \in report.always =>
       /\ report.pc = "attempts" => report.suppressed
       /\ PastAttempts => Named("suppressed")
  /\ "exhausted" \in report.always /\ PastAttempts => Named("exhausted")
  /\ "backing off" \in report.always =>
       /\ PastAttempts /\ ~ report.again => report.level # "Ready"
       /\ report.again => Named("backing off")
  /\ ~ PastInventory =>
       /\ "degraded" \in report.always => report.session = "Degraded"
       /\ "failing" \in report.always => report.session = "Failed"
       /\ "closing" \in report.always => report.session = "Closing"
  /\ PastInventory =>
       \A c \in report.always \cap {"degraded", "failing", "closing", "closed"} : Named(c)

(* The report has found a session, or the number of sessions.              *)
Found == report.session # "none" \/ report.count = 1

(* While nothing was wrong, no read found anything wrong, and a session    *)
(* that a read has found is still there for the reads it is compared with. *)
QuietOK ==
  /\ Quiet
  /\ ~ report.denied /\ ~ report.suppressed
  /\ report.level = "Ready"
  /\ report.issues = {}
  /\ report.session \notin {"Degraded", "Failed", "Closing"}
  /\ report.entry.state # "Failed"
  /\ ~ report.again /\ Found => runtime[Key] # NoSession
  /\ report.pc \in PathPcs \ {"paths"} /\ ~ report.again /\ Found => report.entry.session
  /\ report.pc = "inventory" /\ report.session # "none" => report.active = 1

ReportOK ==
  /\ OrderOK
  /\ report.pc # "idle" => LastingOK /\ (~ report.ever => QuietOK)

InspectionInv == DaemonInv /\ StatesOK /\ report \in Reports /\ ReportOK

-----------------------------------------------------------------------------
(* The registry between two reads.                                         *)

(* A registered session keeps a state its callers give it, and one that is *)
(* removed is leaving.                                                     *)
LEMMA RegistryBetween ==
  ASSUME IndInv, StatesOK, [Next]_vars
  PROVE  StatesOK' /\ (runtime[Key] # NoSession /\ runtime'[Key] = NoSession => Leaving')
<1>1. /\ Key \in Keys /\ NoSession \notin Snapshots
      /\ {"Active", "Migrating", "Closing"} \subseteq CallerStates
      /\ CallerStates \subseteq SessionStates
  BY DaemonAssumption, NoSnapshotAssumption, TransportAssumption
<1>2. /\ runtime \in [Keys -> Snapshots \cup {NoSession}]
      /\ call \in [Threads -> Calls]
  BY DEF IndInv, RegistryTypeOK
<1>3. ASSUME NEW k \in Keys, NEW s \in CallerStates, NEW w \in Causes \cup {NoCause},
             UpdateState(k, s, w)
      PROVE  StatesOK' /\ (runtime[Key] # NoSession => runtime'[Key] # NoSession)
  <2>1. CASE runtime[k] = NoSession  BY <1>3, <2>1 DEF UpdateState, StatesOK
  <2>2. CASE runtime[k] # NoSession
    <3> DEFINE new == WithState(runtime[k], s, w)
    <3>1. runtime' = [runtime EXCEPT ![k] = new]  BY <1>3, <2>2 DEF UpdateState
    <3>2. new.state = s /\ new \in Snapshots
      BY <1>1, <1>2, <2>2 DEF WithState, Snapshots
    <3> HIDE DEF new
    <3> QED  BY <1>1, <1>2, <3>1, <3>2 DEF StatesOK
  <2> QED  BY <2>1, <2>2
<1>4. CASE UNCHANGED runtime  BY <1>4 DEF StatesOK
<1>5. ASSUME NEW t \in Threads, CallerStep(t) \/ MarkClosing(t)
      PROVE  StatesOK' /\ (runtime[Key] # NoSession => runtime'[Key] # NoSession)
  <2>1. call[t].key \in Keys /\ call[t].cause \in Causes \cup {NoCause}
    BY <1>2 DEF Calls
  <2>2. CASE MarkClosing(t)  BY <1>1, <1>3, <2>1, <2>2 DEF MarkClosing
  <2>3. ASSUME NEW k \in Keys, NEW s \in CallerStates, NEW w \in Causes \cup {NoCause},
               SetState(t, k, s, w)
        PROVE  StatesOK' /\ (runtime[Key] # NoSession => runtime'[Key] # NoSession)
    BY <1>3, <2>3 DEF SetState
  <2>4. ASSUME NEW k \in Keys, NEW r \in Routes, BeginMigrate(t, k, r)
        PROVE  StatesOK' /\ (runtime[Key] # NoSession => runtime'[Key] # NoSession)
    BY <1>1, <1>3, <2>4 DEF BeginMigrate
  <2>5. CASE UNCHANGED runtime  BY <2>5 DEF StatesOK
  <2> QED  BY <1>5, <2>2, <2>3, <2>4, <2>5 DEF CallerStep, Suppress, Unsuppress, BeginConnect, BeginClose
<1>6. ASSUME NEW t \in Threads, Insert(t)
      PROVE  StatesOK' /\ (runtime[Key] # NoSession => runtime'[Key] # NoSession)
  <2> DEFINE new == NewSnapshot(call[t])
  <2>1. call[t].key \in Keys /\ CallShape(call[t])  BY <1>2 DEF Calls, IndInv, Shape
  <2>2. new.state = "Active" /\ new \in Snapshots
    BY <1>2, <1>6, <2>1 DEF Insert, At, CallShape, NewSnapshot, Snapshots, SessionStates, Calls
  <2>3. runtime' = [runtime EXCEPT ![call[t].key] = new]  BY <1>6 DEF Insert
  <2> HIDE DEF new
  <2> QED  BY <1>1, <1>2, <2>1, <2>2, <2>3 DEF StatesOK
<1>7. ASSUME NEW t \in Threads, Remove(t)
      PROVE  StatesOK' /\ (runtime[Key] # NoSession /\ runtime'[Key] = NoSession => Leaving')
  <2>1. CASE runtime[call[t].key] = NoSession  BY <1>7, <2>1 DEF Remove, StatesOK
  <2>2. CASE runtime[call[t].key] # NoSession
    <3> DEFINE pc == IF IsRelay(runtime[call[t].key]) THEN "closeRemoved" ELSE "record"
               c == [call[t] EXCEPT !.snap = runtime[call[t].key]]
    <3>1. runtime' = [runtime EXCEPT ![call[t].key] = NoSession] /\ Goto(t, c, pc)
      BY <1>7, <2>2 DEF Remove
    <3>2. call[t].key \in Keys /\ "pc" \in DOMAIN c  BY <1>2 DEF Calls
    <3> HIDE DEF c
    <3>3. call'[t].pc = pc  BY <1>2, <3>1, <3>2 DEF Goto
    <3>4. Leaving'  BY <3>3 DEF Leaving
    <3> QED  BY <1>1, <1>2, <3>1, <3>2, <3>4 DEF StatesOK
  <2> QED  BY <2>1, <2>2
<1> QED
  BY <1>4, <1>5, <1>6, <1>7
     DEF Next, AdapterStep, Proceeds, Fails, vars, RelayRestart, OpenDirect, OpenRelay,
         ClosePrev, ReadExisting, CloseOld, CloseRemoved, Record, OpenInvalid,
         OpenRelayAnswerLost, OpenRelayFails, ClosePrevFails, NotOwned, CloseOldFails,
         CloseRemovedFails

-----------------------------------------------------------------------------
(* What the conditions say.                                                *)
LEMMA TroubleIs ==
  /\ "denied" \in Trouble <=> LocallyDenied(file)
  /\ "recorded" \in Trouble <=> completed = "denied"
  /\ "suppressed" \in Trouble <=> Key \in suppressed
  /\ "backing off" \in Trouble <=> attempt # NoAttempt /\ attempt.state = "BackingOff"
  /\ "exhausted" \in Trouble <=> attempt # NoAttempt /\ attempt.state = "Failed"
  /\ "degraded" \in Trouble <=> SessionIn({"Degraded"})
  /\ "failing" \in Trouble <=> SessionIn({"Failed"})
  /\ "closing" \in Trouble <=> SessionIn({"Closing"})
  /\ "closed" \in Trouble <=> terminal # <<>>
BY DEF Trouble, Conditions, Holds

(* What the reads find while nothing is wrong.                             *)
LEMMA QuietIs ==
  ASSUME Quiet, DurableOK, StatesOK
  PROVE  /\ ~ LocallyDenied(file) /\ completed # "denied" /\ Key \notin suppressed
         /\ attempt = NoAttempt /\ terminal = <<>>
         /\ runtime[Key] # NoSession =>
              runtime[Key].state \in {"Active", "Migrating", "Reconciling"}
<1>1. Trouble = {}  BY DEF Quiet
<1>2. attempt # NoAttempt => attempt.state \in {"BackingOff", "Failed"}
  BY DEF DurableOK, Attempts
<1>3. runtime[Key] # NoSession => runtime[Key].state \notin {"Degraded", "Failed", "Closing"}
  BY <1>1, TroubleIs DEF SessionIn
<1> QED  BY <1>1, <1>2, <1>3, TroubleIs, DaemonAssumption DEF StatesOK

(* A step of the report leaves everything else alone.                      *)
LEMMA StaysAsIs ==
  ASSUME UNCHANGED allVars
  PROVE  /\ Trouble' = Trouble /\ Quiet' = Quiet
         /\ UNCHANGED <<runtime, terminal, file, completed, suppressed, attempt>>
<1>1. \A c \in Conditions : Holds(c)' = Holds(c)
  BY DEF allVars, vars, daemonVars, Holds, SessionIn, Conditions
<1>2. Trouble' = Trouble  BY <1>1 DEF Trouble
<1>3. Leaving' = Leaving  BY DEF allVars, vars, Leaving
<1> QED  BY <1>2, <1>3 DEF Quiet, allVars, vars, daemonVars

(* runtime_rollup_health is Ready only if all that it rolls up is.         *)
LEMMA RollupIs ==
  ASSUME NEW a \in Levels, NEW b \in Levels
  PROVE  /\ Rollup({a, b}) \in Levels
         /\ Rollup({a, b}) = "Ready" <=> a = "Ready" /\ b = "Ready"
<1> DEFINE P(l) == \/ l = "Failed"
                   \/ l = "Suppressed" /\ "Failed" \notin {a, b}
                   \/ l = "Degraded" /\ {a, b} \cap {"Failed", "Suppressed"} = {}
                   \/ l = "Ready" /\ {a, b} \subseteq {"Ready"}
<1>1. Rollup({a, b}) = CHOOSE l \in {a, b} \cup {"Ready"} : P(l)  BY DEF Rollup
<1>2. \E l \in {a, b} \cup {"Ready"} : P(l)
  <2>1. CASE "Failed" \in {a, b}  BY <2>1
  <2>2. CASE "Failed" \notin {a, b} /\ "Suppressed" \in {a, b}  BY <2>2
  <2>3. CASE {a, b} \cap {"Failed", "Suppressed"} = {} /\ "Degraded" \in {a, b}  BY <2>3
  <2>4. CASE {a, b} \subseteq {"Ready"}  BY <2>4
  <2> QED  BY <2>1, <2>2, <2>3, <2>4 DEF Levels
<1>3. PICK l \in {a, b} \cup {"Ready"} : l = Rollup({a, b}) /\ P(l)  BY <1>1, <1>2
<1>4. l \in Levels  BY <1>3 DEF Levels
<1>5. l = "Ready" => a = "Ready" /\ b = "Ready"  BY <1>3
<1>6. a = "Ready" /\ b = "Ready" => l = "Ready"  BY <1>3
<1> QED  BY <1>3, <1>4, <1>5, <1>6

(* An issue that was raised stays.                                         *)
LEMMA NamedStays ==
  ASSUME NEW c, Named(c), report.issues \subseteq report'.issues
  PROVE  Named(c)'
<1>1. PICK i \in NamedBy(c) : i \in report.issues  BY DEF Named
<1> QED  BY <1>1 DEF Named

-----------------------------------------------------------------------------
(* The daemon goes on while a report is under way.                         *)
LEMMA WatchOK ==
  ASSUME InspectionInv, [Next]_vars, Watch
  PROVE  report' \in Reports /\ ReportOK'
<1>1. CASE report.pc = "idle"
  BY <1>1 DEF Watch, InspectionInv, ReportOK, OrderOK, PathPcs
<1>2. CASE report.pc # "idle"
  <2>1. report' = [report EXCEPT !.always = report.always \cap Trouble',
                                 !.ever = report.ever \/ ~ Quiet']
    BY <1>2 DEF Watch, Watched
  <2>2. report \in Reports  BY DEF InspectionInv
  <2>3. /\ report' \in Reports
        /\ report'.pc = report.pc /\ report'.again = report.again
        /\ report'.session = report.session /\ report'.denied = report.denied
        /\ report'.level = report.level /\ report'.count = report.count
    BY <2>1, <2>2 DEF Reports
  <2>4. /\ report'.suppressed = report.suppressed /\ report'.entry = report.entry
        /\ report'.active = report.active /\ report'.issues = report.issues
        /\ report'.always = report.always \cap Trouble'
        /\ report'.ever = (report.ever \/ ~ Quiet')
    BY <2>1, <2>2 DEF Reports
  <2>5. LastingOK'
    <3>1. LastingOK  BY <1>2 DEF InspectionInv, ReportOK
    <3>2. \A c : Named(c) <=> Named(c)'  BY <2>4 DEF Named
    <3>3. /\ PastEvents' = PastEvents /\ PastAttempts' = PastAttempts
          /\ PastInventory' = PastInventory
      BY <2>3 DEF PastEvents, PastAttempts, PastInventory
    <3> QED  BY <2>3, <2>4, <3>1, <3>2, <3>3 DEF LastingOK
  <2>6. ASSUME ~ report'.ever PROVE QuietOK'
    <3>1. QuietOK /\ Quiet'  BY <1>2, <2>4, <2>6 DEF InspectionInv, ReportOK
    <3>2. runtime[Key] # NoSession => runtime'[Key] # NoSession
      BY <3>1, RegistryBetween DEF InspectionInv, DaemonInv, Quiet
    <3> QED  BY <2>3, <2>4, <3>1, <3>2 DEF QuietOK, Found
  <2>7. OrderOK'  BY <2>3 DEF InspectionInv, ReportOK, OrderOK
  <2> QED  BY <2>3, <2>5, <2>6, <2>7 DEF ReportOK
<1> QED  BY <1>1, <1>2

(* A report begins.                                                        *)
LEMMA DiagnoseOK ==
  ASSUME InspectionInv, Diagnose
  PROVE  InspectionInv' /\ UNCHANGED vars
<1> DEFINE s == IF runtime[Key] = NoSession THEN "none" ELSE runtime[Key].state
<1>1. s \in SessionStates \cup {"none"}
  BY DaemonAssumption DEF InspectionInv, DaemonInv, IndInv, RegistryTypeOK, Snapshots
<1>2. /\ UNCHANGED <<vars, published, file, dirty, attempt, listener, completed, prog, up>>
      /\ UNCHANGED <<runtime, terminal, suppressed, call>>
      /\ requests' = requests + 1 /\ requests < MaxRequests
  BY DEF Diagnose, vars
<1>3. DaemonInv'
  <2>1. IndInv'  BY <1>2, IndInvStep DEF InspectionInv, DaemonInv
  <2>2. DurableOK'  BY <1>2, DaemonAssumption DEF InspectionInv, DaemonInv, DurableOK
  <2>3. ASSUME NEW u \in Threads PROVE ThreadOK(u)'
    <3>1. ThreadOK(u)  BY DEF InspectionInv, DaemonInv, ThreadsOK
    <3> QED  BY <1>2, <3>1 DEF ThreadOK, LocalsOK, Ready, RetriesLeft
  <2> QED  BY <1>2, <2>1, <2>2, <2>3 DEF InspectionInv, DaemonInv, ThreadsOK
<1>4. StatesOK'  BY <1>2 DEF InspectionInv, StatesOK
<1>5. Trouble' = Trouble /\ Quiet' = Quiet
  <2>1. \A c \in Conditions : Holds(c)' = Holds(c)
    BY <1>2 DEF Holds, SessionIn, Conditions
  <2>2. Trouble' = Trouble  BY <2>1 DEF Trouble
  <2> QED  BY <1>2, <2>2 DEF Quiet, Leaving
<1>6. report' = [NoReport EXCEPT !.pc = "status", !.session = s, !.always = Trouble,
                                 !.ever = ~ Quiet]
  BY DEF Diagnose
<1> HIDE DEF s
<1>7. /\ report' \in Reports
      /\ report'.pc = "status" /\ ~ report'.again /\ report'.session = s
      /\ report'.always = Trouble /\ report'.ever = ~ Quiet
  <2>1. Trouble \in SUBSET Conditions  BY DEF Trouble
  <2>2. NoReport \in Reports  BY DEF NoReport, Reports, Levels
  <2>3. report' \in Reports  BY <1>1, <1>6, <2>1, <2>2 DEF Reports
  <2> QED  BY <1>6, <2>2, <2>3 DEF NoReport
<1>8. /\ ~ report'.denied /\ ~ report'.suppressed /\ report'.level = "Ready"
      /\ report'.issues = {} /\ report'.entry = NoEntry /\ report'.count = 0
  BY <1>6 DEF NoReport
<1>9. LastingOK'
  <2>1. /\ "degraded" \in Trouble => s = "Degraded"
        /\ "failing" \in Trouble => s = "Failed"
        /\ "closing" \in Trouble => s = "Closing"
    BY TroubleIs DEF SessionIn, s
  <2> QED
    BY <1>5, <1>7, <2>1 DEF LastingOK, PastEvents, PastAttempts, PastInventory, PathPcs
<1>10. ASSUME ~ report'.ever PROVE QuietOK'
  <2>1. Quiet  BY <1>7, <1>10
  <2>2. runtime[Key] # NoSession => runtime[Key].state \in {"Active", "Migrating", "Reconciling"}
    BY <2>1, QuietIs DEF InspectionInv, DaemonInv
  <2>3. s \notin {"Degraded", "Failed", "Closing"} /\ (s # "none" => runtime[Key] # NoSession)
    BY <2>2 DEF s
  <2> QED
    BY <1>2, <1>5, <1>7, <1>8, <2>1, <2>3 DEF QuietOK, Found, NoEntry, PathPcs
<1>11. OrderOK'  BY <1>7 DEF OrderOK
<1> QED  BY <1>2, <1>3, <1>4, <1>7, <1>9, <1>10, <1>11 DEF InspectionInv, ReportOK

-----------------------------------------------------------------------------
(* The reads.                                                              *)

(* What every read starts from.                                            *)
LEMMA ReadUsual ==
  ASSUME InspectionInv, UNCHANGED allVars, report.pc # "idle"
  PROVE  /\ report \in Reports /\ OrderOK /\ LastingOK
         /\ Trouble' = Trouble /\ Quiet' = Quiet /\ UNCHANGED runtime
         /\ ~ report.ever =>
              /\ QuietOK
              /\ ~ LocallyDenied(file) /\ completed # "denied" /\ Key \notin suppressed
              /\ attempt = NoAttempt /\ terminal = <<>>
              /\ runtime[Key] # NoSession =>
                   runtime[Key].state \in {"Active", "Migrating", "Reconciling"}
<1>1. report \in Reports /\ OrderOK /\ LastingOK /\ (~ report.ever => QuietOK)
  BY DEF InspectionInv, ReportOK
<1>2. QuietOK => Quiet  BY DEF QuietOK
<1>3. DurableOK /\ StatesOK  BY DEF InspectionInv, DaemonInv
<1> QED  BY <1>1, <1>2, <1>3, StaysAsIs, QuietIs

(* The facts and the last event: what they deny is an issue.               *)
LEMMA ReadStatusOK ==
  ASSUME InspectionInv, ReadStatus
  PROVE  report' \in Reports /\ ReportOK'
<1> DEFINE d == LocallyDenied(file)
<1>0. report.pc = "status" /\ UNCHANGED allVars  BY DEF ReadStatus, ReadAt
<1>1. report' = [report EXCEPT !.pc = "events", !.denied = d]
  BY DEF ReadStatus, ReadAt
<1>d. d \in BOOLEAN  BY DEF LocallyDenied
<1> HIDE DEF d
<1>2. report \in Reports  BY DEF InspectionInv
<1>3. /\ report' \in Reports /\ report'.pc = "events" /\ report'.again = report.again
      /\ report'.session = report.session /\ report'.count = report.count
      /\ report'.denied = d
  BY <1>1, <1>2, <1>d DEF Reports
<1>4. /\ report'.always = report.always /\ report'.ever = report.ever
      /\ report'.issues = report.issues /\ report'.level = report.level
      /\ report'.suppressed = report.suppressed /\ report'.entry = report.entry
  BY <1>1, <1>2 DEF Reports
<1>5. ~ report.again  BY <1>0, ReadUsual DEF OrderOK, PathPcs
<1>6. LastingOK'
  BY <1>0, <1>3, <1>4, <1>5, ReadUsual, TroubleIs
     DEF d, LastingOK, PastEvents, PastAttempts, PastInventory, PathPcs
<1>7. ~ report'.ever => QuietOK'
  BY <1>0, <1>3, <1>4, <1>5, ReadUsual DEF d, QuietOK, Found, PathPcs
<1> QED  BY <1>3, <1>5, <1>6, <1>7 DEF ReportOK, OrderOK

LEMMA ReadEventsOK ==
  ASSUME InspectionInv, ReadEvents
  PROVE  report' \in Reports /\ ReportOK'
<1> DEFINE new == AuthorityIssues(report.denied, completed)
<1>0. report.pc = "events" /\ UNCHANGED allVars  BY DEF ReadEvents, ReadAt
<1>1. report' = [report EXCEPT !.pc = "health", !.denied = FALSE, !.issues = report.issues \cup new]
  BY DEF ReadEvents, ReadAt
<1>2. report \in Reports  BY DEF InspectionInv
<1>a. /\ new \subseteq IssueCodes
      /\ report.denied => new \cap {"authority_policy_denied", "authority_not_ready"} # {}
      /\ completed = "denied" => new \cap {"authority_policy_denied"} # {}
      /\ ~ report.denied /\ completed # "denied" => new = {}
  BY DEF AuthorityIssues, IssueCodes
<1> HIDE DEF new
<1>3. /\ report' \in Reports /\ report'.pc = "health" /\ report'.again = report.again
      /\ report'.session = report.session /\ report'.count = report.count
      /\ report'.denied = FALSE
  BY <1>1, <1>2, <1>a DEF Reports
<1>4. /\ report'.always = report.always /\ report'.ever = report.ever
      /\ report'.issues = report.issues \cup new /\ report'.level = report.level
      /\ report'.suppressed = report.suppressed /\ report'.entry = report.entry
  BY <1>1, <1>2 DEF Reports
<1>5. ~ report.again  BY <1>0, ReadUsual DEF OrderOK, PathPcs
<1>6. LastingOK'
  <2>1. "denied" \in report.always => Named("denied")'
    <3>1. "denied" \in report.always => report.denied
      BY <1>0, ReadUsual DEF LastingOK
    <3> QED  BY <1>a, <1>4, <3>1 DEF Named, NamedBy
  <2>2. "recorded" \in report.always => Named("recorded")'
    <3>1. "recorded" \in report.always => completed = "denied"
      BY <1>0, ReadUsual, TroubleIs DEF LastingOK
    <3> QED  BY <1>a, <1>4, <3>1 DEF Named, NamedBy
  <2> QED
    BY <1>0, <1>3, <1>4, <1>5, <2>1, <2>2, ReadUsual
       DEF LastingOK, PastEvents, PastAttempts, PastInventory, PathPcs
<1>7. ~ report'.ever => QuietOK'
  <2>1. ~ report.ever => new = {}  BY <1>0, <1>a, ReadUsual DEF QuietOK
  <2> QED  BY <1>0, <1>3, <1>4, <1>5, <2>1, ReadUsual DEF QuietOK, Found, PathPcs
<1> QED  BY <1>3, <1>5, <1>6, <1>7 DEF ReportOK, OrderOK

(* runtime_health: the facts, the number of sessions, the reconnects.      *)
LEMMA ReadHealthOK ==
  ASSUME InspectionInv, ReadHealth \/ ReadCount \/ ReadSuppressions
  PROVE  report' \in Reports /\ ReportOK'
<1>0. report.pc \in {"health", "count", "suppressions"} /\ UNCHANGED allVars
  BY DEF ReadHealth, ReadCount, ReadSuppressions, ReadAt
<1>2. report \in Reports  BY DEF InspectionInv
<1>3. /\ report' \in Reports
      /\ report'.again = report.again /\ report'.session = report.session
      /\ report'.denied = report.denied /\ report'.entry = report.entry
      /\ report'.always = report.always /\ report'.ever = report.ever
      /\ report'.issues = report.issues
      /\ report'.pc \in {"count", "suppressions", "attempts"}
      /\ \/ /\ report'.pc = "attempts"
            /\ report'.suppressed <=> Key \in suppressed
         \/ /\ report'.pc # "attempts"
            /\ report'.suppressed = report.suppressed
      /\ report'.level \in {report.level, IF LocallyDenied(file) THEN "Suppressed" ELSE "Ready"}
      /\ report'.count \in {report.count, IF runtime[Key] = NoSession THEN 0 ELSE 1}
  <2>1. CASE ReadHealth
    <3> DEFINE l == IF LocallyDenied(file) THEN "Suppressed" ELSE "Ready"
    <3>1. report' = [report EXCEPT !.pc = "count", !.level = l]
      BY <2>1 DEF ReadHealth, ReadAt
    <3>2. l \in Levels  BY DEF Levels
    <3> HIDE DEF l
    <3>3. /\ report' \in Reports /\ report'.pc = "count" /\ report'.level = l
          /\ report'.suppressed = report.suppressed /\ report'.count = report.count
      BY <1>2, <3>1, <3>2 DEF Reports
    <3>4. /\ report'.again = report.again /\ report'.session = report.session
          /\ report'.denied = report.denied /\ report'.entry = report.entry
          /\ report'.always = report.always /\ report'.ever = report.ever
          /\ report'.issues = report.issues
      BY <1>2, <3>1 DEF Reports
    <3> QED  BY <3>3, <3>4 DEF l
  <2>2. CASE ReadCount
    <3> DEFINE n == IF runtime[Key] = NoSession THEN 0 ELSE 1
    <3>1. report' = [report EXCEPT !.pc = "suppressions", !.count = n]
      BY <2>2 DEF ReadCount, ReadAt
    <3>2. n \in 0 .. 1  OBVIOUS
    <3> HIDE DEF n
    <3>3. /\ report' \in Reports /\ report'.pc = "suppressions" /\ report'.count = n
          /\ report'.suppressed = report.suppressed /\ report'.level = report.level
      BY <1>2, <3>1, <3>2 DEF Reports
    <3>4. /\ report'.again = report.again /\ report'.session = report.session
          /\ report'.denied = report.denied /\ report'.entry = report.entry
          /\ report'.always = report.always /\ report'.ever = report.ever
          /\ report'.issues = report.issues
      BY <1>2, <3>1 DEF Reports
    <3> QED  BY <3>3, <3>4 DEF n
  <2>3. CASE ReadSuppressions
    <3> DEFINE b == Key \in suppressed
    <3>1. report' = [report EXCEPT !.pc = "attempts", !.suppressed = b]
      BY <2>3 DEF ReadSuppressions, ReadAt
    <3>2. b \in BOOLEAN  OBVIOUS
    <3> HIDE DEF b
    <3>3. /\ report' \in Reports /\ report'.pc = "attempts" /\ report'.count = report.count
          /\ report'.suppressed = b /\ report'.level = report.level
      BY <1>2, <3>1, <3>2 DEF Reports
    <3>4. /\ report'.again = report.again /\ report'.session = report.session
          /\ report'.denied = report.denied /\ report'.entry = report.entry
          /\ report'.always = report.always /\ report'.ever = report.ever
          /\ report'.issues = report.issues
      BY <1>2, <3>1 DEF Reports
    <3> QED  BY <3>3, <3>4 DEF b
  <2> QED  BY <2>1, <2>2, <2>3
<1>5. ~ report.again  BY <1>0, ReadUsual DEF OrderOK, PathPcs
<1>6. LastingOK'
  <2>1. \A c : Named(c)' = Named(c)  BY <1>3 DEF Named
  <2> QED
    BY <1>0, <1>3, <1>5, <2>1, ReadUsual, TroubleIs
       DEF LastingOK, PastEvents, PastAttempts, PastInventory, PathPcs
<1>7. ASSUME ~ report'.ever PROVE QuietOK'
  <2>1. ~ report.ever  BY <1>3, <1>7
  <2>2. report'.level = "Ready"  BY <1>0, <1>3, <2>1, ReadUsual DEF QuietOK
  <2>3. report'.count = 1 => report.count = 1 \/ runtime[Key] # NoSession
    BY <1>3
  <2>4. ~ report'.suppressed  BY <1>0, <1>3, <2>1, ReadUsual DEF QuietOK
  <2> QED
    BY <1>0, <1>3, <1>5, <2>1, <2>2, <2>3, <2>4, ReadUsual DEF QuietOK, Found, PathPcs
<1> QED  BY <1>3, <1>5, <1>6, <1>7 DEF ReportOK, OrderOK

LEMMA ReadAttemptsOK ==
  ASSUME InspectionInv, ReadAttempts
  PROVE  report' \in Reports /\ ReportOK'
<1> DEFINE state == ReconnectState(report.suppressed, attempt)
           new == ReconnectIssues(state)
           h == ReconnectHealth(state)
           l == Rollup({report.level, h})
<1>0. report.pc = "attempts" /\ UNCHANGED allVars  BY DEF ReadAttempts, ReadAt
<1>1. report' = [report EXCEPT !.pc = "paths", !.suppressed = FALSE, !.level = l,
                               !.issues = report.issues \cup new]
  BY DEF ReadAttempts, ReadAt
<1>2. report \in Reports /\ report.level \in Levels  BY DEF InspectionInv, Reports
<1>a. /\ report.suppressed => state = "Suppressed"
      /\ ~ report.suppressed =>
           /\ attempt = NoAttempt => state = "Idle"
           /\ attempt # NoAttempt /\ attempt.state = "Failed" => state = "Failed"
           /\ attempt # NoAttempt /\ attempt.state # "Failed" => state = "Active"
      /\ state \in {"Suppressed", "Idle", "Failed", "Active"}
  BY DEF ReconnectState
<1> HIDE DEF state
<1>b. /\ new \subseteq IssueCodes
      /\ state = "Suppressed" => "reconnect_suppressed" \in new
      /\ state = "Failed" => "reconnect_failed" \in new
      /\ state = "Idle" => new = {}
  BY <1>a DEF ReconnectIssues, IssueCodes
<1>c. h \in Levels /\ (h = "Ready" <=> state = "Idle")
  BY <1>a DEF ReconnectHealth, Levels
<1> HIDE DEF new, h
<1>d. l \in Levels /\ (l = "Ready" <=> report.level = "Ready" /\ state = "Idle")
  BY <1>2, <1>c, RollupIs
<1> HIDE DEF l
<1>3. /\ report' \in Reports /\ report'.pc = "paths" /\ report'.again = report.again
      /\ report'.session = report.session /\ report'.count = report.count
      /\ report'.denied = report.denied
  BY <1>1, <1>2, <1>b, <1>d DEF Reports
<1>4. /\ report'.always = report.always /\ report'.ever = report.ever
      /\ report'.issues = report.issues \cup new /\ report'.level = l
      /\ report'.suppressed = FALSE /\ report'.entry = report.entry
  BY <1>1, <1>2 DEF Reports
<1>5. ~ report.again  BY <1>0, ReadUsual DEF OrderOK, PathPcs
<1>6. LastingOK'
  <2>0. LastingOK  BY <1>0, ReadUsual
  <2>1. /\ "suppressed" \in report.always => state = "Suppressed"
        /\ "exhausted" \in report.always => state \in {"Suppressed", "Failed"}
        /\ "backing off" \in report.always => state # "Idle"
    BY <1>0, <1>a, <2>0, TroubleIs DEF LastingOK
  <2>2. "suppressed" \in report.always => Named("suppressed")'
    BY <1>b, <1>4, <2>1 DEF Named, NamedBy
  <2>3. "exhausted" \in report.always => Named("exhausted")'
    BY <1>b, <1>4, <2>1 DEF Named, NamedBy
  <2>4. \A c : Named(c) => Named(c)'  BY <1>4 DEF Named
  <2>5. Trouble' = Trouble  BY <1>0, ReadUsual
  <2> QED
    BY <1>0, <1>3, <1>4, <1>5, <1>d, <2>0, <2>1, <2>2, <2>3, <2>4, <2>5
       DEF LastingOK, PastEvents, PastAttempts, PastInventory, PathPcs
<1>7. ASSUME ~ report'.ever PROVE QuietOK'
  <2>1. ~ report.ever  BY <1>4, <1>7
  <2>2. state = "Idle"  BY <1>0, <1>a, <2>1, ReadUsual DEF QuietOK
  <2> QED  BY <1>0, <1>3, <1>4, <1>5, <1>b, <1>d, <2>1, <2>2, ReadUsual DEF QuietOK, Found, PathPcs
<1> QED  BY <1>3, <1>5, <1>6, <1>7 DEF ReportOK, OrderOK, PathPcs

(* runtime_paths: the entry of the target.                                 *)
LEMMA ReadPathsOK ==
  ASSUME InspectionInv, ReadPaths \/ ReadPathSuppressions \/ ReadPathAttempts
  PROVE  report' \in Reports /\ ReportOK'
<1>0. report.pc \in PathPcs \ {"pathTerminal"} /\ UNCHANGED allVars
  BY DEF ReadPaths, ReadPathSuppressions, ReadPathAttempts, ReadAt, PathPcs
<1>1. report \in Reports  BY DEF InspectionInv
<1>2. PICK e \in Entries \cup {NoEntry}, pc \in PathPcs \ {"paths"} :
        /\ report' = [report EXCEPT !.pc = pc, !.entry = e]
        /\ ~ report.ever =>
             /\ e.state # "Failed"
             /\ ~ report.again /\ Found => e.session
  <2>1. CASE ReadPaths
    <3> DEFINE e == IF runtime[Key] = NoSession THEN NoEntry
                    ELSE [session |-> TRUE, state |-> PathState(runtime[Key].state)]
    <3>1. report' = [report EXCEPT !.pc = "pathSuppressions", !.entry = e]
      BY <2>1 DEF ReadPaths, ReadAt
    <3>2. e \in Entries \cup {NoEntry}
      <4>1. PathState(runtime[Key].state) \in {"Active", "Degraded", "Migrating", "Failed"}
        BY DEF PathState
      <4> QED  BY <4>1 DEF Entries
    <3>3. ~ report.ever => e.state # "Failed" /\ (~ report.again /\ Found => e.session)
      BY <1>0, ReadUsual DEF QuietOK, NoEntry, PathState, PathPcs
    <3> HIDE DEF e
    <3> QED  BY <3>1, <3>2, <3>3 DEF PathPcs
  <2>2. CASE ReadPathSuppressions
    <3> DEFINE e == IF report.entry = NoEntry /\ Key \in suppressed
                    THEN [session |-> FALSE, state |-> "Suppressed"] ELSE report.entry
    <3>1. report.pc = "pathSuppressions"
          /\ report' = [report EXCEPT !.pc = "pathAttempts", !.entry = e]
      BY <2>2 DEF ReadPathSuppressions, ReadAt
    <3>2. e \in Entries \cup {NoEntry}  BY <1>1 DEF Entries, Reports
    <3>3. ~ report.ever => e.state # "Failed" /\ (~ report.again /\ Found => e.session)
      BY <1>0, <3>1, ReadUsual DEF QuietOK, PathPcs
    <3> HIDE DEF e
    <3> QED  BY <3>1, <3>2, <3>3 DEF PathPcs
  <2>3. CASE ReadPathAttempts
    <3> DEFINE e == IF report.entry = NoEntry /\ attempt # NoAttempt
                    THEN [session |-> FALSE, state |-> RetryState(attempt)] ELSE report.entry
    <3>1. report.pc = "pathAttempts"
          /\ report' = [report EXCEPT !.pc = "pathTerminal", !.entry = e]
      BY <2>3 DEF ReadPathAttempts, ReadAt
    <3>2. e \in Entries \cup {NoEntry}  BY <1>1 DEF Entries, Reports, RetryState
    <3>3. ~ report.ever => e.state # "Failed" /\ (~ report.again /\ Found => e.session)
      BY <1>0, <3>1, ReadUsual DEF QuietOK, PathPcs
    <3> HIDE DEF e
    <3> QED  BY <3>1, <3>2, <3>3 DEF PathPcs
  <2> QED  BY <2>1, <2>2, <2>3
<1>3. /\ report' \in Reports /\ report'.pc = pc /\ report'.again = report.again
      /\ report'.session = report.session /\ report'.count = report.count
      /\ report'.denied = report.denied
  BY <1>1, <1>2 DEF Reports, PathPcs
<1>4. /\ report'.always = report.always /\ report'.ever = report.ever
      /\ report'.issues = report.issues /\ report'.level = report.level
      /\ report'.suppressed = report.suppressed /\ report'.entry = e
  BY <1>1, <1>2 DEF Reports
<1>6. LastingOK'
  <2>1. \A c : Named(c)' = Named(c)  BY <1>4 DEF Named
  <2> QED
    BY <1>0, <1>2, <1>3, <1>4, <2>1, ReadUsual
       DEF LastingOK, PastEvents, PastAttempts, PastInventory, PathPcs
<1>7. ASSUME ~ report'.ever PROVE QuietOK'
  <2>1. ~ report.ever  BY <1>4, <1>7
  <2>2. pc # "inventory"  BY <1>2 DEF PathPcs
  <2> QED  BY <1>0, <1>2, <1>3, <1>4, <2>1, <2>2, ReadUsual DEF QuietOK, Found, PathPcs
<1> QED  BY <1>0, <1>2, <1>3, <1>6, <1>7 DEF ReportOK, OrderOK, PathPcs

(* The health is complete: a level that is not Ready is an issue.          *)
LEMMA ReadTerminalOK ==
  ASSUME InspectionInv, ReadTerminal
  PROVE  report' \in Reports /\ ReportOK'
<1> DEFINE active == IF LastEntry.session THEN 1 ELSE 0
           h == PathManagerHealth(report.count, active)
           l == Rollup({report.level, h})
           new == ReadinessIssues(l)
<1>0. report.pc = "pathTerminal" /\ ~ report.again /\ UNCHANGED allVars
  BY DEF ReadTerminal, ReadAt
<1>1. report' = [report EXCEPT !.pc = "inventory", !.again = TRUE, !.entry = NoEntry,
                               !.level = "Ready", !.count = 0, !.active = active,
                               !.issues = report.issues \cup new]
  BY DEF ReadTerminal, ReadAt
<1>2. report \in Reports /\ report.level \in Levels /\ report.count \in 0 .. 1
  BY DEF InspectionInv, Reports
<1>a. active \in 0 .. 1  OBVIOUS
<1>b. ~ report.ever /\ Found => active = 1
  <2>1. ~ report.ever /\ Found => report.entry.session  BY <1>0, ReadUsual DEF QuietOK, PathPcs
  <2>2. report.entry.session => report.entry # NoEntry  BY DEF NoEntry
  <2> QED  BY <2>1, <2>2 DEF LastEntry
<1> HIDE DEF active
<1>c. h \in Levels /\ (report.count = 0 \/ active = 1 => h = "Ready")
  BY <1>2, <1>a DEF PathManagerHealth, Levels
<1> HIDE DEF h
<1>d. l \in Levels /\ (l = "Ready" <=> report.level = "Ready" /\ h = "Ready")
  BY <1>2, <1>c, RollupIs
<1> HIDE DEF l
<1>e. /\ new \subseteq IssueCodes
      /\ l = "Ready" => new = {}
      /\ l # "Ready" => "daemon_not_ready" \in new
  BY DEF ReadinessIssues, IssueCodes
<1> HIDE DEF new
<1>3. /\ report' \in Reports /\ report'.pc = "inventory" /\ report'.again = TRUE
      /\ report'.session = report.session /\ report'.count = 0
      /\ report'.denied = report.denied /\ report'.active = active
  <2>1. "Ready" \in Levels /\ 0 \in 0 .. 1  BY DEF Levels
  <2> QED  BY <1>1, <1>2, <1>a, <1>e, <2>1 DEF Reports
<1>4. /\ report'.always = report.always /\ report'.ever = report.ever
      /\ report'.issues = report.issues \cup new /\ report'.level = "Ready"
      /\ report'.suppressed = report.suppressed /\ report'.entry = NoEntry
  BY <1>1, <1>2 DEF Reports
<1>6. LastingOK'
  <2>0. LastingOK /\ Trouble' = Trouble  BY <1>0, ReadUsual
  <2>1. "backing off" \in report.always => Named("backing off")'
    <3>1. "backing off" \in report.always => report.level # "Ready"
      BY <1>0, <2>0 DEF LastingOK, PastAttempts, PathPcs
    <3> QED  BY <1>d, <1>e, <1>4, <3>1 DEF Named, NamedBy
  <2>2. \A c : Named(c) => Named(c)'  BY <1>4 DEF Named
  <2> QED
    BY <1>0, <1>3, <1>4, <2>0, <2>1, <2>2
       DEF LastingOK, PastEvents, PastAttempts, PastInventory, PathPcs
<1>7. ASSUME ~ report'.ever PROVE QuietOK'
  <2>1. ~ report.ever  BY <1>4, <1>7
  <2>2. report.count = 0 \/ active = 1  BY <1>2, <1>b, <2>1 DEF Found
  <2>3. new = {}  BY <1>0, <1>c, <1>d, <1>e, <2>1, <2>2, ReadUsual DEF QuietOK
  <2>4. report.session # "none" => active = 1  BY <1>b, <2>1 DEF Found
  <2> QED
    BY <1>0, <1>3, <1>4, <2>1, <2>3, <2>4, ReadUsual DEF QuietOK, NoEntry, PathPcs
<1> QED  BY <1>3, <1>6, <1>7 DEF ReportOK, OrderOK, PathPcs

(* runtime_session_inventory: the session found first and the ledger.      *)
LEMMA ReadInventoryOK ==
  ASSUME InspectionInv, ReadInventory
  PROVE  report' \in Reports /\ ReportOK'
<1> DEFINE closed == terminal # <<>>
           new == SessionIssues(report.session, closed, report.active)
<1>0. report.pc = "inventory" /\ UNCHANGED allVars
  BY DEF ReadInventory, ReadAt
<1>1. report' = [report EXCEPT !.pc = "paths", !.session = "none", !.active = 0,
                               !.issues = report.issues \cup new]
  BY DEF ReadInventory, ReadAt
<1>2. report \in Reports /\ report.active \in 0 .. 1  BY DEF InspectionInv, Reports
<1>a. /\ new \subseteq IssueCodes
      /\ report.session = "Failed" => "failed_sessions_present" \in new
      /\ report.session = "Degraded" => "degraded_sessions_present" \in new
      /\ report.session = "Closing" => "closing_sessions_present" \in new
      /\ closed => "recently_closed_sessions_present" \in new
  BY DEF SessionIssues, IssueCodes
<1>b. /\ report.session \notin {"Failed", "Degraded", "Closing"} /\ ~ closed
      /\ report.session # "none" => report.active = 1
      => new = {}
  BY DEF SessionIssues
<1> HIDE DEF new
<1>3. /\ report' \in Reports /\ report'.pc = "paths" /\ report'.again = report.again
      /\ report'.session = "none" /\ report'.count = report.count
      /\ report'.denied = report.denied
  <2>1. 0 \in 0 .. 1  OBVIOUS
  <2> QED  BY <1>1, <1>2, <1>a, <2>1 DEF Reports
<1>4. /\ report'.always = report.always /\ report'.ever = report.ever
      /\ report'.issues = report.issues \cup new /\ report'.level = report.level
      /\ report'.suppressed = report.suppressed /\ report'.entry = report.entry
  BY <1>1, <1>2 DEF Reports
<1>5. report.again  BY <1>0, ReadUsual DEF OrderOK
<1>6. LastingOK'
  <2>0. LastingOK /\ Trouble' = Trouble  BY <1>0, ReadUsual
  <2>1. /\ "degraded" \in report.always => report.session = "Degraded"
        /\ "failing" \in report.always => report.session = "Failed"
        /\ "closing" \in report.always => report.session = "Closing"
        /\ "closed" \in report.always => closed
    BY <1>0, <2>0, TroubleIs DEF LastingOK, PastInventory
  <2>2. "degraded" \in report.always => Named("degraded")'
    BY <1>a, <1>4, <2>1 DEF Named, NamedBy
  <2>3. "failing" \in report.always => Named("failing")'
    BY <1>a, <1>4, <2>1 DEF Named, NamedBy
  <2>4. "closing" \in report.always => Named("closing")'
    BY <1>a, <1>4, <2>1 DEF Named, NamedBy
  <2>5. "closed" \in report.always => Named("closed")'
    BY <1>a, <1>4, <2>1 DEF Named, NamedBy
  <2>6. \A c : Named(c) => Named(c)'  BY <1>4 DEF Named
  <2> QED
    BY <1>0, <1>3, <1>4, <1>5, <2>0, <2>2, <2>3, <2>4, <2>5, <2>6
       DEF LastingOK, PastEvents, PastAttempts, PastInventory, PathPcs
<1>7. ASSUME ~ report'.ever PROVE QuietOK'
  <2>1. ~ report.ever  BY <1>4, <1>7
  <2>2. QuietOK /\ ~ closed  BY <1>0, <2>1, ReadUsual
  <2>3. new = {}  BY <1>0, <1>b, <2>2 DEF QuietOK
  <2> QED
    BY <1>0, <1>3, <1>4, <1>5, <2>1, <2>2, <2>3, ReadUsual DEF QuietOK, PathPcs
<1> QED  BY <1>3, <1>6, <1>7 DEF ReportOK, OrderOK, PathPcs

LEMMA ReadsOK ==
  ASSUME InspectionInv, Reads
  PROVE  report' \in Reports /\ ReportOK' /\ UNCHANGED allVars
<1>1. UNCHANGED allVars
  BY DEF Reads, ReadStatus, ReadEvents, ReadHealth, ReadCount, ReadSuppressions,
         ReadAttempts, ReadPaths, ReadPathSuppressions, ReadPathAttempts, ReadTerminal,
         ReadInventory, Conclude, ReadAt
<1>2. CASE Conclude
  <2>1. report' = NoReport  BY <1>2 DEF Conclude, ReadAt
  <2>2. NoReport \in Reports  BY DEF NoReport, Reports, Levels
  <2>3. NoReport.pc = "idle" /\ ~ NoReport.again  BY DEF NoReport
  <2> QED  BY <1>1, <2>1, <2>2, <2>3 DEF ReportOK, OrderOK
<1> QED
  BY <1>1, <1>2, ReadStatusOK, ReadEventsOK, ReadHealthOK, ReadAttemptsOK, ReadPathsOK,
     ReadTerminalOK, ReadInventoryOK DEF Reads

-----------------------------------------------------------------------------
(* Every step of the daemon with its reports keeps the invariant, and is a *)
(* step of the registry or leaves it alone.                                *)
LEMMA InspectionStep ==
  ASSUME InspectionInv, [InspectionNext]_inspectionVars
  PROVE  InspectionInv' /\ [Next]_vars
<1>1. ASSUME [DaemonNext]_allVars
      PROVE  DaemonInv' /\ [Next]_vars /\ StatesOK'
  BY <1>1, DaemonStep, RegistryBetween DEF InspectionInv, DaemonInv
<1>2. CASE /\ CycleWorks \/ ControlWorks \/ BackoffOver \/ Publish \/ NetworkChange \/ RelayRestarts
           /\ Watch
  BY <1>1, <1>2, WatchOK DEF DaemonNext, InspectionInv
<1>3. CASE /\ \E op \in {"sync", "realize", "close", "upgrade", "reconcile"} : Request(op)
           /\ report.pc = "idle" /\ UNCHANGED report
  <2>1. report' \in Reports /\ ReportOK'  BY <1>3 DEF InspectionInv, ReportOK, OrderOK, PathPcs
  <2> QED  BY <1>1, <1>3, <2>1 DEF DaemonNext, InspectionInv
<1>4. CASE Diagnose  BY <1>4, DiagnoseOK
<1>5. CASE Reads  BY <1>1, <1>5, ReadsOK DEF InspectionInv
<1>6. CASE UNCHANGED inspectionVars
  <2>1. UNCHANGED allVars /\ UNCHANGED report  BY <1>6 DEF inspectionVars
  <2>2. Trouble' = Trouble /\ Quiet' = Quiet /\ UNCHANGED runtime  BY <2>1, StaysAsIs
  <2>3. LastingOK' = LastingOK /\ QuietOK' = QuietOK
    BY <2>1, <2>2
       DEF LastingOK, QuietOK, Named, Found, PastEvents, PastAttempts, PastInventory
  <2>4. report' \in Reports /\ ReportOK'
    BY <2>1, <2>3 DEF InspectionInv, ReportOK, OrderOK
  <2> QED  BY <1>1, <2>1, <2>4 DEF InspectionInv
<1> QED  BY <1>2, <1>3, <1>4, <1>5, <1>6 DEF InspectionNext

LEMMA InitInspectionInv == InspectionInit => InspectionInv
<1> SUFFICES ASSUME InspectionInit PROVE InspectionInv
  OBVIOUS
<1>1. DaemonInv  BY InitDaemonInv DEF InspectionInit
<1>2. StatesOK  BY DaemonAssumption DEF InspectionInit, DaemonInit, Init, StatesOK
<1>3. NoReport \in Reports  BY DEF NoReport, Reports, Levels
<1>4. NoReport.pc = "idle" /\ ~ NoReport.again  BY DEF NoReport
<1> QED  BY <1>1, <1>2, <1>3, <1>4 DEF InspectionInit, InspectionInv, ReportOK, OrderOK

(* What the reads of a report have left agrees with what has been the case *)
(* since each of them was made: whatever has lasted is named, or is in a   *)
(* local from which a later read names it; and as long as nothing was      *)
(* wrong the locals hold nothing that a later read complains about.        *)
THEOREM InspectionInvCorrect == InspectionSpec => []InspectionInv
BY InitInspectionInv, InspectionStep, PTL DEF InspectionSpec

(* The daemon and the report under way keep their types: with any number   *)
(* of reports, no operation saves facts that were not published, and no    *)
(* retry counts beyond RECONNECT_MAX_ATTEMPTS.                             *)
THEOREM InspectionTypeCorrect == InspectionSpec => []InspectionTypeOK
<1>1. InspectionInv => InspectionTypeOK
  BY IndInvTypes
     DEF InspectionInv, InspectionTypeOK, DaemonInv, DurableOK, ThreadsOK, DaemonTypeOK
<1> QED  BY <1>1, InspectionInvCorrect, PTL

(* The daemon implements the registry's specification while the control    *)
(* server makes reports.                                                   *)
THEOREM InspectionImplementsTransport == InspectionSpec => Spec
<1>1. InspectionInit => Init  BY DEF InspectionInit, DaemonInit
<1>2. InspectionInv /\ [InspectionNext]_inspectionVars => [Next]_vars  BY InspectionStep
<1> QED  BY <1>1, <1>2, InspectionInvCorrect, PTL DEF InspectionSpec, Spec

(* runtime.diagnose names what was wrong from its first read to its last,  *)
(* for any facts, routes and number of requests and however the reads fall *)
(* among the steps of the cycle.                                           *)
THEOREM LastingTroubleNamedCorrect == InspectionSpec => LastingTroubleNamed
<1>1. InspectionInv => LastingTroubleNamedStep
  <2> SUFFICES ASSUME InspectionInv, Conclude, NEW c \in report.always
               PROVE  NamedBy(c) \cap Diagnosis # {}
    BY DEF LastingTroubleNamedStep
  <2>1. report.pc = "pathTerminal" /\ report.again /\ UNCHANGED allVars
    BY DEF Conclude, ReadAt
  <2>2. LastingOK /\ report \in Reports  BY <2>1, ReadUsual
  <2>3. c \in Conditions  BY <2>2 DEF Reports
  <2>4. Named(c)
    BY <2>1, <2>2, <2>3 DEF LastingOK, Conditions, PastEvents, PastAttempts, PastInventory, PathPcs
  <2> QED  BY <2>4 DEF Named, Diagnosis
<1>2. InspectionInv /\ [InspectionNext]_inspectionVars => [LastingTroubleNamedStep]_inspectionVars
  BY <1>1
<1> QED  BY <1>2, InspectionInvCorrect, PTL DEF InspectionSpec, LastingTroubleNamed

(* runtime.diagnose says "healthy" of a daemon with which nothing was      *)
(* wrong and from which no session was leaving while the report was made.  *)
THEOREM DiagnosisFairCorrect == InspectionSpec => DiagnosisFair
<1>1. InspectionInv => DiagnosisFairStep
  <2> SUFFICES ASSUME InspectionInv, Conclude, ~ report.ever
               PROVE  Diagnosis = {}
    BY DEF DiagnosisFairStep
  <2>1. report.pc = "pathTerminal" /\ UNCHANGED allVars  BY DEF Conclude, ReadAt
  <2>2. QuietOK /\ terminal = <<>>  BY <2>1, ReadUsual
  <2>3. LastEntry.state # "Failed"  BY <2>2 DEF LastEntry, QuietOK
  <2> QED  BY <2>2, <2>3 DEF Diagnosis, PathIssues, QuietOK
<1>2. InspectionInv /\ [InspectionNext]_inspectionVars => [DiagnosisFairStep]_inspectionVars
  BY <1>1
<1> QED  BY <1>2, InspectionInvCorrect, PTL DEF InspectionSpec, DiagnosisFair

=============================================================================
