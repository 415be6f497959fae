---------------------------- MODULE Inspection -----------------------------
(***************************************************************************)
(* The control server's reports on the daemon of module Daemon:            *)
(* runtime.diagnose of cmd/quipd, and with it runtime.status,              *)
(* runtime.health, runtime.sessions, runtime.paths and authority.show,     *)
(* which are parts of it.                                                  *)
(*                                                                         *)
(* A report is put together from reads of state.json, of the registries    *)
(* and of the events, each under its own lock, while the cycle thread      *)
(* goes on.  A step is one read; reads whose result no issue depends on    *)
(* are left out.  The target has one entry among the paths; the candidates *)
(* of other peers and what is only printed are left out.  That state.json  *)
(* is missing, torn or bound to another identity is in module Durable.     *)
(***************************************************************************)
EXTENDS Daemon

VARIABLE report  \* what the control thread has gathered

inspectionVars == <<allVars, report>>

Levels == {"Ready", "Degraded", "Suppressed", "Failed"}

\* A RuntimePathSnapshot: whether it has a session, and its state.
Entries ==
  [session : BOOLEAN, state : {"Active", "Candidate", "Degraded", "Migrating", "Suppressed", "Failed"}]

NoEntry == [session |-> FALSE, state |-> "none"]

(* Something an operator should know of, as it is at this moment.          *)
Conditions ==
  {"denied", "recorded", "suppressed", "backing off", "exhausted",
   "degraded", "failing", "closing", "closed"}

SessionIn(states) == runtime[Key] # NoSession /\ runtime[Key].state \in states

Holds(condition) ==
  CASE condition = "denied"      -> LocallyDenied(file)
    [] condition = "recorded"    -> completed = "denied"
    [] condition = "suppressed"  -> Key \in suppressed
    [] condition = "backing off" -> attempt # NoAttempt /\ attempt.state = "BackingOff"
    [] condition = "exhausted"   -> attempt # NoAttempt /\ attempt.state = "Failed"
    [] condition = "degraded"    -> SessionIn({"Degraded"})
    [] condition = "failing"     -> SessionIn({"Failed"})
    [] condition = "closing"     -> SessionIn({"Closing"})
    [] condition = "closed"      -> terminal # <<>>

Trouble == {c \in Conditions : Holds(c)}

(* A session that was removed and is not yet in the ledger, while it is    *)
(* closed at the relay, is in no registry that a report reads.             *)
Leaving == \E t \in Threads : call[t].pc \in {"closeRemoved", "record"}

Quiet == Trouble = {} /\ ~ Leaving

IssueCodes ==
  {"authority_policy_denied", "authority_not_ready", "daemon_not_ready", "reconnect_suppressed",
   "reconnect_failed", "failed_sessions_present", "degraded_sessions_present",
   "recently_closed_sessions_present", "closing_sessions_present",
   "sessions_without_active_paths", "failed_paths_present"}

(* The locals of runtime_diagnose_result; a read that was used is dropped, *)
(* and an issue is raised when its last read is made.  History: what was   *)
(* wrong all the time since the report began, and whether something was at *)
(* some time.                                                              *)
Reports ==
  [pc         : {"idle", "status", "events", "health", "count", "suppressions", "attempts",
                 "paths", "pathSuppressions", "pathAttempts", "pathTerminal", "inventory"},
   again      : BOOLEAN,
   session    : SessionStates \cup {"none"},
   denied     : BOOLEAN,
   level      : Levels,
   count      : 0 .. 1,
   suppressed : BOOLEAN,
   entry      : Entries \cup {NoEntry},
   active     : 0 .. 1,
   issues     : SUBSET IssueCodes,
   always     : SUBSET Conditions,
   ever       : BOOLEAN]

NoReport ==
  [pc |-> "idle", again |-> FALSE, session |-> "none", denied |-> FALSE, level |-> "Ready",
   count |-> 0, suppressed |-> FALSE, entry |-> NoEntry, active |-> 0,
   issues |-> {}, always |-> {}, ever |-> FALSE]

InspectionTypeOK == report \in Reports /\ DaemonTypeOK

-----------------------------------------------------------------------------
(* What is made of the reads.                                              *)

\* transport_health
ReconnectState(suppression, retry) ==
  IF suppression THEN "Suppressed"
  ELSE IF retry = NoAttempt THEN "Idle"
  ELSE IF retry.state = "Failed" THEN "Failed" ELSE "Active"

\* runtime_reconnect_health_level
ReconnectHealth(state) ==
  CASE state = "Idle" -> "Ready" [] state = "Active" -> "Degraded" [] OTHER -> state

\* A mutant: as many paths as sessions are too few.
PathManagerOffByOne(sessions, paths) ==
  IF sessions > 0 /\ paths = 0 THEN "Failed"
  ELSE IF paths <= sessions THEN "Degraded" ELSE "Ready"

\* runtime_health
PathManagerHealth(sessions, paths) ==
  IF sessions > 0 /\ paths = 0 THEN "Failed"
  ELSE IF paths < sessions THEN "Degraded" ELSE "Ready"

\* runtime_rollup_health
Rollup(levels) ==
  CHOOSE l \in levels \cup {"Ready"} :
    \/ l = "Failed"
    \/ l = "Suppressed" /\ "Failed" \notin levels
    \/ l = "Degraded" /\ levels \cap {"Failed", "Suppressed"} = {}
    \/ l = "Ready" /\ levels \subseteq {"Ready"}

\* runtime_path_state_from_session
PathState(state) ==
  CASE state \in {"Degraded", "Migrating"} -> state
    [] state \in {"Failed", "Closing", "Closed"} -> "Failed"
    [] OTHER -> "Active"

\* runtime_reconnect_path_status
RetryState(retry) == IF retry.state = "Failed" THEN "Failed" ELSE "Candidate"

\* A mutant: the last event alone decides.
AuthorityIssuesOfEvent(denied, event) ==
  IF event = "denied" \/ (event = "never" /\ denied) THEN {"authority_policy_denied"} ELSE {}

(* runtime_diagnosis_issues.  The last event overrides what the facts say, *)
(* but for sync_status and health.                                         *)
AuthorityIssues(denied, event) ==
  IF event = "denied" \/ (event = "never" /\ denied)
  THEN {"authority_policy_denied"}
  ELSE IF denied THEN {"authority_not_ready"} ELSE {}

ReadinessIssues(level) == IF level = "Ready" THEN {} ELSE {"daemon_not_ready"}

ReconnectIssues(state) ==
  CASE state = "Suppressed" -> {"reconnect_suppressed"}
    [] state = "Failed" -> {"reconnect_failed"}
    [] OTHER -> {}

\* `session' is the registered one, `closed' says that the ledger has one.
SessionIssues(session, closed, active) ==
  (CASE session = "Failed" -> {"failed_sessions_present"}
     [] session = "Degraded" -> {"degraded_sessions_present"}
     [] session = "Closing" -> {"closing_sessions_present"}
     [] OTHER -> {})
  \cup (IF closed THEN {"recently_closed_sessions_present"} ELSE {})
  \cup (IF (session # "none" \/ closed) /\ active = 0
        THEN {"sessions_without_active_paths"} ELSE {})

PathIssues(entry) == IF entry.state = "Failed" THEN {"failed_paths_present"} ELSE {}

-----------------------------------------------------------------------------
(* The steps.                                                              *)

\* What the histories become while a report is under way.
Watched(r) ==
  [r EXCEPT !.always = @ \cap Trouble', !.ever = @ \/ ~ Quiet']

Watch == report' = IF report.pc = "idle" THEN report ELSE Watched(report)

\* A read: the next one, and what this one found.  Nothing else changes.
ReadAt(pc, r) ==
  /\ up
  /\ report.pc = pc
  /\ report' = r
  /\ UNCHANGED allVars

\* sync_runtime_sessions
Diagnose ==
  /\ On(Control, "wait")
  /\ report.pc = "idle"
  /\ requests < MaxRequests
  /\ requests' = requests + 1
  /\ report' = [NoReport EXCEPT
                  !.pc = "status",
                  !.session = IF runtime[Key] = NoSession THEN "none" ELSE runtime[Key].state,
                  !.always = Trouble, !.ever = ~ Quiet]
  /\ UNCHANGED <<vars, published, file, dirty, attempt, listener, completed, prog, up>>

\* runtime_status_result: the facts, then the last event.
ReadStatus ==
  ReadAt("status", [report EXCEPT !.pc = "events", !.denied = LocallyDenied(file)])

ReadEvents ==
  ReadAt("events", [report EXCEPT !.pc = "health", !.denied = FALSE,
                      !.issues = @ \cup AuthorityIssues(report.denied, completed)])

\* runtime_health: the facts, transport_health, runtime_paths.
ReadHealth ==
  ReadAt("health", [report EXCEPT !.pc = "count",
                      !.level = IF LocallyDenied(file) THEN "Suppressed" ELSE "Ready"])

ReadCount ==
  ReadAt("count", [report EXCEPT !.pc = "suppressions",
                     !.count = IF runtime[Key] = NoSession THEN 0 ELSE 1])

ReadSuppressions ==
  ReadAt("suppressions", [report EXCEPT !.pc = "attempts", !.suppressed = (Key \in suppressed)])

ReadAttempts ==
  LET state == ReconnectState(report.suppressed, attempt)
  IN  ReadAt("attempts", [report EXCEPT !.pc = "paths", !.suppressed = FALSE,
                            !.level = Rollup({@, ReconnectHealth(state)}),
                            !.issues = @ \cup ReconnectIssues(state)])

\* runtime_paths; a registry adds an entry where those before it added none.
ReadPaths ==
  ReadAt("paths", [report EXCEPT !.pc = "pathSuppressions",
                     !.entry = IF runtime[Key] = NoSession THEN NoEntry
                               ELSE [session |-> TRUE, state |-> PathState(runtime[Key].state)]])

ReadPathSuppressions ==
  ReadAt("pathSuppressions",
         [report EXCEPT !.pc = "pathAttempts",
            !.entry = IF @ = NoEntry /\ Key \in suppressed
                      THEN [session |-> FALSE, state |-> "Suppressed"] ELSE @])

ReadPathAttempts ==
  ReadAt("pathAttempts",
         [report EXCEPT !.pc = "pathTerminal",
            !.entry = IF @ = NoEntry /\ attempt # NoAttempt
                      THEN [session |-> FALSE, state |-> RetryState(attempt)] ELSE @])

\* The entry with the ledger's, if there is none yet.
LastEntry ==
  IF report.entry = NoEntry /\ terminal # <<>>
  THEN [session |-> TRUE, state |-> "Failed"] ELSE report.entry

\* The health is complete; runtime_session_inventory reads the ledger, and the
\* paths are read once more.
ReadTerminal ==
  LET active == IF LastEntry.session THEN 1 ELSE 0
      level == Rollup({report.level, PathManagerHealth(report.count, active)})
  IN  /\ ~ report.again
      /\ ReadAt("pathTerminal",
                [report EXCEPT !.pc = "inventory", !.again = TRUE, !.entry = NoEntry,
                   !.level = "Ready", !.count = 0, !.active = active,
                   !.issues = @ \cup ReadinessIssues(level)])

ReadInventory ==
  ReadAt("inventory",
         [report EXCEPT !.pc = "paths", !.session = "none", !.active = 0,
            !.issues = @ \cup SessionIssues(report.session, terminal # <<>>, report.active)])

\* The last read, and the answer.
Diagnosis == report.issues \cup PathIssues(LastEntry)

Conclude ==
  /\ report.again
  /\ ReadAt("pathTerminal", NoReport)

Reads ==
  \/ ReadStatus \/ ReadEvents \/ ReadHealth \/ ReadCount \/ ReadSuppressions \/ ReadAttempts
  \/ ReadPaths \/ ReadPathSuppressions \/ ReadPathAttempts \/ ReadTerminal \/ ReadInventory
  \/ Conclude

-----------------------------------------------------------------------------
InspectionInit == DaemonInit /\ report = NoReport

(* The control server serves one request at a time.                        *)
InspectionNext ==
  \/ /\ \/ CycleWorks \/ ControlWorks \/ BackoffOver
        \/ Publish \/ NetworkChange \/ RelayRestarts
     /\ Watch
  \/ /\ report.pc = "idle"
     /\ \E op \in {"sync", "realize", "close", "upgrade", "reconcile"} : Request(op)
     /\ UNCHANGED report
  \/ Diagnose
  \/ Reads

InspectionSpec ==
  /\ InspectionInit
  /\ [][InspectionNext]_inspectionVars
  /\ WF_inspectionVars(CycleWorks /\ Watch)
  /\ WF_inspectionVars(ControlWorks /\ Watch)
  /\ WF_inspectionVars(BackoffOver /\ Watch)
  /\ WF_inspectionVars(Reads)

-----------------------------------------------------------------------------
(* A report says "healthy" if nothing was wrong while it was made and no   *)
(* session was leaving, however its reads fell among the cycle's steps and *)
(* whichever paths came and went between the reads it sets against each    *)
(* other.                                                                  *)
DiagnosisFairStep == Conclude /\ ~ report.ever => Diagnosis = {}
DiagnosisFair == [][DiagnosisFairStep]_inspectionVars

(* What was wrong from the beginning of a report to its end is named in    *)
(* it, although some of it is hidden from some of the reads: a suppression *)
(* hides a retry, a session or a suppression the entry of the ledger, the  *)
(* last event what the facts say.                                          *)
NamedBy(condition) ==
  CASE condition = "denied"      -> {"authority_policy_denied", "authority_not_ready"}
    [] condition = "recorded"    -> {"authority_policy_denied"}
    [] condition = "suppressed"  -> {"reconnect_suppressed"}
    [] condition = "backing off" -> {"daemon_not_ready"}
    [] condition = "exhausted"   -> {"reconnect_failed", "reconnect_suppressed"}
    [] condition = "degraded"    -> {"degraded_sessions_present"}
    [] condition = "failing"     -> {"failed_sessions_present"}
    [] condition = "closing"     -> {"closing_sessions_present"}
    [] condition = "closed"      -> {"recently_closed_sessions_present"}

LastingTroubleNamedStep ==
  Conclude => \A c \in report.always : NamedBy(c) \cap Diagnosis # {}
LastingTroubleNamed == [][LastingTroubleNamedStep]_inspectionVars

=============================================================================
