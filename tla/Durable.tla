------------------------------ MODULE Durable ------------------------------
(***************************************************************************)
(* The durable files of a node: identity/node.json, net/state.json and a   *)
(* backup bundle, with the three threads that write them: the daemon's     *)
(* main thread (start, cycles), its control server, and the quip command   *)
(* line.  Of its commands restore and migrate run while the daemon does    *)
(* not answer; identity init, join and every read of the state do not ask. *)
(*                                                                         *)
(* Every file is written by fs::write: the file is truncated, then filled. *)
(* A crash in between leaves it torn, and another thread may read it, or   *)
(* open it too, in between.  Of an identity we keep its key and the        *)
(* passphrase it is encrypted with; of a state the identity it is bound to *)
(* (local_peer_id and membership subject, which are always set together)   *)
(* and whether its schema is the current one.                              *)
(***************************************************************************)
EXTENDS Integers, Sequences, FiniteSets

CONSTANTS Keys,         \* the identities the node may generate
          Passphrases,  \* what the passphrase variable may hold at a start
          Modes,        \* subset of {"alone", "seed", "sync"}: the flags of a start
          Subject,      \* the peer whose membership the authority's snapshot holds
          Fixture,      \* the identity built into fixture_daemon_state
          Overwrite,    \* whether an export may replace a bundle
          Beside        \* whether requests are made while a command runs

ASSUME DurableAssumption ==
  /\ Subject \in Keys
  /\ Fixture \notin Keys
  /\ Modes \subseteq {"alone", "seed", "sync"}
  /\ {Overwrite, Beside} \subseteq BOOLEAN

VARIABLES file,      \* the contents of the three files
          todo,      \* per thread, the writes its operation still has to do
          fd,        \* per thread, whether its first write has the file open
          main,      \* the daemon's main thread
          ctl,       \* the daemon's control server thread
          cli,       \* the command line
          dirty,     \* state.json has changed since the main thread waits for it
          used,      \* the identities generated so far
          after,     \* history: what the node comes back from, "restore" or "reset"
          rotated    \* history: identity init was run beside a running daemon

vars == <<file, todo, fd, main, ctl, cli, dirty, used, after, rotated>>

Threads == {"main", "ctl", "cli"}

NoFile == [kind |-> "none"]
Torn == [kind |-> "torn"]
IdentityFile(k, p) == [kind |-> "identity", key |-> k, pass |-> p]
StateFile(s, v) == [kind |-> "state", subject |-> s, schema |-> v]
Bundle(i, s) == [kind |-> "bundle", id |-> i, st |-> s]

Identities == {IdentityFile(k, p) : k \in Keys, p \in Passphrases}
States == {StateFile(s, v) : s \in Keys \cup {Fixture}, v \in {"old", "current"}}
Bundles == {Bundle(i, s) : i \in Identities \cup {Torn}, s \in States \cup {Torn}}

(* A state bound to identity k, as self_identity_daemon_state,             *)
(* from_authority_snapshot and fixture_daemon_state build it.              *)
BoundTo(k) == StateFile(k, "current")

(* What DaemonState::load and validate_durable_state_value accept.         *)
Valid(c) == c.kind = "state" /\ c.schema = "current"

(* FileKeystore::load: the file parses and the passphrase decrypts it.     *)
Opens(c, p) == c.kind = "identity" /\ c.pass = p

Writes(f, cs) == [i \in DOMAIN cs |-> [file |-> f, content |-> cs[i]]]

(* The main thread when the process does not run.  Its field straddled is  *)
(* history: a request was under way when the state was checked.            *)
Down(outcome) == [pc |-> "down", key |-> Fixture, mode |-> "alone",
                  pass |-> "none", outcome |-> outcome, straddled |-> FALSE]
Idle == [pc |-> "idle", id |-> NoFile]

(* A fresh node, or one whose state.json was written by an older release.  *)
Init ==
  /\ \/ file = [identity |-> NoFile, state |-> NoFile, bundle |-> NoFile] /\ used = {}
     \/ \E k \in Keys, p \in Passphrases :
          /\ file = [identity |-> IdentityFile(k, p), state |-> StateFile(k, "old"),
                     bundle |-> NoFile]
          /\ used = {k}
  /\ todo = [t \in Threads |-> <<>>]
  /\ fd = [t \in Threads |-> "closed"]
  /\ main = Down("none") /\ ctl = Idle /\ cli = "idle"
  /\ dirty = FALSE /\ after = "none" /\ rotated = FALSE

-----------------------------------------------------------------------------
(* fs::write, step by step.                                                *)

Quiet(t) == todo[t] = <<>>

Open(t) ==
  /\ ~Quiet(t) /\ fd[t] = "closed"
  /\ file' = [file EXCEPT ![Head(todo[t]).file] = Torn]
  /\ fd' = [fd EXCEPT ![t] = "open"]
  /\ dirty' = (dirty \/ (main.pc = "wait" /\ Head(todo[t]).file = "state"))
  /\ UNCHANGED <<todo, main, ctl, cli, used, after, rotated>>

(* If another thread has filled the file since this one truncated it, the  *)
(* end of the longer content may stay behind the shorter one.  What is     *)
(* written to a file that has been removed meanwhile is lost.              *)
Fill(t) ==
  LET w == Head(todo[t])
  IN  /\ ~Quiet(t) /\ fd[t] # "closed"
      /\ \/ fd[t] = "gone" /\ file' = file
         \/ fd[t] = "open" /\ file' = [file EXCEPT ![w.file] = w.content]
         \/ /\ fd[t] = "open" /\ file[w.file] \notin {Torn, w.content}
            /\ file' = [file EXCEPT ![w.file] = Torn]
      /\ todo' = [todo EXCEPT ![t] = Tail(@)]
      /\ fd' = [fd EXCEPT ![t] = "closed"]
      /\ dirty' = (dirty \/ (main.pc = "wait" /\ w.file = "state"))
      /\ UNCHANGED <<main, ctl, cli, used, after, rotated>>

-----------------------------------------------------------------------------
(* The operations of LocalControlPlane on state.json: whether they succeed *)
(* and the contents they write, one after the other.                       *)

Missing == file.state = NoFile

(* ensure_state and ensure_state_for_local_identity differ in the identity *)
(* k a missing file is made for; n is how often the caller saves again.    *)
Readable == Missing \/ Valid(file.state)
Ensured(k, n) == IF Missing THEN [i \in 1..(n + 1) |-> BoundTo(k)]
                            ELSE [i \in 1..n |-> file.state]

(* sync_authority_snapshot: a membership of another subject is refused.    *)
Syncable == Missing \/ (Valid(file.state) /\ file.state.subject = Subject)
Synced == <<IF Missing THEN BoundTo(Subject) ELSE file.state>>

-----------------------------------------------------------------------------
(* The main thread.                                                        *)

Loop == {"cycle", "work", "baseline", "wait"}
Running == {"init", "revoke", "bind"} \cup Loop

Serving == /\ main.pc \in Running
           /\ ~Quiet("main") => Head(todo["main"]).file # "identity"

(* The process ends, and its control server with it, at any point: by an   *)
(* error of run, an interrupt, the end of a one-shot run or a crash.       *)
Exit(outcome) ==
  /\ main' = Down(outcome) /\ ctl' = Idle
  /\ todo' = [todo EXCEPT !["main"] = <<>>, !["ctl"] = <<>>]
  /\ fd' = [fd EXCEPT !["main"] = "closed", !["ctl"] = "closed"]
  /\ dirty' = FALSE
  /\ UNCHANGED <<file, cli, used, after, rotated>>

Crash == main.pc # "down" /\ Exit("stopped")

Proceed(ok, contents, pc) ==
  \/ /\ ok
     /\ todo' = [todo EXCEPT !["main"] = Writes("state", contents)]
     /\ main' = [main EXCEPT !.pc = pc,
                             !.straddled = IF pc = "cycle" THEN ~Quiet("ctl") ELSE @]
     /\ dirty' = FALSE
     /\ UNCHANGED <<file, fd, ctl, cli, used, after, rotated>>
  \/ ~ok /\ Exit("failed")

(* The operator starts the daemon, with the flags and the environment of   *)
(* the moment; not while a command that was told to replace the identity   *)
(* or the state runs.  The node no longer comes back as what it was if the *)
(* passphrase does not open its identity, or if its state is to come from  *)
(* the snapshot of another node.                                           *)
Start(mode, p) ==
  /\ main.pc = "down" /\ cli \in {"idle", "joining", "reading"}
  /\ main' = [Down("none") EXCEPT !.pc = "identity", !.mode = mode, !.pass = p]
  /\ after' = IF /\ Opens(file.identity, p)
                 /\ \/ mode = "alone" \/ Subject = file.identity.key
                    \/ mode = "sync" /\ after = "restore"
                THEN after ELSE "none"
  /\ UNCHANGED <<file, todo, fd, ctl, cli, dirty, used, rotated>>

(* Any failure to load the identity makes the daemon generate another.     *)
LoadOrInitIdentity ==
  /\ main.pc = "identity"
  /\ \/ /\ Opens(file.identity, main.pass)
        /\ main' = [main EXCEPT !.pc = "init", !.key = file.identity.key]
        /\ UNCHANGED <<todo, used>>
     \/ /\ ~Opens(file.identity, main.pass)
        /\ \E k \in Keys \ used :
             /\ main' = [main EXCEPT !.pc = "init", !.key = k]
             /\ todo' = [todo EXCEPT !["main"] = Writes("identity", <<IdentityFile(k, main.pass)>>)]
             /\ used' = used \cup {k}
  /\ UNCHANGED <<file, fd, ctl, cli, dirty, after, rotated>>

Refreshable == IF main.mode = "sync" THEN Syncable ELSE Readable
Refreshed == IF main.mode = "sync" THEN Synced ELSE Ensured(main.key, 1)

(* With an authority origin and --revocation-sync the revocations follow,  *)
(* on a state loaded once more (in a later cycle that is a Work step).     *)
InitializeState ==
  /\ main.pc = "init" /\ Quiet("main")
  /\ \E pc \in IF main.mode = "alone" THEN {"bind"} ELSE {"revoke", "bind"} :
       Proceed(main.mode = "seed" \/ Refreshable,
               IF main.mode = "seed" THEN <<BoundTo(Subject)>> ELSE Refreshed, pc)

SyncRevocations ==
  /\ main.pc = "revoke" /\ Quiet("main")
  /\ Proceed(Readable, Ensured(Fixture, 1), "bind")

\* A mutant: the subject of the state is not looked at.
EnsureUnchecked ==
  /\ main.pc = "bind" /\ Quiet("main")
  /\ Proceed(Readable, Ensured(main.key, 0), "cycle")

EnsureIdentityBound ==
  /\ main.pc = "bind" /\ Quiet("main")
  /\ IF Readable /\ ~Missing /\ file.state.subject # main.key
       THEN Exit("refused")
       ELSE Proceed(Readable, Ensured(main.key, 0), "cycle")

(* prepare_state_for_trigger.  The first cycle has the trigger Startup, or *)
(* NetworkChangeRequested with --force-network-reprobe.                    *)
Prepare(trigger) ==
  /\ Quiet("main")
  /\ CASE trigger = "Startup" -> main.pc = "cycle"
       [] trigger = "IntervalElapsed" -> main.pc = "wait"
       [] trigger = "NetworkChangeRequested" -> main.pc \in {"cycle", "wait"}
       [] trigger = "StateChanged" -> main.pc = "wait" /\ dirty
       [] trigger = "AuthoritySnapshotChanged" -> main.pc = "wait" /\ main.mode # "alone"
  /\ CASE trigger \in {"Startup", "IntervalElapsed"} -> Proceed(Refreshable, Refreshed, "work")
       [] trigger = "NetworkChangeRequested" -> Proceed(Readable, Ensured(Fixture, 1), "work")
       [] trigger = "StateChanged" -> Proceed(Readable, Ensured(Fixture, 0), "work")
       [] trigger = "AuthoritySnapshotChanged" -> Proceed(Syncable, Synced, "work")

Triggers == {"Startup", "IntervalElapsed", "NetworkChangeRequested", "StateChanged",
             "AuthoritySnapshotChanged"}

(* The rest of run_cycle loads the state several times and saves it after  *)
(* a reevaluation, a reconciliation or a connection; then the monitor      *)
(* takes its new baseline, from which a change is a trigger.               *)
Work ==
  /\ main.pc = "work" /\ Quiet("main")
  /\ \E n \in 0..1, pc \in {"work", "baseline"} : Proceed(Readable, Ensured(Fixture, n), pc)

RefreshBaseline ==
  /\ main.pc = "baseline" /\ Quiet("main")
  /\ main' = [main EXCEPT !.pc = "wait"]
  /\ UNCHANGED <<file, todo, fd, ctl, cli, dirty, used, after, rotated>>

-----------------------------------------------------------------------------
(* The control server: it answers one request at a time.                   *)

\* A mutant: the control server is started before the identity is stored.
CtlEarly == /\ main.pc \in Running /\ ctl.pc = "idle" /\ Quiet("ctl")
            /\ Beside \/ cli = "idle"

CtlIdle == /\ Serving /\ ctl.pc = "idle" /\ Quiet("ctl")
           /\ Beside \/ cli = "idle"

(* The requests that load the state (session.connect for the local         *)
(* identity, every other one by ensure_state) and perhaps save it.  A      *)
(* state that cannot be loaded, or is not the connecting node's, is an     *)
(* error of the request.                                                   *)
Request(k, n) ==
  /\ CtlIdle /\ Readable
  /\ k = main.key /\ ~Missing => file.state.subject = k
  /\ todo' = [todo EXCEPT !["ctl"] = Writes("state", Ensured(k, n))]
  /\ UNCHANGED <<file, fd, main, ctl, cli, dirty, used, after, rotated>>

(* authority.sync_snapshot and authority.sync_origin, whatever the flags;  *)
(* the reevaluation that follows is a Request.                             *)
AuthoritySync ==
  /\ CtlIdle /\ Syncable
  /\ todo' = [todo EXCEPT !["ctl"] = Writes("state", Synced)]
  /\ UNCHANGED <<file, fd, main, ctl, cli, dirty, used, after, rotated>>

\* A mutant: a reset removes the node's whole directory.
ResetEverything ==
  /\ CtlIdle /\ ~Missing
  /\ file' = [file EXCEPT !.state = NoFile, !.identity = NoFile]
  /\ fd' = [t \in Threads |-> IF fd[t] = "open" THEN "gone" ELSE fd[t]]
  /\ dirty' = (dirty \/ main.pc = "wait")
  /\ after' = "none"
  /\ UNCHANGED <<todo, main, ctl, cli, used, rotated>>

(* state.reset removes state.json, also under a thread that has it open.   *)
(* A node in its loop, on a state of its own, is to come back from it.     *)
StateReset ==
  /\ CtlIdle /\ ~Missing
  /\ file' = [file EXCEPT !.state = NoFile]
  /\ fd' = [t \in Threads |-> IF fd[t] = "open" /\ Head(todo[t]).file = "state"
                                THEN "gone" ELSE fd[t]]
  /\ dirty' = (dirty \/ main.pc = "wait")
  /\ after' = IF /\ main.pc \in Loop /\ file.state = BoundTo(main.key)
                 /\ file.identity = IdentityFile(main.key, main.pass)
                THEN "reset" ELSE "none"
  /\ UNCHANGED <<todo, main, ctl, cli, used, rotated>>

(* state.export reads the identity, then the state, and writes the bundle, *)
(* in which a state that a restore would refuse counts as torn.  (It       *)
(* inspects the state file once more for the manifest, which a restore     *)
(* does not look at.)  A missing file is an error of the request, and so   *)
(* is an existing bundle unless the request says to replace it.            *)
ExportIdentity ==
  /\ CtlIdle /\ file.identity # NoFile
  /\ Overwrite \/ file.bundle = NoFile
  /\ ctl' = [pc |-> "export", id |-> file.identity]
  /\ UNCHANGED <<file, todo, fd, main, cli, dirty, used, after, rotated>>

ExportState ==
  /\ ctl.pc = "export"
  /\ LET st == IF Valid(file.state) THEN file.state ELSE Torn
     IN  todo' = [todo EXCEPT !["ctl"] = IF Missing THEN <<>>
                                         ELSE Writes("bundle", <<Bundle(ctl.id, st)>>)]
  /\ ctl' = Idle
  /\ UNCHANGED <<file, fd, main, cli, dirty, used, after, rotated>>

-----------------------------------------------------------------------------
(* The command line.                                                       *)

(* The operator waits for a start to succeed or fail before a command that *)
(* replaces something; restore and migrate ask, once, whether the daemon   *)
(* answers.                                                                *)
Settled == main.pc = "down" \/ Serving
DaemonEndpointIsLive == Serving

CliIdle == /\ cli = "idle"
           /\ Beside \/ (ctl.pc = "idle" /\ Quiet("ctl"))

CliBegin(command) ==
  /\ CliIdle /\ Settled /\ ~DaemonEndpointIsLive
  /\ cli' = command
  /\ after' = "none"
  /\ UNCHANGED <<file, todo, fd, main, ctl, dirty, used, rotated>>

(* quip identity init, with --overwrite if there is a node.json.           *)
IdentityInit(p) ==
  /\ CliIdle /\ Settled
  /\ \E k \in Keys \ used :
       /\ todo' = [todo EXCEPT !["cli"] = Writes("identity", <<IdentityFile(k, p)>>)]
       /\ used' = used \cup {k}
  /\ cli' = "initialising"
  /\ after' = "none" /\ rotated' = (rotated \/ Serving)
  /\ UNCHANGED <<file, fd, main, ctl, dirty>>

(* quip join and join-origin seed the state from the authority's snapshot. *)
Join ==
  /\ CliIdle
  /\ todo' = [todo EXCEPT !["cli"] = Writes("state", <<BoundTo(Subject)>>)]
  /\ cli' = "joining"
  /\ after' = IF file.identity.kind = "identity" /\ file.identity.key = Subject
                THEN after ELSE "none"
  /\ UNCHANGED <<file, fd, main, ctl, dirty, used, rotated>>

(* Every command that reads the state itself does so by ensure_state,      *)
(* which changes nothing unless the file is missing.                       *)
OfflineRead ==
  /\ CliIdle /\ Missing
  /\ todo' = [todo EXCEPT !["cli"] = Writes("state", Ensured(Fixture, 0))]
  /\ cli' = "reading"
  /\ UNCHANGED <<file, fd, main, ctl, dirty, used, after, rotated>>

\* A mutant: the two contents are written to each other's path.
RestoreSwapped ==
  /\ cli = "restore"
  /\ file.bundle.kind = "bundle" /\ Valid(file.bundle.st)
  /\ todo' = [todo EXCEPT !["cli"] = Writes("identity", <<file.bundle.st>>)
                                       \o Writes("state", <<file.bundle.id>>)]
  /\ cli' = "restoring"
  /\ UNCHANGED <<file, fd, main, ctl, dirty, used, after, rotated>>

\* A mutant: a state that is there already is kept.
RestoreHalf ==
  /\ cli = "restore"
  /\ file.bundle.kind = "bundle" /\ Valid(file.bundle.st)
  /\ todo' = [todo EXCEPT !["cli"] = Writes("identity", <<file.bundle.id>>)
                     \o (IF Missing THEN Writes("state", <<file.bundle.st>>) ELSE <<>>)]
  /\ cli' = "restoring"
  /\ UNCHANGED <<file, fd, main, ctl, dirty, used, after, rotated>>

(* restore_backup_bundle checks everything but the identity's contents     *)
(* before it writes the identity and then the state.  The check for        *)
(* existing files is lifted by --overwrite.                                *)
Restore ==
  /\ cli = "restore"
  /\ file.bundle.kind = "bundle" /\ Valid(file.bundle.st)
  /\ todo' = [todo EXCEPT !["cli"] = Writes("identity", <<file.bundle.id>>)
                                       \o Writes("state", <<file.bundle.st>>)]
  /\ cli' = "restoring"
  /\ UNCHANGED <<file, fd, main, ctl, dirty, used, after, rotated>>

Migrated(c) == [c EXCEPT !.schema = "current"]

Migrate ==
  /\ cli = "migrate" /\ file.state.kind = "state"
  /\ todo' = [todo EXCEPT !["cli"] = Writes("state", <<Migrated(file.state)>>)]
  /\ cli' = "migrating"
  /\ UNCHANGED <<file, fd, main, ctl, dirty, used, after, rotated>>

(* A missing or unreadable file, another passphrase, no --overwrite.       *)
CliRefuse ==
  /\ \/ cli = "restore"
     \/ cli = "migrate" /\ file.state.kind # "state"
  /\ cli' = "idle"
  /\ UNCHANGED <<file, todo, fd, main, ctl, dirty, used, after, rotated>>

CliDone ==
  /\ cli \in {"restoring", "migrating", "initialising", "joining", "reading"} /\ Quiet("cli")
  /\ cli' = "idle"
  /\ after' = IF /\ cli = "restoring" /\ file.bundle.id.kind = "identity"
                 /\ file.bundle.st.subject = file.bundle.id.key
                THEN "restore" ELSE after
  /\ UNCHANGED <<file, todo, fd, main, ctl, dirty, used, rotated>>

CliCrash ==
  /\ cli # "idle"
  /\ cli' = "idle"
  /\ todo' = [todo EXCEPT !["cli"] = <<>>]
  /\ fd' = [fd EXCEPT !["cli"] = "closed"]
  /\ UNCHANGED <<file, main, ctl, dirty, used, after, rotated>>

-----------------------------------------------------------------------------
Next ==
  \/ \E t \in Threads : Open(t) \/ Fill(t)
  \/ \E mode \in Modes, p \in Passphrases : Start(mode, p)
  \/ LoadOrInitIdentity \/ InitializeState \/ SyncRevocations \/ EnsureIdentityBound
  \/ \E trigger \in Triggers : Prepare(trigger)
  \/ Work \/ RefreshBaseline \/ Crash
  \/ \E k \in {Fixture, main.key}, n \in 0..1 : Request(k, n)
  \/ AuthoritySync \/ StateReset \/ ExportIdentity \/ ExportState
  \/ \E command \in {"restore", "migrate"} : CliBegin(command)
  \/ \E p \in Passphrases : IdentityInit(p)
  \/ Join \/ OfflineRead \/ Restore \/ Migrate \/ CliRefuse \/ CliDone \/ CliCrash

Spec == Init /\ [][Next]_vars

-----------------------------------------------------------------------------
(* The shape of every variable.                                            *)
DurableTypeOK ==
  /\ file \in [identity : Identities \cup {NoFile, Torn}, state : States \cup {NoFile, Torn},
               bundle : Bundles \cup {NoFile, Torn}]
  /\ \A t \in Threads : /\ Len(todo[t]) <= 2
                        /\ Quiet(t) => fd[t] = "closed"
  /\ fd \in [Threads -> {"closed", "open", "gone"}]
  /\ main.pc \in {"down", "identity"} \cup Running
  /\ main.outcome \in {"none", "stopped", "failed", "refused"}
  /\ ctl.pc \in {"idle", "export"}
  /\ cli \in {"idle", "restore", "migrate"} => Quiet("cli")
  /\ cli \in {"restore", "migrate", "restoring", "migrating"} => main.pc = "down"
  /\ used \subseteq Keys /\ {dirty, rotated} \subseteq BOOLEAN
  /\ after \in {"none", "restore", "reset"}

(* ensure_identity_bound_state keeps a daemon from running on the          *)
(* memberships of a former identity of its node, or of the node a bundle   *)
(* was taken from (docs/operator-workflows.md: "not carrying stale trust   *)
(* assumptions"): while the daemon is in its loop state.json never belongs *)
(* to one, whatever crashed before, whatever was restored or joined and    *)
(* whatever the control server and the command line write.  Two other      *)
(* subjects it may name: the one of the authority's snapshot, taken over   *)
(* unchecked by a synchronisation after a reset and by quip join, and the  *)
(* identity built into ensure_state, which anybody who loads a missing     *)
(* file writes (RejoinsAfterReset is about that).  And a request that      *)
(* loaded the file before the check may save it back after it: that is     *)
(* excluded by `straddled'.                                                *)
NoFormerMembership ==
  /\ main.pc \in Loop /\ ~main.straddled
  /\ file.state.kind = "state"
  => file.state.subject \in {main.key, Subject, Fixture}

(* restore_backup_bundle writes the identity bytes of a bundle unchecked.  *)
(* It may, unless identity init (which does not ask whether a daemon runs) *)
(* was ever used beside one: otherwise an export never meets a             *)
(* half-written node.json, because run starts the control server after     *)
(* load_or_init_identity and a restore refuses to run while it answers.    *)
BundleIdentityIntact ==
  ~rotated /\ file.bundle.kind = "bundle" => file.bundle.id.kind = "identity"

(* A complete node.json is replaced only by restore and identity init, the *)
(* commands for it, or by a start whose passphrase does not open it:       *)
(* neither a reset, a join, a migration, a crash nor a state that cannot   *)
(* be used rotates the identity.                                           *)
IdentityKept ==
  [][file.identity.kind = "identity" /\ file'.identity # file.identity
       => \/ cli \in {"restoring", "initialising"}
          \/ main.pc = "init" /\ main.pass # file.identity.pass]_vars

(* After a completed restore of a matching pair no start is refused for a  *)
(* state that is not the node's own, however often the daemon crashes and  *)
(* whatever is requested or read meanwhile, as long as nobody resets or    *)
(* migrates the state, restores or makes another identity, starts with     *)
(* another passphrase, or seeds or joins from another node's snapshot.     *)
RestoredNotRefused ==
  [][after = "restore" /\ main.outcome # "refused" => main'.outcome # "refused"]_vars

(* docs/verification-plan.md: net/state.json can be reset and the node     *)
(* rejoins as the same logical participant.  A node that ran on a state of *)
(* its own when this was reset, and has kept its identity since, is not    *)
(* refused at its next start.                                              *)
RejoinsAfterReset ==
  [][after = "reset" /\ main.outcome # "refused" => main'.outcome # "refused"]_vars
=============================================================================
