---------------------------- MODULE DurableProofs ----------------------------
(***************************************************************************)
(* Proofs about the durable files of a node, for any identities,           *)
(* passphrases and flags, any crashes, any commands and any interleaving   *)
(* of the writes.                                                          *)
(***************************************************************************)
EXTENDS Durable, SequenceTheorems, TLAPS

Files ==
  [identity : Identities \cup {NoFile, Torn}, state : States \cup {NoFile, Torn},
   bundle : Bundles \cup {NoFile, Torn}]

Peers == Keys \cup {Fixture}

Mains ==
  [pc : {"down", "identity"} \cup Running, key : Peers, mode : {"alone", "seed", "sync"},
   pass : Passphrases \cup {"none"}, outcome : {"none", "stopped", "failed", "refused"},
   straddled : BOOLEAN]

Ctls == [pc : {"idle", "export"}, id : Identities \cup {NoFile, Torn}]

(* The commands of the command line that ask whether a daemon answers, and *)
(* those that have something to write.                                     *)
Checked == {"restore", "migrate", "restoring", "migrating"}
Writing == {"restoring", "migrating", "initialising", "joining", "reading"}

(* Writes of states that belong to one of the peers in K, of identities (a *)
(* restore writes back whatever the bundle holds), and of bundles, with    *)
(* any identity or with one that is whole.                                 *)
StatesOf(K) == {c \in States : c.subject \in K}
StateWrites(K) == [file : {"state"}, content : StatesOf(K)]
IdentityWrites == [file : {"identity"}, content : Identities \cup {Torn}]
BundleWrites == [file : {"bundle"}, content : Bundles]
WholeWrites == [file : {"bundle"}, content : {b \in Bundles : b.id \in Identities}]

FieldsOK ==
  /\ file \in Files
  /\ fd \in [Threads -> {"closed", "open", "gone"}]
  /\ main \in Mains /\ ctl \in Ctls
  /\ cli \in {"idle", "restore", "migrate"} \cup Writing
  /\ used \subseteq Keys /\ dirty \in BOOLEAN
  /\ after \in {"none", "restore", "reset"} /\ rotated \in BOOLEAN

(* The main thread is about to store, or is storing, a new identity.       *)
NewIdentity == [file |-> "identity", content |-> IdentityFile(main.key, main.pass)]
Storing == main.pc = "init" /\ todo["main"] # <<>>

(* What the daemon's threads have left to write, and when they have        *)
(* nothing.                                                                *)
TodoOK ==
  /\ todo \in [Threads -> Seq(StateWrites(Peers) \cup IdentityWrites \cup BundleWrites)]
  /\ \A t \in Threads : Len(todo[t]) <= 2
  /\ main.pc \in {"down", "identity"} => todo["main"] = <<>>
  /\ main.pc # "down" => main.pass \in Passphrases
  /\ Storing => todo["main"] = <<NewIdentity>> /\ main.key \in Keys
  /\ main.pc \notin {"down", "identity", "init"} => todo["main"] \in Seq(StateWrites(Peers))
  /\ todo["ctl"] \in Seq(StateWrites(Peers) \cup BundleWrites)
  /\ main.pc \in {"down", "identity"} \/ Storing => todo["ctl"] = <<>> /\ ctl = Idle
  /\ ctl.pc # "idle" => todo["ctl"] = <<>> /\ ctl.id # NoFile

(* What a command has left to write, and what the daemon does meanwhile.   *)
CliOK ==
  /\ cli \in Checked => main.pc = "down"
  /\ cli = "initialising" => /\ main.pc # "identity" /\ ~ Storing
                             /\ main.pc = "down" \/ rotated
  /\ cli \in {"idle", "restore", "migrate"} => todo["cli"] = <<>>
  /\ cli = "migrating" => todo["cli"] \in Seq(StateWrites(Peers))
  /\ cli = "initialising" => todo["cli"] \in Seq(IdentityWrites)
  /\ cli = "joining" => todo["cli"] \in Seq(StateWrites({Subject}))
  /\ cli = "reading" => todo["cli"] \in Seq(StateWrites({Fixture}))

(* A thread that has a file open is about to fill it; only state.json is   *)
(* removed under one, nobody else writes the identity meanwhile, and       *)
(* nobody anything while a restore or a migration runs.                    *)
OpenOK ==
  \A t \in Threads :
    /\ todo[t] = <<>> => fd[t] = "closed"
    /\ fd[t] = "gone" => Head(todo[t]).file = "state"
    /\ fd[t] = "open" /\ Head(todo[t]).file = "identity" => file.identity = Torn
    /\ t = "cli" /\ cli \in Checked =>
         fd[t] # "gone" /\ (fd[t] = "open" => file[Head(todo[t]).file] = Torn)

(* While the daemon serves, node.json is whole and its own unless it was   *)
(* rotated beside it; until a start has truncated the one it replaces,     *)
(* that one does not open.                                                 *)
IdentityOK ==
  /\ Serving /\ ~ rotated => file.identity = IdentityFile(main.key, main.pass)
  /\ Storing /\ fd["main"] = "closed" => ~ Opens(file.identity, main.pass)

BundleOK ==
  ~ rotated => /\ file.bundle \in Bundles => file.bundle.id \in Identities
               /\ ctl.pc # "idle" => ctl.id \in Identities
               /\ todo["ctl"] \in Seq(StateWrites(Peers) \cup WholeWrites)

(* How far a restore has come.                                             *)
RestoringOK ==
  cli = "restoring" =>
    LET iw == [file |-> "identity", content |-> file.bundle.id]
        sw == [file |-> "state", content |-> file.bundle.st]
    IN  /\ file.bundle \in Bundles /\ file.bundle.st \in States
        /\ \/ todo["cli"] = <<iw, sw>>
           \/ todo["cli"] = <<sw>> /\ file.identity = file.bundle.id
           \/ /\ todo["cli"] = <<>> /\ file.identity = file.bundle.id
              /\ file.state = file.bundle.st

(* Whose memberships a daemon in its loop may meet: after a check that no  *)
(* request straddled, nobody has any other to write.                       *)
Own == {main.key, Fixture, Subject}
Clean(t) == todo[t] \in Seq(StateWrites(Own) \cup IdentityWrites \cup BundleWrites)

LoopOK ==
  main.pc \in Loop /\ ~ main.straddled =>
    /\ Clean("ctl") /\ Clean("main")
    /\ file.state \in StatesOf(Own) \cup {NoFile, Torn}

(* After a restore of a matching pair, whoever has a state has one of the  *)
(* restored identity.                                                      *)
RestoredOK ==
  after = "restore" =>
    LET own == {file.identity.key}
    IN  /\ cli \in {"idle", "joining"} /\ file.identity \in Identities
        /\ cli = "joining" => Subject = file.identity.key
        /\ file.state \in StatesOf(own) \cup {Torn}
        /\ main.pc # "down" => /\ Opens(file.identity, main.pass) /\ ~ Storing
                               /\ main.mode = "seed" => Subject = file.identity.key
        /\ main.pc \notin {"down", "identity"} => main.key = file.identity.key
        /\ todo["main"] \in Seq(StateWrites(own))
        /\ todo["ctl"] \in Seq(StateWrites(own) \cup BundleWrites)

DurableInv ==
  /\ FieldsOK /\ TodoOK /\ CliOK /\ OpenOK /\ IdentityOK
  /\ BundleOK /\ RestoringOK /\ LoopOK /\ RestoredOK

-----------------------------------------------------------------------------
(* Contents and writes.                                                    *)

(* The contents of files are told apart by their kind.                     *)
LEMMA Kinds ==
  /\ \A c \in Identities : c.kind = "identity" /\ c.key \in Keys /\ c.pass \in Passphrases
                           /\ c = IdentityFile(c.key, c.pass)
  /\ \A c \in States : c.kind = "state" /\ c.subject \in Peers
  /\ \A c \in Bundles : c.kind = "bundle" /\ c.id \in Identities \cup {Torn}
                        /\ c.st \in States \cup {Torn}
  /\ NoFile.kind = "none" /\ Torn.kind = "torn"
BY DEF Identities, States, Bundles, IdentityFile, StateFile, Bundle, NoFile, Torn, Peers

LEMMA Built ==
  /\ \A k \in Keys, p \in Passphrases :
       IdentityFile(k, p) \in Identities /\ IdentityFile(k, p).key = k
       /\ IdentityFile(k, p).pass = p
  /\ \A k \in Peers : BoundTo(k) \in StatesOf({k})
  /\ \A i \in Identities \cup {Torn}, s \in States \cup {Torn} :
       Bundle(i, s) \in Bundles /\ Bundle(i, s).id = i
<1>1. \A k \in Keys, p \in Passphrases :
       IdentityFile(k, p) \in Identities /\ IdentityFile(k, p).key = k
       /\ IdentityFile(k, p).pass = p
  BY DEF Identities, IdentityFile
<1>2. \A k \in Peers : BoundTo(k) \in StatesOf({k})
  BY DEF BoundTo, StatesOf, States, StateFile, Peers
<1>3. ASSUME NEW i \in Identities \cup {Torn}, NEW s \in States \cup {Torn}
      PROVE  Bundle(i, s) \in Bundles /\ Bundle(i, s).id = i
  BY DEF Bundles, Bundle
<1> QED  BY <1>1, <1>2, <1>3

LEMMA SeqMono ==
  ASSUME NEW A, NEW B, A \subseteq B, NEW w \in Seq(A)
  PROVE  w \in Seq(B)
OBVIOUS

(* A larger set of peers allows more.                                      *)
LEMMA StatesMono ==
  ASSUME NEW K, NEW L, K \subseteq L
  PROVE  StatesOf(K) \subseteq StatesOf(L) /\ StateWrites(K) \subseteq StateWrites(L)
BY DEF StatesOf, StateWrites

LEMMA WritesMono ==
  ASSUME NEW K, NEW L, K \subseteq L, NEW w \in Seq(StateWrites(K))
  PROVE  w \in Seq(StateWrites(L))
<1>1. StateWrites(K) \subseteq StateWrites(L)  BY StatesMono
<1> QED  BY <1>1

(* One content written n times.                                            *)
LEMMA Repeated ==
  ASSUME NEW K, NEW c \in StatesOf(K), NEW n \in 0 .. 2, NEW cs, cs = [i \in 1 .. n |-> c]
  PROVE  Writes("state", cs) \in Seq(StateWrites(K)) /\ Len(Writes("state", cs)) <= 2
<1> DEFINE w == Writes("state", cs)
<1>1. w = [i \in 1 .. n |-> [file |-> "state", content |-> c]]  BY DEF Writes
<1>2. [file |-> "state", content |-> c] \in StateWrites(K)  BY DEF StateWrites
<1>3. w \in [1 .. n -> StateWrites(K)]  BY <1>1, <1>2
<1> QED  BY <1>1, <1>3

(* ensure_state and what is saved after it.                                *)
LEMMA EnsuredWrites ==
  ASSUME FieldsOK, Readable, NEW k \in Peers, NEW n \in 0 .. 1
  PROVE  \E s \in Peers :
           /\ Writes("state", Ensured(k, n)) \in Seq(StateWrites({s}))
           /\ Len(Writes("state", Ensured(k, n))) <= 2
           /\ IF Missing THEN s = k ELSE file.state \in StatesOf({s})
<1>1. CASE Missing
  <2>1. Ensured(k, n) = [i \in 1 .. (n + 1) |-> BoundTo(k)]  BY <1>1 DEF Ensured
  <2>2. n + 1 \in 0 .. 2 /\ BoundTo(k) \in StatesOf({k})  BY Built
  <2>3. /\ Writes("state", Ensured(k, n)) \in Seq(StateWrites({k}))
        /\ Len(Writes("state", Ensured(k, n))) <= 2
    BY <2>1, <2>2, Repeated
  <2> QED  BY <1>1, <2>3
<1>2. CASE ~ Missing
  <2>1. file.state \in States
    BY <1>2, Kinds DEF Readable, Valid, Missing, FieldsOK, Files
  <2>2. file.state.subject \in Peers /\ file.state \in StatesOf({file.state.subject})
    BY <2>1, Kinds DEF StatesOf
  <2>3. Ensured(k, n) = [i \in 1 .. n |-> file.state] /\ n \in 0 .. 2  BY <1>2 DEF Ensured
  <2>4. /\ Writes("state", Ensured(k, n)) \in Seq(StateWrites({file.state.subject}))
        /\ Len(Writes("state", Ensured(k, n))) <= 2
    BY <2>2, <2>3, Repeated
  <2> QED  BY <1>2, <2>2, <2>4
<1> QED  BY <1>1, <1>2

LEMMA OneWrite ==
  ASSUME NEW f, NEW c
  PROVE  Writes(f, <<c>>) = <<[file |-> f, content |-> c]>>
BY DEF Writes

LEMMA TwoWrites ==
  ASSUME NEW x, NEW y
  PROVE  <<x>> \o <<y>> = <<x, y>>
<1> DEFINE S == {x, y}
           a == <<x>>
           b == <<y>>
           c == <<x, y>>
<1>1. a \in Seq(S) /\ Len(a) = 1 /\ a[1] = x /\ b \in Seq(S) /\ Len(b) = 1 /\ b[1] = y
  OBVIOUS
<1>2. c \in Seq(S) /\ Len(c) = 2 /\ c[1] = x /\ c[2] = y
  OBVIOUS
<1> HIDE DEF S, a, b, c
<1>3. a \o b \in Seq(S) /\ Len(a \o b) = 2 /\ (a \o b)[1] = x /\ (a \o b)[2] = y
  BY <1>1, ConcatProperties
<1>4. \A i \in 1 .. 2 : (a \o b)[i] = c[i]  BY <1>2, <1>3
<1>5. a \o b = c  BY <1>2, <1>3, <1>4
<1> QED  BY <1>5 DEF a, b, c

LEMMA OneStateWrite ==
  ASSUME NEW K, NEW c \in StatesOf(K)
  PROVE  Writes("state", <<c>>) \in Seq(StateWrites(K)) /\ Len(Writes("state", <<c>>)) <= 2
<1> DEFINE x == [file |-> "state", content |-> c]
<1>1. x \in StateWrites(K)  BY DEF StateWrites
<1>2. Writes("state", <<c>>) = <<x>>  BY OneWrite
<1> HIDE DEF x
<1>3. <<x>> \in Seq(StateWrites(K)) /\ Len(<<x>>) = 1  BY <1>1
<1> DEFINE w == Writes("state", <<c>>)
<1>4. w \in Seq(StateWrites(K)) /\ Len(w) = 1  BY <1>2, <1>3, Zenon
<1> HIDE DEF w
<1>5. w \in Seq(StateWrites(K)) /\ Len(w) <= 2  BY <1>4
<1> QED  BY <1>5 DEF w

LEMMA SyncedWrites ==
  ASSUME FieldsOK, Syncable
  PROVE  /\ Writes("state", Synced) \in Seq(StateWrites({Subject}))
         /\ Len(Writes("state", Synced)) <= 2
         /\ ~ Missing => file.state \in StatesOf({Subject})
<1>0. Subject \in Peers  BY DurableAssumption DEF Peers
<1>1. ~ Missing => file.state \in StatesOf({Subject})
  BY Kinds DEF Syncable, Valid, Missing, FieldsOK, Files, StatesOf
<1>2. PICK c \in StatesOf({Subject}) : Synced = <<c>>  BY <1>0, <1>1, Built DEF Synced
<1> QED  BY <1>1, <1>2, OneStateWrite

(* The phases of the main thread.                                          *)
LEMMA Phases ==
  /\ Loop \subseteq Running /\ "init" \in Running /\ "revoke" \in Running /\ "bind" \in Running
  /\ \A pc \in Loop : pc \notin {"down", "identity", "init", "revoke", "bind"}
  /\ \A pc \in Running : pc \notin {"down", "identity"}
BY DEF Loop, Running

LEMMA Empty == \A K : <<>> \in Seq(K) /\ Len(<<>>) <= 2
OBVIOUS

-----------------------------------------------------------------------------
(* The process ends.                                                       *)
LEMMA ExitOK ==
  ASSUME DurableInv, NEW outcome \in {"none", "stopped", "failed", "refused"}, Exit(outcome)
  PROVE  DurableInv'
<1> USE DEF Threads
<1>1. /\ main' = Down(outcome) /\ ctl' = Idle /\ dirty' = FALSE
      /\ UNCHANGED <<file, cli, used, after, rotated>>
      /\ todo' = [todo EXCEPT !["main"] = <<>>, !["ctl"] = <<>>]
      /\ fd' = [fd EXCEPT !["main"] = "closed", !["ctl"] = "closed"]
  BY DEF Exit
<1>2. main'.pc = "down" /\ main'.pass = "none" /\ main'.key = Fixture
  BY <1>1 DEF Down
<1>3. FieldsOK'
  <2>1. Down(outcome) \in Mains  BY DEF Down, Mains, Peers
  <2>2. fd' \in [Threads -> {"closed", "open", "gone"}]
    BY <1>1 DEF DurableInv, FieldsOK
  <2> QED  BY <1>1, <2>1, <2>2 DEF DurableInv, FieldsOK, Idle, Ctls
<1>4. /\ todo'["main"] = <<>> /\ todo'["ctl"] = <<>> /\ todo'["cli"] = todo["cli"]
      /\ fd'["main"] = "closed" /\ fd'["ctl"] = "closed" /\ fd'["cli"] = fd["cli"]
      /\ todo' \in [Threads -> Seq(StateWrites(Peers) \cup IdentityWrites \cup BundleWrites)]
  <2>1. /\ fd \in [Threads -> {"closed", "open", "gone"}]
        /\ todo \in [Threads -> Seq(StateWrites(Peers) \cup IdentityWrites \cup BundleWrites)]
    BY DEF DurableInv, TodoOK, FieldsOK
  <2> QED  BY <1>1, <2>1, Empty
<1>5. ~ (Storing') /\ ~ (Serving')  BY <1>2, Phases DEF Storing, Serving
<1>6. TodoOK'
  BY <1>1, <1>2, <1>4, <1>5 DEF DurableInv, TodoOK, Idle
<1>7. CliOK'  BY <1>1, <1>2, <1>4, <1>5 DEF DurableInv, CliOK
<1>8. OpenOK'  BY <1>1, <1>4 DEF DurableInv, OpenOK
<1>9. IdentityOK'  BY <1>5 DEF IdentityOK
<1>10. BundleOK'  BY <1>1, <1>4, Empty DEF DurableInv, BundleOK, Idle
<1>11. RestoringOK'  BY <1>1, <1>4 DEF DurableInv, RestoringOK
<1>12. LoopOK'  BY <1>2, Phases DEF LoopOK
<1>13. RestoredOK'  BY <1>1, <1>2, <1>4 DEF DurableInv, RestoredOK
<1> QED  BY <1>3, <1>6, <1>7, <1>8, <1>9, <1>10, <1>11, <1>12, <1>13 DEF DurableInv

(* The main thread has states to write.  `s' is whose they are: those of   *)
(* the file, those made for a missing one, or those of a seed.             *)
LEMMA MainWrites ==
  ASSUME DurableInv, main.pc \in Running, Quiet("main"),
         NEW s \in Peers, NEW w \in Seq(StateWrites({s})), Len(w) <= 2,
         NEW pc \in {"revoke", "bind", "cycle", "work", "baseline"},
         todo' = [todo EXCEPT !["main"] = w], dirty' = FALSE,
         main' = [main EXCEPT !.pc = pc,
                              !.straddled = IF pc = "cycle" THEN ~ Quiet("ctl") ELSE @],
         UNCHANGED <<file, fd, ctl, cli, used, after, rotated>>,
         \/ file.state \in StatesOf({s})
         \/ file.state = NoFile /\ s \in Own
         \/ main.mode = "seed" /\ s = Subject,
         pc \in {"work", "baseline"} => main.pc \in Loop,
         pc = "cycle" => file.state \in StatesOf({main.key}) \cup {NoFile} /\ s \in Own
  PROVE  DurableInv'
<1> USE DEF Threads
<1>0. /\ FieldsOK /\ TodoOK /\ CliOK /\ OpenOK /\ IdentityOK
      /\ BundleOK /\ RestoringOK /\ LoopOK /\ RestoredOK
  BY DEF DurableInv
<1>1. /\ main'.pc = pc /\ main'.key = main.key /\ main'.mode = main.mode
      /\ main'.pass = main.pass /\ main'.outcome = main.outcome
      /\ main'.straddled = IF pc = "cycle" THEN ~ Quiet("ctl") ELSE main.straddled
      /\ main' \in Mains
  <2>1. pc \in Running  BY DEF Running, Loop
  <2>2. (~ Quiet("ctl")) \in BOOLEAN  BY DEF Quiet
  <2> QED  BY <1>0, <2>1, <2>2 DEF FieldsOK, Mains
<1>2. FieldsOK'  BY <1>0, <1>1 DEF FieldsOK
<1>3. /\ w \in Seq(StateWrites(Peers))
      /\ w \in Seq(StateWrites(Peers) \cup IdentityWrites \cup BundleWrites)
  <2>1. w \in Seq(StateWrites(Peers))  BY WritesMono
  <2> QED  BY <2>1
<1>4. /\ todo'["main"] = w /\ todo'["ctl"] = todo["ctl"] /\ todo'["cli"] = todo["cli"]
      /\ todo' \in [Threads -> Seq(StateWrites(Peers) \cup IdentityWrites \cup BundleWrites)]
  BY <1>0, <1>3 DEF TodoOK
<1>5. /\ main.pc \notin {"down", "identity"} /\ cli \notin Checked
      /\ ~ Storing /\ ~ (Storing') /\ fd["main"] = "closed"
  BY <1>0, <1>1, Phases DEF CliOK, OpenOK, Storing, Quiet
<1>6. TodoOK'
  BY <1>0, <1>1, <1>3, <1>4, <1>5 DEF TodoOK
<1>7. CliOK'  BY <1>0, <1>1, <1>4, <1>5 DEF CliOK, Checked
<1>8. OpenOK'  BY <1>0, <1>4, <1>5 DEF OpenOK
<1>9. IdentityOK'
  <2>1. Serving  BY DEF Serving
  <2> QED  BY <1>0, <1>1, <1>5, <2>1 DEF IdentityOK
<1>10. BundleOK'  BY <1>0, <1>4 DEF BundleOK
<1>11. RestoringOK'  BY <1>5 DEF RestoringOK, Checked
<1>12. ASSUME s \in Own PROVE Clean("main")'
  <2>1. w \in Seq(StateWrites(Own))  BY <1>12, WritesMono
  <2>2. w \in Seq(StateWrites(Own) \cup IdentityWrites \cup BundleWrites)  BY <2>1
  <2> QED  BY <1>1, <1>4, <2>2 DEF Clean, Own
<1>13. Own' = Own /\ (Clean("ctl"))' = Clean("ctl")
  BY <1>1, <1>4 DEF Own, Clean
<1>14. ASSUME file.state \in StatesOf({s}) PROVE file.state \in States /\ file.state.subject = s
  BY <1>14 DEF StatesOf
<1>15. LoopOK'
  <2> SUFFICES ASSUME pc \in Loop, ~ (main'.straddled)
               PROVE  /\ s \in Own /\ Clean("ctl")
                      /\ file.state \in StatesOf(Own) \cup {NoFile, Torn}
    BY <1>1, <1>12, <1>13 DEF LoopOK
  <2>1. CASE pc = "cycle"
    <3>1. Clean("ctl")  BY <1>1, <2>1, Empty DEF Clean, Quiet
    <3> QED  BY <2>1, <3>1 DEF StatesOf, Own
  <2>2. CASE pc # "cycle"
    <3>1. main.pc \in Loop /\ ~ main.straddled  BY <1>1, <2>2, Phases
    <3>2. Clean("ctl") /\ file.state \in StatesOf(Own) \cup {NoFile, Torn}
      BY <1>0, <3>1 DEF LoopOK
    <3> QED  BY <1>14, <3>2, Kinds DEF StatesOf, Own
  <2> QED  BY <2>1, <2>2
<1>16. RestoredOK'
  <2> SUFFICES ASSUME after = "restore" PROVE RestoredOK'
    BY DEF RestoredOK
  <2>1. s = file.identity.key
    BY <1>0, <1>5, <1>14, Kinds DEF RestoredOK, StatesOf
  <2> QED  BY <1>0, <1>1, <1>4, <1>5, <2>1 DEF RestoredOK, Opens
<1> QED  BY <1>2, <1>6, <1>7, <1>8, <1>9, <1>10, <1>11, <1>15, <1>16 DEF DurableInv

(* The control server has states to write.                                 *)
LEMMA CtlWrites ==
  ASSUME DurableInv, CtlIdle,
         NEW s \in Peers, NEW w \in Seq(StateWrites({s})), Len(w) <= 2,
         todo' = [todo EXCEPT !["ctl"] = w],
         UNCHANGED <<file, fd, main, ctl, cli, dirty, used, after, rotated>>,
         file.state \in StatesOf({s}) \/ (file.state = NoFile /\ s \in Own)
  PROVE  DurableInv'
<1> USE DEF Threads
<1>0. /\ FieldsOK /\ TodoOK /\ CliOK /\ OpenOK /\ IdentityOK
      /\ BundleOK /\ RestoringOK /\ LoopOK /\ RestoredOK
  BY DEF DurableInv
<1>1. FieldsOK'  BY <1>0 DEF FieldsOK
<1>2. w \in Seq(StateWrites(Peers))  BY WritesMono
<1>3. /\ w \in Seq(StateWrites(Peers) \cup BundleWrites)
      /\ w \in Seq(StateWrites(Peers) \cup WholeWrites)
      /\ w \in Seq(StateWrites(Peers) \cup IdentityWrites \cup BundleWrites)
  BY <1>2
<1>4. /\ todo'["ctl"] = w /\ todo'["main"] = todo["main"] /\ todo'["cli"] = todo["cli"]
      /\ todo' \in [Threads -> Seq(StateWrites(Peers) \cup IdentityWrites \cup BundleWrites)]
  BY <1>0, <1>3 DEF TodoOK
<1>5. /\ Serving /\ main.pc \in Running /\ ctl.pc = "idle" /\ todo["ctl"] = <<>>
      /\ fd["ctl"] = "closed" /\ Storing' = Storing
  BY <1>0, <1>4 DEF CtlIdle, Serving, Quiet, OpenOK, Storing
<1>6. ~ Storing
  <2>1. Storing => Head(todo["main"]).file = "identity"
    BY <1>0 DEF TodoOK, NewIdentity
  <2> QED  BY <1>5, <2>1 DEF Serving, Quiet, Storing
<1>7. TodoOK'
  BY <1>0, <1>3, <1>4, <1>5, <1>6, Phases DEF TodoOK
<1>8. CliOK'  BY <1>0, <1>4, <1>5 DEF CliOK
<1>9. OpenOK'  BY <1>0, <1>4, <1>5 DEF OpenOK
<1>10. IdentityOK'  BY <1>0, <1>5, <1>6 DEF IdentityOK
<1>11. BundleOK'  BY <1>0, <1>3, <1>4 DEF BundleOK
<1>12. RestoringOK'  BY <1>0, <1>4 DEF RestoringOK
<1>13. ASSUME s \in Own PROVE Clean("ctl")'
  <2>1. w \in Seq(StateWrites(Own))  BY <1>13, WritesMono
  <2>2. w \in Seq(StateWrites(Own) \cup IdentityWrites \cup BundleWrites)  BY <2>1
  <2> QED  BY <1>4, <2>2 DEF Clean, Own
<1>14. ASSUME file.state \in StatesOf({s}) PROVE file.state \in States /\ file.state.subject = s
  BY <1>14 DEF StatesOf
<1>15. LoopOK'
  <2> SUFFICES ASSUME main.pc \in Loop, ~ main.straddled PROVE LoopOK'
    BY DEF LoopOK
  <2>1. Clean("main") /\ file.state \in StatesOf(Own) \cup {NoFile, Torn}
    BY <1>0 DEF LoopOK
  <2>2. s \in Own  BY <1>14, <2>1, Kinds DEF StatesOf
  <2>3. Own' = Own /\ (Clean("main"))' = Clean("main")  BY <1>4 DEF Own, Clean
  <2> QED  BY <1>13, <2>1, <2>2, <2>3 DEF LoopOK
<1>16. RestoredOK'
  <2> SUFFICES ASSUME after = "restore" PROVE RestoredOK'
    BY DEF RestoredOK
  <2>1. s = file.identity.key
    BY <1>0, <1>14, Kinds DEF RestoredOK, StatesOf
  <2>2. w \in Seq(StateWrites({file.identity.key}) \cup BundleWrites)
    <3> DEFINE S == StateWrites({file.identity.key})
    <3>1. w \in Seq(S)  BY <2>1
    <3>2. S \subseteq S \cup BundleWrites  OBVIOUS
    <3> HIDE DEF S
    <3>3. w \in Seq(S \cup BundleWrites)  BY <3>1, <3>2, SeqMono
    <3> QED  BY <3>3 DEF S
  <2> QED  BY <1>0, <1>4, <1>5, <1>6, <2>2 DEF RestoredOK, Storing
<1> QED  BY <1>1, <1>7, <1>8, <1>9, <1>10, <1>11, <1>12, <1>15, <1>16 DEF DurableInv

(* Which files a thread writes: the server never the identity, the main    *)
(* thread only a new one, a restore the identity before the state.         *)
LEMMA WhoWrites ==
  ASSUME DurableInv, NEW t \in Threads, todo[t] # <<>>, NEW f, f = Head(todo[t]).file
  PROVE  /\ f \in {"identity", "state", "bundle"}
         /\ t = "ctl" => f # "identity"
         /\ t = "main" => f = "state" \/ (f = "identity" /\ Storing)
         /\ t = "cli" => cli \in Writing /\ f # "bundle"
         /\ t = "cli" /\ cli = "initialising" => f = "identity"
         /\ f = "identity" /\ t = "cli" =>
              cli = "initialising" \/ (cli = "restoring" /\ Len(todo["cli"]) = 2)
         /\ t # "cli" => main.pc \in Running
<1> USE DEF Threads
<1>0. FieldsOK /\ TodoOK /\ CliOK /\ RestoringOK  BY DEF DurableInv
<1>1. Head(todo[t]) \in StateWrites(Peers) \cup IdentityWrites \cup BundleWrites
  BY <1>0 DEF TodoOK
<1>2. f \in {"identity", "state", "bundle"}
  BY <1>1 DEF StateWrites, IdentityWrites, BundleWrites
<1>3. t = "ctl" => f # "identity"
  <2>1. t = "ctl" => Head(todo[t]) \in StateWrites(Peers) \cup BundleWrites
    BY <1>0 DEF TodoOK
  <2> QED  BY <2>1 DEF StateWrites, BundleWrites
<1>4. t = "main" => f = "state" \/ (f = "identity" /\ Storing)
  <2>1. CASE main.pc = "init"  BY <1>0, <2>1 DEF TodoOK, Storing, NewIdentity
  <2>2. CASE main.pc # "init" /\ t = "main"
    <3>1. Head(todo[t]) \in StateWrites(Peers)  BY <1>0, <2>2 DEF TodoOK
    <3> QED  BY <3>1 DEF StateWrites
  <2> QED  BY <2>1, <2>2
<1>5. t # "cli" => main.pc \in Running
  BY <1>0 DEF TodoOK, FieldsOK, Mains
<1>6. t = "cli" => cli \in Writing
  BY <1>0 DEF CliOK, FieldsOK
<1>7. CASE t = "cli" /\ cli = "migrating"
  <2>1. Head(todo[t]) \in StateWrites(Peers)  BY <1>0, <1>7 DEF CliOK
  <2>2. f = "state"  BY <2>1 DEF StateWrites
  <2> QED  BY <1>2, <1>6, <1>7, <2>2
<1>8. CASE t = "cli" /\ cli = "joining"
  <2>1. Head(todo[t]) \in StateWrites({Subject})  BY <1>0, <1>8 DEF CliOK
  <2>2. f = "state"  BY <2>1 DEF StateWrites
  <2> QED  BY <1>2, <1>6, <1>8, <2>2
<1>9. CASE t = "cli" /\ cli = "reading"
  <2>1. Head(todo[t]) \in StateWrites({Fixture})  BY <1>0, <1>9 DEF CliOK
  <2>2. f = "state"  BY <2>1 DEF StateWrites
  <2> QED  BY <1>2, <1>6, <1>9, <2>2
<1>10. CASE t = "cli" /\ cli = "initialising"
  <2>1. Head(todo[t]) \in IdentityWrites  BY <1>0, <1>10 DEF CliOK
  <2>2. f = "identity"  BY <2>1 DEF IdentityWrites
  <2> QED  BY <1>2, <1>6, <1>10, <2>2
<1>11. CASE t = "cli" /\ cli = "restoring"
  <2> DEFINE iw == [file |-> "identity", content |-> file.bundle.id]
             sw == [file |-> "state", content |-> file.bundle.st]
  <2>1. todo[t] = <<iw, sw>> \/ todo[t] = <<sw>>  BY <1>0, <1>11 DEF RestoringOK
  <2>2. CASE todo[t] = <<iw, sw>>
    <3>1. f = "identity" /\ Len(todo[t]) = 2  BY <2>2
    <3> QED  BY <1>6, <1>11, <3>1
  <2>3. CASE todo[t] = <<sw>>
    <3>1. f = "state"  BY <2>3
    <3> QED  BY <1>6, <1>11, <3>1
  <2> QED  BY <2>1, <2>2, <2>3
<1> QED  BY <1>2, <1>3, <1>4, <1>5, <1>6, <1>7, <1>8, <1>9, <1>10, <1>11 DEF Writing

(* fs::write truncates a file.                                             *)
LEMMA OpenStepOK ==
  ASSUME DurableInv, NEW t \in Threads, Open(t)
  PROVE  DurableInv'
<1> USE DEF Threads
<1>0. /\ FieldsOK /\ TodoOK /\ CliOK /\ OpenOK /\ IdentityOK
      /\ BundleOK /\ RestoringOK /\ LoopOK /\ RestoredOK
  BY DEF DurableInv
<1> DEFINE f == Head(todo[t]).file
<1>1. /\ todo[t] # <<>> /\ fd[t] = "closed"
      /\ file' = [file EXCEPT ![f] = Torn] /\ fd' = [fd EXCEPT ![t] = "open"]
      /\ dirty' = (dirty \/ (main.pc = "wait" /\ f = "state"))
      /\ UNCHANGED <<todo, main, ctl, cli, used, after, rotated>>
  BY DEF Open, Quiet
<1>2. /\ f \in {"identity", "state", "bundle"}
      /\ t = "ctl" => f # "identity"
      /\ t = "main" => f = "state" \/ (f = "identity" /\ Storing)
      /\ t = "cli" => cli \in Writing /\ f # "bundle"
      /\ f = "identity" /\ t = "cli" =>
           cli = "initialising" \/ (cli = "restoring" /\ Len(todo["cli"]) = 2)
      /\ t # "cli" => main.pc \in Running
  BY <1>1, WhoWrites
<1>3. /\ file'.identity = IF f = "identity" THEN Torn ELSE file.identity
      /\ file'.state = IF f = "state" THEN Torn ELSE file.state
      /\ file'.bundle = IF f = "bundle" THEN Torn ELSE file.bundle
      /\ file' \in Files /\ file'[f] = Torn
      /\ fd'[t] = "open" /\ \A u \in Threads \ {t} : fd'[u] = fd[u]
  <2> HIDE DEF f
  <2> QED  BY <1>0, <1>1, <1>2 DEF FieldsOK, Files
<1>a. t = "cli" \/ cli \notin Checked
  BY <1>0, <1>2, Phases DEF CliOK
<1> HIDE DEF f
<1>4. FieldsOK'  BY <1>0, <1>1, <1>3 DEF FieldsOK
<1>5. TodoOK' /\ CliOK'  BY <1>0, <1>1 DEF TodoOK, CliOK, Storing, NewIdentity
<1>6. OpenOK'
  <2> SUFFICES ASSUME NEW u \in Threads PROVE
        /\ todo[u] = <<>> => fd'[u] = "closed"
        /\ fd'[u] = "gone" => Head(todo[u]).file = "state"
        /\ fd'[u] = "open" /\ Head(todo[u]).file = "identity" => file'.identity = Torn
        /\ u = "cli" /\ cli \in Checked =>
             fd'[u] # "gone" /\ (fd'[u] = "open" => file'[Head(todo[u]).file] = Torn)
    BY <1>1 DEF OpenOK
  <2>1. CASE u = t  BY <1>1, <1>3, <2>1 DEF f
  <2>2. CASE u # t
    <3>1. u = "cli" => cli \notin Checked  BY <1>a, <2>2
    <3> QED  BY <1>0, <1>3, <2>2, <3>1 DEF OpenOK
  <2> QED  BY <2>1, <2>2
<1>7. /\ Serving /\ ~ rotated => f # "identity"
      /\ Storing /\ t # "main" => f # "identity"
  <2>1. Serving => main.pc # "down" /\ (todo["main"] # <<>> => Head(todo["main"]).file # "identity")
    BY Phases DEF Serving, Quiet
  <2>2. Storing => main.pc # "down"  BY DEF Storing
  <2>3. f = "identity" /\ t = "cli" => main.pc = "down" \/ (rotated /\ ~ Storing)
    BY <1>0, <1>2 DEF CliOK, Checked
  <2> QED  BY <1>1, <1>2, <2>1, <2>2, <2>3 DEF f
<1>8. IdentityOK'
  <2>1. Serving' = Serving /\ Storing' = Storing  BY <1>1 DEF Serving, Storing, Quiet
  <2>2. Storing /\ fd'["main"] = "closed" => fd["main"] = "closed" /\ f # "identity"
    BY <1>3, <1>7
  <2> QED  BY <1>0, <1>1, <1>3, <1>7, <2>1, <2>2 DEF IdentityOK
<1>9. BundleOK'
  <2>1. file'.bundle \in Bundles => file'.bundle = file.bundle  BY <1>3, Kinds
  <2> QED  BY <1>0, <1>1, <2>1 DEF BundleOK
<1>10. RestoringOK'
  <2> SUFFICES ASSUME cli = "restoring" PROVE RestoringOK'
    BY <1>1 DEF RestoringOK
  <2>1. t = "cli"  BY <1>a DEF Checked
  <2>2. f # "bundle"  BY <1>2, <2>1
  <2>3. CASE f = "identity"
    <3>1. Len(todo["cli"]) = 2  BY <1>2, <2>1, <2>3
    <3> QED  BY <1>0, <1>1, <1>3, <2>1, <2>2, <2>3, <3>1 DEF RestoringOK
  <2>4. CASE f # "identity"
    <3>1. f = "state"  BY <1>2, <2>2, <2>4
    <3> QED  BY <1>0, <1>1, <1>3, <2>1, <3>1 DEF RestoringOK
  <2> QED  BY <2>3, <2>4
<1>11. LoopOK'
  <2>1. /\ Own' = Own /\ (Clean("ctl"))' = Clean("ctl") /\ (Clean("main"))' = Clean("main")
        /\ file'.state \in {file.state, Torn}
    BY <1>1, <1>3 DEF Own, Clean
  <2> QED  BY <1>0, <1>1, <2>1 DEF LoopOK
<1>12. RestoredOK'
  <2> SUFFICES ASSUME after = "restore" PROVE RestoredOK'
    BY <1>1 DEF RestoredOK
  <2>1. f # "identity"
    <3>1. cli \in {"idle", "joining"} /\ (main.pc # "down" => ~ Storing)  BY <1>0 DEF RestoredOK
    <3>2. ~ Storing  BY <3>1 DEF Storing
    <3> QED  BY <1>2, <3>1, <3>2
  <2> QED  BY <1>0, <1>1, <1>3, <2>1 DEF RestoredOK, Opens, Storing
<1> QED  BY <1>4, <1>5, <1>6, <1>8, <1>9, <1>10, <1>11, <1>12 DEF DurableInv

(* fs::write fills the file that it has truncated.                         *)
LEMMA FillStepOK ==
  ASSUME DurableInv, NEW t \in Threads, Fill(t)
  PROVE  DurableInv'
<1> USE DEF Threads
<1>0. /\ FieldsOK /\ TodoOK /\ CliOK /\ OpenOK /\ IdentityOK
      /\ BundleOK /\ RestoringOK /\ LoopOK /\ RestoredOK
  BY DEF DurableInv
<1> DEFINE w == Head(todo[t])
           f == w.file
           c == w.content
           rest == Tail(todo[t])
<1>1. /\ todo[t] # <<>> /\ fd[t] # "closed"
      /\ \/ fd[t] = "gone" /\ file' = file
         \/ fd[t] = "open" /\ file' = [file EXCEPT ![f] = c]
         \/ /\ fd[t] = "open" /\ file[f] \notin {Torn, c}
            /\ file' = [file EXCEPT ![f] = Torn]
      /\ todo' = [todo EXCEPT ![t] = rest]
      /\ fd' = [fd EXCEPT ![t] = "closed"]
      /\ dirty' = (dirty \/ (main.pc = "wait" /\ f = "state"))
      /\ UNCHANGED <<main, ctl, cli, used, after, rotated>>
  BY DEF Fill, Quiet
<1>2. w \in StateWrites(Peers) \cup IdentityWrites \cup BundleWrites
  BY <1>0, <1>1 DEF TodoOK
<1>3. /\ f \in {"identity", "state", "bundle"}
      /\ f = "identity" => c \in Identities \cup {Torn}
      /\ f = "state" => c \in States
      /\ f = "bundle" => c \in Bundles
  BY <1>2 DEF StateWrites, IdentityWrites, BundleWrites, StatesOf
<1>4. /\ todo'[t] = rest /\ fd'[t] = "closed"
      /\ \A u \in Threads \ {t} : todo'[u] = todo[u] /\ fd'[u] = fd[u]
      /\ fd' \in [Threads -> {"closed", "open", "gone"}]
  BY <1>0, <1>1 DEF TodoOK, FieldsOK
<1>5. /\ rest \in Seq(StateWrites(Peers) \cup IdentityWrites \cup BundleWrites)
      /\ Len(rest) <= 1
      /\ todo' \in [Threads -> Seq(StateWrites(Peers) \cup IdentityWrites \cup BundleWrites)]
  <2>1. /\ todo[t] \in Seq(StateWrites(Peers) \cup IdentityWrites \cup BundleWrites)
        /\ Len(todo[t]) <= 2
    BY <1>0 DEF TodoOK
  <2>2. /\ rest \in Seq(StateWrites(Peers) \cup IdentityWrites \cup BundleWrites)
        /\ Len(rest) <= 1
    BY <1>1, <2>1
  <2> QED  BY <1>0, <1>1, <2>2 DEF TodoOK
<1>6. /\ f = "identity" => fd[t] = "open" /\ file.identity = Torn
      /\ t = "cli" /\ cli \in Checked => fd[t] = "open" /\ file[f] = Torn
  BY <1>0, <1>1 DEF OpenOK, FieldsOK
<1>a. ASSUME NEW K, todo[t] \in Seq(K) PROVE w \in K /\ rest \in Seq(K)
  BY <1>1, <1>a
<1>b. /\ t = "ctl" => f # "identity"
      /\ t = "main" => f = "state" \/ (f = "identity" /\ Storing)
      /\ t = "cli" => cli \in Writing /\ f # "bundle"
      /\ t = "cli" /\ cli = "initialising" => f = "identity"
      /\ f = "identity" /\ t = "cli" => cli \in {"initialising", "restoring"}
      /\ t # "cli" => main.pc \in Running
  BY <1>1, WhoWrites
<1> HIDE DEF w, rest
<1>7. /\ file' \in Files
      /\ file'.identity = IF f = "identity" THEN c ELSE file.identity
      /\ file'.state \in IF f = "state" THEN {file.state, Torn, c} ELSE {file.state}
      /\ file'.bundle \in IF f = "bundle" THEN {file.bundle, Torn, c} ELSE {file.bundle}
      /\ t = "cli" /\ cli \in Checked => file'[f] = c
  <2>1. file \in Files  BY <1>0 DEF FieldsOK
  <2> HIDE DEF f, c
  <2>2. CASE f = "identity"
    <3>1. file' = [file EXCEPT !.identity = c] /\ c \in Identities \cup {Torn}
      <4>1. file[f] = file.identity  BY <2>1, <2>2 DEF Files
      <4> QED  BY <1>1, <1>3, <1>6, <2>1, <2>2, <4>1 DEF Files
    <3> QED  BY <2>1, <2>2, <3>1 DEF Files
  <2>3. CASE f = "state"
    <3>1. file' \in {file, [file EXCEPT !.state = c], [file EXCEPT !.state = Torn]}
      BY <1>1, <2>1, <2>3 DEF Files
    <3>2. c \in States  BY <1>3, <2>3
    <3>3. t = "cli" /\ cli \in Checked => file' = [file EXCEPT !.state = c]
      <4>1. file[f] = file.state  BY <2>1, <2>3 DEF Files
      <4> QED  BY <1>1, <1>6, <2>1, <2>3, <4>1 DEF Files
    <3> QED  BY <2>1, <2>3, <3>1, <3>2, <3>3 DEF Files
  <2>4. CASE f = "bundle"
    <3>1. file' \in {file, [file EXCEPT !.bundle = c], [file EXCEPT !.bundle = Torn]}
      BY <1>1, <2>1, <2>4 DEF Files
    <3>2. c \in Bundles  BY <1>3, <2>4
    <3> QED  BY <1>b, <2>1, <2>4, <3>1, <3>2 DEF Files
  <2> QED  BY <1>3, <2>2, <2>3, <2>4
<1>8. FieldsOK'
  <2>1. dirty' \in BOOLEAN  BY <1>0, <1>1 DEF FieldsOK
  <2> QED  BY <1>0, <1>1, <1>4, <1>7, <2>1 DEF FieldsOK
<1>9. /\ t # "cli" => main.pc \notin {"down", "identity"} /\ cli \notin Checked
      /\ t = "ctl" => ~ Storing /\ ctl.pc = "idle"
      /\ f = "identity" /\ t = "cli" => main.pc = "down" \/ (rotated /\ ~ Storing)
  BY <1>0, <1>1, <1>b, Phases DEF TodoOK, CliOK, Checked
<1>10. ASSUME Storing, t = "main"
       PROVE  /\ f = "identity" /\ rest = <<>> /\ c = IdentityFile(main.key, main.pass)
  <2>1. todo[t] = <<NewIdentity>>  BY <1>0, <1>10 DEF TodoOK
  <2>2. w = NewIdentity /\ rest = <<>>  BY <2>1 DEF w, rest
  <2> QED  BY <2>2 DEF NewIdentity
<1>11. ASSUME ~ Storing, t = "main"
       PROVE  /\ main.pc \notin {"down", "identity", "init"}
              /\ w \in StateWrites(Peers) /\ rest \in Seq(StateWrites(Peers)) /\ f = "state"
  <2>1. main.pc \notin {"down", "identity", "init"}  BY <1>1, <1>9, <1>11 DEF Storing
  <2>2. w \in StateWrites(Peers) /\ rest \in Seq(StateWrites(Peers))
    BY <1>0, <1>11, <1>a, <2>1 DEF TodoOK
  <2> QED  BY <2>1, <2>2 DEF StateWrites
<1>12. Storing' => Storing /\ t = "cli" /\ f # "identity"
  <2>1. t = "main" => ~ (Storing')  BY <1>1, <1>4, <1>10, <1>11 DEF Storing
  <2>2. t # "main" => Storing' = Storing  BY <1>1, <1>4 DEF Storing
  <2>3. Storing => main.pc # "down"  BY DEF Storing
  <2> QED  BY <1>9, <2>1, <2>2, <2>3
<1>14. TodoOK'
  <2>1. t = "ctl" => rest \in Seq(StateWrites(Peers) \cup BundleWrites)
    BY <1>0, <1>a DEF TodoOK
  <2>3. \A u \in Threads : Len(todo'[u]) <= 2
    <3>1. Len(rest) \in Nat  BY <1>5
    <3> QED  BY <1>0, <1>4, <1>5, <3>1 DEF TodoOK
  <2>4. main.pc \notin {"down", "identity", "init"} => todo'["main"] \in Seq(StateWrites(Peers))
    <3>1. main.pc # "init" => ~ Storing  BY DEF Storing
    <3> QED  BY <1>0, <1>4, <1>11, <3>1 DEF TodoOK
  <2>5. todo'["ctl"] \in Seq(StateWrites(Peers) \cup BundleWrites)
    BY <1>0, <1>4, <2>1 DEF TodoOK
  <2>6. main.pc \in {"down", "identity"} => todo'["main"] = <<>> /\ todo'["ctl"] = <<>> /\ ctl = Idle
    BY <1>0, <1>4, <1>9 DEF TodoOK
  <2>7. ctl.pc # "idle" => todo'["ctl"] = <<>> /\ ctl.id # NoFile
    BY <1>0, <1>4, <1>9 DEF TodoOK
  <2>8. Storing' => /\ todo'["main"] = <<NewIdentity>> /\ main.key \in Keys
                    /\ todo'["ctl"] = <<>> /\ ctl = Idle
    BY <1>0, <1>4, <1>12 DEF TodoOK
  <2>9. main.pc # "down" => main.pass \in Passphrases  BY <1>0 DEF TodoOK
  <2>10. NewIdentity' = NewIdentity  BY <1>1 DEF NewIdentity
  <2> QED  BY <1>1, <1>5, <2>3, <2>4, <2>5, <2>6, <2>7, <2>8, <2>9, <2>10 DEF TodoOK
<1>13. CliOK'
  <2>1. CASE t # "cli"
    <3>1. todo'["cli"] = todo["cli"]  BY <1>4, <2>1
    <3> QED  BY <1>0, <1>1, <1>12, <2>1, <3>1 DEF CliOK
  <2>2. CASE t = "cli"
    <3>1. /\ cli = "migrating" => rest \in Seq(StateWrites(Peers))
          /\ cli = "initialising" => rest \in Seq(IdentityWrites)
          /\ cli = "joining" => rest \in Seq(StateWrites({Subject}))
          /\ cli = "reading" => rest \in Seq(StateWrites({Fixture}))
      BY <1>0, <1>a, <2>2 DEF CliOK
    <3>2. cli \notin {"idle", "restore", "migrate"}  BY <1>b, <2>2 DEF Writing
    <3>3. cli = "initialising" => ~ (Storing')  BY <1>0, <1>12 DEF CliOK
    <3> QED  BY <1>0, <1>1, <1>4, <2>2, <3>1, <3>2, <3>3 DEF CliOK
  <2> QED  BY <2>1, <2>2
<1>15. OpenOK'
  <2> SUFFICES ASSUME NEW u \in Threads PROVE
        /\ todo'[u] = <<>> => fd'[u] = "closed"
        /\ fd'[u] = "gone" => Head(todo'[u]).file = "state"
        /\ fd'[u] = "open" /\ Head(todo'[u]).file = "identity" => file'.identity = Torn
        /\ u = "cli" /\ cli \in Checked =>
             fd'[u] # "gone" /\ (fd'[u] = "open" => file'[Head(todo'[u]).file] = Torn)
    BY <1>1 DEF OpenOK
  <2>1. CASE u = t  BY <1>4, <2>1
  <2>2. CASE u # t
    <3>1. u = "cli" => cli \notin Checked  BY <1>9, <2>2
    <3>2. f = "identity" => fd[u] = "closed" \/ Head(todo[u]).file # "identity"
      <4> SUFFICES ASSUME f = "identity", todo[u] # <<>>, Head(todo[u]).file = "identity"
                   PROVE  FALSE
        BY <1>0 DEF OpenOK
      <4>1. /\ u = "main" => Storing /\ main.pc # "down"
            /\ u = "cli" => cli \in {"initialising", "restoring"}
            /\ u # "ctl"
        <5>1. Storing => main.pc # "down"  BY DEF Storing
        <5> QED  BY <5>1, WhoWrites
      <4>2. CASE t = "main"
        <5>1. u = "cli" /\ Storing  BY <1>11, <2>2, <4>1, <4>2
        <5> QED  BY <1>0, <1>9, <4>1, <4>2, <5>1 DEF CliOK, Checked
      <4>3. CASE t = "cli"  BY <1>9, <2>2, <4>1, <4>3
      <4> QED  BY <1>b, <4>2, <4>3
    <3>3. todo'[u] = todo[u] /\ fd'[u] = fd[u]  BY <1>4, <2>2
    <3>4. /\ todo[u] = <<>> => fd[u] = "closed"
          /\ fd[u] = "gone" => Head(todo[u]).file = "state"
          /\ fd[u] = "open" /\ Head(todo[u]).file = "identity" => file.identity = Torn
      BY <1>0 DEF OpenOK
    <3> QED  BY <1>7, <3>1, <3>2, <3>3, <3>4
  <2> QED  BY <2>1, <2>2
<1>16. IdentityOK'
  <2>1. ASSUME Serving', ~ rotated PROVE file'.identity = IdentityFile(main.key, main.pass)
    <3>1. main.pc \in Running /\ main.pc # "down"  BY <1>1, <2>1, Phases DEF Serving
    <3>2. CASE Storing /\ t = "main"  BY <1>7, <1>10, <3>2
    <3>3. CASE ~ Storing
      <4>1. todo["main"] # <<>> => Head(todo["main"]).file # "identity"
        BY <3>3, WhoWrites
      <4>2. Serving  BY <3>1, <4>1 DEF Serving, Quiet
      <4>3. f # "identity"  BY <1>9, <1>b, <2>1, <3>1, <3>3
      <4> QED  BY <1>0, <1>7, <2>1, <4>2, <4>3 DEF IdentityOK
    <3>4. CASE Storing /\ t # "main"
      <4>1. todo'["main"] = todo["main"] /\ todo["main"] = <<NewIdentity>>
        BY <1>0, <1>4, <3>4 DEF TodoOK
      <4>2. todo'["main"] # <<>> /\ Head(todo'["main"]).file = "identity"
        BY <4>1 DEF NewIdentity
      <4> QED  BY <2>1, <4>2 DEF Serving, Quiet
    <3> QED  BY <3>2, <3>3, <3>4
  <2>2. ASSUME Storing', fd'["main"] = "closed" PROVE ~ Opens(file'.identity, main.pass)
    <3>1. Storing /\ t = "cli" /\ f # "identity"  BY <1>12, <2>2
    <3>2. fd["main"] = "closed" /\ file'.identity = file.identity  BY <1>4, <1>7, <2>2, <3>1
    <3> QED  BY <1>0, <3>1, <3>2 DEF IdentityOK
  <2> QED  BY <1>1, <2>1, <2>2 DEF IdentityOK
<1>17. BundleOK'
  <2> SUFFICES ASSUME ~ rotated PROVE BundleOK'
    BY <1>1 DEF BundleOK
  <2>1. /\ file.bundle \in Bundles => file.bundle.id \in Identities
        /\ ctl.pc # "idle" => ctl.id \in Identities
        /\ todo["ctl"] \in Seq(StateWrites(Peers) \cup WholeWrites)
    BY <1>0 DEF BundleOK
  <2>2. t = "ctl" => /\ w \in StateWrites(Peers) \cup WholeWrites
                     /\ rest \in Seq(StateWrites(Peers) \cup WholeWrites)
    BY <1>a, <2>1
  <2>3. f = "bundle" => c \in Bundles /\ c.id \in Identities
    <3>1. f = "bundle" => t = "ctl"  BY <1>b
    <3> QED  BY <2>2, <3>1 DEF StateWrites, WholeWrites
  <2>4. file'.bundle \in Bundles => file'.bundle.id \in Identities
    BY <1>7, <2>1, <2>3, Kinds
  <2>5. todo'["ctl"] \in Seq(StateWrites(Peers) \cup WholeWrites)  BY <1>4, <2>1, <2>2
  <2> QED  BY <1>1, <2>1, <2>4, <2>5 DEF BundleOK
<1>18. RestoringOK'
  <2> SUFFICES ASSUME cli = "restoring" PROVE RestoringOK'
    BY <1>1 DEF RestoringOK
  <2>1. t = "cli" /\ cli \in Checked  BY <1>9 DEF Checked
  <2> DEFINE iw == [file |-> "identity", content |-> file.bundle.id]
             sw == [file |-> "state", content |-> file.bundle.st]
  <2>2. CASE todo[t] = <<iw, sw>>
    <3>1. w = iw /\ rest = <<sw>>  BY <2>2 DEF w, rest
    <3>2. f = "identity" /\ c = file.bundle.id  BY <3>1
    <3>3. file'.bundle = file.bundle /\ file'.identity = file.bundle.id  BY <1>7, <3>2
    <3> QED  BY <1>0, <1>4, <2>1, <3>1, <3>3 DEF RestoringOK
  <2>3. CASE todo[t] = <<sw>> /\ file.identity = file.bundle.id
    <3>1. w = sw /\ rest = <<>>  BY <2>3 DEF w, rest
    <3>2. f = "state" /\ c = file.bundle.st  BY <3>1
    <3>3. file'.bundle = file.bundle /\ file'.identity = file.bundle.id  BY <1>7, <2>3, <3>2
    <3>4. file'.state = file.bundle.st
      <4>1. file'[f] = c  BY <1>7, <2>1
      <4> QED  BY <1>7, <3>2, <4>1 DEF Files
    <3> QED  BY <1>0, <1>4, <2>1, <3>1, <3>3, <3>4 DEF RestoringOK
  <2> QED  BY <1>0, <1>1, <2>1, <2>2, <2>3 DEF RestoringOK
<1>19. LoopOK'
  <2> SUFFICES ASSUME main.pc \in Loop, ~ main.straddled PROVE LoopOK'
    BY <1>1 DEF LoopOK
  <2>1. Own' = Own /\ main.pc # "down"  BY <1>1, Phases DEF Own
  <2>2. Clean("ctl") /\ Clean("main") /\ file.state \in StatesOf(Own) \cup {NoFile, Torn}
    BY <1>0 DEF LoopOK
  <2>3. ASSUME Clean(t) PROVE Clean(t)' /\ (f = "state" => c \in StatesOf(Own))
    <3>1. /\ w \in StateWrites(Own) \cup IdentityWrites \cup BundleWrites
          /\ rest \in Seq(StateWrites(Own) \cup IdentityWrites \cup BundleWrites)
      BY <1>a, <2>3 DEF Clean
    <3>2. f = "state" => c \in StatesOf(Own)
      BY <3>1 DEF StateWrites, IdentityWrites, BundleWrites
    <3> QED  BY <1>4, <2>1, <3>1, <3>2 DEF Clean
  <2>4. ASSUME NEW u \in Threads \ {t} PROVE Clean(u)' <=> Clean(u)
    BY <1>4, <2>1 DEF Clean
  <2>5. Clean("ctl")' /\ Clean("main")'  BY <2>2, <2>3, <2>4
  <2>6. f = "state" => c \in StatesOf(Own)
    <3>1. CASE t # "cli"  BY <2>2, <2>3, <3>1
    <3>2. CASE t = "cli"
      <4>1. cli \in {"joining", "reading"} \/ f = "identity"
        BY <1>0, <1>b, <2>1, <3>2 DEF CliOK, Checked, Writing
      <4>2. cli = "joining" => w \in StateWrites({Subject})  BY <1>0, <1>a, <3>2 DEF CliOK
      <4>3. cli = "reading" => w \in StateWrites({Fixture})  BY <1>0, <1>a, <3>2 DEF CliOK
      <4> QED  BY <4>1, <4>2, <4>3 DEF StateWrites, StatesOf, Own
    <3> QED  BY <3>1, <3>2
  <2>7. file'.state \in StatesOf(Own) \cup {NoFile, Torn}
    BY <1>7, <2>2, <2>6
  <2> QED  BY <2>1, <2>5, <2>7 DEF LoopOK
<1>20. RestoredOK'
  <2> SUFFICES ASSUME after = "restore" PROVE RestoredOK'
    BY <1>1 DEF RestoredOK
  <2> DEFINE own == {file.identity.key}
  <2>1. /\ cli \in {"idle", "joining"} /\ ~ Storing /\ ~ (Storing')
        /\ cli = "joining" => Subject = file.identity.key
        /\ todo["main"] \in Seq(StateWrites(own))
        /\ todo["ctl"] \in Seq(StateWrites(own) \cup BundleWrites)
    <3>1. main.pc # "down" => ~ Storing  BY <1>0 DEF RestoredOK
    <3>2. ~ Storing  BY <3>1 DEF Storing
    <3> QED  BY <1>0, <1>12, <3>2 DEF RestoredOK
  <2>2. f # "identity" /\ (f = "state" => c \in StatesOf(own))
    <3>1. t = "main" => w \in StateWrites(own)  BY <1>a, <2>1
    <3>2. t = "ctl" => w \in StateWrites(own) \cup BundleWrites  BY <1>a, <2>1
    <3>3. t = "cli" => w \in StateWrites(own)
      <4>1. t = "cli" => cli = "joining"  BY <1>b, <2>1 DEF Writing
      <4> QED  BY <1>0, <1>a, <2>1, <4>1 DEF CliOK
    <3> QED  BY <3>1, <3>2, <3>3 DEF StateWrites, BundleWrites
  <2>3. file'.identity = file.identity /\ file'.state \in StatesOf(own) \cup {Torn}
    BY <1>0, <1>7, <2>2 DEF RestoredOK
  <2>4. todo'["main"] \in Seq(StateWrites(own)) /\ todo'["ctl"] \in Seq(StateWrites(own) \cup BundleWrites)
    BY <1>4, <1>a, <2>1
  <2> QED  BY <1>0, <1>1, <2>1, <2>3, <2>4 DEF RestoredOK, Opens
<1> QED  BY <1>8, <1>13, <1>14, <1>15, <1>16, <1>17, <1>18, <1>19, <1>20 DEF DurableInv


-----------------------------------------------------------------------------
(* The main thread.                                                        *)

(* Contents that may be written over the present state.json: they are of   *)
(* the peer whose state it holds, or of one the node may belong to.        *)
Fitting(cs) ==
  \E s \in Peers :
    /\ Writes("state", cs) \in Seq(StateWrites({s})) /\ Len(Writes("state", cs)) <= 2
    /\ file.state \in StatesOf({s}) \/ (file.state = NoFile /\ s \in Own)

Advance(cs, pc) ==
  /\ todo' = [todo EXCEPT !["main"] = Writes("state", cs)] /\ dirty' = FALSE
  /\ main' = [main EXCEPT !.pc = pc,
                          !.straddled = IF pc = "cycle" THEN ~ Quiet("ctl") ELSE @]
  /\ UNCHANGED <<file, fd, ctl, cli, used, after, rotated>>

LEMMA OwnPeers ==
  ASSUME FieldsOK
  PROVE  Own \subseteq Peers
BY DurableAssumption DEF FieldsOK, Mains, Own, Peers

LEMMA EnsuredFits ==
  ASSUME FieldsOK, Readable, NEW k \in Own, NEW n \in 0 .. 1
  PROVE  Fitting(Ensured(k, n))
<1>1. k \in Peers  BY OwnPeers
<1>2. PICK s \in Peers :
           /\ Writes("state", Ensured(k, n)) \in Seq(StateWrites({s}))
           /\ Len(Writes("state", Ensured(k, n))) <= 2
           /\ IF Missing THEN s = k ELSE file.state \in StatesOf({s})
  BY <1>1, EnsuredWrites
<1> QED  BY <1>2 DEF Fitting, Missing

LEMMA SyncedFits ==
  ASSUME FieldsOK, Syncable
  PROVE  Fitting(Synced)
<1>1. Subject \in Peers /\ Subject \in Own  BY DurableAssumption DEF Peers, Own
<1> QED  BY <1>1, SyncedWrites DEF Fitting, Missing

LEMMA RefreshedFits ==
  ASSUME FieldsOK, Refreshable
  PROVE  Fitting(Refreshed)
<1>1. CASE main.mode = "sync"  BY <1>1, SyncedFits DEF Refreshable, Refreshed
<1>2. CASE main.mode # "sync"
  <2>1. main.key \in Own  BY DEF Own
  <2> QED  BY <1>2, <2>1, EnsuredFits DEF Refreshable, Refreshed
<1> QED  BY <1>1, <1>2

LEMMA AdvanceOK ==
  ASSUME DurableInv, main.pc \in Running, Quiet("main"), NEW cs, Fitting(cs),
         NEW pc \in {"revoke", "bind", "cycle", "work", "baseline"}, Advance(cs, pc),
         pc \in {"work", "baseline"} => main.pc \in Loop,
         pc = "cycle" => file.state \in StatesOf({main.key}) \cup {NoFile}
  PROVE  DurableInv'
<1>1. PICK s \in Peers :
        /\ Writes("state", cs) \in Seq(StateWrites({s})) /\ Len(Writes("state", cs)) <= 2
        /\ file.state \in StatesOf({s}) \/ (file.state = NoFile /\ s \in Own)
  BY DEF Fitting
<1> DEFINE w == Writes("state", cs)
<1>2. w \in Seq(StateWrites({s})) /\ Len(w) <= 2 /\ todo' = [todo EXCEPT !["main"] = w]
  BY <1>1 DEF Advance
<1>3. /\ main' = [main EXCEPT !.pc = pc,
                              !.straddled = IF pc = "cycle" THEN ~ Quiet("ctl") ELSE @]
      /\ dirty' = FALSE /\ UNCHANGED <<file, fd, ctl, cli, used, after, rotated>>
  BY DEF Advance
<1>4. pc = "cycle" => s \in Own
  BY <1>1, Kinds DEF StatesOf, Own
<1> HIDE DEF w
<1> QED  BY <1>1, <1>2, <1>3, <1>4, MainWrites

(* A step that fails ends the daemon.                                      *)
LEMMA ProceedCases ==
  ASSUME DurableInv, NEW ok, NEW cs, NEW pc, Proceed(ok, cs, pc)
  PROVE  (ok /\ Advance(cs, pc)) \/ DurableInv'
<1>1. (ok /\ Advance(cs, pc)) \/ Exit("failed")  BY DEF Proceed, Advance
<1> QED  BY <1>1, ExitOK

LEMMA StartOK ==
  ASSUME DurableInv, NEW mode \in Modes, NEW p \in Passphrases, Start(mode, p)
  PROVE  DurableInv'
<1> USE DEF Threads
<1>0. /\ FieldsOK /\ TodoOK /\ CliOK /\ OpenOK /\ IdentityOK
      /\ BundleOK /\ RestoringOK /\ LoopOK /\ RestoredOK
  BY DEF DurableInv
<1>1. /\ main.pc = "down" /\ cli \in {"idle", "joining", "reading"}
      /\ main' = [Down("none") EXCEPT !.pc = "identity", !.mode = mode, !.pass = p]
      /\ after' = IF /\ Opens(file.identity, p)
                     /\ \/ mode = "alone" \/ Subject = file.identity.key
                        \/ mode = "sync" /\ after = "restore"
                    THEN after ELSE "none"
      /\ UNCHANGED <<file, todo, fd, ctl, cli, dirty, used, rotated>>
  BY DEF Start
<1>2. /\ main'.pc = "identity" /\ main'.key = Fixture /\ main'.mode = mode /\ main'.pass = p
      /\ main' \in Mains
  BY <1>1, DurableAssumption DEF Down, Mains, Peers
<1>4. FieldsOK'  BY <1>0, <1>1, <1>2 DEF FieldsOK
<1>5. ~ Storing /\ ~ (Storing') /\ ~ (Serving')  BY <1>1, <1>2, Phases DEF Storing, Serving
<1>6. TodoOK'  BY <1>0, <1>1, <1>2, <1>5 DEF TodoOK
<1>7. CliOK'  BY <1>0, <1>1 DEF CliOK, Checked
<1>8. OpenOK'  BY <1>0, <1>1 DEF OpenOK
<1>9. IdentityOK'  BY <1>5 DEF IdentityOK
<1>10. BundleOK' /\ RestoringOK'  BY <1>0, <1>1 DEF BundleOK, RestoringOK
<1>11. LoopOK'  BY <1>2, Phases DEF LoopOK
<1>12. RestoredOK'
  <2> SUFFICES ASSUME after' = "restore" PROVE RestoredOK'
    BY DEF RestoredOK
  <2>1. /\ after = "restore" /\ Opens(file.identity, p)
        /\ mode = "seed" => Subject = file.identity.key
    BY <1>1
  <2> QED  BY <1>0, <1>1, <1>2, <1>5, <2>1 DEF RestoredOK
<1> QED  BY <1>4, <1>6, <1>7, <1>8, <1>9, <1>10, <1>11, <1>12 DEF DurableInv

LEMMA LoadOrInitIdentityOK ==
  ASSUME DurableInv, LoadOrInitIdentity
  PROVE  DurableInv'
<1> USE DEF Threads
<1>0. /\ FieldsOK /\ TodoOK /\ CliOK /\ OpenOK /\ IdentityOK
      /\ BundleOK /\ RestoringOK /\ LoopOK /\ RestoredOK
  BY DEF DurableInv
<1>1. main.pc = "identity" /\ UNCHANGED <<file, fd, ctl, cli, dirty, after, rotated>>
  BY DEF LoadOrInitIdentity
<1>2. /\ todo["main"] = <<>> /\ todo["ctl"] = <<>> /\ ctl = Idle
      /\ cli \notin Checked /\ cli # "initialising"
      /\ main.pass \in Passphrases /\ fd["main"] = "closed"
  BY <1>0, <1>1 DEF TodoOK, CliOK, OpenOK
<1>3. CASE /\ Opens(file.identity, main.pass) /\ UNCHANGED <<todo, used>>
           /\ main' = [main EXCEPT !.pc = "init", !.key = file.identity.key]
  <2>1. file.identity \in Identities
    BY <1>0, <1>3, Kinds DEF FieldsOK, Files, Opens
  <2>2. file.identity.key \in Keys /\ file.identity = IdentityFile(file.identity.key, main.pass)
    BY <1>3, <2>1, Kinds DEF Opens
  <2>3. /\ main'.pc = "init" /\ main'.key = file.identity.key /\ main'.mode = main.mode
        /\ main'.pass = main.pass /\ main' \in Mains
    BY <1>0, <1>3, <2>2, Phases DEF FieldsOK, Mains, Peers
  <2>4. FieldsOK'  BY <1>0, <1>1, <1>3, <2>3 DEF FieldsOK
  <2>5. ~ (Storing')  BY <1>2, <1>3 DEF Storing
  <2>6. TodoOK'  BY <1>0, <1>1, <1>2, <1>3, <2>3, <2>5 DEF TodoOK
  <2>7. CliOK'  BY <1>0, <1>1, <1>2, <1>3 DEF CliOK
  <2>8. OpenOK'  BY <1>0, <1>1, <1>3 DEF OpenOK
  <2>9. IdentityOK'  BY <1>1, <2>2, <2>3, <2>5 DEF IdentityOK
  <2>10. BundleOK' /\ RestoringOK'  BY <1>0, <1>1, <1>3 DEF BundleOK, RestoringOK
  <2>11. LoopOK'  BY <2>3, Phases DEF LoopOK
  <2>12. RestoredOK'  BY <1>0, <1>1, <1>2, <1>3, <2>3, <2>5 DEF RestoredOK
  <2> QED  BY <2>4, <2>6, <2>7, <2>8, <2>9, <2>10, <2>11, <2>12 DEF DurableInv
<1>4. ASSUME ~ Opens(file.identity, main.pass), NEW k \in Keys,
             main' = [main EXCEPT !.pc = "init", !.key = k],
             todo' = [todo EXCEPT !["main"] = Writes("identity", <<IdentityFile(k, main.pass)>>)],
             used' = used \cup {k}
      PROVE  DurableInv'
  <2> DEFINE x == [file |-> "identity", content |-> IdentityFile(k, main.pass)]
  <2>1. x \in IdentityWrites  BY <1>2, Built DEF IdentityWrites
  <2>2. todo' = [todo EXCEPT !["main"] = <<x>>]  BY <1>4, OneWrite
  <2>3. x.file = "identity"  OBVIOUS
  <2>4. /\ main'.pc = "init" /\ main'.key = k /\ main'.mode = main.mode /\ main'.pass = main.pass
        /\ main' \in Mains
    BY <1>0, <1>4, Phases DEF FieldsOK, Mains, Peers
  <2>5. NewIdentity' = x  BY <2>4 DEF NewIdentity
  <2> HIDE DEF x
  <2>6. FieldsOK'  BY <1>0, <1>1, <1>4, <2>4 DEF FieldsOK
  <2> DEFINE W == <<x>>
  <2>7. /\ W \in Seq(StateWrites(Peers) \cup IdentityWrites \cup BundleWrites) /\ Len(W) <= 2
        /\ W # <<>> /\ Head(W) = x
    BY <2>1
  <2>8. todo' = [todo EXCEPT !["main"] = W]  BY <2>2
  <2> HIDE DEF W
  <2>9. /\ todo'["main"] = W /\ todo'["ctl"] = <<>> /\ todo'["cli"] = todo["cli"]
        /\ todo' \in [Threads -> Seq(StateWrites(Peers) \cup IdentityWrites \cup BundleWrites)]
    BY <1>0, <1>2, <2>7, <2>8 DEF TodoOK
  <2>10. Storing' /\ ~ (Serving')
    BY <2>3, <2>4, <2>7, <2>9 DEF Storing, Serving, Quiet
  <2>11. todo'["main"] = <<NewIdentity'>>  BY <2>5, <2>9 DEF W
  <2>12. TodoOK'
    <3>1. \A t \in Threads : Len(todo'[t]) <= 2  BY <1>0, <2>7, <2>9, Empty DEF TodoOK
    <3>2. todo'["ctl"] \in Seq(StateWrites(Peers) \cup BundleWrites)  BY <2>9, Empty
    <3>3. ctl'.pc = "idle" /\ ctl' = Idle  BY <1>1, <1>2 DEF Idle
    <3> QED  BY <1>2, <1>4, <2>4, <2>9, <2>10, <2>11, <3>1, <3>2, <3>3 DEF TodoOK
  <2>13. CliOK'  BY <1>0, <1>1, <1>2, <2>9 DEF CliOK
  <2>14. OpenOK'
    <3>1. fd'["main"] = "closed" /\ fd'["ctl"] = "closed" /\ fd'["cli"] = fd["cli"]
      BY <1>0, <1>1, <1>2 DEF OpenOK
    <3> QED  BY <1>0, <1>1, <1>2, <2>9, <3>1 DEF OpenOK
  <2>15. IdentityOK'  BY <1>1, <1>4, <2>4, <2>10 DEF IdentityOK, Opens
  <2>16. BundleOK'
    BY <1>0, <1>1, <2>9, Empty DEF BundleOK
  <2>17. RestoringOK'  BY <1>1, <1>2 DEF RestoringOK, Checked
  <2>18. LoopOK'  BY <2>4, Phases DEF LoopOK
  <2>19. RestoredOK'  BY <1>0, <1>1, <1>4 DEF RestoredOK
  <2> QED  BY <2>6, <2>12, <2>13, <2>14, <2>15, <2>16, <2>17, <2>18, <2>19 DEF DurableInv
<1> QED  BY <1>3, <1>4 DEF LoadOrInitIdentity

LEMMA InitializeStateOK ==
  ASSUME DurableInv, InitializeState
  PROVE  DurableInv'
<1>0. FieldsOK  BY DEF DurableInv
<1>1. main.pc = "init" /\ Quiet("main") /\ main.pc \in Running
  BY Phases DEF InitializeState
<1> DEFINE ok == main.mode = "seed" \/ Refreshable
           cs == IF main.mode = "seed" THEN <<BoundTo(Subject)>> ELSE Refreshed
<1>2. PICK pc \in {"revoke", "bind"} : Proceed(ok, cs, pc)  BY DEF InitializeState
<1>3. CASE main.mode = "seed" /\ Advance(cs, pc)
  <2>1. Subject \in Peers /\ BoundTo(Subject) \in StatesOf({Subject})
    BY DurableAssumption, Built DEF Peers
  <2>2. cs = <<BoundTo(Subject)>>  BY <1>3
  <2>3. Writes("state", cs) \in Seq(StateWrites({Subject})) /\ Len(Writes("state", cs)) <= 2
    BY <2>1, <2>2, OneStateWrite
  <2> HIDE DEF cs
  <2> DEFINE w == Writes("state", cs)
  <2>4. w \in Seq(StateWrites({Subject})) /\ Len(w) <= 2 /\ todo' = [todo EXCEPT !["main"] = w]
    BY <1>3, <2>3 DEF Advance
  <2>5. /\ main' = [main EXCEPT !.pc = pc,
                                !.straddled = IF pc = "cycle" THEN ~ Quiet("ctl") ELSE @]
        /\ dirty' = FALSE /\ UNCHANGED <<file, fd, ctl, cli, used, after, rotated>>
    BY <1>3 DEF Advance
  <2> HIDE DEF w
  <2> QED  BY <1>1, <1>3, <2>1, <2>4, <2>5, MainWrites
<1>4. CASE main.mode # "seed" /\ Refreshable /\ Advance(cs, pc)
  <2>1. Fitting(cs)  BY <1>0, <1>4, RefreshedFits
  <2> HIDE DEF cs
  <2> QED  BY <1>1, <1>4, <2>1, AdvanceOK
<1>5. (ok /\ Advance(cs, pc)) \/ DurableInv'
  <2> HIDE DEF ok, cs
  <2> QED  BY <1>2, ProceedCases
<1> QED  BY <1>3, <1>4, <1>5

LEMMA SyncRevocationsOK ==
  ASSUME DurableInv, SyncRevocations
  PROVE  DurableInv'
<1>0. FieldsOK  BY DEF DurableInv
<1>1. main.pc \in Running /\ Quiet("main")  BY Phases DEF SyncRevocations
<1>2. CASE Readable /\ Advance(Ensured(Fixture, 1), "bind")
  <2>1. Fitting(Ensured(Fixture, 1))  BY <1>0, <1>2, EnsuredFits DEF Own
  <2> QED  BY <1>1, <1>2, <2>1, AdvanceOK
<1> QED  BY <1>2, ProceedCases DEF SyncRevocations

LEMMA EnsureIdentityBoundOK ==
  ASSUME DurableInv, EnsureIdentityBound
  PROVE  DurableInv'
<1>0. FieldsOK  BY DEF DurableInv
<1>1. main.pc \in Running /\ Quiet("main")  BY Phases DEF EnsureIdentityBound
<1>2. CASE Readable /\ ~ Missing /\ file.state.subject # main.key
  BY <1>2, ExitOK DEF EnsureIdentityBound
<1>3. CASE ~ (Readable /\ ~ Missing /\ file.state.subject # main.key)
  <2>1. Proceed(Readable, Ensured(main.key, 0), "cycle")  BY <1>3 DEF EnsureIdentityBound
  <2>2. CASE Readable /\ Advance(Ensured(main.key, 0), "cycle")
    <3>1. Fitting(Ensured(main.key, 0))  BY <1>0, <2>2, EnsuredFits DEF Own
    <3>2. file.state \in StatesOf({main.key}) \cup {NoFile}
      BY <1>0, <1>3, <2>2, Kinds DEF Readable, Missing, Valid, FieldsOK, Files, StatesOf
    <3> QED  BY <1>1, <2>2, <3>1, <3>2, AdvanceOK
  <2> QED  BY <2>1, <2>2, ProceedCases
<1> QED  BY <1>2, <1>3

LEMMA PrepareOK ==
  ASSUME DurableInv, NEW trigger \in Triggers, Prepare(trigger)
  PROVE  DurableInv'
<1>0. FieldsOK  BY DEF DurableInv
<1>1. main.pc \in Loop /\ main.pc \in Running /\ Quiet("main")
  BY DEF Prepare, Triggers, Loop, Running
<1>2. ASSUME NEW cs, Fitting(cs), Advance(cs, "work") PROVE DurableInv'
  BY <1>1, <1>2, AdvanceOK
<1>3. Fixture \in Own  BY DEF Own
<1>4. CASE trigger \in {"Startup", "IntervalElapsed"}
  <2>1. Proceed(Refreshable, Refreshed, "work")  BY <1>4 DEF Prepare
  <2> QED  BY <1>0, <1>2, <2>1, ProceedCases, RefreshedFits
<1>5. CASE trigger = "NetworkChangeRequested"
  <2>1. Proceed(Readable, Ensured(Fixture, 1), "work")  BY <1>5 DEF Prepare
  <2> QED  BY <1>0, <1>2, <1>3, <2>1, ProceedCases, EnsuredFits
<1>6. CASE trigger = "StateChanged"
  <2>1. Proceed(Readable, Ensured(Fixture, 0), "work")  BY <1>6 DEF Prepare
  <2> QED  BY <1>0, <1>2, <1>3, <2>1, ProceedCases, EnsuredFits
<1>7. CASE trigger = "AuthoritySnapshotChanged"
  <2>1. Proceed(Syncable, Synced, "work")  BY <1>7 DEF Prepare
  <2> QED  BY <1>0, <1>2, <2>1, ProceedCases, SyncedFits
<1> QED  BY <1>4, <1>5, <1>6, <1>7 DEF Triggers

LEMMA WorkOK ==
  ASSUME DurableInv, Work
  PROVE  DurableInv'
<1>0. FieldsOK  BY DEF DurableInv
<1>1. main.pc \in Loop /\ main.pc \in Running /\ Quiet("main")  BY DEF Work, Loop, Running
<1>2. PICK n \in 0 .. 1, pc \in {"work", "baseline"} : Proceed(Readable, Ensured(Fixture, n), pc)
  BY DEF Work
<1>3. CASE Readable /\ Advance(Ensured(Fixture, n), pc)
  <2>1. Fitting(Ensured(Fixture, n))  BY <1>0, <1>3, EnsuredFits DEF Own
  <2> QED  BY <1>1, <1>3, <2>1, AdvanceOK
<1> QED  BY <1>2, <1>3, ProceedCases

LEMMA RefreshBaselineOK ==
  ASSUME DurableInv, RefreshBaseline
  PROVE  DurableInv'
<1> USE DEF Threads
<1>0. /\ FieldsOK /\ TodoOK /\ CliOK /\ OpenOK /\ IdentityOK
      /\ BundleOK /\ RestoringOK /\ LoopOK /\ RestoredOK
  BY DEF DurableInv
<1>1. /\ main.pc = "baseline" /\ main' = [main EXCEPT !.pc = "wait"]
      /\ UNCHANGED <<file, todo, fd, ctl, cli, dirty, used, after, rotated>>
  BY DEF RefreshBaseline
<1>2. /\ main'.pc = "wait" /\ main'.key = main.key /\ main'.mode = main.mode
      /\ main'.pass = main.pass /\ main'.straddled = main.straddled /\ main' \in Mains
      /\ main.pc \in Loop /\ main.pc \in Running
  BY <1>0, <1>1 DEF FieldsOK, Mains, Running, Loop
<1>3. FieldsOK'  BY <1>0, <1>1, <1>2 DEF FieldsOK
<1>4. ~ Storing /\ ~ (Storing')  BY <1>1, <1>2 DEF Storing
<1>5. TodoOK'  BY <1>0, <1>1, <1>2, <1>4 DEF TodoOK
<1>6. CliOK'  BY <1>0, <1>1, <1>2, <1>4 DEF CliOK
<1>7. OpenOK'  BY <1>0, <1>1 DEF OpenOK
<1>8. IdentityOK'
  <2>1. Serving' => Serving  BY <1>1, <1>2 DEF Serving, Quiet
  <2> QED  BY <1>0, <1>1, <1>2, <1>4, <2>1 DEF IdentityOK
<1>9. BundleOK' /\ RestoringOK'  BY <1>0, <1>1 DEF BundleOK, RestoringOK
<1>10. LoopOK'
  <2>1. Own' = Own /\ Clean("ctl")' = Clean("ctl") /\ Clean("main")' = Clean("main")
    BY <1>1, <1>2 DEF Own, Clean
  <2> QED  BY <1>0, <1>1, <1>2, <2>1 DEF LoopOK
<1>11. RestoredOK'  BY <1>0, <1>1, <1>2, <1>4 DEF RestoredOK
<1> QED  BY <1>3, <1>5, <1>6, <1>7, <1>8, <1>9, <1>10, <1>11 DEF DurableInv

-----------------------------------------------------------------------------
(* The control server.                                                     *)

LEMMA FittingRequest ==
  ASSUME DurableInv, CtlIdle, NEW cs, Fitting(cs),
         todo' = [todo EXCEPT !["ctl"] = Writes("state", cs)],
         UNCHANGED <<file, fd, main, ctl, cli, dirty, used, after, rotated>>
  PROVE  DurableInv'
<1>1. PICK s \in Peers :
        /\ Writes("state", cs) \in Seq(StateWrites({s})) /\ Len(Writes("state", cs)) <= 2
        /\ file.state \in StatesOf({s}) \/ (file.state = NoFile /\ s \in Own)
  BY DEF Fitting
<1> DEFINE w == Writes("state", cs)
<1>2. w \in Seq(StateWrites({s})) /\ Len(w) <= 2 /\ todo' = [todo EXCEPT !["ctl"] = w]
  BY <1>1
<1> HIDE DEF w
<1> QED  BY <1>1, <1>2, CtlWrites

LEMMA RequestOK ==
  ASSUME DurableInv, NEW k \in {Fixture, main.key}, NEW n \in 0 .. 1, Request(k, n)
  PROVE  DurableInv'
<1>1. FieldsOK /\ Readable /\ CtlIdle /\ k \in Own  BY DEF DurableInv, Request, Own
<1>2. Fitting(Ensured(k, n))  BY <1>1, EnsuredFits
<1> QED  BY <1>1, <1>2, FittingRequest DEF Request

LEMMA AuthoritySyncOK ==
  ASSUME DurableInv, AuthoritySync
  PROVE  DurableInv'
<1>1. FieldsOK /\ Syncable /\ CtlIdle  BY DEF DurableInv, AuthoritySync
<1>2. Fitting(Synced)  BY <1>1, SyncedFits
<1> QED  BY <1>1, <1>2, FittingRequest DEF AuthoritySync

(* What the control server relies on when it takes a request.              *)
LEMMA ServingFacts ==
  ASSUME DurableInv, CtlIdle
  PROVE  /\ Serving /\ main.pc \in Running /\ ctl.pc = "idle" /\ todo["ctl"] = <<>>
         /\ fd["ctl"] = "closed" /\ cli \notin Checked /\ ~ Storing
<1> USE DEF Threads
<1>0. TodoOK /\ CliOK /\ OpenOK  BY DEF DurableInv
<1>1. Serving /\ main.pc \in Running /\ ctl.pc = "idle" /\ todo["ctl"] = <<>>
  BY DEF CtlIdle, Serving, Quiet
<1>2. cli \notin Checked /\ fd["ctl"] = "closed"
  BY <1>0, <1>1, Phases DEF CliOK, OpenOK
<1>3. Storing => Head(todo["main"]).file = "identity"
  BY <1>0 DEF TodoOK, NewIdentity
<1>4. ~ Storing  BY <1>1, <1>3 DEF Serving, Quiet, Storing
<1> QED  BY <1>1, <1>2, <1>4

LEMMA StateResetOK ==
  ASSUME DurableInv, StateReset
  PROVE  DurableInv'
<1> USE DEF Threads
<1>0. /\ FieldsOK /\ TodoOK /\ CliOK /\ OpenOK /\ IdentityOK
      /\ BundleOK /\ RestoringOK /\ LoopOK /\ RestoredOK
  BY DEF DurableInv
<1>1. /\ file' = [file EXCEPT !.state = NoFile]
      /\ fd' = [t \in Threads |-> IF fd[t] = "open" /\ Head(todo[t]).file = "state"
                                    THEN "gone" ELSE fd[t]]
      /\ dirty' = (dirty \/ main.pc = "wait") /\ after' \in {"none", "reset"}
      /\ UNCHANGED <<todo, main, ctl, cli, used, rotated>> /\ CtlIdle
  BY DEF StateReset
<1>2. /\ main.pc \in Running /\ ctl.pc = "idle" /\ todo["ctl"] = <<>>
      /\ cli \notin Checked /\ ~ Storing
  BY <1>1, ServingFacts
<1>3. /\ file'.identity = file.identity /\ file'.bundle = file.bundle /\ file'.state = NoFile
      /\ file' \in Files
  BY <1>0, <1>1 DEF FieldsOK, Files
<1>4. /\ fd' \in [Threads -> {"closed", "open", "gone"}]
      /\ \A t \in Threads : /\ fd[t] = "closed" => fd'[t] = "closed"
                            /\ fd'[t] = "gone" => Head(todo[t]).file = "state"
                            /\ fd'[t] = "open" => fd[t] = "open"
  BY <1>0, <1>1 DEF FieldsOK, OpenOK
<1>5. FieldsOK'
  <2>1. dirty' \in BOOLEAN  BY <1>0, <1>1 DEF FieldsOK
  <2> QED  BY <1>0, <1>1, <1>3, <1>4, <2>1 DEF FieldsOK
<1>6. ~ (Storing')  BY <1>1, <1>2 DEF Storing
<1>7. TodoOK'  BY <1>0, <1>1, <1>2, <1>6 DEF TodoOK
<1>8. CliOK'  BY <1>0, <1>1, <1>6 DEF CliOK
<1>9. OpenOK'  BY <1>0, <1>1, <1>2, <1>3, <1>4 DEF OpenOK
<1>10. IdentityOK'
  <2>1. Serving' = Serving  BY <1>1 DEF Serving, Quiet
  <2> QED  BY <1>0, <1>1, <1>3, <1>6, <2>1 DEF IdentityOK
<1>11. BundleOK' /\ RestoringOK'
  BY <1>0, <1>1, <1>2, <1>3 DEF BundleOK, RestoringOK, Checked
<1>12. LoopOK'
  <2>1. Own' = Own /\ Clean("ctl")' = Clean("ctl") /\ Clean("main")' = Clean("main")
    BY <1>1 DEF Own, Clean
  <2> QED  BY <1>0, <1>1, <1>3, <2>1 DEF LoopOK
<1>13. RestoredOK'  BY <1>1 DEF RestoredOK
<1> QED  BY <1>5, <1>7, <1>8, <1>9, <1>10, <1>11, <1>12, <1>13 DEF DurableInv

(* An export changes nothing but the server's own state and, at its end,   *)
(* what the server has to write.                                           *)
LEMMA ExportStep ==
  ASSUME DurableInv, ctl' \in Ctls,
         main.pc \in Running, ~ Storing, todo["ctl"] = <<>>,
         NEW w \in Seq(BundleWrites), Len(w) <= 2, todo' = [todo EXCEPT !["ctl"] = w],
         ctl'.pc # "idle" => w = <<>> /\ ctl'.id # NoFile,
         ~ rotated => w \in Seq(WholeWrites) /\ (ctl'.pc # "idle" => ctl'.id \in Identities),
         UNCHANGED <<file, fd, main, cli, dirty, used, after, rotated>>
  PROVE  DurableInv'
<1> USE DEF Threads
<1>0. /\ FieldsOK /\ TodoOK /\ CliOK /\ OpenOK /\ IdentityOK
      /\ BundleOK /\ RestoringOK /\ LoopOK /\ RestoredOK
  BY DEF DurableInv
<1>1. FieldsOK'  BY <1>0 DEF FieldsOK
<1>2. ASSUME NEW S PROVE w \in Seq(S \cup BundleWrites)
  <2>1. BundleWrites \subseteq S \cup BundleWrites  OBVIOUS
  <2> QED  BY <2>1, SeqMono
<1>3. /\ todo'["ctl"] = w /\ todo'["main"] = todo["main"] /\ todo'["cli"] = todo["cli"]
      /\ todo' \in [Threads -> Seq(StateWrites(Peers) \cup IdentityWrites \cup BundleWrites)]
  <2>1. w \in Seq((StateWrites(Peers) \cup IdentityWrites) \cup BundleWrites)  BY <1>2
  <2> QED  BY <1>0, <2>1 DEF TodoOK
<1>4. /\ cli \notin Checked /\ fd["ctl"] = "closed" /\ main.pc \notin {"down", "identity"}
  BY <1>0, Phases DEF CliOK, OpenOK
<1>5. ~ (Storing')  BY <1>3 DEF Storing
<1>6. TodoOK'
  <2>1. w \in Seq(StateWrites(Peers) \cup BundleWrites)  BY <1>2
  <2> QED  BY <1>0, <1>3, <1>4, <1>5, <2>1 DEF TodoOK
<1>7. CliOK'  BY <1>0, <1>3, <1>5 DEF CliOK
<1>8. OpenOK'  BY <1>0, <1>3, <1>4 DEF OpenOK
<1>9. IdentityOK'
  <2>1. Serving' = Serving  BY <1>3 DEF Serving, Quiet
  <2> QED  BY <1>0, <1>5, <2>1 DEF IdentityOK
<1>10. BundleOK'
  <2>1. WholeWrites \subseteq StateWrites(Peers) \cup WholeWrites  OBVIOUS
  <2>2. ~ rotated => w \in Seq(StateWrites(Peers) \cup WholeWrites)  BY <2>1, SeqMono
  <2> QED  BY <1>0, <1>3, <2>2 DEF BundleOK
<1>11. RestoringOK'  BY <1>4 DEF RestoringOK, Checked
<1>12. LoopOK'
  <2>1. Own' = Own /\ Clean("main")' = Clean("main")
    BY <1>3 DEF Own, Clean
  <2>2. w \in Seq((StateWrites(Own') \cup IdentityWrites) \cup BundleWrites)  BY <1>2
  <2>3. Clean("ctl")'  BY <1>3, <2>2 DEF Clean, Own
  <2> QED  BY <1>0, <2>1, <2>3 DEF LoopOK
<1>13. RestoredOK'
  <2>1. w \in Seq(StateWrites({file.identity.key}) \cup BundleWrites)  BY <1>2
  <2> QED  BY <1>0, <1>3, <1>5, <2>1 DEF RestoredOK
<1> QED  BY <1>1, <1>6, <1>7, <1>8, <1>9, <1>10, <1>11, <1>12, <1>13 DEF DurableInv

LEMMA ExportOK ==
  ASSUME DurableInv, ExportIdentity \/ ExportState
  PROVE  DurableInv'
<1> USE DEF Threads
<1>0. FieldsOK /\ TodoOK /\ BundleOK /\ IdentityOK  BY DEF DurableInv
<1>1. Idle \in Ctls /\ Idle.pc = "idle"  BY DEF Ctls, Idle
<1>2. ASSUME todo["ctl"] = <<>>, todo' = todo PROVE todo' = [todo EXCEPT !["ctl"] = <<>>]
  BY <1>0, <1>2 DEF TodoOK
<1>3. CASE ExportIdentity
  <2>1. /\ main.pc \in Running /\ todo["ctl"] = <<>> /\ ~ Storing /\ Serving
    BY <1>3, ServingFacts DEF ExportIdentity
  <2>2. ctl' = [pc |-> "export", id |-> file.identity] /\ file.identity # NoFile
    BY <1>3 DEF ExportIdentity
  <2>3. file.identity \in Identities \cup {NoFile, Torn}  BY <1>0 DEF FieldsOK, Files
  <2>4. ctl' \in Ctls /\ ctl'.pc = "export" /\ ctl'.id = file.identity
    BY <2>2, <2>3 DEF Ctls
  <2>5. ~ rotated => ctl'.id \in Identities
    <3>1. ~ rotated => file.identity.kind = "identity"
      BY <1>0, <2>1 DEF IdentityOK, IdentityFile
    <3> QED  BY <2>3, <2>4, <3>1, Kinds
  <2>6. todo' = [todo EXCEPT !["ctl"] = <<>>]
        /\ UNCHANGED <<file, fd, main, cli, dirty, used, after, rotated>>
    BY <1>2, <1>3, <2>1 DEF ExportIdentity
  <2> QED  BY <2>1, <2>2, <2>4, <2>5, <2>6, ExportStep, Empty
<1>4. CASE ExportState
  <2>1. /\ ctl.pc = "export" /\ ctl' = Idle
        /\ UNCHANGED <<file, fd, main, cli, dirty, used, after, rotated>>
    BY <1>4 DEF ExportState
  <2>2. /\ main.pc \in Running /\ ~ Storing /\ todo["ctl"] = <<>>
        /\ ctl.id \in Identities \cup {Torn} /\ (~ rotated => ctl.id \in Identities)
    BY <1>0, <1>1, <2>1 DEF TodoOK, BundleOK, FieldsOK, Mains, Ctls
  <2>3. CASE Missing
    <3>1. todo' = [todo EXCEPT !["ctl"] = <<>>]  BY <1>4, <2>3 DEF ExportState
    <3> QED  BY <1>1, <2>1, <2>2, <3>1, ExportStep, Empty
  <2>4. CASE ~ Missing
    <3> DEFINE st == IF Valid(file.state) THEN file.state ELSE Torn
               b == Bundle(ctl.id, st)
               x == [file |-> "bundle", content |-> b]
               w == <<x>>
    <3>1. st \in States \cup {Torn}
      BY <1>0, Kinds DEF Valid, FieldsOK, Files
    <3>2. todo' = [todo EXCEPT !["ctl"] = w]  BY <1>4, <2>4, OneWrite DEF ExportState
    <3> HIDE DEF st
    <3>3. b \in Bundles /\ b.id = ctl.id  BY <2>2, <3>1, Built
    <3> HIDE DEF b
    <3>4. x \in BundleWrites /\ (~ rotated => x \in WholeWrites)
      BY <2>2, <3>3 DEF BundleWrites, WholeWrites
    <3> HIDE DEF x
    <3>5. w \in Seq(BundleWrites) /\ Len(w) <= 2 /\ (~ rotated => w \in Seq(WholeWrites))
      BY <3>4
    <3> HIDE DEF w
    <3> QED  BY <1>1, <2>1, <2>2, <3>2, <3>5, ExportStep
  <2> QED  BY <2>3, <2>4
<1> QED  BY <1>3, <1>4

-----------------------------------------------------------------------------
(* The command line.                                                       *)

(* A step of a command changes no file: its writes are Open and Fill steps. *)
LEMMA CliStep ==
  ASSUME DurableInv, UNCHANGED <<file, main, ctl, dirty>>, used' \subseteq Keys,
         cli' \in {"idle", "restore", "migrate"} \cup Writing,
         after' \in {"none", "restore", "reset"}, rotated' \in BOOLEAN, rotated => rotated',
         NEW w \in Seq(StateWrites(Peers) \cup IdentityWrites \cup BundleWrites), Len(w) <= 2,
         todo' = [todo EXCEPT !["cli"] = w], fd' = [fd EXCEPT !["cli"] = "closed"],
         CliOK', RestoringOK', RestoredOK'
  PROVE  DurableInv'
<1> USE DEF Threads
<1>0. FieldsOK /\ TodoOK /\ OpenOK /\ IdentityOK /\ BundleOK /\ LoopOK  BY DEF DurableInv
<1>1. /\ todo'["cli"] = w /\ todo'["main"] = todo["main"] /\ todo'["ctl"] = todo["ctl"]
      /\ todo' \in [Threads -> Seq(StateWrites(Peers) \cup IdentityWrites \cup BundleWrites)]
      /\ fd'["cli"] = "closed" /\ fd'["main"] = fd["main"] /\ fd'["ctl"] = fd["ctl"]
      /\ fd' \in [Threads -> {"closed", "open", "gone"}]
  BY <1>0 DEF TodoOK, FieldsOK
<1>2. FieldsOK'  BY <1>0, <1>1 DEF FieldsOK
<1>3. Storing' = Storing /\ Serving' = Serving /\ NewIdentity' = NewIdentity
  BY <1>1 DEF Storing, Serving, Quiet, NewIdentity
<1>4. TodoOK'  BY <1>0, <1>1, <1>3 DEF TodoOK
<1>5. OpenOK'  BY <1>0, <1>1 DEF OpenOK
<1>6. IdentityOK'  BY <1>0, <1>1, <1>3 DEF IdentityOK
<1>7. BundleOK'  BY <1>0, <1>1 DEF BundleOK
<1>8. LoopOK'
  <2>1. Own' = Own /\ Clean("ctl")' = Clean("ctl") /\ Clean("main")' = Clean("main")
    BY <1>1 DEF Own, Clean
  <2> QED  BY <1>0, <2>1 DEF LoopOK
<1> QED  BY <1>2, <1>4, <1>5, <1>6, <1>7, <1>8 DEF DurableInv

(* A command that has nothing to write has no file open.                   *)
LEMMA CliQuiet ==
  ASSUME DurableInv, cli \in {"idle", "restore", "migrate"} \/ Quiet("cli")
  PROVE  /\ todo["cli"] = <<>> /\ fd["cli"] = "closed"
         /\ fd = [fd EXCEPT !["cli"] = "closed"] /\ todo = [todo EXCEPT !["cli"] = <<>>]
<1>1. todo["cli"] = <<>>  BY DEF DurableInv, CliOK, Quiet
<1>2. fd["cli"] = "closed"  BY <1>1 DEF DurableInv, OpenOK, Threads
<1> QED  BY <1>1, <1>2 DEF DurableInv, FieldsOK, TodoOK

(* A command starts, gives up, or is killed.                               *)
LEMMA CliIdleOK ==
  ASSUME DurableInv,
         (\E command \in {"restore", "migrate"} : CliBegin(command)) \/ CliRefuse \/ CliCrash
  PROVE  DurableInv'
<1> USE DEF Threads
<1>0. FieldsOK /\ TodoOK /\ CliOK /\ RestoredOK  BY DEF DurableInv
<1>1. /\ cli' \in {"idle", "restore", "migrate"} /\ (cli' # "idle" => main.pc = "down")
      /\ UNCHANGED <<file, main, ctl, dirty, used, rotated>>
      /\ after' \in {"none", after} /\ (after' = "restore" => cli' = "idle")
      /\ todo' = [todo EXCEPT !["cli"] = <<>>] /\ fd' = [fd EXCEPT !["cli"] = "closed"]
  <2>1. ASSUME NEW command \in {"restore", "migrate"}, CliBegin(command) PROVE <1>1
    <3>1. /\ cli = "idle" /\ cli' = command /\ main.pc = "down" /\ after' = "none"
          /\ UNCHANGED <<file, todo, fd, main, ctl, dirty, used, rotated>>
      BY <2>1 DEF CliBegin, CliIdle, Settled, DaemonEndpointIsLive
    <3> QED  BY <3>1, CliQuiet
  <2>2. CASE CliRefuse
    <3>1. /\ cli \in {"restore", "migrate"} /\ cli' = "idle"
          /\ UNCHANGED <<file, todo, fd, main, ctl, dirty, used, after, rotated>>
      BY <2>2 DEF CliRefuse
    <3> QED  BY <3>1, CliQuiet
  <2>3. CASE CliCrash  BY <2>3 DEF CliCrash
  <2> QED  BY <2>1, <2>2, <2>3
<1>2. todo'["cli"] = <<>> /\ todo'["main"] = todo["main"] /\ todo'["ctl"] = todo["ctl"]
  BY <1>0, <1>1 DEF TodoOK
<1>3. Storing' = Storing  BY <1>1, <1>2 DEF Storing
<1>4. CliOK'  BY <1>1, <1>2 DEF CliOK, Checked
<1>5. RestoringOK'  BY <1>1 DEF RestoringOK
<1>6. RestoredOK'
  <2>1. after' = "restore" => after = "restore"  BY <1>1
  <2> QED  BY <1>0, <1>1, <1>2, <1>3, <2>1 DEF RestoredOK
<1> QED  BY <1>0, <1>1, <1>4, <1>5, <1>6, CliStep, Empty DEF FieldsOK

LEMMA IdentityInitOK ==
  ASSUME DurableInv, NEW p \in Passphrases, IdentityInit(p)
  PROVE  DurableInv'
<1> USE DEF Threads
<1>0. FieldsOK /\ TodoOK /\ CliOK  BY DEF DurableInv
<1>1. PICK k \in Keys \ used :
        /\ todo' = [todo EXCEPT !["cli"] = Writes("identity", <<IdentityFile(k, p)>>)]
        /\ used' = used \cup {k}
  BY DEF IdentityInit
<1>2. /\ cli = "idle" /\ Settled /\ cli' = "initialising" /\ after' = "none"
      /\ rotated' = (rotated \/ Serving) /\ UNCHANGED <<file, fd, main, ctl, dirty>>
  BY DEF IdentityInit, CliIdle
<1> DEFINE x == [file |-> "identity", content |-> IdentityFile(k, p)]
           w == <<x>>
<1>3. x \in IdentityWrites  BY Built DEF IdentityWrites
<1>4. todo' = [todo EXCEPT !["cli"] = w]  BY <1>1, OneWrite
<1> HIDE DEF x
<1>5. /\ w \in Seq(IdentityWrites) /\ Len(w) <= 2
      /\ w \in Seq(StateWrites(Peers) \cup IdentityWrites \cup BundleWrites)
  BY <1>3
<1> HIDE DEF w
<1>6. todo'["cli"] = w /\ todo'["main"] = todo["main"]  BY <1>0, <1>4 DEF TodoOK
<1>7. main.pc = "down" \/ Serving  BY <1>2 DEF Settled
<1>8. main.pc # "identity" /\ ~ Storing /\ ~ (Storing')
  <2>1. Storing => Head(todo["main"]).file = "identity"  BY <1>0 DEF TodoOK, NewIdentity
  <2>2. ~ Storing /\ main.pc # "identity"
    BY <1>7, <2>1, Phases DEF Storing, Serving, Quiet
  <2> QED  BY <1>2, <1>6, <2>2 DEF Storing
<1>9. CliOK'  BY <1>2, <1>5, <1>6, <1>7, <1>8 DEF CliOK, Checked
<1>10. RestoringOK' /\ RestoredOK'  BY <1>2 DEF RestoringOK, RestoredOK
<1>11. rotated' \in BOOLEAN /\ (rotated => rotated') /\ used' \subseteq Keys
  BY <1>0, <1>1, <1>2 DEF FieldsOK
<1>12. fd' = [fd EXCEPT !["cli"] = "closed"]  BY <1>2, CliQuiet
<1>13. cli' \in Writing /\ after' \in {"none", "restore", "reset"}  BY <1>2 DEF Writing
<1> QED  BY <1>2, <1>4, <1>5, <1>9, <1>10, <1>11, <1>12, <1>13, CliStep

LEMMA JoinOK ==
  ASSUME DurableInv, Join
  PROVE  DurableInv'
<1> USE DEF Threads
<1>0. FieldsOK /\ TodoOK /\ RestoredOK  BY DEF DurableInv
<1>1. /\ cli = "idle" /\ cli' = "joining"
      /\ todo' = [todo EXCEPT !["cli"] = Writes("state", <<BoundTo(Subject)>>)]
      /\ after' = IF file.identity.kind = "identity" /\ file.identity.key = Subject
                    THEN after ELSE "none"
      /\ UNCHANGED <<file, fd, main, ctl, dirty, used, rotated>>
  BY DEF Join, CliIdle
<1>2. Subject \in Peers /\ BoundTo(Subject) \in StatesOf({Subject})
  BY DurableAssumption, Built DEF Peers
<1> DEFINE w == Writes("state", <<BoundTo(Subject)>>)
<1>3. w \in Seq(StateWrites({Subject})) /\ Len(w) <= 2  BY <1>2, OneStateWrite
<1>4. todo' = [todo EXCEPT !["cli"] = w]  BY <1>1
<1> HIDE DEF w
<1>5. w \in Seq(StateWrites(Peers))  BY <1>2, <1>3, WritesMono
<1>6. w \in Seq(StateWrites(Peers) \cup IdentityWrites \cup BundleWrites)  BY <1>5
<1>7. todo'["cli"] = w /\ todo'["main"] = todo["main"] /\ todo'["ctl"] = todo["ctl"]
  BY <1>0, <1>4 DEF TodoOK
<1>8. Storing' = Storing  BY <1>1, <1>7 DEF Storing
<1>9. CliOK' /\ RestoringOK'  BY <1>1, <1>3, <1>7 DEF CliOK, Checked, RestoringOK
<1>10. RestoredOK'
  <2> SUFFICES ASSUME after' = "restore" PROVE RestoredOK'
    BY DEF RestoredOK
  <2>1. after = "restore" /\ Subject = file.identity.key  BY <1>1
  <2> QED  BY <1>0, <1>1, <1>7, <1>8, <2>1 DEF RestoredOK
<1>11. fd' = [fd EXCEPT !["cli"] = "closed"]  BY <1>1, CliQuiet
<1>12. cli' \in Writing /\ after' \in {"none", "restore", "reset"} /\ used \subseteq Keys
       /\ rotated \in BOOLEAN
  BY <1>0, <1>1 DEF Writing, FieldsOK
<1> QED  BY <1>1, <1>3, <1>4, <1>6, <1>9, <1>10, <1>11, <1>12, CliStep

LEMMA OfflineReadOK ==
  ASSUME DurableInv, OfflineRead
  PROVE  DurableInv'
<1> USE DEF Threads
<1>0. FieldsOK /\ TodoOK /\ RestoredOK  BY DEF DurableInv
<1>1. /\ cli = "idle" /\ cli' = "reading" /\ Missing
      /\ todo' = [todo EXCEPT !["cli"] = Writes("state", Ensured(Fixture, 0))]
      /\ UNCHANGED <<file, fd, main, ctl, dirty, used, after, rotated>>
  BY DEF OfflineRead, CliIdle
<1> DEFINE w == Writes("state", Ensured(Fixture, 0))
<1>2. Fixture \in Peers /\ Readable  BY <1>1 DEF Peers, Readable
<1>3. w \in Seq(StateWrites({Fixture})) /\ Len(w) <= 2
  <2>1. PICK s \in Peers :
             /\ Writes("state", Ensured(Fixture, 0)) \in Seq(StateWrites({s}))
             /\ Len(Writes("state", Ensured(Fixture, 0))) <= 2
             /\ IF Missing THEN s = Fixture ELSE file.state \in StatesOf({s})
    <3>1. 0 \in 0 .. 1  OBVIOUS
    <3> QED  BY <1>0, <1>2, <3>1, EnsuredWrites, Zenon
  <2>2. s = Fixture  BY <1>1, <2>1
  <2> QED  BY <2>1, <2>2, Zenon
<1>4. todo' = [todo EXCEPT !["cli"] = w]  BY <1>1
<1> HIDE DEF w
<1>5. w \in Seq(StateWrites(Peers))  BY <1>2, <1>3, WritesMono
<1>6. w \in Seq(StateWrites(Peers) \cup IdentityWrites \cup BundleWrites)  BY <1>5
<1>7. todo'["cli"] = w  BY <1>0, <1>4 DEF TodoOK
<1>8. CliOK' /\ RestoringOK'  BY <1>1, <1>3, <1>7 DEF CliOK, Checked, RestoringOK
<1>9. after # "restore"
  BY <1>0, <1>1, Kinds DEF RestoredOK, StatesOf, Missing
<1>10. RestoredOK'  BY <1>1, <1>9 DEF RestoredOK
<1>11. fd' = [fd EXCEPT !["cli"] = "closed"]  BY <1>1, CliQuiet
<1>12. cli' \in Writing /\ after' \in {"none", "restore", "reset"} /\ used \subseteq Keys
       /\ rotated \in BOOLEAN
  BY <1>0, <1>1 DEF Writing, FieldsOK
<1> QED  BY <1>1, <1>3, <1>4, <1>6, <1>8, <1>10, <1>11, <1>12, CliStep

LEMMA RestoreOK ==
  ASSUME DurableInv, Restore
  PROVE  DurableInv'
<1> USE DEF Threads
<1>0. FieldsOK /\ TodoOK /\ CliOK /\ RestoredOK  BY DEF DurableInv
<1>1. /\ cli = "restore" /\ file.bundle.kind = "bundle" /\ Valid(file.bundle.st)
      /\ cli' = "restoring" /\ UNCHANGED <<file, fd, main, ctl, dirty, used, after, rotated>>
      /\ todo' = [todo EXCEPT !["cli"] = Writes("identity", <<file.bundle.id>>)
                                           \o Writes("state", <<file.bundle.st>>)]
  BY DEF Restore
<1>2. file.bundle \in Bundles  BY <1>0, <1>1, Kinds DEF FieldsOK, Files
<1>3. file.bundle.id \in Identities \cup {Torn}  BY <1>2, Kinds
<1>4. file.bundle.st \in States  BY <1>1, <1>2, Kinds DEF Valid
<1> DEFINE iw == [file |-> "identity", content |-> file.bundle.id]
           sw == [file |-> "state", content |-> file.bundle.st]
           w == <<iw, sw>>
<1>5. iw \in IdentityWrites /\ sw \in StateWrites(Peers)
  BY <1>3, <1>4, Kinds DEF IdentityWrites, StateWrites, StatesOf
<1>6. todo' = [todo EXCEPT !["cli"] = w]
  <2>1. Writes("identity", <<file.bundle.id>>) = <<iw>>  BY OneWrite
  <2>2. Writes("state", <<file.bundle.st>>) = <<sw>>  BY OneWrite
  <2> HIDE DEF iw, sw
  <2>3. <<iw>> \o <<sw>> = w  BY TwoWrites
  <2> QED  BY <1>1, <2>1, <2>2, <2>3
<1>7. w \in Seq(StateWrites(Peers) \cup IdentityWrites \cup BundleWrites) /\ Len(w) <= 2
  <2> HIDE DEF iw, sw
  <2> QED  BY <1>5
<1>8. main.pc = "down" /\ after # "restore"
  BY <1>0, <1>1 DEF CliOK, Checked, RestoredOK
<1>9. fd' = [fd EXCEPT !["cli"] = "closed"]  BY <1>1, CliQuiet
<1>10. todo'["cli"] = w  BY <1>0, <1>6 DEF TodoOK
<1>11. RestoringOK'  BY <1>1, <1>2, <1>4, <1>10 DEF RestoringOK
<1>12. RestoredOK' /\ CliOK'  BY <1>1, <1>8 DEF RestoredOK, CliOK
<1>13. cli' \in Writing /\ after' \in {"none", "restore", "reset"} /\ used \subseteq Keys
       /\ rotated \in BOOLEAN
  BY <1>0, <1>1 DEF Writing, FieldsOK
<1> HIDE DEF w
<1> QED  BY <1>1, <1>6, <1>7, <1>9, <1>11, <1>12, <1>13, CliStep

LEMMA MigrateOK ==
  ASSUME DurableInv, Migrate
  PROVE  DurableInv'
<1> USE DEF Threads
<1>0. FieldsOK /\ TodoOK /\ CliOK /\ RestoredOK  BY DEF DurableInv
<1>1. /\ cli = "migrate" /\ file.state.kind = "state"
      /\ cli' = "migrating" /\ UNCHANGED <<file, fd, main, ctl, dirty, used, after, rotated>>
      /\ todo' = [todo EXCEPT !["cli"] = Writes("state", <<Migrated(file.state)>>)]
  BY DEF Migrate
<1>2. file.state \in States  BY <1>0, <1>1, Kinds DEF FieldsOK, Files
<1>3. Migrated(file.state) \in StatesOf(Peers)
  BY <1>2 DEF Migrated, States, StateFile, StatesOf, Peers
<1> DEFINE w == Writes("state", <<Migrated(file.state)>>)
<1>4. w \in Seq(StateWrites(Peers)) /\ Len(w) <= 2  BY <1>3, OneStateWrite
<1>5. todo' = [todo EXCEPT !["cli"] = w]  BY <1>1
<1> HIDE DEF w
<1>6. w \in Seq(StateWrites(Peers) \cup IdentityWrites \cup BundleWrites)  BY <1>4
<1>7. todo'["cli"] = w  BY <1>0, <1>5 DEF TodoOK
<1>8. main.pc = "down" /\ after # "restore"
  BY <1>0, <1>1 DEF CliOK, Checked, RestoredOK
<1>9. fd' = [fd EXCEPT !["cli"] = "closed"]  BY <1>1, CliQuiet
<1>10. RestoringOK' /\ RestoredOK' /\ CliOK'
  BY <1>1, <1>4, <1>7, <1>8 DEF RestoringOK, RestoredOK, CliOK
<1>11. cli' \in Writing /\ after' \in {"none", "restore", "reset"} /\ used \subseteq Keys
       /\ rotated \in BOOLEAN
  BY <1>0, <1>1 DEF Writing, FieldsOK
<1> QED  BY <1>1, <1>4, <1>5, <1>6, <1>9, <1>10, <1>11, CliStep

LEMMA CliDoneOK ==
  ASSUME DurableInv, CliDone
  PROVE  DurableInv'
<1> USE DEF Threads
<1>0. FieldsOK /\ TodoOK /\ CliOK /\ RestoringOK /\ RestoredOK  BY DEF DurableInv
<1>1. /\ cli \in Writing /\ Quiet("cli") /\ cli' = "idle"
      /\ after' = IF /\ cli = "restoring" /\ file.bundle.id.kind = "identity"
                     /\ file.bundle.st.subject = file.bundle.id.key
                    THEN "restore" ELSE after
      /\ UNCHANGED <<file, todo, fd, main, ctl, dirty, used, rotated>>
  BY DEF CliDone, Writing
<1>2. /\ todo["cli"] = <<>> /\ todo' = [todo EXCEPT !["cli"] = <<>>]
      /\ fd' = [fd EXCEPT !["cli"] = "closed"]
  BY <1>1, CliQuiet
<1>3. RestoredOK'
  <2>1. ASSUME cli = "restoring", file.bundle.id.kind = "identity",
               file.bundle.st.subject = file.bundle.id.key
        PROVE  RestoredOK'
    <3>1. /\ file.bundle \in Bundles /\ file.bundle.st \in States
          /\ file.identity = file.bundle.id /\ file.state = file.bundle.st
      BY <1>0, <1>2, <2>1 DEF RestoringOK
    <3>2. file.identity \in Identities  BY <2>1, <3>1, Kinds
    <3>3. file.state \in StatesOf({file.identity.key})  BY <2>1, <3>1 DEF StatesOf
    <3>4. main.pc = "down" /\ todo["main"] = <<>> /\ todo["ctl"] = <<>>
      BY <1>0, <2>1 DEF CliOK, TodoOK, Checked
    <3> QED  BY <1>1, <3>2, <3>3, <3>4, Empty DEF RestoredOK
  <2>2. CASE after' = after  BY <1>0, <1>1, <2>2 DEF RestoredOK, Storing
  <2> QED  BY <1>1, <2>1, <2>2
<1>4. RestoringOK' /\ CliOK'  BY <1>1, <1>2 DEF RestoringOK, CliOK, Checked
<1>5. after' \in {"none", "restore", "reset"} /\ used \subseteq Keys /\ rotated \in BOOLEAN
  BY <1>0, <1>1 DEF FieldsOK
<1> QED  BY <1>1, <1>2, <1>3, <1>4, <1>5, CliStep, Empty

-----------------------------------------------------------------------------
(* The invariant.                                                          *)

LEMMA InitOK ==
  ASSUME Init
  PROVE  DurableInv
<1> USE DEF Threads
<1>1. /\ file \in Files /\ used \subseteq Keys /\ file.bundle = NoFile
  <2>1. CASE file = [identity |-> NoFile, state |-> NoFile, bundle |-> NoFile] /\ used = {}
    BY <2>1 DEF Files
  <2>2. ASSUME NEW k \in Keys, NEW p \in Passphrases, used = {k},
               file = [identity |-> IdentityFile(k, p), state |-> StateFile(k, "old"),
                       bundle |-> NoFile]
        PROVE  file \in Files /\ file.bundle = NoFile
    <3>1. IdentityFile(k, p) \in Identities  BY Built
    <3>2. StateFile(k, "old") \in States  BY DEF States
    <3> QED  BY <2>2, <3>1, <3>2 DEF Files
  <2> QED  BY <2>1, <2>2 DEF Init
<1>2. /\ todo = [t \in Threads |-> <<>>] /\ fd = [t \in Threads |-> "closed"]
      /\ main = Down("none") /\ ctl = Idle /\ cli = "idle" /\ dirty = FALSE
      /\ after = "none" /\ rotated = FALSE
  BY DEF Init
<1>3. Down("none") \in Mains /\ Idle \in Ctls  BY DEF Down, Mains, Peers, Idle, Ctls
<1>4. FieldsOK  BY <1>1, <1>2, <1>3 DEF FieldsOK
<1>5. main.pc = "down" /\ ~ Storing /\ ~ Serving
  BY <1>2, Phases DEF Down, Storing, Serving
<1>6. TodoOK /\ CliOK
  BY <1>2, <1>5, Empty DEF TodoOK, CliOK, Checked, Idle
<1>7. OpenOK /\ IdentityOK /\ RestoringOK /\ LoopOK /\ RestoredOK
  BY <1>2, <1>5, Phases DEF OpenOK, IdentityOK, RestoringOK, LoopOK, RestoredOK
<1>8. BundleOK  BY <1>1, <1>2, Kinds, Empty DEF BundleOK, Idle
<1> QED  BY <1>4, <1>6, <1>7, <1>8 DEF DurableInv

LEMMA NextOK ==
  ASSUME DurableInv, Next
  PROVE  DurableInv'
<1>1. ASSUME NEW t \in Threads, Open(t) \/ Fill(t) PROVE DurableInv'
  BY <1>1, OpenStepOK, FillStepOK
<1>2. ASSUME NEW mode \in Modes, NEW p \in Passphrases, Start(mode, p) PROVE DurableInv'
  BY <1>2, StartOK
<1>3. CASE LoadOrInitIdentity  BY <1>3, LoadOrInitIdentityOK
<1>4. CASE InitializeState  BY <1>4, InitializeStateOK
<1>5. CASE SyncRevocations  BY <1>5, SyncRevocationsOK
<1>6. CASE EnsureIdentityBound  BY <1>6, EnsureIdentityBoundOK
<1>7. ASSUME NEW trigger \in Triggers, Prepare(trigger) PROVE DurableInv'
  BY <1>7, PrepareOK
<1>8. CASE Work  BY <1>8, WorkOK
<1>9. CASE RefreshBaseline  BY <1>9, RefreshBaselineOK
<1>10. CASE Crash  BY <1>10, ExitOK DEF Crash
<1>11. ASSUME NEW k \in {Fixture, main.key}, NEW n \in 0 .. 1, Request(k, n) PROVE DurableInv'
  BY <1>11, RequestOK
<1>12. CASE AuthoritySync  BY <1>12, AuthoritySyncOK
<1>13. CASE StateReset  BY <1>13, StateResetOK
<1>14. CASE ExportIdentity \/ ExportState  BY <1>14, ExportOK
<1>15. CASE (\E command \in {"restore", "migrate"} : CliBegin(command)) \/ CliRefuse \/ CliCrash
  BY <1>15, CliIdleOK
<1>16. ASSUME NEW p \in Passphrases, IdentityInit(p) PROVE DurableInv'
  BY <1>16, IdentityInitOK
<1>17. CASE Join  BY <1>17, JoinOK
<1>18. CASE OfflineRead  BY <1>18, OfflineReadOK
<1>19. CASE Restore  BY <1>19, RestoreOK
<1>20. CASE Migrate  BY <1>20, MigrateOK
<1>21. CASE CliDone  BY <1>21, CliDoneOK
<1> QED  BY <1>1, <1>2, <1>3, <1>4, <1>5, <1>6, <1>7, <1>8, <1>9, <1>10, <1>11, <1>12, <1>13,
            <1>14, <1>15, <1>16, <1>17, <1>18, <1>19, <1>20, <1>21 DEF Next

LEMMA StutterOK ==
  ASSUME DurableInv, UNCHANGED vars
  PROVE  DurableInv'
BY DEF vars, DurableInv, FieldsOK, TodoOK, CliOK, OpenOK, IdentityOK, BundleOK, RestoringOK,
       LoopOK, RestoredOK, Storing, NewIdentity, Serving, Quiet, Own, Clean

(* The inductive invariant: what each thread may have left to write and    *)
(* what the files hold meanwhile.                                          *)
THEOREM DurableInvCorrect == Spec => []DurableInv
<1>1. DurableInv /\ [Next]_vars => DurableInv'  BY NextOK, StutterOK
<1> QED  BY <1>1, InitOK, PTL DEF Spec

(* Every variable keeps its shape: in particular no thread ever has more   *)
(* than two writes left, none has a file open with nothing to write, and   *)
(* no daemon runs beside a restore or a migration.                         *)
THEOREM DurableTypeCorrect == Spec => []DurableTypeOK
<1>1. ASSUME DurableInv PROVE DurableTypeOK
  <2>0. FieldsOK /\ TodoOK /\ CliOK /\ OpenOK  BY <1>1 DEF DurableInv
  <2>1. \A t \in Threads : Len(todo[t]) <= 2 /\ (Quiet(t) => fd[t] = "closed")
    BY <2>0 DEF TodoOK, OpenOK, Quiet
  <2>2. /\ main.pc \in {"down", "identity"} \cup Running
        /\ main.outcome \in {"none", "stopped", "failed", "refused"}
        /\ ctl.pc \in {"idle", "export"}
    BY <2>0 DEF FieldsOK, Mains, Ctls
  <2>3. /\ cli \in {"idle", "restore", "migrate"} => Quiet("cli")
        /\ cli \in {"restore", "migrate", "restoring", "migrating"} => main.pc = "down"
    BY <2>0 DEF CliOK, Checked, Quiet
  <2> QED  BY <2>0, <2>1, <2>2, <2>3 DEF DurableTypeOK, FieldsOK, Files
<1> QED  BY <1>1, DurableInvCorrect, PTL

(* ensure_identity_bound_state keeps the memberships of a former identity  *)
(* out of a daemon's loop, for any identities, crashes, restores, joins    *)
(* and requests.  Besides its own it may meet those of the authority's     *)
(* subject and of the built-in identity of ensure_state, and anything if a *)
(* request was under way when the state was checked.                       *)
THEOREM NoFormerMembershipCorrect == Spec => []NoFormerMembership
<1>1. DurableInv => NoFormerMembership
  <2> SUFFICES ASSUME DurableInv, main.pc \in Loop, ~ main.straddled, file.state.kind = "state"
               PROVE  file.state.subject \in {main.key, Subject, Fixture}
    BY DEF NoFormerMembership
  <2>1. file.state \in StatesOf(Own) \cup {NoFile, Torn}  BY DEF DurableInv, LoopOK
  <2> QED  BY <2>1, Kinds DEF StatesOf, Own
<1> QED  BY <1>1, DurableInvCorrect, PTL

(* An export never meets a half-written node.json, so a bundle holds a     *)
(* whole identity, for any interleaving of the threads, as long as         *)
(* identity init was never run beside a daemon.                            *)
THEOREM BundleIdentityIntactCorrect == Spec => []BundleIdentityIntact
<1>1. DurableInv => BundleIdentityIntact
  BY Kinds DEF DurableInv, BundleIdentityIntact, BundleOK, FieldsOK, Files
<1> QED  BY <1>1, DurableInvCorrect, PTL

(* A complete node.json is replaced only by a restore, by identity init,   *)
(* or by a start whose passphrase does not open it: the thread that        *)
(* truncates it is one of these commands, or the main thread about to      *)
(* store a new identity, which found the old one closed.                   *)
THEOREM IdentityKeptCorrect == Spec => IdentityKept
<1> USE DEF Threads
<1>1. ASSUME DurableInv, [Next]_vars, file.identity.kind = "identity",
             file'.identity # file.identity
      PROVE  \/ cli \in {"restoring", "initialising"}
             \/ main.pc = "init" /\ main.pass # file.identity.pass
  <2>0. FieldsOK /\ OpenOK /\ IdentityOK  BY <1>1 DEF DurableInv
  <2>1. ASSUME NEW t \in Threads, Open(t)
        PROVE  \/ cli \in {"restoring", "initialising"}
               \/ main.pc = "init" /\ main.pass # file.identity.pass
    <3> DEFINE f == Head(todo[t]).file
    <3>1. todo[t] # <<>> /\ fd[t] = "closed" /\ file' = [file EXCEPT ![f] = Torn]
      BY <2>1 DEF Open, Quiet
    <3>2. /\ f \in {"identity", "state", "bundle"} /\ (t = "ctl" => f # "identity")
          /\ t = "main" => f = "state" \/ (f = "identity" /\ Storing)
          /\ f = "identity" /\ t = "cli" => cli \in {"restoring", "initialising"}
      BY <1>1, <3>1, WhoWrites
    <3> HIDE DEF f
    <3>3. f = "identity"  BY <1>1, <2>0, <3>1, <3>2 DEF FieldsOK, Files
    <3>4. t = "main" => main.pc = "init" /\ ~ Opens(file.identity, main.pass)
      BY <2>0, <3>1, <3>2, <3>3 DEF IdentityOK, Storing
    <3> QED  BY <1>1, <3>2, <3>3, <3>4 DEF Opens
  <2>2. ASSUME NEW t \in Threads, Fill(t) PROVE FALSE
    <3> DEFINE f == Head(todo[t]).file
    <3>1. /\ todo[t] # <<>>
          /\ file' # file => fd[t] = "open" /\ \E c : file' = [file EXCEPT ![f] = c]
      BY <2>2 DEF Fill, Quiet
    <3>2. f \in {"identity", "state", "bundle"}  BY <1>1, <3>1, WhoWrites
    <3>3. fd[t] = "open" /\ f = "identity" => file.identity = Torn  BY <2>0 DEF OpenOK
    <3> HIDE DEF f
    <3>4. fd[t] = "open" /\ f = "identity"  BY <1>1, <2>0, <3>1, <3>2 DEF FieldsOK, Files
    <3> QED  BY <1>1, <3>3, <3>4, Kinds
  <2>3. CASE StateReset  BY <1>1, <2>0, <2>3 DEF StateReset, FieldsOK, Files
  <2>4. ASSUME file' = file PROVE FALSE  BY <1>1, <2>4
  <2>5. ASSUME Next, ~ StateReset, ~ \E t \in Threads : Open(t) \/ Fill(t) PROVE file' = file
    BY <2>5 DEF Next, Start, LoadOrInitIdentity, InitializeState, SyncRevocations,
            EnsureIdentityBound, Prepare, Triggers, Work, RefreshBaseline, Crash, Exit, Proceed,
            Request, AuthoritySync, ExportIdentity, ExportState, CliBegin, IdentityInit, Join,
            OfflineRead, Restore, Migrate, CliRefuse, CliDone, CliCrash
  <2> QED  BY <1>1, <2>1, <2>2, <2>3, <2>4, <2>5 DEF vars
<1>2. DurableInv /\ [Next]_vars =>
        [file.identity.kind = "identity" /\ file'.identity # file.identity
           => \/ cli \in {"restoring", "initialising"}
              \/ main.pc = "init" /\ main.pass # file.identity.pass]_vars
  BY <1>1
<1> QED  BY <1>2, DurableInvCorrect, PTL DEF Spec, IdentityKept

(* After a completed restore of a matching pair the check of               *)
(* ensure_identity_bound_state never refuses a start: until one of the     *)
(* named exceptions, every state that anybody holds or writes is one of    *)
(* the restored identity.                                                  *)
THEOREM RestoredNotRefusedCorrect == Spec => RestoredNotRefused
<1>1. ASSUME DurableInv, [Next]_vars, after = "restore", main.outcome # "refused"
      PROVE  main'.outcome # "refused"
  <2>0. main \in Mains /\ RestoredOK  BY <1>1 DEF DurableInv, FieldsOK
  <2>1. ASSUME NEW out \in {"stopped", "failed"}, Exit(out) PROVE main'.outcome # "refused"
    BY <2>1 DEF Exit, Down
  <2>2. ASSUME NEW ok, NEW cs, NEW pc, Proceed(ok, cs, pc) PROVE main'.outcome # "refused"
    <3>1. CASE main' = [main EXCEPT !.pc = pc,
                                    !.straddled = IF pc = "cycle" THEN ~ Quiet("ctl") ELSE @]
      BY <1>1, <2>0, <3>1 DEF Mains
    <3> QED  BY <2>1, <2>2, <3>1 DEF Proceed
  <2>3. CASE \E mode \in Modes, p \in Passphrases : Start(mode, p)  BY <2>3 DEF Start, Down
  <2>4. CASE LoadOrInitIdentity  BY <1>1, <2>0, <2>4 DEF LoadOrInitIdentity, Mains
  <2>5. CASE InitializeState  BY <2>2, <2>5 DEF InitializeState
  <2>6. CASE SyncRevocations  BY <2>2, <2>6 DEF SyncRevocations
  <2>7. CASE EnsureIdentityBound
    <3>1. main.key = file.identity.key /\ file.state \in StatesOf({main.key}) \cup {Torn}
      BY <1>1, <2>0, <2>7 DEF RestoredOK, EnsureIdentityBound
    <3>2. ~ (Readable /\ ~ Missing /\ file.state.subject # main.key)
      BY <3>1, Kinds DEF StatesOf, Readable, Valid
    <3> QED  BY <2>2, <2>7, <3>2 DEF EnsureIdentityBound
  <2>8. CASE \E trigger \in Triggers : Prepare(trigger)  BY <2>2, <2>8 DEF Prepare, Triggers
  <2>9. CASE Work  BY <2>2, <2>9 DEF Work
  <2>10. CASE RefreshBaseline  BY <1>1, <2>0, <2>10 DEF RefreshBaseline, Mains
  <2>11. CASE Crash  BY <2>1, <2>11 DEF Crash
  <2>12. ASSUME Next, main' # main
         PROVE  \/ \E mode \in Modes, p \in Passphrases : Start(mode, p)
                \/ LoadOrInitIdentity \/ InitializeState \/ SyncRevocations
                \/ EnsureIdentityBound \/ \E trigger \in Triggers : Prepare(trigger)
                \/ Work \/ RefreshBaseline \/ Crash
    BY <2>12 DEF Next, Open, Fill, Request, AuthoritySync, StateReset, ExportIdentity,
             ExportState, CliBegin, IdentityInit, Join, OfflineRead, Restore, Migrate, CliRefuse,
             CliDone, CliCrash
  <2> QED  BY <1>1, <2>3, <2>4, <2>5, <2>6, <2>7, <2>8, <2>9, <2>10, <2>11, <2>12 DEF vars
<1>2. DurableInv /\ [Next]_vars =>
        [after = "restore" /\ main.outcome # "refused" => main'.outcome # "refused"]_vars
  BY <1>1
<1> QED  BY <1>2, DurableInvCorrect, PTL DEF Spec, RestoredNotRefused
=============================================================================
