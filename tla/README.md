# QuipNet: TLA+ models, checks and proofs

QuipNet is a peer-to-peer network: a daemon (`quipd`) on every node, relays that carry
sessions between nodes that cannot reach each other, and an authority that issues
memberships, capability grants, revocations and the relay map. This directory holds
TLA+ models of the parts that decide, concurrently and in the presence of failures,
which sessions exist and which facts they rest on.

## The system

| Part | State | Operations | Interacts with |
|---|---|---|---|
| Relay (`crates/relay`, `cmd/relay`) | session table, in memory | `open_session`, `close_session` | daemons, over HTTP |
| Transport registry (`crates/quic`, `crates/transport`) | `runtime_sessions`, `terminal_sessions`, `reconnect_suppressions`, `reconnect_attempts`, listeners, events, each behind its own lock | `connect`, `migrate`, `close_session`, `update_session_state`, `update_listener_state`, `suppress_reconnect`, `transport_health`, ... | both threads of the daemon call it; it calls the relay |
| Daemon (`cmd/quipd`) | trigger baseline, target, arguments | `run_cycle` on one thread, the control server (changes and reports) on another | registry, local control plane |
| Local control plane (`crates/fabric`) | `state.json`: facts, and what is derived from them (peers, denied peers, path candidates, netcheck) | sync, reevaluate, reconcile, realize, close, upgrade, reprobe, report, backup and restore | registry, control client |
| Control client (`crates/control`) | none | fetch, `merge_snapshot` | authority, over HTTP |
| Authority (`cmd/authority`) | one JSON file | `issue`, `add-member`, `add-relay`, `add-bootstrap`, `serve` | each command is a process |
| Identity (`crates/identity`) | `identity/node.json`, encrypted | load, store | daemon start, restore |
| Command line (`cmd/quip`) | none; `state restore`, `state migrate`, `identity init`, `join` and `join-origin` write the node's files, and so does an offline read that finds no `state.json` (`ensure_state`) | requests to the daemon | control server, durable files |
| Routing, policy, netcheck | none | pure decisions | local control plane |

What is hard: the two threads of the daemon share the registry and `state.json` without a
common lock; an operation reads, waits for the network and then writes what it read;
HTTP requests to the relay fail before or after they take effect; the relay forgets
everything when it restarts; the authority's commands race on one file, and the daemon's
cursor assumes that sequence numbers only grow; every durable file is rewritten in place,
so a crash or another thread can meet it half-written; a report is put together from a dozen
reads under different locks while the daemon goes on; what is derived from the facts is kept
beside them and updated piecemeal.

What makes the parts correct: the relay keeps quotas and never confuses two sessions;
registry and relay agree about open sessions; what the authority publishes reaches the
daemon, takes effect and is not taken back; the paths it chooses from are those of its facts
and can be planned; the daemon ends its retries; a diagnosis neither hides what lasts nor
alarms for nothing; the identity and the state bound to it survive crashes, backups and
restores.

## Modules

- `RelayRuntime`: the relay's decisions and frames as operators on a session table.
  `Relay`: the relay process; `MCRelay` instantiates it. `SessionPool`: what the relay
  promises, without tables and frames; `Relay` implements it (`ImplementsPool`).
- `Transport`: the registry and a relay (it extends `RelayRuntime`). Each thread has a
  record of locals (`call`); a step is what happens under one lock or in one HTTP
  request. `lost` is a history variable: the identifiers at the relay whose fate a failed
  request or a restart has left open.
- `Daemon`: the daemon above `Transport`, which it extends; its steps call the registry's
  actions, and a registry operation under way blocks its thread. The facts in
  `state.json` are a version number; `Allowing` (the target), `Denying` (the node itself is
  denied), `Granting` (the listener's protocol is) and `RouteOf` say what a version permits.
  `Transport`'s `Spec` is the abstract specification of the daemon: what the daemon does
  to the registry is something the registry allows (property `Spec`).
- `Inspection`: the control server's reports above `Daemon`, which it extends:
  `runtime.diagnose`, whose reads include those of `runtime.status`, `runtime.health`,
  `runtime.sessions`, `runtime.paths` and `authority.show`. A step is one read under one
  lock (or of `state.json`); an issue is raised when the last read it depends on is made.
  `always` and `ever` in the report are history: what was wrong all the time, and whether
  at some moment something was, or a session was between registry and ledger (`Leaving`).
- `Authority`: the authority's commands, its server and one daemon that synchronises.
  `Arguments` are the ways the daemon may have been started; `overlapped` is history: two
  commands were under way at once.
- `Paths`: the pure decisions on paths as operators: netcheck and its reprobe, the
  candidates made up for bootstrap peers and relays with their costs, the score, the
  selection.
- `Node`: `Authority` with `Paths`: the daemon's facts and, in `view`, what it derives from
  them. Each action of `Authority` that changes facts has its second half here
  (`SyncView`, `MapView`, `RevocationsView`); `Reprobe` is the network trigger. Policy and
  `route_plan` are operators on facts and view.
- `Durable`: the node's files and their writers: the daemon's main thread from its start
  through its cycles, the control server, and the command line's restore, migrate,
  identity init, join and offline reads. Only restore and migrate ask whether a daemon runs.
  An operation is a step that reads and decides, followed by its writes (`todo`); a write
  is a truncation (`Open`) and a `Fill`. `Crash` and `CliCrash` may come at any point, and
  every end of the daemon cuts its control thread off like a crash. Three pieces of
  history: `after` says that the node comes back from a completed restore or from a reset,
  and that the operator has done nothing since that makes it another node; `rotated`, that
  `identity init` was run beside a running daemon; `main.straddled`, that a request was under
  way when the start checked whose state it has.
- `RelayRuntimeLemmas`, `RelayProofs`, `TransportProofs`, `DaemonProofs`,
  `InspectionProofs`, `AuthorityProofs`, `NodeProofs`, `DurableProofs`: the proofs.
  `DaemonProofs` extends `TransportProofs` as `Daemon` extends `Transport`, and so on.

| Variable | Code |
|---|---|
| `sessions`, `relay` | `RelayRuntime.sessions` |
| `runtime`, `terminal`, `suppressed`, `attempt` | `runtime_sessions`, `terminal_sessions`, `reconnect_suppressions`, `reconnect_attempts` |
| `file`, `dirty` | `state.json`; files whose fingerprint differs from `DaemonTriggerMonitor`'s |
| `prog` | locals and position of `run_cycle` and of a control request |
| `listener`, `completed` | a listener's `RuntimeListenerState`; what the last `authority.reevaluation_completed` event says of local denial |
| `report` | locals and position of `runtime_diagnose_result` |
| `auth`, `cli`, `node`, `sync` | authority state file, a command, the daemon's facts, a refresh under way |
| `args`, `view` | `--sync` and the revocation refresh; `peers`, `netcheck`, `denied_peers`, `path_candidates` of `DaemonState` |
| `Durable`: `file`, `todo`, `fd` | `node.json`, `state.json` and a bundle; the `fs::write` calls of an operation under way |
| `Durable`: `main`, `ctl`, `cli` | position and locals of `run`, of a control request, of the `quip` command under way |

Abstractions. A session id is a hash of peer, protocol and class, so a key stands for
both. One relay, one target, one subject in `Transport` and `Daemon`. Identity proofs are a
Boolean; timestamps, events but the last reevaluation, and reasons in words are left out;
endpoints are left out except in `Node`. Every session has a
negotiated protocol, as every session that quipd connects has. File I/O does not fail. In `Transport` a relay identifier that
equals an attempt identifier (both 128 random bits) is left out; `Relay` keeps it, because
there the overwritten entries are what the properties are about. In `Daemon` reading the
authority's snapshot and loading `state.json` are one step of a synchronisation and saving
it is another. The backoff of a retry is a flag (`due`) that time sets. There is one
listener: quipd itself opens none, programs that embed the transport do, and the
reevaluation treats them one by one. That `state.json` is missing, torn or bound to another
identity is a matter of `Durable`, so the durable issues of a diagnosis do not occur in
`Inspection`, nor does a subject mismatch. The candidates of other peers among the reported
paths raise no issue and are left out. In `Authority` a relay has one announcement, so that
announcing it again with other data (`cmd/authority/src/main.rs:876`) is not modelled;
`Signed` allows revocations of memberships and grants as well as of peers, which is what the
daemon accepts and more than `issue` offers (`cmd/authority/src/main.rs:429`).

In `Paths` candidates are a set, so ties are broken any way; losses are counted in tenths of
a percent; an address is whether it is a QUIC address and whether it is IPv6. The window of
observations (8 in the code) is a constant; the proofs hold for every window.

In `Durable` a state is the identity it is bound to and whether its schema is current; an
identity is a key and a passphrase. Testing whether `state.json` exists and reading it are
one step; in a bundle a state that a restore would refuse counts as torn. The operator runs
one command at a time, does not start the daemon while a restore, a migration or an
`identity init` runs, and waits for a start to succeed or fail before one of these three, as
`docs/backup-and-restore.md` and `docs/operator-workflows.md` have it; joins and reads come
at any time. The check of restore and migrate that the daemon does not answer is modelled.
Which of the requests and cycles save
the state, and how often a cycle loads it, is left open (`Request`, `Work`).

## Runs

| Run | Bounds | Result |
|---|---|---|
| `relay` | 2 peers, quota 2, 4 identifiers, 2 also attempts | `TypeOK`, `QuotaRespected`, `NoReopen`, `ImplementsPool` hold (845 states) |
| `transport` | 2 threads, 1 session, 3 relay identifiers, quota 2 | `TypeOK`, `NoOrphan`, `RegistryServed` hold (1.8 million states) |
| `transport_ownership` | same | `MigrationKeepsOwnership` is violated |
| `daemon` | 4 versions (udp; relay; the target denied and the listener's protocol not granted; the node itself denied, the target allowed), `--sync`, 1 operator request or network change, 1 attempt | `FactsArrive`, `DeniedSessionEnds`, `DenialShown` hold (551 thousand states) |
| `daemon_reports` | 3 versions (udp; no route; the node itself denied, the target allowed through the relay), no `--sync`, no reconciliation, 1 request, report or network change, 2 attempts | `DaemonTypeOK`, `Spec`, `TargetSettles`, `DiagnosisFair`, `LastingTroubleNamed` hold (146 thousand states) |
| `daemon_suppression` | 3 versions (allowed; denied; allowed) | `SuppressionLifted` is violated |
| `daemon_stale` | same | `AcceptedFactsKept` is violated |
| `authority` | 2 commands at a time, 2 in all, 2 contents, 2 targets, 1 relay, 2 clock values, with and without `--sync` | `AuthorityTypeOK`, `SequencesUnique`, `NoRollback`, `RevocationsArriveInTurn` hold (71 thousand states) |
| `authority_cursor` | 2 at a time, 2 commands | `RevocationsArrive` is violated |
| `node` | 2 commands in turn; 3 targets (a peer, the membership, a grant), 3 relays (fast and slow, v4 and v6; one without an address), a hint, with and without `--sync`, 2 netcheck reports to start from, window 2 | `FactsCurrent`, `PlansUsable`, `DirectPreferred`, `ReprobeMovesByFinding`, `RevocationsEnforced` hold (168 thousand states) |
| `durable` | 2 identities, 2 passphrases, all three ways to start, no request while a command runs | `DurableTypeOK`, `NoFormerMembership`, `BundleIdentityIntact`, `IdentityKept`, `RestoredNotRefused` hold (2.9 million states) |
| `durable_reset` | 1 identity, 1 passphrase, no authority, requests while a command runs | `RejoinsAfterReset` is violated |

Why the bounds are enough: the hazards need two threads on one session, a relay that can
replace a path twice while the quota refuses a third, and a fact that changes between a
load and a save; a further session shares nothing with the first but the quota. The
versions are published in order, and the daemon may miss any but the last, so that each
denial follows each of the versions before it; that the last one denies the node while it
allows the target separates the reevaluation from the checks of a connect. A report is a request, and one is enough: the cycle thread, a publication, a
relay restart and the retries go on among its reads, and a second report begins afresh. In
`node` two commands give every pair of changes in every order, with probes and restarts
in between without limit; two relays are at the ends of what the cost formulas tell
apart, and one of them is the built-in one. A node with a state of its own starts from the
report the built-in state has before its public address is taken into account, so that its
first reprobe finds udp reachable and moves paths (as the tests `crates/fabric/src/lib.rs:5736`
and `cmd/quipd/src/main.rs:3034` have it) and the later ones meet a full window. Two attempts give a first, a last and no middle; the arithmetic of the
backoff is not modelled. `Symmetry` of the `transport` run permutes identifiers and
threads, which no definition tells apart; the runs with liveness use none. In `durable`
starts, crashes, requests, exports and commands repeat without limit. `Overwrite` (an export
may replace a bundle) and `Beside` (requests are made while a command runs) are FALSE there
to keep the run small; both are TRUE in `durable_reset`, the proofs hold for either value,
and the inductive invariant was also checked with both TRUE, for one passphrase and starts
that seed (5.3 million states). The second identity is the one that takes the first one's place.

The daemon runs do not check deadlock: an error that leaves `run_cycle` ends the process,
and the model stops there.

Fairness. `WF(CycleWorks)` and `WF(ControlWorks)`: both are operating-system threads, every
request to the relay has a timeout, and an interval elapses when nothing else happens.
Whether a request fails or succeeds is not fair. `WF(BackoffOver)`: time passes.
`WF(Reads)`: the control thread makes progress with a report. `WF(Refresh)` in `Authority`
and `Node`: the interval elapses again and again, and the authority's answer to a fetch
ends. The latter is an assumption on the authority and the network, not on this code: the HTTP client of
`crates/control` sets no read timeout, and an answer that never ends would hold up the cycle
for good. `RevocationsArriveInTurn`, `RevocationsEnforced` and, for the synchronisation of a
cycle, the properties of the `daemon` run rest on it. That a command of the authority ends is
not assumed, nor is a restart of a daemon that has exited.

## What the violations show

- `transport_ownership`: `migrate` checks ownership before it asks the relay and registers
  the session afterwards; a close in between is undone, although
  `docs/runtime-lifecycle.md` has it fail clearly.
- `daemon_suppression`: suppressions are cleared in a loop over active sessions, which a
  suppressed target never enters again.
- `daemon_stale`: an operation saves the facts it loaded over newer ones. `FactsArrive`
  shows that with `--sync` the next interval repairs this.
- `authority_cursor`: two commands at once lose a revocation or give its number twice.
- `durable_reset`: after `state.reset` the next `ensure_state` finds no file and writes
  the fixture's state, which is bound to a built-in key. In TLC's trace a node without a
  usable `state.json` (a fresh one, or one whose old state is reset while it starts) makes one
  of its own and enters its loop; the state is reset, the
  first cycle, forced to reprobe the network, calls `ensure_state`, the daemon stops and the
  next start, with the same identity, is refused. In a daemon that waits the removal itself
  triggers the cycle that does it, and a report or an offline read does it too. Every later
  start without an authority is refused.

Also visible in the models: with reconciliation on, every cycle connects the target anew
(`Gather`); a failed close at a restarted relay or a failed synchronisation ends the
process (`Quit`, `SyncFails`); a closed session whose relay request failed is in neither
registry nor ledger (`CloseRemovedFails`). The relay binary configures no quotas. In
`Durable`: a torn `state.json` fails every start, and `state.reset`, which needs a live
daemon, cannot be used on it; a save by the control thread can end the daemon, whose load
meets the truncated file; the manifest of a bundle may call a state valid whose bytes are
torn, because the file is inspected after it was read (`ExportState`); a request under way
while the state is checked can replace it, after the check, by what it had
loaded before (`straddled`, which `NoFormerMembership` leaves out); any failure to
read the identity, a wrong passphrase included, rotates it (`LoadOrInitIdentity`);
`identity init --overwrite` beside a daemon lets an export meet a torn `node.json`
(`rotated`), and leaves a state that the next start without an authority refuses; `join` and a
synchronisation after a reset take over the subject of the snapshot without comparing it
with the identity, and a daemon in its loop goes on with it, as it does with the fixture's
state; an offline read on a fresh node writes that state, after which the
first start without an authority is refused.

In `Inspection`: whatever makes the authority not ready also makes the daemon not ready, so
the diagnosis of a denied node is always "mixed", never "authority_driven"
(`docs/operator-workflows.md:39` tells operators to look for the latter); an entry of the
ledger counts as an active path, and one close leaves "recently_closed_sessions_present"
until it is evicted; a ledger entry hidden by a suppression or a retry gives
"sessions_without_active_paths"; while a close waits for the relay a report shows nothing
of the session (`Conditions`). In `Daemon`: the local denial is enforced by the
reevaluation but not looked at by `realize_best_path`; `DeniedSessionEnds` shows that later
cycles still end the session, in a version that denies the node and allows the target. A listener is
suppressed for either of two reasons, the node's denial or a protocol that is not granted
(`ListenerBarred`), of which the last event shows the first only. In `Node`: a seeded daemon's netcheck starts as pending, without an address, and a
reprobe never makes it reachable, whereas one with a public address is promoted; `relay_required` influences no choice; for bulk traffic a
relay of high bandwidth may win over a direct path, which is why `DirectPreferred` leaves bulk
out; an observed path outlives its relay's announcement, and planning it then fails with
`NoRoute` although another candidate may exist (`PlansUsable` says that this is the only
reason); `add-relay` asks for no address (`cmd/authority/src/main.rs:74`), and a path through a
relay announced without one is chosen and planned with no endpoint to try (`Unaddressed`).

## Proofs

For every value of the constants, from the named assumptions of the modules, every
invariant, every action property and every refinement that a passing run checks is proved.

- `RelayProofs`: `TypeCorrect`, `QuotaCorrect` (the quota is inductive with the type
  invariant; the lemmas bound what a frame does to the set of open sessions of a peer:
  opening adds at most the new identifier, which was not in the table, and overwriting
  only removes), `NoReopenCorrect`, and `ImplementsPoolCorrect`: `Relay` implements
  `SessionPool` under the mapping `OpenByPeer`, `UsedIds`; the pending entry of an
  accepted open is kept under the request's attempt, where it may replace another session,
  which has to be matched as well.
- `TransportProofs`: `TypeCorrect`, `NoOrphanCorrect`, `RegistryServedCorrect`. None of the
  properties is inductive; `IndInv` has, besides the types, these parts.
  `Shape`: a snapshot has a relay identifier exactly if its path is a relay path, and
  an operation about to close holds such a snapshot (`ShapeCorrect`), which is what makes a
  close hit the right session. `Owned`: the life of an identifier that no failure has
  touched. The thread that opened it alone knows of it until it registers it; it is the path of
  one session at most; whoever is about to close it knows that it is not registered, or is
  the migration that replaces it. So no thread closes what another has registered, which
  is `RegistryServed`. `LedgerOK`: the ledger is within its bound and has one entry per
  session. There is one step per action; the lemma `OwnerKept` says what a step has to
  respect if it is to keep an identifier's ownership, and the actions are checked against it.
- `DaemonProofs`: `DaemonImplementsTransport` (`DaemonSpec => Spec`), so that the theorems
  of the registry hold of the daemon (`DaemonKeepsSessions`), and `DaemonTypeCorrect`.
  `DaemonInv` adds to `IndInv` what a thread relies on where it is: it waits for the
  registry only where it has started an operation, holds a snapshot where it uses one,
  follows a route only if its facts have one, and retries only while attempts are left. These
  facts were established some steps earlier and survive what the other thread does because
  they are about the thread's own copies; without them a step of the daemon is not one
  that the registry allows.
- `InspectionProofs`: `InspectionImplementsTransport`, `InspectionTypeCorrect`,
  `LastingTroubleNamedCorrect`, `DiagnosisFairCorrect`. `InspectionInv` relates every local
  of the report to the history since it was read: what has lasted is named already or is in
  a local from which a later read names it (`LastingOK`), and as long as all was quiet no local
  holds anything to complain about (`QuietOK`); a session that was seen and is gone has
  left through `Leaving`, which is not quiet.
- `AuthorityProofs`: `AuthorityTypeCorrect` (the next sequence numbers are above the ones
  in the file and in every copy that a command will write back, which is why commands
  that overwrite each other still leave a consistent file), `GrantsUniqueCorrect`,
  `NoRollbackCorrect` (an action property, from the types, the unique grants and the merge's own
  checks),
  `SequencesUniqueCorrect` (the invariant `InTurn` adds that a command that runs alone
  writes back the file as it is, with a number above the ones in it).
- `NodeProofs`: `NodeRefinesAuthority` (so the theorems above hold of the node),
  `FactsCurrentCorrect`, `ReprobeMovesByFindingCorrect`, `PlansUsableCorrect` and
  `DirectPreferredCorrect`. `CurrentInv` adds to `FactsCurrent`
  that `view` is a record of its fields; the lemmas say that recomputing is idempotent (the
  synthesised candidates are not observed ones) and what each half of an operation leaves
  alone. `NetInv` says that a report which
  a reprobe finds reachable has a passed probe: the reports a daemon starts from have the
  built-in probes, or no address to be promoted by. So the new observation is the least
  latency of the window, and appending it and dropping the oldest leaves the least, on which
  alone the costs depend, as it was; what moves is what `Assessed` finds. `PathsInv` says that every announced relay and every hinted peer is known,
  with addresses if it has any, and that observed paths are those the daemon was built
  with and meet only the probes it was built with. That leaves few pairs of costs that can
  meet; for each the lemmas (`HintedBeatsRelay`, `ObservedBeatsRelay`) compare the scores, with
  the divisions and saturating subtractions of the code.
- `DurableProofs`: `DurableTypeCorrect`, `NoFormerMembershipCorrect`,
  `BundleIdentityIntactCorrect`, `IdentityKeptCorrect`, `RestoredNotRefusedCorrect`.
  `DurableInv` says what each thread may have left to write (`TodoOK`, `CliOK`), and what the
  files hold meanwhile: while the daemon serves, `node.json` is whole and its own unless it was
  rotated beside it, because the daemon truncates it only before the control server is up
  and no command but `identity init` does so while it answers (`OpenOK`, `IdentityOK`, `BundleOK`);
  how far a restore has come (`RestoringOK`); whose memberships are about to be
  written (`LoopOK`: once the check of the subject has passed with no request under way, nobody has
  any but the node's own, the snapshot's or the fixture's; `RestoredOK`: after a restore only the
  restored identity's, which is why a state that is torn but present has to be told from
  a missing one: nobody writes the fixture's over it).
  The invariant was model-checked before it was proved.

Two properties were restated because the attempt to prove them found a counterexample
outside the bounds then checked, which TLC confirmed. `DiagnosisFair` used to allow no alarm if nothing
was wrong at one moment of the report; with two requests a session may be closed while the
report is made, between two reads that are set against each other. It now speaks of
reports during which all was quiet, and leaves out the window in which a session is in neither
registry nor ledger. `PlansUsable` assumed that relays announce addresses; it now says
what happens if one does not, and the run has such a relay.

Others were restated because the code has more cases than they allowed for. Of the
writers of the durable files, `identity init` replaces `node.json` beside a running daemon,
`join` seeds the state of the snapshot's subject, and whoever finds no state writes the
fixture's; so `NoFormerMembership` names the subjects that remain possible, `BundleIdentityIntact`
excludes bundles made after a rotation beside the daemon, and `IdentityKept` and
`RestoredNotRefused` name the commands that replace an identity. `ReprobeMovesByFinding` says
what moves a path instead of saying that nothing does. `DenialShown` has both causes for
which a listener is suppressed.

Induction over data. The library's induction theorems take operators as parameters, which the
provers cannot instantiate. Where the proofs need induction (the least natural of a set
in `Paths`; the ledger, whose length is bounded) they argue with a least
counterexample (`WFMin`), for which a set is enough. What a recursive definition computes
for every input is proved nowhere else; no module declares a RECURSIVE operator.

Only model-checked, since the prover does not handle fairness: `FactsArrive`,
`DeniedSessionEnds`, `DenialShown`, `TargetSettles`, `RevocationsArriveInTurn`,
`RevocationsEnforced`.

## Not modelled

Signatures and enrollment tokens (a proof is a Boolean, an artifact is what it says); the ring of
runtime events beyond the last reevaluation; the wording of explanations, summaries and
reports; the API types, their parsing and what the command line prints; the bootstrap
binary and signed records, which the daemon does not use; scheduler, protocol,
observability, ffi, testkit and lab, which hold constants, tracing and fixtures.

## Plan

1. `Reconnect`: the arithmetic of the backoff with a clock, proved bounded.
2. Listeners in `Transport`, with `listen`; the closure reason that wins, which no property
   is about yet.
3. Proofs: the safety half of the liveness properties, that is which steps can
   undo the progress towards each of them (a revocation the daemon has is never lost; a
   session that a denial has closed is connected again only by an operation that was under
   way).
