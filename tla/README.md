# TLA+ models of the IEPL node agent

The agent (`src/cmd/iepl-agent`, `src/internal`) runs an Xray core on a node and
obeys a control server over one outbound mTLS WebSocket. It applies signed
configurations and user snapshots, bills traffic, keeps an access log, and
accepts signed maintenance commands that a root process executes.
These modules model what the agent keeps in its store, its files and its core,
and what may happen to it between any two steps.

## Inventory

| Component | State | Operations | What is hard | Properties that make it correct |
|---|---|---|---|---|
| Traffic pipeline (`control/client.go`, `state/store.go`, `runtime/xray.go`, `core/user.go`) | counters of the core, `traffic_accumulator`, `traffic_wal`, `meta.traffic_sequence` | collect, add, drain, send, acknowledge | goroutines of an ended session are not awaited; every tick resends everything; restarts | billed once; deleted only once billed; one batch per sequence number; billed in the end |
| Desired state (`control/client.go`, `runtime/xray.go`, `state/store.go`, `secretstore`, `main.go`) | `config_revisions`, `users`, `meta`, secret files, `r.active`, `r.config`, `r.users` | apply configuration, snapshot, secret envelope, disconnect; restore and reset at start | core, tables and files change one after the other; each step may fail or be the last | tables restorable; revoked stays revoked; reports are true; convergence |
| Configuration content (`protocol/protocol.go`, `runtime/xray.go`, `core/inbound/build.go`) | the desired configuration, the secrets it names, the listeners made of it | validate, collect references, resolve, build, start, restore; the check command | three places decide what an inbound needs, and they look at different things | what runs is what the runtime keeps; what the check command passes can be restored; nothing is served without the security it names |
| Maintenance (`internal/maintenance`) | request, marker and result files, two binaries, `m.version` | queue, install, roll back, mark, report, re-execute, uninstall | two processes over one file system, crashes between renames | one verdict; a binary is left; a successful update stays; the queue drains |
| Control session (`control/client.go`) | the connection, `errCh`, `delay` | dial, hello, read loop, goroutines, keepalive, backoff | errors of goroutines are seen only when a message comes; pongs re-arm the read deadline | no session waits for ever; the documented backoff |
| Access log (`state/access.go`, `core/app/dispatcher/access.go`, `runtime/xray.go`) | live sessions, `pendingAccess`, `access_accumulator`, `access_wal` | record, drain, rebuild, requeue, store, prune, send, acknowledge | `Drain` against `Close`; lists over the limit; refused items behind newer ones | counted once; lost only at a limit; settled in the end |
| Identity and enrolment (`internal/identity`, `scripts/install.sh`, `main.go`) | token, key, certificate, CA and identity files, `agent.db` and its backup, binary and service | install, enrol, re-enrol, roll back, load, restore | files written one by one, by root, before or beside a process that loads whatever is there | the identity is the last file; an operator's token file outlives a failed enrolment; no node serves another's configuration |
| Data plane (`dispatcher`, `limiter`) | link managers, limiter maps | open, count, close links | load-then-store on a concurrent map | a revoked user's links are closed |
| Metrics, flags | the last sample; none | sample; parse | | |

Components interact in three ways: the session's read loop calls the handlers,
which call the runtime and the store; the traffic and access collectors call
runtime and store beside it; agent, manager, installer and `enroll` share files
only. `PROJECT.json` lists under `hazards` what can go wrong in between, each at
its line and with the properties that would notice.

## Modules

| Module | Models | Lines of code behind it |
|---|---|---|
| `TrafficLedger` | what the traffic pipeline promises: recorded traffic stays recorded and is billed at most once | abstract |
| `TrafficWAL` | counters, collectors, store, connection, server | `client.go:79-299, 387-460, 603-683`, `store.go:362-511`, `user.go:75-107` |
| `TrafficWALProofs` | theorems about `TrafficWAL` | |
| `RuntimeSync` | desired state, core, restoration | `client.go:474-573`, `xray.go:45-227`, `store.go:38-355`, `main.go:34-163` |
| `Maintenance` | controller, manager, file system | `manager.go`, `controller.go`, `client.go:324-385` |
| `AccessPipeline` | recorder, collectors, accumulator, bounded log, server | `client.go:192-298, 387-460, 642-676`, `state/access.go`, `dispatcher/access.go`, `xray.go:281-366` |
| `Enrolment` | installer, `enroll`, files, start of the agent | `identity.go`, `main.go:122-137`, `install.sh:107-108, 304-395` |
| `ControlSession` | `Run`, a session and its goroutines, composed with `Enrolment` (EXTENDS) | `client.go:55-322, 399-443` |
| `ConfigBuild` | validation, references, translation, start and restoration of a configuration | `protocol.go:143-489`, `xray.go:38-142, 372-601`, `client.go:502-537`, `main.go:34-151`, `core/inbound/build.go` |
| `RuntimeSyncProofs`, `AccessPipelineProofs`, `MaintenanceProofs`, `ControlSessionProofs`, `ConfigBuildProofs` | theorems about these modules (`ControlSessionProofs` about `Enrolment` too) | |
| `MC...` | small instances | |

`PROJECT.json` maps every definition to its lines.

### TrafficWAL

A *chunk* is an indivisible amount of traffic; a counter is the set of chunks it
sums up, so "billed twice" is two accepted batches with a common chunk. A
batch is `(boot, seq, created, items)`; its hash stands for its content, so an
acknowledgement names the batch. `worker[s]` is the program counter of
`collectAndSendTraffic` in session `s`; reading a counter and setting it to zero
are two steps, each database transaction is one. Sessions live in *slots*:
the collector of an ended session keeps its slot until it returns, as nothing
in the code waits for it. `MaxInFlight` is the room of the connection at which
`WriteJSON` blocks. The server is external: it keeps batches by `(boot, seq)`,
answers a known batch with `already_accepted`, and may reject one.

`Durable` traffic (accumulator, log, ledger) and the accepted batches are the
refinement mapping to `TrafficLedger`. Traffic that is lost *before* it is
durable (a counter incremented between load and store, a rebuilt core, a failed
`AddTrafficWindow`, a crash) is lost in the model too; the repository does not
promise otherwise.

### RuntimeSync

A configuration is its version, hash and enabled inbounds; a credential is a
subscriber, an inbound and a value. The read loop runs one handler at a
time, so `pc` is the step of the handler and what interleaves is failure,
crash, and the order of messages. `core` distinguishes a running core,
none, and one that `Close` failed to close but `r.active` still points to.
`ApplyConfig`, `ApplyUsers` and the restoration are whole handlers with their
fallbacks; secrets are written one by one (`PutSecret`) before the transaction
of `ReplaceUsers`. `acked` is a history variable: the highest user revision the
server saw succeed. `SyncAssumption`: revisions name one snapshot each, which is an
assumption about the server, which signs and numbers them; and a credential is no more than
its three fields.

### AccessPipeline

A connection's counters are abstracted to the connection: an item carries the
connections whose count it reports, and an item is active, or has ended, or (the
race) both. `Start`, the two stores of `AccessSession.Close`, and the two reads
of `Drain` (`closed`, then the end time) are separate steps, as no lock covers
them. `worker[s]` is the program counter of `collectAndSendAccess`: take the
waiting items and drain the recorder, `AddAccess` (one transaction, all items or
none), `DrainAccess` with the pruning in it, read and send rows; a refusal goes
to `RequeueAccess`. A rebuild closes the recorder and puts its last samples in
front of what a collector requeues later. `MaxItems` is the limit of `AddAccess` and
of `RequeueAccess`, `MaxBatches` and `MaxBytes` are those of the log. With more
than `MaxItems` samples waiting the slice expression of `RequeueAccess` panics
(`RequeuePanics`). The server is external: it settles a row, asks for it later, or
answers something the agent does not know, which ends the session.

### Enrolment and ControlSession

A file is the number of the attempt that wrote it; a token names its node. With the
release in place (`InstallStart`), the installer stops an active agent and moves its
state away (`StopAgent`), runs `enroll` (request, four files one after the other, removal
of the token), hands the files to the agent's user (`Chown`), restarts the service and
waits for it (`HealthCheck`). Until `Chown`, key and identity are root's (`locked`). The
token is the operator's file or, with `--enroll-token`, one in the temporary directory
(`inTmp`). The ways out:

* `Rollback` puts the previous release back, or removes a first one, restarts a service
  that was there, and before the end of the enrolment restores the database;
* every exit runs the trap, which removes the temporary directory with the token and the
  moved database in it (`Trap`); INT and TERM run it too, and the script then goes on
  (`Interrupted`);
* `InstallDies` is an exit without a rollback: `kill`, or a command whose failure nobody
  catches.

`wanted` is whether the service manager is to keep the agent running: a service the
installer has stopped is started by nobody but the installer. `ServiceStart` and `LoadPair`
are the two halves of `Load`, between which an installer may write: an agent between two
starts is not active, so it is not stopped. `LoadPair` accepts a certificate that fits the
key and goes on with `restoreRuntime`, which refuses the tables of another node.

`ControlSession` extends it with `Run`: `phase` is where `Run` stands, `delay`,
`wait` and `lastWait` are its backoff in integers of `2 * Half` values, so that
the doubling may overflow. A session has a connection that may be lost without
an error, three goroutines that end with their first error, and a read loop that
looks at `errCh` after a message only. The end of a session cancels its goroutines and
waits for none of them: `alive` are those of the current session, `stray` says that some
of earlier ones have not returned. What a stray one still does to the store is in
`TrafficWAL` and `AccessPipeline`. `Process` couples the two modules: a process that
starts enters `Run`, one that dies takes its session along.

### ConfigBuild

An inbound is a record of the fields that validation, reference collection,
translation or the listeners look at together; checks of a single field are one
Boolean. References keep whether blanks surround them, because validation
trims them and the secret store does not. A secret is the set of forms its material can be
read as (a key of 16 or 32 bytes, a REALITY key, text for a JSON string): `Put` may replace
it under the same reference, and the next build looks at what is there then.

`ApplyConfig` has three checks before it touches the core (`Acceptable`: validation, the
nodes, `inboundbuilder.Build` of each). After them it may fail to close the previous core
(`CloseFails`, `active = "closed"`), fail to start the candidate for whatever reason, in
which case the previous core comes back or not (`CandidateFails`, `RestorePrevious`), or
succeed (`AcceptConfig`). `MarkConfigApplied` is a later step, which may fail, and before
which the process may die. `ApplyUsers` rebuilds the core from `r.config`. `Restart` is
`restoreRuntime` with its reset. Versions, hashes and users are in `RuntimeSync`, for
which a configuration is its identity.

### Maintenance

Each action is one file operation of one process. Versions are numbers, 0 is
"no such file". The binary's two renames, the restart, the health check, the
rollback, the marker, the result and the re-execution are separate steps, and
either process may die between any two. A command expires before its marker
is cleaned up (minutes against seven days). When the agent's service stops,
systemd removes its runtime directory with the queued requests; OpenRC
does not: both are possible. The removal of the six directories of an
uninstallation is one step that may stop at any of the directories that
matter; stopping the services and removing their units is one step.

## Runs

| Run | Question | Bounds | States |
|---|---|---|---|
| `traffic` | is anything billed twice, deleted early, or renumbered; does the pipeline implement the ledger | 2 chunks, 2 overlapping sessions, 2 timestamps, 1 batch per read, 2 frames, 2 faults | 1,455,399 |
| `traffic_live` | is durable traffic billed in the end, although stamps do not follow the order of batches | as above, 1 frame, 1 fault | 289,411 |
| `sync` | are tables, secrets, core and reports consistent after any failure | 4 configurations (one version with two contents, an inbound that goes and returns), 3 snapshots, 2 faults, stale snapshots | 1,136,691 |
| `sync_live` | does a revoked credential come back; does the node reach what the server wants | 3 configurations, snapshots in order, 2 faults | 303,274 |
| `maintenance` | one verdict per command; is a binary left; does a successful update stay | 2 updates (to 3, and to the lower 2) and an uninstallation, 2 faults, rollback renames succeed | 1,445,880 |
| `maintenance_live` | does the queue drain; one verdict when rollback renames fail | 2 updates, 2 faults | 137,548 |
| `access` | is a connection counted twice; where can its count be lost | 2 connections on 1 or 2 keys, 2 overlapping sessions, limits of 1 item and 2 rows, 1 checkpoint, 1 fault | 1,815,869 |
| `access_live` | does what a closed connection left reach the server | 1 connection, 2 sessions, log of 1 row, 1 fault | 53,699 |
| `lifecycle` | from enrolment to session: are files, tables and node consistent, is the backoff the documented one, does the agent come back | 2 tokens, each in a file or in the temporary directory, 2 installations, 3 faults, delays 1 to 3 in integers of 3 bits | 428,000 |
| `config` | do validation, check command, builder, runtime and restoration agree, whatever fails | an inbound of each protocol, each with one field changed or under 5 other lists of profiles, and pairs that share identifier or port; 2 references, 3 materials | 33,616 |

Two chunks and two slots suffice for every conflict between two batches and
between an old and a new collector; a limit of one batch per read makes rows
wait behind others; two timestamps let a clock step order a later batch first.
Two faults cover "a failure, and another while recovering from it". Three
snapshots and versions give a skip, a return and a revocation of everyone.
In `access` the limits are so low that two samples exceed them: refusal, requeue
beyond the limit, the panic and pruning all happen. In `lifecycle` two installations
give a first enrolment and a second that is cut off, refused or beside a running agent;
the delays 2 and 3, doubled, leave the range `-Half .. Half - 1`, so that the overflow is
met. Conditions of `ConfigBuild` relate at most two inbounds.

Two runs show a disagreement between a line of the repository and its code
(`findings` in `PROJECT.json`):

| Run | What the code does |
|---|---|
| `result_file` | an unsent result can be removed in place of the sent one |
| `access_race` | a connection that closes while it is drained yields an item that is active and has ended; `AddAccess` refuses it with the whole list, on every tick, until the process restarts |

Other behaviour the models have and a reader may not expect; the properties are
stated so as to hold beside it, and the hazards name it:

* a disconnect removes the credential from the core, not only the links;
* a stale snapshot is served before the store refuses it (`RevokedStaysRevoked`
  is checked with snapshots in order);
* a crash after the swap of an update may end as "failed" on the new release, and
  a failed marker or result leaves a stale `m.version` that admits a downgrade;
* refused access items are stored after newer ones, so that an ended session
  may be called active; more than 20000 waiting samples make `RequeueAccess` panic;
* an enrolment that is cut off may leave a certificate beside another enrolment's
  identity, or files that only root can read (`Torn`); only a further one repairs it;
* an installer that dies after it stopped the agent leaves it stopped, and the rollback of
  a first installation leaves an enrolled node without a binary (`Obstructed`);
* a token given as `--enroll-token` is lost with every installation that fails;
* a session whose heartbeat goroutine has failed stays open as long as the server
  neither sends nor closes;
* between `ApplyConfig` and `MarkConfigApplied`, and after a mark that failed, the core runs
  what is not stored; after a failing `Close` or restoration no core serves, while a
  configuration is stored;
* the check command passes a secret that was replaced by one of another form
  (`MaterialFits`);
* validation accepts a VMess inbound whose profile does not exist (the builder
  refuses it), and VMess without any profile, although `README.md:14` lists it over TLS only.

`CHECK_DEADLOCK FALSE` is used for `Maintenance`, where there is nothing to do once
every command has expired or the node is uninstalled, and for `lifecycle`: an agent
that was stopped or cannot start stays so, and no installer has to run.

## Fairness

*TrafficWAL*: goroutines run, `Run` reconnects after its timer, the server
answers or the closed connection drops its frames, and a session whose worker
has failed sees another message or its read deadline (`errCh` is examined after
each message). Faults are bounded; metering need not happen.

*RuntimeSync*: the process runs its code and reconnects; the server sends
secrets, configuration and snapshot for as long as the versions the agent
reports differ from the desired ones. These are strong because a session may end
before the message is handled. `Converges` asks that the wanted users fit the
wanted configuration, and that the core is not lost for good: if candidate
and previous core both fail to start, `SaveDesiredConfig` answers "already
applied" and only a restart repairs the node.

*Maintenance*: both processes run and are restarted by their units; the
manager goes through the sorted directory before it reads it again, so each
queued command is picked (strong fairness of `Begin(c)`).

*AccessPipeline*: goroutines run and tickers fire, `Run` reconnects, a rebuild
that has begun ends, the server answers. Strong fairness of a collector's step:
it may have to wait for `runtime.mu`, which Go hands to a waiter in the end;
strong fairness of its return: a `select` whose context is done is not won by
tickers for ever. Connections, rebuilds and faults need not happen.
`EventuallySettled` excludes the two ways `AddAccess` refuses a list for good.

*ControlSession*: timers and the scheduler go on, an installer that was started proceeds,
and the service manager starts a service that it is to keep running (`Restart=always`
without a start limit, `iepl-agent.service`); not one that was stopped or has no binary. The
server answers hello and heartbeats, sends a node the configuration it does not have, and
gives up sessions without heartbeats (an assumption about the server: nothing in
the agent ends such a session). A lost connection is noticed by a write or the
read deadline. Nobody has to start an installation. `EventuallyServing` says in `Obstructed`
what enrolments may leave in the agent's way.

## Proofs

`TrafficWALProofs` proves for every `Chunk`, `Slot`, `CreatedAt`, `PendingLimit`,
`MaxInFlight` and `MaxFaults` that satisfy `ConstantsAssumption`:

* `TypeCorrect`: `Spec => []TypeOK`;
* `ChunksAtOnePlace`, `CreditedOnce`, `SequencesUnique`: the invariants of run `traffic`;
* `DeletionIsSafe`: the action property `DeletedOnlyIfCredited`;
* `Refinement`: `Spec => Ledger!Spec`.

None of the invariants is inductive alone. `IInv` adds: batches about to be sent
or on the wire are rows or accepted, and a positive acknowledgement is about an
accepted batch (`WireKnown`; without it a late frame could bill a row that
was never written, or an acknowledgement delete an unbilled one); the stored
sequence number bounds all that were given (`SequenceBounds`, for uniqueness
after a drain); only metered traffic is anywhere (`OnlyMetered`, so that a newly
metered chunk is nowhere else); `runtime.mu` admits one collector between load and
store (`OneCollector`); and the goroutine starts after the handshake
(`FlushComesFirst`). The key of the step proof is that `wal \cup ledger` changes
in `DrainTraffic` only: acceptance takes a batch from the log, deletion takes one
that is in the ledger. `SameKnown`, `LettingGo` and `WireShrinks`
carry every other action.

`RuntimeSyncProofs` proves for every set of configurations and snapshots under
`SyncAssumption`: `TypeCorrect`; `OneAppliedRow`, `UsersRestorable`, `ConfirmedIsDurable`,
`CoreNotBehind`, `UsersFit`, each for the invariant of run `sync` its statement names; and
`RevokedForGood`, which assumes `AllowStale = FALSE` as run `sync_live` does, because a
stale snapshot *is* served before the store refuses it. The inductive invariant has four
parts, and each step lemma uses few of the others:

* `RowsInv`: one row per version, exactly the applied version is marked and no row is
  older. `AppliedRowUnique` alone is lost by `MarkConfigApplied`, which must know that
  the candidate's row is newer than the marked one (`CandidateIsNewer`);
* `SecretsInv`: the users table is one *whole* snapshot whose secrets are on disk, and
  half-way through `PutSecret` the missing ones are those in `left`. Putting the secrets
  of another snapshot must not overwrite one of the stored snapshot (`PutKeeps`): this is
  where a revision that names two snapshots would break restoration;
* `CoreInv`: what `r.config` and `r.users` hold agrees with the handler's step and with
  the tables, also while no core runs;
* `FreshInv`: without stale deliveries, everything served belongs to a snapshot at least
  as new as the acknowledged one.

`MaintenanceProofs` proves for every set of commands `TypeCorrect` and `VerdictIsFinal`
(`OneVerdict`), and, under `RenameMayFail = FALSE`, `ReportedUpdateStays`
(`SucceededNotLost`) and `BinaryStays` (`OneBinaryLeft`). If the renames of a rollback may
fail, both are false (TLC finds behaviours with two and three faults that violate them). `VerdictInv` says why a command is executed to a result once: its
marker precedes its result and outlives its validity, and a removed marker directory
does not come back before the units do. `BinaryInv` says that `m.version` and
the installed binary (the backup, while that is replaced) are at least as new as
every update reported as succeeded: the version check compares with `m.version`, so it is
that variable, and not the binary, which must never lag behind a report.

`ControlSessionProofs` proves for every number of tokens, attempts and faults and
all delays with `ReconnectAssumption`: `TypeCorrect`, `IdentityLast` (`IdentityIsOldest`),
`TokenLast` (`TokenOutlivesEnrolment`), `OwnNodeServed` (`ServesOwnNode`) and `BackoffHolds`
(`BackoffPolicy`). `EnrolIInv` names the files the current attempt has replaced at each
step (`Written`) and says that none is before the server has answered; that an operator's
token file is there until the last one is written; and that an identity an agent has loaded,
at whatever moment of another enrolment, is not newer than the one on disk. The last two
are why the answer to a request (`Enroll`) does not change the node of a running agent and
why the certificate read after the identity is not older. `ExitIInv` treats the
ways out of the installer together. `SessionIInv` says that `delay` is always the successor of
the timer armed last. `NextDelayDoubles` is the arithmetic: in wrapping integers of any width,
a delay within the maximum either doubles or turns smaller, which `next < current` notices.

`ConfigBuildProofs` proves for every set of configurations, references and materials:
`TypeCorrect`, `CoreRunsKeptConfig` (`RunsKeptConfig`), `CheckIsSound`
(`CheckPredictsRestore`) and `ServesSecured` (`ServedAsSecured`). `RunsKeptConfig` needs the
closed core as well: `running` is what is kept even while nothing is up, since `ApplyUsers`
starts again from there. `CheckPredictsRestore` depends on the past: the check command
looks for secrets only, and the restoration needs what building has shown once
(`OnceBuilt`: references without blanks, profiles that exist). `ReferencesSuffice`,
`ProfilesSecure`, `OnlyEncryptedGoBare` and `BuilderSuffices` relate validation, reference
collection and the builder to each other.

`AccessPipelineProofs` proves for any number of connections, keys, sessions and faults and
all limits with `LimitsAssumption`: `TypeCorrect`, which includes both limits of the log;
`CountsAtOnePlace` (`CountedOnce`); and the action property `LostAtLimitsOnly`
(`LostOnlyAtLimits`). `LimitsAssumption` asks that one batch fits the log
(`BatchItems <= MaxBytes`, as a thousand items do): otherwise the log would count as full
when it is empty, and the last would say little. The inductive invariant is `TypeOK` and four parts:

* `OnceInv`: the connections in the recorder, in the waiting list, in the hands of each
  collector, in the accumulator and *sent* are different ones (`Apart`), and each place
  holds a count once. `CountedOnce` speaks of rows of the log; the invariant needs
  everything that ever left the accumulator (`Sent`: rows pruned while a session
  still has them to send, frames on the wire, what is settled), or a late frame of a
  pruned row would settle a connection that is elsewhere again. It also says that only
  accepted connections are anywhere (`Known`), for `Start`;
* `FiniteInv`: the sets that are counted are finite, so that cardinalities are numbers;
* `LogInv`: rows have distinct sequence numbers, which makes `ORDER BY created_at, sequence`
  total (`RowOrder`), and at most `BatchItems` items;
* `SessionInv`: a collector that starts a round has nothing in its hands, so
  `CollectBegin` overwrites nothing; and an acknowledgement that deletes a row is about a
  settled one, so deletion loses nothing.

`PruneKeepsLimits` is the argument about `pruneAccessWALTx`: the rows kept are a suffix of
the order. If any was dropped, the youngest dropped one and the rows after it exceed a
limit, and as it has at most `BatchItems` items the rest is at the limit (`WALFull`);
hence counts are pruned at a limit only. `UpsertKeepsCounts` and `DrainedList` say that the
upserts of `AddAccess` and the samples of `Drain` carry each count exactly once,
`EndOfList` what the truncation of `RequeueAccess` keeps. The lists are stated with
sets of indices (`LastOfKey`, `Sorted`) because no installed prover does induction over
data.

Only model-checked: `DurableEventuallyBilled`, `Converges`, `RequestsDrain`,
`EventuallySettled`, `EventuallyServing` (liveness, out of the prover's reach). The two
properties that the code violates, `CollectedItemsValid` and `RemovedResultWasSent`, have
counterexamples instead.

## Not modelled

* Cryptography: signatures, sealing and certificates. Messages verify or are
  dropped before any state changes. Checks of a single field are one Boolean.
* Host metrics: floating-point rates from `/proc` and the previous sample; a sample
  that fails is left out of a heartbeat.
* Link managers and the limiter of `third_party/ppanel-node`: the agent uses them
  through `DelUsers` and `LimiterManager.Add` only. Two first connections of a user may
  store a link manager each (`default.go:204`), after which `CloseAll` misses one;
  device limits are compared with an empty `AliveList` (`xray.go:499`). The
  stand-alone panel node is not run by the agent.
* `CheckUpdate` and the online snapshot, which change no state; flags and paths;
  HTTP downloads beyond "fails or yields the verified binary".
* The installer's download, its run without a token (an upgrade) and the start of enabled
  services when the host boots.
* The sockets of the listeners: the builder ignores `listen` and, for some protocols,
  `network`, and hop ports are compared with nothing, so validation does not establish
  that they differ; a listener that cannot be opened is a candidate that does not start.
* Certificates and their keys: the builder passes file names on, so a pair that does not
  parse is a candidate that does not start.
* The weeks-old pruning of tables, the recorder's cap of sessions, byte counts and
  hosts do not affect a stated property.

## Plan

All planned components are modelled and checked, and every safety property that a passing
run checks has a theorem. Left: the installer without a token and the boot of the host, for
which `wanted` would have to say what is enabled as well; smaller lemmas that other modules
could share (lists and their truncation are proved in `AccessPipelineProofs` only); and an
abstract ledger for the access log in the manner of `TrafficLedger`, which `LostOnlyAtLimits`
and `CountedOnce` would then refine.
