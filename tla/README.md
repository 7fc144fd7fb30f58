# TLA+ models of coda-node

coda-node connects a quantum processor (QPU) to the Coda cloud.  A node obtains
credentials with a one-time token, opens an OpenVPN tunnel, reads jobs from a Redis
stream, runs them on the configured executor and reports the results by webhook.
This directory holds TLA+ models of that program, the TLC runs that check them on
small instances, and TLAPS proofs, for every instance, of the safety properties that the
passing runs check and of the refinements between the models.

All source references are to `src/coda_node/` of the repository; `consumer.py`,
`app.py`, `config.py` and so on are in its `server/` directory, `service.py` and
`guard.py` in `vpn/`.

## 1. Inventory

| Component | State | Operations | Talks to |
|---|---|---|---|
| Redis stream consumer (`consumer.py`) | consumer group and pending list in Redis, a status hash and a cancel flag per job, `current_job_id`, `_idle_event`, `redis_healthy`, the pending delivery task | `setup`, `recover_pending`, `consume_loop`, `_process_message`, `_process_batch`, `drain`, `stop` | Redis, executor, webhook client |
| Application (`app.py`) | the tasks of the lifespan | startup, `/health`, `/ready`, shutdown | everything |
| Provisioning (`service.py`) | key file, config file, VPN profile, OpenVPN pid file | `connect_settings`, `apply_node_bundle`, `ensure_persisted_vpn`, `kill_openvpn_daemon` | cloud, OpenVPN, disk |
| Settings (`config.py`) | the merged settings | token, environment, persisted files, defaults | disk |
| VPN guard (`guard.py`) | `ServiceState` | `preflight`, `watch`, `stop` | network interfaces, DNS, probe targets, `/ready` |
| Webhook client (`webhook.py`) | HTTP pool | `send_result`, `send_error` with retry, `close` | cloud |
| Heartbeat (`heartbeat.py`) | `_running`, HTTP pool | periodic POST of job and health, `stop`, `close` | cloud, consumer |
| Daemon control (`daemon.py`), CLI (`cli.py`) | pid file | start, stop, status, reset, stop-vpn | operating system |
| Executor loading (`executor.py`), topology (`device_topology.py`) | `sys.modules` | `load_executor`, discovery | installed packages, provisioning, application |
| Native gate IR (`ir.py`), OpenQASM (`qasm.py`) | none | validation, both translators | consumer, executors |
| Authentication (`auth.py`), errors | none | library cryptography, exception classes | provisioning, application |

What makes the program hard to get right:

* **Interleaving.**  Everything runs on one asyncio loop, so each `await` is a point
  where the cloud may set a cancel flag, the executor may finish, a delivery of the
  last batch may write the same job's record, or the lifespan may cancel the task.
* **Failure of Redis** in the middle of a job, with the request applied or not.
  `_safe_hset` and `_safe_xack` swallow connection errors, but the cancel checks and
  every other kind of error go through the handlers and the `finally` clause.
* **At-least-once delivery.**  Messages are redelivered after a crash, by the periodic
  recheck or because the cloud enqueued a job twice; the status hash is what keeps a
  settled job from running again.
* **Shutdown** sets a flag, waits for `_idle_event`, then cancels the task wherever it is.
* **Crashes while provisioning**: a token can be redeemed once, and the files that
  replace it are rewritten in place, one after the other, on every start.
* **OpenVPN** is a process of its own whose interface appears after, and disappears
  later than, the calls that start and stop it.
* **The network to the cloud** loses a request or only its answer, and may deliver a
  request after its attempt was given up; the webhook client then posts again, and the
  heartbeat says something that is no longer true.
* **A pid file without a lock** is all that start, stop and reset know of the
  background node, which drains for longer than stop waits.
* **The executor is loaded twice** in a start, and what discovery finds may change in between.

What each part has to guarantee, and where it is stated:

* a cancelled job is not reported (`EarlyCancelWins`, `BatchEarlyCancelWins`) and stays
  cancelled (`CancelledIsFinal`);
* no job is acknowledged and lost silently, except in listed ways (`NoOtherSilentAck`,
  `BatchNoOtherSilentAck`);
* a settled or delivered job is not executed again (`SettledNeverRuns`,
  `DeliveredNeverRuns`), and the hardware is used by one job or batch at a time
  (`RunsOverlapOnlyAfterError`, `HardwareWaitsForDelivery`);
* drain, `/ready` and the heartbeat see a job in hand (`BusyIsVisible`, `NoPhantomJob`),
  and a clean drain cuts nothing short (`CleanDrainCutsNothing`, `CleanDrainDeliversAll`);
* every message is acknowledged in the end and every shutdown ends (`EventuallyAcked`,
  `BatchEventuallyAcked`, `ShutdownEnds`);
* the key the cloud accepts can be loaded from disk (`SavedUnlessCut`), and a connected
  node uses it (`ConnectedWithLiveKey`);
* there is one managed OpenVPN process, which can be reached through its pid file unless it
  could not be signalled (`NoOrphanDaemon`);
* readiness and its callbacks follow the network (`CallbacksTrackReadiness`,
  `ReadinessFollowsNetwork`);
* a job is open, reported, cancelled, dropped and closed as the cloud expects
  (`ImplementsJobLifecycle`, `BatchImplementsJobLifecycle`);
* a webhook call that returns was accepted (`ImplementsDelivery`), an acknowledged
  completed job is known to the cloud (`CompletedIsDelivered`), which does not get two
  contradicting reports for one lost answer (`NoContradictionAtOnce`), from a client that
  is not closed under a call (`ClosedClientIsIdle`), and it sees a node at rest as such
  (`CloudSeesRest`);
* there is one consumer (`OneConsumer`), which can be stopped (`NodeIsNamed`) without
  hitting another program (`OnlyStaleFileHits`), and every command ends (`CommandsEnd`);
* the executor is the one the documented order names (`ResolutionOrder`), with the
  topology that was announced (`TopologyAgrees`), and a circuit survives the translation
  to OpenQASM and back (`RoundTrip`).

## 2. Modules

| Module | Models | Extends |
|---|---|---|
| `RedisConsumer` | consume loop, recovery, one-message path, shutdown of the task | |
| `BatchConsumer` | `batch_run`, the delivery task and its effect on loop and shutdown | `RedisConsumer` |
| `VPNGuard` | preflight and watch | |
| `Provisioning` | `connect_settings`, the persisted files, OpenVPN | |
| `NodeLifecycle` | startup, serving and shutdown around provisioning and guard | `Provisioning`, `VPNGuard` |
| `JobLifecycle` | abstract: what the node promises the cloud about a job | |
| `ConsumerJobs` | `RedisConsumer` as a `JobLifecycle` | `RedisConsumer` |
| `ReportDelivery` | abstract: what a webhook call promises its caller | |
| `WebhookClient` | attempts, back-off and fate of a report | |
| `Heartbeat` | the heartbeat task | |
| `NodeReports` | consumer, webhook client and heartbeat under the lifespan | `RedisConsumer`; instances of `WebhookClient`, `Heartbeat` |
| `Daemon` | `coda start --daemon`, `stop`, `reset` and the processes they control | |
| `ExecutorLoading` | `load_executor` and its two callers in a start, topology | |
| `NativeGateIR`, `OpenQASM` | circuit validators, the two translators | |
| `MCRedisConsumer`, `MCBatchConsumer`, `MCNodeReports`, `MCDaemon`, `MCJobIntake` | instances for TLC; the last puts `ExecutorLoading` and `OpenQASM`, which share no state, in one run | |
| `ConsumerClaims`, `BatchClaims` | statements of the documentation that do not hold | |
| `RedisConsumerProofs`, `ConsumerJobsProofs`, `BatchConsumerProofs` | theorems about the consumer on both paths | the modules they are about, each the one before it |
| `WebhookProofs`, `NodeReportsProofs` | theorems about the webhook client and the composition; the latter uses the former as an instance and extends `ConsumerJobsProofs` | |
| `NodeLifecycleProofs`, `DaemonProofs` | theorems about the module of that name | |
| `JobIntakeProofs` | theorems about `ExecutorLoading` and `OpenQASM` | both |

A definition named as the mutant of another is an intentionally wrong variant that no
specification uses.  It is there to show that the property it is paired with in
`PROJECT.json` depends on the code it changes.

### RedisConsumer

`mq` is each message's place in Redis (absent, queued, pending, acked), `status` the
status hash, `cancelFlag` the cancel keys.  `pc` is the await at which the consumer task
is suspended; `cur` is the message in hand, `todo` what `recover_pending` still has to
process, `raised` the exception that waits behind a `finally`, `booting` tells whether
`setup()` and the first `recover_pending()` are still running outside the loop's `try`.
`idle`, `currentJob`, `redisHealthy` and `running` are fields of the consumer; `exec` is
`run_task`, and `zombie` a run that was cancelled without being awaited.  `app` follows
the lifespan through start, drain, join and exit.  `sent`, `delivered`, `early` and
`cut` are history variables.

An action is the code from one await to the next; the operation awaited takes effect
in it.  A Redis operation may fail before or after it was applied, with a connection
error or with another error (`ErrorKinds`); `SafeHset` and `SafeXack` swallow the former as
the code does.  `Escape` is where an exception goes that leaves `_process_message`: to
sleep and retry, or, while booting, to the end of the task.  `RaiseThroughFinally` is an
exception that first runs the `finally` clause, and so may still acknowledge the
message.  `CancelConsumer` delivers `CancelledError` at whichever await the task is
at: inside the `try` (so `finally` runs), at `await run_task` (where it is swallowed, 354),
or elsewhere.  `Crash` loses the memory and keeps Redis.

Data is abstracted: a message is a number in stream order, its job a model value, a
circuit parses or not (`BadIR`), fields are complete or not (`BadFields`).  The backoff
delays are left out.  The webhook is seen as the consumer sees it: a call that returns or
raises, after the cloud accepted the result or not; `NodeReports` shows that the attempts
of the real client amount to that.  `worker-0` is one process at a time, which `Daemon` shows
of commands that do not overlap.

### BatchConsumer

`got` is what the last `XREADGROUP` returned, `rest` what the current `for` loop has not
reached, `parsed` the accepted jobs, `dpc` the await of each delivery coroutine and
`pend` the `_pending_batch_delivery` task with its outcome.  Deliveries interleave with
each other and with the loop, which reads on but awaits the task before it dispatches.
`gather` raises at the first failure while the other coroutines go on.  When `batch_run`
raises, every message of the read goes through the one-message path.  Recovery always
does.  The lifespan additionally distinguishes closing the webhook client (`closed`),
since a delivery that outlives the drain posts with a closed client.

### Provisioning, VPNGuard, NodeLifecycle

Redeeming token `t` issues key `t`; `liveKey` is the key the cloud has on record.  `disk`
holds the two persisted files with their state (absent, empty after truncation,
full), whether they have mode 0600, and which credential they hold.  A write is three
steps: open, write, chmod.  `pc` walks through `connect_settings`: ensure the VPN, post,
apply, spawn, wait, persist.  OpenVPN processes are starting, up, or terminating but
still holding the interface.  `lost` and `stray` are history variables for the
situations the code does not survive, and the properties say that there are no others.

`kill_openvpn_daemon` has three outcomes.  `KillOpenvpn` removes the pid file with the process
signalled, or not: the signal may be refused (`PermissionError`) and the file may hold no pid
(`ValueError`), and 246-248 then remove the file and leave the process alone.  A process
that is up is then in the history variable `spared`; one that is still connecting, which
the next start does not see, makes `stray` true.  `KillRaises` is a file that cannot be
removed: the exception leaves the caller and the file stays, with the signal sent or not.

`VPNGuard` takes what a stage of preflight finds as a parameter; `NodeLifecycle` passes
the tunnel and the reachability of the probe targets, which change between the stages.
The cloud side is external: tokens are redeemed once, the JWT of a reconnect is
verified with the device's current key, and the answer carries the key id, but a
private key only for a token.  Environment variables that override single persisted
fields, and stale process ids taken over by other programs, are not modelled.

### JobLifecycle

A job is submitted (perhaps again), cancelled in time or too late, reported while it is
open and not barred, dropped, and closed once it was reported, cancelled or dropped.  In
`ConsumerJobs` a job is open while a message of it is queued or pending and closed when all
are acknowledged, its reports are `sent`, the barred jobs `early` and the dropped ones
`cut`.  The batch path uses the same mapping, with the jobs of bad circuits in `Exempt`
because a batch acknowledges them without a report.  Should that batch then fail, every
message of the read goes through `_process_message`, the acknowledged ones too, so a job of
`Exempt` may be reported or dropped even after it was closed.

### WebhookClient, ReportDelivery, Heartbeat, NodeReports

`hook` is the await of a job's `_post_with_retry`, `attempt` its counter.  An attempt is
answered 2xx, refused (4xx: raises at once), or fails (5xx, timeout, connection error),
in which case `Fate` decides whether the cloud processed the request, will do so later
(`late`) or never does.  `ReportDelivery` has none of that: a call returns only when its
report was accepted, or raises.  `hook` maps to its outcome, post and back-off both being busy.

`Heartbeat` reads `current_job_id` and `redis_healthy` into `beat` before the await and
swallows every failure.  `view` is what the cloud heard last, which a late heartbeat may
set back.

`NodeReports` replaces the two webhook steps of `RedisConsumer` by calls of the client and
runs the heartbeat beside them; the lifespan starts them and shuts down in the order of
`app.py` 123-144: heartbeat closed, cancelled and joined, consumer drained, cancelled, joined,
webhook client closed.  `ImplementsConsumer` states that the composition is still a
`RedisConsumer`, so that the theorems about the latter hold of it.  Left out:
`last_job_at` and the connectivity in a heartbeat, payload formatting, back-off durations.

### Daemon

`file` is the pid file (absent, empty between truncation and write, or a pid), `proc` the
processes, `cpc` the next file or signal call of each operator's command, `held` the pid it
works with.  Commands interleave between any two calls.  A process is starting, booted (it
has a consumer task but uvicorn has not bound the port), serving, draining, or foreign.
`mishaps` records what takes the protocol out of its terms: overlapping commands, an
interrupted command, a node started in a terminal, a cleaned temporary directory.
uvicorn and the operating system are external.  Assumed: a pid is not reused while a
command still works with it, the file belongs to one user, POSIX signals (the Windows
branch with `taskkill` is left out).

### ExecutorLoading

An import path or package is a model value whose `kind` says what importing it leads to
(missing, failing, failing sometimes, not callable, a factory that makes an executor or
not).  `ResolveSettings` picks the configured path, `ScanPackage` is one iteration of
`_discover_executor_factories`, `Decide` the end of `load_executor`; the procedure runs for
the handshake (`offered` topology) and again in the lifespan (`reported`, `runner`).
Flaky modules that were imported once stay in `sys.modules` (`cached`).  The device file is fixed
during a start, and the injection of an executor into `create_app`, a hook for
tests, is left out.

### NativeGateIR, OpenQASM

The gate tables and validators are constants and operators.  A line of text is a record of
the kind its regular expression matches; `openqasm_to_ir` goes through the lines one by one,
with its errors (`rejected`) and the exceptions that it lets through (`escaped`).  An angle
is an integer in half steps of the 15 digits that `_format_float` keeps, so that rounding
is visible; pi/2 falls between two steps, as it does in the code.

## 3. Runs

| Run | Instance | Shows |
|---|---|---|
| `consumer_safety` | 3 messages (a job enqueued twice and another job), 2 Redis failures of either kind anywhere, 2 starts | the safety properties of the one-message path, and that it implements `JobLifecycle`; 2.0 million states |
| `consumer_liveness` | 3 messages (one that may be trimmed, one with a bad circuit, one malformed), a pending query of one entry, 1 connection error after startup, 2 starts | `EventuallyAcked`, `ShutdownEnds`, `NoPhantomJob`; 0.2 million states |
| `batch_safety` | 3 messages (a job enqueued twice, and one with a bad circuit), batches of 2, 1 Redis failure, 2 starts, short results | the safety properties of the batch path, and that it implements `JobLifecycle`; 0.36 million states |
| `batch_liveness` | the same messages, batches of 3, 1 Redis failure, 2 starts | `BatchEventuallyAcked` through a failure, a crash or shutdown and a restart; 0.42 million states |
| `node_lifecycle` | 2 tokens, 2 OpenVPN processes, 2 faults of any kind, 3 starts, failed kills at any time | credentials, daemon and readiness; 1.9 million states |
| `node_reports` | 1 job, 2 attempts per report, 2 failed attempts, 1 failed heartbeat, 2 starts | the refinements of `RedisConsumer` and `ReportDelivery`, and what the cloud ends up knowing; 0.31 million states |
| `daemon` | 2 operators, 2 pids, 3 commands of any kind in sequence or overlapping | one consumer, named by the pid file; commands end; 0.2 million states |
| `job_intake` | 2 packages of any kind and every source of configuration; circuits of 2 gates on 2 qubits, texts of 3 lines | which executor runs under which topology; translation there and back; 0.56 million states |
| `claim_*` | the smallest instance that shows it | one statement of the documentation each, violated (section 6) |

Why the bounds are enough to meet the interesting cases: two messages with the same job
give redelivery and duplication; two Redis failures let an error handler fail in turn;
a second start meets everything a first one leaves behind, and in `node_lifecycle` a
third one meets what a failed re-provisioning leaves behind; a recovery count smaller
than the number of messages truncates `XPENDING`.  Two OpenVPN processes are the least
that can make an orphan, two packages the least that make discovery ambiguous, two
attempts the least with a retry, and two failed attempts the least that make a report fail.
In `daemon` a start, a stop and a second start are the shortest sequence in which a stale
pid file or a node that still drains can matter, and two operators the least that overlap.
`node_reports` has no Redis failures of its own: they are the subject of `consumer_safety`,
and the refinement connects the two.  One job is enough there because calls for
different jobs share no state but `open`; the proofs have any number, enqueued any number of times.
Batches with several jobs that run, which `batch_safety` leaves out for time, are in the
proofs too.  Faults are not bound to places: the bound only limits how many there are.  Deadlock is not checked where the system really may stop: a consumer task
that died at startup, a node that has no start left, operators who give no more commands,
a procedure that has ended.

### Fairness

`RedisConsumer!Fairness`: the event loop keeps scheduling the consumer task; a quiet
stream is eventually found quiet at the 60 s recheck; the executor's run returns (there
is no execution timeout in the code, so this is an assumption about the backend); drain
has a timeout; the lifespan goes on after its awaits; and whoever runs the node starts it
again.  A webhook call ends because its HTTP client has a timeout.  `BatchFairness` adds
the posts of the delivery coroutines.

`RedisConsumer!RedisCallsEnd` and `BatchConsumer!BatchRedisCallsEnd` are assumptions about the
environment that nothing in the code enforces: every Redis call returns or raises.
`app.py` 83 creates the client without a socket timeout, so an answer that never comes on a
connection that stays open holds `XREADGROUP`, or the `XACK` of the `finally` (623) that the
shutdown waits for, for good.  `EventuallyAcked`, `ShutdownEnds` and `BatchEventuallyAcked`
are stated under these assumptions, which are conjuncts of `FairSpec` and `FairBatchSpec`; without
them TLC finds counterexamples to all three, in which the consumer stays at one call.  A
reply that is lost means there that the connection fails with it, so that the call raises.
The safety properties and the proofs assume nothing of the kind: a call that hangs is a
behaviour that stutters.

`NodeLifecycle!Fairness` only says that the
watch task keeps running; nothing forces faults, crashes, starts or OpenVPN's progress.

`NodeReports!NodeFairness`: the heartbeat task goes on, since its HTTP client has a timeout and its
interval passes.  Nothing is assumed of consumer, webhook calls, Redis or the lifespan, and
requests that are late need never arrive.
`Daemon!FairSpec`: a command goes on with its next call.  Nothing is assumed of the
processes, so `CommandsEnd` includes a node that never finishes its drain.
`job_intake` checks safety only.

`EventuallyAcked` excludes errors during startup (`StartupFaults = FALSE`), after which
the task is dead for good, trimmed messages, and the case that trimmed entries fill the
answer of `XPENDING` (100 entries in the code, `RecoverCount` here): they are never
acknowledged and hide every entry behind them.  `BatchEventuallyAcked` excludes a failed
delivery task.  None of the exclusions can be removed: TLC then finds a counterexample.

## 4. Proofs

### RedisConsumerProofs

It proves, for any messages, jobs, number of failures and number of
starts, and from no assumption but the module's own on its constants:

| Theorem | States |
|---|---|
| `TypeCorrect` | `Spec => []TypeOK` |
| `EarlyCancelAlwaysWins` | `Spec => []EarlyCancelWins` |
| `NoOtherSilentAckEver` | `Spec => []NoOtherSilentAck` |
| `CancelledStaysCancelled` | `Spec => CancelledIsFinal` |
| `SettledNeverRunsAgain` | `Spec => []SettledNeverRuns` |
| `DeliveredNeverRunsAgain` | `Spec => []DeliveredNeverRuns` |
| `RunsAreExclusive` | `Spec => []RunsOverlapOnlyAfterError` |
| `BusyAlwaysVisible` | `Spec => []BusyIsVisible` |
| `CleanDrain` | `Spec => CleanDrainCutsNothing` |
| `NoPhantomJobEver` | `Spec => []NoPhantomJob` |

None of the properties is inductive by itself.  The inductive invariant `Inv` conjoins
`TypeOK` with one strengthening per property:

* `EarlyInv`: a job cancelled in time still has its flag, and the consumer is not past
  the last cancel check of it; without it nothing rules out a step to `post`.
* `AckInv`: the job in hand is settled (reported, cancelled or cut short) wherever the
  code is about to acknowledge it, and Redis calls no job completed that is neither
  settled nor still in its handlers; without it the `finally`, or the skip of a
  completed job, could acknowledge an unreported one.
* `RunInv`: between the status check and `HSET completed` the status of the job in hand
  is not settled, and `run_task` exists only inside `_run_job_with_cancellation`.
* `DeliverInv`: without Redis errors Redis knows every accepted result, and the job in
  hand is not one of them until it is posted.
* `ZombieInv`: without Redis errors a run is abandoned only by the cancel that ends the task.
* `BusyIsVisible` is inductive with `TypeOK`.
* `PhantomInv`: with connection errors only, a consumer outside of a job shows none; it adds the
  point `setup` to `NoPhantomJob`, and `XackRaises`, the way past the reset, is excluded.
* `HandInv`: the message in hand and those still to come are pending; it is what the
  refinement below needs to know that their jobs are open.

Each step lemma has one case per action, and cites the type lemmas of the control
operators (`GotoType`, `EscapeType`, `RaiseType`, ...).  The action properties follow from
`Inv` by the same split.

### ConsumerJobsProofs

`ConsumerKeepsPromise` proves `Spec => ImplementsJobLifecycle`.  The first lemmas say what
one `XADD`, `XREADGROUP` or `XACK` does to the phase of a job, in terms of the messages that
carry it; then each step of the consumer is shown to be a step of `JobLifecycle` or to change
nothing the cloud sees.  `HandInv` gives that a reported or dropped job is open, `EarlyInv`
that it is not barred, `AckInv` that a job that is closed is settled.

### BatchConsumerProofs

For any messages, jobs, read count, failures and starts:

| Theorem | States |
|---|---|
| `BatchTypes` | `BatchSpec => []BatchTypeOK` |
| `BatchEarlyCancelAlwaysWins` | `BatchSpec => []BatchEarlyCancelWins` |
| `BatchNoOtherSilentAckEver` | `BatchSpec => []BatchNoOtherSilentAck` |
| `HardwareAlwaysWaits` | `BatchSpec => []HardwareWaitsForDelivery` |
| `CleanDrainDelivers` | `BatchSpec => CleanDrainDeliversAll` |
| `BatchKeepsPromise` | `BatchSpec => BatchImplementsJobLifecycle` |
| `BatchSettledNeverRuns` | `SettledNeverRuns`, and no job of a running batch is recorded as completed |
| `BatchDeliveredNeverRuns` | `DeliveredNeverRuns`, and likewise for the jobs of a running batch |
| `BatchRunsAreExclusive` | `RunsOverlapOnlyAfterError`, and likewise for a running batch |
| `BatchBusyAlwaysVisible` | `BusyIsVisible`, and the node is not idle while a batch is begun, run or delivered |
| `BatchCancelledIsFinal` | `CancelledIsFinal` for jobs that only one message carries |

A step on the one-message path is a step of `RedisConsumer` from a state of `RedisConsumer`
(`OneMessageState`), so the lemmas about types, runs and early cancels are reused; the others
are new.  The inductive invariant `BatchInv` conjoins:

* `WaitInv`: wherever the loop takes on messages no delivery is outstanding.  It is what makes
  the one-message path and the deliveries independent: no delivery writes a status or
  acknowledges a message under the loop's hands, although the loop reads on beside it.
* `RunInv` and `BatchEarlyInv`, as on the one-message path and with the deliveries.
* `BatchAckInv`: as `AckInv`, and a completed job that is not settled still has a delivery
  that will report it, undo it or cut it short.
* `BatchHandInv`: what the loop holds is pending or `Excused`, that is acknowledged with a bad
  circuit or fields, a cancelled or a completed job; what a delivery holds is pending
  and well-formed.  The refinement rests on it: a job is reported while it is open.

`BatchHandInv` is where the proof failed first, for a good reason: after a failed batch the
fallback reports a job whose unparsable message the batch had acknowledged.  TLC confirmed
it with a bad circuit in the batch, and `JobLifecycle` now says so of `Exempt`.

The last five theorems carry what `RedisConsumerProofs` has of the one-message path over to both
paths.  The first follows from `BatchInv`; the others need `HardwareInv`, which is inductive
together with `BatchInv`:

* `BatchDeliverInv`: as `DeliverInv`; without Redis errors no job of the batch is one
  whose result was accepted, and a delivery past `HSET completed` leaves its job settled in Redis
  even if the other copy of the job overwrites the status.
* `ZombieInv`, as it is.
* `BatchBusyInv`: `_idle_event` is clear from the first `HSET` of a batch to the end of its
  delivery.
* `BatchFinalInv`: a job of one message is not cancelled between its status check and the end of
  its delivery, because nobody else writes its status.

`CancelledIsFinal` does not hold of the batch path for a job in two messages of one batch: if the
cancel flag is set between the checks of the two, the second copy records the job as cancelled
and the loop over the batch then writes executing for the first (402-405, 426-433).  TLC shows it
with the instance of `batch_safety` and no bad circuit.  The result is still not reported: the
cancel check of the delivery sees the flag (`BatchEarlyCancelWins`).

### WebhookProofs and NodeReportsProofs

`WebhookKeepsPromise` proves `WebSpec => Promise!Spec`: the client alone, called, answered
and cancelled in any way, implements `ReportDelivery` for any jobs, attempts and failures.
The mapping would not be a refinement in arbitrary states: `WebInv` says that a call under
way has one report, which the client was asked for, and that nothing is on its way
that it was not asked for; without it an arriving request could be one nobody made.  The
proof shows `WebInv` inductive and maps each action to an abstract step or to a stutter.
`HistoryInv` counts: an attempt was made only after as many were lost.

| Theorem | States |
|---|---|
| `NodeIsConsumer` | `NodeSpec => ImplementsConsumer` |
| `NodeKeepsDelivery` | `NodeSpec => ImplementsDelivery` |
| `ClosedClientStaysIdle` | `NodeSpec => []ClosedClientIsIdle` |
| `CompletedAlwaysDelivered` | `NodeSpec => []CompletedIsDelivered` |
| `NeverContradictsAtOnce` | `NodeSpec => []NoContradictionAtOnce` |
| `NodeKeepsPromise` | `NodeSpec => ImplementsJobLifecycle` |
| `DeliveredIsKnown` | the cloud has processed every result whose `send_result` returned |
| `AckedIsKnown` | while no attempt failed, it has a report of every acknowledged job that is neither cancelled nor cut short |
| `CancelledIsNeverSent` | no webhook call is under way for a job cancelled in time |

`NodeIsConsumer` makes the invariants of `RedisConsumerProofs` invariants of the node, and
`NodeKeepsDelivery` those of the client.  On top of them, `CallInv` says that the only call
under way is the one the consumer awaits; `DeliveredInv` that a completed job the cloud
does not know of is still in its handlers; `FirstPassInv` that in the first start without
Redis errors every message is handled once; `ContradictionInv` that before a second loss a
failure is reported only of a job whose result the cloud neither has nor will get from
a request that is still on its way.  `CompletedIsDelivered` and `NoContradictionAtOnce` were
first stated too strongly: the proofs failed for jobs enqueued twice and for a client that
makes one attempt, which the run's single job and two attempts do not meet.

The last four are about the composition as a whole, with any Redis failures and restarts.
`NodeKeepsPromise` chains `NodeIsConsumer` and `ConsumerKeepsPromise`.  `Known` says that accepted
results are with the cloud and, while no attempt failed, so are all reports made; with
`AckInv` it gives `AckedIsKnown`, which `NoOtherSilentAck` states only up to the call of the client.
`CancelledIsNeverSent` combines `EarlyInv` with `CallInv`.

### NodeLifecycleProofs

For any tokens, OpenVPN processes, retries, faults and starts, `LifecycleTypes`, `KeySurvives`,
`SignsWithLiveKey`, `DaemonsAreNamed` and `ObserverKnowsReadiness` prove `LifecycleTypeOK`,
`SavedUnlessCut`, `ConnectedWithLiveKey`, `NoOrphanDaemon` and `CallbacksTrackReadiness`.
`SavedUnlessCut` speaks of a node that is off; `DiskInv` extends it to a node that runs: unless
the process holds the only copy of the live key, the files hold it, and they are
written key first.  `Credentials` says that the key and its id in memory are the live
ones from the cloud's answer on.  `DaemonInv` adds to `NoOrphanDaemon` that a daemon still
connecting is being waited for, that one that could not be signalled is up, and that none is
left when another is spawned, which `detect_tun_interface` alone does not see; without it a
second daemon could be spawned beside one that runs on.  `KillDaemons` and `KillKeeps` say once
what a kill, also one that fails or raises, does to it, for the five actions that call it.  `Stages` and `GuardStages` say what is in hand at
each point.

### DaemonProofs

For any operators, pids and number of commands:

| Theorem | States |
|---|---|
| `PidInHand` | `Spec => []DaemonTypeOK` |
| `NeverTwoConsumers` | `Spec => []OneConsumer` |
| `NodeAlwaysNamed` | `Spec => []NodeIsNamed` |
| `StrangersAreSafe` | `Spec => []OnlyStaleFileHits` |
| `CommandsMoveOn` | every step of a command decreases `StepsLeft`, and no other step increases it |

from `PidsAssumption` (pids differ from the other contents of the file).  `OneConsumer` is not
inductive: nothing in it stops a start from spawning beside a node that the file does not
name.  `Known` adds that there is one command at a time, and that it accounts for every
node: by the file as long as it has not looked, by having found none before it
spawns, by the pid it holds from then on.  `OnlyStaleFileHits` needs `Fresh`: while no node
has ended by itself the file names a node or a process that the command in progress
keeps in hand, so that its pid cannot go to another program before the file is gone.
`CommandsMoveOn` is the part of `CommandsEnd` that needs no fairness: whatever other operators and
processes do, a command is over after at most seven steps of its own.

### JobIntakeProofs

`ResolutionIsDocumented` and `TopologyAlwaysAgrees` prove `ResolutionOrder` and `TopologyAgrees`
of `LoaderSpec` for any finite set of packages, from `LoaderAssumption` (a path is not empty and
is not the NoopExecutor).  `ScanInv`: the search has found, of the packages it has passed,
exactly those that offer a factory now; an import that succeeded stays.  `OfferInv`: what was
announced belongs to the configured path, or to a package that still offers a factory, so
that the second load, if it finds one candidate at all, finds that one.

`RoundTripHolds` proves `QasmSpec => []RoundTrip` for circuits and texts of any length, from
`QasmAssumption`.  No induction over sequences is needed, since the parser goes through the text line
by line and the invariant does the counting: `CopyInv` says that, while it reads the text of a
circuit, the gates and measurements it has are the first ones of that circuit, as many as
the lines it has passed; `ReadInv` says of a text that nobody wrote from a circuit that every
gate read so far has a text of its own.  `RoundTrip` alone speaks only of the end.
The step of `CopyInv` rests on the lemmas about one gate: its line is accepted, read back with
its angles rounded, and still valid, also where an angle is taken for minus pi/2.
`SecondTripIsExact` says that what is lost is lost the first time:
`Written(Written(c)) = Written(c)` for every valid circuit.

### Only model-checked

Liveness (`EventuallyAcked`, `BatchEventuallyAcked`, `ShutdownEnds`, `ReadinessFollowsNetwork`,
`CloudSeesRest`, `CommandsEnd`): fairness and `ENABLED` are out of the proof system's reach.  The
violations of section 6 are counterexamples, which TLC finds.

## 5. Plan

1. Done: `RedisConsumer`, `BatchConsumer` and their abstract specification `JobLifecycle`;
   `Provisioning`, `VPNGuard`, `NodeLifecycle`; `WebhookClient`, `ReportDelivery`, `Heartbeat`,
   `NodeReports`; `Daemon`; `ExecutorLoading`, `NativeGateIR`, `OpenQASM`; the theorems of
   section 4.
2. Two consumers with the same name `worker-0`, which overlapping starts allow
   (`OneConsumer` excludes them), and their recovery of each other's messages.
3. Environment variables that override single persisted fields.

## 6. Findings

Each is shown by a run that violates the statement quoted.

* `claim_drain_timeout`: a drain that times out cancels the task inside the `try` of
  `_process_message`, whose `finally` acknowledges the message; GRACEFUL_SHUTDOWN.md says
  it is not acknowledged and will be recovered.
* `claim_health_flag`: a Redis error in `setup()` or the first `recover_pending()` ends the
  consumer task and leaves `redis_healthy` True, so `/ready` keeps answering 200.
* `claim_outage`: two connection errors, at a cancel poll and at the check in the
  handler, end in an acknowledged job without a webhook; CONSUMER.md says a transient
  outage does not prevent webhook delivery.
* `claim_recheck`: a delivery task that raised is awaited again in each iteration and never
  cleared; the pending recheck is not reached until a restart.

The models show further differences between code and documents.  No run is devoted to
them; the definition that shows each is named.

* A result webhook that fails turns the recorded status from completed into failed
  (`consumer.py` 602-617, `RedisConsumer`); `docs/webhooks/DELIVERY.md` 95-96 says completion is
  recorded nevertheless.  `NoContradictionAtOnce` says how much has to go wrong first.
* `ensure_persisted_vpn` starts OpenVPN in HTTPS mode if an old profile exists
  (`service.py` 608-629, `EnsurePersistedVpn`); `docs/vpn/TUNNEL_LIFECYCLE.md` 115-116 says it
  returns immediately.
* `kill_openvpn_daemon` returns False also when it could not signal the process, whose pid file
  it has removed, and raises when the file cannot be removed (`service.py` 246-248, `KillOpenvpn`,
  `KillRaises`); its docstring (225-227) says False only of a pid file that does not exist.
* `openqasm_to_ir` raises more than its docstring says (`qasm.py` 92-94): pydantic's
  `ValidationError` of a `GateOp` and the `ValueError` of `float()` escape (`GateTextLine`,
  `SymbolicLine`).  It reads only the first statement of a line and ignores the classical
  index of a measurement.
* Besides the durations of `id`, which the docstring of `ir_to_openqasm` names (171-172), the
  rounding to 15 digits is lossy too (`FormatFloat`), and rx, ry and rz, legal in the IR for
  the target cnot, have no OpenQASM form there (`IrGateToQasm`).
* `load_executor` lets `ImportError` and `AttributeError` of a configured path escape, unlike its
  docstring (`executor.py` 177-178; `LoadRaises`).
* Discovery imports the parent package through `find_spec`, so a package that raises something else
  than `ModuleNotFoundError` or `ValueError` when imported stops the start, and it runs
  twice (`ScanPackage`, `NextLoad`); `docs/frameworks/REGISTRY.md` says that it does not import
  and runs once.
* `doctor` prints `NoopExecutor` even when discovery would find a backend (`cli.py` 228).

## 7. Not modelled

* Authentication (`auth.py`): key generation and JWT signing are library cryptography
  without state; `Provisioning` models which key signs and whether the cloud accepts it.
* Errors and package exports: no behaviour.
* `status`, `logs` and `doctor`: they read and print.
* Environment variables that override single persisted fields.
* Platform-specific parsing of interface lists in `guard.py`: abstracted to whether there is
  an interface.
* The Windows branches of `daemon.py` and `service.py`.
* Executors: external; one that never returns blocks the consumer, since the code has no
  execution timeout.
* A Redis call that never ends, as far as liveness is concerned (section 3).
* Backoff delays and the contents of messages, results and logs.
