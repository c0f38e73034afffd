# WoTemu in TLA+

TLA+ models of [WoTemu](../src/README.md), an emulator that runs Web of Things
applications as Docker Swarm services: every replica is a container whose
entrypoint prepares the network and the CPU limits and then runs one asyncio
process, the *node*, beside a monitor that writes metrics to a central Redis.
The modules are translated from the Python source, checked with TLC on small
instances, and, where it pays, proved with TLAPS for every instance. Line
numbers in comments refer to files under `src/wotemu/`.

## 1. The system

| Component | Source | State | Operations | Module |
|---|---|---|---|---|
| CPU limits | `cli/limits.py`, `topology/cpu.py` | one Redis key per host; `cpu_poly` and a process-level cache per replica | check, claim, benchmark, publish, poll, local fallback, apply | `CpuLimits` |
| Node monitor | `monitor/base.py` | Redis pool, system task, packet tasks | `start`, `stop` (concurrent) | `NodeMonitor`, `MonitorTask` |
| Packet capture | `monitor/packet.py` | capture process, bounded queue, stop event, batch | capture, drain, store, health check, terminate | `PacketMonitor` |
| Node process | `cli/app.py` | loop, servient, application task, `_stop` calls and their lock, Redis pool, exit code | signals, end of the application, `_stop` | `NodeRuntime` |
| System metrics | `monitor/system.py` | group of samples, cached limits, CPU times | sample, store, cancel | `SystemMonitor` |
| Application metrics | `monitor/utils.py` | module-level connection | `write_metric` | `MetricConnection` |
| Broker process | `cli/broker.py` | loop, mosquitto, monitor | signals, exit of mosquitto, `_close_loop` | `BrokerRuntime` |
| Interaction trace | `wotpy/*.py` | pending write tasks | one record per request, per item and per subscription event | `InteractionTrace` |
| Boot sequence | `entrypoint.sh`, `cli/waiter.py`, `cli/routes.py` | routing table, iptables rules | wait, route, limits, exec | `Deployment` |
| Network chaos | `cli/chaos.py` | qdiscs of one interface | set, clean, signal handler | `Deployment` (as a step of a gateway) |
| Detector | `apps/detector.py` | priority queue, counters, locks, subscriptions | frames, detection, PTZ, resubscription | `Detector` |
| Subscriber | `apps/subscriber.py` | subscriptions, error event | subscribe, error, cancel | `Subscriber` |
| Historian | `apps/historian.py` | MongoDB documents, windows, stop event | get, write, list, observation tasks | `Historian` |
| Other applications | `apps/*.py` | none to speak of | one call in a loop | seen by `NodeRuntime` only as ways to end |
| Stack stop | `cli/stop.py` | snapshot and Compose file in Redis | snapshot, scale to zero, write | `StackReport` |
| Report | `report/reader.py`, `report/builder.py` | read-through cache | queries, pages | `StackReport`; layout not |
| Topology compiler | `topology/*.py`, `cli/compose.py` | none (pure) | topology to Compose file | `Topology` |
| Docker and network helpers | `utils.py` | none | queries; `wait_node` | `WaitNode` |

How they interact. The entrypoint runs `wait`, `route` and `limits` in order and
then becomes the node process; a failure anywhere ends the container, and Swarm
starts another. Replicas placed on one host meet in `limits`, through a Redis
key. The node process runs, in one loop: the servient, the user's application,
the interaction callbacks (which use a Redis pool of their own) and the
`NodeMonitor`, which starts one task that samples the system and one per network
interface that moves packets out of a capture *process*. Signals and the end of
the application schedule `_stop`, which ends the application, the servient, the
monitor and the pool in that order and then stops the loop. The broker process
runs the same monitor beside mosquitto. Which containers there are, and on which
networks, is what the topology compiler makes of a topology; applications that
use the Things of other services wait for them by way of Docker (`wait_node`).
All leave records in Redis: samples, packets, interactions, metrics. `wotemu stop`
adds a snapshot of the tasks and takes the stack down, `wotemu report` reads
everything back, while the tasks may still write.

What is hard to get right, and hardly tested (the repository's tests cover the
topology compiler, the Redis callback and the report; none covers a shutdown, a
concurrent start or a failure of a task):

* *interleavings of coroutines* at every await: several `_stop`, several
  `stop()`, a `stop()` that meets a suspended `start()`;
* *cancellation*: which await receives a `CancelledError`, who catches it, and
  what a second one interrupts; since Python 3.8 it is not an `Exception`;
* *a process beside the loop*: a queue filled while it is drained, a process
  that dies, that ignores a stop event, or that survives SIGTERM;
* *Redis as a rendezvous*: check-then-act in two commands, lost replies, expiry,
  the death of whoever holds the claim;
* *exceptions on the clean-up path*, which skip the rest of it;
* *containers that come, go and come again* under another address, while others
  wait for them, subscribe to them or route through them;
* *names*: one namespace for hosts of several kinds, objects compared by name here
  and by identity there.

`PROJECT.json` lists these places one by one under `hazards`, with the
properties that cover each. Two have none, because nothing in the repository
promises anything there: a `stop()` that meets a suspended `start()`, and the
packets that are queued when their task is cancelled.

## 2. The modules

An action is the code that one coroutine runs between two suspensions, or one
Redis command, or one operation of a process. Guards are the conditions and
early returns of that code. Definitions whose names begin with `Mut` are
plausible mistakes; no specification uses them. They record which mistake each
property excludes: with the definition that follows them replaced by the
mistake, TLC finds the property violated.

### `CpuLimits`

`key` is the Redis key of one host: absent, the JSON null a replica claims it
with, or somebody's coefficients (named by the replica that measured them).
`pc[r]` is the place of replica `r` in `update_limits` and `_get_cpu_poly`.
`Check` is the GET of `_should_build_poly`, `Lock` the SET NX whose reply the code
does not look at, `Benchmark`, `Publish`, `Poll`, `PollAgain`, `GiveUp` the rest of
`_get_cpu_poly`; `DistributedError` is the `except Exception` of `update_limits`,
taken at any command, with the command executed or not; `LocalPoly` the fallback;
`Apply` the container update. `Die`, `Restart` and `Expire` are the environment:
Docker Swarm and the key's one-hour expiry. The time of `_raise_timeout` is the
number of polls done: a sleep lasts at least `wait` seconds, so a wait ends after
`MaxPolls` of them or before.

### `NodeMonitor` and `MonitorTask`

`start` and `stop[c]` tell where the call of `start()` and each call of `stop()`
are suspended. `redis`, `task_system` and `tasks_packet` are the attributes of the
object; `task[t]` is the life of each asyncio task: created, running, cancelling
(the `CancelledError` was caught), recancelled (a second one is on its way),
failing (an exception is on its way out through the clean-up), ended, failed,
killed. `stop()` consists of three sub-coroutines that return at once if their
attribute is None: `NextStage` computes the first that suspends, and `Proceed`
does everything between two suspensions, cancellations included.

`MonitorTask` is the abstract specification of one such task: what `NodeMonitor`
assumes of `monitor_system` and, where `CleansUp`, of `monitor_packets`. The life of
a task in `NodeMonitor` is written in its terms, and `PacketMonitor` and `SystemMonitor`
are shown to implement it (`ImplementsMonitorTask`; the former from the state in
which its creator leaves it): they fit together although none is checked inside
the other. What `base.py` adds is when a task is cancelled: `SecondCancelNeedsOverlap`
says when it is cancelled again. A task may fail in its first step, before any
`try` of its own, and a task that is cancelled before its first step never runs at
all.

### `PacketMonitor`

The task (`pc`, `items`, what it was told: `cancels`, `pending`, `failing`) and the
capture process (`proc`) run in parallel over `queue`, `stop_event` and a signal;
each `get_nowait` of a drain is a step of its own. `written`, `dropped` and `lost`
are history variables for the end-to-end properties. `Finally` is the `finally` of
`monitor_packets`; `StopTimeout` and `TermWaitOver` are the escalation of
`_terminate_process`. What precedes the `try` of `monitor_packets` fails without it
(`SpawnFails`). The process exits by itself or after SIGTERM at any time
(`CaptureEnds`) or because it saw the stop event, which it looks at only when a
packet arrives (`Capture`); only SIGKILL is certain to end it. A `put_nowait` is
visible to the task at once: the feeder thread of the multiprocessing queue
delays it, which a later `Capture` stands for.

### `SystemMonitor`

`data` is the group of samples that waits for its write, `written` (history) what
Redis holds, `times` the reading of the CPU times that the next percentage is a
difference to. Samples are numbered, and the number of a sample also stands for
the reading of the CPU times taken with it; a stored percentage is thus a span
of time, `[since, time]`, and an empty span is a sample without one. `ReadCpu` has
the three outcomes of `_get_cpu`: a percentage; nothing, because the usage was not
to be read; nothing, because the limits were not, *after* the times were updated.
A group is written by one Redis transaction, all of it or nothing, and the reply
may be lost. A task suspended at an await receives one `CancelledError` however
often it was cancelled, and `monitor_system` returns on it.

### `NodeRuntime`

`stopper[s]` is where each `_stop` is: those of the signals and the one of
`_app_done_cb`. Its monitor is an instance of `NodeMonitor` whose callers are the
`_stop`s, so the whole of `start()`, `stop()` and the tasks interleaves with the
rest. The application is user code: it returns or raises when it likes, and once
cancelled it may also let the `CancelledError` through. `CatchesCancelled` chooses
the Python version: `except Exception` catches a `CancelledError` in 3.7 and not
from 3.8 on. The model begins with `run_forever`; that `loop.stop()` lets the
current iteration end is merged with the end of the process, and the done
callback with the end of the application that triggers it. The options
`--disable-monitor` and `--local` and the case without a Redis pool are left
out: the entrypoint never asks for them.

### `BrokerRuntime`

`closer[c]` is where each `_close_loop` is: those of the signals, the one that the
failure of mosquitto schedules (`Done`), and the one that `_start_monitor` runs when
`start()` fails (`Starter`; a step of its own after the failure). No lock serialises
them, so their calls of `monitor.stop()` overlap; the monitor is an instance of
`NodeMonitor` without packet tasks. The bare `except` of `_close_loop` means that
`loop.stop()` is reached whatever `monitor.stop()` meets: that is the difference to
the node, and `BrokerCloses` states it without exceptions. A mosquitto that exits
without an error is only logged and the process stays up, as in the code. As in
`NodeRuntime`, the last iteration of the loop is merged with the end of
`run_forever`. `--disable-monitor` and a mosquitto that cannot be spawned are left
out.

### `Topology` and `Deployment`

`Topology` is the compiler as a function, `Definition`, from a topology to the hosts
and networks of a Compose file, each with the names it refers to: its networks,
the hosts it depends on, its MQTT broker. Nodes and networks are names; brokers and
generic services are objects, of which two may have one name, since the Python
classes compare them by name in a set (`Distinct`) and by identity elsewhere
(`ServiceNodes`). The dictionaries are merged in the order of the code, so an
entry that has the name of an earlier one replaces it. `Valid` is what `Node` and
`Topology` assert, `UniqueNames` what the docstring of `models.py:119` asks for.
Images, resources, ports, volumes and the arguments of `tc` are left out.

`Deployment` deploys such a definition. `place[s]` is where the container of each
service is in `entrypoint.sh`; `Boot` has one action per command: the two waits of
`wait_init`, the search for the gateways, one `Route` per network, the wait for the
broker, the limits (`CpuLimits` says what may happen in there), and `chaos` for a
gateway. `table` are the containers in which the routing table exists: an update that
finds it is over at once (`routes.py:125-127`), whether its routes are complete or
not. `Start` is Swarm, which ignores `depends_on`; a container that is started anew
has neither routes nor a table. `Fails` ends a container at any place, half-way
through its routes included.

### `WaitNode`

`wait_node` and `consume_from_catalogue` for one service: `List` asks Docker for the
replicas once, or uses the plain name when there is none; each host is pinged until
it answers; the limit of any of them ends the wait. `Serves` and `Replaced` are the
environment: a container that comes up, and one that Docker replaces by another
with a new name, during the wait or after. `Subscriber` and `Detector` extend it.

### `Subscriber`

`pc` is where `app` is, `round` counts the iterations of its loop. `live` are the
subscriptions that deliver, *by round*: `_cancel_subs` is a coroutine that the loop
does not await (`subscriber.py:97`), so those of earlier rounds stay. A stream that
completes is logged and forgotten (`silent`, history). A cancellation disposes of the
last round's subscriptions, and before the first round it meets an unbound variable.

### `Detector`

Two tasks of one application. `subscribing`, `round`, `error_event`, `live` and `silent`
are those of `_subscribe_task`, with one call of `WaitNode` per camera under one
`gather`. `queue` and `processing` are those of `_process_queue`; `lock` and `waiting` are
the PTZ commands: `Faces` looks at the lock, and the task it schedules takes it
later (`PtzBegins`). A frame is its camera, and which frame of the queue is next is
left open: it depends on their ages. That a scheduled PTZ task runs before the next
frame is taken from the queue (a conjunct of `Get`) is the order of an asyncio loop:
the executor that comes between is a callback scheduled later.

### `Historian`

Time is counted in half seconds, so that the truncation of a query's bounds to
seconds (`historian.py:212, 221`) shows. `app` boots (MongoDB, indexes) and then
awaits those of two children that are configured, or none and returns: `things` reads
the observed properties, `copying` wakes every second, and when its interval is over
lists the downlink's Things and gets, for the window before now, what it stored. The
clock is read twice, for the start of the next iteration and for the window of this
one (`Reread`); `straddled` (history) are the windows between whose two readings it
ticked. `results` holds what each `get` returned: a failed one
makes `IterationFails` of the whole batch, since it is iterated before it is
tested (`historian.py:412`). `copies` records which iteration stored which document.
`Cancel` reaches both children at once, and `app` ends when they have (`CancelDone`);
`Cancelled` says which version of Python lets the copying task go on. The stop event ends no child in practice: it is set when
the task that `app` awaits is over, and its children with it (`historian.py:659-663`).

### `InteractionTrace`

Every request leaves one record, with what its caller got; every subscription
leaves one for each of its events, in the order `MayFollow` allows. Each record is
written by a task of its own (`writing`), in any order, until the pool is closed;
a write that fails is logged (`lost`). The sorted set keeps a member once, with the
time in the record as its score. A request that is cancelled leaves no record on
Python 3.8, where `except Exception` does not see it. A record names its request
and its subscription here. In the code that of a request names only the
interaction (`things.py:46-54, 110-117`), and subscriptions to one decorated
observable share a `sub_id` (`things.py:164`): records of two requests or two
subscriptions that say the same at the same microsecond are one member in Redis.
As the score is part of the text, the order of the events is the same for it.

### `MetricConnection`

`state` is the connection in the variable of the module, `up` those open at both
ends. Between the ping of a writer and its use of the connection others may have
replaced it. Connections break one at a time (`Drops`) or all together
(`RedisRestarts`), and the bare `except` takes any error of a ping for a dead
connection, an error that Redis answers and a cancellation included
(`PingMistaken`). Nobody closes a connection that is replaced. What was opened for
nothing stays open until Redis restarts: `ConnectionsBounded` counts it, per
fault, since without limit on the faults there is none on the connections.

### `StackReport`

`wotemu stop`, `wotemu report` and the tasks they are about, in parallel. A task is of
a service (`ServiceOf`), starts at once or is a replacement that Swarm makes wait
(`Delays`: Docker then desires it "ready"). `Inspect` lists all tasks of one service,
started or not, and the logs are fetched before the next service is listed, so that
tasks start, end and are replaced in between. `Deploy` scales the stack down, or fails
when some of the services are down already; `StoreSnapshot` and `StoreCompose` write or
do not, and the command ends either way. `Inspected` is what the report later reads
of such a task: whatever is not desired to be "running" is over
(`report/reader.py:36-37`). A service's first task counts as desired "running" from its
creation, and Docker's limit on the tasks it remembers is not modelled. The row of
Redis's own task, which is always there, belongs to no task of the model. The report is a list
of reads (`todo`), made of the figures of each task, the index and the Compose file
in the order of `build_report`, or of the dataset; `cache` is that of the builder,
`shown` what the pages draw. Data is a number of records of each kind: a read shows
how many there were at that moment. `Fail` is the error of a report without a
snapshot or without any packet. The application metrics and the Compose file go past
the cache; the former are left out. The traffic of all tasks is one read here, and an
empty snapshot does not occur.

## 3. The runs

| Run | Instance | Shows |
|---|---|---|
| `cpu_limits` | 3 replicas, 2 polls, 1 death, 1 expiry | `AppliesMeasuredPoly`: the claim is never taken for coefficients. `NoLateBenchmark`: whoever looks after the claim waits. `PublishedSurvives`: a stale check never overwrites coefficients. `EveryReplicaServed`: whoever claimed and died, the others finish |
| `cpu_limits_parallel` | as `cpu_limits` | *violated*: `OneBenchmark`, the purpose stated in `limits.py:110-115` |
| `node_monitor` | 2 interfaces, 3 callers of `stop()` | `RedisOutlivesTasks`, `ReturnsClean` under every interleaving and any fault; `SecondCancelNeedsOverlap`: who interrupts a clean-up; `StopEnds` |
| `packet_monitor` | queue of 2, 5 packets, 2 cancellations | `BatchBound`, `NothingVanishes`, `StoredInOrder`, `CaptureStopped`, `ImplementsMonitorTask`; `CaptureGone` and `DeadCaptureNoticed` |
| `system_monitor` | groups of 2, 5 samples, 2 cancellations | `StoredIsPrefix`, `AtMostOneGroupMissing`, `CpuSpansDisjoint`, `ImplementsMonitorTask` |
| `node_runtime` | 2 signals, 2 interfaces, Python 3.8 | `AppGoneFirst`, `CleanupUninterrupted`, `CleanExit`, `ExitCodeTellsErrors`; `StopCompletes`: the process ends, or one of the two known reasons holds |
| `node_runtime_recovery` | 1 signal, 1 interface, Python 3.7 | *violated*: `AppErrorEndsNode`, promised by `README.md:21` |
| `node_runtime_python38` | 1 signal, 1 interface, Python 3.8 | *violated*: `SignalEndsNode`, the case `app.py:164-165` means to handle |
| `broker_runtime` | 2 signals | `CleanClose`: the loop stops over a clean monitor unless it was starting or had failed; `BrokerCloses`: the process ends whatever `monitor.stop()` meets |
| `applications` | detector: 2 cameras, 2 rounds, queue of 1, 2 frames; subscriber: 2 replicas, 2 streams, 3 rounds; historian: windows of 2 s, 4.5 s in all, 1 document | `NoCameraForgotten`, `OneCommandPerCamera`; `CopiedOnce`; `ThingsComeBack`: a lost subscription is renewed or the application ends; `CancelledAppEnds` |
| `records` | trace: 1 request, 1 subscription with 2 events; metrics: 2 writers, 6 connections, 2 that drop alone, 1 mistaken ping; stop and report: a task and its replacement, 1 record | `RequestsRecorded`, `TraceKeepsOrder`; `ConnectionsBounded`; `PagesAgree`; `ShownAsItEnded`: what a report shows as failed or over was, or was waiting, before the stack was stopped; `MCTypeOK`, the type invariants of the three |
| `deployment` | every topology of 2 nodes, 2 networks, 2 brokers, 2 services, with names that collide, compiled; 2 deployed, 1 fault | `DefinitionClosed`; `AppRunsRouted`; `StackComesUp`: whatever fails, all containers run in the end |

In `applications` and `records` an initial choice decides which of the parts runs, as
they share nothing. `MCProcesses` holds the two processes that run a monitor, with one
specification each: the runs of the node use `NodeFairSpec`, the broker's
`BrokerFairSpec`, and in either what belongs to the other process has no value. The
type invariants of all modules with variables of their own, but for `WaitNode`'s,
which is part of two of them, are theorems (section 5). Safety and liveness share a
run wherever one instance serves both.

Why the bounds are enough. Three replicas are the fewest for "one claims, one
was late, one was early"; two polls let a wait both succeed and time out; one
death suffices to orphan a claim; the expiry lets another replica claim it anew. Three
callers of `stop()` can be in its three stages at once, and two interfaces are
the fewest for which `gather` returns while a task is still in its clean-up. A
queue of two holds one batch in which the counter check bites (three items)
while packets meet a full queue; five packets fill a batch and a queue; two
cancellations are the fewest that interrupt a clean-up, and a third one finds
nothing a second one does not (`MonitorTask` has no further state). Two signals
and the failure of the application give three overlapping `_stop`. A group of two
is partly full, full, or being written, and five samples are two groups and a
partial third. The broker has two signals, the failure of mosquitto and the
failed start: four closers, more than the stages of `stop()` they could be in.
The node runs on Python 3.8, the version of the image: what 3.7 adds is a `_stop`
that goes on after a `CancelledError` of the application, and the proofs of section
5 cover both.

One of the detector's two cameras may lose its container and the other not, so one
call raises or waits while the other has returned; two rounds are the fewest in
which old subscriptions deliver beside new ones; a queue of one is full at once. The
subscriber's two replicas let a wait end with one that was replaced. Two windows of the
historian fit in its four and a half seconds with one that starts late or straddles a
tick, and one document is enough to be copied twice. Two writers can both find a
connection dead, and again each time that one drops alone: six connections leave
room for two such drops, a restart of Redis in between and a mistake. Two events and
the end of a subscription can be written in every order. A task
and its replacement let one end, wait or start between two reads about the other,
or between the list and the end of their service, and one record is there or not.
Several services, each listed at another moment, are covered by the proof. In
`deployment`, a broker has the name of both services, the other broker that of a
node, and a gateway that of the same node: whichever entry comes last in
`compose.py:329-350` replaces the others. That two brokers, or two services, of one
topology have one name is excluded (`UniqueNames`). The deployed topology has a node whose broker is on another network,
with conditions for both networks or for one of them (its gateway then fails for
ever, and `StackComesUp` does not apply).

Deadlock checking is off where the system really stops: a monitor that was
stopped, a task that is over, a node or broker process that ended or hangs, an
application that ended, a stack that is down and reported on, a topology that is
compiled and not deployed. In `CpuLimits`
it is on, and the end is a step of its own (`Finished`).

Fairness. An asyncio loop runs whatever is ready and never starves a coroutine,
hence weak fairness of every resumption; Redis answers or drops the
connection, which is a step too; waits of the clean-up are bounded by their
timeouts (`packet.py:153-159`); SIGKILL ends a process; Swarm replaces a dead
container. A wait of `wait_node` and every request of the historian have limits
(`utils.py:58-66`), which makes their steps fair: they may time out and hence end.
In `Deployment` every container that should run is started and goes on (weak
fairness of `Start` and `Boot` for each service). No fault, no signal, no packet, no
expiry, no death, no record, no error of a stream, no new container and no end of a
running application is ever forced. `NodeRuntime` also assumes that a cancelled
application ends: that is user code, and without it `wait_for` itself never
returns.

## 4. Findings

* `OneBenchmark` (`cli/limits.py:75`): GET and SET NX are two commands and the reply
  of the second is ignored, so replicas that start together benchmark together.
* `AppErrorEndsNode` (`cli/app.py:170`): a failed task of the monitor raises again in
  every `monitor.stop()`, which `_stop` awaits outside of any `try`; `loop.stop()`
  is not reached and Swarm sees a healthy container.
* `SignalEndsNode` (`cli/app.py:164`): on Python 3.8, which the image installs, the
  `CancelledError` of an application that lets it through leaves `_stop` before it
  stopped anything. A further signal meets the same error: `wait_for` on
  the cancelled application raises it again.

A `stop()` that meets a suspended `start()` (`monitor/base.py:153`) stops nothing, and
the tasks and the pool created afterwards are orphaned. No document says
otherwise, so it is no finding: the history variable `overlap` takes it out of
`RedisOutlivesTasks`, `ReturnsClean`, `CleanExit` and `CleanClose`.

Other behaviour that the models contain and that no document rules out: a cancelled
subscriber that never subscribed ends with an `UnboundLocalError`
(`subscriber.py:100`); one failed `get` discards the batch of every other property
(`historian.py:412`); values between two windows of the downlink are never copied
(`historian.py:451`); old subscriptions of the detector and the subscriber are never
disposed of (`detector.py:300`, `subscriber.py:97`); replaced connections of
`write_metric` are never closed; a document may be copied twice if a second ends
between the two readings of the clock of one iteration (`historian.py:364, 443`), as
the bounds of a query are truncated to seconds; a routing table left by an update
that failed is taken for complete, which only the new container that every failure
leads to makes harmless (`routes.py:125-127`); a stop whose snapshot was not stored
reports success (`stop.py:69`), and so the report that follows cannot be built. On Python 3.7 a
cancelled historian may go on copying: `CancelledAppEnds` is checked for 3.8, which
the image installs.

One comes near to a finding. A replacement that waits for its start when `stop.py:54` lists
it has the desired state "ready", which `report/reader.py:36-37` reads as over; if it
starts while the logs are fetched, and introduces itself, the report calls it "shut down
prematurely (before the stack was manually stopped)" (`task_section.py:13`), although the
stop ended it. `ShownAsItEnded` names the exception (`delayed`) and says that there is
no other.

## 5. The proofs

The `_proofs` modules hold the theorems, for every value of the constants that
satisfies the named assumptions of the modules: finite sets of replicas, interfaces
and signals where a module counts or enumerates them, names that do not collide
(the system task is no interface, the network of a service is no emulated network),
natural bounds, at least one replica per service, topologies whose fields are sets of
the right kind (`TopologyOK`). Nothing else is assumed. `TypeCorrect`, in each of them,
is the type invariant, on which the rest builds.

* `CpuLimits_proofs`: `TypeCorrect`; `AppliedIsMeasured`, with the strengthening that
  the local polynomial is a measured one wherever it is about to be used;
  `LateReplicasWait`, with the strengthening that before any disturbance the key is
  present from the first claim on, so that whoever holds the key's absence in
  its control state checked early; `PublicationIsKept`, an action property that
  follows from the NX of the claim alone.
* `NodeMonitor_proofs`: `TypeCorrect`, `TasksHaveRedis` and `ReturnedIsClean`. The
  inductive invariant says which tasks may still be alive given the attributes
  that are set and the stage each `stop()` is in: a caller beyond the system stage
  knows that the system task is over, and so on. It is needed because a
  caller's stage says what *another* caller may have reset. `RaisedIsFault` (a
  `stop()` raises only if a task failed) rests on `FaultInv`: there are no tasks
  before `start()` creates them, and a fault never heals. `InterruptedByTwo`: that a
  packet task in its clean-up is waited for by the call that cancelled it, and the one
  that cancels it again waits beside it.
* `PacketMonitor_proofs`: `BatchIsBounded`, `NoProcessLeft`, `StoredAreInOrder`,
  `NothingIsLost`, and `ImplementsTask`, that every step of the capture task is a step of
  `MonitorTask`. `StoredAreInOrder` needs an order over everything on its way: what is written,
  gathered and queued, in this order, was captured in this order, so that a drain
  can only append later packets to a batch. `NothingIsLost` is the account of the
  packets: each step moves numbers between the four places and neither makes nor
  takes one, by lemmas about what `Head`, `Tail`, `Append` and concatenation do to
  the elements and the length of a sequence. The invariant of the last one relates
  the place of the task to what it was told (a clean-up begun by a cancellation
  is interrupted only by a second one; before the first step there is nothing
  to clean up).
* `SystemMonitor_proofs`: `StoredOnce` and `OneGroupAtStake`, from `CountInv`: what is
  written, followed by what is gathered, are the samples taken so far without a
  gap, except after the task is over. `NoMomentCountedTwice`, from `SpanInv`: no span
  of a sample begins before the end of an earlier one, and none ends after the
  last reading of the CPU times. `ImplementsTask`, as for `PacketMonitor`.
* `Processes_proofs`, of the node: `ApplicationIsGoneFirst` and `ExitCodeIsTruthful`; the
  invariant says of each `_stop` beyond its first stage that the application is
  over. `UsesMonitor`: the node implements `NodeMonitor`, whose theorems therefore
  hold inside of it (the module instantiates `NodeMonitor_proofs` and cites them).
  `NodeExitsClean` adds `LockInv`: only the holder of the lock is at work, and where
  it is in `_stop` agrees with where its call of `monitor.stop()` is.
  `CleanupIsUninterrupted` combines the two: as the lock keeps the calls of
  `monitor.stop()` apart, a packet task is cancelled only by the one call that then
  waits for its end, unless a task failed (`CancelledOnce`). `StopsAreNotLost` is what
  `StopCompletes` rests on: a `_stop` that was ignored was ignored for one that is at
  work, and the lock is given up before the end of the loop only with an error that
  has a cause that stays.
* `Processes_proofs`, of the broker: `BrokerUsesMonitor`, and `LoopStopsClean`: whoever
  stopped the loop had an end of `monitor.stop()` in hand, which by the theorems of
  `NodeMonitor` was a clean return or the sign of a failed task.
* `Applications_proofs`, of the detector: `ForgetsNoCamera`, from an invariant about the
  gather: a camera whose call has returned delivers, ended silently, or has set the
  event since; and the event is only cleared where all calls are made again.
  `CommandsDoNotPileUp` needs that whoever takes a frame from the queue found no command
  about to begin.
* `Applications_proofs`, of the other two: `SubscriberTypes` and `SubscriberHolds`, which says
  what `_cancel_subs` forgets (the subscriptions of rounds before the last) and what it
  does not (those of the last). `NoStreamForgotten`, which `ThingsComeBack` rests on: the
  event is cleared only where every stream is subscribed to anew before the next wait.
  `HistorianEnds`: the stop event of the historian is set when both of its children are
  over, and so ends neither. `HistorianTypes` and `CopiesOnce`. The latter is an
  argument about time: `WindowsInv` says that an iteration starts at least an interval
  after the one before, that what was copied lies in the window of the iteration that
  copied it, and that the windows of two of them are an interval apart (`Apart`), unless
  the first straddles a tick of the clock; `WindowsDisjoint` that such windows share no
  moment, although both bounds lose a fraction of a second. That the second window
  starts an interval after the first *started*, and not after it should have, is what
  the proof needs of `historian.py:451`.
* `Records_proofs`, of the trace: `EveryRequestRecorded`, whose property is inductive as
  it stands: a record is somewhere on its way, whichever step moves it, and names its
  request. `EventsKeepOrder` (`Chronology`) that the events of a
  subscription were emitted in the order of their times and that the score of a record
  is its own time, so that the order of the writes does not matter.
* `Records_proofs`, of the metrics: `ConnectionsStayBounded`. What is inductive is stronger
  (`MetricInv`): the connections that are up *and* the writers that will open another
  (`Opening`: those that found theirs dead, and those whose ping is going to) are no more
  than all writers, the mistakes, and one for each drop and each other writer. The crux is
  that while the connection in the variable of the module is up, a writer that comes
  then is not one of them, unless its ping is mistaken; when that connection drops
  alone, all writers may become so, while one fewer is up.
* `Records_proofs`, of the stop and the report: `TasksShownAsTheyEnded`, from
  `SnapshotInv`: what was found, stored, cached or shown of a task that is over, or that
  was made to wait, is true of it, and stays so, since a task that has ended does not
  change any more and the stop lists before it scales down. `PagesOfAReportAgree`, from `PagesInv`: while pages are built, whatever they
  show is what the cache answers, but for the Compose file. That needs `ReportReads`, a lemma about the list of
  reads for any number of tasks: the one read that goes past the cache is the last.
  `RecordsTypes` is the type invariant of the three, and says in addition that no event
  of a subscription follows its end.
* `Deployment_proofs`: `DefinitionIsClosed` is about the compiler alone, by cases of the
  kind of entry that a name has in the merged dictionaries. Its crux is that every
  network a host is given is one of `TopologyNetworks`, even if the broker or the
  service in the definition is not the object that the node refers to. `AppsRunRouted`
  adds that a container past its routing has all its routes, that one which is about to
  begin it has no table yet (so that it never skips it), and that the definition of a
  deployed topology does not change.

Every invariant and every action property that a run checks is thus a theorem.

Only model-checked: the liveness properties (`EveryReplicaServed`, `StopEnds`,
`StopCompletes`, `CaptureGone`, `DeadCaptureNoticed`, `BrokerCloses`, `ThingsComeBack`,
`CancelledAppEnds`, `StackComesUp`), which need fairness and ENABLED, and these the prover
does not handle. What three of them rest on is proved (`StopsAreNotLost`, `NoStreamForgotten`,
`HistorianEnds`). The three violations of section 4 are TLC's counterexamples.

## 6. Not modelled

* The report's layout (`report/components/`, `report/utils.py`), figures and data
  frames: they keep no state. The application metrics of a report are read past the
  cache and shown once.
* The clock, camera, caller, reader, worker and error applications: loops around one
  call each. How they end is in `NodeRuntime`, what they call in `InteractionTrace` and
  `MetricConnection`.
* Configuration and enumerations: read once, names only. The parsing of the command
  line and the import of an application from a file or a URL (`cli/app.py:31-98`) run
  before anything concurrent does.
* `get_node_info` (`monitor/system.py:237-405`): guarded queries, made once.
* The stateless queries of `utils.py`, the display filter and fields of a packet, the
  polynomial fit and quota arithmetic of `topology/cpu.py`, the images, resources and
  ports of a Compose file: data that no property tells apart.
* The signal handler of `cli/chaos.py`: it cleans the interface of a container that is
  about to disappear with it.
* A second `wotemu stop`, which takes a snapshot of a stack that is already down, and
  duplicated rows of a frame when two services share a virtual address
  (`report/reader.py:233`).
* The repository's tests, examples and build files; WotPy, Docker, Redis, MongoDB and
  mosquitto themselves, which appear as what they may answer.
