----------------------------- MODULE StackReport -----------------------------
\* wotemu stop and wotemu report: what becomes of an emulation once its tasks
\* have run.  stop_stack (cli/stop.py) inspects the tasks of the stack, scales
\* every service but Redis down, and stores what it had found; ReportBuilder
\* (report/builder.py) asks ReportDataRedisReader (report/reader.py) for the
\* data of every task and lays it out in pages.  Nothing keeps the two, or the
\* nodes that still write, apart.
\*
\* Abstracted: the figures (a figure is the data it draws), the pages' layout,
\* the contents of samples, packets and interaction records (their number), logs
\* and the Compose file (stored or not).
EXTENDS Naturals, Sequences, FiniteSets, SequencesExt

CONSTANTS
    Tasks,          \* the Docker tasks of the emulated nodes, replacements included
    ServiceOf,      \* the service that each of them belongs to
    MaxRecords,     \* bound on the records that the tasks store
    Nothing         \* what a read returns, or stands for, when there is nothing

ASSUME ReportAssumption ==
    MaxRecords \in Nat /\ IsFiniteSet(Tasks) /\ DOMAIN ServiceOf = Tasks

\* The services that wotemu stop takes down: Redis's is not one of them.
Services == {ServiceOf[t] : t \in Tasks}

VARIABLES
    status,     \* what Docker says of every task
    delayed,    \* the tasks that Swarm made wait for their start
    down,       \* the services that have been scaled to nothing
    early,      \* the tasks that ended before that
    records,    \* Redis: the number of records of each kind of each task
    info,       \* Redis: the tasks that have written their node information
    snapshot,   \* Redis: the statuses of the last snapshot, or Nothing
    compose,    \* Redis: a Compose file has been stored
    stop,       \* stop_stack: the step that comes next
    listed,     \* stop_stack: the services whose tasks have been listed
    found,      \* stop_stack: the statuses found so far
    report,     \* the report: not asked for, being built, written or failed
    todo,       \* the report: the reads that are left
    cache,      \* ReportBuilder._cache: results by call
    shown       \* the report: what its pages show, as [page, call, value]

stackVars == <<status, delayed, down, early, records, info>>
storeVars == <<snapshot, compose>>
stopVars == <<stop, listed, found>>
reportVars == <<report, todo, cache, shown>>
vars == <<stackVars, storeVars, stopVars, reportVars>>

\* System samples, captured packets and interaction records.
Kinds == {"system", "packet", "thing"}
Statuses == {"ready", "running", "finished", "failed"}

\* A call of the reader: the function, and the task it is about (or Nothing).
Call(func, task) == [func |-> func, task |-> task]

\* A dictionary f to which key k has been added, or in which it has been replaced.
Put(f, k, v) == [x \in DOMAIN f \cup {k} |-> IF x = k THEN v ELSE f[x]]

-------------------------------------------------------------------------------
\* The stack (Docker Swarm, and the monitor of each of its tasks).

Init ==
    /\ status = [t \in Tasks |-> "none"] /\ delayed = {} /\ down = {} /\ early = {}
    /\ records = [cell \in Kinds \X Tasks |-> 0] /\ info = {}
    /\ snapshot = Nothing /\ compose = FALSE
    /\ stop = "idle" /\ listed = {} /\ found = <<>>
    /\ report = "none" /\ todo = <<>> /\ cache = <<>> /\ shown = <<>>

Over(t) == status[t] \in {"finished", "failed"}

\* Swarm replaces a task that has ended, and may make the new one wait (the delay of
\* the restart policy): it is there, with "ready" as its desired state.
Delays(t) ==
    /\ status[t] = "none" /\ ServiceOf[t] \notin down
    /\ \E p \in Tasks : ServiceOf[p] = ServiceOf[t] /\ Over(p)
    /\ status' = [status EXCEPT ![t] = "ready"] /\ delayed' = delayed \cup {t}
    /\ UNCHANGED <<down, early, records, info, storeVars, stopVars, reportVars>>

\* A task starts: at once, or when it has waited.
Starts(t) ==
    /\ status[t] \in {"none", "ready"} /\ ServiceOf[t] \notin down
    /\ status' = [status EXCEPT ![t] = "running"]
    /\ UNCHANGED <<delayed, down, early, records, info, storeVars, stopVars, reportVars>>

\* NodeMonitor.start introduces the task before anything else, and its callbacks
\* store what is captured.
Introduces(t) ==
    /\ status[t] = "running" /\ t \notin info
    /\ info' = info \cup {t}
    /\ UNCHANGED <<status, delayed, down, early, records, storeVars, stopVars, reportVars>>

Records(k, t) ==
    /\ status[t] = "running" /\ t \in info
    /\ MapThenSumSet(LAMBDA cell : records[cell], DOMAIN records) < MaxRecords
    /\ records' = [records EXCEPT ![<<k, t>>] = @ + 1]
    /\ UNCHANGED <<status, delayed, down, early, info, storeVars, stopVars, reportVars>>

\* A task ends: by itself, or because its service is being taken down.  One that has
\* not started has no exit code.
Ends(t) ==
    /\ \/ /\ status[t] = "running"
          /\ \E s \in {"finished", "failed"} : status' = [status EXCEPT ![t] = s]
       \/ /\ status[t] = "ready"
          /\ status' = [status EXCEPT ![t] = "finished"]
    /\ early' = IF ServiceOf[t] \in down THEN early ELSE early \cup {t}
    /\ UNCHANGED <<delayed, down, records, info, storeVars, stopVars, reportVars>>

\* What docker.APIClient.tasks tells of a task, as _is_task_running and
\* _is_task_error read it: a task with another desired state than "running" is over,
\* and in error by its exit code.  Docker desires the end of a task of a service
\* without replicas, whether it has ended or not, and "ready" of one that waits.
Inspected(t) ==
    IF status[t] = "ready" \/ (status[t] = "running" /\ ServiceOf[t] \in down)
    THEN "finished" ELSE status[t]

-------------------------------------------------------------------------------
\* wotemu stop.

\* _assert_stack_exists: there are the services; and the Compose file is read.
StartStop ==
    /\ stop = "idle"
    /\ stop' = "inspect"
    /\ UNCHANGED <<listed, found, stackVars, storeVars, reportVars>>

\* _get_stack_snapshot lists the tasks of one service after the other, and fetches the
\* logs of each of them before it lists the next service's: the stack goes on
\* meanwhile.  Docker lists a task from its creation on.
ListedTasks(service) == {t \in Tasks : ServiceOf[t] = service /\ status[t] # "none"}

Inspect(service) ==
    /\ stop = "inspect" /\ service \notin listed
    /\ listed' = listed \cup {service}
    /\ found' = [t \in DOMAIN found \cup ListedTasks(service) |->
                    IF t \in ListedTasks(service) THEN Inspected(t) ELSE found[t]]
    /\ UNCHANGED <<stop, stackVars, storeVars, reportVars>>

\* An error of Docker ends the command, and what it had found is lost.
InspectFails ==
    /\ stop = "inspect" /\ stop' = "ended" /\ found' = <<>>
    /\ UNCHANGED <<listed, stackVars, storeVars, reportVars>>

\* docker stack deploy with no replicas but Redis's, and the lookup of Redis's port.
\* When one of them fails, after all or some of the services have been scaled down,
\* the command ends.
Deploy ==
    /\ stop = "inspect" /\ listed = Services
    /\ \/ down' = Services /\ stop' = "store snapshot" /\ found' = found
       \/ down' \in SUBSET Services /\ stop' = "ended" /\ found' = <<>>
    /\ UNCHANGED <<status, delayed, early, records, info, listed, storeVars, reportVars>>

\* _zadd_json logs every error and goes on: the stop is reported as a success
\* with or without the snapshot.
MutStoreSnapshotOfNow ==
    /\ stop = "store snapshot" /\ stop' = "store compose"
    /\ snapshot' \in {[t \in DOMAIN found |-> Inspected(t)], snapshot} /\ found' = <<>>
    /\ UNCHANGED <<compose, listed, stackVars, reportVars>>
StoreSnapshot ==
    /\ stop = "store snapshot" /\ stop' = "store compose"
    /\ snapshot' \in {found, snapshot} /\ found' = <<>>
    /\ UNCHANGED <<compose, listed, stackVars, reportVars>>

StoreCompose ==
    /\ stop = "store compose" /\ stop' = "ended"
    /\ compose' \in BOOLEAN
    /\ UNCHANGED <<snapshot, listed, found, stackVars, reportVars>>

-------------------------------------------------------------------------------
\* The reader: one function per call, each answered from Redis as it is now.

\* Addresses are those of the tasks that have introduced themselves, and packets get
\* the task, service and network of each: what a frame says depends on the moment.
Addresses == info
Extended(packets) == [packets |-> packets, known |-> Addresses]

\* get_packet_df and get_service_traffic_df return None when no task they are
\* about has captured anything; get_snapshot_df when no snapshot was stored.
ReadPackets(t) ==
    IF records["packet", t] = 0 THEN Nothing ELSE Extended(records["packet", t])

ReadRecords(c) == records[c.func, c.task]

\* One read for all tasks here: get_service_traffic_df awaits the frame of each.
Traffic ==
    LET captured == {t \in info : records["packet", t] > 0}
    IN  IF captured = {} THEN Nothing ELSE [t \in captured |-> ReadPackets(t)]

\* The snapshot knows a task by its Docker identifier: rows of tasks that have not
\* introduced themselves belong to none, as that of Redis's task does, for which the
\* frame is never without rows.
ReadSnapshot ==
    IF snapshot = Nothing THEN Nothing
    ELSE [t \in DOMAIN snapshot \cap info |-> snapshot[t]]

Read(c) ==
    CASE c.func \in {"system", "thing"} -> ReadRecords(c)
      [] c.func = "packet" -> ReadPackets(c.task)
      [] c.func \in {"inbound", "outbound"} -> Traffic
      [] c.func = "snapshot" -> ReadSnapshot
      [] c.func = "info" -> c.task \in info
      [] c.func \in {"tasks", "info_map"} -> info
      [] c.func = "compose" -> compose

\* ReportBuilder._reader_exec: what was read once is not read again.  The Compose
\* file goes past the cache (and so do the application metrics, left out here).
MutCachedOnlyTasks(c, value) == IF c.func # "tasks" THEN cache ELSE Put(cache, c, value)
Cached(c, value) ==
    IF c.func = "compose" THEN cache ELSE Put(cache, c, value)

Answer(c) == IF c \in DOMAIN cache THEN cache[c] ELSE Read(c)

-------------------------------------------------------------------------------
\* wotemu report.

\* The reads of a page, in order: a request is a call and the page it is for.
For(page, calls) == [i \in DOMAIN calls |-> [page |-> page, call |-> calls[i]]]

EachTask(func, tasks) ==
    LET ts == SetToSeq(tasks) IN [i \in DOMAIN ts |-> Call(func, ts[i])]

\* What the figures ask for.  Those that draw the same frame ask for it again: one
\* request stands for them.
UsageFigures(t) == <<Call("system", t)>>
PacketFigures(t) == <<Call("packet", t)>>
InteractionFigures(t) == <<Call("thing", t)>>
ServiceTrafficFigures == <<Call("inbound", Nothing), Call("outbound", Nothing)>>
NetworkTrafficFigure(tasks) == <<Call("tasks", Nothing)>> \o EachTask("packet", tasks)
RankingFigures(tasks) == EachTask("system", tasks)
TimelineFigure == <<Call("snapshot", Nothing)>>

\* _get_task_section_component: the nine figures of a task, its row of the
\* snapshot, its information.
SectionReads(t) ==
    UsageFigures(t) \o PacketFigures(t) \o InteractionFigures(t)
    \o <<Call("snapshot", Nothing), Call("info", t)>>
Section(t) == For(t, SectionReads(t))

\* build_report after the sections: the list of tasks, the figures, the Compose file.
Index(tasks) ==
    For("index",
        <<Call("snapshot", Nothing), Call("info_map", Nothing)>>
        \o ServiceTrafficFigures \o NetworkTrafficFigure(tasks) \o RankingFigures(tasks)
        \o TimelineFigure \o <<Call("compose", Nothing)>>)

\* The turns of the n reads of every task, one task after the other.
TaskByTask(tasks, n) ==
    LET ts == SetToSeq(tasks)
    IN  [i \in 1..n * Len(ts) |->
            [task |-> ts[1 + ((i - 1) \div n)], read |-> 1 + ((i - 1) % n)]]

Sections(tasks) ==
    LET turns == TaskByTask(tasks, 5)
    IN  [i \in DOMAIN turns |-> Section(turns[i].task)[turns[i].read]]
Pages(tasks) == Sections(tasks) \o Index(tasks)

\* write_report_dataset: the same data in one file.
DatasetReads(t) ==
    UsageFigures(t) \o PacketFigures(t) \o InteractionFigures(t) \o <<Call("info", t)>>
TasksData(tasks) ==
    LET turns == TaskByTask(tasks, 4)
    IN  [i \in DOMAIN turns |-> DatasetReads(turns[i].task)[turns[i].read]]
Dataset(tasks) ==
    For("dataset",
        TasksData(tasks)
        \o <<Call("inbound", Nothing), Call("outbound", Nothing), Call("snapshot", Nothing)>>)

\* The tasks are asked for first: the pages are those of the tasks known then.
StartReport ==
    /\ report = "none" /\ report' = "building"
    /\ todo' \in {Pages(info), Dataset(info)}
    /\ cache' = Cached(Call("tasks", Nothing), info)
    /\ UNCHANGED <<shown, stackVars, storeVars, stopVars>>

\* The pages cannot do without a snapshot, nor without the traffic of one task:
\* builder.py:264 and 680 (642 if no task is known) use the None as a frame,
\* builder.py:318 concatenates no frame at all.  The dataset writes null.
Unusable(request, value) ==
    /\ request.page # "dataset"
    /\ \/ request.call.func \in {"inbound", "outbound", "snapshot"} /\ value = Nothing
       \/ request.call.func = "tasks" /\ value = {}
       \/ /\ request.page = "index" /\ request.call.func = "packet"
          /\ \A i \in DOMAIN shown :
                shown[i].call.func = "packet" => shown[i].value = Nothing

GetData ==
    /\ report = "building" /\ todo # <<>>
    /\ LET request == Head(todo)
           value == Answer(request.call)
       IN  /\ ~Unusable(request, value)
           /\ cache' = Cached(request.call, value)
           /\ shown' = Append(shown,
                 [page |-> request.page, call |-> request.call, value |-> value])
    /\ todo' = Tail(todo)
    /\ UNCHANGED <<report, stackVars, storeVars, stopVars>>

\* The error ends the command: pages are written when all of them are built.
Fail ==
    /\ report = "building" /\ todo # <<>>
    /\ Unusable(Head(todo), Answer(Head(todo).call))
    /\ report' = "failed" /\ shown' = <<>> /\ cache' = <<>> /\ todo' = <<>>
    /\ UNCHANGED <<stackVars, storeVars, stopVars>>

Write ==
    /\ report = "building" /\ todo = <<>>
    /\ report' = "written" /\ cache' = <<>>
    /\ UNCHANGED <<todo, shown, stackVars, storeVars, stopVars>>

-------------------------------------------------------------------------------

Stack ==
    \/ \E t \in Tasks : Delays(t) \/ Starts(t) \/ Introduces(t) \/ Ends(t)
    \/ \E k \in Kinds, t \in Tasks : Records(k, t)
Stop ==
    \/ StartStop \/ InspectFails \/ Deploy \/ StoreSnapshot \/ StoreCompose
    \/ \E service \in Services : Inspect(service)
Report == StartReport \/ GetData \/ Fail \/ Write
Next == Stack \/ Stop \/ Report

Spec == Init /\ [][Next]_vars

-------------------------------------------------------------------------------

TypeOK ==
    /\ status \in [Tasks -> Statuses \cup {"none"}]
    /\ delayed \subseteq Tasks /\ early \subseteq Tasks /\ info \subseteq Tasks
    /\ down \subseteq Services /\ listed \subseteq Services
    /\ records \in [Kinds \X Tasks -> Nat]
    /\ snapshot = Nothing \/ DOMAIN snapshot \subseteq Tasks
    /\ compose \in BOOLEAN
    /\ stop \in {"idle", "inspect", "store snapshot", "store compose", "ended"}
    /\ DOMAIN found \subseteq Tasks /\ \A t \in DOMAIN found : found[t] \in Statuses
    /\ report \in {"none", "building", "written", "failed"}

\* A task that a report shows as an error did fail before its service was scaled
\* down, and one that it shows as over ("shut down prematurely", task_section.py:13)
\* had ended as it is shown, unless Swarm had made it wait: what stop_stack stores is
\* what it found before it took the tasks down, whatever ended, started, was replaced
\* or was being read meanwhile.
ShownAsItEnded ==
    report = "written" =>
        \A i \in DOMAIN shown :
            LET seen == shown[i].value
            IN  shown[i].call.func = "snapshot" /\ seen # Nothing =>
                    \A t \in DOMAIN seen : seen[t] # "running" =>
                        \/ t \in early /\ status[t] = seen[t]
                        \/ t \in delayed /\ seen[t] = "finished"

\* The pages of one report agree: the section of a task, the list and the
\* timeline draw the same snapshot, and the figures of a section the same samples
\* and packets as the rankings and the network traffic, although the tasks store
\* more while the report is built, and the stack may be stopped meanwhile.
PagesAgree ==
    report = "written" =>
        \A i, j \in DOMAIN shown :
            shown[i].call = shown[j].call => shown[i].value = shown[j].value
=============================================================================
