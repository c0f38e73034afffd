------------------------------ MODULE CpuLimits ------------------------------
(***************************************************************************)
(* `wotemu limits` (cli/limits.py, topology/cpu.py): before its            *)
(* application starts, every replica placed on one Swarm host needs the    *)
(* CPU speed polynomial of that host.  One of them should run the sysbench *)
(* benchmark and share the result in Redis; the others wait for it.  The   *)
(* rendezvous is a single key per host, holding nothing, a JSON null       *)
(* written as a claim, or the coefficients.                                *)
(*                                                                         *)
(* A Redis command is atomic on the server, so each action below is one    *)
(* command, or the synchronous code between two commands.                  *)
(***************************************************************************)
EXTENDS Naturals, FiniteSets

CONSTANTS
    Replicas,     \* the replicas on one host; also the name of what each measures
    NoKey,        \* the key does not exist
    Placeholder,  \* the JSON null written by _lock_poly
    NoPoly,       \* the Python None in cpu_poly
    MaxPolls,     \* polls that fit in `timeout`: timeout / wait (300 / 2 by default)
    MaxDeaths,    \* bound: containers that die before their limits are applied
    MaxExpiries   \* bound: times the key outlives _EXPIRE_SECS

ASSUME ReplicasAssumption == IsFiniteSet(Replicas)
ASSUME NamesAssumption ==
    /\ NoKey \notin Replicas /\ Placeholder \notin Replicas /\ NoPoly \notin Replicas
    /\ NoKey # Placeholder
ASSUME BoundsAssumption ==
    MaxPolls \in Nat \ {0} /\ MaxDeaths \in Nat /\ MaxExpiries \in Nat

VARIABLES
    key,        \* the benchmark key of this host in Redis
    pc,         \* where each replica is in update_limits / _get_cpu_poly
    poly,       \* the local cpu_poly of each replica
    cache,      \* replicas whose process-level _cache in cpu.py is filled
    polls,      \* sleeps each waiting replica has done since `ini`
    deaths,
    expiries,
    claimed,    \* history: some replica has written the key
    early,      \* history: replicas whose check ran before any claim was written
    disturbed   \* history: a death, an expiry, a timeout or an error happened

vars == <<key, pc, poly, cache, polls, deaths, expiries, claimed, early, disturbed>>

Polys == Replicas

Locations == {"start", "check", "lock", "bench", "publish", "poll", "sleep",
              "local", "apply", "done", "dead"}

TypeOK ==
    /\ key \in Polys \cup {NoKey, Placeholder}
    /\ pc \in [Replicas -> Locations]
    /\ poly \in [Replicas -> Polys \cup {NoPoly}]
    /\ cache \subseteq Replicas
    /\ polls \in [Replicas -> 0..MaxPolls]
    /\ deaths \in 0..MaxDeaths
    /\ expiries \in 0..MaxExpiries
    /\ claimed \in BOOLEAN
    /\ early \subseteq Replicas
    /\ disturbed \in BOOLEAN

Init ==
    /\ key = NoKey
    /\ pc = [r \in Replicas |-> "start"]
    /\ poly = [r \in Replicas |-> NoPoly]
    /\ cache = {}
    /\ polls = [r \in Replicas |-> 0]
    /\ deaths = 0
    /\ expiries = 0
    /\ claimed = FALSE
    /\ early = {}
    /\ disturbed = FALSE

Goto(r, from, to) == pc[r] = from /\ pc' = [pc EXCEPT ![r] = to]

(***************************************************************************)
(* What the commands do.                                                   *)
(***************************************************************************)

\* _should_build_poly: `not (await redis.get(key))`.  The four characters of
\* the JSON null are a non-empty value: a claimed key does not need building.
MutShouldBuildWhileClaimed == key \notin Polys
ShouldBuild == key = NoKey

\* _lock_poly: SET key null EX 3600 NX.  Its reply is not looked at.
MutLockOverwrites == key' = Placeholder
LockPoly == key' = IF key = NoKey THEN Placeholder ELSE key

\* _set_redis_poly: SET key coeffs EX 3600, with no condition.
SetRedisPoly(p) == key' = p

\* _get_redis_poly: the coefficients when there are any.  A null is decoded to
\* None, as is a missing key, and both mean "poll again".
MutReadPolyTakesPlaceholder == IF key = NoKey THEN NoPoly ELSE key
ReadPoly == IF key \in Polys THEN key ELSE NoPoly

(***************************************************************************)
(* A replica in update_limits.                                             *)
(***************************************************************************)

\* limits.py:105-119: ping_docker answered, the distributed attempt begins.
Start(r) ==
    /\ Goto(r, "start", "check")
    /\ UNCHANGED <<key, poly, cache, polls, deaths, expiries, claimed, early, disturbed>>

\* limits.py:75 and 82-84: GET decides between building and waiting.
Check(r) ==
    /\ Goto(r, "check", IF ShouldBuild THEN "lock" ELSE "poll")
    /\ early' = IF claimed THEN early ELSE early \cup {r}
    /\ polls' = [polls EXCEPT ![r] = 0]
    /\ UNCHANGED <<key, poly, cache, deaths, expiries, claimed, disturbed>>

\* limits.py:77: whatever SET NX answered, the benchmark follows.
Lock(r) ==
    /\ Goto(r, "lock", "bench")
    /\ LockPoly
    /\ claimed' = TRUE
    /\ UNCHANGED <<poly, cache, polls, deaths, expiries, early, disturbed>>

\* limits.py:78: sysbench ran to its end, and cpu.py:81 keeps the result.
Benchmark(r) ==
    /\ Goto(r, "bench", "publish")
    /\ poly' = [poly EXCEPT ![r] = r]
    /\ cache' = cache \cup {r}
    /\ UNCHANGED <<key, polls, deaths, expiries, claimed, early, disturbed>>

\* limits.py:79-80.
Publish(r) ==
    /\ Goto(r, "publish", "apply")
    /\ SetRedisPoly(poly[r])
    /\ claimed' = TRUE
    /\ UNCHANGED <<poly, cache, polls, deaths, expiries, early, disturbed>>

\* limits.py:94-99: a GET that finds coefficients ends the wait.
Poll(r) ==
    /\ Goto(r, "poll", IF ReadPoly = NoPoly THEN "sleep" ELSE "apply")
    /\ poly' = [poly EXCEPT ![r] = ReadPoly]
    /\ UNCHANGED <<key, cache, polls, deaths, expiries, claimed, early, disturbed>>

\* limits.py:99-101: the sleep is over and the time limit is not reached.  A
\* sleep lasts at least `wait`, so it is reached after MaxPolls sleeps or before.
MutPollAgainRestartsClock(r) ==
    /\ Goto(r, "sleep", "poll")
    /\ UNCHANGED <<key, poly, cache, polls, deaths, expiries, claimed, early, disturbed>>
PollAgain(r) ==
    /\ Goto(r, "sleep", "poll")
    /\ polls[r] < MaxPolls
    /\ polls' = [polls EXCEPT ![r] = @ + 1]
    /\ UNCHANGED <<key, poly, cache, deaths, expiries, claimed, early, disturbed>>

\* limits.py:90-91 and 121-122: the wait is given up for a local benchmark.
GiveUp(r) ==
    /\ Goto(r, "sleep", "local")
    /\ disturbed' = TRUE
    /\ UNCHANGED <<key, poly, cache, polls, deaths, expiries, claimed, early>>

\* limits.py:121-122: an exception at any step of _get_cpu_poly (no connection,
\* a failed command, a failed benchmark).  cpu_poly was not assigned: it is None.
\* A command whose reply is lost may have been executed.
DistributedError(r) ==
    /\ pc[r] \in {"check", "lock", "bench", "publish", "poll"}
    /\ pc' = [pc EXCEPT ![r] = "local"]
    /\ \/ UNCHANGED <<key, claimed>>
       \/ pc[r] = "lock" /\ LockPoly /\ claimed' = TRUE
       \/ pc[r] = "publish" /\ SetRedisPoly(poly[r]) /\ claimed' = TRUE
    /\ poly' = [poly EXCEPT ![r] = NoPoly]
    /\ disturbed' = TRUE
    /\ UNCHANGED <<cache, polls, deaths, expiries, early>>

\* limits.py:124-126: the local benchmark, or its cached result (cpu.py:59-61).
LocalPoly(r) ==
    /\ Goto(r, "local", "apply")
    /\ poly' = [poly EXCEPT ![r] = r]
    /\ cache' = cache \cup {r}
    /\ UNCHANGED <<key, polls, deaths, expiries, claimed, early, disturbed>>

\* limits.py:128-142: the quota is computed and the container updated.
Apply(r) ==
    /\ Goto(r, "apply", "done")
    /\ UNCHANGED <<key, poly, cache, polls, deaths, expiries, claimed, early, disturbed>>

\* The container dies: it is killed, or an exception that nothing catches
\* (ping_docker, the local benchmark, the container update) ends the entrypoint.
Die(r) ==
    /\ deaths < MaxDeaths
    /\ pc[r] \notin {"done", "dead"}
    /\ pc' = [pc EXCEPT ![r] = "dead"]
    /\ deaths' = deaths + 1
    /\ disturbed' = TRUE
    /\ UNCHANGED <<key, poly, cache, polls, expiries, claimed, early>>

\* Swarm starts a new container for the service: a new process, nothing cached.
Restart(r) ==
    /\ Goto(r, "dead", "start")
    /\ poly' = [poly EXCEPT ![r] = NoPoly]
    /\ cache' = cache \ {r}
    /\ early' = early \ {r}
    /\ UNCHANGED <<key, polls, deaths, expiries, claimed, disturbed>>

\* Redis drops the key when _EXPIRE_SECS have passed since it was last set.
Expire ==
    /\ expiries < MaxExpiries
    /\ key # NoKey
    /\ key' = NoKey
    /\ expiries' = expiries + 1
    /\ disturbed' = TRUE
    /\ UNCHANGED <<pc, poly, cache, polls, deaths, claimed, early>>

\* Every container has applied its limits.
Finished ==
    /\ \A r \in Replicas : pc[r] = "done"
    /\ UNCHANGED vars

Step(r) ==
    \/ Start(r) \/ Check(r) \/ Lock(r) \/ Benchmark(r) \/ Publish(r)
    \/ Poll(r) \/ PollAgain(r) \/ GiveUp(r) \/ LocalPoly(r) \/ Apply(r)

Next ==
    \/ \E r \in Replicas :
          Step(r) \/ DistributedError(r) \/ Die(r) \/ Restart(r)
    \/ Expire
    \/ Finished

\* A live process is scheduled, Redis answers or fails, sysbench ends, and
\* Swarm replaces a dead container.  Nothing forces an error, a death or an
\* expiry, and a replica may sleep through every poll it is allowed.
Fairness == \A r \in Replicas : WF_vars(Step(r)) /\ WF_vars(Restart(r))

Spec == Init /\ [][Next]_vars
FairSpec == Spec /\ Fairness

(***************************************************************************)
(* Properties.                                                             *)
(***************************************************************************)

Benchmarking(r) == pc[r] = "bench" \/ (pc[r] = "local" /\ r \notin cache)

\* The limits of a container come from a measurement: the JSON null that marks
\* the key as claimed is never taken for coefficients (limits.py:45-47, 96).
AppliesMeasuredPoly ==
    \A r \in Replicas : pc[r] \in {"apply", "done"} => poly[r] \in Polys

\* A replica that looks at the key after it was claimed does not benchmark, as
\* long as nobody died, timed out or failed and the key did not expire: the
\* claim must keep it waiting during the whole benchmark of another replica
\* (limits.py:56-57, 60-63).
NoLateBenchmark ==
    ~disturbed => \A r \in Replicas : Benchmarking(r) => r \in early

\* Coefficients that were published are never replaced by a claim, although the
\* GET of line 75 and the SET of line 77 are two commands and other replicas may
\* do all of their work in between (the NX of limits.py:63).
PublishedSurvives == [][(key \in Polys) => (key' # Placeholder)]_vars

\* Whoever claims the key may die before it publishes; every other replica still
\* applies its limits in the end, or dies itself (the timeout, limits.py:86-91).
EveryReplicaServed ==
    \A r \in Replicas : (pc[r] = "start") ~> (pc[r] \in {"done", "dead"})

\* limits.py:110-115: Redis is used "as a central cache to avoid overloading the
\* host with multiple parallel CPU speed benchmarks".  GET and SET NX are two
\* commands and the result of the second is ignored, so two replicas that start
\* together both benchmark, with no failure of any kind.
OneBenchmark ==
    ~disturbed => \A r, s \in Replicas : Benchmarking(r) /\ Benchmarking(s) => r = s
=============================================================================
