------------------------------ MODULE Detector ------------------------------
(***************************************************************************)
(* The detector application (apps/detector.py): one task subscribes to the *)
(* frames of every camera and does so again after an error of any of them; *)
(* another takes frames from a bounded queue, looks for faces and has the  *)
(* camera turned.  An application error ends the node, which is not        *)
(* modelled here (NodeRuntime).                                            *)
(*                                                                         *)
(* A frame is reduced to its camera; which one of the queue is next        *)
(* depends on the age of each (detector.py:199-202) and is left open.      *)
(***************************************************************************)
EXTENDS WaitNode, FiniteSetsExt

CONSTANTS
    Cameras,          \* the services that have a camera
    QueueMaxsize,     \* queue_maxsize of app
    MaxRounds,        \* bound: times the cameras are subscribed to
    MaxFrames         \* bound: frames delivered

ASSUME DetectorAssumption ==
    /\ Cameras \subseteq Services
    /\ QueueMaxsize \in Nat \ {0} /\ MaxRounds \in Nat \ {0} /\ MaxFrames \in Nat

Rounds == 1..MaxRounds

VARIABLES
    subscribing,   \* where _subscribe_task is
    round,         \* its iterations
    error_event,
    live,          \* subscriptions that deliver, by camera and round
    silent,        \* cameras of which one ended without an error (history)
    frames,        \* how many were delivered
    queue,         \* detection_queue: the frames of each camera
    processing,    \* where _process_queue is
    store,         \* latestDetections: the cameras in it
    lock,          \* cameras whose lock is held by a PTZ command
    waiting        \* PTZ commands of each camera that do not hold it yet

subVars == <<subscribing, round, error_event, live, silent>>
ptzVars == <<lock, waiting>>
procVars == <<frames, queue, processing, store, ptzVars>>
vars == <<waitVars, subVars, procVars>>

Processing == [step : {"get", "raised"}] \cup [step : {"detect"}, camera : Cameras]

TypeOK ==
    /\ WaitTypeOK
    /\ subscribing \in {"gather", "waiting", "raised"}
    /\ round \in Rounds
    /\ error_event \in BOOLEAN
    /\ live \subseteq Cameras \X Rounds
    /\ silent \subseteq Cameras
    /\ frames \in 0..MaxFrames
    /\ queue \in [Cameras -> Nat]
    /\ processing \in Processing
    /\ store \subseteq Cameras
    /\ lock \subseteq Cameras
    /\ waiting \in [Cameras -> Nat]

Init ==
    /\ WaitInit
    /\ subscribing = "gather"
    /\ round = 1
    /\ error_event = FALSE
    /\ live = {}
    /\ silent = {}
    /\ frames = 0
    /\ queue = [c \in Cameras |-> 0]
    /\ processing = [step |-> "get"]
    /\ store = {}
    /\ lock = {}
    /\ waiting = [c \in Cameras |-> 0]

(***************************************************************************)
(* _subscribe_task                                                         *)
(***************************************************************************)

\* detector.py:235: each call of the gather waits for its camera; those that are
\* left when another one raised go on.
Connect(c) == WaitStep(c) /\ UNCHANGED <<subVars, procVars>>

\* detector.py:229-256.
Subscribe(c) ==
    /\ Fetched(c)
    /\ live' = live \cup {<<c, round>>}
    /\ UNCHANGED <<subscribing, round, error_event, silent, procVars>>

\* detector.py:284-295.
MutGatherReturnsClears ==
    /\ subscribing = "gather"
    /\ \A c \in Cameras : call[c] = "consumed"
    /\ subscribing' = "waiting"
    /\ error_event' = FALSE
    /\ UNCHANGED <<waitVars, round, live, silent, procVars>>
GatherReturns ==
    /\ subscribing = "gather"
    /\ \A c \in Cameras : call[c] = "consumed"
    /\ subscribing' = "waiting"
    /\ UNCHANGED <<waitVars, round, error_event, live, silent, procVars>>

\* detector.py:293: the first error is raised, out of the loop and of app.
GatherRaises ==
    /\ subscribing = "gather"
    /\ \E c \in Cameras : call[c] = "raised"
    /\ subscribing' = "raised"
    /\ UNCHANGED <<waitVars, round, error_event, live, silent, procVars>>

\* detector.py:295-300 and 276-281: between the end of wait() and clear() nothing
\* else runs.  _cancel_subs is a coroutine that is not awaited: the
\* subscriptions of this round stay as they are.
Resubscribe ==
    /\ subscribing = "waiting"
    /\ error_event
    /\ round < MaxRounds
    /\ subscribing' = "gather"
    /\ round' = round + 1
    /\ error_event' = FALSE
    /\ CallAgain(Cameras)
    /\ UNCHANGED <<live, silent, procVars>>

\* detector.py:224-226: an error ends the subscription it comes from.  The bound:
\* none comes in the last round.
StreamError(c, k) ==
    /\ <<c, k>> \in live
    /\ round < MaxRounds
    /\ live' = live \ {<<c, k>>}
    /\ error_event' = TRUE
    /\ UNCHANGED <<waitVars, subscribing, round, silent, procVars>>

\* A stream that completes, or whose _on_next raises something else than
\* QueueFull (items of one priority, a latency of zero: detector.py:199-219), is
\* over without a word: there is no handler for it.
StreamEnds(c, k) ==
    /\ <<c, k>> \in live
    /\ live' = live \ {<<c, k>>}
    /\ silent' = silent \cup {c}
    /\ UNCHANGED <<waitVars, subscribing, round, error_event, procVars>>

(***************************************************************************)
(* The queue and _process_queue                                            *)
(***************************************************************************)

Full == MapThenSumSet(LAMBDA c : queue[c], Cameras) >= QueueMaxsize

\* detector.py:205-221: every subscription of the camera delivers; a full queue
\* drops the frame.
OnNext(c, k) ==
    /\ <<c, k>> \in live
    /\ frames < MaxFrames
    /\ frames' = frames + 1
    /\ queue' = IF Full THEN queue ELSE [queue EXCEPT ![c] = @ + 1]
    /\ UNCHANGED <<waitVars, subVars, processing, store, ptzVars>>

\* detector.py:114-140: a frame that is too old is dropped, another one goes to the
\* executor.  A PTZ task that was scheduled before runs first: the loop is first
\* in, first out.
Get(f) ==
    /\ processing.step = "get"
    /\ queue[f] > 0
    /\ \A c \in Cameras : waiting[c] > 0 => c \in lock
    /\ queue' = [queue EXCEPT ![f] = @ - 1]
    /\ \/ processing' = [step |-> "detect", camera |-> f]
       \/ UNCHANGED processing
    /\ UNCHANGED <<waitVars, subVars, frames, store, ptzVars>>

\* detector.py:149-157, monitor/utils.py:31-51: an error of Redis ends the application,
\* as one of the executor does.
MetricFails ==
    /\ processing.step = "detect"
    /\ processing' = [step |-> "raised"]
    /\ UNCHANGED <<waitVars, subVars, frames, queue, store, ptzVars>>

\* detector.py:162-163.
NoFaces ==
    /\ processing.step = "detect"
    /\ processing' = [step |-> "get"]
    /\ UNCHANGED <<waitVars, subVars, frames, queue, store, ptzVars>>

\* detector.py:165-196.
MutFacesAlwaysTurn ==
    /\ processing.step = "detect"
    /\ store' = store \cup {processing.camera}
    /\ waiting' = [waiting EXCEPT ![processing.camera] = @ + 1]
    /\ processing' = [step |-> "get"]
    /\ UNCHANGED <<waitVars, subVars, frames, queue, lock>>
Faces ==
    /\ processing.step = "detect"
    /\ LET c == processing.camera IN
       /\ store' = store \cup {c}
       /\ waiting' = IF c \in lock THEN waiting ELSE [waiting EXCEPT ![c] = @ + 1]
    /\ processing' = [step |-> "get"]
    /\ UNCHANGED <<waitVars, subVars, frames, queue, lock>>

\* detector.py:87-102: from the lock to the invocation.
PtzBegins(c) ==
    /\ waiting[c] > 0
    /\ c \notin lock
    /\ waiting' = [waiting EXCEPT ![c] = @ - 1]
    /\ lock' = lock \cup {c}
    /\ UNCHANGED <<waitVars, subVars, frames, queue, processing, store>>

\* detector.py:102-107: invoked, or failed.
PtzEnds(c) ==
    /\ c \in lock
    /\ lock' = lock \ {c}
    /\ UNCHANGED <<waitVars, subVars, frames, queue, processing, store, waiting>>

Next ==
    \/ \E c \in Cameras :
          \/ WaitEnvironment(c) /\ UNCHANGED <<subVars, procVars>>
          \/ Connect(c) \/ Subscribe(c) \/ PtzBegins(c) \/ PtzEnds(c)
          \/ \E k \in Rounds : StreamError(c, k) \/ StreamEnds(c, k) \/ OnNext(c, k)
    \/ GatherReturns \/ GatherRaises \/ Resubscribe
    \/ \E c \in Cameras : Get(c)
    \/ MetricFails \/ NoFaces \/ Faces

\* Whatever is ready runs: the calls (their limits strike) and the task.
Proceed(c) == Connect(c) \/ Subscribe(c)
Progress == GatherReturns \/ GatherRaises \/ Resubscribe

Spec == Init /\ [][Next]_vars

(***************************************************************************)
(* Properties.                                                             *)
(***************************************************************************)

IsLive(c) == \E k \in Rounds : <<c, k>> \in live
AppRaised == subscribing = "raised" \/ processing.step = "raised"

\* While the task waits for an error, every camera still delivers: an error that
\* comes while the cameras are being subscribed, or beside another one, is never
\* cleared unseen (detector.py:278, 295).  Streams that ended without an error
\* are the exception that the code makes.
NoCameraForgotten ==
    subscribing = "waiting" /\ ~error_event =>
        \A c \in Cameras : IsLive(c) \/ c \in silent

\* A camera executes one PTZ command at a time and none waits behind another
\* (detector.py:179-196), although its frames go on while the lock is held.
OneCommandPerCamera ==
    \A c \in Cameras : waiting[c] <= 1 /\ (c \in lock => waiting[c] = 0)

\* A camera whose subscription was lost is subscribed to again, or the
\* application ends and the node with it: no wait for a container that was
\* replaced lasts for ever (utils.py:48-75).
CameraComesBack ==
    \A c \in Cameras : (~IsLive(c) /\ c \notin silent) ~> (IsLive(c) \/ AppRaised)
=============================================================================
