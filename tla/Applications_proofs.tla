------------------------- MODULE Applications_proofs -------------------------
(***************************************************************************)
(* Theorems about the three applications: Detector, for any number of      *)
(* cameras, rounds, frames and replicas, and Subscriber and Historian, of  *)
(* which MCApplications holds an instance each (S and H).                  *)
(***************************************************************************)
EXTENDS MCApplications, TLAPS

(***************************************************************************)
(* Types                                                                   *)
(***************************************************************************)

LEMMA EnvironmentTypes ==
  ASSUME WaitTypeOK, NEW s \in Services, WaitEnvironment(s)
  PROVE  WaitTypeOK' /\ UNCHANGED <<call, pending>>
<1>1. CASE \E c \in Containers : Serves(s, c)
  BY <1>1 DEF Serves, WaitTypeOK
<1>2. ASSUME NEW c \in Containers, Replaced(s, c)
      PROVE  WaitTypeOK' /\ UNCHANGED <<call, pending>>
  <2>1. PICK newest \in running[s] :
          /\ newest < MaxContainers[s]
          /\ running' = [running EXCEPT ![s] = (@ \ {c}) \cup {newest + 1}]
    BY <1>2 DEF Replaced
  <2>2. newest \in Nat /\ newest + 1 \in Containers
    <3>1. newest \in Containers
      BY DEF WaitTypeOK
    <3>2. newest \in Nat \ {0}
      BY <3>1, ReplicasAssumption DEF Containers
    <3>3. newest + 1 \in 1..MaxContainers[s]
      BY <3>2, <2>1, ReplicasAssumption
    <3> QED
      BY <3>2, <3>3 DEF Containers
  <2> QED
    BY <1>2, <2>1, <2>2 DEF Replaced, WaitTypeOK
<1> QED
  BY <1>1, <1>2 DEF WaitEnvironment

\* What a call does before it has the Thing; it ends with it only through Fetched.
LEMMA ConnectTypes ==
  ASSUME WaitTypeOK, NEW s \in Services, WaitStep(s)
  PROVE  /\ WaitTypeOK'
         /\ call[s] # "consumed" /\ call'[s] # "consumed"
         /\ \A t \in Services : t # s => call'[t] = call[t]
<1> USE DEF WaitTypeOK, environment
<1>1. CASE List(s)
  BY <1>1 DEF List, Hosts
<1>2. CASE \E host \in Containers \cup {ByName} : PingAnswered(s, host)
  BY <1>2 DEF PingAnswered
<1>3. CASE PingTimeout(s)
  BY <1>3 DEF PingTimeout
<1>4. CASE FetchFails(s)
  BY <1>4 DEF FetchFails
<1> QED
  BY <1>1, <1>2, <1>3, <1>4 DEF WaitStep

LEMMA SubscribeTypes ==
  ASSUME TypeOK, NEW c \in Cameras, Subscribe(c)
  PROVE  WaitTypeOK' /\ live' \subseteq Cameras \X Rounds
<1>1. c \in Services /\ round \in Rounds
  BY DetectorAssumption DEF TypeOK
<1> QED
  BY <1>1 DEF Subscribe, Fetched, environment, TypeOK, WaitTypeOK

LEMMA ResubscribeTypes ==
  ASSUME TypeOK, Resubscribe
  PROVE  WaitTypeOK' /\ round' \in Rounds /\ \A c \in Cameras : call'[c] = "listing"
<1>1. WaitTypeOK' /\ \A c \in Cameras : call'[c] = "listing"
  BY DetectorAssumption DEF Resubscribe, CallAgain, environment, TypeOK, WaitTypeOK
<1>2. round' \in Rounds
  BY DetectorAssumption DEF Resubscribe, TypeOK, Rounds
<1> QED
  BY <1>1, <1>2

LEMMA InitTypes == Init => TypeOK
<1> SUFFICES ASSUME Init PROVE TypeOK
  OBVIOUS
<1>1. WaitTypeOK
  BY ReplicasAssumption DEF Init, WaitInit, WaitTypeOK, Containers
<1>2. round \in Rounds /\ processing \in Processing /\ frames \in 0..MaxFrames
  BY DetectorAssumption DEF Init, Rounds, Processing
<1>3. queue \in [Cameras -> Nat] /\ waiting \in [Cameras -> Nat]
  BY DEF Init
<1> QED
  BY <1>1, <1>2, <1>3 DEF Init, TypeOK

LEMMA StepTypes == TypeOK /\ [Next]_vars => TypeOK'
<1> SUFFICES ASSUME TypeOK, [Next]_vars PROVE TypeOK'
  OBVIOUS
<1> USE DEF TypeOK
<1>1. ASSUME NEW c \in Cameras, WaitEnvironment(c) /\ UNCHANGED <<subVars, procVars>> PROVE TypeOK'
  BY <1>1, EnvironmentTypes, DetectorAssumption DEF subVars, procVars, ptzVars
<1>2. ASSUME NEW c \in Cameras, Connect(c) PROVE TypeOK'
  BY <1>2, ConnectTypes, DetectorAssumption DEF Connect, subVars, procVars, ptzVars
<1>3. ASSUME NEW c \in Cameras, Subscribe(c) PROVE TypeOK'
  BY <1>3, SubscribeTypes DEF Subscribe, procVars, ptzVars
<1>4. CASE Resubscribe
  BY <1>4, ResubscribeTypes DEF Resubscribe, procVars, ptzVars
<1>5. CASE GatherReturns \/ GatherRaises
  BY <1>5 DEF GatherReturns, GatherRaises, waitVars, procVars, ptzVars, WaitTypeOK
<1>6. ASSUME NEW c \in Cameras, NEW k \in Rounds, StreamError(c, k) \/ StreamEnds(c, k) PROVE TypeOK'
  BY <1>6 DEF StreamError, StreamEnds, waitVars, procVars, ptzVars, WaitTypeOK
<1>7. ASSUME NEW c \in Cameras, NEW k \in Rounds, OnNext(c, k) PROVE TypeOK'
  BY <1>7, DetectorAssumption DEF OnNext, waitVars, subVars, ptzVars, WaitTypeOK
<1>8. ASSUME NEW c \in Cameras, Get(c) PROVE TypeOK'
  BY <1>8 DEF Get, waitVars, subVars, ptzVars, WaitTypeOK, Processing
<1>9. CASE MetricFails \/ NoFaces
  BY <1>9 DEF MetricFails, NoFaces, waitVars, subVars, ptzVars, WaitTypeOK, Processing
<1>10. CASE Faces
  <2>1. processing.camera \in Cameras
    BY <1>10 DEF Faces, Processing
  <2> QED
    BY <1>10, <2>1 DEF Faces, waitVars, subVars, WaitTypeOK, Processing
<1>11. ASSUME NEW c \in Cameras, PtzBegins(c) \/ PtzEnds(c) PROVE TypeOK'
  BY <1>11 DEF PtzBegins, PtzEnds, waitVars, subVars, WaitTypeOK
<1>12. CASE UNCHANGED vars
  BY <1>12 DEF vars, waitVars, subVars, procVars, ptzVars, WaitTypeOK
<1> QED
  BY <1>1, <1>2, <1>3, <1>4, <1>5, <1>6, <1>7, <1>8, <1>9, <1>10, <1>11, <1>12 DEF Next

\* The variables keep their types (apps/detector.py).
THEOREM TypeCorrect == Spec => []TypeOK
  BY InitTypes, StepTypes, PTL DEF Spec

(***************************************************************************)
(* The subscriptions                                                       *)
(***************************************************************************)

\* Whoever has the Thing has a subscription, unless an error is noted or the
\* stream ended in silence; and the task waits only once every call has the Thing.
SubscriptionInv ==
    /\ ~error_event => \A c \in Cameras : call[c] = "consumed" => IsLive(c) \/ c \in silent
    /\ subscribing = "waiting" => \A c \in Cameras : call[c] = "consumed"

LEMMA SubscriptionStep ==
  ASSUME TypeOK, SubscriptionInv, [Next]_vars
  PROVE  SubscriptionInv'
<1>0. Cameras \subseteq Services /\ WaitTypeOK
  BY DetectorAssumption DEF TypeOK
<1> USE DEF SubscriptionInv, IsLive
<1>1. ASSUME NEW c \in Cameras, WaitEnvironment(c) /\ UNCHANGED <<subVars, procVars>>
      PROVE  SubscriptionInv'
  BY <1>0, <1>1, EnvironmentTypes DEF subVars
<1>2. ASSUME NEW c \in Cameras, Connect(c) PROVE SubscriptionInv'
  <2>1. call[c] # "consumed" /\ call'[c] # "consumed"
        /\ \A d \in Cameras : d # c => call'[d] = call[d]
    BY <1>0, <1>2, ConnectTypes DEF Connect
  <2> QED
    BY <1>2, <2>1 DEF Connect, subVars
<1>3. ASSUME NEW c \in Cameras, Subscribe(c) PROVE SubscriptionInv'
  <2>1. live' = live \cup {<<c, round>>} /\ round \in Rounds
    BY <1>3 DEF Subscribe, TypeOK
  <2>2. call' = [call EXCEPT ![c] = "consumed"] /\ UNCHANGED <<subscribing, error_event, silent>>
    BY <1>3 DEF Subscribe, Fetched
  <2>3. \A d \in Cameras : d # c => call'[d] = call[d]
    BY <1>0, <2>2 DEF WaitTypeOK
  <2>4. call'[c] = "consumed"
    BY <1>0, <2>2 DEF WaitTypeOK
  <2> QED
    BY <2>1, <2>2, <2>3, <2>4
<1>4. CASE Resubscribe
  BY <1>4, ResubscribeTypes DEF Resubscribe
<1>5. CASE GatherReturns \/ GatherRaises
  BY <1>5 DEF GatherReturns, GatherRaises, waitVars
<1>6. ASSUME NEW c \in Cameras, NEW k \in Rounds, StreamError(c, k) \/ StreamEnds(c, k)
      PROVE  SubscriptionInv'
  BY <1>6 DEF StreamError, StreamEnds, waitVars
<1>7. CASE \/ \E c \in Cameras : PtzBegins(c) \/ PtzEnds(c) \/ Get(c) \/ \E k \in Rounds : OnNext(c, k)
           \/ MetricFails \/ NoFaces \/ Faces \/ UNCHANGED vars
  <2>1. UNCHANGED <<call, subscribing, error_event, live, silent>>
    BY <1>7 DEF PtzBegins, PtzEnds, Get, OnNext, MetricFails, NoFaces, Faces, vars, waitVars, subVars
  <2> QED
    BY <2>1
<1> QED
  BY <1>1, <1>2, <1>3, <1>4, <1>5, <1>6, <1>7 DEF Next

\* No error of a camera is cleared unseen (detector.py:276-300).
THEOREM ForgetsNoCamera == Spec => []NoCameraForgotten
<1>1. Init => SubscriptionInv
  BY DetectorAssumption DEF Init, WaitInit, SubscriptionInv
<1>2. SubscriptionInv => NoCameraForgotten
  BY DEF SubscriptionInv, NoCameraForgotten
<1> QED
  BY <1>1, <1>2, SubscriptionStep, TypeCorrect, PTL DEF Spec

(***************************************************************************)
(* The PTZ commands                                                        *)
(***************************************************************************)

\* A frame is taken only when no command waits, so that the lock says whether
\* there is one.
CommandInv ==
    /\ OneCommandPerCamera
    /\ processing.step = "detect" => \A c \in Cameras : waiting[c] = 0

LEMMA CommandStep ==
  ASSUME TypeOK, CommandInv, [Next]_vars
  PROVE  CommandInv'
<1> USE DEF CommandInv, OneCommandPerCamera
<1>0. waiting \in [Cameras -> Nat] /\ processing \in Processing
  BY DEF TypeOK
<1>1. ASSUME NEW f \in Cameras, Get(f) PROVE CommandInv'
  BY <1>0, <1>1 DEF Get, ptzVars
<1>2. CASE Faces
  <2>1. processing.camera \in Cameras
    BY <1>0, <1>2 DEF Faces, Processing
  <2> QED
    BY <1>0, <1>2, <2>1 DEF Faces
<1>3. ASSUME NEW c \in Cameras, PtzBegins(c) \/ PtzEnds(c) PROVE CommandInv'
  BY <1>0, <1>3 DEF PtzBegins, PtzEnds
<1>4. CASE MetricFails \/ NoFaces
  BY <1>4 DEF MetricFails, NoFaces, ptzVars
<1>5. CASE \/ \E c \in Cameras :
                 \/ WaitEnvironment(c) /\ UNCHANGED <<subVars, procVars>>
                 \/ Connect(c) \/ Subscribe(c)
                 \/ \E k \in Rounds : StreamError(c, k) \/ StreamEnds(c, k) \/ OnNext(c, k)
           \/ GatherReturns \/ GatherRaises \/ Resubscribe \/ UNCHANGED vars
  <2>1. UNCHANGED <<processing, waiting, lock>>
    BY <1>5 DEF Connect, Subscribe, StreamError, StreamEnds, OnNext, GatherReturns, GatherRaises,
                Resubscribe, vars, procVars, ptzVars
  <2> QED
    BY <2>1
<1> QED
  BY <1>1, <1>2, <1>3, <1>4, <1>5 DEF Next

\* The PTZ commands of a camera do not pile up (detector.py:182-187).
THEOREM CommandsDoNotPileUp == Spec => []OneCommandPerCamera
<1>1. Init => CommandInv
  BY DEF Init, CommandInv, OneCommandPerCamera
<1>2. CommandInv => OneCommandPerCamera
  BY DEF CommandInv
<1> QED
  BY <1>1, <1>2, CommandStep, TypeCorrect, PTL DEF Spec

(***************************************************************************)
(* The subscriber: types                                                   *)
(***************************************************************************)

\* It waits for its Thing as the detector waits for its cameras.
LEMMA WaitTypesAgree == S!WaitTypeOK <=> WaitTypeOK
BY DEF S!WaitTypeOK, WaitTypeOK, S!Containers, Containers

LEMMA EnvironmentAgrees == S!WaitEnvironment(Thing) => WaitEnvironment(Thing)
BY DEF S!WaitEnvironment, WaitEnvironment, S!Serves, Serves, S!Replaced, Replaced,
       S!Containers, Containers

LEMMA WaitStepAgrees == S!WaitStep(Thing) => WaitStep(Thing)
BY DEF S!WaitStep, WaitStep, S!List, List, S!PingAnswered, PingAnswered, S!PingTimeout,
       PingTimeout, S!FetchFails, FetchFails, S!Containers, Containers, S!Hosts, Hosts,
       S!Answers, Answers, S!environment, environment

LEMMA SubscriberNextTypeOK ==
  ASSUME S!TypeOK, [S!Next]_(S!vars)
  PROVE  S!TypeOK'
<1> USE SubscriberAssumption DEF S!TypeOK, S!ownVars, S!Rounds, S!Over
<1>0. UNCHANGED S!waitVars => S!WaitTypeOK'
  BY DEF S!waitVars, S!WaitTypeOK
<1>1. CASE S!WaitEnvironment(Thing) /\ UNCHANGED S!ownVars
  <2>1. WaitTypeOK'
    BY <1>1, EnvironmentAgrees, EnvironmentTypes, WaitTypesAgree
  <2>2. S!WaitTypeOK'
    BY <2>1 DEF S!WaitTypeOK, WaitTypeOK, S!Containers, Containers
  <2> QED BY <1>1, <2>2
<1>2. CASE S!Connect
  <2>1. WaitTypeOK'
    BY <1>2, WaitStepAgrees, ConnectTypes, WaitTypesAgree DEF S!Connect
  <2>2. S!WaitTypeOK'
    BY <2>1 DEF S!WaitTypeOK, WaitTypeOK, S!Containers, Containers
  <2> QED BY <1>2, <2>2 DEF S!Connect
<1>3. CASE S!Subscribe
  BY <1>3 DEF S!Subscribe, S!Fetched, S!WaitTypeOK, S!environment
<1>4. CASE S!Resubscribe
  <2>1. S!WaitTypeOK'
    BY <1>4 DEF S!Resubscribe, S!CallAgain, S!WaitTypeOK, S!environment
  <2>2. s_round' \in S!Rounds
    BY <1>4 DEF S!Resubscribe
  <2> QED BY <1>4, <2>1, <2>2 DEF S!Resubscribe
<1>5. CASE \/ S!ConsumeRaises \/ S!Cancelled \/ S!Disposed \/ S!CancelledAgain
           \/ \E s \in Streams, k \in S!Rounds : S!StreamError(s, k) \/ S!StreamCompletes(s, k)
           \/ UNCHANGED S!vars
  BY <1>0, <1>5 DEF S!ConsumeRaises, S!Cancelled, S!Disposed, S!CancelledAgain, S!StreamError,
                    S!StreamCompletes, S!vars
<1> QED BY <1>1, <1>2, <1>3, <1>4, <1>5 DEF S!Next

\* Every variable of the subscriber keeps its type (subscriber.py:47-100).
THEOREM SubscriberTypes == S!Spec => []S!TypeOK
<1>1. S!Init => S!TypeOK
  <2> SUFFICES ASSUME S!Init PROVE S!TypeOK
    OBVIOUS
  <2>1. WaitTypeOK
    BY ReplicasAssumption DEF S!Init, S!WaitInit, WaitTypeOK, Containers
  <2>2. S!WaitTypeOK
    BY <2>1, WaitTypesAgree
  <2>3. 1 \in 1..SubscriberRounds /\ 0 \in 0..SubscriberRounds
    BY SubscriberAssumption
  <2> QED BY <2>2, <2>3 DEF S!Init, S!TypeOK, S!Rounds
<1>2. S!TypeOK /\ [S!Next]_(S!vars) => S!TypeOK'
  BY SubscriberNextTypeOK
<1> QED BY <1>1, <1>2, PTL DEF S!Spec

\* It holds the subscriptions of the round it is in, once that has subscribed, and
\* none of a round to come; what _cancel_subs leaves alive is of earlier rounds,
\* which no variable of app refers to any more.
HeldInv ==
    /\ s_subs <= s_round
    /\ s_pc = "waiting" => s_subs = s_round
    /\ \A l \in s_live : l[2] <= s_subs
    /\ s_pc \in {"disposing", "ended", "cancelled"} => \A l \in s_live : l[2] < s_subs

LEMMA HeldNext ==
  ASSUME S!TypeOK, HeldInv, [S!Next]_(S!vars)
  PROVE  HeldInv'
<1> USE DEF HeldInv, S!ownVars
<1>0. s_round \in Nat /\ s_subs \in Nat /\ \A l \in s_live : l[2] \in Nat
  BY SubscriberAssumption DEF S!TypeOK, S!Rounds
<1>1. CASE (S!WaitEnvironment(Thing) /\ UNCHANGED S!ownVars) \/ S!Connect \/ UNCHANGED S!vars
  BY <1>1 DEF S!Connect, S!vars
<1>2. CASE S!Subscribe
  <2>1. \A l \in s_live' : l \in s_live \/ l[2] = s_round
    BY <1>2 DEF S!Subscribe
  <2> QED BY <1>0, <1>2, <2>1 DEF S!Subscribe
<1>3. CASE S!ConsumeRaises \/ S!Resubscribe
  BY <1>0, <1>3 DEF S!ConsumeRaises, S!Resubscribe
<1>4. CASE \E s \in Streams, k \in S!Rounds : S!StreamError(s, k) \/ S!StreamCompletes(s, k)
  BY <1>4 DEF S!StreamError, S!StreamCompletes
<1>5. CASE S!Cancelled
  <2>1. \A l \in s_live' : l \in s_live /\ l[2] < s_subs
    BY <1>0, <1>5 DEF S!Cancelled
  <2> QED BY <1>5, <2>1 DEF S!Cancelled
<1>6. CASE S!Disposed \/ S!CancelledAgain
  BY <1>6 DEF S!Disposed, S!CancelledAgain
<1> QED BY <1>1, <1>2, <1>3, <1>4, <1>5, <1>6 DEF S!Next

\* A subscriber that was cancelled has disposed of what it held, and what it leaves
\* alive is of rounds before its last one (subscriber.py:47-56, 95-100).
THEOREM SubscriberHolds == S!Spec => []HeldInv
<1>1. S!Init => HeldInv
  BY DEF S!Init, HeldInv
<1>2. S!TypeOK /\ HeldInv /\ [S!Next]_(S!vars) => HeldInv'
  BY HeldNext
<1> QED BY <1>1, <1>2, SubscriberTypes, PTL DEF S!Spec

(***************************************************************************)
(* The subscriber: no stream is forgotten                                  *)
(***************************************************************************)

\* While app waits, a stream is subscribed to, or completed, or an error is noted
\* that ends the wait.
StreamsKnown ==
    s_pc = "waiting" => \A x \in Streams : S!IsLive(x) \/ x \in s_silent \/ s_error_event

LEMMA StreamsKnownNext ==
  ASSUME S!TypeOK, StreamsKnown, [S!Next]_(S!vars)
  PROVE  StreamsKnown'
<1> USE DEF StreamsKnown, S!IsLive, S!ownVars
<1>1. CASE S!Subscribe
  BY <1>1 DEF S!Subscribe, S!TypeOK
<1>2. ASSUME NEW x \in Streams, NEW k \in S!Rounds, S!StreamError(x, k) \/ S!StreamCompletes(x, k)
      PROVE  StreamsKnown'
  BY <1>2 DEF S!StreamError, S!StreamCompletes
<1>3. CASE \/ S!WaitEnvironment(Thing) /\ UNCHANGED S!ownVars
           \/ S!Connect \/ UNCHANGED S!vars
  <2>1. UNCHANGED <<s_pc, s_live, s_silent, s_error_event>>
    BY <1>3 DEF S!Connect, S!vars
  <2> QED BY <2>1
<1>4. CASE S!ConsumeRaises \/ S!Resubscribe \/ S!Cancelled \/ S!Disposed \/ S!CancelledAgain
  BY <1>4 DEF S!ConsumeRaises, S!Resubscribe, S!Cancelled, S!Disposed, S!CancelledAgain
<1> QED BY <1>1, <1>2, <1>3, <1>4 DEF S!Next

\* A stream that fails while app waits, or while it connects again, leaves an event
\* that ends the wait, or was subscribed to anew since: the error_event of app is
\* never cleared over a stream that is lost (subscriber.py:19-25, 60-79, 95-98).
THEOREM NoStreamForgotten == S!Spec => []StreamsKnown
<1>1. S!Init => StreamsKnown
  BY DEF S!Init, StreamsKnown
<1>2. S!TypeOK /\ StreamsKnown /\ [S!Next]_(S!vars) => StreamsKnown'
  BY StreamsKnownNext
<1> QED BY <1>1, <1>2, SubscriberTypes, PTL DEF S!Spec

(***************************************************************************)
(* The historian: types                                                    *)
(***************************************************************************)

LEMMA HistorianInitTypeOK == H!Init => H!TypeOK
<1> SUFFICES ASSUME H!Init PROVE H!TypeOK
  OBVIOUS
<1>1. results \in [{} -> H!Results] /\ {} \in SUBSET listed
  BY DEF H!Init
<1>2. \E answered \in SUBSET listed : results \in [answered -> H!Results]
  BY <1>1
<1>3. now \in H!Times /\ to_unix \in H!Times
  BY HistorianAssumption DEF H!Init, H!Times
<1>4. straddled \subseteq H!Times /\ downlink \subseteq H!Documents /\ copies \subseteq H!Documents \X H!Times
      /\ reads \subseteq Observed /\ inserted \subseteq Observed /\ listed \subseteq Properties
  BY DEF H!Init
<1> HIDE <1>1
<1> QED BY <1>2, <1>3, <1>4 DEF H!Init, H!TypeOK, H!Child

LEMMA HistorianNextTypeOK ==
  ASSUME H!TypeOK, [H!Next]_historianVars
  PROVE  H!TypeOK'
<1> USE HistorianAssumption
        DEF H!TypeOK, H!appVars, H!thingVars, H!copyVars, H!AppOver, H!Child
<1>1. CASE H!Tick \/ H!MongoAnswers \/ H!BootFails \/ H!NothingObserved \/ H!CancelledInBoot
           \/ H!CancelDone \/ H!ThingsSleep \/ H!ThingsWake \/ H!Consumed
  <2>1. CASE H!Tick
    BY <2>1 DEF H!Tick, H!Times
  <2>2. CASE \/ H!MongoAnswers \/ H!BootFails \/ H!NothingObserved \/ H!CancelledInBoot
             \/ H!CancelDone
    BY <2>2 DEF H!MongoAnswers, H!BootFails, H!NothingObserved, H!CancelledInBoot, H!CancelDone
  <2>3. CASE H!ThingsSleep \/ H!ThingsWake \/ H!Consumed
    BY <2>3 DEF H!ThingsSleep, H!ThingsWake, H!Consumed
  <2> QED BY <1>1, <2>1, <2>2, <2>3
<1>2. ASSUME NEW p \in Properties, NEW t \in H!Times, H!DownlinkWrites(p, t) PROVE H!TypeOK'
  BY <1>2 DEF H!DownlinkWrites, H!Documents
<1>3. CASE H!Produced \/ H!IterationFails \/ H!Cancel
  <2>1. now + H!Second \in Nat /\ now + Interval * H!Second \in Nat /\ now \in Nat
    BY DEF H!Second, H!Times
  <2>2. CASE H!Produced
    BY <2>1, <2>2 DEF H!Produced
  <2>3. CASE H!IterationFails
    BY <2>1, <2>3 DEF H!IterationFails, H!Sleep
  <2>4. CASE H!Cancel
    <3>1. copying' \in {"off", "sleep", "ended"} /\ things' \in {"off", "ended"}
      BY <2>4 DEF H!Cancel, H!Cancelled, H!Interrupted
    <3> QED BY <2>1, <2>4, <3>1 DEF H!Cancel
  <2> QED BY <1>3, <2>2, <2>3, <2>4
<1>4. ASSUME NEW p \in Observed, H!ThingRead(p) PROVE H!TypeOK'
  BY <1>4 DEF H!ThingRead
<1>5. CASE H!Wake
  <2>1. now' \in H!Times /\ to_unix' \in H!Times /\ straddled' \subseteq H!Times
    BY <1>5 DEF H!Wake, H!Reread, H!Sleep
  <2> QED BY <1>5, <2>1 DEF H!Wake, H!Sleep, H!Second, H!Times
<1>6. CASE H!Listed
  <2>1. listed' \subseteq Properties
    BY <1>6 DEF H!Listed, H!Documents
  <2>2. results' \in [{} -> H!Results] /\ {} \in SUBSET listed'
    BY <1>6 DEF H!Listed
  <2> QED BY <1>6, <2>1, <2>2 DEF H!Listed
<1>7. ASSUME NEW p \in Properties, H!Got(p) PROVE H!TypeOK'
  <2>1. PICK answered \in SUBSET listed : results \in [answered -> H!Results]
    OBVIOUS
  <2>2. PICK result \in {H!Failed} \cup {H!Found(docs) : docs \in H!Aggregated(H!Selected(p))} :
           results' = [q \in DOMAIN results \cup {p} |-> IF q = p THEN result ELSE results[q]]
    BY <1>7 DEF H!Got
  <2>3. result \in H!Results
    <3>1. CASE result = H!Failed
      BY <3>1 DEF H!Results
    <3>2. ASSUME NEW docs \in H!Aggregated(H!Selected(p)), result = H!Found(docs)
          PROVE  result \in H!Results
      <4>1. docs \in SUBSET H!Documents
        BY DEF H!Aggregated, H!Selected
      <4> QED BY <3>2, <4>1 DEF H!Results, H!Found
    <3> QED BY <3>1, <3>2
  <2>4. p \in listed
    BY <1>7 DEF H!Got
  <2>5. results' \in [answered \cup {p} -> H!Results] /\ answered \cup {p} \in SUBSET listed
    BY <2>1, <2>2, <2>3, <2>4
  <2> QED BY <1>7, <2>5 DEF H!Got
<1>8. CASE H!Write
  <2>1. PICK docs \in SUBSET UNION {results[p].docs : p \in listed} :
           copies' = copies \cup {<<d, to_unix>> : d \in docs}
    BY <1>8 DEF H!Write
  <2>2. \A p \in listed : results[p].docs \subseteq H!Documents
    <3> SUFFICES ASSUME NEW p \in listed PROVE results[p].docs \subseteq H!Documents
      OBVIOUS
    <3>1. results[p] \in H!Results /\ results[p].ok
      BY <1>8 DEF H!Write
    <3>2. results[p] # H!Failed
      <4>1. ~H!Failed.ok
        BY DEF H!Failed
      <4> QED BY <3>1, <4>1, Zenon
    <3>3. results[p] \in [ok : {TRUE}, docs : SUBSET H!Documents]
      BY <3>1, <3>2 DEF H!Results
    <3> QED BY <3>3
  <2>3. copies' \subseteq H!Documents \X H!Times
    BY <2>1, <2>2
  <2> QED BY <1>8, <2>3 DEF H!Write, H!Sleep, H!Second, H!Times
<1>9. CASE UNCHANGED historianVars
  BY <1>9 DEF historianVars
<1> QED
  BY <1>1, <1>2, <1>3, <1>4, <1>5, <1>6, <1>7, <1>8, <1>9 DEF H!Next

\* Every variable of the historian keeps its type: what it holds and what it copies
\* are documents of its downlink (historian.py:207-243, 394-421).
THEOREM HistorianTypes == H!Spec => []H!TypeOK
<1>1. H!TypeOK /\ [H!Next]_H!vars => H!TypeOK'
  BY HistorianNextTypeOK DEF H!vars, H!appVars, H!thingVars, H!copyVars, historianVars
<1> QED BY <1>1, HistorianInitTypeOK, PTL DEF H!Spec

(***************************************************************************)
(* The historian: no document twice                                        *)
(***************************************************************************)

\* The window of the iteration that started at k: the bounds of its queries.
InWindow(d, k) ==
    /\ H!Second * (k \div H!Second) <= d.time + Interval * H!Second
    /\ d.time < H!Second * (k \div H!Second)

\* Windows that start an interval apart share no document, wherever their bounds
\* are truncated.
LEMMA WindowsDisjoint ==
  ASSUME NEW d, d.time \in Nat, NEW j \in Nat, NEW k \in Nat, j + Interval * H!Second <= k,
         InWindow(d, j)
  PROVE  ~InWindow(d, k)
<1>1. j + 2 * Interval <= k
  BY HistorianAssumption DEF H!Second
<1>2. 2 * (j \div 2) + 2 * Interval <= 2 * (k \div 2)
  BY <1>1, HistorianAssumption
<1>3. d.time < 2 * (j \div 2)
  BY DEF InWindow, H!Second
<1> QED BY <1>2, <1>3, HistorianAssumption DEF InWindow, H!Second

\* Window k comes an interval after window j, unless the clock ticked between the two
\* readings of j.
Apart(j, k) == j \notin straddled => j + Interval * H!Second <= k

\* An iteration starts an interval after the one before at the earliest, so that the
\* windows of what was copied are as far apart; and what a read returns, and an
\* iteration copies, is in its window.
WindowsInv ==
    /\ app \in {"mongo", "indexes"} => copying = "off"
    /\ to_unix <= now
    /\ copying # "off" => Apart(to_unix, next_time)
    /\ copying = "off" => copies = {}
    /\ copying = "get" =>
          \A p \in DOMAIN results : results[p].ok =>
              \A d \in results[p].docs : InWindow(d, to_unix)
    /\ \A a \in copies : /\ InWindow(a[1], a[2])
                         /\ a[2] <= to_unix
                         /\ a[2] = to_unix \/ Apart(a[2], to_unix)
    /\ \A a, b \in copies : a[2] < b[2] => Apart(a[2], b[2])

LEMMA NextWindowsInv ==
  ASSUME H!TypeOK, WindowsInv, [H!Next]_historianVars
  PROVE  WindowsInv'
<1> USE DEF H!appVars, H!thingVars, H!copyVars
<1>0. /\ to_unix \in Nat /\ next_time \in Nat /\ now \in Nat /\ Interval * H!Second \in Nat
      /\ \A a \in copies : a[2] \in Nat
  BY HistorianAssumption DEF H!TypeOK, H!Times, H!Second
<1>1. ASSUME UNCHANGED H!copyVars, now' = now \/ now' = now + 1,
             app' \in {app} \cup H!AppOver \/ (app = "mongo" /\ app' = "indexes")
      PROVE  WindowsInv'
  <2>1. to_unix' <= now'
    BY <1>0, <1>1 DEF WindowsInv
  <2> QED BY <1>1, <2>1 DEF WindowsInv, InWindow, Apart, H!AppOver
\* The iteration is over, or goes on with nothing read yet.
<1>2. ASSUME copying # "off", copying' \notin {"off", "get"},
             UNCHANGED <<now, next_time, to_unix, copies, straddled>>, app' \in {app, "cancelling"}
      PROVE  WindowsInv'
  BY <1>2 DEF WindowsInv, InWindow, Apart
<1>3. CASE H!Produced
  <2>1. /\ next_time' = now + Interval * H!Second /\ copying' \in {"off", "sleep"}
        /\ app' = "observing" /\ copies = {}
        /\ UNCHANGED <<now, to_unix, copies, straddled>>
    BY <1>3 DEF H!Produced, WindowsInv
  <2>2. to_unix + Interval * H!Second <= next_time'
    BY <1>0, <2>1 DEF WindowsInv
  <2> QED BY <2>1, <2>2 DEF WindowsInv, Apart
<1>4. CASE H!Wake
  <2>1. CASE UNCHANGED <<now, next_time, to_unix, straddled>> /\ copying' \in {"sleep", "ended"}
    BY <1>2, <1>4, <2>1 DEF H!Wake, H!Sleep
  <2>2. CASE now >= next_time /\ copying' = "consume" /\ H!Reread /\ app' = app
             /\ next_time' = now + Interval * H!Second
    <3>1. /\ now <= now' /\ to_unix' = now' /\ to_unix' \in Nat /\ straddled \subseteq straddled'
          /\ copying = "sleep" /\ UNCHANGED copies
      BY <1>0, <1>4, <2>2 DEF H!Wake, H!Reread
    <3>2. to_unix' \notin straddled' => to_unix' + Interval * H!Second <= next_time'
      BY <1>0, <2>2 DEF H!Reread
    <3>3. ASSUME NEW a \in copies
          PROVE  a[2] <= to_unix' /\ (a[2] \notin straddled' => a[2] + Interval * H!Second <= to_unix')
      <4>1. a[2] \in Nat /\ a[2] <= to_unix /\ to_unix <= now
        BY <1>0 DEF WindowsInv
      <4>2. CASE a[2] \in straddled'
        BY <1>0, <3>1, <4>1, <4>2
      <4>3. CASE a[2] \notin straddled'
        <5>1. a[2] \notin straddled
          BY <3>1, <4>3
        <5>2. CASE a[2] = to_unix
          <6>1. to_unix + Interval * H!Second <= next_time
            BY <3>1, <5>1, <5>2 DEF WindowsInv, Apart
          <6> QED BY <1>0, <2>2, <3>1, <4>1, <5>2, <6>1
        <5>3. CASE a[2] # to_unix
          <6>1. a[2] + Interval * H!Second <= to_unix
            BY <5>1, <5>3 DEF WindowsInv, Apart
          <6> QED BY <1>0, <3>1, <4>1, <6>1
        <5> QED BY <5>2, <5>3
      <4> QED BY <4>2, <4>3
    <3>4. \A a, b \in copies : a[2] < b[2] => Apart(a[2], b[2])'
      BY <3>1 DEF WindowsInv, Apart
    <3>5. to_unix' <= now'
      BY <1>0, <3>1
    <3>6. \A a \in copies' : /\ InWindow(a[1], a[2])
                             /\ a[2] <= to_unix'
                             /\ Apart(a[2], to_unix)'
      BY <3>1, <3>3 DEF WindowsInv, Apart
    <3>7. Apart(to_unix, next_time)'
      BY <3>2 DEF Apart
    <3> QED BY <2>2, <3>1, <3>4, <3>5, <3>6, <3>7 DEF WindowsInv, InWindow
  <2> QED BY <1>4, <2>1, <2>2 DEF H!Wake, H!Sleep
<1>5. CASE H!Consumed \/ H!IterationFails
  BY <1>2, <1>5 DEF H!Consumed, H!IterationFails, H!Sleep
<1>6. CASE H!Listed
  <2>1. results' = <<>> /\ DOMAIN results' = {} /\ copying' = "get" /\ copying = "list"
        /\ UNCHANGED <<now, app, next_time, to_unix, copies, straddled>>
    BY <1>6 DEF H!Listed
  <2> QED BY <2>1 DEF WindowsInv, InWindow, Apart
<1>7. ASSUME NEW p \in Properties, H!Got(p) PROVE WindowsInv'
  <2>1. PICK result \in {H!Failed} \cup {H!Found(docs) : docs \in H!Aggregated(H!Selected(p))} :
           results' = [q \in DOMAIN results \cup {p} |-> IF q = p THEN result ELSE results[q]]
    BY <1>7 DEF H!Got
  <2>2. copying = "get" /\ UNCHANGED <<now, app, copying, next_time, to_unix, copies, straddled>>
    BY <1>7 DEF H!Got
  <2>3. result.ok => \A d \in result.docs : InWindow(d, to_unix)
    <3>1. CASE result = H!Failed
      <4>1. ~H!Failed.ok
        BY DEF H!Failed
      <4> QED BY <3>1, <4>1, Zenon
    <3>2. ASSUME NEW docs \in H!Aggregated(H!Selected(p)), result = H!Found(docs)
          PROVE  \A d \in result.docs : InWindow(d, to_unix)
      <4>1. result.docs = docs /\ docs \subseteq H!Selected(p)
        BY <3>2 DEF H!Found, H!Aggregated
      <4>2. \A d \in H!Selected(p) : InWindow(d, to_unix)
        BY DEF H!Selected, InWindow
      <4> QED BY <4>1, <4>2
    <3> QED BY <3>1, <3>2
  <2>4. ASSUME NEW q \in DOMAIN results', results'[q].ok, NEW d \in results'[q].docs
        PROVE  InWindow(d, to_unix)
    <3>1. CASE q = p
      <4>1. results'[q] = result
        BY <2>1, <3>1
      <4> QED BY <2>3, <2>4, <4>1, Zenon
    <3>2. CASE q # p
      <4>1. results'[q] = results[q] /\ q \in DOMAIN results
        BY <2>1, <3>2
      <4> QED BY <2>2, <2>4, <4>1, Zenon DEF WindowsInv
    <3> QED BY <3>1, <3>2
  <2> QED BY <2>2, <2>4 DEF WindowsInv, InWindow, Apart
<1>8. CASE H!Write
  <2>1. PICK docs \in SUBSET UNION {results[p].docs : p \in listed} :
           copies' = copies \cup {<<d, to_unix>> : d \in docs}
    BY <1>8 DEF H!Write
  <2>2. /\ copying = "get" /\ copying' = "sleep"
        /\ UNCHANGED <<now, app, next_time, to_unix, straddled>>
        /\ DOMAIN results = listed /\ \A p \in listed : results[p].ok
    BY <1>8 DEF H!Write, H!Sleep
  <2>3. \A d \in docs : InWindow(d, to_unix)
    BY <2>1, <2>2 DEF WindowsInv
  <2>4. \A a \in copies' : a \in copies \/ (a[2] = to_unix /\ InWindow(a[1], a[2]))
    BY <2>1, <2>3
  <2>5. \A a \in copies' : /\ InWindow(a[1], a[2])
                           /\ a[2] <= to_unix
                           /\ a[2] = to_unix \/ Apart(a[2], to_unix)
    BY <1>0, <2>4 DEF WindowsInv
  <2>6. ASSUME NEW a \in copies', NEW b \in copies', a[2] < b[2]
        PROVE  Apart(a[2], b[2])
    <3>1. a[2] \in Nat /\ b[2] \in Nat /\ b[2] <= to_unix /\ a[2] # to_unix
      BY <1>0, <2>4, <2>5, <2>6
    <3>2. a \in copies
      BY <2>4, <3>1
    <3>3. CASE b[2] = to_unix
      BY <2>5, <3>1, <3>3
    <3>4. CASE b \in copies
      BY <2>6, <3>2, <3>4 DEF WindowsInv
    <3> QED BY <2>4, <3>3, <3>4
  <2> QED BY <1>0, <2>2, <2>5, <2>6 DEF WindowsInv, InWindow, Apart
<1>9. CASE H!Cancel
  <2>1. /\ UNCHANGED <<now, next_time, to_unix, results, copies, straddled>>
        /\ app \notin {"mongo", "indexes"} /\ app' = "cancelling"
    BY <1>9 DEF H!Cancel
  <2>2. CASE copying = "off"
    <3>1. copying' = "off"
      BY <1>9, <2>2 DEF H!Cancel, H!Cancelled, H!Interrupted
    <3> QED BY <2>1, <2>2, <3>1 DEF WindowsInv, InWindow, Apart
  <2>3. CASE copying # "off"
    <3>1. copying' \in {"sleep", "ended"}
      BY <1>9, <2>3 DEF H!Cancel, H!Cancelled, H!Interrupted
    <3> QED BY <1>2, <2>1, <2>3, <3>1
  <2> QED BY <2>2, <2>3
<1>10. ASSUME \/ H!Tick \/ \E p \in Properties, t \in H!Times : H!DownlinkWrites(p, t)
              \/ H!MongoAnswers \/ H!BootFails \/ H!NothingObserved \/ H!CancelledInBoot
              \/ \E p \in Observed : H!ThingRead(p)
              \/ H!ThingsSleep \/ H!ThingsWake \/ H!CancelDone
              \/ UNCHANGED historianVars
       PROVE  WindowsInv'
  BY <1>1, <1>10 DEF historianVars, H!AppOver,
                     H!Tick, H!DownlinkWrites, H!MongoAnswers, H!BootFails, H!NothingObserved,
                     H!CancelledInBoot, H!ThingRead, H!ThingsSleep, H!ThingsWake, H!CancelDone
<1> QED
  BY <1>1, <1>3, <1>4, <1>5, <1>6, <1>7, <1>8, <1>9, <1>10 DEF H!Next

\* No document of the downlink is copied twice: the windows of the iterations that
\* stored something do not overlap, however late they start and whatever they lose
\* by the truncation of their bounds, if the clock does not tick between the two
\* readings of an iteration (historian.py:207-243, 364-365, 443-451).
THEOREM CopiesOnce == H!Spec => []CopiedOnce
<1>1. H!Init => WindowsInv
  BY DEF H!Init, WindowsInv
<1>2. H!TypeOK /\ WindowsInv /\ [H!Next]_H!vars => WindowsInv'
  BY NextWindowsInv DEF H!vars, H!appVars, H!thingVars, H!copyVars, historianVars
<1>3. H!TypeOK /\ WindowsInv => CopiedOnce
  <2> SUFFICES ASSUME H!TypeOK, WindowsInv, NEW a \in copies, NEW b \in copies, a[1] = b[1],
                      a[2] <= b[2], a[2] \notin straddled
               PROVE  a[2] = b[2]
    BY DEF CopiedOnce, H!CopiedOnce
  <2>1. a[1].time \in Nat /\ a[2] \in Nat /\ b[2] \in Nat
    BY HistorianAssumption DEF H!TypeOK, H!Documents, H!Times
  <2>2. InWindow(a[1], a[2]) /\ InWindow(a[1], b[2])
    BY DEF WindowsInv
  <2>3. ~(a[2] < b[2])
    BY <2>1, <2>2, WindowsDisjoint DEF WindowsInv, Apart
  <2> QED BY <2>1, <2>3
<1> QED BY <1>1, <1>2, <1>3, HistorianTypes, PTL DEF H!Spec

(***************************************************************************)
(* The historian: how it ends                                              *)
(***************************************************************************)

\* The stop event comes after both children, so that it ends none of them: only a
\* cancellation does, and that ends them together, but for the copying task when
\* its try catches it (historian.py:442, 453, 517, 659-663).
EndInv ==
    /\ app \in {"mongo", "indexes"} => things = "off" /\ copying = "off"
    /\ stop_event => app = "cancelled" /\ H!Over(things) /\ H!Over(copying)
    /\ app = "observing" => things # "ended" /\ copying # "ended"
    /\ app = "cancelling" => H!Over(things) /\ (H!Over(copying) \/ CatchesCancelled)

LEMMA EndNext ==
  ASSUME EndInv, [H!Next]_historianVars
  PROVE  EndInv'
<1> USE DEF EndInv, H!Over, H!appVars, H!thingVars, H!copyVars
<1>1. ASSUME UNCHANGED <<app, stop_event, things, copying>> PROVE EndInv'
  BY <1>1
<1>2. CASE \/ H!Tick \/ \E p \in Properties, t \in H!Times : H!DownlinkWrites(p, t)
           \/ \E p \in Observed : H!ThingRead(p)
           \/ \E p \in Properties : H!Got(p)
           \/ UNCHANGED historianVars
  BY <1>1, <1>2 DEF H!Tick, H!DownlinkWrites, H!ThingRead, H!Got, historianVars
<1>3. CASE H!MongoAnswers \/ H!BootFails \/ H!Produced \/ H!NothingObserved \/ H!CancelledInBoot
  BY <1>3 DEF H!MongoAnswers, H!BootFails, H!Produced, H!NothingObserved, H!CancelledInBoot
<1>4. CASE H!ThingsSleep \/ H!ThingsWake
  BY <1>4 DEF H!ThingsSleep, H!ThingsWake
<1>5. CASE H!Wake \/ H!Consumed \/ H!Listed \/ H!Write \/ H!IterationFails
  BY <1>5 DEF H!Wake, H!Consumed, H!Listed, H!Write, H!IterationFails, H!Sleep
<1>6. CASE H!Cancel
  BY <1>6 DEF H!Cancel, H!Cancelled, H!Interrupted
<1>7. CASE H!CancelDone
  BY <1>7 DEF H!CancelDone
<1> QED BY <1>2, <1>3, <1>4, <1>5, <1>6, <1>7 DEF H!Next

\* A cancelled historian goes on only where its except clause catches the
\* cancellation, and no child ever sees the event that app sets at its end
\* (historian.py:453-458, 659-663).
THEOREM HistorianEnds == H!Spec => []EndInv
<1>1. H!Init => EndInv
  BY DEF H!Init, EndInv
<1>2. EndInv /\ [H!Next]_H!vars => EndInv'
  BY EndNext DEF H!vars, H!appVars, H!thingVars, H!copyVars, historianVars
<1> QED BY <1>1, <1>2, PTL DEF H!Spec
=============================================================================
