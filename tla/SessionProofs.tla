--------------------------- MODULE SessionProofs ---------------------------
(***************************************************************************)
(* Proofs about one session, for any number of inputs and of reconnect     *)
(* attempts: the decoder and the connection are used in order, a reconnect *)
(* needs video, the microphone is left alone, and the end of a connection  *)
(* is noticed and reported.                                                *)
(*                                                                         *)
(* The first invariant, IInv, does not depend on what the SDL queue holds: *)
(* every event may come at any time.  The second, EndInv, is about the     *)
(* SDL_QUITs in it, and rests on the first.                                *)
(***************************************************************************)
EXTENDS Session, WellFoundedInduction, TLAPS

\* What the other conjuncts need of TypeOK.
StateTypes ==
    /\ prefMic \in BOOLEAN /\ mic \in BOOLEAN /\ pendingMic \in BOOLEAN
    /\ mpc \in MainStates
    /\ apc \in {"none", "http", "li", "tail", "finished"}
    /\ conn \in {"down", "starting", "up", "failed"}
    /\ asyncOk \in BOOLEAN /\ hasVideo \in BOOLEAN /\ interrupted \in BOOLEAN

\* The connection as each state of the main thread expects it.
MainKnowsConnection ==
    /\ mpc \in {"idle", "recTry", "recBackoff", "recAgain"} => conn = "down"
    /\ mpc \in {"windowed", "loop", "recStop"} => conn = "up"
    /\ mpc \in {"recTry", "recBackoff", "recAgain"} => ~asyncOk
    /\ mpc = "recEnd" /\ asyncOk /\ ~cancelled => conn = "up"

\* An attempt runs only while the main thread waits for it, and the cleanup
\* task only when the session is over; it stops the connection before it lets
\* another session start.
ThreadsJoined ==
    /\ apc # "none" <=> mpc \in {"starting", "recWait"}
    /\ kpc # "none" => mpc = "over"
    /\ kpc \in {"release", "done"} => conn = "down"

\* The connection as each state of the attempt's thread expects it.
AttemptKnowsConnection ==
    /\ apc = "http" => conn = "down"
    /\ apc = "li" => conn = "starting"
    /\ apc = "tail" => conn = "up"
    /\ apc = "finished" => (conn = "up") = asyncOk

\* Who holds a decoder.
DecoderHeld == decoder => conn = "up" /\ mpc \in {"loop", "cleanup", "destroy"}

\* m_HasReceivedVideo and m_ConnectionInterrupted speak of the connection
\* that is up.
VideoOfThisConnection ==
    /\ mpc = "idle" \/ apc \in {"http", "li"} => ~hasVideo
    /\ hasVideo /\ conn = "up" => sawVideo
    /\ mpc = "recStop" => fired /\ ~interrupted
    /\ interrupted /\ mpc \notin {"cleanup", "destroy", "over"} => conn = "up" /\ fired /\ sawVideo

\* A toggle that the event loop may find was asked for.
ToggleWasAsked ==
    /\ mpc \in {"idle", "starting"} /\ prefMic => micAsked
    /\ mpc \in {"idle", "starting", "windowed", "loop"} /\ pendingMic => micAsked

IInv == /\ StateTypes /\ MainKnowsConnection /\ ThreadsJoined /\ AttemptKnowsConnection
        /\ DecoderHeld /\ VideoOfThisConnection /\ ToggleWasAsked

----------------------------------------------------------------------------
\* The initial state and the steps.

\* A session that was only constructed satisfies the invariant.
LEMMA InitHolds == Init => IInv
  <1> SUFFICES ASSUME Init
               PROVE  IInv
    OBVIOUS
  <1>1. StateTypes
    BY DEF Init, StateTypes, MainStates
  <1>2. MainKnowsConnection /\ ThreadsJoined /\ AttemptKnowsConnection
    BY DEF Init, MainKnowsConnection, ThreadsJoined, AttemptKnowsConnection
  <1>3. DecoderHeld /\ VideoOfThisConnection
    BY DEF Init, DecoderHeld, VideoOfThisConnection
  <1>4. ToggleWasAsked
    BY DEF Init, ToggleWasAsked
  <1> QED
    BY <1>1, <1>2, <1>3, <1>4 DEF IInv

\* The attempt's thread keeps the invariant.
LEMMA AttemptKeeps ==
    ASSUME IInv, AsyncThread
    PROVE  IInv'
  <1> USE DEF IInv, StateTypes, MainStates, Reconnecting, Windowed,
             MainKnowsConnection, ThreadsJoined, AttemptKnowsConnection, DecoderHeld,
             VideoOfThisConnection, ToggleWasAsked, flags, user, link, mics, report,
             ending
  <1>1. CASE HttpFails
    BY <1>1 DEF HttpFails
  <1>2. CASE LiStartConnection
    BY <1>2 DEF LiStartConnection
  <1>3. CASE LiFails
    BY <1>3 DEF LiFails
  <1>4. CASE LiSucceeds
    BY <1>4 DEF LiSucceeds
  <1>5. CASE Connected
    BY <1>5 DEF Connected
  <1> QED
    BY <1>1, <1>2, <1>3, <1>4, <1>5 DEF AsyncThread

\* The callbacks of the connection's threads keep the invariant.
LEMMA ConnectionKeeps ==
    ASSUME IInv, Connection
    PROVE  IInv'
  <1> USE DEF IInv, StateTypes, MainStates, Reconnecting, Windowed,
             MainKnowsConnection, ThreadsJoined, AttemptKnowsConnection, DecoderHeld,
             VideoOfThisConnection, ToggleWasAsked, flags, user, link, mics, report,
             ending
  <1>1. CASE VideoArrives
    BY <1>1 DEF VideoArrives
  <1>2. ASSUME NEW code \in ErrorCodes, ConnectionTerminated(code)
        PROVE  IInv'
    BY <1>2 DEF ConnectionTerminated, MayReconnect
  <1>3. CASE PushQuit
    BY <1>3 DEF PushQuit
  <1>4. CASE ClipboardFrame
    BY <1>4 DEF ClipboardFrame
  <1>5. CASE ClipboardFrameQueued
    BY <1>5 DEF ClipboardFrameQueued
  <1> QED
    BY <1>1, <1>2, <1>3, <1>4, <1>5 DEF Connection

\* start() and exec() up to the event loop keep the invariant.
LEMMA StartKeeps ==
    ASSUME IInv, Start \/ ExecFails \/ CreateWindow \/ CreateWindowFails \/ EnterLoop
    PROVE  IInv'
  <1> USE DEF IInv, StateTypes, MainStates, Reconnecting, Windowed,
             MainKnowsConnection, ThreadsJoined, AttemptKnowsConnection, DecoderHeld,
             VideoOfThisConnection, ToggleWasAsked, flags, user, link, mics, report,
             ending
  <1>1. CASE Start
    BY <1>1 DEF Start
  <1>2. CASE ExecFails
    BY <1>2 DEF ExecFails
  <1>3. CASE CreateWindow
    BY <1>3 DEF CreateWindow
  <1>4. CASE CreateWindowFails
    BY <1>4 DEF CreateWindowFails
  <1>5. CASE EnterLoop
    BY <1>5 DEF EnterLoop
  <1> QED
    BY <1>1, <1>2, <1>3, <1>4, <1>5

\* An iteration of the event loop keeps the invariant.
LEMMA LoopKeeps ==
    ASSUME IInv, Loop
    PROVE  IInv'
  <1> USE DEF IInv, StateTypes, MainStates, Reconnecting, Windowed,
             MainKnowsConnection, ThreadsJoined, AttemptKnowsConnection, DecoderHeld,
             VideoOfThisConnection, ToggleWasAsked, flags, user, link, mics, report,
             ending
  <1>1. CASE LoopInterrupted
    BY <1>1 DEF LoopInterrupted, WantsReconnect
  <1>2. CASE LoopQuit
    BY <1>2 DEF LoopQuit
  <1>3. CASE LoopReset
    BY <1>3 DEF LoopReset, ToggleMic
  <1>4. CASE LoopResetFails
    BY <1>4 DEF LoopResetFails
  <1>5. CASE LoopOther
    BY <1>5 DEF LoopOther, ToggleMic
  <1> QED
    BY <1>1, <1>2, <1>3, <1>4, <1>5 DEF Loop

\* A step of tryReconnect() keeps the invariant.
LEMMA ReconnectKeeps ==
    ASSUME IInv, TryReconnect
    PROVE  IInv'
  <1> USE DEF IInv, StateTypes, MainStates, Reconnecting, Windowed,
             MainKnowsConnection, ThreadsJoined, AttemptKnowsConnection, DecoderHeld,
             VideoOfThisConnection, ToggleWasAsked, flags, user, link, mics, report,
             ending
  <1>1. CASE RecStop
    BY <1>1 DEF RecStop, LiStop
  <1>2. CASE RecAttempt
    BY <1>2 DEF RecAttempt, VideoAtAttempt
  <1>3. CASE RecGivesUp
    BY <1>3 DEF RecGivesUp
  <1>4. CASE RecPoll
    BY <1>4 DEF RecPoll
  <1>5. CASE RecAttemptDone
    BY <1>5 DEF RecAttemptDone, LiStop
  <1>6. CASE RecBackoffDone
    BY <1>6 DEF RecBackoffDone
  <1>7. CASE Reconnected
    BY <1>7 DEF Reconnected, MicAfterReconnect
  <1>8. CASE ReconnectCancelled
    BY <1>8 DEF ReconnectCancelled
  <1>9. CASE ReconnectFailed
    BY <1>9 DEF ReconnectFailed, GiveUpError
  <1> QED
    BY <1>1, <1>2, <1>3, <1>4, <1>5, <1>6, <1>7, <1>8, <1>9 DEF TryReconnect

\* The end of exec() and the cleanup task keep the invariant.
LEMMA EndKeeps ==
    ASSUME IInv, DeleteHelper \/ DispatchCleanup \/ Cleanup
    PROVE  IInv'
  <1> USE DEF IInv, StateTypes, MainStates, Reconnecting, Windowed,
             MainKnowsConnection, ThreadsJoined, AttemptKnowsConnection, DecoderHeld,
             VideoOfThisConnection, ToggleWasAsked, flags, user, link, mics, report,
             ending
  <1>1. CASE DeleteHelper
    BY <1>1 DEF DeleteHelper
  <1>2. CASE DispatchCleanup
    BY <1>2 DEF DispatchCleanup, DecoderDeleted
  <1>3. CASE TaskDecides
    BY <1>3 DEF TaskDecides
  <1>4. CASE TaskStops
    BY <1>4 DEF TaskStops, LiStop
  <1>5. CASE TaskReleases
    BY <1>5 DEF TaskReleases
  <1> QED
    BY <1>1, <1>2, <1>3, <1>4, <1>5 DEF Cleanup

\* What the user, a signal or a renderer does keeps the invariant.
LEMMA EnvironmentKeeps ==
    ASSUME IInv, Environment
    PROVE  IInv'
  <1> USE DEF IInv, StateTypes, MainStates, Reconnecting, Windowed,
             MainKnowsConnection, ThreadsJoined, AttemptKnowsConnection, DecoderHeld,
             VideoOfThisConnection, ToggleWasAsked, flags, user, link, mics, report,
             ending
  <1>1. CASE UserQuits
    BY <1>1 DEF UserQuits, Input
  <1>2. CASE UserCancels
    BY <1>2 DEF UserCancels, Input
  <1>3. CASE UserQuitsAndExits
    BY <1>3 DEF UserQuitsAndExits, Input
  <1>4. ASSUME NEW term \in BOOLEAN, Signal(term)
        PROVE  IInv'
    BY <1>4 DEF Signal, Input
  <1>5. CASE UserTogglesMic
    BY <1>5 DEF UserTogglesMic, Input
  <1>6. CASE AskReset
    BY <1>6 DEF AskReset, Input
  <1> QED
    BY <1>1, <1>2, <1>3, <1>4, <1>5, <1>6 DEF Environment

\* Every step keeps the invariant.
LEMMA NextKeeps == IInv /\ [Next]_vars => IInv'
  <1> SUFFICES ASSUME IInv, [Next]_vars
               PROVE  IInv'
    OBVIOUS
  <1>1. CASE Next
    BY <1>1, AttemptKeeps, ConnectionKeeps, StartKeeps, LoopKeeps, ReconnectKeeps, EndKeeps,
       EnvironmentKeeps DEF Next, MainThread
  <1>2. CASE UNCHANGED vars
    BY <1>2 DEF vars, IInv, StateTypes, MainStates, Reconnecting, Windowed,
           MainKnowsConnection, ThreadsJoined, AttemptKnowsConnection, DecoderHeld,
           VideoOfThisConnection, ToggleWasAsked, flags, user, link, mics, report,
           ending
  <1> QED
    BY <1>1, <1>2

\* The inductive invariant holds in every reachable state.
THEOREM Invariance == Spec => []IInv
  <1>1. Init => IInv
    BY InitHolds
  <1>2. IInv /\ [Next]_vars => IInv'
    BY NextKeeps
  <1> QED
    BY <1>1, <1>2, PTL DEF Spec

----------------------------------------------------------------------------
\* What it gives.

\* Whenever exec() or a renderer uses the decoder, the connection it belongs
\* to has been started and not been stopped.
THEOREM DecoderOrder == Spec => []DecoderOnlyWhileConnected
  <1>1. IInv => DecoderOnlyWhileConnected
    BY DEF IInv, DecoderHeld, DecoderOnlyWhileConnected
  <1> QED
    BY <1>1, Invariance, PTL

\* LiStartConnection() is never called with a connection left over, whatever
\* happened to the one before.
THEOREM ConnectionsDoNotOverlap == Spec => OneConnection
  <1>1. IInv /\ [Next]_vars => [conn # "starting" /\ conn' = "starting" => conn = "down"]_vars
    <2> SUFFICES ASSUME IInv, Next, conn # "starting", conn' = "starting"
                 PROVE  conn = "down"
      BY DEF vars, link
    <2>1. LiStartConnection
      <3>1. CASE AsyncThread
        BY <3>1 DEF AsyncThread, HttpFails, LiStartConnection, LiFails, LiSucceeds,
               Connected, link
      <3>2. CASE Connection
        BY <3>2 DEF Connection, VideoArrives, ConnectionTerminated, PushQuit,
               ClipboardFrame, ClipboardFrameQueued, link
      <3>3. CASE Start \/ ExecFails \/ CreateWindow \/ CreateWindowFails \/ EnterLoop
        BY <3>3 DEF Start, ExecFails, CreateWindow, CreateWindowFails, EnterLoop, link
      <3>4. CASE Loop
        BY <3>4 DEF Loop, LoopInterrupted, LoopQuit, LoopReset, LoopResetFails, LoopOther,
               link
      <3>5. CASE TryReconnect
        BY <3>5 DEF TryReconnect, RecStop, RecAttempt, RecGivesUp, RecPoll,
               RecAttemptDone, RecBackoffDone, Reconnected, ReconnectCancelled,
               ReconnectFailed, LiStop, link
      <3>6. CASE DeleteHelper \/ DispatchCleanup \/ Cleanup
        BY <3>6 DEF DeleteHelper, DispatchCleanup, Cleanup, TaskDecides, TaskStops, TaskReleases,
               LiStop, link
      <3>7. CASE Environment
        BY <3>7 DEF Environment, UserQuits, UserCancels, UserQuitsAndExits, Signal,
               UserTogglesMic, AskReset, Input, link
      <3> QED
        BY <3>1, <3>2, <3>3, <3>4, <3>5, <3>6, <3>7 DEF Next, MainThread
    <2> QED
      BY <2>1 DEF LiStartConnection, IInv, AttemptKnowsConnection
  <1> QED
    BY <1>1, Invariance, PTL DEF Spec, OneConnection

\* What another session sees of this one depends on three questions.
LEMMA SameTurn ==
    ASSUME (mpc = "idle")' <=> (mpc = "idle"), (kpc = "done")' <=> (kpc = "done"),
           (conn = "down")' <=> (conn = "down")
    PROVE  UNCHANGED <<Turn, Held>>
  BY DEF Turn, Held

\* The steps that touch neither the turn nor the connection.
LEMMA QuietSteps ==
    ASSUME IInv,
           \/ HttpFails \/ LiFails \/ LiSucceeds \/ Connected
           \/ Connection
           \/ ExecFails \/ CreateWindow \/ CreateWindowFails \/ EnterLoop
           \/ Loop
           \/ RecAttempt \/ RecGivesUp \/ RecPoll \/ RecBackoffDone
           \/ Reconnected \/ ReconnectCancelled \/ ReconnectFailed
           \/ DeleteHelper \/ DispatchCleanup \/ TaskDecides
           \/ Environment \/ UNCHANGED vars
    PROVE  UNCHANGED <<Turn, Held>>
  <1> USE SameTurn DEF link, ending
  <1>1. CASE HttpFails \/ LiFails \/ LiSucceeds \/ Connected
    BY <1>1 DEF HttpFails, LiFails, LiSucceeds, Connected, IInv, AttemptKnowsConnection
  <1>2. CASE Connection
    BY <1>2 DEF Connection, VideoArrives, ConnectionTerminated, PushQuit, ClipboardFrame,
           ClipboardFrameQueued
  <1>3. CASE ExecFails \/ CreateWindow \/ CreateWindowFails \/ EnterLoop
    BY <1>3 DEF ExecFails, CreateWindow, CreateWindowFails, EnterLoop, IInv, ThreadsJoined
  <1>4. CASE Loop
    BY <1>4 DEF Loop, LoopInterrupted, LoopQuit, LoopReset, LoopResetFails, LoopOther
  <1>5. CASE RecAttempt \/ RecGivesUp \/ RecPoll \/ RecBackoffDone
    BY <1>5 DEF RecAttempt, RecGivesUp, RecPoll, RecBackoffDone
  <1>6. CASE Reconnected \/ ReconnectCancelled \/ ReconnectFailed
    BY <1>6 DEF Reconnected, ReconnectCancelled, ReconnectFailed
  <1>7. CASE DeleteHelper \/ DispatchCleanup \/ TaskDecides
    BY <1>7 DEF DeleteHelper, DispatchCleanup, TaskDecides, IInv, ThreadsJoined
  <1>8. CASE Environment
    BY <1>8 DEF Environment, UserQuits, UserCancels, UserQuitsAndExits, Signal,
           UserTogglesMic, AskReset, Input
  <1>9. CASE UNCHANGED vars
    BY <1>9 DEF vars
  <1> QED
    BY <1>1, <1>2, <1>3, <1>4, <1>5, <1>6, <1>7, <1>8, <1>9

\* Every step of the session is a step of ActiveSession or leaves it alone.
LEMMA StepsKeepTurn ==
    ASSUME IInv, [Next]_vars
    PROVE  [Turns!Next]_<<Turn, Held>>
  <1> USE DEF This, link, ending
  <1>1. CASE Start
    <2>1. Turn = "none" /\ Turn' = This /\ Held' = Held
      BY <1>1 DEF Start, Turn, Held, IInv, ThreadsJoined
    <2> QED
      BY <2>1 DEF Turns!Next, Turns!Begin
  <1>2. CASE LiStartConnection
    <2>1. Turn = This /\ Turn' = Turn
      BY <1>2 DEF LiStartConnection, Turn, IInv, ThreadsJoined
    <2>2. Held = {} /\ Held' = {This}
      BY <1>2 DEF LiStartConnection, Held, IInv, AttemptKnowsConnection
    <2> QED
      BY <2>1, <2>2 DEF Turns!Next, Turns!Connect
  <1>3. CASE RecStop \/ RecAttemptDone \/ TaskStops
    <2>1. Turn = This /\ Turn' = Turn
      BY <1>3 DEF RecStop, RecAttemptDone, TaskStops, Turn, IInv, ThreadsJoined
    <2>2. Held' = {} \/ Held' = Held
      BY <1>3 DEF RecStop, RecAttemptDone, TaskStops, LiStop, Held
    <2> QED
      BY <2>1, <2>2 DEF Turns!Next, Turns!Disconnect
  <1>4. CASE TaskReleases
    <2>1. Turn = This /\ Turn' = "none"
      BY <1>4 DEF TaskReleases, Turn, IInv, ThreadsJoined
    <2>2. Held = {} /\ Held' = Held
      BY <1>4 DEF TaskReleases, Held, IInv, ThreadsJoined
    <2> QED
      BY <2>1, <2>2 DEF Turns!Next, Turns!End
  <1> QED
    BY <1>1, <1>2, <1>3, <1>4, QuietSteps
    DEF Next, AsyncThread, MainThread, TryReconnect, Cleanup

\* One session implements ActiveSession, as several do in SessionHandover: its
\* connections begin in its turn and one at a time, and none is left when its
\* turn ends.
THEOREM SessionKeepsItsTurn == Spec => KeepsItsTurn
  <1>1. Init => Turns!Init
    BY DEF Init, Turns!Init, Turn, Held
  <1>2. IInv /\ [Next]_vars => [Turns!Next]_<<Turn, Held>>
    BY StepsKeepTurn
  <1> QED
    BY <1>1, <1>2, Invariance, PTL DEF Spec, KeepsItsTurn, Turns!Spec

\* A connection that never showed video is not reconnected.
THEOREM NoReconnectWithoutVideo == Spec => ReconnectOnlyAfterVideo
  <1>1. IInv /\ [Next]_vars => [mpc = "loop" /\ mpc' = "recStop" => sawVideo]_vars
    <2> SUFFICES ASSUME IInv, Next, mpc = "loop", mpc' = "recStop"
                 PROVE  sawVideo
      BY DEF vars
    <2>1. LoopInterrupted
      <3>1. CASE AsyncThread
        BY <3>1 DEF AsyncThread, HttpFails, LiStartConnection, LiFails, LiSucceeds,
               Connected
      <3>2. CASE Connection
        BY <3>2 DEF Connection, VideoArrives, ConnectionTerminated, PushQuit,
               ClipboardFrame, ClipboardFrameQueued
      <3>3. CASE Start \/ ExecFails \/ CreateWindow \/ CreateWindowFails \/ EnterLoop
        BY <3>3 DEF Start, ExecFails, CreateWindow, CreateWindowFails, EnterLoop
      <3>4. CASE Loop
        BY <3>4 DEF Loop, LoopInterrupted, LoopQuit, LoopReset, LoopResetFails, LoopOther
      <3>5. CASE TryReconnect
        BY <3>5 DEF TryReconnect, RecStop, RecAttempt, RecGivesUp, RecPoll,
               RecAttemptDone, RecBackoffDone, Reconnected, ReconnectCancelled,
               ReconnectFailed
      <3>6. CASE DeleteHelper \/ DispatchCleanup \/ Cleanup
        BY <3>6 DEF DeleteHelper, DispatchCleanup, Cleanup, TaskDecides, TaskStops, TaskReleases
      <3>7. CASE Environment
        BY <3>7 DEF Environment, UserQuits, UserCancels, UserQuitsAndExits, Signal,
               UserTogglesMic, AskReset, Input
      <3> QED
        BY <3>1, <3>2, <3>3, <3>4, <3>5, <3>6, <3>7 DEF Next, MainThread
    <2> QED
      BY <2>1 DEF LoopInterrupted, WantsReconnect, IInv, VideoOfThisConnection
  <1> QED
    BY <1>1, Invariance, PTL DEF Spec, ReconnectOnlyAfterVideo

\* Reconnecting does not switch the microphone: the event loop starts or stops
\* it only for the launch's preference or for the user.
THEOREM MicrophoneOnRequest == Spec => MicOnlyOnRequest
  <1>1. IInv /\ [Next]_vars => [mpc = "loop" /\ mic' # mic => micAsked]_vars
    <2> SUFFICES ASSUME IInv, Next, mpc = "loop", mic' # mic
                 PROVE  micAsked
      BY DEF vars, mics
    <2>1. ToggleMic
      <3>1. CASE AsyncThread
        BY <3>1 DEF AsyncThread, HttpFails, LiStartConnection, LiFails, LiSucceeds,
               Connected, mics
      <3>2. CASE Connection
        BY <3>2 DEF Connection, VideoArrives, ConnectionTerminated, PushQuit,
               ClipboardFrame, ClipboardFrameQueued, mics
      <3>3. CASE Start \/ ExecFails \/ CreateWindow \/ CreateWindowFails \/ EnterLoop
        BY <3>3 DEF Start, ExecFails, CreateWindow, CreateWindowFails, EnterLoop, mics
      <3>4. CASE Loop
        BY <3>4 DEF Loop, LoopInterrupted, LoopQuit, LoopReset, LoopResetFails, LoopOther,
               mics
      <3>5. CASE TryReconnect
        BY <3>5 DEF TryReconnect, RecStop, RecAttempt, RecGivesUp, RecPoll,
               RecAttemptDone, RecBackoffDone, Reconnected, ReconnectCancelled,
               ReconnectFailed, mics
      <3>6. CASE DeleteHelper \/ DispatchCleanup \/ Cleanup
        BY <3>6 DEF DeleteHelper, DispatchCleanup, Cleanup, TaskDecides, TaskStops, TaskReleases, IInv,
               ThreadsJoined, mics
      <3>7. CASE Environment
        BY <3>7 DEF Environment, UserQuits, UserCancels, UserQuitsAndExits, Signal,
               UserTogglesMic, AskReset, Input, mics
      <3> QED
        BY <3>1, <3>2, <3>3, <3>4, <3>5, <3>6, <3>7 DEF Next, MainThread
    <2>2. pendingMic
      BY <2>1 DEF ToggleMic, mics
    <2> QED
      BY <2>2 DEF IInv, ToggleWasAsked
  <1> QED
    BY <1>1, Invariance, PTL DEF Spec, MicOnlyOnRequest

----------------------------------------------------------------------------
\* Induction, for what a flush of the event queue leaves.

\* Every nonempty set of numbers has a least element.
LEMMA LeastOf ==
    ASSUME NEW S \in SUBSET Nat, S # {}
    PROVE  \E x \in S : \A y \in S : x <= y
  <1> DEFINE R == OpToRel(<, Nat)
  <1>1. IsWellFoundedOn(R, Nat)
    BY NatLessThanWellFounded
  <1>2. \A x, y \in Nat : <<x, y>> \in R <=> x < y
    BY DEF OpToRel
  <1> HIDE DEF R
  <1>3. PICK x \in S : \A y \in S : <<y, x>> \notin R
    BY <1>1, WFMin
  <1>4. ASSUME NEW y \in S
        PROVE  x <= y
    <2>1. x \in Nat /\ y \in Nat
      OBVIOUS
    <2>2. ~(y < x)
      BY <1>2, <1>3, <2>1
    <2> QED
      BY <2>1, <2>2
  <1> QED
    BY <1>4

\* Induction on numbers, for a set instead of a predicate.
LEMMA SetInduction ==
    ASSUME NEW T, 0 \in T, \A n \in Nat : n \in T => n + 1 \in T
    PROVE  Nat \subseteq T
  <1> SUFFICES ASSUME Nat \ T # {}
               PROVE  FALSE
    OBVIOUS
  <1>1. PICK x \in Nat \ T : \A y \in Nat \ T : x <= y
    BY LeastOf
  <1>2. x - 1 \in Nat /\ x - 1 \in T
    BY <1>1
  <1> QED
    BY <1>1, <1>2

\* SDL_QUIT is in a queue, and at most once.
HasQuit(q) == \E i \in DOMAIN q : q[i] = "quit"
OneQuit(q) == \A i, j \in DOMAIN q : q[i] = "quit" /\ q[j] = "quit" => i = j

\* One event more of a flush.
LeftAfter(f, q, n) ==
    IF n = 0 THEN <<>> ELSE IF q[n] = "reset" THEN f[n - 1] ELSE Append(f[n - 1], q[n])

\* The recursion of Flushed() has a solution for each of its beginnings.
LEMMA FlushUpTo ==
    ASSUME NEW q \in Seq(EventTypes), NEW m \in Nat, m <= Len(q)
    PROVE  \E f : f = [n \in 0 .. m |-> LeftAfter(f, q, n)]
  <1> DEFINE Good == {k \in Nat : k <= Len(q) => \E f : f = [n \in 0 .. k |-> LeftAfter(f, q, n)]}
  <1>1. 0 \in Good
    <2> DEFINE g == [n \in 0 .. 0 |-> <<>>]
    <2>1. g = [n \in 0 .. 0 |-> LeftAfter(g, q, n)]
      BY DEF LeftAfter
    <2> QED
      BY <2>1
  <1>2. ASSUME NEW k \in Nat, k \in Good
        PROVE  k + 1 \in Good
    <2> SUFFICES ASSUME k + 1 <= Len(q)
                 PROVE  \E f : f = [n \in 0 .. k + 1 |-> LeftAfter(f, q, n)]
      OBVIOUS
    <2>1. k <= Len(q)
      OBVIOUS
    <2>2. PICK f : f = [n \in 0 .. k |-> LeftAfter(f, q, n)]
      BY <1>2, <2>1
    <2> DEFINE g == [n \in 0 .. k + 1 |-> LeftAfter(f, q, n)]
    <2>3. \A n \in 0 .. k : g[n] = f[n]
      BY <2>2
    <2>4. \A n \in 0 .. k + 1 : LeftAfter(g, q, n) = LeftAfter(f, q, n)
      <3> TAKE n \in 0 .. k + 1
      <3>1. CASE n = 0
        BY <3>1 DEF LeftAfter
      <3>2. CASE n # 0
        <4>1. n - 1 \in 0 .. k
          BY <3>2
        <4>2. g[n - 1] = f[n - 1]
          BY <2>3, <4>1
        <4> QED
          BY <3>2, <4>2 DEF LeftAfter
      <3> QED
        BY <3>1, <3>2
    <2>5. g = [n \in 0 .. k + 1 |-> LeftAfter(g, q, n)]
      BY <2>4
    <2> QED
      BY <2>5
  <1> HIDE DEF Good
  <1>3. m \in Good
    BY <1>1, <1>2, SetInduction
  <1> QED
    BY <1>3 DEF Good

\* So Flushed() is its last value.
LEMMA FlushIsLeft ==
    ASSUME NEW q \in Seq(EventTypes)
    PROVE  \E f : /\ \A n \in 0 .. Len(q) : f[n] = LeftAfter(f, q, n)
                  /\ Flushed(q) = f[Len(q)]
  <1>1. PICK g : g = [n \in 0 .. Len(q) |-> LeftAfter(g, q, n)]
    BY FlushUpTo
  <1>2. \E f : f = [n \in 0 .. Len(q) |-> LeftAfter(f, q, n)] /\ Flushed(q) = f[Len(q)]
    BY <1>1 DEF Flushed, LeftAfter
  <1>3. PICK f : f = [n \in 0 .. Len(q) |-> LeftAfter(f, q, n)] /\ Flushed(q) = f[Len(q)]
    BY <1>2
  <1>4. \A n \in 0 .. Len(q) : f[n] = LeftAfter(f, q, n)
    BY <1>3
  <1> QED
    BY <1>3, <1>4

\* A flush leaves events, and every SDL_QUIT.
LEMMA FlushFacts ==
    ASSUME NEW q \in Seq(EventTypes)
    PROVE  /\ Flushed(q) \in Seq(EventTypes)
           /\ HasQuit(Flushed(q)) <=> HasQuit(q)
           /\ OneQuit(Flushed(q)) <=> OneQuit(q)
  <1>1. PICK f : /\ \A n \in 0 .. Len(q) : f[n] = LeftAfter(f, q, n)
                 /\ Flushed(q) = f[Len(q)]
    BY FlushIsLeft
  <1> DEFINE Before(n) == \E i \in 1 .. n : q[i] = "quit"
             Once(n) == \A i, j \in 1 .. n : q[i] = "quit" /\ q[j] = "quit" => i = j
             Good == {n \in Nat : n <= Len(q) => /\ f[n] \in Seq(EventTypes)
                                                 /\ HasQuit(f[n]) <=> Before(n)
                                                 /\ OneQuit(f[n]) <=> Once(n)}
  <1>2. Len(q) \in Nat /\ DOMAIN q = 1 .. Len(q)
    OBVIOUS
  <1>3. 0 \in Good
    <2>1. f[0] = <<>>
      BY <1>1, <1>2 DEF LeftAfter
    <2>2. <<>> \in Seq(EventTypes) /\ DOMAIN <<>> = {}
      OBVIOUS
    <2>3. ~HasQuit(<<>>) /\ OneQuit(<<>>)
      BY <2>2 DEF HasQuit, OneQuit
    <2>4. ~Before(0) /\ Once(0)
      OBVIOUS
    <2> QED
      BY <2>1, <2>2, <2>3, <2>4
  <1>4. ASSUME NEW n \in Nat, n \in Good
        PROVE  n + 1 \in Good
    <2> SUFFICES ASSUME n + 1 <= Len(q)
                 PROVE  /\ f[n + 1] \in Seq(EventTypes)
                        /\ HasQuit(f[n + 1]) <=> Before(n + 1)
                        /\ OneQuit(f[n + 1]) <=> Once(n + 1)
      OBVIOUS
    <2> DEFINE s == f[n]
               e == q[n + 1]
    <2>1. /\ s \in Seq(EventTypes)
          /\ HasQuit(s) <=> Before(n)
          /\ OneQuit(s) <=> Once(n)
      BY <1>2, <1>4
    <2>2. f[n + 1] = IF e = "reset" THEN s ELSE Append(s, e)
      BY <1>1, <1>2 DEF LeftAfter
    <2>3. e \in EventTypes
      BY <1>2
    <2>4. Before(n + 1) <=> Before(n) \/ e = "quit"
      OBVIOUS
    <2>5. Once(n + 1) <=> Once(n) /\ (e = "quit" => ~Before(n))
      OBVIOUS
    <2> HIDE DEF s, e, Before, Once
    <2>6. CASE e = "reset"
      BY <2>1, <2>2, <2>4, <2>5, <2>6
    <2>7. CASE e # "reset"
      <3>1. /\ Append(s, e) \in Seq(EventTypes)
            /\ Len(Append(s, e)) = Len(s) + 1 /\ Len(s) \in Nat
            /\ \A i \in 1 .. Len(s) : Append(s, e)[i] = s[i]
            /\ Append(s, e)[Len(s) + 1] = e
        BY <2>1, <2>3
      <3> DEFINE t == Append(s, e)
      <3>2. DOMAIN t = 1 .. Len(s) + 1 /\ DOMAIN s = 1 .. Len(s)
        BY <2>1, <3>1
      <3> HIDE DEF t
      <3>3. HasQuit(t) <=> HasQuit(s) \/ e = "quit"
        BY <3>1, <3>2 DEF HasQuit, t
      <3>4. OneQuit(t) <=> OneQuit(s) /\ (e = "quit" => ~HasQuit(s))
        BY <3>1, <3>2 DEF HasQuit, OneQuit, t
      <3> QED
        BY <2>1, <2>2, <2>4, <2>5, <2>7, <3>1, <3>3, <3>4 DEF t
    <2> QED
      BY <2>6, <2>7
  <1>5. Len(q) \in Good
    <2> HIDE DEF Good
    <2> QED
      BY <1>2, <1>3, <1>4, SetInduction
  <1>6. (HasQuit(q) <=> Before(Len(q))) /\ (OneQuit(q) <=> Once(Len(q)))
    BY <1>2 DEF HasQuit, OneQuit
  <1>7. f[Len(q)] \in Seq(EventTypes) /\ (HasQuit(f[Len(q)]) <=> Before(Len(q)))
        /\ (OneQuit(f[Len(q)]) <=> Once(Len(q)))
    <2> HIDE DEF Before, Once
    <2> QED
      BY <1>2, <1>5
  <1> QED
    BY <1>1, <1>6, <1>7

----------------------------------------------------------------------------
\* What a step does to the SDL_QUITs of the queue.

QuitQueued == HasQuit(events)
QuitOnce   == OneQuit(events)

\* One more event.
LEMMA EventPushed ==
    ASSUME events \in Seq(EventTypes), NEW e \in EventTypes, events' = Append(events, e)
    PROVE  /\ events' \in Seq(EventTypes)
           /\ QuitQueued' <=> QuitQueued \/ e = "quit"
           /\ QuitOnce' <=> QuitOnce /\ (e = "quit" => ~QuitQueued)
  <1>1. /\ events' \in Seq(EventTypes)
        /\ DOMAIN events' = 1 .. Len(events) + 1 /\ DOMAIN events = 1 .. Len(events)
        /\ Len(events) \in Nat
        /\ \A i \in 1 .. Len(events) : events'[i] = events[i]
        /\ events'[Len(events) + 1] = e
    OBVIOUS
  <1>2. QuitQueued' <=> QuitQueued \/ e = "quit"
    BY <1>1 DEF QuitQueued, HasQuit
  <1>3. QuitOnce' <=> QuitOnce /\ (e = "quit" => ~QuitQueued)
    BY <1>1 DEF QuitQueued, QuitOnce, HasQuit, OneQuit
  <1> QED
    BY <1>1, <1>2, <1>3

\* What the user, a signal or a renderer pushes.
LEMMA InputPushed ==
    ASSUME events \in Seq(EventTypes), NEW e \in EventTypes
    PROVE  events \o <<e>> = Append(events, e) /\ events \o <<>> = events
  OBVIOUS

\* The event at the head is taken.
LEMMA EventTaken ==
    ASSUME events \in Seq(EventTypes), events # <<>>, NEW q, q = Tail(events)
    PROVE  /\ q \in Seq(EventTypes) /\ Head(events) \in EventTypes
           /\ QuitQueued <=> Head(events) = "quit" \/ HasQuit(q)
           /\ QuitOnce <=> OneQuit(q) /\ (Head(events) = "quit" => ~HasQuit(q))
  <1>1. /\ q \in Seq(EventTypes) /\ Head(events) = events[1]
        /\ Len(events) \in Nat /\ 0 < Len(events) /\ Len(q) = Len(events) - 1
        /\ DOMAIN q = 1 .. Len(q) /\ DOMAIN events = 1 .. Len(events)
        /\ \A i \in 1 .. Len(q) : q[i] = events[i + 1]
    OBVIOUS
  <1>2. \A i \in DOMAIN q : i + 1 \in DOMAIN events /\ i + 1 # 1 /\ q[i] = events[i + 1]
    BY <1>1
  <1>3. \A i \in DOMAIN events : i # 1 => i - 1 \in DOMAIN q /\ q[i - 1] = events[i]
    BY <1>1
  <1>4. 1 \in DOMAIN events /\ events[1] \in EventTypes
    BY <1>1
  <1>5. QuitQueued <=> Head(events) = "quit" \/ HasQuit(q)
    BY <1>1, <1>2, <1>3, <1>4 DEF QuitQueued, HasQuit
  <1>6. QuitOnce => OneQuit(q)
    BY <1>1, <1>2 DEF QuitOnce, OneQuit
  <1>7. QuitOnce /\ Head(events) = "quit" => ~HasQuit(q)
    BY <1>1, <1>2, <1>4 DEF QuitOnce, OneQuit, HasQuit
  <1>8. OneQuit(q) /\ (Head(events) = "quit" => ~HasQuit(q)) => QuitOnce
    <2> SUFFICES ASSUME OneQuit(q), Head(events) = "quit" => ~HasQuit(q),
                        NEW i \in DOMAIN events, NEW j \in DOMAIN events,
                        events[i] = "quit", events[j] = "quit"
                 PROVE  i = j
      BY DEF QuitOnce, OneQuit
    <2>1. CASE i = 1 \/ j = 1
      BY <1>1, <1>3, <2>1 DEF HasQuit
    <2>2. CASE i # 1 /\ j # 1
      <3>1. i - 1 = j - 1
        BY <1>3, <2>2 DEF OneQuit
      <3> QED
        BY <1>1, <3>1
    <2> QED
      BY <2>1, <2>2
  <1> QED
    BY <1>1, <1>4, <1>5, <1>6, <1>7, <1>8

\* So it is in the queue that is left, whether or not it is flushed.
LEMMA EventsLeft ==
    ASSUME events \in Seq(EventTypes), events # <<>>,
           events' = Tail(events) \/ events' = Flushed(Tail(events))
    PROVE  /\ events' \in Seq(EventTypes) /\ Head(events) \in EventTypes
           /\ QuitQueued <=> Head(events) = "quit" \/ QuitQueued'
           /\ QuitOnce <=> QuitOnce' /\ (Head(events) = "quit" => ~QuitQueued')
  <1> DEFINE q == Tail(events)
  <1>1. /\ q \in Seq(EventTypes) /\ Head(events) \in EventTypes
        /\ QuitQueued <=> Head(events) = "quit" \/ HasQuit(q)
        /\ QuitOnce <=> OneQuit(q) /\ (Head(events) = "quit" => ~HasQuit(q))
    BY EventTaken
  <1>2. /\ Flushed(q) \in Seq(EventTypes)
        /\ HasQuit(Flushed(q)) <=> HasQuit(q)
        /\ OneQuit(Flushed(q)) <=> OneQuit(q)
    BY <1>1, FlushFacts
  <1>3. QuitQueued' = HasQuit(events') /\ QuitOnce' = OneQuit(events')
    BY DEF QuitQueued, QuitOnce, HasQuit, OneQuit
  <1> HIDE DEF q
  <1>4. CASE events' = q
    BY <1>1, <1>3, <1>4
  <1>5. CASE events' = Flushed(q)
    BY <1>1, <1>2, <1>3, <1>5
  <1> QED
    BY <1>4, <1>5 DEF q

\* A step that leaves the queue alone.
LEMMA EventsStay ==
    ASSUME events' = events
    PROVE  (QuitQueued' <=> QuitQueued) /\ (QuitOnce' <=> QuitOnce)
  BY DEF QuitQueued, QuitOnce, HasQuit, OneQuit

----------------------------------------------------------------------------
\* Types.

\* The types in groups: what is counted, the flags, the threads and what hangs
\* on the connection, and what happened.
CountTypes ==
    /\ events \in Seq(EventTypes)
    /\ pushing \in Nat /\ inputs \in 0 .. MaxInputs /\ attempts \in 0 .. MaxAttempts

FlagTypes ==
    /\ asyncOk \in BOOLEAN /\ cancelled \in BOOLEAN /\ hasVideo \in BOOLEAN
    /\ interrupted \in BOOLEAN /\ shouldExit \in BOOLEAN /\ unexpected \in BOOLEAN
    /\ suppress \in BOOLEAN

ThreadTypes ==
    /\ prefMic \in BOOLEAN /\ quitAfter \in BOOLEAN
    /\ mpc \in MainStates
    /\ apc \in {"none", "http", "li", "tail", "finished"}
    /\ kpc \in {"none", "decide", "stop", "release", "done"}
    /\ cpc \in {"none", "handling"}
    /\ conn \in {"down", "starting", "up", "failed"}

HolderTypes ==
    /\ fired \in BOOLEAN
    /\ decoder \in BOOLEAN /\ helper \in BOOLEAN
    /\ mic \in BOOLEAN /\ pendingMic \in BOOLEAN
    /\ shouldQuit \in BOOLEAN

HistoryTypes ==
    /\ sawVideo \in BOOLEAN /\ dialog \in BOOLEAN /\ failed \in BOOLEAN
    /\ userQuit \in BOOLEAN /\ exitAsked \in BOOLEAN /\ micAsked \in BOOLEAN

\* The queue and the counts.
LEMMA CountTypesStep ==
    ASSUME TypeOK, [Next]_vars
    PROVE  CountTypes'
  <1> USE SessionAssumption DEF TypeOK, CountTypes
  <1>1. /\ "quit" \in EventTypes /\ "cancel" \in EventTypes /\ "reset" \in EventTypes
        /\ \A e \in EventTypes : Append(events, e) \in Seq(EventTypes)
        /\ \A e \in EventTypes : events \o <<e>> \in Seq(EventTypes)
        /\ events \o <<>> \in Seq(EventTypes)
    BY DEF EventTypes
  <1>2. CASE AsyncThread
    BY <1>2 DEF AsyncThread, HttpFails, LiStartConnection, LiFails, LiSucceeds, Connected, user
  <1>3. CASE Connection
    BY <1>1, <1>3, SMTT(30) DEF Connection, VideoArrives, ConnectionTerminated, PushQuit, QuitEvent,
           ClipboardFrame, ClipboardFrameQueued, user
  <1>4. CASE Start \/ ExecFails \/ CreateWindow \/ CreateWindowFails \/ EnterLoop
    BY <1>1, <1>4 DEF Start, ExecFails, CreateWindow, CreateWindowFails, EnterLoop, user
  <1>5. CASE Loop
    <2>1. events # <<>> /\ (events' = Tail(events) \/ events' = Flushed(Tail(events)))
      BY <1>5 DEF Loop, LoopInterrupted, LoopQuit, LoopReset, LoopResetFails, LoopOther
    <2>2. events' \in Seq(EventTypes)
      BY <2>1, EventsLeft
    <2> QED
      BY <1>5, <2>2 DEF Loop, LoopInterrupted, LoopQuit, LoopReset, LoopResetFails, LoopOther, user
  <1>6. CASE RecPoll
    <2>1. events' \in Seq(EventTypes)
      BY <1>6, EventsLeft DEF RecPoll
    <2> QED
      BY <1>6, <2>1 DEF RecPoll, user
  <1>7. CASE RecStop \/ RecAttempt \/ RecGivesUp \/ RecAttemptDone \/ RecBackoffDone
    BY <1>7 DEF RecStop, RecAttempt, RecGivesUp, RecAttemptDone, RecBackoffDone, user
  <1>8. CASE Reconnected \/ ReconnectCancelled \/ ReconnectFailed
    BY <1>1, <1>8 DEF Reconnected, ReconnectCancelled, ReconnectFailed, user
  <1>9. CASE DeleteHelper \/ DispatchCleanup \/ Cleanup
    BY <1>9 DEF DeleteHelper, DispatchCleanup, Cleanup, TaskDecides, TaskStops, TaskReleases, user
  <1>10. CASE Environment
    <2> HIDE DEF TypeOK, CountTypes
    <2>1. \E pushed \in {<<>>, <<"quit">>, <<"cancel">>, <<"reset">>} : Input(pushed)
      BY <1>10 DEF Environment, UserQuits, UserCancels, UserQuitsAndExits, Signal,
             UserTogglesMic, AskReset
    <2>2. PICK pushed \in {<<>>, <<"quit">>, <<"cancel">>, <<"reset">>} : Input(pushed)
      BY <2>1
    <2>3. /\ inputs < MaxInputs /\ inputs' = inputs + 1 /\ events' = events \o pushed
          /\ attempts' = attempts /\ pushing' = pushing
      BY <2>2 DEF Input
    <2>4. /\ pushing \in Nat /\ inputs \in 0 .. MaxInputs /\ attempts \in 0 .. MaxAttempts
      BY DEF TypeOK
    <2>5. events \o pushed \in Seq(EventTypes)
      BY <1>1, <2>2
    <2>6. inputs' \in 0 .. MaxInputs
      BY <2>3, <2>4
    <2> QED
      BY <2>3, <2>4, <2>5, <2>6 DEF CountTypes
  <1>11. CASE UNCHANGED vars
    BY <1>11 DEF vars, user
  <1> QED
    BY <1>2, <1>3, <1>4, <1>5, <1>6, <1>7, <1>8, <1>9, <1>10, <1>11 DEF Next, MainThread, TryReconnect

\* The flags.
LEMMA FlagTypesStep ==
    ASSUME TypeOK, [Next]_vars
    PROVE  FlagTypes'
  <1> USE DEF TypeOK, FlagTypes, flags, user, link, mics, report, ending
  <1>1. CASE AsyncThread
    BY <1>1 DEF AsyncThread, HttpFails, LiStartConnection, LiFails, LiSucceeds, Connected
  <1>2. CASE Connection
    <2>1. CASE VideoArrives
      BY <2>1 DEF VideoArrives
    <2>2. ASSUME NEW code \in ErrorCodes, ConnectionTerminated(code)
          PROVE  FlagTypes'
      BY <2>2 DEF ConnectionTerminated, MayReconnect
    <2>3. CASE PushQuit
      BY <2>3 DEF PushQuit
    <2>4. CASE ClipboardFrame \/ ClipboardFrameQueued
      BY <2>4 DEF ClipboardFrame, ClipboardFrameQueued
    <2> QED
      BY <1>2, <2>1, <2>2, <2>3, <2>4 DEF Connection
  <1>3. CASE Start \/ ExecFails \/ CreateWindow \/ CreateWindowFails \/ EnterLoop
    BY <1>3, ZenonT(60) DEF Start, ExecFails, CreateWindow, CreateWindowFails, EnterLoop
  <1>4. CASE Loop
    BY <1>4, ZenonT(60) DEF Loop, LoopInterrupted, LoopQuit, LoopReset, LoopResetFails, LoopOther, ToggleMic
  <1>5. CASE RecStop \/ RecAttempt \/ RecGivesUp \/ RecPoll
    BY <1>5 DEF RecStop, RecAttempt, RecGivesUp, RecPoll, IsCancel, LiStop, VideoAtAttempt
  <1>6. CASE \/ RecAttemptDone \/ RecBackoffDone \/ Reconnected
             \/ ReconnectCancelled \/ ReconnectFailed
    BY <1>6 DEF RecAttemptDone, RecBackoffDone, Reconnected, ReconnectCancelled, ReconnectFailed,
           LiStop, MicAfterReconnect, GiveUpError
  <1>7. CASE DeleteHelper \/ DispatchCleanup \/ Cleanup
    BY <1>7 DEF DeleteHelper, DispatchCleanup, Cleanup, TaskDecides, TaskStops, TaskReleases, LiStop, DecoderDeleted
  <1>8. CASE Environment
    BY <1>8, ZenonT(60) DEF Environment, UserQuits, UserCancels, UserQuitsAndExits, Signal,
           UserTogglesMic, AskReset, Input
  <1>9. CASE UNCHANGED vars
    BY <1>9 DEF vars
  <1> QED
    BY <1>1, <1>2, <1>3, <1>4, <1>5, <1>6, <1>7, <1>8, <1>9 DEF Next, MainThread, TryReconnect

\* The threads and the connection.
LEMMA ThreadTypesStep ==
    ASSUME TypeOK, [Next]_vars
    PROVE  ThreadTypes'
  <1> USE DEF TypeOK, ThreadTypes, MainStates, Reconnecting, Windowed,
             flags, user, link, mics, report, ending
  <1>1. CASE AsyncThread
    BY <1>1 DEF AsyncThread, HttpFails, LiStartConnection, LiFails, LiSucceeds, Connected
  <1>2. CASE Connection
    <2> HIDE DEF TypeOK, ThreadTypes
    <2>1. /\ cpc' \in {cpc, "none", "handling"}
          /\ UNCHANGED <<prefMic, quitAfter, mpc, apc, kpc, conn>>
      BY <1>2 DEF Connection, VideoArrives, ConnectionTerminated, PushQuit,
             ClipboardFrame, ClipboardFrameQueued
    <2> QED
      BY <2>1 DEF TypeOK, ThreadTypes
  <1>3. CASE Start \/ ExecFails \/ CreateWindow \/ CreateWindowFails \/ EnterLoop
    BY <1>3 DEF Start, ExecFails, CreateWindow, CreateWindowFails, EnterLoop
  <1>4. CASE Loop
    BY <1>4 DEF Loop, LoopInterrupted, LoopQuit, LoopReset, LoopResetFails, LoopOther, ToggleMic
  <1>5. CASE RecStop \/ RecAttempt \/ RecGivesUp \/ RecPoll
    BY <1>5 DEF RecStop, RecAttempt, RecGivesUp, RecPoll, IsCancel, LiStop, VideoAtAttempt
  <1>6. CASE \/ RecAttemptDone \/ RecBackoffDone \/ Reconnected
             \/ ReconnectCancelled \/ ReconnectFailed
    BY <1>6 DEF RecAttemptDone, RecBackoffDone, Reconnected, ReconnectCancelled, ReconnectFailed,
           LiStop, MicAfterReconnect, GiveUpError
  <1>7. CASE DeleteHelper \/ DispatchCleanup \/ Cleanup
    BY <1>7 DEF DeleteHelper, DispatchCleanup, Cleanup, TaskDecides, TaskStops, TaskReleases, LiStop, DecoderDeleted
  <1>8. CASE Environment
    <2>1. /\ quitAfter' \in BOOLEAN
          /\ UNCHANGED <<prefMic, mpc, apc, kpc, cpc, conn>>
      BY <1>8 DEF Environment, UserQuits, UserCancels, UserQuitsAndExits, Signal,
             UserTogglesMic, AskReset, Input
    <2> QED
      BY <2>1
  <1>9. CASE UNCHANGED vars
    BY <1>9 DEF vars
  <1> QED
    BY <1>1, <1>2, <1>3, <1>4, <1>5, <1>6, <1>7, <1>8, <1>9 DEF Next, MainThread, TryReconnect

\* What hangs on the connection.
LEMMA HolderTypesStep ==
    ASSUME TypeOK, [Next]_vars
    PROVE  HolderTypes'
  <1> USE DEF TypeOK, HolderTypes, flags, user, link, mics, report, ending
  <1>1. CASE AsyncThread
    BY <1>1 DEF AsyncThread, HttpFails, LiStartConnection, LiFails, LiSucceeds, Connected
  <1>2. CASE Connection
    BY <1>2 DEF Connection, VideoArrives, ConnectionTerminated, MayReconnect, PushQuit,
           ClipboardFrame, ClipboardFrameQueued
  <1>3. CASE Start \/ ExecFails \/ CreateWindow \/ CreateWindowFails \/ EnterLoop
    BY <1>3 DEF Start, ExecFails, CreateWindow, CreateWindowFails, EnterLoop
  <1>4. CASE Loop
    BY <1>4 DEF Loop, LoopInterrupted, LoopQuit, LoopReset, LoopResetFails, LoopOther, ToggleMic
  <1>5. CASE RecStop \/ RecAttempt \/ RecGivesUp \/ RecPoll
    BY <1>5 DEF RecStop, RecAttempt, RecGivesUp, RecPoll, IsCancel, LiStop, VideoAtAttempt
  <1>6. CASE \/ RecAttemptDone \/ RecBackoffDone \/ Reconnected
             \/ ReconnectCancelled \/ ReconnectFailed
    BY <1>6 DEF RecAttemptDone, RecBackoffDone, Reconnected, ReconnectCancelled, ReconnectFailed,
           LiStop, MicAfterReconnect, GiveUpError
  <1>7. CASE DeleteHelper \/ DispatchCleanup \/ Cleanup
    BY <1>7 DEF DeleteHelper, DispatchCleanup, Cleanup, TaskDecides, TaskStops, TaskReleases, LiStop, DecoderDeleted
  <1>8. CASE Environment
    BY <1>8 DEF Environment, UserQuits, UserCancels, UserQuitsAndExits, Signal,
           UserTogglesMic, AskReset, Input
  <1>9. CASE UNCHANGED vars
    BY <1>9 DEF vars
  <1> QED
    BY <1>1, <1>2, <1>3, <1>4, <1>5, <1>6, <1>7, <1>8, <1>9 DEF Next, MainThread, TryReconnect

\* What happened.
LEMMA HistoryTypesStep ==
    ASSUME TypeOK, [Next]_vars
    PROVE  HistoryTypes'
  <1> USE DEF TypeOK, HistoryTypes, flags, user, link, mics, report, ending
  <1>1. CASE AsyncThread
    BY <1>1 DEF AsyncThread, HttpFails, LiStartConnection, LiFails, LiSucceeds, Connected
  <1>2. CASE Connection
    BY <1>2, ZenonT(60) DEF Connection, VideoArrives, ConnectionTerminated, MayReconnect, PushQuit,
           ClipboardFrame, ClipboardFrameQueued
  <1>3. CASE Start \/ ExecFails \/ CreateWindow \/ CreateWindowFails \/ EnterLoop
    BY <1>3 DEF Start, ExecFails, CreateWindow, CreateWindowFails, EnterLoop
  <1>4. CASE Loop
    BY <1>4, ZenonT(60) DEF Loop, LoopInterrupted, LoopQuit, LoopReset, LoopResetFails, LoopOther, ToggleMic
  <1>5. CASE RecStop \/ RecAttempt \/ RecGivesUp \/ RecPoll
    BY <1>5 DEF RecStop, RecAttempt, RecGivesUp, RecPoll, IsCancel, LiStop, VideoAtAttempt
  <1>6. CASE \/ RecAttemptDone \/ RecBackoffDone \/ Reconnected
             \/ ReconnectCancelled \/ ReconnectFailed
    BY <1>6 DEF RecAttemptDone, RecBackoffDone, Reconnected, ReconnectCancelled, ReconnectFailed,
           LiStop, MicAfterReconnect, GiveUpError
  <1>7. CASE DeleteHelper \/ DispatchCleanup \/ Cleanup
    BY <1>7 DEF DeleteHelper, DispatchCleanup, Cleanup, TaskDecides, TaskStops, TaskReleases, LiStop, DecoderDeleted
  <1>8. CASE Environment
    BY <1>8 DEF Environment, UserQuits, UserCancels, UserQuitsAndExits, Signal,
           UserTogglesMic, AskReset, Input
  <1>9. CASE UNCHANGED vars
    BY <1>9 DEF vars
  <1> QED
    BY <1>1, <1>2, <1>3, <1>4, <1>5, <1>6, <1>7, <1>8, <1>9 DEF Next, MainThread, TryReconnect

\* Every step keeps the types.
LEMMA TypeStep ==
    ASSUME TypeOK, [Next]_vars
    PROVE  TypeOK'
  BY CountTypesStep, FlagTypesStep, ThreadTypesStep, HolderTypesStep, HistoryTypesStep
     DEF TypeOK, CountTypes, FlagTypes, ThreadTypes, HolderTypes, HistoryTypes

----------------------------------------------------------------------------
\* Why a session ends.

\* tryReconnect() clears what it sets, and a cancelled one told the program
\* to exit.
CancelKnown ==
    /\ mpc \in {"idle", "starting", "windowed", "loop", "recStop"} => ~cancelled
    /\ mpc \notin Reconnecting => ~suppress /\ (cancelled => shouldExit)
    /\ mpc = "starting" /\ apc = "finished" /\ ~asyncOk => dialog
    /\ conn = "starting" => ~fired

\* The end of a connection that is up has not been looked at yet.
Unseen == mpc \in {"starting", "windowed", "loop", "recWait", "recEnd"} /\ conn = "up"

\* It has an SDL_QUIT, unless a cancelled reconnect has taken that.
QuitComes == Unseen /\ fired /\ ~cancelled => pushing > 0 \/ QuitQueued

\* Nobody but the connection has ended the session, and no dialog was raised.
ByItself == ~userQuit /\ ~exitAsked /\ ~shouldExit /\ ~cancelled /\ ~dialog

\* Then there is at most one SDL_QUIT, and it is the connection's.
QuitIsTermination ==
    ByItself /\ mpc # "over" =>
        /\ pushing \in {0, 1}
        /\ QuitOnce
        /\ pushing = 1 => ~QuitQueued
        /\ pushing = 1 \/ QuitQueued =>
               fired /\ conn = "up" /\ mpc \notin {"recStop", "cleanup", "destroy"}

\* And a failure is one that is to be reconnected: there is none when the
\* event loop has been left.
FailureReconnects ==
    ByItself =>
        /\ Unseen /\ failed => interrupted
        /\ mpc \in {"cleanup", "destroy"} => fired
        /\ mpc = "cleanup" => ~failed

EndInv == CancelKnown /\ QuitComes /\ QuitIsTermination /\ FailureReconnects

\* It holds of a session that was only constructed.
LEMMA InitEnds == Init => TypeOK /\ EndInv
  <1> SUFFICES ASSUME Init
               PROVE  TypeOK /\ EndInv
    OBVIOUS
  <1>1. ~QuitQueued /\ QuitOnce /\ events \in Seq(EventTypes)
    <2>1. events = <<>> /\ DOMAIN <<>> = {}
      BY DEF Init
    <2> QED
      BY <2>1 DEF QuitQueued, QuitOnce, HasQuit, OneQuit
  <1>2. EndInv
    BY <1>1 DEF Init, EndInv, CancelKnown, QuitComes, Unseen, QuitIsTermination, FailureReconnects
  <1>3. 0 \in 0 .. MaxInputs /\ 0 \in 0 .. MaxAttempts
    BY SessionAssumption
  <1>4. TypeOK
    BY <1>1, <1>3 DEF Init, TypeOK, MainStates
  <1> QED
    BY <1>2, <1>4

\* Every step keeps it.
LEMMA EndStep ==
    ASSUME IInv, TypeOK, EndInv, [Next]_vars
    PROVE  EndInv'
  <1> USE DEF EndInv, CancelKnown, QuitComes, Unseen, ByItself, QuitIsTermination, FailureReconnects,
             Reconnecting, flags, user, link, mics, report, ending
  <1> DEFINE Known == /\ MainKnowsConnection /\ ThreadsJoined /\ AttemptKnowsConnection
                      /\ VideoOfThisConnection
  <1>0. Known /\ events \in Seq(EventTypes) /\ pushing \in Nat
    BY DEF IInv, TypeOK
  <1> USE DEF MainKnowsConnection, ThreadsJoined, AttemptKnowsConnection, VideoOfThisConnection
  <1>1. CASE AsyncThread
    <2>1. (QuitQueued' <=> QuitQueued) /\ (QuitOnce' <=> QuitOnce)
      BY <1>1, EventsStay DEF AsyncThread, HttpFails, LiStartConnection, LiFails, LiSucceeds, Connected
    <2>2. CASE HttpFails
      BY <1>0, <2>1, <2>2 DEF HttpFails
    <2>3. CASE LiStartConnection
      BY <1>0, <2>1, <2>3 DEF LiStartConnection
    <2>4. CASE LiFails
      BY <1>0, <2>1, <2>4 DEF LiFails
    <2>5. CASE LiSucceeds
      BY <1>0, <2>1, <2>5 DEF LiSucceeds
    <2>6. CASE Connected
      BY <1>0, <2>1, <2>6 DEF Connected
    <2> QED
      BY <1>1, <2>2, <2>3, <2>4, <2>5, <2>6 DEF AsyncThread
  <1>2. CASE Connection
    <2>1. CASE VideoArrives \/ ClipboardFrame \/ ClipboardFrameQueued
      <3>1. (QuitQueued' <=> QuitQueued) /\ (QuitOnce' <=> QuitOnce)
        BY <2>1, EventsStay DEF VideoArrives, ClipboardFrame, ClipboardFrameQueued
      <3> QED
        BY <2>1, <3>1 DEF VideoArrives, ClipboardFrame, ClipboardFrameQueued
    <2>2. ASSUME NEW code \in ErrorCodes, ConnectionTerminated(code)
          PROVE  EndInv'
      <3>1. (QuitQueued' <=> QuitQueued) /\ (QuitOnce' <=> QuitOnce)
        BY <2>2, EventsStay DEF ConnectionTerminated
      <3> QED
        BY <1>0, <2>2, <3>1 DEF ConnectionTerminated, MayReconnect
    <2>3. CASE PushQuit
      <3>1. /\ QuitQueued'
            /\ QuitOnce /\ ~QuitQueued => QuitOnce'
        BY <1>0, <2>3, EventPushed DEF PushQuit, QuitEvent, EventTypes
      <3> QED
        BY <1>0, <2>3, <3>1 DEF PushQuit
    <2> QED
      BY <1>2, <2>1, <2>2, <2>3 DEF Connection
  <1>3. CASE CreateWindow
    <2>1. (QuitQueued' <=> QuitQueued) /\ (QuitOnce => QuitOnce')
      BY <1>0, <1>3, EventPushed DEF CreateWindow, EventTypes
    <2> QED
      BY <1>0, <1>3, <2>1 DEF CreateWindow
  <1>4. CASE Start \/ ExecFails \/ CreateWindowFails \/ EnterLoop
    <2>1. (QuitQueued' <=> QuitQueued) /\ (QuitOnce' <=> QuitOnce)
      BY <1>4, EventsStay DEF Start, ExecFails, CreateWindowFails, EnterLoop
    <2> QED
      BY <1>0, <1>4, <2>1 DEF Start, ExecFails, CreateWindowFails, EnterLoop
  <1>5. CASE Loop
    <2>1. events # <<>> /\ (events' = Tail(events) \/ events' = Flushed(Tail(events)))
      BY <1>5 DEF Loop, LoopInterrupted, LoopQuit, LoopReset, LoopResetFails, LoopOther
    <2>2. /\ QuitQueued <=> Head(events) = "quit" \/ QuitQueued'
          /\ QuitOnce => QuitOnce' /\ (Head(events) = "quit" => ~QuitQueued')
      BY <1>0, <2>1, EventsLeft
    <2>3. CASE LoopInterrupted
      BY <1>0, <2>2, <2>3 DEF LoopInterrupted, WantsReconnect
    <2>4. CASE LoopQuit
      BY <1>0, <2>2, <2>4 DEF LoopQuit, WantsReconnect
    <2>5. CASE LoopReset
      BY <1>0, <2>2, <2>5 DEF LoopReset
    <2>6. CASE LoopResetFails
      BY <1>0, <2>2, <2>6 DEF LoopResetFails
    <2>7. CASE LoopOther
      BY <1>0, <2>2, <2>7 DEF LoopOther
    <2> QED
      BY <1>5, <2>3, <2>4, <2>5, <2>6, <2>7 DEF Loop
  <1>6. CASE TryReconnect
    <2>1. CASE RecPoll
      <3>1. /\ QuitQueued <=> Head(events) = "quit" \/ QuitQueued'
            /\ QuitOnce => QuitOnce'
        BY <1>0, <2>1, EventsLeft DEF RecPoll
      <3> QED
        BY <1>0, <2>1, <3>1 DEF RecPoll, IsCancel
    <2>2. CASE Reconnected
      <3>1. (QuitQueued' <=> QuitQueued) /\ (QuitOnce => QuitOnce')
        BY <1>0, <2>2, EventPushed DEF Reconnected, EventTypes
      <3> QED
        BY <1>0, <2>2, <3>1 DEF Reconnected
    <2>3. ASSUME events' = events
          PROVE  (QuitQueued' <=> QuitQueued) /\ (QuitOnce' <=> QuitOnce)
      BY <2>3, EventsStay
    <2>4. CASE RecStop
      BY <1>0, <2>3, <2>4 DEF RecStop, LiStop
    <2>5. CASE RecAttempt \/ RecGivesUp \/ RecBackoffDone
      BY <1>0, <2>3, <2>5 DEF RecAttempt, RecGivesUp, RecBackoffDone
    <2>6. CASE RecAttemptDone
      <3>1. (QuitQueued' <=> QuitQueued) /\ (QuitOnce' <=> QuitOnce)
        BY <2>3, <2>6 DEF RecAttemptDone
      <3>2. CASE cancelled \/ asyncOk
        BY <1>0, <2>6, <3>1, <3>2 DEF RecAttemptDone
      <3>3. CASE ~cancelled /\ ~asyncOk
        BY <1>0, <2>6, <3>1, <3>3 DEF RecAttemptDone, LiStop
      <3> QED
        BY <3>2, <3>3
    <2>7. CASE ReconnectCancelled
      BY <1>0, <2>3, <2>7 DEF ReconnectCancelled
    <2>8. CASE ReconnectFailed
      BY <1>0, <2>3, <2>8 DEF ReconnectFailed, GiveUpError
    <2> QED
      BY <1>6, <2>1, <2>2, <2>4, <2>5, <2>6, <2>7, <2>8 DEF TryReconnect
  <1>7. CASE DeleteHelper \/ DispatchCleanup \/ Cleanup
    <2>1. (QuitQueued' <=> QuitQueued) /\ (QuitOnce' <=> QuitOnce)
      BY <1>7, EventsStay DEF DeleteHelper, DispatchCleanup, Cleanup, TaskDecides, TaskStops, TaskReleases
    <2> QED
      BY <1>0, <1>7, <2>1 DEF DeleteHelper, DispatchCleanup, Cleanup, TaskDecides, TaskStops, TaskReleases, LiStop
  <1>8. CASE Environment
    <2>1. CASE UserQuits \/ UserCancels \/ UserQuitsAndExits \/ \E term \in BOOLEAN : Signal(term)
      <3>1. QuitQueued => QuitQueued'
        <4>1. events' = Append(events, "quit") \/ events' = Append(events, "cancel")
          BY <1>0, <2>1, InputPushed DEF UserQuits, UserCancels, UserQuitsAndExits, Signal, Input,
             EventTypes
        <4> QED
          BY <1>0, <4>1, EventPushed DEF EventTypes
      <3>2. ~ByItself'
        BY <2>1 DEF UserQuits, UserCancels, UserQuitsAndExits, Signal
      <3>3. UNCHANGED <<mpc, apc, asyncOk, cancelled, suppress, conn, fired, pushing, dialog>>
        BY <2>1 DEF UserQuits, UserCancels, UserQuitsAndExits, Signal, Input
      <3>4. shouldExit => shouldExit'
        BY <2>1 DEF UserQuits, UserCancels, UserQuitsAndExits, Signal, Input
      <3> QED
        BY <3>1, <3>2, <3>3, <3>4
    <2>2. CASE UserTogglesMic
      <3>1. (QuitQueued' <=> QuitQueued) /\ (QuitOnce' <=> QuitOnce)
        BY <1>0, <2>2, InputPushed, EventsStay DEF UserTogglesMic, Input, EventTypes
      <3> QED
        BY <2>2, <3>1 DEF UserTogglesMic, Input
    <2>3. CASE AskReset
      <3>1. events' = Append(events, "reset")
        BY <1>0, <2>3, InputPushed DEF AskReset, Input, EventTypes
      <3>2. (QuitQueued' <=> QuitQueued) /\ (QuitOnce => QuitOnce')
        BY <1>0, <3>1, EventPushed DEF EventTypes
      <3> QED
        BY <2>3, <3>2 DEF AskReset, Input
    <2> QED
      BY <1>8, <2>1, <2>2, <2>3 DEF Environment
  <1>9. CASE UNCHANGED vars
    <2>1. (QuitQueued' <=> QuitQueued) /\ (QuitOnce' <=> QuitOnce)
      BY <1>9, EventsStay DEF vars
    <2> QED
      BY <1>9, <2>1 DEF vars
  <1> QED
    BY <1>1, <1>2, <1>3, <1>4, <1>5, <1>6, <1>7, <1>8, <1>9 DEF Next, MainThread

\* It holds in every reachable state.
THEOREM EndsInvariance == Spec => [](TypeOK /\ EndInv)
  <1>1. Init => TypeOK /\ EndInv
    BY InitEnds
  <1>2. IInv /\ TypeOK /\ EndInv /\ [Next]_vars => (TypeOK /\ EndInv)'
    BY TypeStep, EndStep
  <1> QED
    BY <1>1, <1>2, Invariance, PTL DEF Spec

\* Every variable of the session keeps its type.
THEOREM TypeCorrect == Spec => []TypeOK
  BY EndsInvariance, PTL

\* An ended connection always has its SDL_QUIT on the way to the event loop:
\* neither a flush nor a poll of a reconnect attempt loses it.
THEOREM EndIsNoticed == Spec => []TerminationWakesLoop
  <1>1. TypeOK /\ EndInv => TerminationWakesLoop
    BY DEF EndInv, CancelKnown, QuitComes, Unseen, QuitQueued, HasQuit, TerminationWakesLoop
  <1> QED
    BY <1>1, EndsInvariance, PTL

\* A session that its connection ended, or that never had one, has told the
\* user why.
THEOREM FailureIsReported == Spec => []ConnectionFailureReported
  <1>1. TypeOK /\ EndInv => ConnectionFailureReported
    BY DEF EndInv, CancelKnown, ByItself, FailureReconnects, Reconnecting, ConnectionFailureReported
  <1> QED
    BY <1>1, EndsInvariance, PTL

----------------------------------------------------------------------------
\* The user's quit.

\* SDL_QUITs queued or about to be, and that there are two.
AQuit     == pushing > 0 \/ QuitQueued
TwoQuits  == pushing > 1 \/ (pushing > 0 /\ QuitQueued) \/ ~QuitOnce

\* Until the session ends or a quit was taken for a cancel, the user's quit and
\* that of an interrupted connection are each on their way, so that the event
\* loop may take either for the other.
QuitInv ==
    mpc \notin {"cleanup", "destroy", "over"} /\ ~cancelled =>
        /\ userQuit \/ interrupted => AQuit
        /\ userQuit /\ interrupted => TwoQuits

\* A step that takes no event, and after which no more is asked.
LEMMA QuitsStay ==
    ASSUME TypeOK, QuitInv, UNCHANGED <<userQuit, pushing>>, interrupted' => interrupted,
           \/ events' = events
           \/ \E e \in EventTypes : events' = Append(events, e),
           mpc' \notin {"cleanup", "destroy", "over"} /\ ~cancelled' =>
               mpc \notin {"cleanup", "destroy", "over"} /\ ~cancelled
    PROVE  QuitInv'
  <1>1. (QuitQueued => QuitQueued') /\ (QuitOnce' => QuitOnce)
    <2>1. CASE events' = events
      BY <2>1, EventsStay
    <2>2. ASSUME NEW e \in EventTypes, events' = Append(events, e)
          PROVE  (QuitQueued => QuitQueued') /\ (QuitOnce' => QuitOnce)
      BY <2>2, EventPushed DEF TypeOK
    <2> QED
      BY <2>1, <2>2
  <1> QED
    BY <1>1 DEF QuitInv, AQuit, TwoQuits

\* A step that pushes another one, for a user's quit, for an interruption, or
\* that only takes it from pushing to the queue.
LEMMA QuitAdded ==
    ASSUME TypeOK, QuitInv, cancelled' = cancelled, mpc' = mpc,
           \/ /\ events' = Append(events, "quit") /\ pushing' = pushing
              /\ interrupted' = interrupted
           \/ /\ events' = events /\ pushing' = pushing + 1
              /\ userQuit' = userQuit
           \/ /\ events' = Append(events, "quit") /\ pushing > 0 /\ pushing' = pushing - 1
              /\ UNCHANGED <<userQuit, interrupted>>
    PROVE  QuitInv'
  <1>1. pushing \in Nat /\ events \in Seq(EventTypes) /\ "quit" \in EventTypes
    BY DEF TypeOK, EventTypes
  <1>2. CASE events' = events /\ pushing' = pushing + 1 /\ userQuit' = userQuit
    <2>1. (QuitQueued' <=> QuitQueued) /\ (QuitOnce' <=> QuitOnce)
      BY <1>2, EventsStay
    <2>2. pushing' > 0 /\ (AQuit => TwoQuits')
      BY <1>1, <1>2, <2>1 DEF AQuit, TwoQuits
    <2> QED
      BY <1>2, <2>2 DEF QuitInv, AQuit
  <1>3. CASE events' = Append(events, "quit") /\ pushing' = pushing /\ interrupted' = interrupted
    <2>1. QuitQueued' /\ (QuitOnce' <=> QuitOnce /\ ~QuitQueued)
      BY <1>1, <1>3, EventPushed
    <2>2. AQuit' /\ (AQuit => TwoQuits')
      BY <1>1, <1>3, <2>1 DEF AQuit, TwoQuits
    <2> QED
      BY <1>3, <2>2 DEF QuitInv
  <1>4. CASE /\ events' = Append(events, "quit") /\ pushing > 0 /\ pushing' = pushing - 1
             /\ UNCHANGED <<userQuit, interrupted>>
    <2>1. QuitQueued' /\ (QuitOnce' <=> QuitOnce /\ ~QuitQueued)
      BY <1>1, <1>4, EventPushed
    <2>2. AQuit' /\ (TwoQuits => TwoQuits')
      BY <1>1, <1>4, <2>1 DEF AQuit, TwoQuits
    <2> QED
      BY <1>4, <2>2 DEF QuitInv
  <1> QED
    BY <1>2, <1>3, <1>4

\* A step that takes an event: a quit ends the session, is taken for a cancel, or
\* is spent on the interruption.
LEMMA QuitTaken ==
    ASSUME TypeOK, QuitInv, events # <<>>,
           events' = Tail(events) \/ events' = Flushed(Tail(events)),
           UNCHANGED <<userQuit, pushing>>,
           mpc \notin {"cleanup", "destroy", "over"}, cancelled => cancelled',
           \/ Head(events) # "quit" /\ interrupted' = interrupted
           \/ interrupted /\ ~interrupted'
           \/ mpc' = "cleanup"
           \/ cancelled'
    PROVE  QuitInv'
  <1>1. pushing \in Nat /\ events \in Seq(EventTypes)
    BY DEF TypeOK
  <1>2. /\ QuitQueued <=> Head(events) = "quit" \/ QuitQueued'
        /\ QuitOnce <=> QuitOnce' /\ (Head(events) = "quit" => ~QuitQueued')
    BY <1>1, EventsLeft
  <1>3. CASE mpc' = "cleanup" \/ cancelled'
    BY <1>3 DEF QuitInv
  <1>4. CASE Head(events) # "quit" /\ interrupted' = interrupted /\ ~cancelled'
    BY <1>2, <1>4 DEF QuitInv, AQuit, TwoQuits
  <1>5. CASE interrupted /\ ~interrupted' /\ ~cancelled'
    <2>1. ~QuitOnce' => QuitQueued'
      BY DEF QuitOnce, QuitQueued, OneQuit, HasQuit
    <2>2. TwoQuits => AQuit'
      BY <1>1, <1>2, <2>1 DEF AQuit, TwoQuits
    <2> QED
      BY <1>5, <2>2 DEF QuitInv
  <1> QED
    BY <1>3, <1>4, <1>5

\* Every step keeps it.
LEMMA QuitStep ==
    ASSUME IInv, TypeOK, EndInv, QuitInv, [Next]_vars
    PROVE  QuitInv'
  <1> USE DEF flags, user, link, mics, report, ending
  <1>0. "reset" \in EventTypes /\ "cancel" \in EventTypes
    BY DEF EventTypes
  <1>1. CASE AsyncThread
    BY <1>1, QuitsStay DEF AsyncThread, HttpFails, LiStartConnection, LiFails, LiSucceeds, Connected
  <1>2. CASE Connection
    <2>1. CASE VideoArrives \/ ClipboardFrame \/ ClipboardFrameQueued
      BY <2>1, QuitsStay DEF VideoArrives, ClipboardFrame, ClipboardFrameQueued
    <2>2. ASSUME NEW code \in ErrorCodes, ConnectionTerminated(code)
          PROVE  QuitInv'
      BY <2>2, QuitAdded DEF ConnectionTerminated
    <2>3. CASE PushQuit
      BY <2>3, QuitAdded DEF PushQuit, QuitEvent
    <2> QED
      BY <1>2, <2>1, <2>2, <2>3 DEF Connection
  <1>3. CASE Start \/ ExecFails \/ CreateWindow \/ CreateWindowFails \/ EnterLoop
    BY <1>0, <1>3, QuitsStay DEF Start, ExecFails, CreateWindow, CreateWindowFails, EnterLoop
  <1>4. CASE Loop
    <2>1. CASE LoopInterrupted
      BY <2>1, QuitTaken DEF LoopInterrupted, WantsReconnect
    <2>2. CASE LoopQuit
      BY <2>2, QuitTaken DEF LoopQuit
    <2>3. CASE LoopReset
      BY <2>3, QuitTaken DEF LoopReset
    <2>4. CASE LoopResetFails
      BY <2>4, QuitTaken DEF LoopResetFails
    <2>5. CASE LoopOther
      BY <2>5, QuitTaken DEF LoopOther
    <2> QED
      BY <1>4, <2>1, <2>2, <2>3, <2>4, <2>5 DEF Loop
  <1>5. CASE TryReconnect
    <2>1. CASE RecStop
      BY <2>1, QuitsStay DEF RecStop, EndInv, CancelKnown
    <2>2. CASE RecPoll
      BY <2>2, QuitTaken DEF RecPoll, IsCancel
    <2>3. CASE RecAttempt \/ RecGivesUp \/ RecAttemptDone \/ RecBackoffDone
      BY <2>3, QuitsStay DEF RecAttempt, RecGivesUp, RecAttemptDone, RecBackoffDone
    <2>4. CASE Reconnected \/ ReconnectCancelled \/ ReconnectFailed
      BY <1>0, <2>4, QuitsStay DEF Reconnected, ReconnectCancelled, ReconnectFailed
    <2> QED
      BY <1>5, <2>1, <2>2, <2>3, <2>4 DEF TryReconnect
  <1>6. CASE DeleteHelper \/ DispatchCleanup \/ Cleanup
    BY <1>6, QuitsStay DEF DeleteHelper, DispatchCleanup, Cleanup, TaskDecides, TaskStops, TaskReleases
  <1>7. CASE Environment
    <2>1. events \in Seq(EventTypes)
      BY DEF TypeOK
    <2>2. CASE UserQuits \/ UserQuitsAndExits \/ \E term \in BOOLEAN : Signal(term)
      <3>1. Input(<<"quit">>)
        BY <2>2 DEF UserQuits, UserQuitsAndExits, Signal
      <3> QED
        BY <2>1, <3>1, InputPushed, QuitAdded DEF Input, EventTypes
    <2>3. CASE UserCancels \/ UserTogglesMic \/ AskReset
      BY <1>0, <2>1, <2>3, InputPushed, QuitsStay DEF UserCancels, UserTogglesMic, AskReset, Input
    <2> QED
      BY <1>7, <2>2, <2>3 DEF Environment
  <1>8. CASE UNCHANGED vars
    BY <1>8, QuitsStay DEF vars
  <1> QED
    BY <1>1, <1>2, <1>3, <1>4, <1>5, <1>6, <1>7, <1>8 DEF Next, MainThread

\* A quit the user asked for stays in the queue until it ends the session or
\* cancels a reconnect, whatever the connection reports in between.
THEOREM QuitIsKept == Spec => []QuitNotLost
  <1>1. Init => QuitInv
    BY DEF Init, QuitInv
  <1>2. IInv /\ TypeOK /\ EndInv /\ QuitInv /\ [Next]_vars => QuitInv'
    BY QuitStep
  <1>3. QuitInv => QuitNotLost
    BY DEF QuitInv, AQuit, QuitQueued, HasQuit, QuitNotLost
  <1> QED
    BY <1>1, <1>2, <1>3, Invariance, EndsInvariance, PTL DEF Spec
=============================================================================
