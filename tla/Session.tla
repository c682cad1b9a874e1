------------------------------ MODULE Session ------------------------------
(***************************************************************************)
(* The life of one streaming session (src/app/streaming/session.cpp):      *)
(* start(), the asynchronous connection start, exec() with its SDL event   *)
(* loop, tryReconnect(), the callbacks of the connection's own threads,    *)
(* and DeferredSessionCleanupTask.                                         *)
(*                                                                         *)
(* An SDL event is "quit", "cancel" (Esc or a window close, which only     *)
(* tryReconnect() looks at) or "reset" (SDL_RENDER_DEVICE_RESET, or a      *)
(* window event that recreates the decoder).  moonlight-common-c is        *)
(* external: it is down, being started, up, or failed and not yet stopped; *)
(* while up it delivers video, clipboard frames and, once, a termination.  *)
(* LiInterruptConnection() is the permission to fail an attempt, which     *)
(* every attempt has.                                                      *)
(***************************************************************************)
EXTENDS Integers, Sequences

CONSTANTS MaxInputs,    \* bound: quits, cancels, signals and microphone toggles of the
                        \* user, and resets asked for by renderers or the window
          MaxAttempts   \* bound: reconnect attempts until the 60 s are over; also the
                        \* connections that may end before the last one

ASSUME SessionAssumption == MaxInputs \in Nat /\ MaxAttempts \in Nat

VARIABLES
    prefMic,     \* Preferences: enableMicrophone
    quitAfter,   \* Preferences: quitAppAfter
    mpc,         \* main thread
    apc,         \* AsyncConnectionStartThread
    kpc,         \* DeferredSessionCleanupTask
    cpc,         \* connection's receive thread in clClipboardData()
    events,      \* SDL event queue
    asyncOk,     \* m_AsyncConnectionSuccess
    cancelled,   \* tryReconnect(): cancelled
    hasVideo,    \* m_HasReceivedVideo
    interrupted, \* m_ConnectionInterrupted
    shouldExit,  \* m_ShouldExit
    unexpected,  \* m_UnexpectedTermination
    suppress,    \* m_SuppressConnectionErrorDialog
    conn,        \* moonlight-common-c
    fired,       \* this connection's termination callback was entered
    pushing,     \* termination callbacks about to push their SDL_QUIT
    decoder,     \* m_VideoDecoder # nullptr
    helper,      \* m_ClipboardHelper # nullptr
    mic,         \* m_MicStream # nullptr
    pendingMic,  \* m_PendingMicToggle
    shouldQuit,  \* the cleanup task quits the host's app
    inputs, attempts,  \* what the bounds count
    \* What happened, for the properties only:
    sawVideo,    \* this connection delivered video
    dialog,      \* an error dialog was raised
    failed,      \* the connection ended with an error and was not replaced
    userQuit,    \* the user asked to end the stream
    exitAsked,   \* the user asked to exit, sent a signal, or cancelled a reconnect
    micAsked     \* a microphone toggle the user or the launch asked for

flags  == <<asyncOk, cancelled, hasVideo, interrupted, unexpected, suppress>>
user   == <<quitAfter, shouldExit, inputs, userQuit, exitAsked>>
link   == <<conn, fired, sawVideo>>
mics   == <<mic, pendingMic, micAsked>>
report == <<dialog, failed>>
ending == <<kpc, shouldQuit>>
vars   == <<prefMic, flags, user, link, mics, report, ending, attempts,
            mpc, apc, cpc, events, pushing, decoder, helper>>

Reconnecting == {"recStop", "recTry", "recWait", "recBackoff", "recAgain", "recEnd"}
Windowed     == {"windowed", "loop"} \cup Reconnecting

Init ==
    /\ prefMic \in BOOLEAN /\ quitAfter \in BOOLEAN
    /\ mpc = "idle" /\ apc = "none" /\ kpc = "none" /\ cpc = "none"
    /\ events = <<>>
    /\ asyncOk = FALSE /\ cancelled = FALSE /\ hasVideo = FALSE /\ interrupted = FALSE
    /\ shouldExit = FALSE /\ suppress = FALSE
    /\ unexpected = TRUE
    /\ conn = "down" /\ fired = FALSE /\ pushing = 0
    /\ decoder = FALSE /\ helper = FALSE /\ mic = FALSE /\ pendingMic = FALSE
    /\ shouldQuit = FALSE
    /\ inputs = 0 /\ attempts = 0
    /\ sawVideo = FALSE /\ dialog = FALSE /\ failed = FALSE
    /\ userQuit = FALSE /\ exitAsked = FALSE /\ micAsked = prefMic

----------------------------------------------------------------------------
\* AsyncConnectionStartThread: startConnectionAsync().

\* startApp() threw: the launch or resume request failed.
HttpFails ==
    /\ apc = "http"
    /\ apc' = "finished"
    /\ asyncOk' = FALSE
    /\ dialog' = (dialog \/ ~suppress)
    /\ failed' = TRUE
    /\ UNCHANGED <<prefMic, cancelled, hasVideo, interrupted, unexpected, suppress, user, link,
                   mics, ending, attempts, mpc, cpc, events, pushing, decoder, helper>>

LiStartConnection ==
    /\ apc = "http"
    /\ apc' = "li"
    /\ conn' = "starting"
    /\ fired' = FALSE
    /\ UNCHANGED <<prefMic, flags, user, sawVideo, mics, report, ending, attempts,
                   mpc, cpc, events, pushing, decoder, helper>>

\* A stage failed: clStageFailed(), then an error from LiStartConnection().
LiFails ==
    /\ apc = "li"
    /\ apc' = "finished"
    /\ conn' = "failed"
    /\ asyncOk' = FALSE
    /\ dialog' = (dialog \/ ~suppress)
    /\ failed' = TRUE
    /\ UNCHANGED <<prefMic, cancelled, hasVideo, interrupted, unexpected, suppress, user,
                   fired, sawVideo, mics, ending, attempts, mpc, cpc, events, pushing,
                   decoder, helper>>

LiSucceeds ==
    /\ apc = "li"
    /\ apc' = "tail"
    /\ conn' = "up"
    /\ sawVideo' = FALSE
    /\ failed' = FALSE
    /\ UNCHANGED <<prefMic, flags, user, fired, mics, dialog, ending, attempts,
                   mpc, cpc, events, pushing, decoder, helper>>

\* What startConnectionAsync() does after LiStartConnection() returned.
Connected ==
    /\ apc = "tail"
    /\ apc' = "finished"
    /\ asyncOk' = TRUE
    /\ pendingMic' = (pendingMic \/ prefMic)
    /\ UNCHANGED <<prefMic, cancelled, hasVideo, interrupted, unexpected, suppress, user, link,
                   mic, micAsked, report, ending, attempts, mpc, cpc, events, pushing,
                   decoder, helper>>

AsyncThread == HttpFails \/ LiStartConnection \/ LiFails \/ LiSucceeds \/ Connected

----------------------------------------------------------------------------
\* The connection's threads.

\* drSubmitDecodeUnit()
VideoArrives ==
    /\ conn = "up" /\ ~fired /\ ~hasVideo
    /\ hasVideo' = TRUE
    /\ sawVideo' = TRUE
    /\ UNCHANGED <<prefMic, asyncOk, cancelled, interrupted, unexpected, suppress, user,
                   conn, fired, mics, report, ending, attempts, mpc, apc, cpc, events,
                   pushing, decoder, helper>>

ErrorCodes == {"graceful", "fatal", "network"}

MayReconnect(code) == code = "network" /\ hasVideo /\ ~shouldExit /\ ~interrupted

\* clConnectionTerminated() up to its SDL_PushEvent(), with the call of
\* displayTerminationError() when this is not to be reconnected.
ConnectionTerminated(code) ==
    /\ conn = "up" /\ ~fired /\ attempts < MaxAttempts
    /\ fired' = TRUE
    /\ pushing' = pushing + 1
    /\ interrupted' = (interrupted \/ MayReconnect(code))
    /\ failed' = (code # "graceful")
    /\ IF MayReconnect(code) \/ code = "graceful"
       THEN UNCHANGED <<unexpected, dialog>>
       ELSE unexpected' = TRUE /\ dialog' = TRUE
    /\ UNCHANGED <<prefMic, asyncOk, cancelled, hasVideo, suppress, user, conn, sawVideo,
                   mics, ending, attempts, mpc, apc, cpc, events, decoder, helper>>

\* Mutant: the type of the pushed event is not set.
MutQuitEvent == "unset"
QuitEvent == "quit"

PushQuit ==
    /\ pushing > 0
    /\ pushing' = pushing - 1
    /\ events' = Append(events, QuitEvent)
    /\ UNCHANGED <<prefMic, flags, user, link, mics, report, ending, attempts,
                   mpc, apc, cpc, decoder, helper>>

\* clClipboardData(): m_ClipboardHelper is tested, then called.
ClipboardFrame ==
    /\ conn = "up" /\ cpc = "none" /\ helper
    /\ cpc' = "handling"
    /\ UNCHANGED <<prefMic, flags, user, link, mics, report, ending, attempts,
                   mpc, apc, events, pushing, decoder, helper>>

ClipboardFrameQueued ==
    /\ cpc = "handling"
    /\ cpc' = "none"
    /\ UNCHANGED <<prefMic, flags, user, link, mics, report, ending, attempts,
                   mpc, apc, events, pushing, decoder, helper>>

Connection == \/ VideoArrives
              \/ \E code \in ErrorCodes : ConnectionTerminated(code)
              \/ PushQuit \/ ClipboardFrame \/ ClipboardFrameQueued

----------------------------------------------------------------------------
\* Main thread: start() and exec() up to its event loop.

Start ==
    /\ mpc = "idle"
    /\ mpc' = "starting"
    /\ helper' = TRUE
    /\ apc' = "http"
    /\ UNCHANGED <<prefMic, flags, user, link, mics, report, ending, attempts, cpc, events,
                   pushing, decoder>>

\* No connection: clean up at once.
ExecFails ==
    /\ mpc = "starting" /\ apc = "finished" /\ ~asyncOk
    /\ mpc' = "over"
    /\ apc' = "none"
    /\ kpc' = "decide"
    /\ helper' = FALSE
    /\ UNCHANGED <<prefMic, flags, user, link, mics, report, shouldQuit, attempts,
                   cpc, events, pushing, decoder>>

\* SDL_CreateWindow(): the window's first SHOWN event creates the decoder.
CreateWindow ==
    /\ mpc = "starting" /\ apc = "finished" /\ asyncOk
    /\ mpc' = "windowed"
    /\ apc' = "none"
    /\ events' = Append(events, "reset")
    /\ UNCHANGED <<prefMic, flags, user, link, mics, report, ending, attempts, cpc, pushing,
                   decoder, helper>>

CreateWindowFails ==
    /\ mpc = "starting" /\ apc = "finished" /\ asyncOk
    /\ mpc' = "over"
    /\ apc' = "none"
    /\ kpc' = "decide"
    /\ helper' = FALSE
    /\ UNCHANGED <<prefMic, flags, user, link, mics, report, shouldQuit, attempts,
                   cpc, events, pushing, decoder>>

\* "Now that we're about to stream, any SDL_QUIT event is expected."
EnterLoop ==
    /\ mpc = "windowed"
    /\ mpc' = "loop"
    /\ unexpected' = FALSE
    /\ UNCHANGED <<prefMic, asyncOk, cancelled, hasVideo, interrupted, suppress, user, link,
                   mics, report, ending, attempts, apc, cpc, events, pushing, decoder, helper>>

----------------------------------------------------------------------------
\* Main thread: the event loop.

\* The deferred microphone toggle at the end of an iteration.
ToggleMic ==
    IF pendingMic
    THEN /\ pendingMic' = FALSE
         /\ micAsked' = FALSE
         /\ \/ mic' = ~mic
            \/ ~mic /\ mic' = FALSE   \* MicStream::start() failed
    ELSE UNCHANGED mics

WantsReconnect == interrupted /\ ~shouldExit

\* SDL_QUIT that starts a reconnect: the decoder is torn down first.
LoopInterrupted ==
    /\ mpc = "loop" /\ events # <<>> /\ Head(events) = "quit" /\ WantsReconnect
    /\ mpc' = "recStop"
    /\ events' = Tail(events)
    /\ interrupted' = FALSE
    /\ decoder' = FALSE
    /\ UNCHANGED <<prefMic, asyncOk, cancelled, hasVideo, unexpected, suppress, user, link,
                   mics, report, ending, attempts, apc, cpc, pushing, helper>>

LoopQuit ==
    /\ mpc = "loop" /\ events # <<>> /\ Head(events) = "quit" /\ ~WantsReconnect
    /\ mpc' = "cleanup"
    /\ events' = Tail(events)
    /\ UNCHANGED <<prefMic, flags, user, link, mics, report, ending, attempts, apc, cpc,
                   pushing, decoder, helper>>

\* Mutant: the flush takes more than the resets.
MutFlushed(q) == <<>>
\* SDL_FlushEvent(SDL_RENDER_DEVICE_RESET), and the window-event barrier;
\* left[n] is what they leave of the first n events.
Flushed(q) ==
    LET left[n \in 0 .. Len(q)] ==
            IF n = 0 THEN <<>>
            ELSE IF q[n] = "reset" THEN left[n - 1]
            ELSE Append(left[n - 1], q[n])
    IN  left[Len(q)]

LoopReset ==
    /\ mpc = "loop" /\ events # <<>> /\ Head(events) = "reset"
    /\ events' = Flushed(Tail(events))
    /\ decoder' = TRUE
    /\ ToggleMic
    /\ UNCHANGED <<prefMic, flags, user, link, report, ending, attempts, mpc, apc, cpc, pushing,
                   helper>>

\* chooseDecoder() failed.
LoopResetFails ==
    /\ mpc = "loop" /\ events # <<>> /\ Head(events) = "reset"
    /\ events' = Flushed(Tail(events))
    /\ decoder' = FALSE
    /\ dialog' = TRUE
    /\ mpc' = "cleanup"
    /\ UNCHANGED <<prefMic, flags, user, link, mics, failed, ending, attempts, apc, cpc, pushing,
                   helper>>

\* Any other event; Esc goes to the host.
LoopOther ==
    /\ mpc = "loop" /\ events # <<>> /\ Head(events) = "cancel"
    /\ events' = Tail(events)
    /\ ToggleMic
    /\ UNCHANGED <<prefMic, flags, user, link, report, ending, attempts, mpc, apc, cpc, pushing,
                   decoder, helper>>

Loop == LoopInterrupted \/ LoopQuit \/ LoopReset \/ LoopResetFails \/ LoopOther

----------------------------------------------------------------------------
\* Main thread: tryReconnect().

\* Mutant: LiStopConnection() is left out.
MutLiStop(c) == c
LiStop(c) == "down"

RecStop ==
    /\ mpc = "recStop"
    /\ mpc' = "recTry"
    /\ conn' = LiStop(conn)
    /\ suppress' = TRUE
    /\ cancelled' = FALSE
    /\ asyncOk' = FALSE
    /\ UNCHANGED <<prefMic, hasVideo, interrupted, unexpected, user, fired, sawVideo, mics,
                   report, ending, attempts, apc, cpc, events, pushing, decoder, helper>>

\* Mutant: m_HasReceivedVideo keeps the value of the dead connection.
MutVideoAtAttempt == hasVideo
VideoAtAttempt == FALSE

RecAttempt ==
    /\ mpc \in {"recTry", "recAgain"} /\ ~cancelled /\ attempts < MaxAttempts
    /\ mpc' = "recWait"
    /\ apc' = "http"
    /\ asyncOk' = FALSE
    /\ hasVideo' = VideoAtAttempt
    /\ attempts' = attempts + 1
    /\ UNCHANGED <<prefMic, cancelled, interrupted, unexpected, suppress, user, link, mics,
                   report, ending, cpc, events, pushing, decoder, helper>>

\* Cancelled while backing off, or the 60 s are over.
RecGivesUp ==
    /\ mpc = "recAgain"
    /\ mpc' = "recEnd"
    /\ UNCHANGED <<prefMic, flags, user, link, mics, report, ending, attempts, apc, cpc, events,
                   pushing, decoder, helper>>

\* Mutant: events are not looked at while reconnecting.
MutIsCancel(e) == FALSE
IsCancel(e) == e \in {"quit", "cancel"}

\* handleReconnectEvent(), while an attempt runs or between two attempts.
RecPoll ==
    /\ mpc = "recWait" \/ (mpc = "recBackoff" /\ ~cancelled)
    /\ events # <<>>
    /\ cancelled' = (cancelled \/ IsCancel(Head(events)))
    /\ events' = Tail(events)
    /\ UNCHANGED <<prefMic, asyncOk, hasVideo, interrupted, unexpected, suppress, user, link,
                   mics, report, ending, attempts, mpc, apc, cpc, pushing, decoder, helper>>

\* The attempt's thread has finished.
RecAttemptDone ==
    /\ mpc = "recWait" /\ apc = "finished"
    /\ apc' = "none"
    /\ IF cancelled \/ asyncOk
       THEN mpc' = "recEnd" /\ UNCHANGED conn
       ELSE mpc' = "recBackoff" /\ conn' = LiStop(conn)
    /\ UNCHANGED <<prefMic, flags, user, fired, sawVideo, mics, report, ending, attempts, cpc,
                   events, pushing, decoder, helper>>

RecBackoffDone ==
    /\ mpc = "recBackoff"
    /\ mpc' = "recAgain"
    /\ UNCHANGED <<prefMic, flags, user, link, mics, report, ending, attempts, apc, cpc, events,
                   pushing, decoder, helper>>

\* Mutant: the microphone toggle that startConnectionAsync() asked for stays.
MutMicAfterReconnect == pendingMic
MicAfterReconnect == FALSE

Reconnected ==
    /\ mpc = "recEnd" /\ ~cancelled /\ asyncOk
    /\ mpc' = "loop"
    /\ suppress' = FALSE
    /\ events' = Append(events, "reset")
    /\ unexpected' = FALSE
    /\ pendingMic' = MicAfterReconnect
    /\ UNCHANGED <<prefMic, asyncOk, cancelled, hasVideo, interrupted, user, link, mic,
                   micAsked, report, ending, attempts, apc, cpc, pushing, decoder, helper>>

ReconnectCancelled ==
    /\ mpc = "recEnd" /\ cancelled
    /\ mpc' = "cleanup"
    /\ suppress' = FALSE
    /\ unexpected' = FALSE
    /\ shouldExit' = TRUE
    /\ UNCHANGED <<prefMic, asyncOk, cancelled, hasVideo, interrupted, quitAfter, inputs,
                   userQuit, exitAsked, link, mics, report, ending, attempts, apc, cpc, events,
                   pushing, decoder, helper>>

\* Mutant: giving up is silent.
MutGiveUpError == UNCHANGED <<unexpected, dialog>>
\* displayTerminationError(m_LastTerminationErrorCode), "unless the user asked to quit".
GiveUpError ==
    IF shouldExit THEN UNCHANGED <<unexpected, dialog>>
    ELSE unexpected' = TRUE /\ dialog' = TRUE

ReconnectFailed ==
    /\ mpc = "recEnd" /\ ~cancelled /\ ~asyncOk
    /\ mpc' = "cleanup"
    /\ suppress' = FALSE
    /\ GiveUpError
    /\ UNCHANGED <<prefMic, asyncOk, cancelled, hasVideo, interrupted, user, link, mics,
                   failed, ending, attempts, apc, cpc, events, pushing, decoder, helper>>

TryReconnect == \/ RecStop \/ RecAttempt \/ RecGivesUp \/ RecPoll \/ RecAttemptDone
                \/ RecBackoffDone \/ Reconnected \/ ReconnectCancelled \/ ReconnectFailed

----------------------------------------------------------------------------
\* Main thread: DispatchDeferredCleanup, then the cleanup task.

DeleteHelper ==
    /\ mpc = "cleanup"
    /\ mpc' = "destroy"
    /\ helper' = FALSE
    /\ UNCHANGED <<prefMic, flags, user, link, mics, report, ending, attempts, apc, cpc, events,
                   pushing, decoder>>

\* Mutant: the decoder is left to the cleanup task.
MutDecoderDeleted == decoder
DecoderDeleted == FALSE

DispatchCleanup ==
    /\ mpc = "destroy"
    /\ mpc' = "over"
    /\ decoder' = DecoderDeleted
    /\ kpc' = "decide"
    /\ UNCHANGED <<prefMic, flags, user, link, mics, report, shouldQuit, attempts, apc,
                   cpc, events, pushing, helper>>

TaskDecides ==
    /\ kpc = "decide"
    /\ kpc' = "stop"
    /\ shouldQuit' = (~unexpected /\ quitAfter)
    /\ UNCHANGED <<prefMic, flags, user, link, mics, report, attempts, mpc, apc, cpc,
                   events, pushing, decoder, helper>>

\* stopMicrophone() on the main thread, and LiStopConnection().
TaskStops ==
    /\ kpc = "stop"
    /\ kpc' = "release"
    /\ conn' = LiStop(conn)
    /\ mic' = FALSE
    /\ UNCHANGED <<prefMic, flags, user, fired, sawVideo, pendingMic, micAsked, report,
                   shouldQuit, attempts, mpc, apc, cpc, events, pushing, decoder,
                   helper>>

\* After the app's quit, the task's destructor lets another session start.
TaskReleases ==
    /\ kpc = "release"
    /\ kpc' = "done"
    /\ UNCHANGED <<prefMic, flags, user, link, mics, report, shouldQuit, attempts, mpc, apc,
                   cpc, events, pushing, decoder, helper>>

MainThread == \/ Start \/ ExecFails \/ CreateWindow \/ CreateWindowFails \/ EnterLoop
              \/ Loop \/ TryReconnect \/ DeleteHelper \/ DispatchCleanup
Cleanup == TaskDecides \/ TaskStops \/ TaskReleases

----------------------------------------------------------------------------
\* The user, the signal handler thread and the renderers.

Input(pushed) ==
    /\ inputs < MaxInputs
    /\ inputs' = inputs + 1
    /\ events' = events \o pushed
    /\ UNCHANGED <<prefMic, flags, link, report, ending, attempts, mpc, apc, cpc, pushing,
                   decoder, helper>>

\* KeyComboQuit, the gamepad's combo, or SDL's own SDL_QUIT.
UserQuits ==
    /\ mpc \in Windowed
    /\ Input(<<"quit">>)
    /\ userQuit' = TRUE
    /\ exitAsked' = (exitAsked \/ mpc \in Reconnecting)
    /\ UNCHANGED <<quitAfter, shouldExit, mics>>

UserCancels ==
    /\ mpc \in Windowed
    /\ Input(<<"cancel">>)
    /\ exitAsked' = TRUE
    /\ UNCHANGED <<quitAfter, shouldExit, userQuit, mics>>

\* KeyComboQuitAndExit, handled by the event loop: setShouldExit(true).
UserQuitsAndExits ==
    /\ mpc = "loop"
    /\ Input(<<"quit">>)
    /\ quitAfter' = TRUE /\ shouldExit' = TRUE
    /\ userQuit' = TRUE /\ exitAsked' = TRUE
    /\ UNCHANGED mics

\* SIGINT calls interrupt(); SIGTERM calls setShouldExit() before it.
Signal(term) ==
    /\ mpc \notin {"idle", "over"}
    /\ Input(<<"quit">>)
    /\ shouldExit' = (shouldExit \/ term)
    /\ userQuit' = TRUE
    /\ exitAsked' = TRUE
    /\ UNCHANGED <<quitAfter, mics>>

\* MenuAction::ToggleMicrophone, processed with the Qt overlay's events.
UserTogglesMic ==
    /\ mpc \in {"loop", "recWait", "recBackoff"}
    /\ Input(<<>>)
    /\ pendingMic' = TRUE
    /\ micAsked' = TRUE
    /\ UNCHANGED <<quitAfter, shouldExit, userQuit, exitAsked, mic>>

\* A renderer lost its device, or the window changed.
AskReset ==
    /\ mpc = "loop"
    /\ Input(<<"reset">>)
    /\ UNCHANGED <<quitAfter, shouldExit, userQuit, exitAsked, mics>>

Environment == \/ UserQuits \/ UserCancels \/ UserQuitsAndExits
               \/ \E term \in BOOLEAN : Signal(term)
               \/ UserTogglesMic \/ AskReset

Next == AsyncThread \/ Connection \/ MainThread \/ Cleanup \/ Environment

Spec == Init /\ [][Next]_vars

\* The threads of the client keep running, requests to the host end one way
\* or the other, and a callback that was entered returns.  Nothing is assumed
\* of the user, of the video or of the host.
Fairness ==
    /\ WF_vars(MainThread)
    /\ WF_vars(AsyncThread)
    /\ WF_vars(PushQuit)
    /\ WF_vars(ClipboardFrameQueued)
    /\ WF_vars(Cleanup)

FairSpec == Spec /\ Fairness

----------------------------------------------------------------------------
\* Properties.

EventTypes == {"quit", "cancel", "reset"}
MainStates == {"idle", "starting", "windowed", "loop", "cleanup", "destroy", "over"} \cup Reconnecting

\* Every variable keeps its type.
TypeOK ==
    /\ prefMic \in BOOLEAN /\ quitAfter \in BOOLEAN
    /\ mpc \in MainStates
    /\ apc \in {"none", "http", "li", "tail", "finished"}
    /\ kpc \in {"none", "decide", "stop", "release", "done"}
    /\ cpc \in {"none", "handling"}
    /\ events \in Seq(EventTypes)
    /\ asyncOk \in BOOLEAN /\ cancelled \in BOOLEAN /\ hasVideo \in BOOLEAN
    /\ interrupted \in BOOLEAN /\ shouldExit \in BOOLEAN /\ unexpected \in BOOLEAN
    /\ suppress \in BOOLEAN
    /\ conn \in {"down", "starting", "up", "failed"}
    /\ fired \in BOOLEAN /\ pushing \in Nat
    /\ decoder \in BOOLEAN /\ helper \in BOOLEAN
    /\ mic \in BOOLEAN /\ pendingMic \in BOOLEAN
    /\ shouldQuit \in BOOLEAN
    /\ inputs \in 0 .. MaxInputs /\ attempts \in 0 .. MaxAttempts
    /\ sawVideo \in BOOLEAN /\ dialog \in BOOLEAN /\ failed \in BOOLEAN
    /\ userQuit \in BOOLEAN /\ exitAsked \in BOOLEAN /\ micAsked \in BOOLEAN

\* "The decoder can only be used between LiStartConnection() and
\* LiStopConnection()", session.cpp:3649, and the task's assertion that the
\* decoder is gone before it stops the connection, session.cpp:2208.
DecoderOnlyWhileConnected == decoder => conn = "up"

\* A connection is started only after the one before was stopped, through
\* failed attempts, cancelled ones and connections that died while starting.
OneConnection == [][conn # "starting" /\ conn' = "starting" => conn = "down"]_vars

\* The one session of this module, and that it has its turn from start() on
\* until its cleanup task releases the semaphore.
This == "this"
Turn == IF mpc = "idle" \/ kpc = "done" THEN "none" ELSE This

\* The library holds a connection from LiStartConnection() on, even one that
\* failed, until LiStopConnection().
Held == IF conn = "down" THEN {} ELSE {This}

Turns == INSTANCE ActiveSession
             WITH Sessions <- {This}, NoSession <- "none", turn <- Turn, connected <- Held

\* Seen from other sessions, this one does what the semaphore is there for:
\* through failed attempts, reconnects and cancelled ones it begins a connection
\* only in its turn and only when the one before was stopped, and its turn does
\* not end before its connection has ("Allow another session to start now that
\* we're cleaned up", session.cpp:2255).
KeepsItsTurn == Turns!Spec

\* A connection that reported its end while the session streams on, or is
\* about to, has an SDL_QUIT on its way to the event loop: no flush and no
\* poll in between leaves a dead session on the screen.
TerminationWakesLoop ==
    mpc \in {"starting", "windowed", "loop"} /\ conn = "up" /\ fired =>
        pushing > 0 \/ \E i \in DOMAIN events : events[i] = "quit"

\* "Only attempt reconnect if video actually started": startup failures would
\* "otherwise loop forever behind a black screen", session.cpp:548.
ReconnectOnlyAfterVideo == [][mpc = "loop" /\ mpc' = "recStop" => sawVideo]_vars

\* "Don't toggle it off on reconnect", session.cpp:3810: while streaming the
\* microphone changes only when the launch or the user asked for it.
MicOnlyOnRequest == [][mpc = "loop" /\ mic' # mic => micAsked]_vars

\* A launch that failed and a stream that ends because of its connection, and
\* not because the user quit or the program is to exit, have told the user why.
ConnectionFailureReported ==
    /\ mpc = "cleanup" \/ (mpc = "starting" /\ apc = "finished" /\ ~asyncOk)
    /\ failed /\ ~userQuit /\ ~exitAsked /\ ~shouldExit
    => dialog

\* Whatever is going on, reconnect attempts included, a quit ends the stream.
UserQuitEnds == userQuit ~> mpc = "over"

\* Its safety core: until the session ends, a quit the user asked for is in the
\* queue or was taken for a cancel.  It cannot be the one that an interrupted
\* connection spends on reconnecting, LoopInterrupted, without another to follow.
QuitNotLost ==
    userQuit /\ mpc \notin {"cleanup", "destroy", "over"} =>
        cancelled \/ pushing > 0 \/ \E i \in DOMAIN events : events[i] = "quit"

\* "User asked to quit during reconnect; honor it", session.cpp:3820: the
\* program is told to exit only when the user quit the stream or asked to exit.
\* It does not hold: a termination during an attempt pushes the same SDL_QUIT.
ExitFlagOnRequest == shouldExit => userQuit \/ exitAsked

\* "Only quit the running app if our session terminated gracefully",
\* session.cpp:2265: the cleanup task quits the host's app after a failure only
\* when the user had asked to end the stream as well.  It does not hold: exec()
\* overwrites the flag of a failure that comes before its loop.
QuitAppOnlyIfGraceful == shouldQuit /\ ~userQuit /\ ~exitAsked => ~failed

\* "Queues internally; safe to call from the recv thread", session.cpp:744:
\* the helper called there has not been deleted.
HelperAliveWhenUsed == cpc = "handling" => helper
=============================================================================
