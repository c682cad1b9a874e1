------------------------------- MODULE Pacer -------------------------------
(***************************************************************************)
(* The frame pacer (src/app/streaming/video/ffmpeg-renderers/pacer).       *)
(*                                                                         *)
(* Decoded frames travel decoder thread -> pacing queue -> V-sync thread   *)
(* -> render queue -> renderer -> deferred free.  Without a V-sync source  *)
(* the decoder thread fills the render queue itself; without a render      *)
(* thread the main thread renders, one frame per FRAME_READY event.        *)
(*                                                                         *)
(* A frame is the number of its submission, 0 stands for nullptr.  Every   *)
(* critical section of m_FrameQueueLock is one action; the only point      *)
(* where the lock is visibly held between two steps is the render thread's *)
(* gap between its last look at m_Stopping and its wait (rpc = "preWait"). *)
(***************************************************************************)
EXTENDS Integers, Sequences

CONSTANTS MaxFrames,      \* bound: frames the decoder thread submits
          PacingWindow,   \* entries of m_PacingQueueHistory (DisplayFps / 2)
          RenderWindow    \* entries of m_RenderQueueHistory (MaxVideoFps / 2)

ASSUME PacerAssumption ==
    /\ MaxFrames \in Nat
    /\ PacingWindow \in Nat \ {0}
    /\ RenderWindow \in Nat \ {0}

MAX_QUEUED_FRAMES == 3
PACER_MAX_OUTSTANDING_FRAMES == MAX_QUEUED_FRAMES + 2

VARIABLES
    mode,       \* what initialize() found; never changes
    pacingQ,    \* m_PacingQueue
    renderQ,    \* m_RenderQueue
    pacingAge,  \* further looks at m_PacingQueueHistory that find an entry <= 1
    renderAge,  \* further looks at m_RenderQueueHistory that find an entry = 0
    submitted,  \* frames handed to submitFrame() so far
    spc,        \* decoder thread in submitFrame()
    vpc,        \* V-sync thread
    vframe,     \* frame the V-sync thread is dropping outside the lock
    vtarget,    \* frameDropTarget of handleVsync()
    rpc,        \* whoever calls renderFrame(): render thread or main thread
    rframe,     \* frame being rendered, or being dropped outside the lock
    rtarget,    \* frameDropTarget of renderFrame()
    deferred,   \* m_DeferredFreeFrame
    events,     \* FRAME_READY events in the SDL queue
    dpc,        \* ~Pacer()
    stopping,   \* m_Stopping
    shown,      \* last frame passed to the renderer
    freed,      \* frames given to av_frame_free()
    crashed     \* dequeue() on an empty QQueue: the process is gone

frames  == <<pacingQ, renderQ, vframe, rframe, deferred, shown, freed>>
drops   == <<pacingAge, renderAge, vtarget, rtarget>>
pcs     == <<spc, vpc, rpc, dpc>>
vars    == <<mode, frames, drops, pcs, submitted, events, stopping, crashed>>

Modes == [vsync : BOOLEAN, thread : BOOLEAN, noBuffering : BOOLEAN, mayExceedDisplay : BOOLEAN]

Init ==
    /\ mode \in Modes
    /\ pacingQ = <<>> /\ renderQ = <<>>
    /\ pacingAge = 0 /\ renderAge = 0
    /\ vtarget = 0 /\ rtarget = 0
    /\ submitted = 0 /\ events = 0
    /\ vframe = 0 /\ rframe = 0 /\ deferred = 0 /\ shown = 0
    /\ freed = {}
    /\ spc = "idle" /\ rpc = "idle" /\ dpc = "live"
    /\ vpc = IF mode.vsync THEN "tick" ELSE "exited"
    /\ stopping = FALSE /\ crashed = FALSE

----------------------------------------------------------------------------
\* Helpers.

\* Mutants (here and below, each before the definition it stands in for):
\* the queue is looked at outside the lock.
MutLockFree == TRUE
LockFree == rpc # "preWait"

\* Mutants: the dropped frame is never freed; off by one; newest frame first.
MutOverflow(q) == {}
MutWithRoom(q) == IF Len(q) > MAX_QUEUED_FRAMES THEN Tail(q) ELSE q
MutEnqueueDropping(q, f) == <<f>> \o q

\* The frame dropFrameForEnqueue() frees and what it leaves of the queue.
Overflow(q) == IF Len(q) = MAX_QUEUED_FRAMES THEN {Head(q)} ELSE {}
WithRoom(q) == IF Len(q) = MAX_QUEUED_FRAMES THEN Tail(q) ELSE q
EnqueueDropping(q, f) == Append(WithRoom(q), f)

\* A rolling window of which only "is there a low entry" is ever asked.
AgeAfter(age, low, window) ==
    IF low THEN window ELSE IF age = 0 THEN 0 ELSE age - 1

\* QWaitCondition::wakeOne()/wakeAll(): no effect unless the thread waits.
WokenRender == IF rpc = "waiting" THEN "idle" ELSE rpc
WokenVsync  == IF vpc = "waiting" THEN "woken" ELSE vpc

\* The part of enqueueFrameForRenderingAndUnlock() under the lock.
EnqueueForRendering(f) ==
    /\ renderQ' = EnqueueDropping(renderQ, f)
    /\ freed' = freed \cup Overflow(renderQ)

\* Mutant: no event is pushed while one is pending.
MutNotifyRenderer ==
    IF mode.thread
    THEN rpc' = WokenRender /\ UNCHANGED events
    ELSE events' = 1 /\ UNCHANGED rpc

\* The part of enqueueFrameForRenderingAndUnlock() after the unlock.
NotifyRenderer ==
    IF mode.thread
    THEN rpc' = WokenRender /\ UNCHANGED events
    ELSE events' = events + 1 /\ UNCHANGED rpc

----------------------------------------------------------------------------
\* Decoder thread: submitFrame().

Submit ==
    /\ ~crashed /\ spc = "idle" /\ dpc = "live" /\ LockFree
    /\ submitted < MaxFrames
    /\ submitted' = submitted + 1
    /\ IF mode.vsync
       THEN /\ pacingQ' = EnqueueDropping(pacingQ, submitted')
            /\ freed' = freed \cup Overflow(pacingQ)
            /\ UNCHANGED renderQ
       ELSE /\ EnqueueForRendering(submitted')
            /\ UNCHANGED pacingQ
    /\ spc' = "notify"
    /\ UNCHANGED <<mode, drops, vframe, rframe, deferred, shown, vpc, rpc, dpc,
                   events, stopping, crashed>>

SubmitNotify ==
    /\ ~crashed /\ spc = "notify"
    /\ spc' = "idle"
    /\ IF mode.vsync
       THEN vpc' = WokenVsync /\ UNCHANGED <<rpc, events>>
       ELSE NotifyRenderer /\ UNCHANGED vpc
    /\ UNCHANGED <<mode, frames, drops, submitted, dpc, stopping, crashed>>

----------------------------------------------------------------------------
\* V-sync thread: vsyncThread() and handleVsync().

\* The V-sync source fires, or its 100 ms wait elapses.
Vsync ==
    /\ ~crashed /\ vpc = "tick"
    /\ vpc' = IF stopping THEN "exited" ELSE "handle"
    /\ UNCHANGED <<mode, frames, drops, submitted, spc, rpc, dpc, events, stopping, crashed>>

MayPass(target) == 0 < Len(pacingQ) /\ Len(pacingQ) <= target

\* The rest of handleVsync() once the drop target is known: drop one frame
\* and give up the lock, wait for a frame, or pass one on.
DropWaitOrPass(target) ==
    \/ /\ Len(pacingQ) > target
       /\ vframe' = Head(pacingQ)
       /\ pacingQ' = Tail(pacingQ)
       /\ vpc' = "dropping"
       /\ UNCHANGED renderQ
    \/ /\ pacingQ = <<>>
       /\ vframe' = 0
       /\ vpc' = "waiting"
       /\ UNCHANGED <<pacingQ, renderQ>>
    \/ /\ MayPass(target)
       /\ vframe' = 0
       /\ pacingQ' = Tail(pacingQ)
       /\ renderQ' = EnqueueDropping(renderQ, Head(pacingQ))
       /\ vpc' = "notify"

\* What DropWaitOrPass() frees besides the frame dropped before.
PassOverflow(target) == IF MayPass(target) THEN Overflow(renderQ) ELSE {}

PacingDropTarget == IF mode.mayExceedDisplay /\ pacingAge > 0 THEN 3 ELSE 1

HandleVsync ==
    /\ ~crashed /\ vpc = "handle" /\ LockFree
    /\ vtarget' = PacingDropTarget
    /\ pacingAge' = IF mode.mayExceedDisplay
                    THEN AgeAfter(pacingAge, Len(pacingQ) <= 1, PacingWindow)
                    ELSE pacingAge
    /\ DropWaitOrPass(PacingDropTarget)
    /\ freed' = freed \cup PassOverflow(PacingDropTarget)
    /\ UNCHANGED <<mode, rframe, deferred, shown, renderAge, rtarget, submitted,
                   spc, rpc, dpc, events, stopping, crashed>>

\* av_frame_free() outside the lock, then the loop condition again.
VsyncDropped ==
    /\ ~crashed /\ vpc = "dropping" /\ LockFree
    /\ DropWaitOrPass(vtarget)
    /\ freed' = freed \cup {vframe} \cup PassOverflow(vtarget)
    /\ UNCHANGED <<mode, rframe, deferred, shown, drops, submitted,
                   spc, rpc, dpc, events, stopping, crashed>>

\* Mutant: the wait for a frame has no timeout.
MutVsyncTimeout == FALSE /\ UNCHANGED vars

VsyncTimeout ==
    /\ ~crashed /\ vpc = "waiting" /\ LockFree
    /\ vpc' = "tick"
    /\ UNCHANGED <<mode, frames, drops, submitted, spc, rpc, dpc, events, stopping, crashed>>

\* wait() returned true: m_Stopping is looked at, the queue is not.
VsyncWoken ==
    /\ ~crashed /\ vpc = "woken" /\ LockFree
    /\ IF stopping
       THEN vpc' = "tick" /\ UNCHANGED <<frames, crashed>>
       ELSE IF pacingQ = <<>>
       THEN crashed' = TRUE /\ UNCHANGED <<frames, vpc>>
       ELSE /\ vpc' = "notify"
            /\ pacingQ' = Tail(pacingQ)
            /\ EnqueueForRendering(Head(pacingQ))
            /\ UNCHANGED <<vframe, rframe, deferred, shown, crashed>>
    /\ UNCHANGED <<mode, drops, submitted, spc, rpc, dpc, events, stopping>>

VsyncNotify ==
    /\ ~crashed /\ vpc = "notify"
    /\ vpc' = "tick"
    /\ NotifyRenderer
    /\ UNCHANGED <<mode, frames, drops, submitted, spc, dpc, stopping, crashed>>

----------------------------------------------------------------------------
\* The renderer: renderThread(), renderOnMainThread() and renderFrame().

TakeForRendering ==
    /\ rframe' = Head(renderQ)
    /\ renderQ' = Tail(renderQ)
    /\ rpc' = "rendering"

\* The render thread looks at m_Stopping and the queue under the lock, for
\* the first time or after it was woken.
RenderThreadCheck ==
    /\ ~crashed /\ mode.thread /\ rpc = "idle"
    /\ \/ stopping /\ rpc' = "exited" /\ UNCHANGED <<rframe, renderQ>>
       \/ ~stopping /\ renderQ = <<>> /\ rpc' = "preWait" /\ UNCHANGED <<rframe, renderQ>>
       \/ ~stopping /\ renderQ # <<>> /\ TakeForRendering
    /\ UNCHANGED <<mode, pacingQ, vframe, deferred, shown, freed, drops, submitted,
                   spc, vpc, dpc, events, stopping, crashed>>

RenderThreadWait ==
    /\ ~crashed /\ rpc = "preWait"
    /\ rpc' = "waiting"
    /\ UNCHANGED <<mode, frames, drops, submitted, spc, vpc, dpc, events, stopping, crashed>>

\* The main thread takes a FRAME_READY event and calls renderOnMainThread().
MainThreadRender ==
    /\ ~crashed /\ ~mode.thread /\ rpc = "idle" /\ dpc = "live"
    /\ events > 0
    /\ events' = events - 1
    /\ IF renderQ = <<>> THEN UNCHANGED <<rframe, renderQ, rpc>> ELSE TakeForRendering
    /\ UNCHANGED <<mode, pacingQ, vframe, deferred, shown, freed, drops, submitted,
                   spc, vpc, dpc, stopping, crashed>>

\* Mutant: the frame just drawn is freed at once.
MutSwappedOut == {rframe}
\* std::swap(frame, m_DeferredFreeFrame): the frame drawn before, if any.
SwappedOut == {deferred} \ {0}

\* The frame is drawn and takes the place of the one before, which is freed.
RenderFrame ==
    /\ ~crashed /\ rpc = "rendering"
    /\ shown' = rframe
    /\ deferred' = rframe
    /\ freed' = freed \cup SwappedOut
    /\ rframe' = 0
    /\ rpc' = "trim"
    /\ UNCHANGED <<mode, pacingQ, renderQ, vframe, drops, submitted, spc, vpc, dpc,
                   events, stopping, crashed>>

DropOrDone(target) ==
    IF Len(renderQ) > target
    THEN /\ rframe' = Head(renderQ)
         /\ renderQ' = Tail(renderQ)
         /\ rpc' = "dropping"
    ELSE /\ rframe' = 0
         /\ rpc' = "idle"
         /\ UNCHANGED renderQ

RenderDropTarget == IF mode.noBuffering THEN 1 ELSE IF renderAge > 0 THEN 2 ELSE 0

TrimRenderQueue ==
    /\ ~crashed /\ rpc = "trim"
    /\ rtarget' = RenderDropTarget
    /\ renderAge' = IF mode.noBuffering THEN renderAge
                    ELSE AgeAfter(renderAge, renderQ = <<>>, RenderWindow)
    /\ DropOrDone(RenderDropTarget)
    /\ UNCHANGED <<mode, pacingQ, vframe, deferred, shown, freed, pacingAge, vtarget,
                   submitted, spc, vpc, dpc, events, stopping, crashed>>

\* av_frame_free() outside the lock, then the loop condition again.
RenderDropped ==
    /\ ~crashed /\ rpc = "dropping"
    /\ DropOrDone(rtarget)
    /\ freed' = freed \cup {rframe}
    /\ UNCHANGED <<mode, pacingQ, vframe, deferred, shown, drops,
                   submitted, spc, vpc, dpc, events, stopping, crashed>>

----------------------------------------------------------------------------
\* ~Pacer(), on the main thread, after the decoder thread was joined.

BeginDestroy ==
    /\ ~crashed /\ dpc = "live" /\ spc = "idle"
    /\ mode.thread \/ rpc = "idle"
    /\ dpc' = "wakeVsync"
    /\ stopping' = TRUE
    /\ UNCHANGED <<mode, frames, drops, submitted, spc, vpc, rpc, events, crashed>>

DestroyWakeVsync ==
    /\ ~crashed /\ dpc = "wakeVsync"
    /\ dpc' = "joinVsync"
    /\ vpc' = WokenVsync
    /\ UNCHANGED <<mode, frames, drops, submitted, spc, rpc, events, stopping, crashed>>

\* Mutant: nobody waits for the V-sync thread.
MutVsyncJoined == TRUE
VsyncJoined == vpc = "exited"

\* The V-sync thread has been joined: stop the render thread, or run
\* cleanupRenderContext() in its place.
DestroyWakeRender ==
    /\ ~crashed /\ dpc = "joinVsync" /\ VsyncJoined
    /\ dpc' = "joinRender"
    /\ rpc' = IF mode.thread THEN WokenRender ELSE "exited"
    /\ UNCHANGED <<mode, frames, drops, submitted, spc, vpc, events, stopping, crashed>>

DestroyFree ==
    /\ ~crashed /\ dpc = "joinRender" /\ rpc = "exited"
    /\ dpc' = "destroyed"
    /\ pacingQ' = <<>> /\ renderQ' = <<>> /\ deferred' = 0
    /\ freed' = freed \cup {pacingQ[i] : i \in 1 .. Len(pacingQ)}
                      \cup {renderQ[i] : i \in 1 .. Len(renderQ)}
                      \cup ({deferred} \ {0})
    /\ UNCHANGED <<mode, vframe, rframe, shown, drops, submitted, spc, vpc, rpc,
                   events, stopping, crashed>>

----------------------------------------------------------------------------
DecoderThread == Submit \/ SubmitNotify
VsyncThread   == Vsync \/ HandleVsync \/ VsyncDropped \/ VsyncTimeout \/ VsyncWoken \/ VsyncNotify
Renderer      == \/ RenderThreadCheck \/ RenderThreadWait \/ MainThreadRender
                 \/ RenderFrame \/ TrimRenderQueue \/ RenderDropped
Destructor    == BeginDestroy \/ DestroyWakeVsync \/ DestroyWakeRender \/ DestroyFree

Next == DecoderThread \/ VsyncThread \/ Renderer \/ Destructor

Spec == Init /\ [][Next]_vars

\* Every thread keeps running, V-syncs keep coming (or their wait times out)
\* and a destructor that was entered is not preempted for ever.  Nothing makes
\* the decoder submit another frame or the session destroy the pacer.
Fairness ==
    /\ WF_vars(SubmitNotify)
    /\ WF_vars(VsyncThread)
    /\ WF_vars(Renderer)
    /\ WF_vars(DestroyWakeVsync \/ DestroyWakeRender \/ DestroyFree)

FairSpec == Spec /\ Fairness

----------------------------------------------------------------------------
\* Properties.

Elems(q) == {q[i] : i \in 1 .. Len(q)}
Frame    == Nat \ {0}

\* Every variable keeps its type; 0 is nullptr wherever a frame is held.
TypeOK ==
    /\ mode \in Modes
    /\ submitted \in 0 .. MaxFrames
    /\ pacingQ \in Seq(Frame) /\ renderQ \in Seq(Frame)
    /\ vframe \in Nat /\ rframe \in Nat /\ deferred \in Nat /\ shown \in Nat
    /\ freed \subseteq Frame
    /\ pacingAge \in 0 .. PacingWindow /\ renderAge \in 0 .. RenderWindow
    /\ vtarget \in {0, 1, 3} /\ rtarget \in {0, 1, 2}
    /\ events \in Nat
    /\ spc \in {"idle", "notify"}
    /\ vpc \in {"tick", "handle", "dropping", "waiting", "woken", "notify", "exited"}
    /\ rpc \in {"idle", "preWait", "waiting", "rendering", "trim", "dropping", "exited"}
    /\ dpc \in {"live", "wakeVsync", "joinVsync", "joinRender", "destroyed"}
    /\ stopping \in BOOLEAN /\ crashed \in BOOLEAN

\* SDL_assert(queue.size() <= MAX_QUEUED_FRAMES), pacer.cpp:396, for both
\* queues at all times and not only when a frame is enqueued.
QueueBounds ==
    /\ Len(pacingQ) <= MAX_QUEUED_FRAMES
    /\ Len(renderQ) <= MAX_QUEUED_FRAMES

Ascending(q) == \A i, j \in 1 .. Len(q) : i < j => q[i] < q[j]

\* Frames are in the order of their submission along the whole pipeline, with
\* no frame in two places: whatever is dropped on the way, the renderer never
\* sees an older frame after a newer one and no frame is freed twice.
PipelineOrder ==
    /\ Elems(pacingQ) \cup Elems(renderQ) \cup {vframe, rframe, deferred} \subseteq 0 .. submitted
    /\ Ascending(pacingQ) /\ Ascending(renderQ)
    /\ \A p \in Elems(pacingQ) : /\ vframe < p /\ rframe < p /\ deferred < p
                                 /\ \A r \in Elems(renderQ) : r < p
    /\ \A r \in Elems(renderQ) : rframe < r /\ deferred < r /\ (vframe # 0 => r < vframe)
    /\ rframe # 0 => deferred < rframe
    /\ vframe # 0 => rframe < vframe /\ deferred < vframe

InFlight == Elems(pacingQ) \cup Elems(renderQ) \cup ({vframe, rframe, deferred} \ {0})

\* Every frame the decoder submitted is either freed or in exactly one place
\* of the pipeline: none leaks when it is dropped outside the lock.
NoLeakNoDoubleFree ==
    /\ InFlight \cap freed = {}
    /\ InFlight \cup freed = 1 .. submitted

\* "Wait until after next frame to free this one to ensure the GPU doesn't
\* stall or read garbage", pacer.cpp:345: the frame on screen is not freed
\* while the pacer lives.
ShownFrameKept == shown # 0 /\ dpc # "destroyed" => shown \notin freed

Outstanding == Len(pacingQ) + Len(renderQ)
               + (IF vframe = 0 THEN 0 ELSE 1)
               + (IF rframe = 0 THEN 0 ELSE 1)
               + (IF deferred = 0 THEN 0 ELSE 1)

\* The decoder surfaces the pacer can hold.  PACER_MAX_OUTSTANDING_FRAMES is
\* right without a V-sync source.  With one the render queue, and a frame on
\* its way to av_frame_free() in the V-sync thread, come on top.
Surfaces == PACER_MAX_OUTSTANDING_FRAMES + (IF mode.vsync THEN MAX_QUEUED_FRAMES + 1 ELSE 0)

OutstandingBound == Outstanding <= Surfaces

\* The frames not yet given to av_frame_free().
NotFreed == (1 .. submitted) \ freed

\* Seen from the decoder and the renderer the threads, queues and dropped
\* locks are one pipe: what is shown comes in order and never twice, only a
\* new frame or the destructor takes the surface of the one on screen, and a
\* destroyed pacer holds nothing.
Pipe == INSTANCE FramePipe WITH
            capacity <- Surfaces, fed <- submitted, held <- NotFreed, open <- dpc # "destroyed"

IsFramePipe == Pipe!Spec

\* "NB: This must happen on the same thread that calls renderFrame()",
\* pacer.cpp:66,171: once cleanupRenderContext() ran nothing is rendered, the
\* V-sync thread is gone, and a destroyed pacer has freed everything.
NothingAfterCleanup ==
    /\ rpc = "exited" => stopping /\ rframe = 0
    /\ dpc \in {"joinRender", "destroyed"} => vpc = "exited"
    /\ dpc = "destroyed" => rpc = "exited" /\ freed = 1 .. submitted

Pending(b) == IF b THEN 1 ELSE 0

\* Main-thread rendering: each queued frame has a FRAME_READY event of its own
\* still in the SDL queue, or about to be pushed by the thread that queued it.
EventForEveryFrame ==
    ~mode.thread =>
        Len(renderQ) <= events + Pending(IF mode.vsync THEN vpc = "notify" ELSE spc = "notify")

\* A render thread that waits with frames queued has its wake-up coming: the
\* wake after the unlock is never lost while the pacer lives.
RenderWakeNotLost ==
    rpc = "waiting" /\ renderQ # <<>> =>
        IF mode.vsync THEN vpc = "notify" ELSE spc = "notify"

\* "Wait for a frame to arrive or our V-sync timeout to expire",
\* pacer.cpp:246: a V-sync thread that was woken, and not to stop, finds one.
WokenFindsFrame == ~crashed

Queued(f) == f \in Elems(pacingQ) \cup Elems(renderQ)

\* A frame in a queue of a living pacer leaves it: it is rendered or dropped.
FramesMoveOn ==
    \A f \in 1 .. MaxFrames :
        (Queued(f) /\ dpc = "live") ~> (~Queued(f) \/ dpc # "live" \/ crashed)

\* With main-thread rendering the destructor returns, whatever the V-sync
\* thread was doing when it was entered.
MainThreadDestructorReturns ==
    (dpc # "live" /\ ~mode.thread) ~> (dpc = "destroyed" \/ crashed)

\* "Stop the render thread", pacer.cpp:60: so it does with a render thread.
DestructorReturns == (dpc # "live") ~> (dpc = "destroyed" \/ crashed)
=============================================================================
