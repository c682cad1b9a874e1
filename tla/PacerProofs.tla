---------------------------- MODULE PacerProofs ----------------------------
(***************************************************************************)
(* Proofs about the frame pacer, for any number of frames and any history  *)
(* window: the order and the ownership of frames, the surfaces it holds,   *)
(* its end, the renderer's wake-ups, and that it implements FramePipe.     *)
(***************************************************************************)
EXTENDS Pacer, SequenceTheorems, FiniteSetTheorems, TLAPS

\* Which thread holds a frame outside the queues, and where the pipeline is
\* known to be empty.
HeldFrames ==
    /\ (rframe # 0) <=> (rpc \in {"rendering", "dropping"})
    /\ (vframe # 0) <=> (vpc = "dropping")
    /\ ~mode.vsync => pacingQ = <<>> /\ vpc = "exited"
    /\ dpc # "live" => spc = "idle"
    /\ dpc # "live" /\ ~mode.thread => rpc \in {"idle", "exited"}
    /\ dpc \in {"joinRender", "destroyed"} => vpc = "exited"
    /\ dpc = "destroyed" => rpc = "exited"
    /\ dpc # "destroyed" => shown = deferred

\* The part of the inductive invariant that only speaks of frames.
FrameTypes ==
    /\ submitted \in Nat
    /\ pacingQ \in Seq(Frame) /\ renderQ \in Seq(Frame)
    /\ vframe \in Nat /\ rframe \in Nat /\ deferred \in Nat
    /\ freed \subseteq Frame

FramesOK == FrameTypes /\ QueueBounds /\ PipelineOrder /\ NoLeakNoDoubleFree

\* What the destructor knows of the threads, and what it leaves.
ShutdownOrder ==
    /\ stopping = (dpc # "live")
    /\ rpc = "exited" => dpc # "live"
    /\ dpc = "destroyed" => pacingQ = <<>> /\ renderQ = <<>> /\ deferred = 0

\* No wake-up of the renderer is lost: the render thread looks at the queue
\* and waits without giving up the lock, and only where it exists.
WakeUps ==
    /\ rpc \in {"preWait", "waiting"} => mode.thread
    /\ rpc = "preWait" => renderQ = <<>>
    /\ RenderWakeNotLost
    /\ EventForEveryFrame

IInv == TypeOK /\ HeldFrames /\ FramesOK /\ ShutdownOrder /\ WakeUps

----------------------------------------------------------------------------
\* Queue operations.

\* Taking the head off a queue keeps the other frames, one place earlier.
LEMMA TailFacts ==
    ASSUME NEW q \in Seq(Frame), Len(q) > 0
    PROVE  /\ Head(q) = q[1] /\ q[1] \in Frame
           /\ Tail(q) \in Seq(Frame)
           /\ Len(Tail(q)) = Len(q) - 1
           /\ \A i \in 1 .. Len(Tail(q)) : Tail(q)[i] = q[i + 1]
  OBVIOUS

\* Frames that dropFrameForEnqueue() takes off the queue.
Excess(q) == IF Len(q) = MAX_QUEUED_FRAMES THEN 1 ELSE 0

\* Enqueueing puts the frame behind what dropFrameForEnqueue() leaves.
LEMMA EnqueueFacts ==
    ASSUME NEW q \in Seq(Frame), NEW f \in Frame, Len(q) <= MAX_QUEUED_FRAMES
    PROVE  LET r == EnqueueDropping(q, f)
           IN  /\ r \in Seq(Frame)
               /\ Len(r) = Len(q) - Excess(q) + 1
               /\ 0 < Len(r) /\ Len(r) <= MAX_QUEUED_FRAMES
               /\ r[Len(r)] = f
               /\ \A i \in 1 .. Len(r) - 1 : r[i] = q[i + Excess(q)]
               /\ Overflow(q) = IF Excess(q) = 1 THEN {q[1]} ELSE {}
               /\ Overflow(q) \subseteq Frame
  <1>1. Len(q) \in Nat
    OBVIOUS
  <1>2. /\ WithRoom(q) \in Seq(Frame)
        /\ Len(WithRoom(q)) = Len(q) - Excess(q)
        /\ \A i \in 1 .. Len(WithRoom(q)) : WithRoom(q)[i] = q[i + Excess(q)]
    <2>1. CASE Len(q) = MAX_QUEUED_FRAMES
      BY <2>1, TailFacts DEF WithRoom, Excess, MAX_QUEUED_FRAMES
    <2>2. CASE Len(q) # MAX_QUEUED_FRAMES
      <3>1. WithRoom(q) = q /\ Excess(q) = 0
        BY <2>2 DEF WithRoom, Excess
      <3>2. \A i \in 1 .. Len(q) : q[i] = q[i + 0]
        OBVIOUS
      <3>3. QED
        BY <1>1, <3>1, <3>2
    <2>3. QED
      BY <2>1, <2>2
  <1> DEFINE w == WithRoom(q)
  <1>3. /\ Append(w, f) \in Seq(Frame)
        /\ Len(Append(w, f)) = Len(w) + 1
        /\ Append(w, f)[Len(w) + 1] = f
        /\ \A i \in 1 .. Len(w) : Append(w, f)[i] = w[i]
    BY <1>2
  <1>4. EnqueueDropping(q, f) = Append(w, f)
    BY DEF EnqueueDropping
  <1>5. /\ Overflow(q) = IF Excess(q) = 1 THEN {q[1]} ELSE {}
        /\ Overflow(q) \subseteq Frame
    BY TailFacts DEF Overflow, Excess, MAX_QUEUED_FRAMES
  <1> DEFINE r == EnqueueDropping(q, f)
             n == Len(q)
             e == Excess(q)
  <1>6. n \in Nat /\ n <= 3 /\ e = IF n = 3 THEN 1 ELSE 0
    BY <1>1 DEF Excess, MAX_QUEUED_FRAMES
  <1>7. r \in Seq(Frame) /\ Len(r) = Len(w) + 1 /\ r[Len(w) + 1] = f
    BY <1>3, <1>4
  <1>8. \A i \in 1 .. Len(w) : r[i] = w[i] /\ w[i] = q[i + e]
    BY <1>2, <1>3, <1>4
  <1>9. Len(w) = n - e
    BY <1>2
  <1> HIDE DEF w, r, n, e
  <1>10. Len(r) = n - e + 1 /\ Len(w) = Len(r) - 1 /\ 0 < n - e + 1 /\ n - e + 1 <= 3
    BY <1>6, <1>7, <1>9
  <1>11. r[Len(r)] = f /\ \A i \in 1 .. Len(r) - 1 : r[i] = q[i + e]
    BY <1>6, <1>7, <1>8, <1>9, <1>10
  <1>12. QED
    BY <1>5, <1>7, <1>10, <1>11 DEF r, n, e, MAX_QUEUED_FRAMES

\* The same facts about the frames in a queue, which is all that is needed
\* of it from here on.
LEMMA ElemsAreFrames ==
    ASSUME NEW q \in Seq(Frame)
    PROVE  /\ Elems(q) \subseteq Frame
           /\ q = <<>> => Elems(q) = {}
           /\ q # <<>> <=> 0 < Len(q)
           /\ Len(q) \in Nat
  BY DEF Elems

LEMMA TailElems ==
    ASSUME NEW q \in Seq(Frame), 0 < Len(q), Ascending(q)
    PROVE  /\ Tail(q) \in Seq(Frame) /\ Len(Tail(q)) = Len(q) - 1
           /\ Elems(q) = Elems(Tail(q)) \cup {Head(q)}
           /\ Ascending(Tail(q))
           /\ \A x \in Elems(Tail(q)) : Head(q) < x
  <1> DEFINE t == Tail(q)
  <1>1. /\ Head(q) = q[1] /\ t \in Seq(Frame) /\ Len(t) = Len(q) - 1
        /\ \A i \in 1 .. Len(t) : t[i] = q[i + 1]
    BY TailFacts
  <1>2. Len(q) \in Nat
    OBVIOUS
  <1> HIDE DEF t
  <1>3. \A i \in 1 .. Len(t) : i \in Nat /\ i + 1 \in 1 .. Len(q)
    BY <1>1, <1>2
  <1>4. Head(q) \in Elems(q)
    BY <1>1, <1>2 DEF Elems
  <1>5. Elems(q) = Elems(t) \cup {Head(q)}
    <2>1. Elems(t) \subseteq Elems(q)
      BY <1>1, <1>3 DEF Elems
    <2>2. ASSUME NEW i \in 1 .. Len(q), i # 1
          PROVE  i - 1 \in 1 .. Len(t) /\ (i - 1) + 1 = i
      BY <1>1, <1>2, <2>2
    <2>3. ASSUME NEW i \in 1 .. Len(q)
          PROVE  q[i] \in Elems(t) \cup {Head(q)}
      <3>1. CASE i = 1
        BY <1>1, <3>1
      <3>2. CASE i # 1
        <4>1. i - 1 \in 1 .. Len(t) /\ t[i - 1] = q[i]
          BY <1>1, <2>2, <3>2
        <4>2. QED
          BY <4>1 DEF Elems
      <3>3. QED
        BY <3>1, <3>2
    <2>4. QED
      BY <1>4, <2>1, <2>3 DEF Elems
  <1>6. Ascending(t)
    BY <1>1, <1>3 DEF Ascending
  <1>7. \A i \in 1 .. Len(t) : Head(q) < t[i]
    BY <1>1, <1>2, <1>3 DEF Ascending
  <1>8. QED
    BY <1>1, <1>4, <1>5, <1>6, <1>7 DEF t, Elems

LEMMA EnqueueElems ==
    ASSUME NEW q \in Seq(Frame), NEW f \in Frame, Len(q) <= MAX_QUEUED_FRAMES,
           Ascending(q), \A x \in Elems(q) : x < f
    PROVE  LET r == EnqueueDropping(q, f)
           IN  /\ r \in Seq(Frame)
               /\ 0 < Len(r) /\ Len(r) <= MAX_QUEUED_FRAMES
               /\ Elems(r) = (Elems(q) \ Overflow(q)) \cup {f}
               /\ Ascending(r)
               /\ Overflow(q) \subseteq Elems(q)
  <1> DEFINE r == EnqueueDropping(q, f)
             n == Len(q)
             e == Excess(q)
  <1>1. /\ r \in Seq(Frame) /\ Len(r) = n - e + 1
        /\ 0 < Len(r) /\ Len(r) <= MAX_QUEUED_FRAMES
        /\ r[Len(r)] = f
        /\ \A i \in 1 .. Len(r) - 1 : r[i] = q[i + e]
        /\ Overflow(q) = IF e = 1 THEN {q[1]} ELSE {}
    BY EnqueueFacts
  <1>2. n \in Nat /\ e \in {0, 1} /\ (e = 1 => n = 3) /\ n = Len(q)
    BY DEF Excess, MAX_QUEUED_FRAMES
  <1> HIDE DEF r, n, e
  <1>3. Overflow(q) \subseteq Elems(q)
    BY <1>1, <1>2 DEF Elems
  <1>4. \A i \in 1 .. Len(r) - 1 : i + e \in 1 .. n /\ r[i] \in Elems(q) /\ r[i] < f
    <2>1. \A i \in 1 .. Len(r) - 1 : i + e \in 1 .. n
      BY <1>1, <1>2
    <2>2. QED
      BY <1>1, <1>2, <2>1 DEF Elems
  <1>5. Ascending(r)
    <2>1. SUFFICES ASSUME NEW i \in 1 .. Len(r), NEW j \in 1 .. Len(r), i < j
                   PROVE  r[i] < r[j]
      BY DEF Ascending
    <2>2. i \in 1 .. Len(r) - 1
      BY <1>1, <1>2, <2>1
    <2>3. CASE j = Len(r)
      BY <1>1, <1>4, <2>2, <2>3
    <2>4. CASE j \in 1 .. Len(r) - 1
      <3>1. i + e \in 1 .. n /\ j + e \in 1 .. n /\ i + e < j + e
        BY <1>2, <1>4, <2>1, <2>2, <2>4
      <3>2. QED
        BY <1>1, <1>2, <2>2, <2>4, <3>1 DEF Ascending
    <2>5. QED
      BY <1>1, <1>2, <2>3, <2>4
  <1>6. Elems(r) \subseteq (Elems(q) \ Overflow(q)) \cup {f}
    <2>1. SUFFICES ASSUME NEW i \in 1 .. Len(r)
                   PROVE  r[i] \in (Elems(q) \ Overflow(q)) \cup {f}
      BY DEF Elems
    <2>2. CASE i = Len(r)
      BY <1>1, <2>2
    <2>3. CASE i \in 1 .. Len(r) - 1
      <3>1. CASE e = 0
        BY <1>1, <1>4, <2>3, <3>1
      <3>2. CASE e = 1
        <4>1. i + 1 \in 1 .. n /\ 1 \in 1 .. n /\ 1 < i + 1
          BY <1>2, <1>4, <2>3, <3>2
        <4>2. q[1] < q[i + 1] /\ q[1] \in Nat /\ q[i + 1] \in Nat
          BY <1>2, <4>1 DEF Ascending, Frame
        <4>3. QED
          BY <1>1, <1>4, <2>3, <3>2, <4>2
      <3>3. QED
        BY <1>2, <3>1, <3>2
    <2>4. QED
      BY <1>1, <1>2, <2>2, <2>3
  <1>7. (Elems(q) \ Overflow(q)) \cup {f} \subseteq Elems(r)
    <2>1. f \in Elems(r)
      BY <1>1, <1>2 DEF Elems
    <2>2. ASSUME NEW i \in 1 .. n, q[i] \notin Overflow(q)
          PROVE  q[i] \in Elems(r)
      <3>1. i - e \in 1 .. Len(r) - 1 /\ (i - e) + e = i
        BY <1>1, <1>2, <2>2
      <3>2. r[i - e] = q[i] /\ i - e \in 1 .. Len(r)
        BY <1>1, <1>2, <3>1
      <3>3. QED
        BY <3>2 DEF Elems
    <2>3. QED
      BY <1>2, <2>1, <2>2 DEF Elems
  <1>8. QED
    BY <1>1, <1>3, <1>5, <1>6, <1>7 DEF r

----------------------------------------------------------------------------
\* How frames move.  Each lemma is one kind of move, whichever action makes
\* it, and shows that the frames stay in order and that no freed frame is
\* still in the pipeline.

Kept(f) == {f} \ {0}

LEMMA FramesStay ==
    ASSUME FramesOK,
           UNCHANGED <<pacingQ, renderQ, vframe, rframe, deferred, freed, submitted>>
    PROVE  FramesOK'
  BY SMTT(30) DEF FramesOK, FrameTypes, QueueBounds, PipelineOrder, Ascending, NoLeakNoDoubleFree, InFlight, Elems

\* What FramesOK says of the two queues as sets.
LEMMA QueueElems ==
    ASSUME FramesOK
    PROVE  Elems(pacingQ) \subseteq Frame /\ Elems(renderQ) \subseteq Frame
  BY ElemsAreFrames DEF FramesOK, FrameTypes

\* The V-sync thread lets go of the frame it was dropping.
LEMMA VsyncLetsGo ==
    ASSUME FramesOK, vframe' = 0, freed' = freed \cup Kept(vframe),
           UNCHANGED <<pacingQ, renderQ, rframe, deferred, submitted>>
    PROVE  FramesOK'
  <1> USE QueueElems DEF FramesOK
  <1>1. Elems(pacingQ)' = Elems(pacingQ) /\ Elems(renderQ)' = Elems(renderQ)
    BY DEF Elems
  <1>2. FrameTypes' /\ QueueBounds'
    BY DEF FrameTypes, QueueBounds, Kept, Frame
  <1>3. Ascending(pacingQ)' /\ Ascending(renderQ)'
    BY DEF PipelineOrder, Ascending
  <1>4. PipelineOrder'
    BY <1>1, <1>3 DEF PipelineOrder, FrameTypes, Frame
  <1>5. NoLeakNoDoubleFree'
    BY <1>1 DEF NoLeakNoDoubleFree, InFlight, Kept, PipelineOrder, FrameTypes, Frame
  <1>6. QED
    BY <1>2, <1>4, <1>5

\* The renderer lets go of the frame it was dropping.
LEMMA RendererLetsGo ==
    ASSUME FramesOK, rframe' = 0, freed' = freed \cup Kept(rframe),
           UNCHANGED <<pacingQ, renderQ, vframe, deferred, submitted>>
    PROVE  FramesOK'
  <1> USE QueueElems DEF FramesOK
  <1>1. Elems(pacingQ)' = Elems(pacingQ) /\ Elems(renderQ)' = Elems(renderQ)
    BY DEF Elems
  <1>2. FrameTypes' /\ QueueBounds'
    BY DEF FrameTypes, QueueBounds, Kept, Frame
  <1>3. Ascending(pacingQ)' /\ Ascending(renderQ)'
    BY DEF PipelineOrder, Ascending
  <1>4. PipelineOrder'
    BY <1>1, <1>3 DEF PipelineOrder, FrameTypes, Frame
  <1>5. NoLeakNoDoubleFree'
    BY <1>1 DEF NoLeakNoDoubleFree, InFlight, Kept, PipelineOrder, FrameTypes, Frame
  <1>6. QED
    BY <1>2, <1>4, <1>5

\* The renderer has drawn its frame, which replaces the deferred one.
LEMMA RendererDraws ==
    ASSUME FramesOK, rframe # 0, rframe' = 0, deferred' = rframe,
           freed' = freed \cup Kept(deferred),
           UNCHANGED <<pacingQ, renderQ, vframe, submitted>>
    PROVE  FramesOK'
  <1> USE QueueElems DEF FramesOK
  <1>1. Elems(pacingQ)' = Elems(pacingQ) /\ Elems(renderQ)' = Elems(renderQ)
    BY DEF Elems
  <1>2. FrameTypes' /\ QueueBounds'
    BY DEF FrameTypes, QueueBounds, Kept, Frame
  <1>3. Ascending(pacingQ)' /\ Ascending(renderQ)'
    BY DEF PipelineOrder, Ascending
  <1>4. PipelineOrder'
    BY <1>1, <1>3 DEF PipelineOrder, FrameTypes, Frame
  <1>5. NoLeakNoDoubleFree'
    BY <1>1 DEF NoLeakNoDoubleFree, InFlight, Kept, PipelineOrder, FrameTypes, Frame
  <1>6. QED
    BY <1>2, <1>4, <1>5

\* The renderer takes the head of the render queue, to draw or to drop it.
LEMMA RendererTakes ==
    ASSUME FramesOK, 0 < Len(renderQ),
           rframe' = Head(renderQ), renderQ' = Tail(renderQ),
           freed' = freed \cup Kept(rframe),
           UNCHANGED <<pacingQ, vframe, deferred, submitted>>
    PROVE  FramesOK' /\ rframe' # 0
  <1> USE QueueElems DEF FramesOK
  <1>1. /\ renderQ' \in Seq(Frame) /\ Len(renderQ') = Len(renderQ) - 1
        /\ Elems(renderQ) = Elems(renderQ)' \cup {rframe'}
        /\ Ascending(renderQ)'
        /\ \A x \in Elems(renderQ)' : rframe' < x
    <2>1. /\ Tail(renderQ) \in Seq(Frame) /\ Len(Tail(renderQ)) = Len(renderQ) - 1
          /\ Elems(renderQ) = Elems(Tail(renderQ)) \cup {Head(renderQ)}
          /\ Ascending(Tail(renderQ))
          /\ \A x \in Elems(Tail(renderQ)) : Head(renderQ) < x
      BY TailElems DEF FrameTypes, PipelineOrder
    <2>2. Elems(renderQ)' = Elems(Tail(renderQ)) /\ Ascending(renderQ)' = Ascending(Tail(renderQ))
      BY DEF Elems, Ascending
    <2>3. QED
      BY <2>1, <2>2
  <1>2. Elems(pacingQ)' = Elems(pacingQ) /\ Ascending(pacingQ)'
    BY DEF Elems, PipelineOrder, Ascending
  <1>3. FrameTypes' /\ QueueBounds'
    BY <1>1, ElemsAreFrames DEF FrameTypes, QueueBounds, MAX_QUEUED_FRAMES, Kept, Frame
  <1>4. PipelineOrder'
    BY <1>1, <1>2 DEF PipelineOrder, FrameTypes, Frame
  <1>5. NoLeakNoDoubleFree'
    BY <1>1, <1>2 DEF NoLeakNoDoubleFree, InFlight, Kept, PipelineOrder, FrameTypes, Frame
  <1>6. QED
    BY <1>1, <1>3, <1>4, <1>5 DEF Frame

\* The V-sync thread takes the head of the pacing queue to drop it.
LEMMA VsyncDrops ==
    ASSUME FramesOK, 0 < Len(pacingQ),
           vframe' = Head(pacingQ), pacingQ' = Tail(pacingQ),
           freed' = freed \cup Kept(vframe),
           UNCHANGED <<renderQ, rframe, deferred, submitted>>
    PROVE  FramesOK' /\ vframe' # 0
  <1> USE QueueElems DEF FramesOK
  <1>1. /\ pacingQ' \in Seq(Frame) /\ Len(pacingQ') = Len(pacingQ) - 1
        /\ Elems(pacingQ) = Elems(pacingQ)' \cup {vframe'}
        /\ Ascending(pacingQ)'
        /\ \A x \in Elems(pacingQ)' : vframe' < x
    <2>1. /\ Tail(pacingQ) \in Seq(Frame) /\ Len(Tail(pacingQ)) = Len(pacingQ) - 1
          /\ Elems(pacingQ) = Elems(Tail(pacingQ)) \cup {Head(pacingQ)}
          /\ Ascending(Tail(pacingQ))
          /\ \A x \in Elems(Tail(pacingQ)) : Head(pacingQ) < x
      BY TailElems DEF FrameTypes, PipelineOrder
    <2>2. Elems(pacingQ)' = Elems(Tail(pacingQ)) /\ Ascending(pacingQ)' = Ascending(Tail(pacingQ))
      BY DEF Elems, Ascending
    <2>3. QED
      BY <2>1, <2>2
  <1>2. Elems(renderQ)' = Elems(renderQ) /\ Ascending(renderQ)'
    BY DEF Elems, PipelineOrder, Ascending
  <1>3. FrameTypes' /\ QueueBounds'
    BY <1>1, ElemsAreFrames DEF FrameTypes, QueueBounds, MAX_QUEUED_FRAMES, Kept, Frame
  <1>4. PipelineOrder'
    BY <1>1, <1>2 DEF PipelineOrder, FrameTypes, Frame
  <1>5. NoLeakNoDoubleFree'
    <2>1. InFlight' = InFlight \ Kept(vframe)
      <3>1. /\ vframe \notin Elems(pacingQ) \cup Elems(renderQ)
            /\ rframe # 0 => vframe # rframe
            /\ deferred # 0 => vframe # deferred
        BY DEF PipelineOrder, FrameTypes, Frame
      <3>2. vframe' # 0
        BY <1>1 DEF Frame
      <3>3. QED
        BY <1>1, <1>2, <3>1, <3>2 DEF InFlight, Kept
    <2>2. Kept(vframe) \subseteq InFlight
      BY DEF InFlight, Kept
    <2>3. QED
      BY <2>1, <2>2 DEF NoLeakNoDoubleFree
  <1>6. QED
    BY <1>1, <1>3, <1>4, <1>5 DEF Frame

\* The V-sync thread passes the head of the pacing queue to the render queue.
LEMMA VsyncPasses ==
    ASSUME FramesOK, 0 < Len(pacingQ), vframe' = 0,
           pacingQ' = Tail(pacingQ), renderQ' = EnqueueDropping(renderQ, Head(pacingQ)),
           freed' = freed \cup Kept(vframe) \cup Overflow(renderQ),
           UNCHANGED <<rframe, deferred, submitted>>
    PROVE  FramesOK'
  <1> USE QueueElems DEF FramesOK
  <1> DEFINE f == Head(pacingQ)
  <1>1. /\ pacingQ' \in Seq(Frame) /\ Len(pacingQ') = Len(pacingQ) - 1
        /\ Elems(pacingQ) = Elems(pacingQ)' \cup {f}
        /\ Ascending(pacingQ)'
        /\ \A x \in Elems(pacingQ)' : f < x
    <2>1. /\ Tail(pacingQ) \in Seq(Frame) /\ Len(Tail(pacingQ)) = Len(pacingQ) - 1
          /\ Elems(pacingQ) = Elems(Tail(pacingQ)) \cup {Head(pacingQ)}
          /\ Ascending(Tail(pacingQ))
          /\ \A x \in Elems(Tail(pacingQ)) : Head(pacingQ) < x
      BY TailElems DEF FrameTypes, PipelineOrder
    <2>2. Elems(pacingQ)' = Elems(Tail(pacingQ)) /\ Ascending(pacingQ)' = Ascending(Tail(pacingQ))
      BY DEF Elems, Ascending
    <2>3. QED
      BY <2>1, <2>2
  <1>2. f \in Frame /\ \A x \in Elems(renderQ) : x < f
    BY <1>1 DEF PipelineOrder
  <1> HIDE DEF f
  <1>3. /\ renderQ' \in Seq(Frame) /\ Len(renderQ') <= MAX_QUEUED_FRAMES
        /\ Elems(renderQ)' = (Elems(renderQ) \ Overflow(renderQ)) \cup {f}
        /\ Ascending(renderQ)'
        /\ Overflow(renderQ) \subseteq Elems(renderQ)
    <2> DEFINE r == EnqueueDropping(renderQ, f)
    <2>1. renderQ \in Seq(Frame) /\ Len(renderQ) <= MAX_QUEUED_FRAMES /\ Ascending(renderQ)
      BY DEF FrameTypes, QueueBounds, PipelineOrder
    <2>2. /\ r \in Seq(Frame) /\ Len(r) <= MAX_QUEUED_FRAMES
          /\ Elems(r) = (Elems(renderQ) \ Overflow(renderQ)) \cup {f}
          /\ Ascending(r) /\ Overflow(renderQ) \subseteq Elems(renderQ)
      BY <1>2, <2>1, EnqueueElems
    <2>3. renderQ' = r
      BY DEF f
    <2> HIDE DEF r
    <2>4. QED
      BY <2>2, <2>3 DEF Elems, Ascending
  <1>4. FrameTypes' /\ QueueBounds'
    <2>1. QueueBounds'
      BY <1>1, <1>3 DEF QueueBounds, MAX_QUEUED_FRAMES
    <2>2. freed' \subseteq Frame
      <3>1. Kept(vframe) \subseteq Frame
        BY DEF FrameTypes, Kept, Frame
      <3>2. Elems(renderQ) \subseteq Frame
        BY ElemsAreFrames DEF FrameTypes
      <3>3. QED
        BY <1>3, <3>1, <3>2 DEF FrameTypes
    <2>3. QED
      BY <1>1, <1>3, <2>1, <2>2 DEF FrameTypes
  <1>5. PipelineOrder'
    BY <1>1, <1>2, <1>3, SMTT(30) DEF PipelineOrder, FrameTypes, Frame
  <1>6. NoLeakNoDoubleFree'
    <2>1. InFlight' = (InFlight \ Kept(vframe)) \ Overflow(renderQ)
      <3>1. /\ vframe \notin Elems(pacingQ)' \cup {f} \cup Elems(renderQ)
            /\ rframe # 0 => vframe # rframe
            /\ deferred # 0 => vframe # deferred
        BY <1>1 DEF PipelineOrder, FrameTypes, Frame
      <3>2. /\ Overflow(renderQ) \cap (Elems(pacingQ)' \cup {f}) = {}
            /\ rframe \notin Overflow(renderQ) /\ deferred \notin Overflow(renderQ)
        BY <1>1, <1>2, <1>3 DEF PipelineOrder, FrameTypes, Frame
      <3>3. 0 \notin Elems(renderQ) /\ f # 0
        BY <1>2 DEF Frame
      <3>4. QED
        BY <1>1, <1>3, <3>1, <3>2, <3>3 DEF InFlight, Kept
    <2>2. Kept(vframe) \subseteq InFlight /\ Overflow(renderQ) \subseteq InFlight
      BY <1>3 DEF InFlight, Kept
    <2>3. QED
      BY <2>1, <2>2 DEF NoLeakNoDoubleFree
  <1>7. QED
    BY <1>4, <1>5, <1>6

\* The decoder thread adds a new frame behind the pacing queue.
LEMMA DecoderPaces ==
    ASSUME FramesOK, submitted' = submitted + 1,
           pacingQ' = EnqueueDropping(pacingQ, submitted'),
           freed' = freed \cup Overflow(pacingQ),
           UNCHANGED <<renderQ, vframe, rframe, deferred>>
    PROVE  FramesOK'
  <1> USE QueueElems DEF FramesOK
  <1> DEFINE f == submitted + 1
  <1>1. f \in Frame /\ \A x \in Elems(pacingQ) : x < f
    BY DEF FrameTypes, PipelineOrder, Frame
  <1>2. f = submitted' /\ submitted < f
    BY DEF FrameTypes
  <1> HIDE DEF f
  <1>3. /\ pacingQ' \in Seq(Frame) /\ Len(pacingQ') <= MAX_QUEUED_FRAMES
        /\ Elems(pacingQ)' = (Elems(pacingQ) \ Overflow(pacingQ)) \cup {f}
        /\ Ascending(pacingQ)'
        /\ Overflow(pacingQ) \subseteq Elems(pacingQ)
    <2> DEFINE r == EnqueueDropping(pacingQ, f)
    <2>1. pacingQ \in Seq(Frame) /\ Len(pacingQ) <= MAX_QUEUED_FRAMES /\ Ascending(pacingQ)
      BY DEF FrameTypes, QueueBounds, PipelineOrder
    <2>2. /\ r \in Seq(Frame) /\ Len(r) <= MAX_QUEUED_FRAMES
          /\ Elems(r) = (Elems(pacingQ) \ Overflow(pacingQ)) \cup {f}
          /\ Ascending(r) /\ Overflow(pacingQ) \subseteq Elems(pacingQ)
      BY <1>1, <2>1, EnqueueElems
    <2>3. pacingQ' = r
      BY <1>2
    <2> HIDE DEF r
    <2>4. QED
      BY <2>2, <2>3 DEF Elems, Ascending
  <1>4. Elems(renderQ)' = Elems(renderQ) /\ Ascending(renderQ)'
    BY DEF Elems, PipelineOrder, Ascending
  <1>5. FrameTypes' /\ QueueBounds'
    BY <1>1, <1>2, <1>3 DEF FrameTypes, QueueBounds, Frame
  <1>6. PipelineOrder'
    <2>1. /\ Elems(pacingQ)' \cup Elems(renderQ)' \subseteq 0 .. submitted'
          /\ {vframe, rframe, deferred}' \subseteq 0 .. submitted'
      <3>1. 0 .. submitted \subseteq 0 .. submitted' /\ f \in 0 .. submitted'
        BY <1>1, <1>2 DEF FrameTypes, Frame
      <3>2. QED
        BY <1>3, <1>4, <3>1 DEF PipelineOrder
    <2>2. \A p \in Elems(pacingQ)' :
              /\ vframe < p /\ rframe < p /\ deferred < p
              /\ \A r \in Elems(renderQ)' : r < p
      <3>1. \A x \in {vframe, rframe, deferred} \cup Elems(renderQ) : x < f
        <4>1. {vframe, rframe, deferred} \cup Elems(renderQ) \subseteq 0 .. submitted
          BY DEF PipelineOrder
        <4>2. QED
          BY <1>2, <4>1 DEF FrameTypes
      <3>2. \A p \in Elems(pacingQ) :
                \A x \in {vframe, rframe, deferred} \cup Elems(renderQ) : x < p
        BY DEF PipelineOrder
      <3>3. Elems(pacingQ)' \subseteq Elems(pacingQ) \cup {f}
        BY <1>3
      <3>4. QED
        BY <1>4, <3>1, <3>2, <3>3
    <2>3. \A r \in Elems(renderQ)' : rframe < r /\ deferred < r /\ (vframe # 0 => r < vframe)
      BY <1>4 DEF PipelineOrder
    <2>4. QED
      BY <1>3, <1>4, <2>1, <2>2, <2>3 DEF PipelineOrder, FrameTypes
  <1>7. NoLeakNoDoubleFree'
    BY <1>1, <1>2, <1>3, <1>4 DEF NoLeakNoDoubleFree, InFlight, PipelineOrder, FrameTypes, Frame
  <1>8. QED
    BY <1>5, <1>6, <1>7

\* Without a V-sync source it adds the frame behind the render queue.
LEMMA DecoderRenders ==
    ASSUME FramesOK, submitted' = submitted + 1, pacingQ = <<>>, vframe = 0,
           renderQ' = EnqueueDropping(renderQ, submitted'),
           freed' = freed \cup Overflow(renderQ),
           UNCHANGED <<pacingQ, vframe, rframe, deferred>>
    PROVE  FramesOK'
  <1> USE QueueElems DEF FramesOK
  <1> DEFINE f == submitted + 1
  <1>1. f \in Frame /\ \A x \in Elems(renderQ) : x < f
    BY DEF FrameTypes, PipelineOrder, Frame
  <1>2. f = submitted' /\ submitted < f
    BY DEF FrameTypes
  <1> HIDE DEF f
  <1>3. /\ renderQ' \in Seq(Frame) /\ Len(renderQ') <= MAX_QUEUED_FRAMES
        /\ Elems(renderQ)' = (Elems(renderQ) \ Overflow(renderQ)) \cup {f}
        /\ Ascending(renderQ)'
        /\ Overflow(renderQ) \subseteq Elems(renderQ)
    <2> DEFINE r == EnqueueDropping(renderQ, f)
    <2>1. renderQ \in Seq(Frame) /\ Len(renderQ) <= MAX_QUEUED_FRAMES /\ Ascending(renderQ)
      BY DEF FrameTypes, QueueBounds, PipelineOrder
    <2>2. /\ r \in Seq(Frame) /\ Len(r) <= MAX_QUEUED_FRAMES
          /\ Elems(r) = (Elems(renderQ) \ Overflow(renderQ)) \cup {f}
          /\ Ascending(r) /\ Overflow(renderQ) \subseteq Elems(renderQ)
      BY <1>1, <2>1, EnqueueElems
    <2>3. renderQ' = r
      BY <1>2
    <2> HIDE DEF r
    <2>4. QED
      BY <2>2, <2>3 DEF Elems, Ascending
  <1>4. Elems(pacingQ)' = {} /\ Ascending(pacingQ)'
    BY DEF Elems, PipelineOrder, Ascending
  <1>5. FrameTypes' /\ QueueBounds'
    BY <1>1, <1>2, <1>3 DEF FrameTypes, QueueBounds, Frame
  <1>6. PipelineOrder'
    BY <1>1, <1>2, <1>3, <1>4 DEF PipelineOrder, FrameTypes, Frame
  <1>7. NoLeakNoDoubleFree'
    BY <1>1, <1>2, <1>3, <1>4 DEF NoLeakNoDoubleFree, InFlight, PipelineOrder, FrameTypes, Frame
  <1>8. QED
    BY <1>5, <1>6, <1>7

\* ~Pacer() frees what is left.
LEMMA AllFreed ==
    ASSUME FramesOK, vframe = 0, rframe = 0,
           pacingQ' = <<>>, renderQ' = <<>>, deferred' = 0,
           freed' = freed \cup Elems(pacingQ) \cup Elems(renderQ) \cup Kept(deferred),
           UNCHANGED <<vframe, rframe, submitted>>
    PROVE  FramesOK'
  <1> USE QueueElems DEF FramesOK
  <1>1. Elems(pacingQ)' = {} /\ Elems(renderQ)' = {} /\ Ascending(pacingQ)' /\ Ascending(renderQ)'
    BY DEF Elems, Ascending
  <1>2. FrameTypes'
    <2>1. pacingQ' \in Seq(Frame) /\ renderQ' \in Seq(Frame)
      BY EmptySeq
    <2>2. freed' \subseteq Frame
      BY DEF FrameTypes, Kept, Frame
    <2>3. QED
      BY <2>1, <2>2 DEF FrameTypes
  <1>3. QueueBounds'
    <2>1. Len(<<>>) = 0
      BY EmptySeq
    <2>2. QED
      BY <2>1 DEF QueueBounds, MAX_QUEUED_FRAMES
  <1>4. PipelineOrder'
    BY <1>1 DEF PipelineOrder, FrameTypes
  <1>5. NoLeakNoDoubleFree'
    BY <1>1 DEF NoLeakNoDoubleFree, InFlight, Kept, PipelineOrder, FrameTypes, Frame
  <1>6. QED
    BY <1>2, <1>3, <1>4, <1>5

----------------------------------------------------------------------------
\* The inductive invariant.

LEMMA InitIInv == ASSUME Init PROVE IInv
  <1> USE DEF Init
  <1>1. <<>> \in Seq(Frame) /\ Len(<<>>) = 0 /\ \A i \in 1 .. Len(<<>>) : FALSE
    BY EmptySeq
  <1>2. FramesOK
    <2>1. Elems(pacingQ) = {} /\ Elems(renderQ) = {} /\ Ascending(pacingQ) /\ Ascending(renderQ)
      BY <1>1 DEF Elems, Ascending
    <2>2. PipelineOrder
      BY <2>1 DEF PipelineOrder
    <2>3. FrameTypes
      BY <1>1 DEF FrameTypes
    <2>4. QueueBounds
      BY <1>1 DEF QueueBounds, MAX_QUEUED_FRAMES
    <2>5. NoLeakNoDoubleFree
      BY <2>1 DEF NoLeakNoDoubleFree, InFlight
    <2>6. QED
      BY <2>2, <2>3, <2>4, <2>5 DEF FramesOK
  <1>3. TypeOK
    <2>1. 0 \in 0 .. MaxFrames /\ 0 \in 0 .. PacingWindow /\ 0 \in 0 .. RenderWindow
      BY PacerAssumption
    <2>2. pacingQ \in Seq(Frame) /\ renderQ \in Seq(Frame)
      BY <1>1
    <2>3. QED
      BY <2>1, <2>2 DEF TypeOK
  <1>4. HeldFrames
    BY DEF HeldFrames
  <1>5. ShutdownOrder
    BY DEF ShutdownOrder
  <1>6. WakeUps
    <2>1. EventForEveryFrame
      <3>1. Len(renderQ) = 0 /\ events = 0 /\ vpc # "notify" /\ spc # "notify"
        BY <1>1
      <3>2. QED
        BY <3>1 DEF EventForEveryFrame, Pending
    <2>2. QED
      BY <2>1 DEF WakeUps, RenderWakeNotLost
  <1>7. QED
    BY <1>2, <1>3, <1>4, <1>5, <1>6 DEF IInv

\* The frames keep their order in every step: one case per action that moves
\* frames, the others leave them alone.
LEMMA FramesStep == ASSUME IInv, [Next]_vars PROVE FramesOK'
  <1> USE DEF IInv
  <1> DEFINE Same == UNCHANGED <<pacingQ, renderQ, vframe, rframe, deferred, freed, submitted>>
  <1>0. ASSUME Same PROVE FramesOK'
    BY <1>0, FramesStay
  <1>1. CASE Submit
    <2>1. CASE mode.vsync
      BY <1>1, <2>1, DecoderPaces DEF Submit
    <2>2. CASE ~mode.vsync
      BY <1>1, <2>2, DecoderRenders DEF Submit, EnqueueForRendering, HeldFrames
    <2>3. QED
      BY <2>1, <2>2
  <1>2. ASSUME NEW target, DropWaitOrPass(target),
               freed' = freed \cup Kept(vframe) \cup PassOverflow(target),
               target \in Nat,
               UNCHANGED <<rframe, deferred, submitted>>
        PROVE  FramesOK'
    <2>1. Len(pacingQ) \in Nat /\ (pacingQ = <<>> => Len(pacingQ) = 0)
      BY ElemsAreFrames DEF FramesOK, FrameTypes
    <2>2. CASE target < Len(pacingQ)
      <3>1. ~MayPass(target) /\ 0 < Len(pacingQ) /\ pacingQ # <<>>
        BY <1>2, <2>1, <2>2 DEF MayPass
      <3>2. QED
        BY <1>2, <3>1, VsyncDrops DEF DropWaitOrPass, PassOverflow
    <2>3. CASE pacingQ = <<>>
      <3>1. ~MayPass(target) /\ ~(Len(pacingQ) > target)
        BY <1>2, <2>1, <2>3 DEF MayPass
      <3>2. QED
        BY <1>2, <3>1, VsyncLetsGo DEF DropWaitOrPass, PassOverflow
    <2>4. CASE MayPass(target)
      <3>1. 0 < Len(pacingQ) /\ ~(Len(pacingQ) > target) /\ pacingQ # <<>>
        BY <1>2, <2>1, <2>4 DEF MayPass
      <3>2. QED
        BY <1>2, <2>4, <3>1, VsyncPasses DEF DropWaitOrPass, PassOverflow
    <2>5. QED
      BY <1>2, <2>2, <2>3, <2>4 DEF DropWaitOrPass
  <1>3. CASE HandleVsync
    <2>1. vframe = 0 /\ Kept(vframe) = {}
      BY <1>3 DEF HandleVsync, HeldFrames, Kept
    <2>2. PacingDropTarget \in Nat
      BY DEF PacingDropTarget
    <2>3. QED
      BY <1>2, <1>3, <2>1, <2>2 DEF HandleVsync
  <1>4. CASE VsyncDropped
    <2>1. Kept(vframe) = {vframe}
      BY <1>4 DEF VsyncDropped, HeldFrames, Kept
    <2>2. vtarget \in Nat
      BY DEF TypeOK
    <2>3. QED
      BY <1>2, <1>4, <2>1, <2>2 DEF VsyncDropped
  <1>5. CASE VsyncWoken
    <2>1. vframe = 0 /\ Kept(vframe) = {}
      BY <1>5 DEF VsyncWoken, HeldFrames, Kept
    <2>2. pacingQ # <<>> => 0 < Len(pacingQ)
      BY ElemsAreFrames DEF FramesOK, FrameTypes
    <2>3. QED
      BY <1>0, <1>5, <2>1, <2>2, VsyncPasses DEF VsyncWoken, frames, EnqueueForRendering
  <1>6. renderQ # <<>> <=> 0 < Len(renderQ)
    BY ElemsAreFrames DEF FramesOK, FrameTypes
  <1>7. CASE RenderThreadCheck \/ MainThreadRender
    <2>1. rframe = 0 /\ Kept(rframe) = {}
      BY <1>7 DEF RenderThreadCheck, MainThreadRender, HeldFrames, Kept
    <2>2. QED
      BY <1>0, <1>6, <1>7, <2>1, RendererTakes
         DEF RenderThreadCheck, MainThreadRender, TakeForRendering
  <1>8. CASE RenderFrame
    <2>1. rframe # 0
      BY <1>8 DEF RenderFrame, HeldFrames
    <2>2. QED
      BY <1>8, <2>1, RendererDraws DEF RenderFrame, SwappedOut, Kept
  <1>9. ASSUME NEW target \in Nat, DropOrDone(target), freed' = freed \cup Kept(rframe),
               UNCHANGED <<pacingQ, vframe, deferred, submitted>>
        PROVE  FramesOK'
    <2>1. Len(renderQ) \in Nat
      BY ElemsAreFrames DEF FramesOK, FrameTypes
    <2>2. Len(renderQ) > target => 0 < Len(renderQ)
      BY <2>1
    <2>3. QED
      BY <1>9, <2>2, RendererTakes, RendererLetsGo DEF DropOrDone
  <1>10. CASE TrimRenderQueue
    <2>1. rframe = 0 /\ Kept(rframe) = {}
      BY <1>10 DEF TrimRenderQueue, HeldFrames, Kept
    <2>2. RenderDropTarget \in Nat
      BY DEF RenderDropTarget
    <2>3. QED
      BY <1>9, <1>10, <2>1, <2>2 DEF TrimRenderQueue
  <1>11. CASE RenderDropped
    <2>1. Kept(rframe) = {rframe}
      BY <1>11 DEF RenderDropped, HeldFrames, Kept
    <2>2. rtarget \in Nat
      BY DEF TypeOK
    <2>3. QED
      BY <1>9, <1>11, <2>1, <2>2 DEF RenderDropped
  <1>12. CASE DestroyFree
    <2>1. vframe = 0 /\ rframe = 0
      BY <1>12 DEF DestroyFree, HeldFrames
    <2>2. QED
      BY <1>12, <2>1, AllFreed DEF DestroyFree, Kept, Elems
  <1>13. CASE \/ SubmitNotify \/ Vsync \/ VsyncTimeout \/ VsyncNotify \/ RenderThreadWait
              \/ BeginDestroy \/ DestroyWakeVsync \/ DestroyWakeRender \/ UNCHANGED vars
    BY <1>0, <1>13 DEF SubmitNotify, Vsync, VsyncTimeout, VsyncNotify, RenderThreadWait,
       BeginDestroy, DestroyWakeVsync, DestroyWakeRender, vars, frames
  <1>14. QED
    BY <1>1, <1>3, <1>4, <1>5, <1>7, <1>8, <1>10, <1>11, <1>12, <1>13
       DEF Next, DecoderThread, VsyncThread, Renderer, Destructor

\* The variables that are not frames keep their types.
LEMMA AgeType ==
    ASSUME NEW W \in Nat, NEW age \in 0 .. W, NEW low
    PROVE  AgeAfter(age, low, W) \in 0 .. W
  BY DEF AgeAfter

LEMMA TypeStep == ASSUME IInv, [Next]_vars PROVE TypeOK'
  <1> USE DEF IInv
  <1>1. FrameTypes'
    BY FramesStep DEF FramesOK
  <1>2. submitted' \in 0 .. MaxFrames
    <2>1. CASE Submit
      BY <2>1, PacerAssumption DEF Submit, TypeOK
    <2>2. CASE submitted' = submitted
      BY <2>2 DEF TypeOK
    <2>3. QED
      BY <2>1, <2>2 DEF Next, DecoderThread, VsyncThread, Renderer, Destructor, SubmitNotify, Vsync,
         HandleVsync, VsyncDropped, VsyncTimeout, VsyncWoken, VsyncNotify, RenderThreadCheck,
         RenderThreadWait, MainThreadRender, RenderFrame, TrimRenderQueue, RenderDropped,
         BeginDestroy, DestroyWakeVsync, DestroyWakeRender, DestroyFree, vars
  <1>3. pacingAge' \in 0 .. PacingWindow /\ vtarget' \in {0, 1, 3}
    <2>1. CASE HandleVsync
      <3>1. vtarget' \in {0, 1, 3}
        BY <2>1 DEF HandleVsync, PacingDropTarget
      <3>2. AgeAfter(pacingAge, Len(pacingQ) <= 1, PacingWindow) \in 0 .. PacingWindow
        BY AgeType, PacerAssumption DEF TypeOK
      <3>3. QED
        BY <2>1, <3>1, <3>2 DEF HandleVsync, TypeOK
    <2>2. CASE pacingAge' = pacingAge /\ vtarget' = vtarget
      BY <2>2 DEF TypeOK
    <2>3. QED
      BY <2>1, <2>2 DEF Next, DecoderThread, VsyncThread, Renderer, Destructor, Submit, SubmitNotify,
         Vsync, VsyncDropped, VsyncTimeout, VsyncWoken, VsyncNotify, RenderThreadCheck,
         RenderThreadWait, MainThreadRender, RenderFrame, TrimRenderQueue, RenderDropped,
         BeginDestroy, DestroyWakeVsync, DestroyWakeRender, DestroyFree, vars, drops
  <1>4. renderAge' \in 0 .. RenderWindow /\ rtarget' \in {0, 1, 2}
    <2>1. CASE TrimRenderQueue
      BY <2>1, AgeType, PacerAssumption DEF TrimRenderQueue, RenderDropTarget, TypeOK
    <2>2. CASE renderAge' = renderAge /\ rtarget' = rtarget
      BY <2>2 DEF TypeOK
    <2>3. QED
      BY <2>1, <2>2 DEF Next, DecoderThread, VsyncThread, Renderer, Destructor, Submit, SubmitNotify,
         Vsync, HandleVsync, VsyncDropped, VsyncTimeout, VsyncWoken, VsyncNotify, RenderThreadCheck,
         RenderThreadWait, MainThreadRender, RenderFrame, RenderDropped,
         BeginDestroy, DestroyWakeVsync, DestroyWakeRender, DestroyFree, vars, drops
  <1>5. mode' = mode /\ stopping' \in BOOLEAN /\ crashed' \in BOOLEAN
    BY DEF TypeOK, Next, DecoderThread, VsyncThread, Renderer, Destructor, Submit, SubmitNotify,
         Vsync, HandleVsync, VsyncDropped, VsyncTimeout, VsyncWoken, VsyncNotify, RenderThreadCheck,
         RenderThreadWait, MainThreadRender, RenderFrame, TrimRenderQueue, RenderDropped,
         BeginDestroy, DestroyWakeVsync, DestroyWakeRender, DestroyFree, vars, frames
  <1>6. /\ spc' \in {"idle", "notify"}
        /\ dpc' \in {"live", "wakeVsync", "joinVsync", "joinRender", "destroyed"}
    BY DEF TypeOK, Next, DecoderThread, VsyncThread, Renderer, Destructor, Submit, SubmitNotify,
         Vsync, HandleVsync, VsyncDropped, VsyncTimeout, VsyncWoken, VsyncNotify, RenderThreadCheck,
         RenderThreadWait, MainThreadRender, RenderFrame, TrimRenderQueue, RenderDropped,
         BeginDestroy, DestroyWakeVsync, DestroyWakeRender, DestroyFree, vars, pcs
  <1>7. vpc' \in {"tick", "handle", "dropping", "waiting", "woken", "notify", "exited"}
    BY DEF TypeOK, Next, DecoderThread, VsyncThread, Renderer, Destructor, Submit, SubmitNotify,
         Vsync, HandleVsync, VsyncDropped, VsyncTimeout, VsyncWoken, VsyncNotify, RenderThreadCheck,
         RenderThreadWait, MainThreadRender, RenderFrame, TrimRenderQueue, RenderDropped,
         BeginDestroy, DestroyWakeVsync, DestroyWakeRender, DestroyFree, vars, pcs,
         WokenVsync, DropWaitOrPass
  <1>8. rpc' \in {"idle", "preWait", "waiting", "rendering", "trim", "dropping", "exited"}
    BY DEF TypeOK, Next, DecoderThread, VsyncThread, Renderer, Destructor, Submit, SubmitNotify,
         Vsync, HandleVsync, VsyncDropped, VsyncTimeout, VsyncWoken, VsyncNotify, RenderThreadCheck,
         RenderThreadWait, MainThreadRender, RenderFrame, TrimRenderQueue, RenderDropped,
         BeginDestroy, DestroyWakeVsync, DestroyWakeRender, DestroyFree, vars, pcs,
         WokenRender, NotifyRenderer, TakeForRendering, DropOrDone
  <1>9. events' \in Nat /\ shown' \in Nat
    BY DEF TypeOK, Next, DecoderThread, VsyncThread, Renderer, Destructor, Submit, SubmitNotify,
         Vsync, HandleVsync, VsyncDropped, VsyncTimeout, VsyncWoken, VsyncNotify, RenderThreadCheck,
         RenderThreadWait, MainThreadRender, RenderFrame, TrimRenderQueue, RenderDropped,
         BeginDestroy, DestroyWakeVsync, DestroyWakeRender, DestroyFree, vars, frames, NotifyRenderer
  <1>10. QED
    BY <1>1, <1>2, <1>3, <1>4, <1>5, <1>6, <1>7, <1>8, <1>9 DEF TypeOK, FrameTypes

\* A held frame is a frame: queues hold no nullptr.
LEMMA HeadIsFrame ==
    ASSUME NEW q \in Seq(Frame), 0 < Len(q)
    PROVE  Head(q) # 0
  BY TailFacts DEF Frame

\* Who holds which frame, action by action.
LEMMA HeldStep == ASSUME IInv, [Next]_vars PROVE HeldFrames'
  <1> USE DEF IInv, HeldFrames
  <1>1. /\ pacingQ \in Seq(Frame) /\ renderQ \in Seq(Frame)
        /\ renderQ # <<>> => Head(renderQ) # 0
    BY HeadIsFrame, ElemsAreFrames DEF FramesOK, FrameTypes
  <1>2. ASSUME NEW target \in Nat
        PROVE  /\ Len(pacingQ) > target => Head(pacingQ) # 0
               /\ Len(renderQ) > target => Head(renderQ) # 0
    <2>1. Len(pacingQ) \in Nat /\ Len(renderQ) \in Nat
      BY <1>1
    <2>2. QED
      BY <1>1, <2>1, HeadIsFrame
  <1>3. CASE Submit
    BY <1>3 DEF Submit
  <1>4. CASE SubmitNotify
    BY <1>4 DEF SubmitNotify, frames, NotifyRenderer, WokenRender, WokenVsync
  <1>5. CASE Vsync \/ VsyncTimeout \/ VsyncNotify
    BY <1>5 DEF Vsync, VsyncTimeout, VsyncNotify, frames, NotifyRenderer, WokenRender
  <1>6. CASE HandleVsync
    <2>1. PacingDropTarget \in Nat
      BY DEF PacingDropTarget
    <2>2. QED
      BY <1>2, <1>6, <2>1 DEF HandleVsync, DropWaitOrPass
  <1>7. CASE VsyncDropped
    <2>1. vtarget \in Nat
      BY DEF TypeOK
    <2>2. QED
      BY <1>2, <1>7, <2>1 DEF VsyncDropped, DropWaitOrPass
  <1>8. CASE VsyncWoken
    BY <1>8 DEF VsyncWoken, frames
  <1>9. CASE RenderThreadCheck \/ RenderThreadWait \/ MainThreadRender
    BY <1>1, <1>9 DEF RenderThreadCheck, RenderThreadWait, MainThreadRender, TakeForRendering, frames
  <1>10. CASE RenderFrame
    BY <1>10 DEF RenderFrame
  <1>11. CASE TrimRenderQueue
    <2>1. RenderDropTarget \in Nat
      BY DEF RenderDropTarget
    <2>2. QED
      BY <1>2, <1>11, <2>1 DEF TrimRenderQueue, DropOrDone
  <1>12. CASE RenderDropped
    <2>1. rtarget \in Nat
      BY DEF TypeOK
    <2>2. QED
      BY <1>2, <1>12, <2>1 DEF RenderDropped, DropOrDone
  <1>13. CASE BeginDestroy \/ DestroyWakeVsync
    BY <1>13 DEF BeginDestroy, DestroyWakeVsync, frames, WokenVsync
  <1>14. CASE DestroyWakeRender
    BY <1>14 DEF DestroyWakeRender, frames, WokenRender, VsyncJoined
  <1>15. CASE DestroyFree
    BY <1>15 DEF DestroyFree
  <1>16. CASE UNCHANGED vars
    BY <1>16 DEF vars, frames, pcs
  <1>17. QED
    BY <1>3, <1>4, <1>5, <1>6, <1>7, <1>8, <1>9, <1>10, <1>11, <1>12, <1>13, <1>14, <1>15, <1>16
       DEF Next, DecoderThread, VsyncThread, Renderer, Destructor

\* The destructor's order, action by action.
LEMMA ShutdownStep == ASSUME IInv, [Next]_vars PROVE ShutdownOrder'
  <1> USE DEF IInv, ShutdownOrder, HeldFrames
  <1>1. CASE Submit \/ SubmitNotify
    BY <1>1 DEF Submit, SubmitNotify, frames, NotifyRenderer, WokenRender
  <1>2. CASE Vsync \/ VsyncTimeout \/ VsyncNotify
    BY <1>2 DEF Vsync, VsyncTimeout, VsyncNotify, frames, NotifyRenderer, WokenRender
  <1>3. CASE HandleVsync \/ VsyncDropped \/ VsyncWoken
    BY <1>3 DEF HandleVsync, VsyncDropped, VsyncWoken, frames
  <1>4. CASE RenderThreadCheck \/ RenderThreadWait \/ MainThreadRender
    BY <1>4 DEF RenderThreadCheck, RenderThreadWait, MainThreadRender, TakeForRendering, frames
  <1>5. CASE RenderFrame \/ TrimRenderQueue \/ RenderDropped
    BY <1>5 DEF RenderFrame, TrimRenderQueue, RenderDropped, DropOrDone
  <1>6. CASE BeginDestroy \/ DestroyWakeVsync \/ DestroyWakeRender
    BY <1>6 DEF BeginDestroy, DestroyWakeVsync, DestroyWakeRender, frames, WokenRender
  <1>7. CASE DestroyFree
    BY <1>7 DEF DestroyFree
  <1>8. CASE UNCHANGED vars
    BY <1>8 DEF vars, frames, pcs
  <1>9. QED
    BY <1>1, <1>2, <1>3, <1>4, <1>5, <1>6, <1>7, <1>8
       DEF Next, DecoderThread, VsyncThread, Renderer, Destructor

\* The render queue and its wake-ups, action by action.
LEMMA WakeStep == ASSUME IInv, [Next]_vars PROVE WakeUps'
  <1> USE DEF IInv, HeldFrames, WakeUps, RenderWakeNotLost, EventForEveryFrame, Pending
  <1>1. /\ pacingQ \in Seq(Frame) /\ renderQ \in Seq(Frame)
        /\ Len(renderQ) \in Nat /\ (renderQ = <<>> <=> Len(renderQ) = 0)
        /\ Len(renderQ) <= MAX_QUEUED_FRAMES /\ events \in Nat
    BY ElemsAreFrames DEF FramesOK, FrameTypes, QueueBounds, TypeOK
  <1>2. ASSUME renderQ # <<>>
        PROVE  Len(Tail(renderQ)) = Len(renderQ) - 1
    BY <1>1, <1>2, TailFacts
  <1>3. ASSUME NEW f \in Frame
        PROVE  /\ Len(EnqueueDropping(renderQ, f)) \in Nat
               /\ Len(EnqueueDropping(renderQ, f)) <= Len(renderQ) + 1
    <2> DEFINE r == EnqueueDropping(renderQ, f)
               n == Len(renderQ)
    <2>1. r \in Seq(Frame) /\ Len(r) = n - Excess(renderQ) + 1
      BY <1>1, <1>3, EnqueueFacts
    <2>2. Excess(renderQ) \in {0, 1} /\ n \in Nat /\ Len(r) \in Nat
      BY <1>1, <2>1, ElemsAreFrames DEF Excess
    <2> HIDE DEF r, n
    <2>3. Len(r) <= n + 1
      BY <2>1, <2>2
    <2>4. QED
      BY <2>2, <2>3 DEF r, n
  <1>4. CASE Submit
    <2>1. submitted' \in Frame
      BY <1>4 DEF Submit, FramesOK, FrameTypes, Frame
    <2>2. CASE mode.vsync
      BY <1>4, <2>2 DEF Submit
    <2>3. CASE ~mode.vsync
      <3>1. /\ renderQ' = EnqueueDropping(renderQ, submitted')
            /\ spc = "idle" /\ spc' = "notify" /\ rpc # "preWait"
            /\ UNCHANGED <<mode, vpc, rpc, events>>
        BY <1>4, <2>3 DEF Submit, EnqueueForRendering, LockFree
      <3>2. /\ Len(renderQ') \in Nat /\ Len(renderQ') <= Len(renderQ) + 1
        BY <1>3, <2>1, <3>1
      <3>3. QED
        BY <1>1, <2>3, <3>1, <3>2 DEF TypeOK
    <2>4. QED
      BY <2>2, <2>3
  <1>5. CASE SubmitNotify
    BY <1>1, <1>5 DEF SubmitNotify, frames, NotifyRenderer, WokenRender, WokenVsync
  <1>6. CASE Vsync \/ VsyncTimeout
    BY <1>6 DEF Vsync, VsyncTimeout, frames
  <1>7. CASE VsyncNotify
    BY <1>1, <1>7 DEF VsyncNotify, frames, NotifyRenderer, WokenRender
  <1>8. ASSUME 0 < Len(pacingQ)
        PROVE  Head(pacingQ) \in Frame
    BY <1>1, <1>8, TailFacts
  <1>22. ASSUME NEW target, DropWaitOrPass(target), mode.vsync, LockFree, vpc # "notify",
                UNCHANGED <<mode, spc, rpc, events>>
         PROVE  WakeUps'
    <2> HIDE DEF IInv, HeldFrames
    <2>1. CASE renderQ' = renderQ
      BY <1>1, <1>22, <2>1 DEF LockFree, IInv
    <2>2. CASE renderQ' # renderQ
      <3>1. /\ 0 < Len(pacingQ) /\ vpc' = "notify"
            /\ renderQ' = EnqueueDropping(renderQ, Head(pacingQ))
        BY <1>22, <2>2 DEF DropWaitOrPass, MayPass
      <3>2. /\ Len(renderQ') \in Nat /\ Len(renderQ') <= Len(renderQ) + 1
        BY <1>3, <1>8, <3>1
      <3>3. QED
        BY <1>1, <1>22, <3>1, <3>2 DEF LockFree, IInv
    <2>3. QED
      BY <2>1, <2>2
  <1>9. CASE HandleVsync
    BY <1>9, <1>22 DEF HandleVsync
  <1>10. CASE VsyncDropped
    BY <1>10, <1>22 DEF VsyncDropped
  <1>11. CASE VsyncWoken
    <2>1. pacingQ # <<>> => Head(pacingQ) \in Frame
      BY <1>1, TailFacts, ElemsAreFrames
    <2>2. QED
      BY <1>1, <1>3, <1>11, <2>1 DEF VsyncWoken, EnqueueForRendering, LockFree, frames
  <1>12. CASE RenderThreadCheck \/ RenderThreadWait
    BY <1>12 DEF RenderThreadCheck, RenderThreadWait, TakeForRendering, frames
  <1>13. CASE MainThreadRender
    BY <1>1, <1>2, <1>13 DEF MainThreadRender, TakeForRendering
  <1>14. CASE RenderFrame
    BY <1>14 DEF RenderFrame
  <1>15. ASSUME NEW target \in Nat, DropOrDone(target), UNCHANGED <<mode, events, vpc, spc>>
         PROVE  WakeUps'
    <2>1. Len(renderQ) > target => renderQ # <<>>
      BY <1>1
    <2>2. QED
      BY <1>1, <1>2, <1>15, <2>1 DEF DropOrDone
  <1>16. CASE TrimRenderQueue
    <2>1. RenderDropTarget \in Nat
      BY DEF RenderDropTarget
    <2>2. QED
      BY <1>15, <1>16, <2>1 DEF TrimRenderQueue
  <1>17. CASE RenderDropped
    <2>1. rtarget \in Nat
      BY DEF TypeOK
    <2>2. QED
      BY <1>15, <1>17, <2>1 DEF RenderDropped
  <1>18. CASE BeginDestroy \/ DestroyWakeVsync \/ DestroyWakeRender
    BY <1>18 DEF BeginDestroy, DestroyWakeVsync, DestroyWakeRender, frames, WokenRender, WokenVsync
  <1>19. CASE DestroyFree
    <2>1. renderQ' = <<>> /\ Len(renderQ') = 0 /\ UNCHANGED <<mode, events, vpc, spc, rpc>>
      BY <1>19, EmptySeq DEF DestroyFree
    <2>2. QED
      BY <1>1, <2>1
  <1>20. CASE UNCHANGED vars
    BY <1>20 DEF vars, frames, pcs
  <1>21. QED
    BY <1>4, <1>5, <1>6, <1>7, <1>9, <1>10, <1>11, <1>12, <1>13, <1>14, <1>16, <1>17, <1>18,
       <1>19, <1>20 DEF Next, DecoderThread, VsyncThread, Renderer, Destructor

\* The inductive invariant holds in every reachable state.
THEOREM Invariance == Spec => []IInv
  <1>1. Init => IInv
    BY InitIInv
  <1>2. IInv /\ [Next]_vars => IInv'
    BY FramesStep, TypeStep, HeldStep, ShutdownStep, WakeStep DEF IInv
  <1>3. QED
    BY <1>1, <1>2, PTL DEF Spec

----------------------------------------------------------------------------
\* The theorems.

\* Every variable of the pacer keeps its type.
THEOREM TypeCorrect == Spec => []TypeOK
  <1>1. IInv => TypeOK
    BY DEF IInv
  <1>2. QED
    BY <1>1, Invariance, PTL

\* No interleaving makes either queue longer than MAX_QUEUED_FRAMES, so the
\* assertion of dropFrameForEnqueue() never fails.
THEOREM QueuesBounded == Spec => []QueueBounds
  <1>1. IInv => QueueBounds
    BY DEF IInv, FramesOK
  <1>2. QED
    BY <1>1, Invariance, PTL

\* Frames keep the order of their submission along the whole pipeline.
THEOREM FramesInOrder == Spec => []PipelineOrder
  <1>1. IInv => PipelineOrder
    BY DEF IInv, FramesOK
  <1>2. QED
    BY <1>1, Invariance, PTL

\* The frame drawn last is not freed while the pacer lives.
THEOREM ShownIsKept == Spec => []ShownFrameKept
  <1>1. IInv => ShownFrameKept
    <2>1. SUFFICES ASSUME IInv, shown # 0, dpc # "destroyed" PROVE shown \notin freed
      BY DEF ShownFrameKept
    <2>2. shown = deferred
      BY <2>1 DEF IInv, HeldFrames
    <2>3. deferred \in InFlight
      BY <2>1, <2>2 DEF InFlight
    <2>4. InFlight \cap freed = {}
      BY <2>1 DEF IInv, FramesOK, NoLeakNoDoubleFree
    <2>5. QED
      BY <2>2, <2>3, <2>4
  <1>2. QED
    BY <1>1, Invariance, PTL

\* The pacer never holds more than 5 frames without a V-sync source and never
\* more than 9 with one.
THEOREM OutstandingIsBounded == Spec => []OutstandingBound
  <1>1. ASSUME IInv PROVE OutstandingBound
    <2> DEFINE p == Len(pacingQ)
               r == Len(renderQ)
               v == IF vframe = 0 THEN 0 ELSE 1
               h == IF rframe = 0 THEN 0 ELSE 1
               d == IF deferred = 0 THEN 0 ELSE 1
    <2>1. p \in Nat /\ r \in Nat /\ p <= 3 /\ r <= 3
      BY <1>1 DEF IInv, FramesOK, FrameTypes, QueueBounds, MAX_QUEUED_FRAMES
    <2>2. v \in {0, 1} /\ h \in {0, 1} /\ d \in {0, 1}
      OBVIOUS
    <2>3. ~mode.vsync => p = 0 /\ v = 0
      <3>1. ~mode.vsync => pacingQ = <<>> /\ vframe = 0
        BY <1>1 DEF IInv, HeldFrames
      <3>2. QED
        BY <3>1, EmptySeq
    <2>4. Outstanding = p + r + v + h + d
      BY DEF Outstanding
    <2> HIDE DEF p, r, v, h, d
    <2>5. CASE mode.vsync
      BY <2>1, <2>2, <2>4, <2>5
         DEF OutstandingBound, Surfaces, MAX_QUEUED_FRAMES, PACER_MAX_OUTSTANDING_FRAMES
    <2>6. CASE ~mode.vsync
      BY <2>1, <2>2, <2>3, <2>4, <2>6
         DEF OutstandingBound, Surfaces, MAX_QUEUED_FRAMES, PACER_MAX_OUTSTANDING_FRAMES
    <2>7. QED
      BY <2>5, <2>6
  <1>2. QED
    BY <1>1, Invariance, PTL

\* Every submitted frame is in exactly one place: a queue, a thread that is
\* rendering or dropping it, the deferred slot, or freed.
THEOREM FramesFreedOnce == Spec => []NoLeakNoDoubleFree
  <1>1. IInv => NoLeakNoDoubleFree
    BY DEF IInv, FramesOK
  <1>2. QED
    BY <1>1, Invariance, PTL

\* cleanupRenderContext() is the last thing a renderer does, the V-sync
\* thread is gone before the renderer is stopped, and ~Pacer() frees all.
THEOREM CleanupIsLast == Spec => []NothingAfterCleanup
  <1>1. ASSUME IInv PROVE NothingAfterCleanup
    <2>1. dpc = "destroyed" => freed = 1 .. submitted
      <3>1. SUFFICES ASSUME dpc = "destroyed" PROVE InFlight = {}
        BY <1>1 DEF IInv, FramesOK, NoLeakNoDoubleFree
      <3>2. pacingQ = <<>> /\ renderQ = <<>> /\ vframe = 0 /\ rframe = 0 /\ deferred = 0
        BY <1>1, <3>1 DEF IInv, ShutdownOrder, HeldFrames
      <3>3. QED
        BY <3>2, EmptySeq DEF InFlight, Elems
    <2>2. QED
      BY <1>1, <2>1 DEF IInv, ShutdownOrder, HeldFrames, NothingAfterCleanup
  <1>2. QED
    BY <1>1, Invariance, PTL

\* Without a render thread every queued frame has its FRAME_READY event, in
\* the SDL queue or about to be pushed.
THEOREM EveryFrameAnnounced == Spec => []EventForEveryFrame
  <1>1. IInv => EventForEveryFrame
    BY DEF IInv, WakeUps
  <1>2. QED
    BY <1>1, Invariance, PTL

\* A render thread never waits with frames queued and no wake-up to come.
THEOREM RenderThreadIsWoken == Spec => []RenderWakeNotLost
  <1>1. IInv => RenderWakeNotLost
    BY DEF IInv, WakeUps
  <1>2. QED
    BY <1>1, Invariance, PTL

----------------------------------------------------------------------------
\* The pacer is a FramePipe.

\* A queue holds no more frames than it is long.
LEMMA ElemsCount ==
    ASSUME NEW q \in Seq(Frame)
    PROVE  /\ IsFiniteSet(Elems(q))
           /\ Cardinality(Elems(q)) \in Nat /\ Cardinality(Elems(q)) <= Len(q)
  <1>1. Len(q) \in Nat
    OBVIOUS
  <1>2. IsFiniteSet(1 .. Len(q)) /\ Cardinality(1 .. Len(q)) = Len(q)
    BY <1>1, FS_Interval, SMTT(30)
  <1>3. q \in Surjection(1 .. Len(q), Elems(q))
    BY DEF Surjection, Elems
  <1> QED
    BY <1>2, <1>3, FS_Surjection, FS_CardinalityType

\* A place for one frame adds at most that frame.
LEMMA KeptCount ==
    ASSUME NEW S, IsFiniteSet(S), NEW f
    PROVE  /\ IsFiniteSet(S \cup Kept(f)) /\ Cardinality(S \cup Kept(f)) \in Nat
           /\ Cardinality(S \cup Kept(f)) <= Cardinality(S) + (IF f = 0 THEN 0 ELSE 1)
  <1>1. Cardinality(S) \in Nat
    BY FS_CardinalityType
  <1>2. CASE f = 0
    <2>1. S \cup Kept(f) = S
      BY <1>2 DEF Kept
    <2> QED
      BY <1>1, <1>2, <2>1
  <1>3. CASE f # 0
    <2>1. S \cup Kept(f) = S \cup {f}
      BY <1>3 DEF Kept
    <2>2. /\ IsFiniteSet(S \cup {f})
          /\ \/ Cardinality(S \cup {f}) = Cardinality(S)
             \/ Cardinality(S \cup {f}) = Cardinality(S) + 1
      BY FS_AddElement
    <2> DEFINE n == Cardinality(S)
               m == Cardinality(S \cup {f})
    <2>3. n \in Nat /\ (m = n \/ m = n + 1)
      BY <1>1, <2>2
    <2> HIDE DEF n, m
    <2>4. m \in Nat /\ m <= n + 1
      BY <2>3
    <2> QED
      BY <1>3, <2>1, <2>2, <2>4 DEF n, m
  <1> QED
    BY <1>2, <1>3

\* The frames not freed are those in flight, and they fit.
NotFreedFit == NotFreed = InFlight /\ Cardinality(NotFreed) <= Surfaces

LEMMA HeldFit == ASSUME IInv, OutstandingBound PROVE NotFreedFit
  <1> DEFINE p == Elems(pacingQ)
             r == Elems(renderQ)
             a == p \cup r
             b == a \cup Kept(vframe)
             c == b \cup Kept(rframe)
             d == c \cup Kept(deferred)
  <1>1. NotFreed = InFlight
    BY DEF IInv, FramesOK, NoLeakNoDoubleFree, NotFreed
  <1>2. InFlight = d
    BY DEF InFlight, Kept
  <1>3. /\ IsFiniteSet(p) /\ Cardinality(p) \in Nat /\ Cardinality(p) <= Len(pacingQ)
        /\ IsFiniteSet(r) /\ Cardinality(r) \in Nat /\ Cardinality(r) <= Len(renderQ)
        /\ Len(pacingQ) \in Nat /\ Len(renderQ) \in Nat
    BY ElemsCount DEF IInv, FramesOK, FrameTypes
  <1> HIDE DEF p, r
  <1>4. /\ IsFiniteSet(a) /\ Cardinality(a) \in Nat
        /\ Cardinality(a) <= Cardinality(p) + Cardinality(r)
    <2>1. Cardinality(p \cap r) \in Nat
      BY <1>3, FS_Intersection, FS_CardinalityType
    <2>2. /\ IsFiniteSet(p \cup r)
          /\ Cardinality(p \cup r) = Cardinality(p) + Cardinality(r) - Cardinality(p \cap r)
      BY <1>3, FS_Union
    <2> QED
      BY <1>3, <2>1, <2>2, FS_CardinalityType
  <1> HIDE DEF a
  <1>5. /\ IsFiniteSet(b) /\ Cardinality(b) \in Nat
        /\ Cardinality(b) <= Cardinality(a) + (IF vframe = 0 THEN 0 ELSE 1)
    BY <1>4, KeptCount
  <1> HIDE DEF b
  <1>6. /\ IsFiniteSet(c) /\ Cardinality(c) \in Nat
        /\ Cardinality(c) <= Cardinality(b) + (IF rframe = 0 THEN 0 ELSE 1)
    BY <1>5, KeptCount
  <1> HIDE DEF c
  <1>7. /\ Cardinality(d) \in Nat
        /\ Cardinality(d) <= Cardinality(c) + (IF deferred = 0 THEN 0 ELSE 1)
    BY <1>6, KeptCount
  <1> HIDE DEF d
  <1>8. Cardinality(d) <= Outstanding
    BY <1>3, <1>4, <1>5, <1>6, <1>7, SMTT(30) DEF Outstanding
  <1>9. Outstanding \in Int /\ Surfaces \in Int
    BY <1>3 DEF Outstanding, Surfaces, MAX_QUEUED_FRAMES, PACER_MAX_OUTSTANDING_FRAMES
  <1> QED
    BY <1>1, <1>2, <1>7, <1>8, <1>9 DEF NotFreedFit, OutstandingBound

\* FramePipe counts with the Cardinality it took from FiniteSets itself.
LEMMA SameCount == \A S : Pipe!Cardinality(S) = Cardinality(S)
  BY DEF Pipe!Cardinality, Cardinality

\* What the steps are mapped by, in the state before and the state after.
PipeFacts == IInv /\ ShownFrameKept /\ NotFreedFit

PipeVars == <<Surfaces, submitted, NotFreed, shown, dpc # "destroyed">>

LEMMA StepsArePipeSteps ==
    ASSUME PipeFacts, PipeFacts', [Next]_vars
    PROVE  [Pipe!Next]_PipeVars
  <1>1. Surfaces' = Surfaces
    <2>1. mode' = mode
      BY DEF Next, DecoderThread, VsyncThread, Renderer, Destructor, Submit, SubmitNotify, Vsync,
         HandleVsync, VsyncDropped, VsyncTimeout, VsyncWoken, VsyncNotify, RenderThreadCheck,
         RenderThreadWait, MainThreadRender, RenderFrame, TrimRenderQueue, RenderDropped,
         BeginDestroy, DestroyWakeVsync, DestroyWakeRender, DestroyFree, vars
    <2> QED
      BY <2>1 DEF Surfaces
  <1>2. /\ submitted \in Nat /\ freed \subseteq 1 .. submitted
        /\ NotFreed = InFlight /\ Cardinality(NotFreed') <= Surfaces'
    BY DEF PipeFacts, NotFreedFit, IInv, FramesOK, FrameTypes, NoLeakNoDoubleFree
  <1>3. dpc # "destroyed" => shown = deferred /\ (shown # 0 => shown \in NotFreed)
    BY <1>2 DEF PipeFacts, IInv, HeldFrames, InFlight
  <1>4. shown' # 0 /\ dpc' # "destroyed" => shown' \notin freed'
    BY DEF PipeFacts, ShownFrameKept
  <1>5. ASSUME submitted' = submitted, shown' = shown, freed \subseteq freed',
               dpc # "destroyed", dpc' # "destroyed"
        PROVE  Pipe!Drop
    <2>1. NotFreed' \subseteq NotFreed
      BY <1>5 DEF NotFreed
    <2>2. shown # 0 => shown \in NotFreed'
      BY <1>3, <1>4, <1>5 DEF NotFreed
    <2> QED
      BY <1>1, <1>5, <2>1, <2>2 DEF Pipe!Drop, Pipe!ShownIsHeld
  <1>6. CASE Submit
    <2>1. /\ submitted' = submitted + 1 /\ shown' = shown /\ dpc = "live" /\ dpc' = dpc
          /\ freed' = freed \cup Overflow(pacingQ) \/ freed' = freed \cup Overflow(renderQ)
      BY <1>6 DEF Submit, EnqueueForRendering
    <2>2. submitted' \notin freed' /\ freed \subseteq freed'
      <3>1. /\ Elems(pacingQ) \cup Elems(renderQ) \subseteq 0 .. submitted
            /\ pacingQ \in Seq(Frame) /\ renderQ \in Seq(Frame)
        BY DEF PipeFacts, IInv, FramesOK, FrameTypes, PipelineOrder
      <3>2. Overflow(pacingQ) \subseteq Elems(pacingQ) /\ Overflow(renderQ) \subseteq Elems(renderQ)
        BY <3>1, TailFacts DEF Overflow, Elems, MAX_QUEUED_FRAMES
      <3> QED
        BY <1>2, <2>1, <3>1, <3>2
    <2>3. submitted' \in NotFreed' /\ NotFreed' \subseteq NotFreed \cup {submitted'}
      BY <1>2, <2>1, <2>2 DEF NotFreed
    <2>4. shown # 0 => shown \in NotFreed'
      BY <1>2, <1>3, <1>4, <2>1 DEF NotFreed
    <2>5. Cardinality(NotFreed') <= Surfaces
      BY <1>1, <1>2
    <2>6. Pipe!ShownIsHeld
      BY <2>4 DEF Pipe!ShownIsHeld
    <2>7. Pipe!Feed
      BY <1>1, <2>1, <2>3, <2>5, <2>6, SameCount DEF Pipe!Feed
    <2> QED
      BY <2>7 DEF Pipe!Next
  <1>7. CASE RenderFrame
    <2>1. /\ rpc = "rendering" /\ shown' = rframe /\ freed' = freed \cup ({deferred} \ {0})
          /\ submitted' = submitted /\ dpc' = dpc
      BY <1>7 DEF RenderFrame, SwappedOut
    <2>2. dpc # "destroyed" /\ rframe # 0
      BY <2>1 DEF PipeFacts, IInv, HeldFrames
    <2>3. rframe \in NotFreed
      BY <1>2, <2>2 DEF InFlight
    <2>4. shown < rframe
      BY <1>3, <2>2 DEF PipeFacts, IInv, FramesOK, PipelineOrder
    <2>5. NotFreed' = NotFreed \ {shown}
      BY <1>3, <2>1, <2>2 DEF NotFreed
    <2>6. Pipe!Show
      BY <1>1, <2>1, <2>2, <2>3, <2>4, <2>5 DEF Pipe!Show
    <2> QED
      BY <2>6 DEF Pipe!Next
  <1>8. CASE DestroyFree
    <2>1. dpc = "joinRender" /\ dpc' = "destroyed" /\ submitted' = submitted /\ shown' = shown
      BY <1>8 DEF DestroyFree
    <2>2. NotFreed' = {}
      <3>1. /\ pacingQ' = <<>> /\ renderQ' = <<>> /\ vframe' = 0 /\ rframe' = 0
            /\ deferred' = 0
        BY <1>8, <2>1 DEF DestroyFree, PipeFacts, IInv, HeldFrames
      <3>2. NotFreed' = InFlight'
        BY DEF PipeFacts, NotFreedFit
      <3> QED
        BY <3>1, <3>2, EmptySeq DEF InFlight, Elems
    <2>3. Pipe!Close
      BY <1>1, <2>1, <2>2 DEF Pipe!Close
    <2> QED
      BY <2>3 DEF Pipe!Next
  <1>9. CASE VsyncThread \/ SubmitNotify \/ RenderThreadCheck \/ RenderThreadWait
             \/ MainThreadRender \/ TrimRenderQueue \/ RenderDropped
             \/ BeginDestroy \/ DestroyWakeVsync \/ DestroyWakeRender
    <2>1. dpc # "destroyed"
      BY <1>9 DEF PipeFacts, IInv, HeldFrames, VsyncThread, Vsync, HandleVsync, VsyncDropped,
         VsyncTimeout, VsyncWoken, VsyncNotify, SubmitNotify, RenderThreadCheck, RenderThreadWait,
         MainThreadRender, TrimRenderQueue, RenderDropped, BeginDestroy, DestroyWakeVsync,
         DestroyWakeRender
    <2>2. CASE VsyncThread
      <3>1. submitted' = submitted /\ shown' = shown /\ freed \subseteq freed' /\ dpc' = dpc
        BY <2>2 DEF VsyncThread, Vsync, HandleVsync, VsyncDropped, VsyncTimeout, VsyncWoken,
           VsyncNotify, EnqueueForRendering, frames
      <3> QED
        BY <1>5, <2>1, <3>1 DEF Pipe!Next
    <2>3. CASE ~VsyncThread
      <3>1. /\ submitted' = submitted /\ shown' = shown /\ freed \subseteq freed'
            /\ dpc' # "destroyed"
        BY <1>9, <2>1, <2>3 DEF SubmitNotify, RenderThreadCheck, RenderThreadWait,
           MainThreadRender, TrimRenderQueue, RenderDropped, BeginDestroy, DestroyWakeVsync,
           DestroyWakeRender, frames
      <3> QED
        BY <1>5, <2>1, <3>1 DEF Pipe!Next
    <2> QED
      BY <2>2, <2>3
  <1>10. CASE UNCHANGED vars
    BY <1>1, <1>10 DEF vars, frames, pcs, NotFreed, PipeVars
  <1> QED
    BY <1>6, <1>7, <1>8, <1>9, <1>10 DEF Next, DecoderThread, Renderer, Destructor

\* The pacer implements FramePipe: whatever the interleaving of its threads,
\* decoder and renderer see one bounded pipe that keeps the order of frames.
THEOREM PacerIsFramePipe == Spec => IsFramePipe
  <1>1. Init => Pipe!Init
    <2> SUFFICES ASSUME Init
                 PROVE  Pipe!Init
      OBVIOUS
    <2>1. Surfaces \in Nat
      BY DEF Surfaces, MAX_QUEUED_FRAMES, PACER_MAX_OUTSTANDING_FRAMES
    <2>2. NotFreed = {}
      BY DEF Init, NotFreed
    <2> QED
      BY <2>1, <2>2 DEF Init, Pipe!Init
  <1>2. IInv /\ OutstandingBound => NotFreedFit
    BY HeldFit
  <1>3. Spec => []PipeFacts
    BY <1>2, Invariance, OutstandingIsBounded, ShownIsKept, PTL DEF PipeFacts
  <1>4. PipeFacts /\ PipeFacts' /\ [Next]_vars => [Pipe!Next]_PipeVars
    BY StepsArePipeSteps
  <1>5. QED
    BY <1>1, <1>3, <1>4, PTL DEF Spec, IsFramePipe, Pipe!Spec, PipeVars
=============================================================================
