----------------------- MODULE ClipboardHelperProofs -----------------------
(***************************************************************************)
(* Proofs about the helper of the clipboard, for any limits and any        *)
(* configurations: which clipboard gets a frame, and in what order.        *)
(***************************************************************************)
EXTENDS ClipboardHelper, FiniteSetTheorems, TLAPS

\* Parts of TypeOK.
QueueOK ==
    /\ inbound \in Seq(1..MaxFrames) /\ Len(inbound) <= MaxQueued
    /\ flushing \in Seq(1..MaxFrames) /\ Len(flushing) <= MaxQueued

PipesOK == toHelper \in Seq(ToHelper) /\ toClient \in Seq(Nat)

BooleansOK == ready \in BOOLEAN /\ delayed \in BOOLEAN /\ alive \in BOOLEAN

OthersOK ==
    /\ mode \in {"on", "disabled", "stopping", "stopped", "crashed"}
    /\ host \in Contexts \cup {NoContext} /\ sent \in Contexts \cup {NoContext}
    /\ proc \in {"none", "running", "exited"}
    /\ configSeq \in Nat /\ attempts \in 0..MaxRestarts
    /\ received \in 0..MaxFrames /\ handled \in 0..MaxFrames
    /\ engine \in Contexts \cup {NoContext}

\* A helper lives only while the client knows no better, and frames are taken out
\* of the queue only for one that is ready.
ProcInv ==
    /\ alive \/ toHelper # <<>> \/ toClient # <<>> \/ ready => proc # "none"
    /\ alive => proc = "running"
    /\ toHelper # <<>> \/ engine # NoContext => alive
    /\ flushing # <<>> => ready /\ mode \in {"on", "disabled"}

\* Configurations are numbered as they are sent: what the pipes hold is no newer
\* than the last one, which has the context last sent and comes last.
ConfigInv ==
    /\ \A i \in DOMAIN toHelper : toHelper[i].type = "configure" =>
        /\ toHelper[i].seq \in 1..configSeq
        /\ toHelper[i].seq = configSeq =>
            /\ toHelper[i].context = sent
            /\ \A j \in DOMAIN toHelper : j > i => toHelper[j].type # "configure"
    /\ \A i \in DOMAIN toClient : toClient[i] <= configSeq

\* A frame is under way only to a helper with the clipboard it is for, and no
\* configuration is ahead of it.
FrameInv ==
    \A i \in DOMAIN toHelper : toHelper[i].type = "frame" =>
        /\ engine # NoContext /\ toHelper[i].context = engine
        /\ \A j \in DOMAIN toHelper : j < i => toHelper[j].type # "configure"

\* The helper has the clipboard of the last configuration, and no other is coming.
Configured ==
    /\ engine # NoContext /\ engine = sent
    /\ \A i \in DOMAIN toHelper : toHelper[i].type # "configure"

ReadyInv ==
    alive /\ (ready \/ \E i \in DOMAIN toClient : toClient[i] = configSeq /\ configSeq > 0)
        => Configured

\* No frame is newer than the last one received.
ReceivedInv ==
    /\ handled <= received
    /\ \A i \in DOMAIN inbound : inbound[i] <= received
    /\ \A i \in DOMAIN flushing : flushing[i] <= received
    /\ \A i \in DOMAIN toHelper : toHelper[i].type = "frame" => toHelper[i].frame <= received

IInv == TypeOK /\ ProcInv /\ ConfigInv /\ FrameInv /\ ReadyInv /\ FramesInOrder /\ ReceivedInv

----------------------------------------------------------------------------
\* Sequences.

\* The first element and the others.
LEMMA Shifted ==
    ASSUME NEW S, NEW q \in Seq(S), q # <<>>
    PROVE  /\ 1 \in DOMAIN q /\ Head(q) = q[1] /\ Head(q) \in S
           /\ Tail(q) \in Seq(S) /\ Len(Tail(q)) = Len(q) - 1
           /\ \A i \in DOMAIN Tail(q) :
                i \in Nat /\ i + 1 \in DOMAIN q /\ Tail(q)[i] = q[i + 1] /\ 1 < i + 1
  OBVIOUS

\* What is appended comes last.
LEMMA Extended ==
    ASSUME NEW S, NEW q \in Seq(S), NEW x \in S
    PROVE  /\ Append(q, x) \in Seq(S) /\ Len(Append(q, x)) = Len(q) + 1
           /\ \A i \in DOMAIN Append(q, x) :
                \/ i \in DOMAIN q /\ Append(q, x)[i] = q[i] /\ i < Len(q) + 1
                \/ i \notin DOMAIN q /\ i = Len(q) + 1 /\ Append(q, x)[i] = x
           /\ \A i \in DOMAIN q : i < Len(q) + 1
  OBVIOUS

\* Nothing.
LEMMA Empty == \A S : <<>> \in Seq(S) /\ DOMAIN <<>> = {} /\ Len(<<>>) = 0
  OBVIOUS

\* One thing.
LEMMA Single == ASSUME NEW S, NEW x \in S PROVE <<x>> \in Seq(S)
  OBVIOUS

\* What the pipe to the helper may hold.
LEMMA Messages ==
    /\ Stop \in ToHelper /\ Stop.type = "stop"
    /\ \A n \in Nat, c \in Contexts :
        /\ Configure(n, c) \in ToHelper /\ Configure(n, c).type = "configure"
        /\ Configure(n, c).seq = n /\ Configure(n, c).context = c
    /\ \A f \in 1..MaxFrames, c \in Contexts \cup {NoContext} :
        /\ Frame(f, c) \in ToHelper /\ Frame(f, c).type = "frame"
        /\ Frame(f, c).frame = f /\ Frame(f, c).context = c
    /\ \A m \in ToHelper :
        /\ m.type \in {"stop", "configure", "frame"}
        /\ m.type = "configure" => m.seq \in Nat /\ m.context \in Contexts
        /\ m.type = "frame" => m.frame \in 1..MaxFrames
  BY DEF ToHelper, Stop, Configure, Frame

\* A helper that is gone leaves nothing in the pipes.
LEMMA Gone ==
    NoHelper => /\ proc' = "none" /\ ~alive' /\ ~ready'
                /\ alive' \in BOOLEAN /\ ready' \in BOOLEAN
                /\ engine' = NoContext /\ sent' = NoContext
                /\ toHelper' = <<>> /\ toClient' = <<>> /\ handled' = handled
  BY DEF NoHelper

\* And so does a restart, of which there are only so many.
LEMMA Restarted ==
    ASSUME TypeOK, RestartHelper
    PROVE  /\ NoHelper
           /\ mode' \in {mode, "disabled"} /\ (mode # "on" => mode' = mode)
           /\ attempts' \in 0..MaxRestarts /\ delayed' \in BOOLEAN
  <1>1. mode' = IF mode = "on" /\ attempts >= MaxRestarts THEN "disabled" ELSE mode
    BY DEF RestartHelper, ScheduleRestart, GivesUp
  <1>2. attempts' \in 0..MaxRestarts
    BY <1>1, HelperAssumption DEF TypeOK, RestartHelper, ScheduleRestart
  <1>3. NoHelper /\ delayed' \in BOOLEAN
    BY DEF RestartHelper, ScheduleRestart
  <1> QED
    BY <1>1, <1>2, <1>3

----------------------------------------------------------------------------
\* The steps: what each does, with the branches apart and the actions that lose the
\* helper together.

HelperLost ==
    /\ NoHelper /\ flushing' = <<>> /\ mode' \in {mode, "disabled", "stopped"}
    /\ attempts' \in 0..MaxRestarts /\ delayed' \in BOOLEAN
    /\ configSeq' \in {configSeq, configSeq + 1}
    /\ UNCHANGED <<host, inbound, received>>

Launched ==
    /\ proc = "none" /\ flushing = <<>>
    /\ proc' = "running" /\ alive' /\ ~ready' /\ alive' \in BOOLEAN /\ ready' \in BOOLEAN
    /\ engine' = NoContext /\ toClient' = <<>> /\ sent' = host
    /\ \/ configSeq' = configSeq /\ toHelper' = <<>>
       \/ /\ host \in Contexts /\ configSeq' = configSeq + 1
          /\ toHelper' = <<Configure(configSeq', host)>>
    /\ UNCHANGED <<host, restart, handled, queue>>

Crashed ==
    /\ flushing = <<>> /\ mode' = "crashed"
    /\ UNCHANGED <<host, proc, ready, attempts, delayed, config, queue, helper, pipes>>

GotOutput ==
    /\ Idle /\ proc = "running"
    /\ \A i \in DOMAIN toClient : toClient[i] # Garbage
    /\ ready' \in BOOLEAN /\ toClient' = <<>>
    /\ ready' => ready \/ \E i \in DOMAIN toClient : toClient[i] = configSeq
    /\ \/ ready' /\ flushing' = inbound /\ inbound' = <<>>
       \/ UNCHANGED <<flushing, inbound>>
    /\ UNCHANGED <<host, proc, restart, config, helper, toHelper, received>>

SentFrame ==
    /\ flushing # <<>> /\ flushing' = Tail(flushing)
    /\ Written(Frame(Head(flushing), sent))
    /\ UNCHANGED <<host, proc, ready, restart, config, helper, toClient, inbound, received>>

DroppedFrames ==
    /\ proc = "exited" /\ flushing' = <<>>
    /\ UNCHANGED <<host, proc, ready, restart, config, helper, pipes, inbound, received>>

SentConfig ==
    /\ flushing = <<>> /\ proc = "running" /\ host \in Contexts
    /\ configSeq' = configSeq + 1 /\ sent' = host /\ ~ready' /\ ready' \in BOOLEAN
    /\ Written(Configure(configSeq', host))
    /\ UNCHANGED <<host, proc, restart, queue, helper, toClient>>

Told ==
    /\ flushing = <<>> /\ mode' = "stopping" /\ ~ready' /\ ready' \in BOOLEAN /\ delayed' \in BOOLEAN
    /\ toHelper' \in {toHelper, Append(toHelper, Stop)} /\ (toHelper' # toHelper => alive)
    /\ UNCHANGED <<host, proc, attempts, config, queue, helper, toClient>>

ReadLine ==
    /\ alive /\ toHelper # <<>> /\ toHelper' = Tail(toHelper)
    /\ UNCHANGED <<host, proc, ready, restart, config, queue, alive>>

TookConfig ==
    /\ ReadLine /\ Head(toHelper).type = "configure"
    /\ engine' = Head(toHelper).context /\ toClient' = Append(toClient, Head(toHelper).seq)
    /\ handled' = handled

RefusedConfig ==
    /\ ReadLine /\ Head(toHelper).type = "configure"
    /\ UNCHANGED <<engine, toClient, handled>>

TookFrame ==
    /\ ReadLine /\ Head(toHelper).type = "frame"
    /\ handled' = IF engine = NoContext THEN handled ELSE Head(toHelper).frame
    /\ UNCHANGED <<engine, toClient>>

Ended ==
    /\ ~alive' /\ alive' \in BOOLEAN /\ engine' = NoContext /\ toHelper' = <<>>
    /\ UNCHANGED <<host, proc, ready, restart, config, queue, handled, toClient>>

\* A step is one of these, or one of the five actions with a single branch.
LEMMA Steps ==
    ASSUME IInv, Next
    PROVE  \/ HelperLost \/ Launched \/ Crashed \/ GotOutput \/ SentFrame \/ DroppedFrames
           \/ SentConfig \/ Told \/ TookConfig \/ RefusedConfig \/ TookFrame \/ Ended
           \/ DelayPasses \/ ExitNoticed \/ HostChanges \/ ReceiveFrame \/ HelperMisspeaks
  <1> USE DEF IInv
  <1>1. ASSUME RestartHelper PROVE NoHelper /\ mode' \in {mode, "disabled"}
                                   /\ attempts' \in 0..MaxRestarts /\ delayed' \in BOOLEAN
    BY <1>1, Restarted
  <1>2. CASE StartProcess
    <2>1. proc = "none" /\ flushing = <<>>
      BY <1>2 DEF StartProcess, ProcInv
    <2>2. CASE RestartHelper /\ UNCHANGED configSeq
      BY <1>1, <1>2, <2>1, <2>2 DEF StartProcess, HelperLost, queue
    <2>3. CASE ~(RestartHelper /\ UNCHANGED configSeq)
      BY <1>2, <2>1, <2>3 DEF StartProcess, Launched, TypeOK
    <2> QED
      BY <2>2, <2>3
  <1>3. CASE Exited
    <2>1. CASE Misspoken
      BY <1>3, <2>1 DEF Exited, Idle, Crashed, config
    <2>2. CASE ~Misspoken
      BY <1>1, <1>3, <2>2 DEF Exited, Idle, HelperLost, queue
    <2> QED
      BY <2>1, <2>2
  <1>4. CASE Read
    <2>1. CASE Misspoken
      BY <1>1, <1>4, <2>1 DEF Read, Idle, HelperLost, queue
    <2>2. CASE ~Misspoken
      BY <1>4, <2>2
         DEF Read, Misspoken, SaysReady, IsCurrent, GotOutput, config, TypeOK
    <2> QED
      BY <2>1, <2>2
  <1>5. CASE WriteFrame
    <2>1. CASE RestartHelper
      BY <1>1, <1>5, <2>1 DEF WriteFrame, Unwritten, HelperLost, RestartHelper, NoHelper
    <2>2. CASE ~RestartHelper
      BY <1>5, <2>2
         DEF WriteFrame, WriteFails, Unwritten, SentFrame, DroppedFrames, config
    <2> QED
      BY <2>1, <2>2
  <1>6. CASE UpdateHostContext
    <2>1. CASE WriteFails
      BY <1>1, <1>6, <2>1 DEF UpdateHostContext, WriteFails, Idle, HelperLost, queue
    <2>2. CASE ~WriteFails
      BY <1>6, <2>2 DEF UpdateHostContext, Idle, SentConfig, TypeOK
    <2> QED
      BY <2>1, <2>2
  <1>7. CASE BeginStop
    BY <1>7 DEF BeginStop, Idle, Written, Told
  <1>8. CASE EndStop
    BY <1>8 DEF EndStop, HelperLost, ProcInv, TypeOK, queue
  <1>9. CASE HelperReads
    <2>1. CASE Head(toHelper).type = "stop"
      BY <1>9, <2>1 DEF HelperReads, HandleLine, HelperEnds, Ended
    <2>2. CASE Head(toHelper).type # "stop"
      BY <1>9, <2>2 DEF HelperReads, HandleLine, ReadLine, TookConfig, RefusedConfig,
                        TookFrame, helper
    <2> QED
      BY <2>1, <2>2
  <1>10. CASE HelperDies
    BY <1>10 DEF HelperDies, HelperEnds, Ended
  <1> QED
    BY <1>2, <1>3, <1>4, <1>5, <1>6, <1>7, <1>8, <1>9, <1>10 DEF Next, ProcessPendingMessages

\* A line written to the helper comes last, if it gets there.
LEMMA Appended ==
    ASSUME IInv, NEW m \in ToHelper, toHelper' \in {toHelper, Append(toHelper, m)}
    PROVE  \A i \in DOMAIN toHelper' :
             \/ i \in DOMAIN toHelper /\ toHelper'[i] = toHelper[i]
             \/ /\ toHelper' = Append(toHelper, m) /\ toHelper'[i] = m
                /\ i \notin DOMAIN toHelper /\ \A j \in DOMAIN toHelper' : ~(i < j)
  <1>1. toHelper \in Seq(ToHelper)
    BY DEF IInv, TypeOK
  <1>2. CASE toHelper' = toHelper
    BY <1>2
  <1>3. CASE toHelper' = Append(toHelper, m)
    <2>1. \A i \in DOMAIN toHelper' :
            \/ i \in DOMAIN toHelper /\ toHelper'[i] = toHelper[i] /\ i < Len(toHelper) + 1
            \/ i \notin DOMAIN toHelper /\ i = Len(toHelper) + 1 /\ toHelper'[i] = m
      BY <1>1, <1>3, Extended
    <2>2. \A i, j \in DOMAIN toHelper' : i \notin DOMAIN toHelper => ~(i < j)
      BY <1>1, <2>1
    <2> QED
      BY <1>3, <2>1, <2>2
  <1> QED
    BY <1>2, <1>3

\* A frame on its way is the oldest of those that were taken out of the queue.
LEMMA FrameSent ==
    ASSUME IInv, SentFrame
    PROVE  \E m \in ToHelper :
             /\ m.type = "frame" /\ m.frame = flushing[1] /\ m.context = sent
             /\ 1 \in DOMAIN flushing
             /\ toHelper' \in {toHelper, Append(toHelper, m)} /\ (toHelper' # toHelper => alive)
  <1>1. Head(flushing) \in 1..MaxFrames /\ Head(flushing) = flushing[1] /\ 1 \in DOMAIN flushing
    BY Shifted DEF SentFrame, IInv, TypeOK
  <1>2. sent \in Contexts \cup {NoContext}
    BY DEF IInv, TypeOK
  <1>3. /\ Frame(Head(flushing), sent) \in ToHelper
        /\ Frame(Head(flushing), sent).type = "frame"
        /\ Frame(Head(flushing), sent).frame = flushing[1]
        /\ Frame(Head(flushing), sent).context = sent
    BY <1>1, <1>2, Messages
  <1>4. /\ toHelper' \in {toHelper, Append(toHelper, Frame(Head(flushing), sent))}
        /\ toHelper' # toHelper => alive
    BY DEF SentFrame, Written
  <1> QED
    BY <1>1, <1>3, <1>4

----------------------------------------------------------------------------
\* Types.

\* Their conjunction.
LEMMA TypeParts == TypeOK <=> QueueOK /\ PipesOK /\ BooleansOK /\ OthersOK
  BY DEF TypeOK, QueueOK, PipesOK, BooleansOK, OthersOK

\* Every step keeps the types.
LEMMA TypesKept == IInv /\ [Next]_vars => TypeOK'
  <1> SUFFICES ASSUME IInv, [Next]_vars PROVE TypeOK'
    OBVIOUS
  <1>0. QueueOK /\ PipesOK /\ BooleansOK /\ OthersOK
    BY TypeParts DEF IInv
  <1>1. CASE HelperLost
    <2>1. QueueOK'
      BY <1>1, <1>0, Empty, HelperAssumption DEF HelperLost, QueueOK, queue
    <2>2. PipesOK'
      BY <1>1, <1>0, Gone, Empty DEF HelperLost, PipesOK, pipes
    <2>3. BooleansOK'
      BY <1>1, <1>0, Gone DEF HelperLost, BooleansOK, restart, helper, ReadLine
    <2>4. OthersOK'
      BY <1>1, <1>0, Gone DEF HelperLost, OthersOK, restart, config, queue, helper, ReadLine
    <2> QED
      BY <2>1, <2>2, <2>3, <2>4 DEF TypeOK, QueueOK, PipesOK, BooleansOK, OthersOK
  <1>2. CASE Launched
    <2>0. toClient' = <<>> /\ (toHelper' = <<>> \/ \E m \in ToHelper : toHelper' = <<m>>)
      BY <1>2, <1>0, Messages DEF Launched, OthersOK
    <2>1. QueueOK'
      BY <1>2, <1>0 DEF Launched, QueueOK, queue
    <2>2. PipesOK'
      BY <2>0, Empty, Single DEF PipesOK
    <2>3. BooleansOK'
      BY <1>2, <1>0, Gone DEF Launched, BooleansOK, restart, helper, ReadLine
    <2>4. OthersOK'
      BY <1>2, <1>0 DEF Launched, OthersOK, restart, config, queue, helper, ReadLine
    <2> QED
      BY <2>1, <2>2, <2>3, <2>4 DEF TypeOK, QueueOK, PipesOK, BooleansOK, OthersOK
  <1>3. CASE Crashed
    <2>1. QueueOK'
      BY <1>3, <1>0 DEF Crashed, QueueOK, queue
    <2>2. PipesOK'
      BY <1>3, <1>0 DEF Crashed, PipesOK, pipes
    <2>3. BooleansOK'
      BY <1>3, <1>0, Gone DEF Crashed, BooleansOK, restart, helper, ReadLine
    <2>4. OthersOK'
      BY <1>3, <1>0 DEF Crashed, OthersOK, restart, config, queue, helper, ReadLine
    <2> QED
      BY <2>1, <2>2, <2>3, <2>4 DEF TypeOK, QueueOK, PipesOK, BooleansOK, OthersOK
  <1>4. CASE GotOutput
    <2>1. QueueOK'
      <3>1. \/ flushing' = inbound /\ inbound' = <<>>
            \/ UNCHANGED <<flushing, inbound>>
        BY <1>4 DEF GotOutput
      <3>2. CASE flushing' = inbound /\ inbound' = <<>>
        BY <1>0, <3>2, Empty, HelperAssumption DEF QueueOK
      <3>3. CASE UNCHANGED <<flushing, inbound>>
        BY <1>0, <3>3 DEF QueueOK
      <3> QED
        BY <3>1, <3>2, <3>3
    <2>2. PipesOK'
      BY <1>4, <1>0, Empty DEF GotOutput, PipesOK, pipes
    <2>3. BooleansOK'
      BY <1>4, <1>0, Gone DEF GotOutput, BooleansOK, restart, helper, ReadLine
    <2>4. OthersOK'
      BY <1>4, <1>0 DEF GotOutput, OthersOK, restart, config, queue, helper, ReadLine
    <2> QED
      BY <2>1, <2>2, <2>3, <2>4 DEF TypeOK, QueueOK, PipesOK, BooleansOK, OthersOK
  <1>5. CASE SentFrame
    <2>0. flushing # <<>> /\ flushing' = Tail(flushing) /\ inbound' = inbound
      BY <1>5 DEF SentFrame
    <2>1. QueueOK'
      <3>1. Len(flushing') = Len(flushing) - 1 /\ flushing' \in Seq(1..MaxFrames)
        BY <1>0, <2>0, Shifted DEF QueueOK
      <3>2. Len(flushing) \in Nat
        BY <1>0 DEF QueueOK
      <3>3. Len(flushing') <= MaxQueued
        BY <1>0, <3>1, <3>2, HelperAssumption DEF QueueOK
      <3> QED
        BY <1>0, <2>0, <3>1, <3>3 DEF QueueOK
    <2>2. PipesOK'
      <3>1. Head(flushing) \in 1..MaxFrames /\ sent \in Contexts \cup {NoContext}
        BY <1>0, <2>0, Shifted DEF QueueOK, OthersOK
      <3>2. Frame(Head(flushing), sent) \in ToHelper
        BY <3>1, Messages
      <3>3. toClient' = toClient /\ toHelper' \in {toHelper, Append(toHelper, Frame(Head(flushing), sent))}
        BY <1>5 DEF SentFrame, Written
      <3> QED
        BY <1>0, <3>2, <3>3, Extended DEF PipesOK
    <2>3. BooleansOK'
      BY <1>5, <1>0, Gone DEF SentFrame, BooleansOK, restart, helper, ReadLine
    <2>4. OthersOK'
      BY <1>5, <1>0 DEF SentFrame, OthersOK, restart, config, queue, helper, ReadLine
    <2> QED
      BY <2>1, <2>2, <2>3, <2>4 DEF TypeOK, QueueOK, PipesOK, BooleansOK, OthersOK
  <1>6. CASE DroppedFrames
    <2>0. UNCHANGED <<host, proc, mode, attempts, configSeq, sent, received, handled, engine>>
      BY <1>6 DEF DroppedFrames, restart, config, helper
    <2>1. QueueOK'
      BY <1>6, <1>0, Empty, HelperAssumption DEF DroppedFrames, QueueOK, queue
    <2>2. PipesOK'
      BY <1>6, <1>0 DEF DroppedFrames, PipesOK, pipes
    <2>3. BooleansOK'
      BY <1>6, <1>0, Gone DEF DroppedFrames, BooleansOK, restart, helper, ReadLine
    <2>4. OthersOK'
      BY <1>6, <1>0, <2>0 DEF DroppedFrames, OthersOK, restart, config, queue, helper, ReadLine
    <2> QED
      BY <2>1, <2>2, <2>3, <2>4 DEF TypeOK, QueueOK, PipesOK, BooleansOK, OthersOK
  <1>7. CASE SentConfig
    <2>1. QueueOK'
      BY <1>7, <1>0 DEF SentConfig, QueueOK, queue
    <2>2. PipesOK'
      BY <1>7, <1>0, Messages, Extended DEF SentConfig, PipesOK, pipes, Written, OthersOK
    <2>3. BooleansOK'
      BY <1>7, <1>0, Gone DEF SentConfig, BooleansOK, restart, helper, ReadLine
    <2>4. OthersOK'
      BY <1>7, <1>0 DEF SentConfig, OthersOK, restart, config, queue, helper, ReadLine
    <2> QED
      BY <2>1, <2>2, <2>3, <2>4 DEF TypeOK, QueueOK, PipesOK, BooleansOK, OthersOK
  <1>8. CASE Told
    <2>1. QueueOK'
      BY <1>8, <1>0 DEF Told, QueueOK, queue
    <2>2. PipesOK'
      <3>1. toHelper' \in {toHelper, Append(toHelper, Stop)} /\ toClient' = toClient
        BY <1>8 DEF Told
      <3>2. Stop \in ToHelper
        BY Messages
      <3>3. Append(toHelper, Stop) \in Seq(ToHelper)
        BY <1>0, <3>2, Extended DEF PipesOK
      <3> QED
        BY <1>0, <3>1, <3>3 DEF PipesOK
    <2>3. BooleansOK'
      BY <1>8, <1>0, Gone DEF Told, BooleansOK, restart, helper, ReadLine
    <2>4. OthersOK'
      BY <1>8, <1>0 DEF Told, OthersOK, restart, config, queue, helper, ReadLine
    <2> QED
      BY <2>1, <2>2, <2>3, <2>4 DEF TypeOK, QueueOK, PipesOK, BooleansOK, OthersOK
  <1>9. CASE TookConfig
    <2>0. Head(toHelper).context \in Contexts /\ Head(toHelper).seq \in Nat
      BY <1>9, <1>0, Shifted, Messages DEF TookConfig, ReadLine, PipesOK
    <2>1. QueueOK'
      BY <1>9, <1>0 DEF TookConfig, QueueOK, queue, ReadLine
    <2>2. PipesOK'
      BY <1>9, <1>0, <2>0, Shifted, Extended DEF TookConfig, PipesOK, pipes, ReadLine
    <2>3. BooleansOK'
      BY <1>9, <1>0, Gone DEF TookConfig, BooleansOK, restart, helper, ReadLine
    <2>4. OthersOK'
      BY <1>9, <1>0, <2>0 DEF TookConfig, OthersOK, restart, config, queue, helper, ReadLine
    <2> QED
      BY <2>1, <2>2, <2>3, <2>4 DEF TypeOK, QueueOK, PipesOK, BooleansOK, OthersOK
  <1>10. CASE RefusedConfig
    <2>1. QueueOK'
      BY <1>10, <1>0 DEF RefusedConfig, QueueOK, queue, ReadLine
    <2>2. PipesOK'
      BY <1>10, <1>0, Shifted DEF RefusedConfig, PipesOK, pipes, ReadLine
    <2>3. BooleansOK'
      BY <1>10, <1>0, Gone DEF RefusedConfig, BooleansOK, restart, helper, ReadLine
    <2>4. OthersOK'
      BY <1>10, <1>0 DEF RefusedConfig, OthersOK, restart, config, queue, helper, ReadLine
    <2> QED
      BY <2>1, <2>2, <2>3, <2>4 DEF TypeOK, QueueOK, PipesOK, BooleansOK, OthersOK
  <1>11. CASE TookFrame
    <2>0. Head(toHelper).frame \in 1..MaxFrames
      BY <1>11, <1>0, Shifted, Messages DEF TookFrame, ReadLine, PipesOK
    <2>1. QueueOK'
      BY <1>11, <1>0 DEF TookFrame, QueueOK, queue, ReadLine
    <2>2. PipesOK'
      BY <1>11, <1>0, Shifted DEF TookFrame, PipesOK, pipes, ReadLine
    <2>3. BooleansOK'
      BY <1>11, <1>0, Gone DEF TookFrame, BooleansOK, restart, helper, ReadLine
    <2>4. OthersOK'
      BY <1>11, <1>0, <2>0 DEF TookFrame, OthersOK, restart, config, queue, helper, ReadLine
    <2> QED
      BY <2>1, <2>2, <2>3, <2>4 DEF TypeOK, QueueOK, PipesOK, BooleansOK, OthersOK
  <1>12. CASE Ended
    <2>1. QueueOK'
      BY <1>12, <1>0 DEF Ended, QueueOK, queue
    <2>2. PipesOK'
      BY <1>12, <1>0, Empty DEF Ended, PipesOK, pipes
    <2>3. BooleansOK'
      BY <1>12, <1>0, Gone DEF Ended, BooleansOK, restart, helper, ReadLine
    <2>4. OthersOK'
      BY <1>12, <1>0 DEF Ended, OthersOK, restart, config, queue, helper, ReadLine
    <2> QED
      BY <2>1, <2>2, <2>3, <2>4 DEF TypeOK, QueueOK, PipesOK, BooleansOK, OthersOK
  <1>13. CASE DelayPasses
    <2>1. QueueOK'
      BY <1>13, <1>0 DEF DelayPasses, QueueOK, queue
    <2>2. PipesOK'
      BY <1>13, <1>0 DEF DelayPasses, PipesOK, pipes
    <2>3. BooleansOK'
      BY <1>13, <1>0, Gone DEF DelayPasses, BooleansOK, restart, helper, ReadLine
    <2>4. OthersOK'
      BY <1>13, <1>0 DEF DelayPasses, OthersOK, restart, config, queue, helper, ReadLine
    <2> QED
      BY <2>1, <2>2, <2>3, <2>4 DEF TypeOK, QueueOK, PipesOK, BooleansOK, OthersOK
  <1>14. CASE ExitNoticed
    <2>1. QueueOK'
      BY <1>14, <1>0 DEF ExitNoticed, QueueOK, queue
    <2>2. PipesOK'
      BY <1>14, <1>0 DEF ExitNoticed, PipesOK, pipes
    <2>3. BooleansOK'
      BY <1>14, <1>0, Gone DEF ExitNoticed, BooleansOK, restart, helper, ReadLine
    <2>4. OthersOK'
      BY <1>14, <1>0 DEF ExitNoticed, OthersOK, restart, config, queue, helper, ReadLine
    <2> QED
      BY <2>1, <2>2, <2>3, <2>4 DEF TypeOK, QueueOK, PipesOK, BooleansOK, OthersOK
  <1>15. CASE HostChanges
    <2>1. QueueOK'
      BY <1>15, <1>0 DEF HostChanges, QueueOK, queue
    <2>2. PipesOK'
      BY <1>15, <1>0 DEF HostChanges, PipesOK, pipes
    <2>3. BooleansOK'
      BY <1>15, <1>0, Gone DEF HostChanges, BooleansOK, restart, helper, ReadLine
    <2>4. OthersOK'
      BY <1>15, <1>0 DEF HostChanges, OthersOK, restart, config, queue, helper, ReadLine
    <2> QED
      BY <2>1, <2>2, <2>3, <2>4 DEF TypeOK, QueueOK, PipesOK, BooleansOK, OthersOK
  <1>16. CASE ReceiveFrame
    <2>1. received' \in 1..MaxFrames
      BY <1>16, <1>0, HelperAssumption DEF ReceiveFrame, OthersOK
    <2>2. inbound' \in Seq(1..MaxFrames) /\ Len(inbound') <= MaxQueued
      <3>1. CASE Len(inbound) < MaxQueued
        BY <1>16, <1>0, <2>1, <3>1, Extended, HelperAssumption DEF ReceiveFrame, QueueOK
      <3>2. CASE ~(Len(inbound) < MaxQueued)
        <4>1. inbound # <<>> /\ Len(inbound) = MaxQueued
          BY <1>0, <3>2, HelperAssumption, Empty DEF QueueOK
        <4>2. /\ Tail(inbound) \in Seq(1..MaxFrames) /\ Len(Tail(inbound)) = MaxQueued - 1
          BY <1>0, <4>1, Shifted DEF QueueOK
        <4>3. inbound' = Append(Tail(inbound), received')
          BY <1>16, <3>2 DEF ReceiveFrame
        <4> QED
          BY <2>1, <4>2, <4>3, Extended, HelperAssumption
      <3> QED
        BY <3>1, <3>2
    <2>3. QueueOK' /\ PipesOK'
      BY <1>16, <1>0, <2>2 DEF ReceiveFrame, QueueOK, PipesOK, pipes
    <2>4. BooleansOK'
      BY <1>16, <1>0 DEF ReceiveFrame, BooleansOK, restart, helper
    <2>5. OthersOK'
      BY <1>16, <1>0, <2>1 DEF ReceiveFrame, OthersOK, restart, config, helper
    <2> QED
      BY <2>3, <2>4, <2>5 DEF TypeOK, QueueOK, PipesOK, BooleansOK, OthersOK
  <1>17. CASE HelperMisspeaks
    <2>1. QueueOK'
      BY <1>17, <1>0 DEF HelperMisspeaks, QueueOK, queue
    <2>2. PipesOK'
      BY <1>17, <1>0, Extended DEF HelperMisspeaks, PipesOK, pipes, Garbage
    <2>3. BooleansOK'
      BY <1>17, <1>0, Gone DEF HelperMisspeaks, BooleansOK, restart, helper, ReadLine
    <2>4. OthersOK'
      BY <1>17, <1>0 DEF HelperMisspeaks, OthersOK, restart, config, queue, helper, ReadLine
    <2> QED
      BY <2>1, <2>2, <2>3, <2>4 DEF TypeOK, QueueOK, PipesOK, BooleansOK, OthersOK
  <1>18. CASE UNCHANGED vars
    BY <1>18 DEF vars, IInv, TypeOK, restart, config, queue, pipes, helper
  <1> QED
    BY <1>1, <1>2, <1>3, <1>4, <1>5, <1>6, <1>7, <1>8, <1>9, <1>10, <1>11,
       <1>12, <1>13, <1>14, <1>15, <1>16, <1>17, <1>18, Steps

----------------------------------------------------------------------------
\* What the pipes hold.

\* A helper lives only while the client knows no better.
LEMMA ProcKept == IInv /\ [Next]_vars => ProcInv'
  <1> SUFFICES ASSUME IInv, [Next]_vars PROVE ProcInv'
    OBVIOUS
  <1> USE DEF IInv, TypeOK, ProcInv, restart, config, queue, pipes, helper
  <1>1. CASE HelperLost
    BY <1>1, Gone DEF HelperLost
  <1>2. CASE Launched
    BY <1>2 DEF Launched
  <1>3. CASE Crashed
    BY <1>3 DEF Crashed
  <1>4. CASE GotOutput
    BY <1>4 DEF GotOutput, Idle
  <1>5. CASE SentFrame
    BY <1>5 DEF SentFrame, Written
  <1>6. CASE DroppedFrames
    BY <1>6 DEF DroppedFrames
  <1>7. CASE SentConfig
    BY <1>7 DEF SentConfig, Written
  <1>8. CASE Told
    BY <1>8 DEF Told, Written
  <1>9. CASE TookConfig
    BY <1>9 DEF TookConfig, ReadLine
  <1>10. CASE RefusedConfig
    BY <1>10 DEF RefusedConfig, ReadLine
  <1>11. CASE TookFrame
    BY <1>11 DEF TookFrame, ReadLine
  <1>12. CASE Ended
    BY <1>12 DEF Ended
  <1>13. CASE DelayPasses
    BY <1>13 DEF DelayPasses
  <1>14. CASE ExitNoticed
    BY <1>14 DEF ExitNoticed
  <1>15. CASE HostChanges
    BY <1>15 DEF HostChanges
  <1>16. CASE ReceiveFrame
    BY <1>16 DEF ReceiveFrame
  <1>17. CASE HelperMisspeaks
    BY <1>17 DEF HelperMisspeaks
  <1>18. CASE UNCHANGED vars
    BY <1>18 DEF vars
  <1> QED
    BY <1>1, <1>2, <1>3, <1>4, <1>5, <1>6, <1>7, <1>8, <1>9, <1>10, <1>11,
       <1>12, <1>13, <1>14, <1>15, <1>16, <1>17, <1>18, Steps

\* The pipes hold no newer configuration than the last, which comes last.
LEMMA ConfigKept == IInv /\ [Next]_vars => ConfigInv'
  <1> SUFFICES ASSUME IInv, [Next]_vars PROVE ConfigInv'
    OBVIOUS
  <1>1. CASE HelperLost
    BY <1>1, Gone, Empty DEF HelperLost, ConfigInv
  <1>2. CASE Launched
    <2>1. toClient' = <<>>
      BY <1>2 DEF Launched
    <2>2. CASE toHelper' = <<>>
      BY <2>1, <2>2, Empty DEF ConfigInv
    <2>3. CASE toHelper' # <<>>
      <3>1. /\ toHelper' = <<Configure(configSeq', host)>> /\ host \in Contexts /\ sent' = host
            /\ configSeq' = configSeq + 1 /\ configSeq \in Nat
        BY <1>2, <2>3 DEF Launched, IInv, TypeOK
      <3>2. configSeq' \in 1..configSeq' /\ configSeq' \in Nat
        BY <3>1
      <3>3. /\ toHelper'[1].seq = configSeq' /\ toHelper'[1].context = sent'
            /\ \A i, j \in DOMAIN toHelper' : i = 1 /\ ~(j > i)
        BY <3>1, <3>2, Messages
      <3> QED
        BY <2>1, <3>2, <3>3, Empty DEF ConfigInv
    <2> QED
      BY <2>2, <2>3
  <1>3. CASE Crashed
    BY <1>3 DEF Crashed, config, pipes, IInv, ConfigInv
  <1>4. CASE GotOutput
    <2>1. toClient' = <<>> /\ UNCHANGED <<toHelper, configSeq, sent>>
      BY <1>4 DEF GotOutput, config
    <2> QED
      BY <2>1, Empty DEF IInv, ConfigInv
  <1>5. CASE SentFrame
    <2>1. PICK m \in ToHelper :
            m.type = "frame" /\ toHelper' \in {toHelper, Append(toHelper, m)}
      BY <1>5, FrameSent
    <2>2. UNCHANGED <<configSeq, sent, toClient>>
      BY <1>5 DEF SentFrame, config
    <2>3. \A i \in DOMAIN toHelper' : \/ i \in DOMAIN toHelper /\ toHelper'[i] = toHelper[i]
                                   \/ toHelper'[i].type # "configure"
      BY <2>1, Appended
    <2> QED
      BY <2>2, <2>3 DEF IInv, ConfigInv
  <1>6. CASE DroppedFrames
    BY <1>6 DEF DroppedFrames, config, pipes, IInv, ConfigInv
  <1>7. CASE SentConfig
    <2> DEFINE m == Configure(configSeq + 1, host)
    <2>1. /\ m \in ToHelper /\ m.type = "configure" /\ m.seq = configSeq + 1 /\ m.context = host
          /\ configSeq' = configSeq + 1 /\ configSeq \in Nat
      BY <1>7, Messages DEF SentConfig, IInv, TypeOK
    <2>2. /\ toHelper' \in {toHelper, Append(toHelper, m)} /\ sent' = host
          /\ toClient' = toClient
      BY <1>7 DEF SentConfig, Written
    <2> HIDE DEF m
    <2>3. \A i \in DOMAIN toClient : toClient[i] <= configSeq'
      BY <2>1 DEF IInv, TypeOK, ConfigInv
    <2>4. \A i \in DOMAIN toHelper : toHelper[i].type = "configure" =>
            toHelper[i].seq \in 1..configSeq' /\ toHelper[i].seq # configSeq'
      BY <2>1 DEF IInv, TypeOK, ConfigInv
    <2>5. CASE toHelper' = toHelper
      BY <2>2, <2>3, <2>4, <2>5 DEF ConfigInv
    <2>6. CASE toHelper' = Append(toHelper, m)
      <3>1. \A i \in DOMAIN toHelper' :
              \/ i \in DOMAIN toHelper /\ toHelper'[i] = toHelper[i]
              \/ /\ toHelper'[i] = m /\ m.seq \in 1..configSeq'
                 /\ \A j \in DOMAIN toHelper' : ~(j > i)
        BY <2>1, <2>6, Extended DEF IInv, TypeOK
      <3> QED
        BY <2>1, <2>2, <2>3, <2>4, <3>1 DEF ConfigInv
    <2> QED
      BY <2>2, <2>5, <2>6
  <1>8. CASE Told
    <2>1. toHelper' \in {toHelper, Append(toHelper, Stop)} /\ UNCHANGED <<configSeq, sent, toClient>>
      BY <1>8 DEF Told, config
    <2>2. \A i \in DOMAIN toHelper' : \/ i \in DOMAIN toHelper /\ toHelper'[i] = toHelper[i]
                                   \/ toHelper'[i].type # "configure"
      BY <2>1, Appended, Messages
    <2> QED
      BY <2>1, <2>2 DEF IInv, ConfigInv
  <1>9. CASE TookConfig
    <2>0. toHelper \in Seq(ToHelper) /\ toClient \in Seq(Nat) /\ configSeq \in Nat
      BY DEF IInv, TypeOK
    <2>1. toHelper # <<>> /\ toHelper' = Tail(toHelper) /\ configSeq' = configSeq /\ sent' = sent
      BY <1>9 DEF TookConfig, ReadLine, config
    <2>2. \A i \in DOMAIN toHelper' : /\ i \in Nat /\ i + 1 \in DOMAIN toHelper
                                   /\ toHelper'[i] = toHelper[i + 1]
      BY <2>0, <2>1, Shifted
    <2>3. \A i \in DOMAIN toClient' : toClient'[i] <= configSeq'
      <3>1. toClient' = Append(toClient, Head(toHelper).seq) /\ Head(toHelper) = toHelper[1] /\ 1 \in DOMAIN toHelper
        BY <1>9, <2>0, <2>1, Shifted DEF TookConfig
      <3>2. Head(toHelper).seq \in Nat /\ Head(toHelper).seq <= configSeq
        BY <1>9, <2>0, <3>1 DEF TookConfig, IInv, ConfigInv
      <3> QED
        BY <2>0, <2>1, <3>1, <3>2, Extended DEF IInv, ConfigInv
    <2> QED
      BY <2>0, <2>1, <2>2, <2>3 DEF IInv, ConfigInv
  <1>10. CASE RefusedConfig
    <2>0. toHelper \in Seq(ToHelper) /\ toClient \in Seq(Nat) /\ configSeq \in Nat
      BY DEF IInv, TypeOK
    <2>1. toHelper # <<>> /\ toHelper' = Tail(toHelper) /\ configSeq' = configSeq /\ sent' = sent
      BY <1>10 DEF RefusedConfig, ReadLine, config
    <2>2. \A i \in DOMAIN toHelper' : /\ i \in Nat /\ i + 1 \in DOMAIN toHelper
                                   /\ toHelper'[i] = toHelper[i + 1]
      BY <2>0, <2>1, Shifted
    <2>3. \A i \in DOMAIN toClient' : toClient'[i] <= configSeq'
      BY <1>10, <2>1 DEF RefusedConfig, IInv, ConfigInv
    <2> QED
      BY <2>0, <2>1, <2>2, <2>3 DEF IInv, ConfigInv
  <1>11. CASE TookFrame
    <2>0. toHelper \in Seq(ToHelper) /\ toClient \in Seq(Nat) /\ configSeq \in Nat
      BY DEF IInv, TypeOK
    <2>1. toHelper # <<>> /\ toHelper' = Tail(toHelper) /\ configSeq' = configSeq /\ sent' = sent
      BY <1>11 DEF TookFrame, ReadLine, config
    <2>2. \A i \in DOMAIN toHelper' : /\ i \in Nat /\ i + 1 \in DOMAIN toHelper
                                   /\ toHelper'[i] = toHelper[i + 1]
      BY <2>0, <2>1, Shifted
    <2>3. \A i \in DOMAIN toClient' : toClient'[i] <= configSeq'
      BY <1>11, <2>1 DEF TookFrame, IInv, ConfigInv
    <2> QED
      BY <2>0, <2>1, <2>2, <2>3 DEF IInv, ConfigInv
  <1>12. CASE Ended
    <2>1. toHelper' = <<>> /\ UNCHANGED <<toClient, configSeq>>
      BY <1>12 DEF Ended, config
    <2> QED
      BY <2>1, Empty DEF IInv, ConfigInv
  <1>13. CASE DelayPasses
    BY <1>13 DEF DelayPasses, config, pipes, IInv, ConfigInv
  <1>14. CASE ExitNoticed
    BY <1>14 DEF ExitNoticed, config, pipes, IInv, ConfigInv
  <1>15. CASE HostChanges
    BY <1>15 DEF HostChanges, config, pipes, IInv, ConfigInv
  <1>16. CASE ReceiveFrame
    BY <1>16 DEF ReceiveFrame, config, pipes, IInv, ConfigInv
  <1>17. CASE HelperMisspeaks
    <2>1. toClient' = Append(toClient, Garbage) /\ UNCHANGED <<toHelper, configSeq, sent>>
      BY <1>17 DEF HelperMisspeaks, config
    <2>2. toClient \in Seq(Nat) /\ Garbage \in Nat /\ configSeq \in Nat /\ Garbage <= configSeq
      BY DEF IInv, TypeOK, Garbage
    <2> QED
      BY <2>1, <2>2, Extended DEF IInv, ConfigInv
  <1>18. CASE UNCHANGED vars
    BY <1>18 DEF vars, IInv, ConfigInv, config, pipes
  <1> QED
    BY <1>1, <1>2, <1>3, <1>4, <1>5, <1>6, <1>7, <1>8, <1>9, <1>10, <1>11,
       <1>12, <1>13, <1>14, <1>15, <1>16, <1>17, <1>18, Steps

\* No configuration is ahead of a frame.
LEMMA FrameKept == IInv /\ [Next]_vars => FrameInv'
  <1> SUFFICES ASSUME IInv, [Next]_vars PROVE FrameInv'
    OBVIOUS
  <1>1. CASE HelperLost
    BY <1>1, Gone, Empty DEF HelperLost, FrameInv
  <1>2. CASE Launched
    <2>1. toHelper' = <<>> \/ \E m \in ToHelper : m.type # "frame" /\ toHelper' = <<m>>
      BY <1>2, Messages DEF Launched, IInv, TypeOK
    <2> QED
      BY <2>1, Empty DEF FrameInv
  <1>3. CASE Crashed
    BY <1>3 DEF Crashed, helper, pipes, IInv, FrameInv
  <1>4. CASE GotOutput
    BY <1>4 DEF GotOutput, helper, pipes, IInv, FrameInv
  <1>5. CASE SentFrame
    <2>1. PICK m \in ToHelper :
            /\ m.type = "frame" /\ m.context = sent
            /\ toHelper' \in {toHelper, Append(toHelper, m)} /\ (toHelper' # toHelper => alive)
      BY <1>5, FrameSent
    <2>3. engine' = engine /\ ready
      BY <1>5 DEF SentFrame, helper, IInv, ProcInv
    <2>4. CASE toHelper' = toHelper
      BY <2>3, <2>4 DEF IInv, FrameInv
    <2>5. CASE toHelper' # toHelper
      <3>1. Configured
        BY <2>1, <2>3, <2>5 DEF IInv, ReadyInv
      <3>2. \A i \in DOMAIN toHelper' : \/ i \in DOMAIN toHelper /\ toHelper'[i] = toHelper[i]
                                     \/ toHelper'[i] = m
        BY <2>1, Appended
      <3> QED
        BY <2>1, <2>3, <3>1, <3>2 DEF IInv, FrameInv, Configured
    <2> QED
      BY <2>4, <2>5
  <1>6. CASE DroppedFrames
    BY <1>6 DEF DroppedFrames, helper, pipes, IInv, FrameInv
  <1>7. CASE SentConfig
    <2> DEFINE m == Configure(configSeq + 1, host)
    <2>1. m \in ToHelper /\ m.type = "configure" /\ toHelper' \in {toHelper, Append(toHelper, m)}
      BY <1>7, Messages DEF SentConfig, Written, IInv, TypeOK
    <2>2. engine' = engine
      BY <1>7 DEF SentConfig, helper
    <2> HIDE DEF m
    <2>3. \A i \in DOMAIN toHelper' :
            \/ i \in DOMAIN toHelper /\ toHelper'[i] = toHelper[i]
            \/ /\ toHelper'[i].type = "configure"
               /\ \A j \in DOMAIN toHelper' : ~(i < j)
      BY <2>1, Appended DEF IInv, TypeOK
    <2> QED
      BY <2>1, <2>2, <2>3 DEF IInv, FrameInv
  <1>8. CASE Told
    <2>1. toHelper' \in {toHelper, Append(toHelper, Stop)} /\ engine' = engine
      BY <1>8 DEF Told, helper
    <2>2. \A i \in DOMAIN toHelper' : \/ i \in DOMAIN toHelper /\ toHelper'[i] = toHelper[i]
                                   \/ toHelper'[i].type = "stop"
      BY <2>1, Appended, Messages
    <2> QED
      BY <2>1, <2>2 DEF IInv, FrameInv
  <1>9. CASE TookConfig
    <2>0. toHelper \in Seq(ToHelper)
      BY DEF IInv, TypeOK
    <2>1. toHelper # <<>> /\ toHelper' = Tail(toHelper)
      BY <1>9 DEF TookConfig, ReadLine
    <2>2. /\ 1 \in DOMAIN toHelper /\ Head(toHelper) = toHelper[1]
          /\ \A i \in DOMAIN toHelper' : /\ i \in Nat /\ i + 1 \in DOMAIN toHelper /\ 1 < i + 1
                                     /\ toHelper'[i] = toHelper[i + 1]
      BY <2>0, <2>1, Shifted
    <2>3. \A i \in DOMAIN toHelper' : toHelper'[i].type # "frame"
      BY <1>9, <2>2 DEF TookConfig, IInv, FrameInv
    <2> QED
      BY <2>3 DEF FrameInv
  <1>10. CASE RefusedConfig
    <2>0. toHelper \in Seq(ToHelper)
      BY DEF IInv, TypeOK
    <2>1. toHelper # <<>> /\ toHelper' = Tail(toHelper)
      BY <1>10 DEF RefusedConfig, ReadLine
    <2>2. /\ 1 \in DOMAIN toHelper /\ Head(toHelper) = toHelper[1]
          /\ \A i \in DOMAIN toHelper' : /\ i \in Nat /\ i + 1 \in DOMAIN toHelper /\ 1 < i + 1
                                     /\ toHelper'[i] = toHelper[i + 1]
      BY <2>0, <2>1, Shifted
    <2>3. \A i \in DOMAIN toHelper' : toHelper'[i].type # "frame"
      BY <1>10, <2>2 DEF RefusedConfig, IInv, FrameInv
    <2> QED
      BY <2>3 DEF FrameInv
  <1>11. CASE TookFrame
    <2>0. toHelper \in Seq(ToHelper)
      BY DEF IInv, TypeOK
    <2>1. toHelper # <<>> /\ toHelper' = Tail(toHelper)
      BY <1>11 DEF TookFrame, ReadLine
    <2>2. /\ 1 \in DOMAIN toHelper /\ Head(toHelper) = toHelper[1]
          /\ \A i \in DOMAIN toHelper' : /\ i \in Nat /\ i + 1 \in DOMAIN toHelper /\ 1 < i + 1
                                     /\ toHelper'[i] = toHelper[i + 1]
      BY <2>0, <2>1, Shifted
    <2>3. engine' = engine
      BY <1>11 DEF TookFrame
    <2> QED
      BY <2>2, <2>3 DEF IInv, FrameInv
  <1>12. CASE Ended
    BY <1>12, Empty DEF Ended, FrameInv
  <1>13. CASE DelayPasses
    BY <1>13 DEF DelayPasses, helper, pipes, IInv, FrameInv
  <1>14. CASE ExitNoticed
    BY <1>14 DEF ExitNoticed, helper, pipes, IInv, FrameInv
  <1>15. CASE HostChanges
    BY <1>15 DEF HostChanges, helper, pipes, IInv, FrameInv
  <1>16. CASE ReceiveFrame
    BY <1>16 DEF ReceiveFrame, helper, pipes, IInv, FrameInv
  <1>17. CASE HelperMisspeaks
    BY <1>17 DEF HelperMisspeaks, helper, pipes, IInv, FrameInv
  <1>18. CASE UNCHANGED vars
    BY <1>18 DEF vars, IInv, FrameInv, helper, pipes
  <1> QED
    BY <1>1, <1>2, <1>3, <1>4, <1>5, <1>6, <1>7, <1>8, <1>9, <1>10, <1>11,
       <1>12, <1>13, <1>14, <1>15, <1>16, <1>17, <1>18, Steps

\* A READY for the last configuration means it has been taken.
LEMMA ReadyKept == IInv /\ [Next]_vars => ReadyInv'
  <1> SUFFICES ASSUME IInv, [Next]_vars PROVE ReadyInv'
    OBVIOUS
  <1>1. CASE HelperLost
    BY <1>1, Gone DEF HelperLost, ReadyInv
  <1>2. CASE Launched
    BY <1>2, Empty DEF Launched, ReadyInv
  <1>3. CASE Crashed
    BY <1>3 DEF Crashed, helper, pipes, config, IInv, ReadyInv, Configured
  <1>4. CASE GotOutput
    <2>1. alive' = alive /\ Configured' = Configured
      BY <1>4 DEF GotOutput, helper, config, Configured
    <2>2. toClient' = <<>>
      BY <1>4 DEF GotOutput
    <2>3. ready' => ready \/ \E i \in DOMAIN toClient : toClient[i] = configSeq /\ configSeq > 0
      BY <1>4 DEF GotOutput, Garbage, IInv, TypeOK
    <2> QED
      BY <2>1, <2>2, <2>3, Empty DEF IInv, ReadyInv
  <1>5. CASE SentFrame
    <2>1. \A i \in DOMAIN toHelper' : \/ i \in DOMAIN toHelper /\ toHelper'[i] = toHelper[i]
                                   \/ toHelper'[i].type = "frame"
      <3>1. PICK m \in ToHelper : m.type = "frame" /\ toHelper' \in {toHelper, Append(toHelper, m)}
        BY <1>5, FrameSent
      <3> QED
        BY <3>1, Appended
    <2>2. UNCHANGED <<ready, alive, engine, sent, configSeq, toClient>>
      BY <1>5 DEF SentFrame, helper, config
    <2> QED
      BY <2>1, <2>2 DEF IInv, ReadyInv, Configured
  <1>6. CASE DroppedFrames
    BY <1>6 DEF DroppedFrames, helper, pipes, config, IInv, ReadyInv, Configured
  <1>7. CASE SentConfig
    <2>1. ~ready' /\ configSeq' = configSeq + 1 /\ toClient' = toClient
      BY <1>7 DEF SentConfig
    <2>2. \A i \in DOMAIN toClient : toClient[i] <= configSeq /\ toClient[i] \in Nat
      BY DEF IInv, TypeOK, ConfigInv
    <2>3. configSeq \in Nat
      BY DEF IInv, TypeOK
    <2>4. \A i \in DOMAIN toClient' : toClient'[i] # configSeq'
      BY <2>1, <2>2, <2>3
    <2> QED
      BY <2>1, <2>4 DEF ReadyInv
  <1>8. CASE Told
    <2>1. \A i \in DOMAIN toHelper' : \/ i \in DOMAIN toHelper /\ toHelper'[i] = toHelper[i]
                                   \/ toHelper'[i].type = "stop"
      BY <1>8, Appended, Messages DEF Told
    <2>2. ~ready' /\ UNCHANGED <<alive, engine, sent, configSeq, toClient>>
      BY <1>8 DEF Told, helper, config
    <2> QED
      BY <2>1, <2>2 DEF IInv, ReadyInv, Configured
  <1>9. CASE TookConfig
    <2>0. toHelper \in Seq(ToHelper)
      BY DEF IInv, TypeOK
    <2>1. toHelper # <<>> /\ toHelper' = Tail(toHelper)
      BY <1>9 DEF TookConfig, ReadLine
    <2>2. /\ 1 \in DOMAIN toHelper /\ Head(toHelper) = toHelper[1]
          /\ \A i \in DOMAIN toHelper' : /\ i \in Nat /\ i + 1 \in DOMAIN toHelper /\ 1 < i + 1
                                     /\ toHelper'[i] = toHelper[i + 1]
      BY <2>0, <2>1, Shifted
    <2>3. /\ toHelper[1].type = "configure" /\ engine' = toHelper[1].context
          /\ toHelper[1].seq \in Nat /\ toHelper[1].context # NoContext
      BY <1>9, <2>0, <2>2, Messages, HelperAssumption DEF TookConfig
    <2>4. UNCHANGED <<sent, configSeq, ready, alive>> /\ toClient' = Append(toClient, toHelper[1].seq)
      BY <1>9, <2>2 DEF TookConfig, ReadLine, config
    <2>5. ~Configured
      BY <2>2, <2>3 DEF Configured
    <2>6. alive => ~ready /\ \A i \in DOMAIN toClient : ~(toClient[i] = configSeq /\ configSeq > 0)
      BY <2>5 DEF IInv, ReadyInv
    <2>7. alive' /\ (ready' \/ \E i \in DOMAIN toClient' : toClient'[i] = configSeq' /\ configSeq' > 0)
            => toHelper[1].seq = configSeq
      BY <2>3, <2>4, <2>6, Extended DEF IInv, TypeOK
    <2>8. toHelper[1].seq = configSeq => Configured'
      BY <2>2, <2>3, <2>4 DEF IInv, ConfigInv, Configured
    <2> QED
      BY <2>7, <2>8 DEF ReadyInv
  <1>10. CASE RefusedConfig
    <2>0. toHelper \in Seq(ToHelper)
      BY DEF IInv, TypeOK
    <2>1. toHelper # <<>> /\ toHelper' = Tail(toHelper)
      BY <1>10 DEF RefusedConfig, ReadLine
    <2>2. /\ 1 \in DOMAIN toHelper /\ Head(toHelper) = toHelper[1]
          /\ \A i \in DOMAIN toHelper' : /\ i \in Nat /\ i + 1 \in DOMAIN toHelper /\ 1 < i + 1
                                     /\ toHelper'[i] = toHelper[i + 1]
      BY <2>0, <2>1, Shifted
    <2>3. UNCHANGED <<sent, configSeq, ready, alive, toClient>>
      BY <1>10 DEF RefusedConfig, ReadLine, config
    <2>4. ~Configured
      BY <1>10, <2>2 DEF RefusedConfig, Configured
    <2> QED
      BY <2>3, <2>4 DEF IInv, ReadyInv
  <1>11. CASE TookFrame
    <2>0. toHelper \in Seq(ToHelper)
      BY DEF IInv, TypeOK
    <2>1. toHelper # <<>> /\ toHelper' = Tail(toHelper)
      BY <1>11 DEF TookFrame, ReadLine
    <2>2. /\ 1 \in DOMAIN toHelper /\ Head(toHelper) = toHelper[1]
          /\ \A i \in DOMAIN toHelper' : /\ i \in Nat /\ i + 1 \in DOMAIN toHelper /\ 1 < i + 1
                                     /\ toHelper'[i] = toHelper[i + 1]
      BY <2>0, <2>1, Shifted
    <2>3. UNCHANGED <<sent, configSeq, ready, alive, engine, toClient>>
      BY <1>11 DEF TookFrame, ReadLine, config
    <2>4. Configured => Configured'
      BY <2>2, <2>3 DEF Configured
    <2> QED
      BY <2>3, <2>4 DEF IInv, ReadyInv
  <1>12. CASE Ended
    BY <1>12 DEF Ended, ReadyInv
  <1>13. CASE DelayPasses
    BY <1>13 DEF DelayPasses, helper, pipes, config, IInv, ReadyInv, Configured
  <1>14. CASE ExitNoticed
    BY <1>14 DEF ExitNoticed, helper, pipes, config, IInv, ReadyInv, Configured
  <1>15. CASE HostChanges
    BY <1>15 DEF HostChanges, helper, pipes, config, IInv, ReadyInv, Configured
  <1>16. CASE ReceiveFrame
    BY <1>16 DEF ReceiveFrame, helper, pipes, config, IInv, ReadyInv, Configured
  <1>17. CASE HelperMisspeaks
    <2>1. UNCHANGED <<alive, ready, engine, sent, configSeq, toHelper>>
      BY <1>17 DEF HelperMisspeaks, config, helper
    <2>2. \A i \in DOMAIN toClient' : \/ i \in DOMAIN toClient /\ toClient'[i] = toClient[i]
                                   \/ toClient'[i] = 0
      BY <1>17, Extended DEF HelperMisspeaks, Garbage, IInv, TypeOK
    <2> QED
      BY <2>1, <2>2 DEF IInv, ReadyInv, Configured
  <1>18. CASE UNCHANGED vars
    BY <1>18 DEF vars, IInv, ReadyInv, Configured, config, helper, pipes
  <1> QED
    BY <1>1, <1>2, <1>3, <1>4, <1>5, <1>6, <1>7, <1>8, <1>9, <1>10, <1>11,
       <1>12, <1>13, <1>14, <1>15, <1>16, <1>17, <1>18, Steps

----------------------------------------------------------------------------
\* The order of the frames.

\* That nothing but the pipe to the helper changes, and how.
LEMMA OrderStays ==
    ASSUME IInv, UNCHANGED <<handled, flushing, inbound, received>>,
           \A i, j \in DOMAIN toHelper' : toHelper'[i].type = "frame" /\ toHelper'[j].type = "frame" =>
             \E k, l \in DOMAIN toHelper :
               toHelper[k] = toHelper'[i] /\ toHelper[l] = toHelper'[j] /\ (i < j => k < l)
    PROVE  FramesInOrder' /\ ReceivedInv'
  <1>1. \A i \in DOMAIN toHelper' : toHelper'[i].type = "frame" =>
          \E k \in DOMAIN toHelper : toHelper[k] = toHelper'[i]
    <2> TAKE i \in DOMAIN toHelper'
    <2> HAVE toHelper'[i].type = "frame"
    <2>1. \E k, l \in DOMAIN toHelper : toHelper[k] = toHelper'[i] /\ toHelper[l] = toHelper'[i]
      OBVIOUS
    <2> QED
      BY <2>1
  <1>2. /\ \A i \in DOMAIN toHelper' : toHelper'[i].type = "frame" =>
             /\ handled < toHelper'[i].frame
             /\ Precedes(toHelper'[i].frame, flushing) /\ Precedes(toHelper'[i].frame, inbound)
             /\ toHelper'[i].frame <= received
    BY <1>1 DEF IInv, FramesInOrder, ReceivedInv
  <1>3. \A i, j \in DOMAIN toHelper' :
          i < j /\ toHelper'[i].type = "frame" /\ toHelper'[j].type = "frame"
            => toHelper'[i].frame < toHelper'[j].frame
    <2> TAKE i, j \in DOMAIN toHelper'
    <2> HAVE i < j /\ toHelper'[i].type = "frame" /\ toHelper'[j].type = "frame"
    <2>1. PICK k \in DOMAIN toHelper, l \in DOMAIN toHelper :
            toHelper[k] = toHelper'[i] /\ toHelper[l] = toHelper'[j] /\ k < l
      OBVIOUS
    <2> QED
      BY <2>1 DEF IInv, FramesInOrder
  <1>4. FramesInOrder'
    BY <1>2, <1>3 DEF IInv, FramesInOrder, Increasing, Precedes
  <1>5. ReceivedInv'
    BY <1>2 DEF IInv, ReceivedInv
  <1> QED
    BY <1>4, <1>5

\* The order of the frames is kept.
LEMMA OrderKept == IInv /\ [Next]_vars => (FramesInOrder /\ ReceivedInv)'
  <1> SUFFICES ASSUME IInv, [Next]_vars PROVE (FramesInOrder /\ ReceivedInv)'
    OBVIOUS
  <1>1. CASE HelperLost
    <2>1. /\ flushing' = <<>> /\ toHelper' = <<>>
          /\ UNCHANGED <<handled, inbound, received>>
      BY <1>1, Gone DEF HelperLost
    <2> QED
      BY <2>1, Empty DEF IInv, FramesInOrder, Increasing, Precedes, ReceivedInv
  <1>2. CASE Launched
    <2>1. UNCHANGED <<handled, flushing, inbound, received>>
      BY <1>2 DEF Launched, queue, helper, ReadLine
    <2>2. \A i \in DOMAIN toHelper' : toHelper'[i].type # "frame"
      <3>1. toHelper' = <<>> \/ \E m \in ToHelper : m.type # "frame" /\ toHelper' = <<m>>
        BY <1>2, Messages DEF Launched, IInv, TypeOK
      <3> QED
        BY <3>1, Empty
    <2> QED
      BY <2>1, <2>2, OrderStays
  <1>3. CASE Crashed
    <2>1. UNCHANGED <<handled, flushing, inbound, received, toHelper>>
      BY <1>3 DEF Crashed, queue, helper, pipes
    <2> QED
      BY <2>1 DEF IInv, FramesInOrder, Increasing, Precedes, ReceivedInv
  <1>4. CASE GotOutput
    <2>1. /\ flushing = <<>> /\ UNCHANGED <<handled, received, toHelper>>
          /\ \/ flushing' = inbound /\ inbound' = <<>>
             \/ UNCHANGED <<flushing, inbound>>
      BY <1>4 DEF GotOutput, Idle, helper
    <2> QED
      BY <2>1, Empty DEF IInv, FramesInOrder, Increasing, Precedes, ReceivedInv
  <1>5. CASE SentFrame
    <2>1. PICK m \in ToHelper :
            /\ m.type = "frame" /\ m.frame = flushing[1] /\ 1 \in DOMAIN flushing
            /\ toHelper' \in {toHelper, Append(toHelper, m)}
      BY <1>5, FrameSent
    <2>2. UNCHANGED <<handled, inbound, received>>
      BY <1>5 DEF SentFrame, helper
    <2>3. \A i \in DOMAIN flushing' : /\ i \in Nat /\ i + 1 \in DOMAIN flushing /\ 1 < i + 1
                                   /\ flushing'[i] = flushing[i + 1]
      BY <1>5, Shifted DEF SentFrame, IInv, TypeOK
    <2>4. \A i \in DOMAIN toHelper' :
            \/ i \in DOMAIN toHelper /\ toHelper'[i] = toHelper[i]
            \/ /\ toHelper'[i] = m /\ \A j \in DOMAIN toHelper' : ~(i < j)
      BY <2>1, Appended
    <2>5. \A i \in DOMAIN flushing' : flushing[1] < flushing'[i]
      BY <2>1, <2>3 DEF IInv, FramesInOrder, Increasing
    <2>6. Increasing(flushing)' /\ Increasing(inbound)'
      BY <2>2, <2>3 DEF IInv, FramesInOrder, Increasing
    <2>7. /\ \A i \in DOMAIN flushing' : Precedes(flushing'[i], inbound')
          /\ Precedes(handled, flushing)' /\ Precedes(handled, inbound)'
      BY <2>2, <2>3 DEF IInv, FramesInOrder, Precedes
    <2>8. /\ handled < m.frame /\ Precedes(m.frame, flushing') /\ Precedes(m.frame, inbound')
          /\ m.frame <= received
      BY <2>1, <2>2, <2>5 DEF IInv, FramesInOrder, Precedes, ReceivedInv
    <2>9. \A i \in DOMAIN toHelper : toHelper[i].type = "frame" =>
            /\ toHelper[i].frame < m.frame /\ handled < toHelper[i].frame
            /\ Precedes(toHelper[i].frame, flushing') /\ Precedes(toHelper[i].frame, inbound')
      BY <2>1, <2>2, <2>3 DEF IInv, FramesInOrder, Precedes
    <2>10. \A i, j \in DOMAIN toHelper' :
             i < j /\ toHelper'[i].type = "frame" /\ toHelper'[j].type = "frame"
               => toHelper'[i].frame < toHelper'[j].frame
      <3> TAKE i, j \in DOMAIN toHelper'
      <3>1. CASE toHelper'[i] = m /\ \A k \in DOMAIN toHelper' : ~(i < k)
        BY <3>1
      <3>2. CASE i \in DOMAIN toHelper /\ toHelper'[i] = toHelper[i]
        <4>1. CASE j \in DOMAIN toHelper /\ toHelper'[j] = toHelper[j]
          BY <3>2, <4>1 DEF IInv, FramesInOrder
        <4>2. CASE toHelper'[j] = m
          BY <2>9, <3>2, <4>2
        <4> QED
          BY <2>4, <4>1, <4>2
      <3> QED
        BY <2>4, <3>1, <3>2
    <2>11. FramesInOrder'
      BY <2>2, <2>4, <2>6, <2>7, <2>8, <2>9, <2>10 DEF FramesInOrder
    <2>12. ReceivedInv'
      BY <2>2, <2>3, <2>4, <2>8 DEF IInv, ReceivedInv
    <2> QED
      BY <2>11, <2>12
  <1>6. CASE DroppedFrames
    <2>1. flushing' = <<>> /\ UNCHANGED <<handled, inbound, received, toHelper>>
      BY <1>6 DEF DroppedFrames, helper, pipes
    <2> QED
      BY <2>1, Empty DEF IInv, FramesInOrder, Increasing, Precedes, ReceivedInv
  <1>7. CASE SentConfig
    <2>1. UNCHANGED <<handled, flushing, inbound, received>>
      BY <1>7 DEF SentConfig, queue, helper, ReadLine
    <2>2. \A i \in DOMAIN toHelper' : \/ i \in DOMAIN toHelper /\ toHelper'[i] = toHelper[i]
                                   \/ toHelper'[i].type = "configure"
      <3>1. /\ Configure(configSeq + 1, host) \in ToHelper
            /\ Configure(configSeq + 1, host).type = "configure"
            /\ toHelper' \in {toHelper, Append(toHelper, Configure(configSeq + 1, host))}
        BY <1>7, Messages DEF SentConfig, Written, IInv, TypeOK
      <3> QED
        BY <3>1, Appended
    <2> QED
      BY <2>1, <2>2, OrderStays
  <1>8. CASE Told
    <2>1. UNCHANGED <<handled, flushing, inbound, received>>
      BY <1>8 DEF Told, queue, helper, ReadLine
    <2>2. \A i \in DOMAIN toHelper' : \/ i \in DOMAIN toHelper /\ toHelper'[i] = toHelper[i]
                                   \/ toHelper'[i].type = "stop"
      BY <1>8, Appended, Messages DEF Told
    <2> QED
      BY <2>1, <2>2, OrderStays
  <1>9. CASE TookConfig
    <2>0. toHelper \in Seq(ToHelper)
      BY DEF IInv, TypeOK
    <2>1. toHelper # <<>> /\ toHelper' = Tail(toHelper)
      BY <1>9 DEF TookConfig, ReadLine
    <2>2. /\ 1 \in DOMAIN toHelper /\ Head(toHelper) = toHelper[1]
          /\ \A i \in DOMAIN toHelper' : /\ i \in Nat /\ i + 1 \in DOMAIN toHelper /\ 1 < i + 1
                                     /\ toHelper'[i] = toHelper[i + 1]
      BY <2>0, <2>1, Shifted
    <2>3. UNCHANGED <<handled, flushing, inbound, received>>
      BY <1>9 DEF TookConfig, ReadLine, queue
    <2>4. \A i, j \in DOMAIN toHelper' : i < j => i + 1 < j + 1
      BY <2>2
    <2> QED
      BY <2>2, <2>3, <2>4, OrderStays
  <1>10. CASE RefusedConfig
    <2>0. toHelper \in Seq(ToHelper)
      BY DEF IInv, TypeOK
    <2>1. toHelper # <<>> /\ toHelper' = Tail(toHelper)
      BY <1>10 DEF RefusedConfig, ReadLine
    <2>2. /\ 1 \in DOMAIN toHelper /\ Head(toHelper) = toHelper[1]
          /\ \A i \in DOMAIN toHelper' : /\ i \in Nat /\ i + 1 \in DOMAIN toHelper /\ 1 < i + 1
                                     /\ toHelper'[i] = toHelper[i + 1]
      BY <2>0, <2>1, Shifted
    <2>3. UNCHANGED <<handled, flushing, inbound, received>>
      BY <1>10 DEF RefusedConfig, ReadLine, queue
    <2>4. \A i, j \in DOMAIN toHelper' : i < j => i + 1 < j + 1
      BY <2>2
    <2> QED
      BY <2>2, <2>3, <2>4, OrderStays
  <1>11. CASE TookFrame
    <2>0. toHelper \in Seq(ToHelper)
      BY DEF IInv, TypeOK
    <2>1. toHelper # <<>> /\ toHelper' = Tail(toHelper)
      BY <1>11 DEF TookFrame, ReadLine
    <2>2. /\ 1 \in DOMAIN toHelper /\ Head(toHelper) = toHelper[1]
          /\ \A i \in DOMAIN toHelper' : /\ i \in Nat /\ i + 1 \in DOMAIN toHelper /\ 1 < i + 1
                                     /\ toHelper'[i] = toHelper[i + 1]
      BY <2>0, <2>1, Shifted
    <2>3. UNCHANGED <<flushing, inbound, received>> /\ handled' \in {handled, toHelper[1].frame}
          /\ toHelper[1].type = "frame"
      BY <1>11, <2>2 DEF TookFrame, ReadLine, queue
    <2>4. \A i \in DOMAIN toHelper' : toHelper'[i].type = "frame" =>
            toHelper[1].frame < toHelper'[i].frame
      BY <2>2, <2>3 DEF IInv, FramesInOrder
    <2>5. \A i \in DOMAIN toHelper' : toHelper'[i].type = "frame" => handled' < toHelper'[i].frame
      BY <2>2, <2>3, <2>4 DEF IInv, FramesInOrder
    <2>6. Precedes(handled', flushing') /\ Precedes(handled', inbound') /\ handled' <= received'
      BY <2>2, <2>3 DEF IInv, FramesInOrder, ReceivedInv
    <2>7. FramesInOrder'
      BY <2>2, <2>3, <2>5, <2>6 DEF IInv, FramesInOrder, Increasing, Precedes
    <2>8. ReceivedInv'
      BY <2>2, <2>3, <2>6 DEF IInv, ReceivedInv
    <2> QED
      BY <2>7, <2>8
  <1>12. CASE Ended
    <2>1. UNCHANGED <<handled, flushing, inbound, received>>
      BY <1>12 DEF Ended, queue, helper, ReadLine
    <2>2. DOMAIN toHelper' = {}
      BY <1>12, Empty DEF Ended
    <2> QED
      BY <2>1, <2>2, OrderStays
  <1>13. CASE DelayPasses
    <2>1. UNCHANGED <<handled, flushing, inbound, received, toHelper>>
      BY <1>13 DEF DelayPasses, queue, helper, pipes
    <2> QED
      BY <2>1 DEF IInv, FramesInOrder, Increasing, Precedes, ReceivedInv
  <1>14. CASE ExitNoticed
    <2>1. UNCHANGED <<handled, flushing, inbound, received, toHelper>>
      BY <1>14 DEF ExitNoticed, queue, helper, pipes
    <2> QED
      BY <2>1 DEF IInv, FramesInOrder, Increasing, Precedes, ReceivedInv
  <1>15. CASE HostChanges
    <2>1. UNCHANGED <<handled, flushing, inbound, received, toHelper>>
      BY <1>15 DEF HostChanges, queue, helper, pipes
    <2> QED
      BY <2>1 DEF IInv, FramesInOrder, Increasing, Precedes, ReceivedInv
  <1>16. CASE ReceiveFrame
    <2>1. /\ received' = received + 1 /\ received \in Nat
          /\ UNCHANGED <<handled, flushing, toHelper>>
      BY <1>16 DEF ReceiveFrame, helper, pipes, IInv, TypeOK
    <2> DEFINE q == IF Len(inbound) < MaxQueued THEN inbound ELSE Tail(inbound)
    <2>2. /\ q \in Seq(1..MaxFrames) /\ inbound' = Append(q, received')
          /\ (q = inbound \/ (inbound # <<>> /\ q = Tail(inbound)))
      <3>1. CASE Len(inbound) < MaxQueued
        <4>1. inbound \in Seq(1..MaxFrames)
          BY DEF IInv, TypeOK
        <4>2. q = inbound
          BY <3>1
        <4>3. inbound' = Append(inbound, received')
          BY <1>16, <3>1 DEF ReceiveFrame
        <4> HIDE DEF q
        <4> QED
          BY <4>1, <4>2, <4>3
      <3>2. CASE ~(Len(inbound) < MaxQueued)
        <4>1. inbound # <<>>
          BY <3>2, Empty, HelperAssumption
        <4>2. Tail(inbound) \in Seq(1..MaxFrames)
          BY <4>1, Shifted DEF IInv, TypeOK
        <4> QED
          BY <1>16, <3>2, <4>1, <4>2 DEF ReceiveFrame
      <3> QED
        BY <3>1, <3>2
    <2> HIDE DEF q
    <2>3. Increasing(q) /\ \A i \in DOMAIN q : \E k \in DOMAIN inbound : q[i] = inbound[k]
      <3>1. CASE q = inbound
        BY <3>1 DEF IInv, FramesInOrder
      <3>2. CASE inbound # <<>> /\ q = Tail(inbound)
        <4>1. \A i \in DOMAIN q : i \in Nat /\ i + 1 \in DOMAIN inbound /\ q[i] = inbound[i + 1]
          BY <3>2, Shifted DEF IInv, TypeOK
        <4>2. \A i, j \in DOMAIN q : i < j => i + 1 < j + 1
          BY <4>1
        <4> QED
          BY <4>1, <4>2 DEF IInv, FramesInOrder, Increasing
      <3> QED
        BY <2>2, <3>1, <3>2
    <2>4. received' \in 1..MaxFrames
      BY <1>16, HelperAssumption DEF ReceiveFrame, IInv, TypeOK
    <2>5. \A i \in DOMAIN inbound' : \/ i \in DOMAIN q /\ inbound'[i] = q[i]
                                  \/ /\ inbound'[i] = received'
                                     /\ \A j \in DOMAIN inbound' : ~(i < j)
      BY <2>2, <2>4, Extended
    <2>6. \A i \in DOMAIN q : q[i] \in Nat /\ q[i] <= received /\ q[i] < received'
      <3> TAKE i \in DOMAIN q
      <3>1. q[i] \in Nat
        BY <2>2, HelperAssumption
      <3>2. q[i] <= received
        BY <2>3 DEF IInv, ReceivedInv
      <3> QED
        BY <2>1, <3>1, <3>2
    <2>7. Increasing(inbound)'
      <3> SUFFICES ASSUME NEW i \in DOMAIN inbound', NEW j \in DOMAIN inbound', i < j
                   PROVE  inbound'[i] < inbound'[j]
        BY DEF Increasing
      <3>1. i \in DOMAIN q /\ inbound'[i] = q[i]
        BY <2>5
      <3> QED
        BY <2>3, <2>5, <2>6, <3>1 DEF Increasing
    <2>8. \A f \in Nat : Precedes(f, inbound) /\ f <= received => Precedes(f, inbound')
      BY <2>1, <2>3, <2>5 DEF Precedes
    <2>9. FramesInOrder'
      <3>1. handled \in Nat /\ handled <= received
        BY DEF IInv, TypeOK, ReceivedInv
      <3>2. \A i \in DOMAIN flushing : flushing[i] \in Nat /\ flushing[i] <= received
        BY HelperAssumption DEF IInv, TypeOK, ReceivedInv
      <3>3. \A i \in DOMAIN toHelper : toHelper[i].type = "frame" =>
              toHelper[i].frame \in Nat /\ toHelper[i].frame <= received
        BY Messages DEF IInv, TypeOK, ReceivedInv
      <3> QED
        BY <2>1, <2>7, <2>8, <3>1, <3>2, <3>3 DEF IInv, FramesInOrder
    <2>10. ReceivedInv'
      <3>1. handled \in Nat
        BY DEF IInv, TypeOK
      <3>2. \A i \in DOMAIN flushing : flushing[i] \in Nat
        BY HelperAssumption DEF IInv, TypeOK
      <3>3. \A i \in DOMAIN toHelper : toHelper[i].type = "frame" => toHelper[i].frame \in Nat
        BY Messages DEF IInv, TypeOK
      <3> QED
        BY <2>1, <2>5, <2>6, <3>1, <3>2, <3>3 DEF IInv, ReceivedInv
    <2> QED
      BY <2>9, <2>10
  <1>17. CASE HelperMisspeaks
    <2>1. UNCHANGED <<handled, flushing, inbound, received, toHelper>>
      BY <1>17 DEF HelperMisspeaks, queue, helper, pipes
    <2> QED
      BY <2>1 DEF IInv, FramesInOrder, Increasing, Precedes, ReceivedInv
  <1>18. CASE UNCHANGED vars
    BY <1>18 DEF vars, IInv, queue, helper, pipes, FramesInOrder, Increasing, Precedes,
       ReceivedInv
  <1> QED
    BY <1>1, <1>2, <1>3, <1>4, <1>5, <1>6, <1>7, <1>8, <1>9, <1>10, <1>11,
       <1>12, <1>13, <1>14, <1>15, <1>16, <1>17, <1>18, Steps

----------------------------------------------------------------------------
\* The theorems.

LEMMA Inductive == Spec => []IInv
  <1>1. Init => IInv
    <2> SUFFICES ASSUME Init PROVE IInv
      OBVIOUS
    <2>1. TypeOK
      <3>1. QueueOK
        BY Empty, HelperAssumption DEF Init, QueueOK
      <3>2. PipesOK
        BY Empty DEF Init, PipesOK
      <3>3. BooleansOK
        BY DEF Init, BooleansOK
      <3>4. OthersOK
        BY HelperAssumption DEF Init, OthersOK
      <3> QED
        BY <3>1, <3>2, <3>3, <3>4, TypeParts
    <2>2. ProcInv
      BY DEF Init, ProcInv
    <2>3. ConfigInv /\ FrameInv /\ ReadyInv
      BY Empty DEF Init, ConfigInv, FrameInv, ReadyInv
    <2>4. FramesInOrder /\ ReceivedInv
      BY Empty DEF Init, FramesInOrder, Increasing, Precedes, ReceivedInv
    <2> QED
      BY <2>1, <2>2, <2>3, <2>4 DEF IInv
  <1>2. IInv /\ [Next]_vars => IInv'
    BY TypesKept, ProcKept, ConfigKept, FrameKept, ReadyKept, OrderKept DEF IInv
  <1> QED
    BY <1>1, <1>2, PTL DEF Spec

\* Every variable keeps its type; the helper is restarted no more often than
\* MAX_RESTART_ATTEMPTS, and no more than MAX_QUEUED_HOST_FRAMES frames wait.
THEOREM TypesHold == Spec => []TypeOK
  BY Inductive, PTL DEF IInv

\* A frame of the host is read by a helper that has the clipboard it is meant for.
THEOREM FramesMeetTheirConfig == Spec => []FramesFitConfig
  <1>1. IInv => FramesFitConfig
    <2> SUFFICES ASSUME IInv, toHelper # <<>>, Head(toHelper).type = "frame"
                 PROVE  engine # NoContext /\ engine = Head(toHelper).context
      BY DEF FramesFitConfig
    <2>1. 1 \in DOMAIN toHelper /\ Head(toHelper) = toHelper[1]
      BY Shifted DEF IInv, TypeOK
    <2> QED
      BY <2>1 DEF IInv, FrameInv
  <1> QED
    BY Inductive, <1>1, PTL

\* Frames of the host reach a clipboard in the order they arrived, none twice.
THEOREM FramesKeepTheirOrder == Spec => []FramesInOrder
  BY Inductive, PTL DEF IInv

----------------------------------------------------------------------------
\* The relay of frames.

\* What sequences hold.
LEMMA Holds == ASSUME NEW q PROVE \A x : x \in Elements(q) <=> \E i \in DOMAIN q : x = q[i]
  BY DEF Elements

LEMMA HoldsFrames ==
    ASSUME NEW q
    PROVE  \A f : f \in FramesOf(q) <=> \E m \in Elements(q) : m.type = "frame" /\ f = m.frame
  BY DEF FramesOf

LEMMA NothingHeld == Elements(<<>>) = {} /\ FramesOf(<<>>) = {}
  BY Empty DEF Elements, FramesOf

LEMMA Within == ASSUME NEW S, NEW q \in Seq(S) PROVE Elements(q) \subseteq S
  <1>1. \A x \in Elements(q) : \E i \in DOMAIN q : x = q[i]
    BY Holds, Zenon
  <1>2. \A i \in DOMAIN q : q[i] \in S
    OBVIOUS
  <1> QED
    BY <1>1, <1>2

LEMMA HeadHeld ==
    ASSUME NEW S, NEW q \in Seq(S), q # <<>>
    PROVE  Elements(q) = {Head(q)} \cup Elements(Tail(q))
  <1>1. /\ 1 \in DOMAIN q /\ Head(q) = q[1]
        /\ \A i \in DOMAIN Tail(q) : i + 1 \in DOMAIN q /\ Tail(q)[i] = q[i + 1]
    BY Shifted
  <1>2. \A i \in DOMAIN q : i # 1 => i - 1 \in DOMAIN Tail(q) /\ Tail(q)[i - 1] = q[i]
    OBVIOUS
  <1>3. \A x : (\E i \in DOMAIN q : x = q[i])
                 <=> x = q[1] \/ \E i \in DOMAIN Tail(q) : x = Tail(q)[i]
    BY <1>1, <1>2
  <1>4. \A x : x \in Elements(q) <=> x = Head(q) \/ x \in Elements(Tail(q))
    <2>1. \A x : x \in Elements(q) <=> \E i \in DOMAIN q : x = q[i]
      BY Holds, Zenon
    <2>2. \A x : x \in Elements(Tail(q)) <=> \E i \in DOMAIN Tail(q) : x = Tail(q)[i]
      BY Holds, Zenon
    <2> QED
      BY <1>1, <1>3, <2>1, <2>2
  <1> QED
    BY <1>4

LEMMA LastHeld ==
    ASSUME NEW S, NEW q \in Seq(S), NEW x \in S
    PROVE  Elements(Append(q, x)) = Elements(q) \cup {x}
  <1>1. /\ DOMAIN Append(q, x) = DOMAIN q \cup {Len(q) + 1}
        /\ \A i \in DOMAIN q : Append(q, x)[i] = q[i]
        /\ Append(q, x)[Len(q) + 1] = x
    OBVIOUS
  <1>2. \A y : y \in Elements(Append(q, x)) <=> y \in Elements(q) \/ y = x
    <2>1. \A y : y \in Elements(Append(q, x)) <=> \E i \in DOMAIN Append(q, x) : y = Append(q, x)[i]
      BY Holds, Zenon
    <2>2. \A y : y \in Elements(q) <=> \E i \in DOMAIN q : y = q[i]
      BY Holds, Zenon
    <2> QED
      BY <1>1, <2>1, <2>2
  <1> QED
    BY <1>2

LEMMA FrameQueued ==
    \A q \in Seq(1..MaxFrames), f \in 1..MaxFrames : Elements(Append(q, f)) = Elements(q) \cup {f}
  <1> DEFINE S == 1..MaxFrames
  <1> HIDE DEF S
  <1>1. \A q \in Seq(S), f \in S : Elements(Append(q, f)) = Elements(q) \cup {f}
    BY LastHeld
  <1> QED
    BY <1>1 DEF S

\* Only frames count in the pipe.
LEMMA FramesHeld ==
    ASSUME NEW q, NEW p, NEW m, Elements(q) = {m} \cup Elements(p)
    PROVE  FramesOf(q) = IF m.type = "frame" THEN {m.frame} \cup FramesOf(p) ELSE FramesOf(p)
  <1>1. \A f : f \in FramesOf(q) <=> (m.type = "frame" /\ f = m.frame) \/ f \in FramesOf(p)
    BY HoldsFrames
  <1> QED
    BY <1>1

\* What writing to the pipe and reading from it do to the frames in it.
LEMMA FramesWritten ==
    ASSUME NEW q \in Seq(ToHelper), NEW m \in ToHelper
    PROVE  FramesOf(Append(q, m)) =
             IF m.type = "frame" THEN {m.frame} \cup FramesOf(q) ELSE FramesOf(q)
  <1>1. Elements(Append(q, m)) = {m} \cup Elements(q)
    BY LastHeld
  <1> QED
    BY <1>1, FramesHeld

LEMMA FramesRead ==
    ASSUME NEW q \in Seq(ToHelper), q # <<>>
    PROVE  FramesOf(q) = IF Head(q).type = "frame" THEN {Head(q).frame} \cup FramesOf(Tail(q))
                                                   ELSE FramesOf(Tail(q))
  <1>1. Elements(q) = {Head(q)} \cup Elements(Tail(q))
    BY HeadHeld
  <1> QED
    BY <1>1, FramesHeld

LEMMA FrameHeld ==
    ASSUME NEW f
    PROVE  f \in FramesOf(toHelper) <=>
             \E i \in DOMAIN toHelper : toHelper[i].type = "frame" /\ toHelper[i].frame = f
  BY DEF FramesOf, Elements

\* Only so many frames can be under way.
LEMMA PendingFinite ==
    ASSUME IInv
    PROVE  IsFiniteSet(Pending)
  <1>1. /\ inbound \in Seq(1..MaxFrames) /\ flushing \in Seq(1..MaxFrames)
        /\ toHelper \in Seq(ToHelper)
    BY DEF IInv, TypeOK
  <1>2. Elements(inbound) \subseteq 1..MaxFrames /\ Elements(flushing) \subseteq 1..MaxFrames
    BY <1>1, Within, Zenon
  <1>3. FramesOf(toHelper) \subseteq 1..MaxFrames
    BY <1>1, Messages, FrameHeld
  <1>4. Pending \in SUBSET (1..MaxFrames) /\ IsFiniteSet(1..MaxFrames)
    BY <1>2, <1>3, HelperAssumption, FS_Interval DEF Pending
  <1> QED
    BY <1>4, FS_Subset

\* When the queue is full, so many frames are under way.
LEMMA QueueIsPending ==
    ASSUME IInv
    PROVE  Len(inbound) <= Cardinality(Pending)
  <1>1. inbound \in Seq(1..MaxFrames)
    BY DEF IInv, TypeOK
  <1>2. IsFiniteSet(Pending)
    BY PendingFinite
  <1>3. Len(inbound) \in Nat /\ DOMAIN inbound = 1..Len(inbound)
    BY <1>1
  <1>4. \A i, j \in DOMAIN inbound : inbound[i] = inbound[j] => i = j
    <2> SUFFICES ASSUME NEW i \in DOMAIN inbound, NEW j \in DOMAIN inbound,
                        inbound[i] = inbound[j], i < j
                 PROVE  FALSE
      BY <1>3
    <2>1. inbound[i] < inbound[j]
      BY DEF IInv, FramesInOrder, Increasing
    <2> QED
      BY <1>1, <2>1, HelperAssumption
  <1>5. inbound \in [1..Len(inbound) -> Pending]
    BY <1>1, <1>3 DEF Pending, Elements
  <1>6. inbound \in Injection(1..Len(inbound), Pending)
    BY <1>3, <1>4, <1>5 DEF Injection, IsInjective
  <1>7. Cardinality(1..Len(inbound)) <= Cardinality(Pending)
    BY <1>2, <1>6, FS_Injection
  <1>8. Cardinality(1..Len(inbound)) = Len(inbound)
    <2>1. 1 \in Int /\ Len(inbound) \in Int
      BY <1>3
    <2>2. Cardinality(1..Len(inbound)) = IF 1 > Len(inbound) THEN 0 ELSE Len(inbound) - 1 + 1
      BY <2>1, FS_Interval, Zenon
    <2> QED
      BY <1>3, <2>2
  <1> QED
    BY <1>7, <1>8

\* Every step is one of the relay's, or leaves it alone.
LEMMA StepsRelay ==
    ASSUME IInv, [Next]_vars
    PROVE  [Relay!Next]_<<received, Pending, handled, alive>>
  <1>0. /\ toHelper \in Seq(ToHelper) /\ flushing \in Seq(1..MaxFrames)
        /\ inbound \in Seq(1..MaxFrames) /\ alive \in BOOLEAN
        /\ received \in Nat /\ handled \in Nat
    BY DEF IInv, TypeOK
  <1>1. CASE HelperLost
    <2>1. /\ alive' = FALSE /\ toHelper' = <<>> /\ flushing' = <<>>
          /\ UNCHANGED <<received, inbound, handled>>
      BY <1>1, Gone DEF HelperLost
    <2>2. Pending' \subseteq Pending
      BY <2>1, NothingHeld DEF Pending
    <2> QED
      BY <2>1, <2>2 DEF Relay!Next, Relay!Lose
  <1>2. CASE Launched
    <2>1. toHelper = <<>>
      BY <1>2 DEF Launched, IInv, ProcInv
    <2>2. FramesOf(toHelper') = {}
      <3>1. CASE toHelper' = <<>>
        BY <3>1, NothingHeld
      <3>2. CASE toHelper' # <<>>
        <4>1. PICK m \in ToHelper : m.type # "frame" /\ toHelper' = <<m>>
          BY <1>2, <3>2, Messages DEF Launched, IInv, TypeOK
        <4> QED
          BY <4>1 DEF FramesOf, Elements
      <3> QED
        BY <3>1, <3>2
    <2>3. alive' = TRUE /\ UNCHANGED <<received, flushing, inbound, handled>>
      BY <1>2 DEF Launched, queue
    <2>4. Pending' = Pending
      BY <2>1, <2>2, <2>3, NothingHeld DEF Pending
    <2> QED
      BY <2>3, <2>4 DEF Relay!Next, Relay!Begin
  <1>3. CASE Crashed \/ DelayPasses \/ ExitNoticed \/ HostChanges \/ HelperMisspeaks \/ UNCHANGED vars
    <2>1. UNCHANGED <<received, toHelper, flushing, inbound, handled, alive>>
      BY <1>3 DEF Crashed, DelayPasses, ExitNoticed, HostChanges, HelperMisspeaks, vars,
                  queue, helper, pipes
    <2> QED
      BY <2>1 DEF Pending
  <1>4. CASE GotOutput
    <2>1. /\ flushing = <<>> /\ UNCHANGED <<received, toHelper, handled, alive>>
          /\ \/ flushing' = inbound /\ inbound' = <<>>
             \/ UNCHANGED <<flushing, inbound>>
      BY <1>4 DEF GotOutput, Idle, helper
    <2>2. Pending' = Pending
      BY <2>1, NothingHeld DEF Pending
    <2> QED
      BY <2>1, <2>2
  <1>5. CASE SentFrame
    <2>1. PICK m \in ToHelper :
            /\ m.type = "frame" /\ m.frame = flushing[1]
            /\ toHelper' \in {toHelper, Append(toHelper, m)} /\ (toHelper' # toHelper => alive)
      BY <1>5, FrameSent
    <2>2. UNCHANGED <<received, inbound, handled, alive>> /\ flushing # <<>> /\ flushing' = Tail(flushing)
      BY <1>5 DEF SentFrame, helper
    <2>3. Elements(flushing) = {m.frame} \cup Elements(flushing')
      BY <1>0, <2>1, <2>2, HeadHeld, Shifted
    <2>4. CASE alive
      <3>1. toHelper' = Append(toHelper, m)
        BY <1>5, <2>1, <2>4 DEF SentFrame, Written, Frame
      <3>2. FramesOf(toHelper') = {m.frame} \cup FramesOf(toHelper)
        BY <1>0, <2>1, <3>1, FramesWritten
      <3>3. Pending' = Pending
        BY <2>2, <2>3, <3>2 DEF Pending
      <3> QED
        BY <2>2, <3>3
    <2>5. CASE ~alive
      <3>1. toHelper' = toHelper
        BY <2>1, <2>5
      <3>2. Pending' \subseteq Pending
        BY <2>2, <2>3, <3>1 DEF Pending
      <3> QED
        BY <1>0, <2>2, <2>5, <3>2 DEF Relay!Next, Relay!Lose
    <2> QED
      BY <2>4, <2>5
  <1>6. CASE DroppedFrames
    <2>1. /\ alive = FALSE /\ flushing' = <<>>
          /\ UNCHANGED <<received, inbound, handled, alive, toHelper>>
      BY <1>0, <1>6 DEF DroppedFrames, helper, pipes, IInv, ProcInv
    <2>2. Pending' \subseteq Pending
      BY <2>1, NothingHeld DEF Pending
    <2> QED
      BY <2>1, <2>2 DEF Relay!Next, Relay!Lose
  <1>7. CASE SentConfig \/ Told
    <2>1. UNCHANGED <<received, flushing, inbound, handled, alive>>
      BY <1>7 DEF SentConfig, Told, queue, helper
    <2>2. PICK m \in ToHelper : m.type # "frame" /\ toHelper' \in {toHelper, Append(toHelper, m)}
      <3>1. CASE SentConfig
        <4>1. host \in Contexts /\ configSeq' \in Nat
          BY <3>1 DEF SentConfig, IInv, TypeOK
        <4>2. Configure(configSeq', host) \in ToHelper /\ Configure(configSeq', host).type # "frame"
          BY <4>1, Messages
        <4>3. toHelper' \in {toHelper, Append(toHelper, Configure(configSeq', host))}
          BY <3>1 DEF SentConfig, Written
        <4> QED
          BY <4>2, <4>3
      <3>2. CASE Told
        BY <3>2, Messages DEF Told
      <3> QED
        BY <1>7, <3>1, <3>2
    <2>3. FramesOf(toHelper') = FramesOf(toHelper)
      BY <1>0, <2>2, FramesWritten
    <2> QED
      BY <2>1, <2>3 DEF Pending
  <1>8. CASE TookConfig \/ RefusedConfig
    <2>1. /\ UNCHANGED <<received, flushing, inbound, handled, alive>>
          /\ toHelper # <<>> /\ toHelper' = Tail(toHelper) /\ Head(toHelper).type # "frame"
      BY <1>8 DEF TookConfig, RefusedConfig, ReadLine, queue
    <2>2. FramesOf(toHelper') = FramesOf(toHelper)
      BY <1>0, <2>1, FramesRead
    <2> QED
      BY <2>1, <2>2 DEF Pending
  <1>9. CASE TookFrame
    <2>1. /\ UNCHANGED <<received, flushing, inbound, alive>> /\ alive
          /\ toHelper # <<>> /\ toHelper' = Tail(toHelper) /\ Head(toHelper).type = "frame"
      BY <1>9 DEF TookFrame, ReadLine, queue
    <2> DEFINE f == Head(toHelper).frame
    <2>2. /\ 1 \in DOMAIN toHelper /\ Head(toHelper) = toHelper[1]
          /\ \A i \in DOMAIN toHelper' : i + 1 \in DOMAIN toHelper /\ 1 < i + 1
                                       /\ toHelper'[i] = toHelper[i + 1]
      BY <1>0, <2>1, Shifted
    <2>3. handled' = f /\ f \in 1..MaxFrames
      BY <1>0, <1>9, <2>1, <2>2, Messages DEF TookFrame, IInv, FrameInv
    <2>4. FramesOf(toHelper) = {f} \cup FramesOf(toHelper')
      BY <1>0, <2>1, FramesRead
    <2>5. handled < f /\ (\A g \in Elements(flushing) \cup Elements(inbound) : f < g)
      BY <2>1, <2>2 DEF IInv, FramesInOrder, Precedes, Elements
    <2>6. \A g \in FramesOf(toHelper') : f < g
      BY <2>1, <2>2 DEF IInv, FramesInOrder, FramesOf, Elements
    <2>7. f \in Nat
      BY <2>3, HelperAssumption
    <2>8. Pending' = FramesOf(toHelper') \cup Elements(flushing) \cup Elements(inbound)
      BY <2>1 DEF Pending
    <2> HIDE DEF f
    <2>9. Pending = {f} \cup Pending' /\ f \notin Pending'
      BY <2>4, <2>5, <2>6, <2>7, <2>8 DEF Pending
    <2>10. \A g \in Pending : f <= g
      BY <2>5, <2>6, <2>7, <2>8, <2>9
    <2> QED
      BY <2>1, <2>3, <2>5, <2>9, <2>10 DEF Relay!Next, Relay!Deliver
  <1>10. CASE Ended
    <2>1. /\ alive' = FALSE /\ toHelper' = <<>>
          /\ UNCHANGED <<received, flushing, inbound, handled>>
      BY <1>10 DEF Ended, queue
    <2>2. Pending' \subseteq Pending
      BY <2>1, NothingHeld DEF Pending
    <2> QED
      BY <2>1, <2>2 DEF Relay!Next, Relay!Lose
  <1>11. CASE ReceiveFrame
    <2>1. /\ received' = received + 1 /\ received' \in 1..MaxFrames
          /\ UNCHANGED <<flushing, toHelper, handled, alive>>
      BY <1>0, <1>11, HelperAssumption DEF ReceiveFrame, helper, pipes
    <2>2. CASE Len(inbound) < MaxQueued
      <3>1. inbound' = Append(inbound, received')
        BY <1>11, <2>2 DEF ReceiveFrame
      <3>2. Elements(inbound') = Elements(inbound) \cup {received'}
        BY <1>0, <2>1, <3>1, FrameQueued
      <3>3. Pending' = Pending \cup {received'}
        BY <2>1, <3>2 DEF Pending
      <3> QED
        BY <2>1, <3>3 DEF Relay!Next, Relay!Arrive
    <2>3. CASE ~(Len(inbound) < MaxQueued)
      <3>1. inbound # <<>>
        BY <2>3, Empty, HelperAssumption
      <3>2. inbound' = Append(Tail(inbound), received')
        BY <1>11, <2>3 DEF ReceiveFrame
      <3> DEFINE f == Head(inbound)
      <3>3. /\ 1 \in DOMAIN inbound /\ f = inbound[1] /\ f \in 1..MaxFrames
            /\ Tail(inbound) \in Seq(1..MaxFrames)
            /\ \A i \in DOMAIN Tail(inbound) : i + 1 \in DOMAIN inbound /\ 1 < i + 1
                                             /\ Tail(inbound)[i] = inbound[i + 1]
        BY <1>0, <3>1, Shifted
      <3>4. Elements(inbound') = Elements(Tail(inbound)) \cup {received'}
        BY <2>1, <3>2, <3>3, FrameQueued
      <3>5. Elements(inbound) = {f} \cup Elements(Tail(inbound))
        BY <1>0, <3>1, HeadHeld
      <3>6. \A g \in Elements(Tail(inbound)) : f < g
        BY <3>3 DEF IInv, FramesInOrder, Increasing, Elements
      <3>7. \A g \in Elements(flushing) : g < f
        BY <3>3 DEF IInv, FramesInOrder, Precedes, Elements
      <3>8. \A g \in FramesOf(toHelper) : g < f
        BY <3>3 DEF IInv, FramesInOrder, Precedes, FramesOf, Elements
      <3>9. f \in Nat
        BY <3>3, HelperAssumption
      <3> HIDE DEF f
      <3>10. f \in Pending /\ Pending' = (Pending \ {f}) \cup {received'}
        BY <2>1, <3>4, <3>5, <3>6, <3>7, <3>8, <3>9 DEF Pending
      <3>11. Cardinality(Pending) >= MaxQueued
        <4>1. Len(inbound) >= MaxQueued
          BY <1>0, <2>3, HelperAssumption
        <4>2. Len(inbound) \in Nat /\ MaxQueued \in Nat /\ Cardinality(Pending) \in Nat
          BY <1>0, HelperAssumption, PendingFinite, FS_CardinalityType
        <4> QED
          BY <4>1, <4>2, QueueIsPending
      <3> QED
        BY <2>1, <3>10, <3>11 DEF Relay!Next, Relay!Arrive, Relay!Overflows, Relay!Cardinality, Cardinality
    <2> QED
      BY <2>2, <2>3
  <1> QED
    BY <1>1, <1>2, <1>3, <1>4, <1>5, <1>6, <1>7, <1>8, <1>9, <1>10, <1>11, Steps

\* The queue, the pipe and the helper implement a relay of frames.
THEOREM HelperIsFrameRelay == Spec => IsFrameRelay
  <1>1. Init => Relay!Init
    BY NothingHeld DEF Init, Relay!Init, Pending
  <1>2. IInv /\ [Next]_vars => [Relay!Next]_<<received, Pending, handled, alive>>
    BY StepsRelay
  <1> QED
    BY <1>1, <1>2, Inductive, PTL DEF Spec, IsFrameRelay, Relay!Spec

=============================================================================
