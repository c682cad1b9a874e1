-------------------------- MODULE ClipboardHelper --------------------------
(***************************************************************************)
(* The clipboard runs in a process of its own: the client of it in the     *)
(* session (src/app/streaming/clipboardhelperclient.cpp), the helper       *)
(* (src/clipboard-helper/main.cpp) and the two pipes between them.  Frames *)
(* of the host arrive on the connection's thread and wait in a queue until *)
(* the helper has accepted a configuration; a helper that dies, or says    *)
(* what is not the protocol's, is started again a few times.               *)
(*                                                                         *)
(* Frames are numbered in the order they arrive.  Sequence numbers are     *)
(* those of configurations.  The clipboard engine in the helper is         *)
(* ClipboardSync's; what it sends, and the helper's error messages, change *)
(* nothing here and are left out.  The backlog of 4 MiB is out of reach of *)
(* single frames: QProcess takes every write while the helper runs.        *)
(***************************************************************************)
EXTENDS Integers, Sequences

CONSTANTS Contexts,        \* addresses and certificates of the host
          Readable,        \* those whose certificates the helper can read
          NoContext,
          MaxQueued,       \* MAX_QUEUED_HOST_FRAMES
          MaxRestarts,     \* MAX_RESTART_ATTEMPTS
          MaxFrames,       \* bound: frames of the host
          MaxConfigs       \* bound: configurations that updateHostContext() sends

ASSUME HelperAssumption ==
    /\ NoContext \notin Contexts /\ Readable \subseteq Contexts
    /\ MaxQueued \in Nat \ {0} /\ MaxRestarts \in Nat
    /\ MaxFrames \in Nat /\ MaxConfigs \in Nat

VARIABLES
    mode,       \* new, on, disabled, stopping, stopped; crashed: the program is gone
    host,       \* what the NvComputer says; NoContext: not complete yet
    proc,       \* m_Process as it knows itself: none, running, exited
    ready,      \* m_HelperReady
    configSeq,  \* m_ConfigSequence
    sent,       \* the context of the last configuration sent to this helper
    attempts,   \* m_RestartAttempts
    delayed,    \* m_NextRestartTicks lies ahead
    received,   \* frames of the host so far
    inbound,    \* m_InboundFrames
    flushing,   \* frames swapped out of it and not written yet
    alive,      \* the helper process runs
    engine,     \* the context of the helper's ClipboardSync; NoContext: there is none
    handled,    \* the last frame given to a ClipboardSync
    toHelper,   \* standard input of the helper
    toClient    \* standard output of the helper: sequence numbers of READY, or garbage

restart == <<mode, attempts, delayed>>
config  == <<configSeq, sent>>
queue   == <<received, inbound, flushing>>
pipes   == <<toHelper, toClient>>
helper  == <<alive, engine, handled>>
vars    == <<host, proc, ready, restart, config, queue, helper, pipes>>

Garbage == 0
Configure(n, c) == [type |-> "configure", seq |-> n, context |-> c]
Frame(f, c) == [type |-> "frame", frame |-> f, context |-> c]
Stop == [type |-> "stop"]

\* start() has been called; it begins like a restart without a delay, or has found
\* no helper to start.
Init ==
    /\ mode \in {"on", "disabled"} /\ host \in Contexts \cup {NoContext}
    /\ proc = "none" /\ ready = FALSE /\ configSeq = 0 /\ sent = NoContext
    /\ attempts = 0 /\ delayed = FALSE
    /\ received = 0 /\ inbound = <<>> /\ flushing = <<>>
    /\ alive = FALSE /\ engine = NoContext /\ handled = 0
    /\ toHelper = <<>> /\ toClient = <<>>

----------------------------------------------------------------------------
\* The helper process of the client, on the session's main thread.

\* m_Process is deleted; its helper has been killed, or was dead.
NoHelper ==
    /\ proc' = "none" /\ alive' = FALSE /\ ready' = FALSE
    /\ engine' = NoContext /\ sent' = NoContext
    /\ toHelper' = <<>> /\ toClient' = <<>>
    /\ UNCHANGED handled

GivesUp == attempts >= MaxRestarts

\* scheduleRestart().
ScheduleRestart ==
    /\ mode' = IF mode = "on" /\ GivesUp THEN "disabled" ELSE mode
    /\ attempts' = IF mode' = "on" THEN attempts + 1 ELSE attempts
    /\ delayed' = (mode' = "on")

RestartHelper == NoHelper /\ ScheduleRestart

\* Once its delay has passed (the first start has none).
MutMayRestart == ~delayed /\ attempts < MaxRestarts
MayRestart == ~delayed

\* maybeRestart() and startProcess(): the new helper gets the configuration if
\* there is one.
StartProcess ==
    /\ mode = "on" /\ proc = "none" /\ MayRestart
    /\ \/ /\ proc' = "running" /\ alive' = TRUE /\ ready' = FALSE
          /\ engine' = NoContext /\ toClient' = <<>> /\ sent' = host
          /\ configSeq' = IF host = NoContext THEN configSeq ELSE configSeq + 1
          /\ toHelper' = IF host = NoContext THEN <<>> ELSE <<Configure(configSeq', host)>>
          /\ UNCHANGED <<restart, handled>>
       \/ RestartHelper /\ UNCHANGED configSeq
    /\ UNCHANGED <<host, queue>>

DelayPasses ==
    /\ delayed /\ delayed' = FALSE
    /\ UNCHANGED <<host, proc, ready, mode, attempts, config, queue, helper, pipes>>

\* QProcess learns, in a wait or in the event loop, that the helper is dead.
ExitNoticed ==
    /\ proc = "running" /\ ~alive
    /\ proc' = "exited"
    /\ UNCHANGED <<host, ready, restart, config, queue, helper, pipes>>

----------------------------------------------------------------------------
\* writeLine(): what is written to a dead helper is lost, or the write fails.
Written(m) == toHelper' = IF alive THEN Append(toHelper, m) ELSE toHelper
WriteFails == ~alive /\ RestartHelper

Idle == flushing = <<>> /\ mode \in {"on", "disabled"}

\* updateHostContext() and sendCurrentConfig(), when a connection is up.
UpdateHostContext ==
    /\ Idle /\ mode = "on" /\ proc = "running"
    /\ host # NoContext /\ configSeq < MaxConfigs
    /\ configSeq' = configSeq + 1
    /\ \/ /\ Written(Configure(configSeq', host))
          /\ ready' = FALSE /\ sent' = host
          /\ UNCHANGED <<restart, proc, helper, toClient>>
       \/ WriteFails
    /\ UNCHANGED <<host, queue>>

\* The host is polled meanwhile.
HostChanges ==
    /\ mode # "stopped"
    /\ host' \in Contexts
    /\ UNCHANGED <<proc, ready, restart, config, queue, helper, pipes>>

\* handleIncomingFrame(), on the connection's thread: of too many the oldest goes.
ReceiveFrame ==
    /\ mode \in {"on", "disabled", "stopping"} /\ received < MaxFrames
    /\ received' = received + 1
    /\ inbound' = Append(IF Len(inbound) < MaxQueued THEN inbound ELSE Tail(inbound),
                         received')
    /\ UNCHANGED <<host, proc, ready, restart, config, flushing, helper, pipes>>

----------------------------------------------------------------------------
\* processPendingMessages() of a helper that was started.

Misspoken == \E i \in DOMAIN toClient : toClient[i] = Garbage

\* Mutant: any READY will do.
MutIsCurrent(n) == TRUE
\* A READY of an older configuration is stale.
IsCurrent(n) == n = configSeq

SaysReady == \E i \in DOMAIN toClient : IsCurrent(toClient[i])

\* The helper has exited: what it last said is read first.  An error in that
\* deletes the process, whose exit code is asked for next.
Exited ==
    /\ Idle /\ proc = "exited"
    /\ IF Misspoken
       THEN /\ mode' = "crashed"
            /\ UNCHANGED <<proc, ready, attempts, delayed, sent, helper, pipes>>
       ELSE RestartHelper
    /\ UNCHANGED <<host, configSeq, queue>>

\* The helper runs (for all we know): its output is read, and a helper that is
\* ready gets the frames.
Read ==
    /\ Idle /\ proc = "running"
    /\ IF Misspoken
       THEN RestartHelper /\ UNCHANGED queue
       ELSE /\ ready' = (ready \/ SaysReady) /\ toClient' = <<>>
            /\ IF ready' THEN flushing' = inbound /\ inbound' = <<>>
                         ELSE UNCHANGED <<flushing, inbound>>
            /\ UNCHANGED <<proc, restart, sent, helper, toHelper, received>>
    /\ UNCHANGED <<host, configSeq>>

\* Mutant: frames that could not be written go back, behind those that came since.
MutUnwritten == inbound \o flushing
\* Frames that could not be written are dropped.
Unwritten == inbound

\* flushQueuedHostFrames(), one frame at a time, with the lock released.
WriteFrame ==
    /\ flushing # <<>>
    /\ \/ /\ proc = "running" /\ Written(Frame(Head(flushing), sent))
          /\ flushing' = Tail(flushing)
          /\ UNCHANGED <<inbound, proc, ready, restart, sent, helper, toClient>>
       \/ /\ proc = "running" /\ WriteFails
          /\ flushing' = <<>> /\ inbound' = Unwritten
       \/ /\ proc = "exited"
          /\ flushing' = <<>> /\ inbound' = Unwritten
          /\ UNCHANGED <<proc, ready, restart, sent, helper, pipes>>
    /\ UNCHANGED <<host, configSeq, received>>

ProcessPendingMessages == StartProcess \/ Exited \/ Read \/ WriteFrame

\* stop(), at the end of the session: the helper is told, ...
BeginStop ==
    /\ Idle
    /\ mode' = "stopping" /\ ready' = FALSE /\ delayed' = FALSE
    /\ IF proc = "running" THEN Written(Stop) ELSE UNCHANGED toHelper
    /\ UNCHANGED <<host, proc, attempts, config, queue, helper, toClient>>

\* ... waited for, and killed after a second.
EndStop ==
    /\ mode = "stopping"
    /\ mode' = "stopped" /\ NoHelper
    /\ UNCHANGED <<host, attempts, delayed, configSeq, queue>>

----------------------------------------------------------------------------
\* The helper.

HelperEnds ==
    /\ alive' = FALSE /\ engine' = NoContext /\ toHelper' = <<>>
    /\ UNCHANGED <<handled, toClient>>

\* handleConfig(), handleLine() of a frame (without an engine it is refused), and
\* the end on stop.
HandleLine(m) ==
    \/ /\ m.type = "configure" /\ m.context \in Readable
       /\ engine' = m.context /\ toClient' = Append(toClient, m.seq)
       /\ toHelper' = Tail(toHelper) /\ UNCHANGED <<alive, handled>>
    \/ /\ m.type = "configure" /\ m.context \notin Readable
       /\ toHelper' = Tail(toHelper) /\ UNCHANGED <<helper, toClient>>
    \/ /\ m.type = "frame"
       /\ handled' = IF engine = NoContext THEN handled ELSE m.frame
       /\ toHelper' = Tail(toHelper) /\ UNCHANGED <<alive, engine, toClient>>
    \/ m.type = "stop" /\ HelperEnds

HelperReads ==
    /\ alive /\ toHelper # <<>>
    /\ HandleLine(Head(toHelper))
    /\ UNCHANGED <<host, proc, ready, restart, config, queue>>

HelperMisspeaks ==
    /\ alive /\ ~Misspoken
    /\ toClient' = Append(toClient, Garbage)
    /\ UNCHANGED <<host, proc, ready, restart, config, queue, helper, toHelper>>

HelperDies ==
    /\ alive /\ HelperEnds
    /\ UNCHANGED <<host, proc, ready, restart, config, queue>>

Next ==
    \/ ProcessPendingMessages \/ DelayPasses \/ ExitNoticed
    \/ UpdateHostContext \/ HostChanges \/ ReceiveFrame
    \/ BeginStop \/ EndStop
    \/ HelperReads \/ HelperMisspeaks \/ HelperDies

Spec == Init /\ [][Next]_vars

\* The session's loop goes round, time passes, and the helper is scheduled.
Fairness ==
    /\ WF_vars(ProcessPendingMessages) /\ WF_vars(DelayPasses) /\ WF_vars(ExitNoticed)
    /\ WF_vars(EndStop) /\ WF_vars(HelperReads)

FairSpec == Spec /\ Fairness

----------------------------------------------------------------------------
ToHelper ==
    {Stop} \cup [type : {"configure"}, seq : Nat, context : Contexts]
           \cup [type : {"frame"}, frame : 1..MaxFrames, context : Contexts \cup {NoContext}]

\* Every variable keeps its type, and the helper is restarted no more often than
\* it may be.
TypeOK ==
    /\ mode \in {"on", "disabled", "stopping", "stopped", "crashed"}
    /\ host \in Contexts \cup {NoContext} /\ sent \in Contexts \cup {NoContext}
    /\ proc \in {"none", "running", "exited"}
    /\ ready \in BOOLEAN /\ delayed \in BOOLEAN /\ alive \in BOOLEAN
    /\ configSeq \in Nat
    /\ attempts \in 0..MaxRestarts
    /\ received \in 0..MaxFrames /\ handled \in 0..MaxFrames
    /\ inbound \in Seq(1..MaxFrames) /\ Len(inbound) <= MaxQueued
    /\ flushing \in Seq(1..MaxFrames) /\ Len(flushing) <= MaxQueued
    /\ engine \in Contexts \cup {NoContext}
    /\ toHelper \in Seq(ToHelper) /\ toClient \in Seq(Nat)

\* A frame is given to the clipboard of the host it was meant for: the helper has
\* a clipboard by then, and it is that of the last configuration sent before the
\* frame, not one that a configuration refused or not read yet should replace.
FramesFitConfig ==
    toHelper # <<>> /\ Head(toHelper).type = "frame" =>
        engine # NoContext /\ engine = Head(toHelper).context

Increasing(q) == \A i, j \in DOMAIN q : i < j => q[i] < q[j]
Precedes(f, q) == \A i \in DOMAIN q : f < q[i]

\* Frames of the host reach a clipboard in the order they arrived, and none twice,
\* through overflow, restarts and failed writes: the newest copy wins.
FramesInOrder ==
    /\ Increasing(flushing) /\ Increasing(inbound)
    /\ \A i \in DOMAIN flushing : Precedes(flushing[i], inbound)
    /\ Precedes(handled, flushing) /\ Precedes(handled, inbound)
    /\ \A i \in DOMAIN toHelper : toHelper[i].type = "frame" =>
        /\ handled < toHelper[i].frame
        /\ \A j \in DOMAIN toHelper :
              i < j /\ toHelper[j].type = "frame" => toHelper[i].frame < toHelper[j].frame
        /\ Precedes(toHelper[i].frame, flushing) /\ Precedes(toHelper[i].frame, inbound)

Elements(q) == {q[i] : i \in DOMAIN q}
FramesOf(q) == {m.frame : m \in {n \in Elements(q) : n.type = "frame"}}

\* Frames on their way: to the helper, to the pipe, or waiting for a helper.
Pending == FramesOf(toHelper) \cup Elements(flushing) \cup Elements(inbound)

Relay == INSTANCE FrameRelay
             WITH Capacity <- MaxQueued, arrived <- received, pending <- Pending,
                  delivered <- handled, up <- alive

\* The queue, the pipe and the helper are a relay of frames: the oldest is
\* delivered first, and while the helper lives none is lost but to the limit of
\* the queue, neither to a reconfiguration nor to a helper without a clipboard.
IsFrameRelay == Relay!Spec

\* Frames do not wait for ever while clipboard sync is on and the helper, whenever
\* it runs, has been sent a configuration it can read: it gets ready, or is
\* restarted, or sync is disabled after as many attempts as there are.
FramesMoveOn ==
    <>[](proc = "running" => sent \in Readable) => []<>(inbound = <<>> \/ mode # "on")
=============================================================================
