----------------------- MODULE SessionHandoverProofs -----------------------
(***************************************************************************)
(* Proofs about the handover from one session to the next, for any number  *)
(* of sessions: they take turns as ActiveSession says, the callbacks of a  *)
(* connection find their session, and a Session is deleted last.           *)
(***************************************************************************)
EXTENDS SessionHandover, Integers, TLAPS

\* What an event that is posted says about the session it is of.
Fits(e, ph, tk) ==
    \/ e = QuitEvent
    \/ /\ e.of \in Sessions
       /\ ph[e.of] \in {"started", "executing", "ended"}
       /\ e.kind = "exec" => ph[e.of] = "started"
       /\ e.kind = "stopMicrophone" => tk[e.of] = "waitMain"
       /\ e.kind = "readyForDeletion" => ph[e.of] = "ended" /\ tk[e.of] = "done"

\* What two events that are posted, e before f, say about each other.
Ordered(e, f) ==
    /\ e.kind \in {"exec", "stopMicrophone"} => e # f
    /\ e.kind = "readyForDeletion" => f.of # e.of

PostedOK ==
    /\ \A i \in 1 .. Len(posted) : Fits(posted[i], phase, task)
    /\ \A i, j \in 1 .. Len(posted) : i < j => Ordered(posted[i], posted[j])

\* Session objects and their cleanup tasks.
PhasesFitTasks ==
    \A s \in Sessions :
        /\ phase[s] \in {"ended", "deleted"} \/ task[s] = "none"
        /\ phase[s] = "ended" => task[s] # "none"
        /\ phase[s] = "deleted" => task[s] \in {"none", "done"}

\* What the main thread is about to work on.
MainFits ==
    /\ timer # NoSession => phase[timer] = "initialized"
    /\ mainpc = "acquire" => cur \in Sessions /\ phase[cur] = "initialized" /\ timer = NoSession
    /\ mainpc = "exec" => cur \in Sessions /\ phase[cur] = "executing"

\* One session holds the semaphore and is the active one.
LockFits ==
    \A s \in Sessions : Holds(s) =>
        /\ ~sem
        /\ task[s] # "release" => active = s
        /\ \A t \in Sessions : Holds(t) => t = s

\* A connection lives from its thread's start to its task's LiStopConnection().
ConnectionsFit ==
    \A s \in Sessions : conn[s] =>
        \/ phase[s] \in {"started", "executing"}
        \/ phase[s] = "ended" /\ task[s] \in {"notify", "stopMicrophone", "waitMain", "stopConnection"}

IInv == TypeOK /\ PostedOK /\ PhasesFitTasks /\ MainFits /\ LockFits /\ ConnectionsFit

----------------------------------------------------------------------------
\* The posted events.

\* Taking the first event leaves the others in order.
LEMMA DeliveredOrder ==
    ASSUME NEW q \in Seq(Events), q # <<>>,
           \A i, j \in 1 .. Len(q) : i < j => Ordered(q[i], q[j])
    PROVE  /\ Head(q) = q[1] /\ Len(q) > 0
           /\ Tail(q) \in Seq(Events)
           /\ Len(Tail(q)) = Len(q) - 1
           /\ \A i \in 1 .. Len(Tail(q)) : Tail(q)[i] = q[i + 1] /\ i + 1 \in 1 .. Len(q)
           /\ \A i \in 1 .. Len(Tail(q)) : Ordered(q[1], Tail(q)[i])
           /\ \A i, j \in 1 .. Len(Tail(q)) : i < j => Ordered(Tail(q)[i], Tail(q)[j])
  <1>1. Len(q) \in Nat /\ Len(q) > 0
    OBVIOUS
  <1>2. Head(q) = q[1] /\ Tail(q) \in Seq(Events) /\ Len(Tail(q)) = Len(q) - 1
    OBVIOUS
  <1>3. \A i \in 1 .. Len(Tail(q)) : Tail(q)[i] = q[i + 1] /\ i + 1 \in 1 .. Len(q)
    BY <1>1, <1>2
  <1>4. \A i \in 1 .. Len(Tail(q)) : Ordered(q[1], Tail(q)[i])
    BY <1>1, <1>2, <1>3
  <1>5. \A i, j \in 1 .. Len(Tail(q)) : i < j => Ordered(Tail(q)[i], Tail(q)[j])
    BY <1>1, <1>2, <1>3
  <1> QED
    BY <1>1, <1>2, <1>3, <1>4, <1>5

\* A new event comes after those that are there.
LEMMA PostedOrder ==
    ASSUME NEW q \in Seq(Events), NEW e \in Events,
           \A i, j \in 1 .. Len(q) : i < j => Ordered(q[i], q[j]),
           \A i \in 1 .. Len(q) : Ordered(q[i], e)
    PROVE  /\ Append(q, e) \in Seq(Events)
           /\ Len(Append(q, e)) = Len(q) + 1
           /\ \A i \in 1 .. Len(q) : Append(q, e)[i] = q[i]
           /\ Append(q, e)[Len(q) + 1] = e
           /\ \A i, j \in 1 .. Len(q) + 1 : i < j => Ordered(Append(q, e)[i], Append(q, e)[j])
  <1>1. Len(q) \in Nat
    OBVIOUS
  <1>2. /\ Append(q, e) \in Seq(Events)
        /\ Len(Append(q, e)) = Len(q) + 1
        /\ \A i \in 1 .. Len(q) : Append(q, e)[i] = q[i]
        /\ Append(q, e)[Len(q) + 1] = e
    OBVIOUS
  <1>3. ASSUME NEW i \in 1 .. Len(q) + 1, NEW j \in 1 .. Len(q) + 1, i < j
        PROVE  Ordered(Append(q, e)[i], Append(q, e)[j])
    <2>1. CASE j = Len(q) + 1
      BY <1>1, <1>2, <1>3, <2>1
    <2>2. CASE j # Len(q) + 1
      BY <1>1, <1>2, <1>3, <2>2
    <2> QED
      BY <2>1, <2>2
  <1> QED
    BY <1>2, <1>3

\* The same three ways for a step to touch the posted events, as facts about
\* PostedOK.
LEMMA DeliveredOK ==
    ASSUME TypeOK, PostedOK, posted # <<>>, posted' = Tail(posted),
           \A e \in Events : Fits(e, phase, task) /\ Ordered(Head(posted), e) => Fits(e, phase', task')
    PROVE  PostedOK' /\ posted' \in Seq(Events)
  <1>1. posted \in Seq(Events) /\ \A i \in 1 .. Len(posted) : posted[i] \in Events
    BY DEF TypeOK
  <1>2. \A i, j \in 1 .. Len(posted) : i < j => Ordered(posted[i], posted[j])
    BY DEF PostedOK
  <1>3. /\ Head(posted) = posted[1]
        /\ Tail(posted) \in Seq(Events)
        /\ \A i \in 1 .. Len(Tail(posted)) :
               Tail(posted)[i] = posted[i + 1] /\ i + 1 \in 1 .. Len(posted)
        /\ \A i \in 1 .. Len(Tail(posted)) : Ordered(posted[1], Tail(posted)[i])
        /\ \A i, j \in 1 .. Len(Tail(posted)) :
               i < j => Ordered(Tail(posted)[i], Tail(posted)[j])
    BY <1>1, <1>2, DeliveredOrder
  <1>4. \A i \in 1 .. Len(Tail(posted)) : Fits(Tail(posted)[i], phase', task')
    <2> TAKE i \in 1 .. Len(Tail(posted))
    <2>1. Tail(posted)[i] = posted[i + 1] /\ i + 1 \in 1 .. Len(posted)
      BY <1>3
    <2>2. Tail(posted)[i] \in Events /\ Fits(Tail(posted)[i], phase, task)
      BY <1>1, <2>1 DEF PostedOK
    <2>3. Ordered(Head(posted), Tail(posted)[i])
      BY <1>3
    <2> QED
      BY <2>2, <2>3
  <1> QED
    BY <1>3, <1>4 DEF PostedOK

\* One event is posted.
LEMMA PostedOneOK ==
    ASSUME TypeOK, PostedOK, NEW e \in Events, Post(e), Fits(e, phase', task'),
           \A f \in Events :
               Fits(f, phase, task) => Fits(f, phase', task') /\ Ordered(f, e)
    PROVE  PostedOK' /\ posted' \in Seq(Events)
  <1>1. posted \in Seq(Events) /\ \A i \in 1 .. Len(posted) : posted[i] \in Events
    BY DEF TypeOK
  <1>2. \A i \in 1 .. Len(posted) : Fits(posted[i], phase', task') /\ Ordered(posted[i], e)
    BY <1>1 DEF PostedOK
  <1>3. \A i, j \in 1 .. Len(posted) : i < j => Ordered(posted[i], posted[j])
    BY DEF PostedOK
  <1>4. /\ posted' \in Seq(Events)
        /\ Len(posted') = Len(posted) + 1
        /\ \A i \in 1 .. Len(posted) : posted'[i] = posted[i]
        /\ posted'[Len(posted) + 1] = e
        /\ \A i, j \in 1 .. Len(posted) + 1 : i < j => Ordered(posted'[i], posted'[j])
    BY <1>1, <1>2, <1>3, PostedOrder DEF Post
  <1>5. Len(posted) \in Nat
    BY <1>1
  <1>6. \A i \in 1 .. Len(posted') : Fits(posted'[i], phase', task')
    <2> TAKE i \in 1 .. Len(posted')
    <2>1. CASE i = Len(posted) + 1
      BY <1>4, <2>1
    <2>2. CASE i # Len(posted) + 1
      <3>1. i \in 1 .. Len(posted)
        BY <1>4, <1>5, <2>2
      <3> QED
        BY <3>1, <1>2, <1>4
    <2> QED
      BY <2>1, <2>2
  <1> QED
    BY <1>4, <1>6 DEF PostedOK

\* An event is delivered and its handler posts a quit.
LEMMA QuitPostedOK ==
    ASSUME TypeOK, PostedOK, posted # <<>>, posted' = Append(Tail(posted), QuitEvent),
           phase' = phase, task' = task
    PROVE  PostedOK' /\ posted' \in Seq(Events)
  <1> DEFINE q == Tail(posted)
  <1>1. posted \in Seq(Events) /\ \A i \in 1 .. Len(posted) : posted[i] \in Events
    BY DEF TypeOK
  <1>2. \A i, j \in 1 .. Len(posted) : i < j => Ordered(posted[i], posted[j])
    BY DEF PostedOK
  <1>3. /\ q \in Seq(Events)
        /\ \A i \in 1 .. Len(q) : q[i] = posted[i + 1] /\ i + 1 \in 1 .. Len(posted)
        /\ \A i, j \in 1 .. Len(q) : i < j => Ordered(q[i], q[j])
    BY <1>1, <1>2, DeliveredOrder
  <1>4. \A i \in 1 .. Len(q) : Fits(q[i], phase, task) /\ q[i] \in Events
    BY <1>1, <1>3 DEF PostedOK
  <1>5. \A e \in Events : Fits(e, phase, task) => Ordered(e, QuitEvent)
    BY SessionsAssumption DEF Fits, Ordered, QuitEvent, Event
  <1>6. QuitEvent \in Events /\ Fits(QuitEvent, phase, task)
    BY DEF Events, Fits
  <1> HIDE DEF q
  <1>7. /\ posted' \in Seq(Events)
        /\ Len(posted') = Len(q) + 1
        /\ \A i \in 1 .. Len(q) : posted'[i] = q[i]
        /\ posted'[Len(q) + 1] = QuitEvent
        /\ \A i, j \in 1 .. Len(q) + 1 : i < j => Ordered(posted'[i], posted'[j])
    BY <1>3, <1>4, <1>5, <1>6, PostedOrder DEF q
  <1>8. Len(q) \in Nat
    BY <1>3
  <1>9. \A i \in 1 .. Len(posted') : Fits(posted'[i], phase, task)
    <2> TAKE i \in 1 .. Len(posted')
    <2>1. CASE i = Len(q) + 1
      BY <1>6, <1>7, <2>1
    <2>2. CASE i # Len(q) + 1
      <3>1. i \in 1 .. Len(q)
        BY <1>7, <1>8, <2>2
      <3> QED
        BY <3>1, <1>4, <1>7
    <2> QED
      BY <2>1, <2>2
  <1> QED
    BY <1>7, <1>9 DEF PostedOK

\* Nothing is posted.
LEMMA UnchangedOK ==
    ASSUME TypeOK, PostedOK, posted' = posted,
           \A f \in Events : Fits(f, phase, task) => Fits(f, phase', task')
    PROVE  PostedOK' /\ posted' \in Seq(Events)
  BY DEF TypeOK, PostedOK

----------------------------------------------------------------------------
\* The initial state and the steps.

\* Before the first launch the invariant holds.
LEMMA InitHolds == Init => IInv
  <1> SUFFICES ASSUME Init
               PROVE  IInv
    OBVIOUS
  <1>1. TypeOK
    <2>1. posted \in Seq(Events) /\ quits \subseteq Sessions
      BY DEF Init
    <2>2. phase \in [Sessions -> Phases] /\ task \in [Sessions -> TaskStates]
      BY DEF Init, Phases, TaskStates
    <2>3. conn \in [Sessions -> BOOLEAN]
      BY DEF Init
    <2> QED
      BY <2>1, <2>2, <2>3 DEF Init, TypeOK
  <1>2. PostedOK
    BY DEF Init, PostedOK
  <1>3. PhasesFitTasks /\ MainFits /\ LockFits /\ ConnectionsFit
    BY DEF Init, PhasesFitTasks, MainFits, LockFits, ConnectionsFit, Holds
  <1> QED
    BY <1>1, <1>2, <1>3 DEF IInv

\* A launch whose initialize() succeeds.
LEMMA LaunchKeeps ==
    ASSUME IInv, NEW s \in Sessions, Launch(s)
    PROVE  IInv'
  <1> USE SessionsAssumption DEF IInv, Launch, MayLaunch, ui, lock
  <1>1. \A f \in Events : Fits(f, phase, task) => Fits(f, phase', task')
    BY DEF TypeOK, Phases, TaskStates, PhasesFitTasks, MainFits, Fits
  <1>2. PostedOK' /\ posted' \in Seq(Events)
    BY <1>1, UnchangedOK
  <1>3. TypeOK'
    BY <1>2 DEF TypeOK, Phases, TaskStates
  <1>4. PhasesFitTasks'
    BY DEF TypeOK, PhasesFitTasks, MainFits
  <1>5. MainFits'
    BY DEF TypeOK, PhasesFitTasks, MainFits
  <1>6. LockFits'
    BY DEF TypeOK, PhasesFitTasks, MainFits, LockFits, Holds
  <1>7. ConnectionsFit'
    BY DEF TypeOK, PhasesFitTasks, MainFits, ConnectionsFit
  <1> QED
    BY <1>2, <1>3, <1>4, <1>5, <1>6, <1>7

\* A launch whose initialize() fails.
LEMMA LaunchFailsKeeps ==
    ASSUME IInv, NEW s \in Sessions, LaunchFails(s)
    PROVE  IInv'
  <1> USE SessionsAssumption DEF IInv, LaunchFails, MayLaunch, ui, lock
  <1>1. \A f \in Events : Fits(f, phase, task) => Fits(f, phase', task')
    BY DEF TypeOK, Phases, TaskStates, PhasesFitTasks, MainFits, Fits
  <1>2. PostedOK' /\ posted' \in Seq(Events)
    BY <1>1, UnchangedOK
  <1>3. TypeOK'
    BY <1>2 DEF TypeOK, Phases, TaskStates
  <1>4. PhasesFitTasks'
    BY DEF TypeOK, PhasesFitTasks, MainFits
  <1>5. MainFits'
    BY DEF TypeOK, PhasesFitTasks, MainFits
  <1>6. LockFits'
    BY DEF TypeOK, PhasesFitTasks, MainFits, LockFits, Holds
  <1>7. ConnectionsFit'
    BY DEF TypeOK, PhasesFitTasks, MainFits, ConnectionsFit
  <1> QED
    BY <1>2, <1>3, <1>4, <1>5, <1>6, <1>7

\* start() begins to wait.
LEMMA StartTimerKeeps ==
    ASSUME IInv, NEW s \in Sessions, StartTimer(s)
    PROVE  IInv'
  <1> USE SessionsAssumption DEF IInv, StartTimer, ui, lock
  <1>1. \A f \in Events : Fits(f, phase, task) => Fits(f, phase', task')
    BY DEF TypeOK, Phases, TaskStates, PhasesFitTasks, MainFits, Fits
  <1>2. PostedOK' /\ posted' \in Seq(Events)
    BY <1>1, UnchangedOK
  <1>3. TypeOK'
    BY <1>2 DEF TypeOK, Phases, TaskStates
  <1>4. PhasesFitTasks'
    BY DEF TypeOK, PhasesFitTasks, MainFits
  <1>5. MainFits'
    BY DEF TypeOK, PhasesFitTasks, MainFits
  <1>6. LockFits'
    BY DEF TypeOK, PhasesFitTasks, MainFits, LockFits, Holds
  <1>7. ConnectionsFit'
    BY DEF TypeOK, PhasesFitTasks, MainFits, ConnectionsFit
  <1> QED
    BY <1>2, <1>3, <1>4, <1>5, <1>6, <1>7

\* start() has the semaphore: nobody else held it.
LEMMA AcquireKeeps ==
    ASSUME IInv, NEW s \in Sessions, Acquire(s)
    PROVE  IInv'
  <1> USE SessionsAssumption DEF IInv, Acquire, ui, lock
  <1>1. \A f \in Events : Fits(f, phase, task) => Fits(f, phase', task')
    BY DEF TypeOK, Phases, TaskStates, PhasesFitTasks, MainFits, Fits
  <1>2. PostedOK' /\ posted' \in Seq(Events)
    BY <1>1, UnchangedOK
  <1>3. TypeOK'
    BY <1>2 DEF TypeOK, Phases, TaskStates
  <1>4. PhasesFitTasks'
    BY DEF TypeOK, PhasesFitTasks, MainFits
  <1>5. MainFits'
    BY DEF TypeOK, PhasesFitTasks, MainFits
  <1>6. LockFits'
    BY DEF TypeOK, PhasesFitTasks, MainFits, LockFits, Holds
  <1>7. ConnectionsFit'
    BY DEF TypeOK, PhasesFitTasks, MainFits, ConnectionsFit
  <1> QED
    BY <1>2, <1>3, <1>4, <1>5, <1>6, <1>7

\* LiStartConnection() returns.
LEMMA ConnectionThreadKeeps ==
    ASSUME IInv, NEW s \in Sessions, ConnectionThread(s)
    PROVE  IInv'
  <1> USE SessionsAssumption DEF IInv, ConnectionThread, ui, lock
  <1>0. Event("exec", s) \in Events /\ Fits(Event("exec", s), phase', task')
    BY DEF TypeOK, Phases, TaskStates, PhasesFitTasks, MainFits, Fits, Ordered, Event,
           QuitEvent, Events, SessionEvents
  <1>1. \A f \in Events : Fits(f, phase, task) =>
                                 Fits(f, phase', task') /\ Ordered(f, Event("exec", s))
    BY DEF TypeOK, Phases, TaskStates, PhasesFitTasks, MainFits, Fits, Ordered, Event,
           QuitEvent, Events, SessionEvents
  <1>2. PostedOK' /\ posted' \in Seq(Events)
    BY <1>0, <1>1, PostedOneOK
  <1>3. TypeOK'
    BY <1>2 DEF TypeOK, Phases, TaskStates
  <1>4. PhasesFitTasks'
    BY DEF TypeOK, PhasesFitTasks, MainFits
  <1>5. MainFits'
    BY DEF TypeOK, PhasesFitTasks, MainFits
  <1>6. LockFits'
    BY DEF TypeOK, PhasesFitTasks, MainFits, LockFits, Holds
  <1>7. ConnectionsFit'
    BY DEF TypeOK, PhasesFitTasks, MainFits, ConnectionsFit
  <1> QED
    BY <1>2, <1>3, <1>4, <1>5, <1>6, <1>7

\* exec() hands over to the cleanup task.
LEMMA ExecReturnsKeeps ==
    ASSUME IInv, NEW s \in Sessions, ExecReturns(s)
    PROVE  IInv'
  <1> USE SessionsAssumption DEF IInv, ExecReturns, ui, lock
  <1>1. \A f \in Events : Fits(f, phase, task) => Fits(f, phase', task')
    BY DEF TypeOK, Phases, TaskStates, PhasesFitTasks, MainFits, Fits
  <1>2. PostedOK' /\ posted' \in Seq(Events)
    BY <1>1, UnchangedOK
  <1>3. TypeOK'
    BY <1>2 DEF TypeOK, Phases, TaskStates
  <1>4. PhasesFitTasks'
    BY DEF TypeOK, PhasesFitTasks, MainFits
  <1>5. MainFits'
    BY DEF TypeOK, PhasesFitTasks, MainFits
  <1>6. LockFits'
    BY DEF TypeOK, PhasesFitTasks, MainFits, LockFits, Holds
  <1>7. ConnectionsFit'
    BY DEF TypeOK, PhasesFitTasks, MainFits, ConnectionsFit
  <1> QED
    BY <1>2, <1>3, <1>4, <1>5, <1>6, <1>7

\* exec() begins, once per session.
LEMMA DeliverExecKeeps ==
    ASSUME IInv, NEW s \in Sessions, DeliverExec(s)
    PROVE  IInv'
  <1> USE SessionsAssumption DEF IInv, DeliverExec, First, ui, lock
  <1>0. Head(posted) = Event("exec", s) /\ phase[s] = "started"
    <2>1. Head(posted) = posted[1] /\ 1 \in 1 .. Len(posted)
      BY DEF TypeOK
    <2>2. Fits(Head(posted), phase, task)
      BY <2>1 DEF PostedOK
    <2> QED
      BY <2>2 DEF Fits, Event, QuitEvent, PhasesFitTasks
  <1>1. \A e \in Events : Fits(e, phase, task) /\ Ordered(Head(posted), e) => Fits(e, phase', task')
    BY <1>0 DEF TypeOK, Phases, TaskStates, PhasesFitTasks, MainFits, Fits, Ordered,
           Event, QuitEvent, Events, SessionEvents
  <1>2. PostedOK' /\ posted' \in Seq(Events)
    BY <1>1, DeliveredOK
  <1>3. TypeOK'
    BY <1>0, <1>2 DEF TypeOK, Phases, TaskStates
  <1>4. PhasesFitTasks'
    BY <1>0 DEF TypeOK, PhasesFitTasks, MainFits
  <1>5. MainFits'
    BY <1>0 DEF TypeOK, PhasesFitTasks, MainFits
  <1>6. LockFits'
    BY <1>0 DEF TypeOK, PhasesFitTasks, MainFits, LockFits, Holds
  <1>7. ConnectionsFit'
    BY <1>0 DEF TypeOK, PhasesFitTasks, MainFits, ConnectionsFit
  <1> QED
    BY <1>2, <1>3, <1>4, <1>5, <1>6, <1>7

\* The quit page is shown.
LEMMA DeliverQuitStartingKeeps ==
    ASSUME IInv, NEW s \in Sessions, DeliverQuitStarting(s)
    PROVE  IInv'
  <1> USE SessionsAssumption DEF IInv, DeliverQuitStarting, First, ui, lock
  <1>1. \A e \in Events : Fits(e, phase, task) /\ Ordered(Head(posted), e) => Fits(e, phase', task')
    BY DEF TypeOK, Phases, TaskStates, PhasesFitTasks, MainFits, Fits, Ordered, Event,
           QuitEvent, Events, SessionEvents
  <1>2. PostedOK' /\ posted' \in Seq(Events)
    BY <1>1, DeliveredOK
  <1>3. TypeOK'
    BY <1>2 DEF TypeOK, Phases, TaskStates
  <1>4. PhasesFitTasks'
    BY DEF TypeOK, PhasesFitTasks, MainFits
  <1>5. MainFits'
    BY DEF TypeOK, PhasesFitTasks, MainFits
  <1>6. LockFits'
    BY DEF TypeOK, PhasesFitTasks, MainFits, LockFits, Holds
  <1>7. ConnectionsFit'
    BY DEF TypeOK, PhasesFitTasks, MainFits, ConnectionsFit
  <1> QED
    BY <1>2, <1>3, <1>4, <1>5, <1>6, <1>7

\* The page learns that the session is finished.
LEMMA DeliverFinishedKeeps ==
    ASSUME IInv, NEW s \in Sessions, DeliverFinished(s)
    PROVE  IInv'
  <1> USE SessionsAssumption DEF IInv, DeliverFinished, First, ui, lock
  <1>2. PostedOK' /\ posted' \in Seq(Events)
    <2>1. CASE posted' = Tail(posted)
      BY <2>1, DeliveredOK
    <2>2. CASE posted' = Append(Tail(posted), QuitEvent)
      BY <2>2, QuitPostedOK
    <2> QED
      BY <2>1, <2>2
  <1>3. TypeOK'
    BY <1>2 DEF TypeOK, Phases, TaskStates
  <1>4. PhasesFitTasks'
    BY DEF TypeOK, PhasesFitTasks, MainFits
  <1>5. MainFits'
    BY DEF TypeOK, PhasesFitTasks, MainFits
  <1>6. LockFits'
    BY DEF TypeOK, PhasesFitTasks, MainFits, LockFits, Holds
  <1>7. ConnectionsFit'
    BY DEF TypeOK, PhasesFitTasks, MainFits, ConnectionsFit
  <1> QED
    BY <1>2, <1>3, <1>4, <1>5, <1>6, <1>7

\* The task's blocking call is carried out.
LEMMA DeliverStopMicrophoneKeeps ==
    ASSUME IInv, NEW s \in Sessions, DeliverStopMicrophone(s)
    PROVE  IInv'
  <1> USE SessionsAssumption DEF IInv, DeliverStopMicrophone, First, ui, lock
  <1>0. Head(posted) = Event("stopMicrophone", s) /\ task[s] = "waitMain" /\ phase[s] = "ended"
    <2>1. Head(posted) = posted[1] /\ 1 \in 1 .. Len(posted)
      BY DEF TypeOK
    <2>2. Fits(Head(posted), phase, task)
      BY <2>1 DEF PostedOK
    <2> QED
      BY <2>2 DEF Fits, Event, QuitEvent, PhasesFitTasks
  <1>1. \A e \in Events : Fits(e, phase, task) /\ Ordered(Head(posted), e) => Fits(e, phase', task')
    BY <1>0 DEF TypeOK, Phases, TaskStates, PhasesFitTasks, MainFits, Fits, Ordered,
           Event, QuitEvent, Events, SessionEvents
  <1>2. PostedOK' /\ posted' \in Seq(Events)
    BY <1>1, DeliveredOK
  <1>3. TypeOK'
    BY <1>0, <1>2 DEF TypeOK, Phases, TaskStates
  <1>4. PhasesFitTasks'
    BY <1>0 DEF TypeOK, PhasesFitTasks, MainFits
  <1>5. MainFits'
    BY <1>0 DEF TypeOK, PhasesFitTasks, MainFits
  <1>6. LockFits'
    BY <1>0 DEF TypeOK, PhasesFitTasks, MainFits, LockFits, Holds
  <1>7. ConnectionsFit'
    BY <1>0 DEF TypeOK, PhasesFitTasks, MainFits, ConnectionsFit
  <1> QED
    BY <1>2, <1>3, <1>4, <1>5, <1>6, <1>7

\* The Session is deleted.
LEMMA DeliverReadyKeeps ==
    ASSUME IInv, NEW s \in Sessions, DeliverReady(s)
    PROVE  IInv'
  <1> USE SessionsAssumption DEF IInv, DeliverReady, First, ui, lock
  <1>0. Head(posted) = Event("readyForDeletion", s) /\ phase[s] = "ended" /\ task[s] = "done"
    <2>1. Head(posted) = posted[1] /\ 1 \in 1 .. Len(posted)
      BY DEF TypeOK
    <2>2. Fits(Head(posted), phase, task)
      BY <2>1 DEF PostedOK
    <2> QED
      BY <2>2 DEF Fits, Event, QuitEvent, PhasesFitTasks
  <1>1. \A e \in Events : Fits(e, phase, task) /\ Ordered(Head(posted), e) => Fits(e, phase', task')
    BY <1>0 DEF TypeOK, Phases, TaskStates, PhasesFitTasks, MainFits, Fits, Ordered,
           Event, QuitEvent, Events, SessionEvents
  <1>2. PostedOK' /\ posted' \in Seq(Events)
    BY <1>1, DeliveredOK
  <1>3. TypeOK'
    BY <1>0, <1>2 DEF TypeOK, Phases, TaskStates
  <1>4. PhasesFitTasks'
    BY <1>0 DEF TypeOK, PhasesFitTasks, MainFits
  <1>5. MainFits'
    BY <1>0 DEF TypeOK, PhasesFitTasks, MainFits
  <1>6. LockFits'
    BY <1>0 DEF TypeOK, PhasesFitTasks, MainFits, LockFits, Holds
  <1>7. ConnectionsFit'
    BY <1>0 DEF TypeOK, PhasesFitTasks, MainFits, ConnectionsFit
  <1> QED
    BY <1>2, <1>3, <1>4, <1>5, <1>6, <1>7

\* run() begins.
LEMMA NotifyKeeps ==
    ASSUME IInv, NEW s \in Sessions, Notify(s)
    PROVE  IInv'
  <1> USE SessionsAssumption DEF IInv, Notify, TaskAt, ui, lock
  <1>1. ASSUME NEW k \in {"quitStarting", "finished"}, Post(Event(k, s))
        PROVE  PostedOK' /\ posted' \in Seq(Events)
    <2>1. Event(k, s) \in Events /\ Fits(Event(k, s), phase', task')
      BY DEF TypeOK, Phases, TaskStates, PhasesFitTasks, MainFits, Fits, Ordered, Event,
             QuitEvent, Events, SessionEvents
    <2>2. \A f \in Events : Fits(f, phase, task) =>
                                   Fits(f, phase', task') /\ Ordered(f, Event(k, s))
      BY DEF TypeOK, Phases, TaskStates, PhasesFitTasks, MainFits, Fits, Ordered, Event,
             QuitEvent, Events, SessionEvents
    <2> QED
      BY <1>1, <2>1, <2>2, PostedOneOK
  <1>2. PostedOK' /\ posted' \in Seq(Events)
    BY <1>1
  <1>3. TypeOK'
    BY <1>2 DEF TypeOK, Phases, TaskStates
  <1>4. PhasesFitTasks'
    BY DEF TypeOK, PhasesFitTasks, MainFits
  <1>5. MainFits'
    BY DEF TypeOK, PhasesFitTasks, MainFits
  <1>6. LockFits'
    BY DEF TypeOK, PhasesFitTasks, MainFits, LockFits, Holds
  <1>7. ConnectionsFit'
    BY DEF TypeOK, PhasesFitTasks, MainFits, ConnectionsFit
  <1> QED
    BY <1>2, <1>3, <1>4, <1>5, <1>6, <1>7

\* run() calls the main thread.
LEMMA StopMicrophoneKeeps ==
    ASSUME IInv, NEW s \in Sessions, StopMicrophone(s)
    PROVE  IInv'
  <1> USE SessionsAssumption DEF IInv, StopMicrophone, TaskAt, ui, lock
  <1>0. Event("stopMicrophone", s) \in Events /\ Fits(Event("stopMicrophone", s), phase', task')
    BY DEF TypeOK, Phases, TaskStates, PhasesFitTasks, MainFits, Fits, Ordered, Event,
           QuitEvent, Events, SessionEvents
  <1>1. \A f \in Events : Fits(f, phase, task) =>
                                 Fits(f, phase', task') /\ Ordered(f, Event("stopMicrophone", s))
    BY DEF TypeOK, Phases, TaskStates, PhasesFitTasks, MainFits, Fits, Ordered, Event,
           QuitEvent, Events, SessionEvents
  <1>2. PostedOK' /\ posted' \in Seq(Events)
    BY <1>0, <1>1, PostedOneOK
  <1>3. TypeOK'
    BY <1>2 DEF TypeOK, Phases, TaskStates
  <1>4. PhasesFitTasks'
    BY DEF TypeOK, PhasesFitTasks, MainFits
  <1>5. MainFits'
    BY DEF TypeOK, PhasesFitTasks, MainFits
  <1>6. LockFits'
    BY DEF TypeOK, PhasesFitTasks, MainFits, LockFits, Holds
  <1>7. ConnectionsFit'
    BY DEF TypeOK, PhasesFitTasks, MainFits, ConnectionsFit
  <1> QED
    BY <1>2, <1>3, <1>4, <1>5, <1>6, <1>7

\* LiStopConnection().
LEMMA StopConnectionKeeps ==
    ASSUME IInv, NEW s \in Sessions, StopConnection(s)
    PROVE  IInv'
  <1> USE SessionsAssumption DEF IInv, StopConnection, TaskAt, ui, lock, Disconnected
  <1>1. \A f \in Events : Fits(f, phase, task) => Fits(f, phase', task')
    BY DEF TypeOK, Phases, TaskStates, PhasesFitTasks, MainFits, Fits
  <1>2. PostedOK' /\ posted' \in Seq(Events)
    BY <1>1, UnchangedOK
  <1>3. TypeOK'
    BY <1>2 DEF TypeOK, Phases, TaskStates
  <1>4. PhasesFitTasks'
    BY DEF TypeOK, PhasesFitTasks, MainFits
  <1>5. MainFits'
    BY DEF TypeOK, PhasesFitTasks, MainFits
  <1>6. LockFits'
    BY DEF TypeOK, PhasesFitTasks, MainFits, LockFits, Holds
  <1>7. ConnectionsFit'
    BY DEF TypeOK, PhasesFitTasks, MainFits, ConnectionsFit
  <1> QED
    BY <1>2, <1>3, <1>4, <1>5, <1>6, <1>7

\* The host's app is quit.
LEMMA QuitAppKeeps ==
    ASSUME IInv, NEW s \in Sessions, QuitApp(s)
    PROVE  IInv'
  <1> USE SessionsAssumption DEF IInv, QuitApp, TaskAt, ui, lock
  <1>0. Event("finished", s) \in Events /\ Fits(Event("finished", s), phase', task')
    BY DEF TypeOK, Phases, TaskStates, PhasesFitTasks, MainFits, Fits, Ordered, Event,
           QuitEvent, Events, SessionEvents
  <1>1. \A f \in Events : Fits(f, phase, task) =>
                                 Fits(f, phase', task') /\ Ordered(f, Event("finished", s))
    BY DEF TypeOK, Phases, TaskStates, PhasesFitTasks, MainFits, Fits, Ordered, Event,
           QuitEvent, Events, SessionEvents
  <1>2. PostedOK' /\ posted' \in Seq(Events)
    BY <1>0, <1>1, PostedOneOK
  <1>3. TypeOK'
    BY <1>2 DEF TypeOK, Phases, TaskStates
  <1>4. PhasesFitTasks'
    BY DEF TypeOK, PhasesFitTasks, MainFits
  <1>5. MainFits'
    BY DEF TypeOK, PhasesFitTasks, MainFits
  <1>6. LockFits'
    BY DEF TypeOK, PhasesFitTasks, MainFits, LockFits, Holds
  <1>7. ConnectionsFit'
    BY DEF TypeOK, PhasesFitTasks, MainFits, ConnectionsFit
  <1> QED
    BY <1>2, <1>3, <1>4, <1>5, <1>6, <1>7

\* The end of run().
LEMMA ExitKeeps ==
    ASSUME IInv, NEW s \in Sessions, Exit(s)
    PROVE  IInv'
  <1> USE SessionsAssumption DEF IInv, Exit, TaskAt, ui, lock
  <1>0. \A f \in Events : Fits(f, phase, task) => Fits(f, phase', task')
    BY DEF TypeOK, Phases, TaskStates, PhasesFitTasks, MainFits, Fits
  <1>1. /\ QuitEvent \in Events /\ Fits(QuitEvent, phase', task')
        /\ \A f \in Events : Fits(f, phase, task) => Ordered(f, QuitEvent)
    BY DEF Fits, Ordered, Event, QuitEvent, Events, SessionEvents
  <1>2. PostedOK' /\ posted' \in Seq(Events)
    BY <1>0, <1>1, PostedOneOK, UnchangedOK
  <1>3. TypeOK'
    BY <1>2 DEF TypeOK, Phases, TaskStates
  <1>4. PhasesFitTasks'
    BY DEF TypeOK, PhasesFitTasks, MainFits
  <1>5. MainFits'
    BY DEF TypeOK, PhasesFitTasks, MainFits
  <1>6. LockFits'
    BY DEF TypeOK, PhasesFitTasks, MainFits, LockFits, Holds
  <1>7. ConnectionsFit'
    BY DEF TypeOK, PhasesFitTasks, MainFits, ConnectionsFit
  <1> QED
    BY <1>2, <1>3, <1>4, <1>5, <1>6, <1>7

\* The destructor clears s_ActiveSession.
LEMMA ClearActiveKeeps ==
    ASSUME IInv, NEW s \in Sessions, ClearActive(s)
    PROVE  IInv'
  <1> USE SessionsAssumption DEF IInv, ClearActive, TaskAt, ui, lock
  <1>1. \A f \in Events : Fits(f, phase, task) => Fits(f, phase', task')
    BY DEF TypeOK, Phases, TaskStates, PhasesFitTasks, MainFits, Fits
  <1>2. PostedOK' /\ posted' \in Seq(Events)
    BY <1>1, UnchangedOK
  <1>3. TypeOK'
    BY <1>2 DEF TypeOK, Phases, TaskStates
  <1>4. PhasesFitTasks'
    BY DEF TypeOK, PhasesFitTasks, MainFits
  <1>5. MainFits'
    BY DEF TypeOK, PhasesFitTasks, MainFits
  <1>6. LockFits'
    BY DEF TypeOK, PhasesFitTasks, MainFits, LockFits, Holds
  <1>7. ConnectionsFit'
    BY DEF TypeOK, PhasesFitTasks, MainFits, ConnectionsFit
  <1> QED
    BY <1>2, <1>3, <1>4, <1>5, <1>6, <1>7

\* The destructor releases the semaphore.
LEMMA ReleaseKeeps ==
    ASSUME IInv, NEW s \in Sessions, Release(s)
    PROVE  IInv'
  <1> USE SessionsAssumption DEF IInv, Release, TaskAt, ui, lock, Released
  <1>1. \A f \in Events : Fits(f, phase, task) => Fits(f, phase', task')
    BY DEF TypeOK, Phases, TaskStates, PhasesFitTasks, MainFits, Fits
  <1>2. PostedOK' /\ posted' \in Seq(Events)
    BY <1>1, UnchangedOK
  <1>3. TypeOK'
    BY <1>2 DEF TypeOK, Phases, TaskStates
  <1>4. PhasesFitTasks'
    BY DEF TypeOK, PhasesFitTasks, MainFits
  <1>5. MainFits'
    BY DEF TypeOK, PhasesFitTasks, MainFits
  <1>6. LockFits'
    BY DEF TypeOK, PhasesFitTasks, MainFits, LockFits, Holds
  <1>7. ConnectionsFit'
    BY DEF TypeOK, PhasesFitTasks, MainFits, ConnectionsFit
  <1> QED
    BY <1>2, <1>3, <1>4, <1>5, <1>6, <1>7

\* The destructor offers the session for deletion.
LEMMA EmitReadyKeeps ==
    ASSUME IInv, NEW s \in Sessions, EmitReady(s)
    PROVE  IInv'
  <1> USE SessionsAssumption DEF IInv, EmitReady, TaskAt, ui, lock
  <1>0. Event("readyForDeletion", s) \in Events /\ Fits(Event("readyForDeletion", s), phase', task')
    BY DEF TypeOK, Phases, TaskStates, PhasesFitTasks, MainFits, Fits, Ordered, Event,
           QuitEvent, Events, SessionEvents
  <1>1. \A f \in Events : Fits(f, phase, task) =>
                                 Fits(f, phase', task') /\ Ordered(f, Event("readyForDeletion", s))
    BY DEF TypeOK, Phases, TaskStates, PhasesFitTasks, MainFits, Fits, Ordered, Event,
           QuitEvent, Events, SessionEvents
  <1>2. PostedOK' /\ posted' \in Seq(Events)
    BY <1>0, <1>1, PostedOneOK DEF ReadyEvent
  <1>3. TypeOK'
    BY <1>2 DEF TypeOK, Phases, TaskStates
  <1>4. PhasesFitTasks'
    BY DEF TypeOK, PhasesFitTasks, MainFits
  <1>5. MainFits'
    BY DEF TypeOK, PhasesFitTasks, MainFits
  <1>6. LockFits'
    BY DEF TypeOK, PhasesFitTasks, MainFits, LockFits, Holds
  <1>7. ConnectionsFit'
    BY DEF TypeOK, PhasesFitTasks, MainFits, ConnectionsFit
  <1> QED
    BY <1>2, <1>3, <1>4, <1>5, <1>6, <1>7

\* The steps that are of no session.
LEMMA ProgramKeeps ==
    ASSUME IInv, DeliverQuit \/ LeaveLoop \/ MainReturns \/ UserCloses
    PROVE  IInv'
  <1> USE SessionsAssumption DEF IInv, DeliverQuit, LeaveLoop, MainReturns, UserCloses, ui, lock
  <1>1. phase' = phase /\ task' = task
    OBVIOUS
  <1>2. PostedOK' /\ posted' \in Seq(Events)
    <2>1. CASE DeliverQuit
      BY <1>1, <2>1, DeliveredOK
    <2>2. CASE LeaveLoop \/ MainReturns
      BY <1>1, <2>2, UnchangedOK
    <2>3. CASE UserCloses
      <3>1. QuitEvent \in Events /\ Fits(QuitEvent, phase', task')
        BY DEF Events, Fits
      <3>2. \A f \in Events : Fits(f, phase, task) => Ordered(f, QuitEvent)
        BY DEF Fits, Ordered, QuitEvent, Event
      <3> QED
        BY <1>1, <2>3, <3>1, <3>2, PostedOneOK
    <2> QED
      BY <2>1, <2>2, <2>3
  <1>3. TypeOK'
    BY <1>2 DEF TypeOK
  <1>4. PhasesFitTasks' /\ MainFits'
    BY DEF PhasesFitTasks, MainFits
  <1>5. LockFits' /\ ConnectionsFit'
    BY DEF LockFits, ConnectionsFit, Holds
  <1> QED
    BY <1>2, <1>3, <1>4, <1>5

\* Every step keeps the invariant.
LEMMA NextKeeps == IInv /\ [Next]_vars => IInv'
  <1> SUFFICES ASSUME IInv, [Next]_vars
               PROVE  IInv'
    OBVIOUS
  <1>1. ASSUME NEW s \in Sessions,
               \/ Launch(s) \/ LaunchFails(s) \/ ConnectionThread(s) \/ StartTimer(s)
               \/ Acquire(s) \/ ExecReturns(s)
        PROVE  IInv'
    BY <1>1, LaunchKeeps, LaunchFailsKeeps, ConnectionThreadKeeps, StartTimerKeeps, AcquireKeeps,
       ExecReturnsKeeps
  <1>2. ASSUME NEW s \in Sessions, Deliver(s)
        PROVE  IInv'
    BY <1>2, DeliverExecKeeps, DeliverQuitStartingKeeps, DeliverFinishedKeeps,
       DeliverStopMicrophoneKeeps, DeliverReadyKeeps DEF Deliver
  <1>3. ASSUME NEW s \in Sessions, CleanupTask(s)
        PROVE  IInv'
    BY <1>3, NotifyKeeps, StopMicrophoneKeeps, StopConnectionKeeps, QuitAppKeeps, ExitKeeps,
       ClearActiveKeeps, ReleaseKeeps, EmitReadyKeeps DEF CleanupTask
  <1>4. CASE UNCHANGED vars
    BY <1>4 DEF vars, ui, lock, IInv, TypeOK, PostedOK, PhasesFitTasks, MainFits, LockFits,
       ConnectionsFit, Holds
  <1> QED
    BY <1>1, <1>2, <1>3, <1>4, ProgramKeeps DEF Next, MainThread

\* The inductive invariant holds in every reachable state.
THEOREM Invariance == Spec => []IInv
  <1>1. Init => IInv
    BY InitHolds
  <1>2. IInv /\ [Next]_vars => IInv'
    BY NextKeeps
  <1> QED
    BY <1>1, <1>2, PTL DEF Spec

----------------------------------------------------------------------------
\* What it gives.

\* Type correctness, for any number of sessions.
THEOREM TypeCorrect == Spec => []TypeOK
  <1>1. IInv => TypeOK
    BY DEF IInv
  <1> QED
    BY <1>1, Invariance, PTL

\* While a connection is up, s_ActiveSession is the session it belongs to: the
\* callbacks never see another one, nor none.
THEOREM CallbacksSafe == Spec => []CallbacksFindSession
  <1>1. IInv => CallbacksFindSession
    BY DEF IInv, LockFits, ConnectionsFit, PhasesFitTasks, CallbacksFindSession, Holds
  <1> QED
    BY <1>1, Invariance, PTL

\* When a Session is deleted its task is done, and the main thread has no more
\* events for it.
THEOREM DeletionIsLast == Spec => []DeletedLast
  <1>1. IInv => DeletedLast
    <2> SUFFICES ASSUME IInv, NEW s \in Sessions, phase[s] = "deleted"
                 PROVE  /\ task[s] \in {"none", "done"}
                        /\ \A i \in DOMAIN posted : posted[i].of # s
      BY DEF DeletedLast
    <2>1. task[s] \in {"none", "done"}
      BY DEF IInv, PhasesFitTasks
    <2>2. DOMAIN posted = 1 .. Len(posted)
      BY DEF IInv, TypeOK
    <2>3. \A i \in 1 .. Len(posted) : posted[i].of # s
      BY SessionsAssumption DEF IInv, PostedOK, Fits, QuitEvent, Event
    <2> QED
      BY <2>1, <2>2, <2>3
  <1> QED
    BY <1>1, Invariance, PTL

\* The session that holds the semaphore is the one whose turn it is.
LEMMA TurnIsHolder ==
    ASSUME LockFits
    PROVE  /\ \A s \in Sessions : Holds(s) => Turn = s
           /\ (\A s \in Sessions : ~Holds(s)) => Turn = NoSession
  BY DEF LockFits, Turn

\* The same in the next state.
LEMMA TurnIsHolderNext ==
    ASSUME LockFits'
    PROVE  /\ \A s \in Sessions : Holds(s)' => Turn' = s
           /\ (\A s \in Sessions : ~Holds(s)') => Turn' = NoSession
  BY DEF LockFits, Turn

\* Steps that leave the turn and the connections alone.
LEMMA TurnKept ==
    ASSUME LockFits, LockFits', \A s \in Sessions : Holds(s)' = Holds(s), conn' = conn
    PROVE  UNCHANGED <<Turn, Connected>>
  <1>1. Turn' = Turn
    BY TurnIsHolder, TurnIsHolderNext
  <1> QED
    BY <1>1 DEF Connected

\* Every step of the program is a step of ActiveSession or leaves it alone.
LEMMA StepsTakeTurns ==
    ASSUME IInv, [Next]_vars
    PROVE  [Turns!Next]_<<Turn, Connected>>
  <1>0. IInv'
    BY NextKeeps
  <1>1. TypeOK /\ PhasesFitTasks /\ MainFits /\ LockFits /\ ConnectionsFit
    BY DEF IInv
  <1>2. LockFits' /\ ConnectionsFit' /\ PhasesFitTasks' /\ TypeOK'
    BY <1>0 DEF IInv
  <1>3. ASSUME NEW s \in Sessions, Acquire(s)
        PROVE  Turns!Begin(s)
    <2>1. \A t \in Sessions : ~Holds(t)
      BY <1>1, <1>3 DEF Acquire, LockFits
    <2>2. Holds(s)'
      BY <1>1, <1>3 DEF Acquire, Holds, TypeOK
    <2> QED
      BY <1>1, <1>2, <1>3, <2>1, <2>2, TurnIsHolder, TurnIsHolderNext
      DEF Acquire, Turns!Begin, Connected
  <1>4. ASSUME NEW s \in Sessions, ConnectionThread(s)
        PROVE  Turns!Connect(s) \/ Turns!Disconnect(s)
    <2>1. Holds(s) /\ Holds(s)'
      BY <1>1, <1>4 DEF ConnectionThread, Holds, TypeOK
    <2>2. \A t \in Sessions : t # s => ~Holds(t)
      BY <1>1, <2>1 DEF LockFits
    <2>3. \A t \in Sessions : t # s => ~conn[t] /\ conn'[t] = conn[t]
      BY <1>1, <1>4, <2>2 DEF ConnectionThread, ConnectionsFit, Holds, TypeOK
    <2>4. Turn = s /\ Turn' = s
      BY <1>1, <1>2, <2>1, TurnIsHolder, TurnIsHolderNext
    <2>5. Connected' = {s} \/ Connected' = {}
      BY <2>3 DEF Connected
    <2>6. Connected = {}
      <3>1. ~conn[s]
        BY <1>1, <1>4 DEF ConnectionThread, ConnectionsFit
      <3> QED
        BY <2>3, <3>1 DEF Connected
    <2> QED
      BY <2>4, <2>5, <2>6 DEF Turns!Connect, Turns!Disconnect
  <1>5. ASSUME NEW s \in Sessions, StopConnection(s)
        PROVE  Turns!Disconnect(s)
    <2>1. task[s] = "stopConnection" /\ phase[s] = "ended"
      BY <1>1, <1>5 DEF StopConnection, TaskAt, PhasesFitTasks
    <2>2. Holds(s) /\ Holds(s)'
      BY <1>1, <1>5, <2>1 DEF StopConnection, TaskAt, Holds, TypeOK
    <2>3. Turn = s /\ Turn' = s
      BY <1>1, <1>2, <2>2, TurnIsHolder, TurnIsHolderNext
    <2>4. \A t \in Sessions : ~conn'[t]
      <3>1. \A t \in Sessions : t # s => ~Holds(t)
        BY <1>1, <2>2 DEF LockFits
      <3> QED
        BY <1>1, <1>5, <3>1 DEF StopConnection, Disconnected, ConnectionsFit, Holds, TypeOK
    <2> QED
      BY <2>3, <2>4 DEF Turns!Disconnect, Connected
  <1>6. ASSUME NEW s \in Sessions, Release(s)
        PROVE  Turns!End(s)
    <2>1. Holds(s) /\ ~Holds(s)'
      BY <1>1, <1>6 DEF Release, TaskAt, PhasesFitTasks, Holds, TypeOK
    <2>2. \A t \in Sessions : t # s => ~Holds(t) /\ ~Holds(t)'
      BY <1>1, <1>6, <2>1 DEF Release, TaskAt, LockFits, Holds, TypeOK
    <2>3. Turn = s /\ Turn' = NoSession
      BY <1>1, <1>2, <2>1, <2>2, TurnIsHolder, TurnIsHolderNext
    <2>4. \A t \in Sessions : ~conn[t]
      BY <1>1, <1>6, <2>2 DEF Release, TaskAt, ConnectionsFit, PhasesFitTasks, Holds
    <2> QED
      BY <1>6, <2>3, <2>4 DEF Release, Turns!End, Connected
  <1>7. ASSUME NEW s \in Sessions,
               Launch(s) \/ LaunchFails(s) \/ StartTimer(s) \/ ExecReturns(s) \/ Deliver(s)
        PROVE  UNCHANGED <<Turn, Connected>>
    <2>1. phase[s] = "executing" \/ ~ExecReturns(s)
      BY <1>1 DEF ExecReturns, MainFits
    <2>2. /\ DeliverExec(s) => phase[s] = "started"
          /\ DeliverReady(s) => phase[s] = "ended" /\ task[s] = "done"
          /\ DeliverStopMicrophone(s) => task[s] = "waitMain"
      <3>1. posted # <<>> => Head(posted) = posted[1] /\ 1 \in 1 .. Len(posted)
        BY <1>1 DEF TypeOK
      <3>2. posted # <<>> => Fits(Head(posted), phase, task)
        BY <3>1 DEF IInv, PostedOK
      <3> QED
        BY <3>2, SessionsAssumption
        DEF Fits, DeliverExec, DeliverReady, DeliverStopMicrophone, First, Event, QuitEvent
    <2>3. \A t \in Sessions : Holds(t)' = Holds(t)
      BY <1>1, <1>7, <2>1, <2>2
      DEF Launch, LaunchFails, MayLaunch, StartTimer, ExecReturns, Deliver, DeliverExec,
          DeliverQuitStarting, DeliverFinished, DeliverStopMicrophone, DeliverReady, First,
          Holds, TypeOK, PhasesFitTasks, Phases, TaskStates
    <2>4. conn' = conn
      BY <1>7
      DEF Launch, LaunchFails, StartTimer, ExecReturns, Deliver, DeliverExec,
          DeliverQuitStarting, DeliverFinished, DeliverStopMicrophone, DeliverReady
    <2> QED
      BY <1>1, <1>2, <2>3, <2>4, TurnKept
  <1>8. ASSUME NEW s \in Sessions,
               \/ Notify(s) \/ StopMicrophone(s) \/ QuitApp(s) \/ Exit(s) \/ ClearActive(s)
               \/ EmitReady(s)
        PROVE  UNCHANGED <<Turn, Connected>>
    <2>1. \A t \in Sessions : Holds(t)' = Holds(t)
      BY <1>1, <1>8
      DEF Notify, StopMicrophone, QuitApp, Exit, ClearActive, EmitReady, TaskAt, Holds, TypeOK,
          PhasesFitTasks, Phases, TaskStates
    <2>2. conn' = conn
      BY <1>8 DEF Notify, StopMicrophone, QuitApp, Exit, ClearActive, EmitReady
    <2> QED
      BY <1>1, <1>2, <2>1, <2>2, TurnKept
  <1>9. ASSUME DeliverQuit \/ LeaveLoop \/ MainReturns \/ UserCloses \/ UNCHANGED vars
        PROVE  UNCHANGED <<Turn, Connected>>
    <2>1. phase' = phase /\ task' = task /\ conn' = conn
      BY <1>9 DEF DeliverQuit, LeaveLoop, MainReturns, UserCloses, vars
    <2> QED
      BY <1>1, <1>2, <2>1, TurnKept DEF Holds
  <1> QED
    BY <1>3, <1>4, <1>5, <1>6, <1>7, <1>8, <1>9
    DEF Next, MainThread, CleanupTask, Turns!Next

\* The program implements ActiveSession: the connections of moonlight-common-c
\* never overlap, however sessions are started, fail and are cleaned up.
THEOREM TurnsTaken == Spec => SessionsTakeTurns
  <1>1. Init => Turns!Init
    BY DEF Init, Turns!Init, Turn, Connected, Holds
  <1>2. IInv /\ [Next]_vars => [Turns!Next]_<<Turn, Connected>>
    BY StepsTakeTurns
  <1> QED
    BY <1>1, <1>2, Invariance, PTL DEF Spec, SessionsTakeTurns, Turns!Spec

----------------------------------------------------------------------------
\* Whom a start() waits for.

Finished(s) == Event("finished", s)
Waiting(q, s) == \E i \in 1 .. Len(q) : q[i] = Finished(s)
Once(q) == \A i, j \in 1 .. Len(q) : q[i].kind = "finished" /\ q[i] = q[j] => i = j

BeforeQuit == {"stopMicrophone", "waitMain", "stopConnection", "quitApp"}

\* The page is still, or will be, a session's: sessionFinished() has not been
\* delivered for it.
Busy(s) == \/ phase[s] \in {"initialized", "starting", "started", "executing"}
           \/ task[s] = "notify"
           \/ s \in quits /\ task[s] \in BeforeQuit
           \/ Waiting(posted, s)

\* A task posts sessionFinished() once, at its beginning or after the host's app
\* was quit.
FinishInv ==
    \A s \in Sessions :
        /\ Waiting(posted, s) => /\ task[s] \notin {"none", "notify"}
                                 /\ ~(s \in quits /\ task[s] \in BeforeQuit)
        /\ task[s] = "quitApp" => s \in quits
        /\ s \in quits => task[s] \notin {"none", "notify"}

\* One session has the page, and while it has it no other can be launched.
BusyInv ==
    \A s \in Sessions : Busy(s) => page # "apps" /\ \A t \in Sessions : Busy(t) => t = s

\* The semaphore is taken by somebody.
HeldInv == ~sem => \E s \in Sessions : Holds(s)

PageInv == Once(posted) /\ FinishInv /\ BusyInv /\ HeldInv

\* What posting and delivering an event do to the sessions' sessionFinished().
LEMMA Added ==
    ASSUME NEW q \in Seq(Events), NEW e \in Events, Once(q),
           \A s \in Sessions : e = Finished(s) => ~Waiting(q, s)
    PROVE  /\ Once(Append(q, e))
           /\ \A s \in Sessions : Waiting(Append(q, e), s) <=> Waiting(q, s) \/ e = Finished(s)
  <1>1. Len(q) \in Nat
    OBVIOUS
  <1>2. /\ Len(Append(q, e)) = Len(q) + 1
        /\ \A i \in 1 .. Len(q) : Append(q, e)[i] = q[i]
        /\ Append(q, e)[Len(q) + 1] = e
    OBVIOUS
  <1>3. e.kind = "finished" => \E s \in Sessions : e = Finished(s)
    BY DEF Events, QuitEvent, Event, Finished
  <1>4. ASSUME NEW i \in 1 .. Len(q), q[i].kind = "finished" PROVE q[i] # e
    BY <1>3, <1>4 DEF Waiting
  <1>5. Once(Append(q, e))
    <2> SUFFICES ASSUME NEW i \in 1 .. Len(q) + 1, NEW j \in 1 .. Len(q) + 1,
                        Append(q, e)[i].kind = "finished", Append(q, e)[i] = Append(q, e)[j]
                 PROVE  i = j
      BY <1>2 DEF Once
    <2>1. CASE i \in 1 .. Len(q) /\ j \in 1 .. Len(q)
      BY <1>2, <2>1 DEF Once
    <2>2. CASE i \in 1 .. Len(q) /\ j = Len(q) + 1
      BY <1>2, <1>4, <2>2
    <2>3. CASE i = Len(q) + 1 /\ j \in 1 .. Len(q)
      BY <1>2, <1>4, <2>3
    <2>4. CASE i = Len(q) + 1 /\ j = Len(q) + 1
      BY <2>4
    <2> QED
      BY <1>1, <2>1, <2>2, <2>3, <2>4
  <1>6. ASSUME NEW s \in Sessions
        PROVE  Waiting(Append(q, e), s) <=> Waiting(q, s) \/ e = Finished(s)
    <2>1. ASSUME Waiting(Append(q, e), s) PROVE Waiting(q, s) \/ e = Finished(s)
      <3>1. PICK i \in 1 .. Len(q) + 1 : Append(q, e)[i] = Finished(s)
        BY <1>2, <2>1 DEF Waiting
      <3>2. i = Len(q) + 1 \/ i \in 1 .. Len(q)
        BY <1>1
      <3> QED
        BY <1>2, <3>1, <3>2 DEF Waiting
    <2>2. ASSUME Waiting(q, s) PROVE Waiting(Append(q, e), s)
      <3>1. PICK i \in 1 .. Len(q) : q[i] = Finished(s)
        BY <2>2 DEF Waiting
      <3>2. i \in 1 .. Len(Append(q, e))
        BY <1>1, <1>2
      <3> QED
        BY <1>2, <3>1, <3>2 DEF Waiting
    <2>3. ASSUME e = Finished(s) PROVE Waiting(Append(q, e), s)
      <3>1. Len(q) + 1 \in 1 .. Len(Append(q, e))
        BY <1>1, <1>2
      <3> QED
        BY <1>2, <2>3, <3>1 DEF Waiting
    <2> QED
      BY <2>1, <2>2, <2>3
  <1> QED
    BY <1>5, <1>6

LEMMA Taken ==
    ASSUME NEW q \in Seq(Events), q # <<>>, Once(q)
    PROVE  /\ Tail(q) \in Seq(Events) /\ Once(Tail(q))
           /\ \A s \in Sessions : Waiting(Tail(q), s) <=> Waiting(q, s) /\ Head(q) # Finished(s)
  <1>1. Len(q) \in Nat /\ Len(q) > 0 /\ Head(q) = q[1] /\ Tail(q) \in Seq(Events)
        /\ Len(Tail(q)) = Len(q) - 1
    OBVIOUS
  <1>2. \A i \in 1 .. Len(Tail(q)) : Tail(q)[i] = q[i + 1] /\ i + 1 \in 1 .. Len(q)
    BY <1>1
  <1>3. Once(Tail(q))
    BY <1>1, <1>2 DEF Once
  <1>4. ASSUME NEW s \in Sessions
        PROVE  Waiting(Tail(q), s) <=> Waiting(q, s) /\ Head(q) # Finished(s)
    <2>1. ASSUME Waiting(Tail(q), s) PROVE Waiting(q, s) /\ Head(q) # Finished(s)
      <3>1. PICK i \in 1 .. Len(Tail(q)) : Tail(q)[i] = Finished(s)
        BY <2>1 DEF Waiting
      <3>2. i + 1 \in 1 .. Len(q) /\ q[i + 1] = Finished(s)
        BY <1>2, <3>1
      <3>3. Finished(s).kind = "finished" /\ 1 \in 1 .. Len(q) /\ i + 1 # 1
        BY <1>1 DEF Finished, Event
      <3> QED
        BY <1>1, <3>2, <3>3 DEF Once, Waiting
    <2>2. ASSUME Waiting(q, s), Head(q) # Finished(s) PROVE Waiting(Tail(q), s)
      <3>1. PICK i \in 1 .. Len(q) : q[i] = Finished(s)
        BY <2>2 DEF Waiting
      <3>2. i - 1 \in 1 .. Len(Tail(q)) /\ (i - 1) + 1 = i
        BY <1>1, <2>2, <3>1
      <3> QED
        BY <1>2, <3>1, <3>2 DEF Waiting
    <2> QED
      BY <2>1, <2>2
  <1> QED
    BY <1>1, <1>3, <1>4

\* A step after which nobody has the page who had it not.
LEMMA BusyStays ==
    ASSUME BusyInv, page' # "apps" \/ page' = page, \A s \in Sessions : Busy(s)' => Busy(s)
    PROVE  BusyInv'
  BY DEF BusyInv

\* What a session is at when an event of its is delivered.
LEMMA WhatIsDelivered ==
    ASSUME IInv, NEW s \in Sessions
    PROVE  /\ posted \in Seq(Events)
           /\ DeliverExec(s) => phase[s] = "started"
           /\ DeliverReady(s) => phase[s] = "ended" /\ task[s] = "done"
           /\ DeliverStopMicrophone(s) => task[s] = "waitMain"
  <1>1. posted \in Seq(Events)
    BY DEF IInv, TypeOK
  <1>2. posted # <<>> => Head(posted) = posted[1] /\ 1 \in 1 .. Len(posted)
    BY <1>1
  <1>3. posted # <<>> => Fits(Head(posted), phase, task)
    BY <1>2 DEF IInv, PostedOK
  <1> QED
    BY <1>1, <1>3, SessionsAssumption
    DEF Fits, DeliverExec, DeliverReady, DeliverStopMicrophone, First, Event, QuitEvent

\* A step of another event, or of none, leaves each sessionFinished() where it is.
LEMMA SameWaiting ==
    ASSUME posted \in Seq(Events), Once(posted),
           \/ posted' = posted
           \/ Post(QuitEvent)
           \/ \E k \in SessionEvents \ {"finished"}, s \in Sessions : Post(Event(k, s))
           \/ posted # <<>> /\ Head(posted).kind # "finished" /\ posted' = Tail(posted)
    PROVE  /\ Once(posted')
           /\ \A t \in Sessions : Waiting(posted', t) <=> Waiting(posted, t)
  <1>1. CASE posted' = posted
    BY <1>1
  <1>2. CASE Post(QuitEvent)
    <2>1. QuitEvent \in Events /\ \A t \in Sessions : QuitEvent # Finished(t)
      BY DEF QuitEvent, Finished, Event, Events
    <2> QED
      BY <1>2, <2>1, Added DEF Post
  <1>3. CASE \E k \in SessionEvents \ {"finished"}, s \in Sessions : Post(Event(k, s))
    <2>1. PICK k \in SessionEvents \ {"finished"}, s \in Sessions : Post(Event(k, s))
      BY <1>3
    <2>2. Event(k, s) \in Events /\ \A t \in Sessions : Event(k, s) # Finished(t)
      BY DEF Finished, Event, Events
    <2> QED
      BY <2>1, <2>2, Added DEF Post
  <1>4. CASE posted # <<>> /\ Head(posted).kind # "finished" /\ posted' = Tail(posted)
    <2>1. \A t \in Sessions : Head(posted) # Finished(t)
      BY <1>4 DEF Finished, Event
    <2> QED
      BY <1>4, <2>1, Taken
  <1> QED
    BY <1>1, <1>2, <1>3, <1>4

\* initialize() succeeds: the page was nobody's and is this session's now.
LEMMA LaunchKeepsPage ==
    ASSUME IInv, PageInv, NEW s \in Sessions, Launch(s)
    PROVE  PageInv'
  <1> USE DEF Launch, MayLaunch, lock
  <1>1. Once(posted') /\ \A t \in Sessions : Waiting(posted', t) <=> Waiting(posted, t)
    BY DEF PageInv
  <1>2. FinishInv'
    BY <1>1 DEF PageInv, FinishInv
  <1>3. \A t \in Sessions : ~Busy(t)
    BY DEF PageInv, BusyInv
  <1>4. \A t \in Sessions : t # s => ~Busy(t)'
    BY <1>1, <1>3 DEF Busy, IInv, TypeOK
  <1>5. BusyInv'
    BY <1>4 DEF BusyInv
  <1>6. HeldInv'
    BY DEF PageInv, HeldInv, Holds, IInv, TypeOK
  <1> QED
    BY <1>1, <1>2, <1>5, <1>6 DEF PageInv

\* The other steps of the main thread and the connection's thread that deliver
\* nothing.
LEMMA MainKeepsPage ==
    ASSUME IInv, PageInv, NEW s \in Sessions,
           LaunchFails(s) \/ StartTimer(s) \/ Acquire(s) \/ ConnectionThread(s) \/ ExecReturns(s)
    PROVE  PageInv'
  <1> USE DEF LaunchFails, MayLaunch, StartTimer, Acquire, ConnectionThread, ExecReturns, ui, lock
  <1>0. TypeOK /\ PhasesFitTasks /\ MainFits
    BY DEF IInv
  <1>1. Once(posted') /\ \A t \in Sessions : Waiting(posted', t) <=> Waiting(posted, t)
    <2>1. posted' = posted \/ Post(Event("exec", s))
      OBVIOUS
    <2>2. "exec" \in SessionEvents \ {"finished"}
      BY DEF SessionEvents
    <2> QED
      BY <1>0, <2>1, <2>2, SameWaiting DEF PageInv, TypeOK
  <1>2. phase[s] \in {"executing"} \/ ~ExecReturns(s)
    BY <1>0 DEF MainFits
  <1>3. phase[s] \in {"initialized"} \/ ~Acquire(s)
    BY <1>0 DEF MainFits
  <1>4. FinishInv'
    BY <1>0, <1>1, <1>2 DEF PageInv, FinishInv, TypeOK, PhasesFitTasks
  <1>5. \A t \in Sessions : Busy(t)' => Busy(t)
    BY <1>0, <1>1, <1>2, <1>3 DEF Busy, TypeOK
  <1>6. page' = page
    OBVIOUS
  <1>7. HeldInv'
    BY <1>0, <1>2 DEF PageInv, HeldInv, Holds, TypeOK, PhasesFitTasks
  <1> QED
    BY <1>1, <1>4, <1>5, <1>6, <1>7, BusyStays DEF PageInv

\* The other events the main thread delivers.
LEMMA DeliveryKeepsPage ==
    ASSUME IInv, PageInv, NEW s \in Sessions,
           DeliverExec(s) \/ DeliverQuitStarting(s) \/ DeliverStopMicrophone(s) \/ DeliverReady(s)
    PROVE  PageInv'
  <1> USE DEF DeliverExec, DeliverQuitStarting, DeliverStopMicrophone, DeliverReady, First, ui, lock
  <1>0. TypeOK /\ PhasesFitTasks
    BY DEF IInv
  <1>1. Once(posted') /\ \A t \in Sessions : Waiting(posted', t) <=> Waiting(posted, t)
    <2>1. posted # <<>> /\ Head(posted).kind # "finished" /\ posted' = Tail(posted)
      BY DEF Event
    <2> QED
      BY <1>0, <2>1, SameWaiting DEF PageInv, TypeOK
  <1>2. /\ DeliverExec(s) => phase[s] = "started"
        /\ DeliverReady(s) => phase[s] = "ended" /\ task[s] = "done"
        /\ DeliverStopMicrophone(s) => task[s] = "waitMain"
    BY WhatIsDelivered
  <1>3. FinishInv'
    BY <1>0, <1>1, <1>2 DEF PageInv, FinishInv, TypeOK, BeforeQuit
  <1>4. \A t \in Sessions : Busy(t)' => Busy(t)
    BY <1>0, <1>1, <1>2 DEF Busy, TypeOK, BeforeQuit
  <1>5. page' # "apps" \/ page' = page
    OBVIOUS
  <1>6. HeldInv'
    <2>1. sem' = sem /\ \A t \in Sessions : Holds(t) => Holds(t)'
      BY <1>0, <1>2 DEF Holds, TypeOK, PhasesFitTasks
    <2> QED
      BY <2>1 DEF PageInv, HeldInv
  <1> QED
    BY <1>1, <1>3, <1>4, <1>5, <1>6, BusyStays DEF PageInv

\* sessionFinished(): the page was this session's and is nobody's now.
LEMMA FinishedKeepsPage ==
    ASSUME IInv, PageInv, NEW s \in Sessions, DeliverFinished(s)
    PROVE  PageInv'
  <1> USE DEF DeliverFinished, First, lock
  <1>0. TypeOK /\ PhasesFitTasks
    BY DEF IInv
  <1>1. posted \in Seq(Events) /\ posted # <<>> /\ Head(posted) = Finished(s) /\ Once(posted)
    BY <1>0 DEF PageInv, TypeOK, Finished
  <1>2. /\ Tail(posted) \in Seq(Events) /\ Once(Tail(posted))
        /\ \A t \in Sessions :
              Waiting(Tail(posted), t) <=> Waiting(posted, t) /\ Finished(s) # Finished(t)
    BY <1>1, Taken
  <1>3. /\ Once(posted')
        /\ \A t \in Sessions : Waiting(posted', t) <=> Waiting(posted, t) /\ t # s
    <2>1. \A t \in Sessions : Finished(s) # Finished(t) <=> t # s
      BY DEF Finished, Event
    <2>2. QuitEvent \in Events /\ \A t \in Sessions : QuitEvent # Finished(t)
      BY DEF QuitEvent, Finished, Event, Events
    <2>3. /\ Once(Append(Tail(posted), QuitEvent))
          /\ \A t \in Sessions : Waiting(Append(Tail(posted), QuitEvent), t) <=>
                                     Waiting(Tail(posted), t)
      BY <1>2, <2>2, Added
    <2> QED
      BY <1>2, <2>1, <2>3
  <1>4. Waiting(posted, s)
    <2>1. 1 \in 1 .. Len(posted) /\ Head(posted) = posted[1]
      BY <1>1
    <2> QED
      BY <1>1, <2>1 DEF Waiting
  <1>5. FinishInv'
    BY <1>3 DEF PageInv, FinishInv
  <1>6. \A t \in Sessions : ~Busy(t)'
    <2>1. Busy(s) /\ \A t \in Sessions : Busy(t) => t = s
      BY <1>4 DEF PageInv, BusyInv, Busy
    <2>2. task[s] \notin {"none", "notify"} /\ ~(s \in quits /\ task[s] \in BeforeQuit)
      BY <1>4 DEF PageInv, FinishInv
    <2>3. phase[s] \in {"ended", "deleted"}
      BY <1>0, <2>2 DEF PhasesFitTasks
    <2> QED
      BY <1>3, <2>1, <2>2, <2>3 DEF Busy
  <1>7. BusyInv'
    BY <1>6 DEF BusyInv
  <1>8. HeldInv'
    BY DEF PageInv, HeldInv, Holds
  <1> QED
    BY <1>3, <1>5, <1>7, <1>8 DEF PageInv

\* A task posts its sessionFinished(), at the latest after it quit the host's app.
LEMMA TellingKeepsPage ==
    ASSUME IInv, PageInv, NEW s \in Sessions, Notify(s) \/ QuitApp(s)
    PROVE  PageInv'
  <1> USE DEF Notify, QuitApp, TaskAt, ui, lock
  <1>0. TypeOK /\ PhasesFitTasks
    BY DEF IInv
  <1>1. task[s] \in {"notify", "quitApp"} /\ phase[s] = "ended" /\ ~Waiting(posted, s)
    BY <1>0 DEF PhasesFitTasks, PageInv, FinishInv, BeforeQuit
  <1>2. CASE Post(Event("quitStarting", s)) /\ quits' = quits \cup {s}
    <2>0. task[s] = "notify" /\ task' = [task EXCEPT ![s] = "stopMicrophone"]
      BY <1>2 DEF Post, Event, QuitApp
    <2>1. Once(posted') /\ \A t \in Sessions : Waiting(posted', t) <=> Waiting(posted, t)
      <3>1. "quitStarting" \in SessionEvents \ {"finished"}
        BY DEF SessionEvents
      <3> QED
        BY <1>0, <1>2, <3>1, SameWaiting DEF PageInv, TypeOK
    <2>2. FinishInv'
      BY <1>0, <1>1, <1>2, <2>0, <2>1 DEF PageInv, FinishInv, TypeOK
    <2>3. \A t \in Sessions : Busy(t)' => Busy(t)
      BY <1>0, <1>2, <2>0, <2>1 DEF Busy, TypeOK
    <2>4. HeldInv'
      BY <1>0, <1>1, <2>0 DEF PageInv, HeldInv, Holds, TypeOK
    <2> QED
      BY <2>1, <2>2, <2>3, <2>4, BusyStays DEF PageInv
  <1>3. CASE Post(Event("finished", s)) /\ quits' = quits
    <2>0. /\ \/ task[s] = "notify" /\ task' = [task EXCEPT ![s] = "stopMicrophone"]
             \/ task[s] = "quitApp" /\ task' = [task EXCEPT ![s] = "exit"]
          /\ phase' = phase
      OBVIOUS
    <2>1. /\ Once(posted')
          /\ \A t \in Sessions : Waiting(posted', t) <=> Waiting(posted, t) \/ t = s
      <3>1. /\ Event("finished", s) \in Events
            /\ \A t \in Sessions : Event("finished", s) = Finished(t) <=> t = s
        BY DEF Finished, Event, Events, SessionEvents
      <3> QED
        BY <1>0, <1>1, <1>3, <3>1, Added DEF PageInv, TypeOK, Post
    <2>2. FinishInv'
      BY <1>0, <1>1, <1>3, <2>0, <2>1 DEF PageInv, FinishInv, TypeOK, BeforeQuit
    <2>3. \A t \in Sessions : Busy(t)' => Busy(t)
      <3>1. Busy(s)
        BY <2>0 DEF PageInv, FinishInv, Busy, BeforeQuit
      <3>2. \A t \in Sessions : t # s => (Busy(t)' => Busy(t))
        BY <1>0, <1>3, <2>0, <2>1 DEF Busy, TypeOK
      <3> QED
        BY <3>1, <3>2
    <2>4. HeldInv'
      BY <1>0, <1>1, <2>0 DEF PageInv, HeldInv, Holds, TypeOK
    <2> QED
      BY <2>1, <2>2, <2>3, <2>4, BusyStays DEF PageInv
  <1> QED
    BY <1>2, <1>3

\* The task's other steps.
LEMMA TaskKeepsPage ==
    ASSUME IInv, PageInv, NEW s \in Sessions,
           \/ StopMicrophone(s) \/ StopConnection(s) \/ Exit(s) \/ ClearActive(s)
           \/ Release(s) \/ EmitReady(s)
    PROVE  PageInv'
  <1> USE DEF StopMicrophone, StopConnection, Exit, ClearActive, Release, EmitReady, TaskAt, ui, lock
  <1>0. TypeOK /\ PhasesFitTasks
    BY DEF IInv
  <1>1. Once(posted') /\ \A t \in Sessions : Waiting(posted', t) <=> Waiting(posted, t)
    <2>1. \/ posted' = posted \/ Post(QuitEvent) \/ Post(Event("stopMicrophone", s))
          \/ Post(Event("readyForDeletion", s))
      BY DEF ReadyEvent
    <2>2. {"stopMicrophone", "readyForDeletion"} \subseteq SessionEvents \ {"finished"}
      BY DEF SessionEvents
    <2> QED
      BY <1>0, <2>1, <2>2, SameWaiting DEF PageInv, TypeOK
  <1>2. \/ task[s] = "stopMicrophone" /\ task' = [task EXCEPT ![s] = "waitMain"]
        \/ s \in quits /\ task[s] = "stopConnection" /\ task' = [task EXCEPT ![s] = "quitApp"]
        \/ s \notin quits /\ task[s] = "stopConnection" /\ task' = [task EXCEPT ![s] = "exit"]
        \/ task[s] = "exit" /\ task' = [task EXCEPT ![s] = "clear"]
        \/ task[s] = "clear" /\ task' = [task EXCEPT ![s] = "release"]
        \/ task[s] = "release" /\ task' = [task EXCEPT ![s] = "emit"]
        \/ task[s] = "emit" /\ task' = [task EXCEPT ![s] = "done"]
    OBVIOUS
  <1>3. phase' = phase /\ quits' = quits /\ page' = page
    OBVIOUS
  <1>4. FinishInv'
    BY <1>0, <1>1, <1>2, <1>3 DEF PageInv, FinishInv, TypeOK, BeforeQuit
  <1>5. \A t \in Sessions : Busy(t)' => Busy(t)
    BY <1>0, <1>1, <1>2, <1>3 DEF Busy, TypeOK, BeforeQuit
  <1>6. HeldInv'
    <2>1. CASE Release(s)
      BY <2>1 DEF HeldInv, Released
    <2>2. CASE ~Release(s)
      <3>1. sem' = sem /\ task[s] # "release"
        BY <2>2
      <3>2. \A t \in Sessions : Holds(t) => Holds(t)'
        BY <1>0, <1>2, <1>3, <3>1 DEF Holds, TypeOK
      <3> QED
        BY <3>1, <3>2 DEF PageInv, HeldInv
    <2> QED
      BY <2>1, <2>2
  <1> QED
    BY <1>1, <1>3, <1>4, <1>5, <1>6, BusyStays DEF PageInv

\* The steps that are of no session.
LEMMA ProgramKeepsPage ==
    ASSUME IInv, PageInv, DeliverQuit \/ LeaveLoop \/ MainReturns \/ UserCloses \/ UNCHANGED vars
    PROVE  PageInv'
  <1> USE DEF DeliverQuit, LeaveLoop, MainReturns, UserCloses, vars, ui, lock
  <1>1. Once(posted') /\ \A t \in Sessions : Waiting(posted', t) <=> Waiting(posted, t)
    <2>1. \/ posted' = posted \/ Post(QuitEvent)
          \/ posted # <<>> /\ Head(posted) = QuitEvent /\ posted' = Tail(posted)
      OBVIOUS
    <2>2. QuitEvent.kind # "finished"
      BY DEF QuitEvent, Event
    <2> QED
      BY <2>1, <2>2, SameWaiting DEF IInv, TypeOK, PageInv
  <1>2. phase' = phase /\ task' = task /\ quits' = quits /\ page' = page /\ sem' = sem
    OBVIOUS
  <1>3. FinishInv' /\ HeldInv'
    BY <1>1, <1>2 DEF PageInv, FinishInv, HeldInv, Holds
  <1>4. \A t \in Sessions : Busy(t)' => Busy(t)
    BY <1>1, <1>2 DEF Busy
  <1> QED
    BY <1>1, <1>2, <1>3, <1>4, BusyStays DEF PageInv

\* Every step keeps the page with the session that has it.
LEMMA NextKeepsPage == IInv /\ PageInv /\ [Next]_vars => PageInv'
  <1> SUFFICES ASSUME IInv, PageInv, [Next]_vars
               PROVE  PageInv'
    OBVIOUS
  <1>1. ASSUME NEW s \in Sessions,
               \/ Launch(s) \/ LaunchFails(s) \/ ConnectionThread(s) \/ StartTimer(s)
               \/ Acquire(s) \/ ExecReturns(s)
        PROVE  PageInv'
    BY <1>1, LaunchKeepsPage, MainKeepsPage
  <1>2. ASSUME NEW s \in Sessions, Deliver(s)
        PROVE  PageInv'
    BY <1>2, DeliveryKeepsPage, FinishedKeepsPage DEF Deliver
  <1>3. ASSUME NEW s \in Sessions, CleanupTask(s)
        PROVE  PageInv'
    BY <1>3, TellingKeepsPage, TaskKeepsPage DEF CleanupTask
  <1> QED
    BY <1>1, <1>2, <1>3, ProgramKeepsPage DEF Next, MainThread

\* A start() that finds the semaphore taken waits for a session that has ended
\* and whose task has begun to clean up: not for one that streams, nor for one
\* whose page still waits to hear that it is finished.
THEOREM StartWaitsRight == Spec => []StartWaitsForCleanup
  <1>1. Init => PageInv
    BY DEF Init, PageInv, Once, FinishInv, BusyInv, HeldInv, Busy, Waiting
  <1>2. IInv /\ PageInv /\ [Next]_vars => PageInv'
    BY NextKeepsPage
  <1>3. IInv /\ PageInv => StartWaitsForCleanup
    <2> SUFFICES ASSUME IInv, PageInv, mainpc = "acquire", ~sem
                 PROVE  \E s \in Sessions :
                            phase[s] = "ended" /\ task[s] \notin {"none", "notify", "emit", "done"}
      BY DEF StartWaitsForCleanup
    <2>1. cur \in Sessions /\ phase[cur] = "initialized"
      BY DEF IInv, MainFits
    <2>2. PICK s \in Sessions : Holds(s)
      BY DEF PageInv, HeldInv
    <2>3. ~Busy(s)
      BY <2>1, <2>2 DEF PageInv, BusyInv, Busy, Holds
    <2> QED
      BY <2>2, <2>3 DEF Holds, Busy, IInv, PhasesFitTasks
  <1> QED
    BY <1>1, <1>2, <1>3, Invariance, PTL DEF Spec
=============================================================================
