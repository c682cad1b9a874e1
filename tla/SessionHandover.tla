-------------------------- MODULE SessionHandover --------------------------
(***************************************************************************)
(* One session after the other (src/app/streaming/session.cpp): start()    *)
(* waits for the session before it, the connection is started by a thread, *)
(* exec() runs on the main thread, and DeferredSessionCleanupTask cleans   *)
(* up on a pool thread, which talks to the main thread through the posted  *)
(* events of its Qt event loop.  What happens inside a session is the      *)
(* subject of module Session.                                              *)
(***************************************************************************)
EXTENDS Sequences

CONSTANTS Sessions,   \* the sessions the user may start
          NoSession

ASSUME SessionsAssumption == NoSession \notin Sessions

VARIABLES
    cli,      \* started from the command line: StreamSegue.quitAfter
    page,     \* what the window shows: "apps", "segue" or "quit"
    mainpc,   \* main thread: "loop", "acquire", "exec", "exit" or "returned"
    quitting, \* QCoreApplication::quit() was carried out: no new iteration of the loop
    timer,    \* the session whose startSessionTimer runs
    cur,      \* the session the main thread is in start() or exec() of
    posted,   \* its posted events
    sem,      \* s_ActiveSessionSemaphore is available
    active,   \* s_ActiveSession
    phase,    \* each session's Session object and connection thread
    conn,     \* each session's connection
    task,     \* each session's DeferredSessionCleanupTask
    quits     \* sessions whose task quits the host's app

ui   == <<cli, page, quitting>>
lock == <<sem, active>>
vars == <<ui, mainpc, timer, cur, posted, lock, phase, conn, task, quits>>

Event(k, s) == [kind |-> k, of |-> s]
QuitEvent == Event("quit", NoSession)
Post(e) == posted' = Append(posted, e)

Init ==
    /\ cli \in BOOLEAN
    /\ page = "apps"
    /\ mainpc = "loop" /\ quitting = FALSE
    /\ timer = NoSession /\ cur = NoSession
    /\ posted = <<>>
    /\ sem = TRUE
    /\ active = NoSession
    /\ phase = [s \in Sessions |-> "new"]
    /\ conn = [s \in Sessions |-> FALSE]
    /\ task = [s \in Sessions |-> "none"]
    /\ quits = {}

----------------------------------------------------------------------------
\* The main thread.

\* From the command line there is one launch only.
MayLaunch(s) ==
    /\ mainpc = "loop" /\ ~quitting /\ page = "apps"
    /\ phase[s] = "new"
    /\ cli => \A t \in Sessions : phase[t] = "new"

\* The page creates a session and initialize() succeeds: the start timer runs.
Launch(s) ==
    /\ MayLaunch(s)
    /\ page' = "segue"
    /\ timer' = s
    /\ phase' = [phase EXCEPT ![s] = "initialized"]
    /\ UNCHANGED <<cli, quitting, mainpc, cur, posted, lock, conn, task, quits>>

\* initialize() fails: the page calls its own sessionFinished() and
\* sessionReadyForDeletion().  A command-line launch ends with its dialog.
LaunchFails(s) ==
    /\ MayLaunch(s)
    /\ phase' = [phase EXCEPT ![s] = "deleted"]
    /\ UNCHANGED <<ui, mainpc, timer, cur, posted, lock, conn, task, quits>>

\* startSessionTimer: the main thread enters start().
StartTimer(s) ==
    /\ mainpc = "loop" /\ ~quitting /\ timer = s
    /\ mainpc' = "acquire"
    /\ cur' = s
    /\ timer' = NoSession
    /\ UNCHANGED <<ui, posted, lock, phase, conn, task, quits>>

\* The rest of start(): the connection's thread starts.
Acquire(s) ==
    /\ mainpc = "acquire" /\ cur = s /\ sem
    /\ sem' = FALSE
    /\ active' = s
    /\ phase' = [phase EXCEPT ![s] = "starting"]
    /\ mainpc' = "loop"
    /\ cur' = NoSession
    /\ UNCHANGED <<ui, timer, posted, conn, task, quits>>

\* The thread calls LiStartConnection(), which may fail, and finishes.
ConnectionThread(s) ==
    /\ mainpc # "returned"
    /\ phase[s] = "starting"
    /\ phase' = [phase EXCEPT ![s] = "started"]
    /\ \E ok \in BOOLEAN : conn' = [conn EXCEPT ![s] = ok]
    /\ Post(Event("exec", s))
    /\ UNCHANGED <<ui, mainpc, timer, cur, lock, task, quits>>

\* exec() returns: it has left its cleanup to the thread pool.
ExecReturns(s) ==
    /\ mainpc = "exec" /\ cur = s
    /\ mainpc' = "loop"
    /\ cur' = NoSession
    /\ phase' = [phase EXCEPT ![s] = "ended"]
    /\ task' = [task EXCEPT ![s] = "notify"]
    /\ UNCHANGED <<ui, timer, posted, lock, conn, quits>>

First(k, s) == posted # <<>> /\ Head(posted) = Event(k, s)

DeliverExec(s) ==
    /\ mainpc = "loop" /\ First("exec", s)
    /\ mainpc' = "exec"
    /\ cur' = s
    /\ phase' = [phase EXCEPT ![s] = "executing"]
    /\ posted' = Tail(posted)
    /\ UNCHANGED <<ui, timer, lock, conn, task, quits>>

DeliverQuitStarting(s) ==
    /\ mainpc = "loop" /\ First("quitStarting", s)
    /\ page' = "quit"
    /\ posted' = Tail(posted)
    /\ UNCHANGED <<cli, quitting, mainpc, timer, cur, lock, phase, conn, task, quits>>

\* StreamSegue.sessionFinished(): back to the apps, or Qt.quit(), which the
\* engine queues; an error dialog puts that off until it is closed.
DeliverFinished(s) ==
    /\ mainpc = "loop" /\ First("finished", s)
    /\ page' = "apps"
    /\ \/ posted' = Tail(posted)
       \/ cli /\ posted' = Append(Tail(posted), QuitEvent)
    /\ UNCHANGED <<cli, quitting, mainpc, timer, cur, lock, phase, conn, task, quits>>

\* stopMicrophone(), called by the task with Qt::BlockingQueuedConnection.
DeliverStopMicrophone(s) ==
    /\ mainpc = "loop" /\ First("stopMicrophone", s)
    /\ task' = [task EXCEPT ![s] = "stopConnection"]
    /\ posted' = Tail(posted)
    /\ UNCHANGED <<ui, mainpc, timer, cur, lock, phase, conn, quits>>

\* sessionReadyForDeletion(): the Session is garbage.
DeliverReady(s) ==
    /\ mainpc \in {"loop", "exec"} /\ First("readyForDeletion", s)
    /\ phase' = [phase EXCEPT ![s] = "deleted"]
    /\ posted' = Tail(posted)
    /\ UNCHANGED <<ui, mainpc, timer, cur, lock, conn, task, quits>>

DeliverQuit ==
    /\ mainpc = "loop" /\ posted # <<>> /\ Head(posted) = QuitEvent
    /\ quitting' = TRUE
    /\ posted' = Tail(posted)
    /\ UNCHANGED <<cli, page, mainpc, timer, cur, lock, phase, conn, task, quits>>

\* app.exec() returns when the events posted so far are delivered, and main()
\* waits for the thread pool.
LeaveLoop ==
    /\ mainpc = "loop" /\ quitting /\ posted = <<>>
    /\ mainpc' = "exit"
    /\ UNCHANGED <<ui, timer, cur, posted, lock, phase, conn, task, quits>>

\* waitForDone(30000)
MainReturns ==
    /\ mainpc = "exit"
    /\ mainpc' = "returned"
    /\ UNCHANGED <<ui, timer, cur, posted, lock, phase, conn, task, quits>>

\* The user closes the window, or the dialog after a command-line launch.
UserCloses ==
    /\ mainpc = "loop" /\ ~quitting
    /\ \A i \in DOMAIN posted : posted[i] # QuitEvent
    /\ Post(QuitEvent)
    /\ UNCHANGED <<ui, mainpc, timer, cur, lock, phase, conn, task, quits>>

Deliver(s) == \/ DeliverExec(s) \/ DeliverQuitStarting(s) \/ DeliverFinished(s)
              \/ DeliverStopMicrophone(s) \/ DeliverReady(s)

----------------------------------------------------------------------------
\* DeferredSessionCleanupTask: run() and the destructor.

TaskAt(s, from, to) ==
    /\ mainpc # "returned"
    /\ task[s] = from
    /\ task' = [task EXCEPT ![s] = to]

Notify(s) ==
    /\ TaskAt(s, "notify", "stopMicrophone")
    /\ \/ quits' = quits \cup {s} /\ Post(Event("quitStarting", s))
       \/ quits' = quits /\ Post(Event("finished", s))
    /\ UNCHANGED <<ui, mainpc, timer, cur, lock, phase, conn>>

StopMicrophone(s) ==
    /\ TaskAt(s, "stopMicrophone", "waitMain")
    /\ Post(Event("stopMicrophone", s))
    /\ UNCHANGED <<ui, mainpc, timer, cur, lock, phase, conn, quits>>

\* Mutant: the connection is left up.
MutDisconnected(c, s) == c
Disconnected(c, s) == [c EXCEPT ![s] = FALSE]

StopConnection(s) ==
    /\ TaskAt(s, "stopConnection", IF s \in quits THEN "quitApp" ELSE "exit")
    /\ conn' = Disconnected(conn, s)
    /\ UNCHANGED <<ui, mainpc, timer, cur, posted, lock, phase, quits>>

QuitApp(s) ==
    /\ TaskAt(s, "quitApp", "exit")
    /\ Post(Event("finished", s))
    /\ UNCHANGED <<ui, mainpc, timer, cur, lock, phase, conn, quits>>

\* Mutant: the semaphore is released by run(), before its destructor.
MutExit(s) ==
    /\ TaskAt(s, "exit", "clear")
    /\ sem' = TRUE
    /\ Post(QuitEvent) \/ UNCHANGED posted
    /\ UNCHANGED <<ui, mainpc, timer, cur, active, phase, conn, quits>>
\* m_ShouldExit quits the program.
Exit(s) ==
    /\ TaskAt(s, "exit", "clear")
    /\ Post(QuitEvent) \/ UNCHANGED posted
    /\ UNCHANGED <<ui, mainpc, timer, cur, lock, phase, conn, quits>>

\* Mutant: the session is offered for deletion before the semaphore is.
MutClearActive(s) ==
    /\ TaskAt(s, "clear", "release")
    /\ active' = NoSession
    /\ Post(Event("readyForDeletion", s))
    /\ UNCHANGED <<ui, mainpc, timer, cur, sem, phase, conn, quits>>
ClearActive(s) ==
    /\ TaskAt(s, "clear", "release")
    /\ active' = NoSession
    /\ UNCHANGED <<ui, mainpc, timer, cur, posted, sem, phase, conn, quits>>

\* Mutant: nothing is released.
MutReleased == FALSE
Released == TRUE

Release(s) ==
    /\ TaskAt(s, "release", "emit")
    /\ sem' = Released
    /\ UNCHANGED <<ui, mainpc, timer, cur, posted, active, phase, conn, quits>>

ReadyEvent(s) == Event("readyForDeletion", s)

EmitReady(s) ==
    /\ TaskAt(s, "emit", "done")
    /\ Post(ReadyEvent(s))
    /\ UNCHANGED <<ui, mainpc, timer, cur, lock, phase, conn, quits>>

CleanupTask(s) == \/ Notify(s) \/ StopMicrophone(s) \/ StopConnection(s) \/ QuitApp(s)
                  \/ Exit(s) \/ ClearActive(s) \/ Release(s) \/ EmitReady(s)

----------------------------------------------------------------------------
MainThread == \/ \E s \in Sessions : StartTimer(s) \/ Acquire(s) \/ ExecReturns(s) \/ Deliver(s)
              \/ DeliverQuit \/ LeaveLoop

Next == \/ MainThread \/ MainReturns \/ UserCloses
        \/ \E s \in Sessions : Launch(s) \/ LaunchFails(s) \/ ConnectionThread(s) \/ CleanupTask(s)

Spec == Init /\ [][Next]_vars

\* The main thread, the connection's thread and the pool run; a stream ends at
\* some time.  Nothing is assumed of the user, and main()'s 30 s are longer than
\* anything but a wait that does not end.
FairSpec ==
    /\ Spec
    /\ WF_vars(MainThread)
    /\ \A s \in Sessions : WF_vars(ConnectionThread(s)) /\ WF_vars(CleanupTask(s))

----------------------------------------------------------------------------
\* Properties.

Phases == {"new", "initialized", "starting", "started", "executing", "ended", "deleted"}
TaskStates == {"none", "notify", "stopMicrophone", "waitMain", "stopConnection", "quitApp",
               "exit", "clear", "release", "emit", "done"}
SessionEvents == {"exec", "quitStarting", "finished", "stopMicrophone", "readyForDeletion"}
Events == [kind : SessionEvents, of : Sessions] \cup {QuitEvent}

\* Every variable keeps its type.
TypeOK ==
    /\ cli \in BOOLEAN /\ quitting \in BOOLEAN
    /\ page \in {"apps", "segue", "quit"}
    /\ mainpc \in {"loop", "acquire", "exec", "exit", "returned"}
    /\ timer \in Sessions \cup {NoSession} /\ cur \in Sessions \cup {NoSession}
    /\ posted \in Seq(Events)
    /\ sem \in BOOLEAN
    /\ active \in Sessions \cup {NoSession}
    /\ phase \in [Sessions -> Phases]
    /\ conn \in [Sessions -> BOOLEAN]
    /\ task \in [Sessions -> TaskStates]
    /\ quits \subseteq Sessions

\* The callbacks of a connection find their session through s_ActiveSession,
\* which two threads write without a lock, session.cpp:2256 and 4192.
CallbacksFindSession == \A s \in Sessions : conn[s] => active = s

\* A Session is deleted only when its cleanup task has let go of it and no
\* event for it is on its way.
DeletedLast ==
    \A s \in Sessions : phase[s] = "deleted" =>
        /\ task[s] \in {"none", "done"}
        /\ \A i \in DOMAIN posted : posted[i].of # s

\* The session whose turn it is: from start() to the semaphore's release.
Holds(s) == \/ phase[s] \in {"starting", "started", "executing"}
            \/ phase[s] = "ended" /\ task[s] \notin {"emit", "done"}

Turn == IF \E s \in Sessions : Holds(s) THEN CHOOSE s \in Sessions : Holds(s) ELSE NoSession
Connected == {s \in Sessions : conn[s]}

\* Sessions take turns, and a session's connection is stopped before the next
\* one's turn begins.
Turns == INSTANCE ActiveSession WITH turn <- Turn, connected <- Connected

SessionsTakeTurns == Turns!Spec

\* The tasks that no longer need the main thread.
Independent == {"none", "stopConnection", "quitApp", "exit", "clear", "release", "emit", "done"}

\* A start() that waits for a session which is past stopMicrophone() goes on.
StartGoesOn ==
    mainpc = "acquire" /\ (\A s \in Sessions : task[s] \in Independent) ~> mainpc # "acquire"

\* A start() that has to wait waits for a session that has ended and is being
\* cleaned up, never for one that connects or streams: the page of the next one
\* opens only after the one before has said that it is finished.
StartWaitsForCleanup ==
    mainpc = "acquire" /\ ~sem =>
        \E s \in Sessions :
            phase[s] = "ended" /\ task[s] \notin {"none", "notify", "emit", "done"}

\* "Wait for any old session to finish cleanup", session.cpp:4188, and "Give
\* worker tasks time to properly exit", main.cpp:1571: what the main thread
\* waits for does not itself wait for the main thread.
MainWaitsForWorkers == mainpc \in {"acquire", "exit"} => \A s \in Sessions : task[s] # "waitMain"
=============================================================================
