------------------------------ MODULE Polling ------------------------------
(***************************************************************************)
(* How the hosts are polled (src/app/backend/computermanager.cpp and .h):  *)
(* polling is wanted by the window and by a search, every known host is    *)
(* then polled by a thread, pool tasks add and delete hosts under them,    *)
(* and the grid of computers (src/app/gui/computermodel.cpp) follows.      *)
(*                                                                         *)
(* A host is its uuid; a computer is one NvComputer of it, <<host, n>> for *)
(* the n-th; a thread is <<computer, m>>, and m is used again once it has  *)
(* ended.  A thread that has returned from run() leaves its entry at once: *)
(* when it is reaped changes nothing.  What is under m_Lock is one action. *)
(* Signals queued for the main thread are not told apart: each makes the   *)
(* grid read the known hosts.  The list of hosts on disk is HostStore's;   *)
(* attributes and addresses of a host are left out: a poll finds a change  *)
(* or none.                                                                *)
(***************************************************************************)
EXTENDS Integers

CONSTANTS Hosts, NoThread,
          MaxComputers,   \* bound: computers created for one host
          MaxThreads      \* bound: threads of one computer that have not ended

Computers == Hosts \X (1..MaxComputers)
HostOf(c) == c[1]
Threads == Computers \X (1..MaxThreads)
Polled(t) == t[1]

ASSUME PollingAssumption ==
    /\ MaxComputers \in Nat /\ MaxThreads \in Nat
    /\ NoThread \notin Threads

VARIABLES
    phase,          \* main(): running, quitting, in ~ComputerManager(), gone
    pollingRef,     \* m_PollingRef
    pollingActive,  \* of main.qml: the window has polling started
    seeker,         \* the ComputerSeeker: waiting, its timer runs, or done
    created,        \* number of computers created for a host
    known,          \* m_KnownHosts
    freed,          \* computers that were deleted
    entry,          \* threads of the host's polling entry
    active,         \* m_ActiveThread of the host's polling entry
    running,        \* threads that are in PcMonitorThread::run()
    tpc,            \* the next step of PcMonitorThread::run()
    stop,           \* isInterruptionRequested() of a thread
    posted,         \* a computerStateChanged() is queued for the main thread
    rows,           \* m_Computers of the ComputerModel
    apc,            \* per host, the next step of a PendingAddTask
    dpc, held       \* per computer, the next step of a DeferredHostDeletionTask and
                    \* the threads of the entry it has taken

polls == <<running, tpc, stop>>
lists == <<known, entry, active>>
dels  == <<dpc, held>>
vars  == <<phase, pollingRef, pollingActive, seeker, created, freed, posted, rows,
           polls, lists, apc, dels>>

Known(h) == {c \in known : HostOf(c) = h}

Init ==
    /\ phase = "running" /\ pollingRef = 0 /\ pollingActive = FALSE
    /\ seeker = "waiting"
    /\ known \in SUBSET {c \in Computers : c[2] = 1}
    /\ created = [h \in Hosts |-> IF Known(h) = {} THEN 0 ELSE 1]
    /\ freed = {}
    /\ entry = [h \in Hosts |-> {}] /\ active = [h \in Hosts |-> NoThread]
    /\ running = {} /\ tpc = [t \in Threads |-> "try"]
    /\ stop = [t \in Threads |-> FALSE]
    /\ posted = FALSE /\ rows = known
    /\ apc = [h \in Hosts |-> "idle"]
    /\ dpc = [c \in Computers |-> "idle"] /\ held = [c \in Computers |-> {}]

----------------------------------------------------------------------------
\* Starting and interrupting threads, under m_Lock.

\* startPollingComputer() for the computers cs: those whose entry has no active
\* thread get one.
Unpolled(cs) == {c \in cs : active[HostOf(c)] = NoThread}
Ended(c) == {t \in Threads \ running : Polled(t) = c}
NewThread(c) == CHOOSE t \in Ended(c) : TRUE

StartPollingComputers(cs) ==
    LET New == {NewThread(c) : c \in Unpolled(cs)}
        Own(h) == {t \in New : HostOf(Polled(t)) = h}
    IN  /\ \A c \in Unpolled(cs) : Ended(c) # {}
        /\ running' = running \cup New
        /\ entry' = [h \in Hosts |-> entry[h] \cup Own(h)]
        /\ active' = [h \in Hosts |-> IF Own(h) = {} THEN active[h]
                                      ELSE CHOOSE t \in Own(h) : TRUE]
        /\ UNCHANGED <<tpc, stop>>

\* ComputerPollingEntry::interrupt() of every entry.
InterruptAll ==
    /\ stop' = [t \in Threads |-> stop[t] \/ \E h \in Hosts : active[h] = t]
    /\ active' = [h \in Hosts |-> NoThread]

----------------------------------------------------------------------------
\* ComputerManager::startPolling() and stopPollingAsync().

StartPolling ==
    /\ pollingRef' = pollingRef + 1
    /\ IF pollingRef > 0
       THEN UNCHANGED <<polls, lists>>
       ELSE StartPollingComputers(known) /\ UNCHANGED known

\* Mutant: the first of two users that stops polling interrupts the threads.
MutLastUser == pollingRef >= 1
LastUser == pollingRef = 1

StopPollingAsync ==
    /\ pollingRef' = pollingRef - 1
    /\ IF LastUser
       THEN InterruptAll /\ UNCHANGED <<running, tpc, known, entry>>
       ELSE UNCHANGED <<polls, lists>>

\* The window: focus, visibility, its timer, and the setting that restarts
\* polling by stopping and starting it.
WindowStarts ==
    /\ phase = "running" /\ ~pollingActive
    /\ pollingActive' = TRUE /\ StartPolling
    /\ UNCHANGED <<phase, seeker, created, freed, posted, rows, apc, dels>>

WindowStops ==
    /\ phase = "running" /\ pollingActive
    /\ pollingActive' = FALSE /\ StopPollingAsync
    /\ UNCHANGED <<phase, seeker, created, freed, posted, rows, apc, dels>>

\* ComputerSeeker::start() and onTimeout().  (A computer that is not known by
\* its name is added first, which is AddHost.)
SeekerStart ==
    /\ phase = "running" /\ seeker = "waiting"
    /\ seeker' = "seeking" /\ StartPolling
    /\ UNCHANGED <<phase, pollingActive, created, freed, posted, rows, apc, dels>>

TimerRuns == seeker = "seeking"

SeekerTimeout ==
    /\ phase = "running" /\ TimerRuns
    /\ seeker' = "done" /\ StopPollingAsync
    /\ UNCHANGED <<phase, pollingActive, created, freed, posted, rows, apc, dels>>

----------------------------------------------------------------------------
\* PcMonitorThread::run().

\* A signal queued for the main thread, which reads none any more once it quits.
Post == posted' = (posted \/ phase = "running")

\* The thread is told to stop before a round or before a request.
Return(t) ==
    /\ t \in running /\ tpc[t] = "try" /\ stop[t]
    /\ running' = running \ {t}
    /\ stop' = [stop EXCEPT ![t] = FALSE]
    /\ entry' = [h \in Hosts |-> entry[h] \ {t}]
    /\ held' = [c \in Computers |-> held[c] \ {t}]
    /\ UNCHANGED <<phase, pollingRef, pollingActive, seeker, created, freed, posted,
                   rows, tpc, known, active, apc, dpc>>

\* The thread asks its host, at each address and again, and then for its list of
\* apps; a change that the first answer brings is reported before that.
Request(t) ==
    /\ t \in running /\ tpc[t] = "try" /\ ~stop[t]
    /\ tpc' = [tpc EXCEPT ![t] = "asked"]
    /\ Post \/ UNCHANGED posted
    /\ UNCHANGED <<phase, pollingRef, pollingActive, seeker, created, freed, rows, running,
                   stop, lists, apc, dels>>

\* The answer, or none; at the end of a round a change is reported.  A thread that
\* is told to stop meanwhile finishes the request and the report.
Report(t) ==
    /\ t \in running /\ tpc[t] = "asked"
    /\ tpc' = [tpc EXCEPT ![t] = "try"]
    /\ Post \/ UNCHANGED posted
    /\ UNCHANGED <<phase, pollingRef, pollingActive, seeker, created, freed, rows, running,
                   stop, lists, apc, dels>>

PcMonitorThread(t) ==
    Return(t) \/ Request(t) \/ Report(t)

----------------------------------------------------------------------------
\* The main thread's events and the grid.

\* handleComputerStateChanged(): the grid takes the known hosts over, and a search
\* ends with a host that is online and matches.  The signal may carry a computer
\* that was freed: what is then read of it is arbitrary.
ComputerUpdated ==
    /\ rows' = known
    /\ \/ UNCHANGED <<seeker, pollingRef, polls, lists>>
       \/ /\ TimerRuns
          /\ seeker' = "done" /\ StopPollingAsync

Deliver ==
    /\ phase = "running" /\ posted
    /\ posted' \in BOOLEAN
    /\ ComputerUpdated
    /\ UNCHANGED <<phase, pollingActive, created, freed, apc, dels>>

\* renameHost() and clientSideAttributeUpdated() call it directly, from the grid.
RenameHost(c) ==
    /\ phase = "running" /\ seeker # "seeking" /\ c \in rows
    /\ ComputerUpdated
    /\ UNCHANGED <<phase, pollingActive, created, freed, posted, apc, dels>>

\* ComputerModel::deleteComputer(), at most once for a computer (a bound).
DeleteComputer(c) ==
    /\ phase = "running" /\ c \in rows /\ dpc[c] = "idle"
    /\ rows' = rows \ {c}
    /\ dpc' = [dpc EXCEPT ![c] = "queued"]
    /\ UNCHANGED <<phase, pollingRef, pollingActive, seeker, created, freed, posted,
                   polls, lists, apc, held>>

----------------------------------------------------------------------------
\* DeferredHostDeletionTask::run().

TakeEntry(c) ==
    /\ dpc[c] = "queued"
    /\ dpc' = [dpc EXCEPT ![c] = "taken"]
    /\ held' = [held EXCEPT ![c] = entry[HostOf(c)]]
    /\ entry' = [entry EXCEPT ![HostOf(c)] = {}]
    /\ active' = [active EXCEPT ![HostOf(c)] = NoThread]
    /\ known' = known \ Known(HostOf(c))
    /\ UNCHANGED <<phase, pollingRef, pollingActive, seeker, created, freed, posted,
                   rows, polls, apc>>

\* Mutant: the threads of a deleted entry are not interrupted.
MutInterrupted(c) == {}
\* ~ComputerPollingEntry() interrupts the active thread (the others have been), ...
Interrupted(c) == held[c]

DeleteEntry(c) ==
    /\ dpc[c] = "taken"
    /\ dpc' = [dpc EXCEPT ![c] = "waiting"]
    /\ stop' = [t \in Threads |-> stop[t] \/ t \in Interrupted(c)]
    /\ UNCHANGED <<phase, pollingRef, pollingActive, seeker, created, freed, posted,
                   rows, running, tpc, lists, apc, held>>

\* Mutant: the threads are interrupted but not waited for.
MutThreadsEnded(c) == TRUE
\* ... and waits for all of them.
ThreadsEnded(c) == held[c] = {}

FreeComputer(c) ==
    /\ dpc[c] = "waiting" /\ ThreadsEnded(c)
    /\ dpc' = [dpc EXCEPT ![c] = "done"]
    /\ freed' = freed \cup {c}
    /\ UNCHANGED <<phase, pollingRef, pollingActive, seeker, created, posted, rows,
                   polls, lists, apc, held>>

DeferredHostDeletionTask(c) == TakeEntry(c) \/ DeleteEntry(c) \/ FreeComputer(c)

----------------------------------------------------------------------------
\* PendingAddTask::run(), for a host that the user or mDNS has named.

AddNewHost(h) ==
    /\ phase = "running" /\ apc[h] = "idle"
    /\ apc' = [apc EXCEPT ![h] = "fetching"]
    /\ UNCHANGED <<phase, pollingRef, pollingActive, seeker, created, freed, posted,
                   rows, polls, lists, dels>>

AddFails(h) ==
    /\ apc[h] = "fetching"
    /\ apc' = [apc EXCEPT ![h] = "idle"]
    /\ UNCHANGED <<phase, pollingRef, pollingActive, seeker, created, freed, posted,
                   rows, polls, lists, dels>>

\* The host is known: its computer is updated, under m_Lock.
FoldIn(h) ==
    /\ apc[h] = "fetching" /\ Known(h) # {}
    /\ \E next \in {"notify", "idle"} : apc' = [apc EXCEPT ![h] = next]
    /\ UNCHANGED <<phase, pollingRef, pollingActive, seeker, created, freed, posted, rows,
                   polls, lists, dels>>

\* Mutant: a new host is polled whether polling is wanted or not.
MutPollingEnabled == TRUE
PollingEnabled == pollingRef > 0

\* It is not: a computer is stored and polled if polling is wanted.
Add(h) ==
    /\ apc[h] = "fetching" /\ Known(h) = {} /\ created[h] < MaxComputers
    /\ LET c == <<h, created[h] + 1>>
       IN  /\ known' = known \cup {c}
           /\ IF PollingEnabled THEN StartPollingComputers({c})
                                ELSE UNCHANGED <<polls, entry, active>>
    /\ created' = [created EXCEPT ![h] = @ + 1]
    /\ apc' = [apc EXCEPT ![h] = "notify"]
    /\ UNCHANGED <<phase, pollingRef, pollingActive, seeker, freed, posted, rows, dels>>

\* The signal, after m_Lock was released.
AddNotifies(h) ==
    /\ apc[h] = "notify"
    /\ Post
    /\ apc' = [apc EXCEPT ![h] = "idle"]
    /\ UNCHANGED <<phase, pollingRef, pollingActive, seeker, created, freed, rows,
                   polls, lists, dels>>

PendingAddTask(h) == AddFails(h) \/ FoldIn(h) \/ Add(h) \/ AddNotifies(h)

----------------------------------------------------------------------------
\* The end of the program.

\* handleAboutToQuit().
AboutToQuit ==
    /\ phase = "running"
    /\ phase' = "quitting" /\ InterruptAll
    /\ UNCHANGED <<pollingRef, pollingActive, seeker, created, freed, posted, rows,
                   running, tpc, known, entry, apc, dels>>

\* main() waits for the pool's tasks (the time limit of 30 s is not modelled),
\* and ~ComputerManager() interrupts every entry, ...
WaitForDone ==
    /\ phase = "quitting"
    /\ \A h \in Hosts : apc[h] = "idle"
    /\ \A c \in Computers : dpc[c] \in {"idle", "done"}
    /\ phase' = "destroying" /\ InterruptAll
    /\ UNCHANGED <<pollingRef, pollingActive, seeker, created, freed, posted, rows,
                   running, tpc, known, entry, apc, dels>>

\* ... deletes the entries, which waits for their threads, and then the computers.
Destroy ==
    /\ phase = "destroying" /\ \A h \in Hosts : entry[h] = {}
    /\ phase' = "gone" /\ freed' = freed \cup known
    /\ UNCHANGED <<pollingRef, pollingActive, seeker, created, posted, rows, polls,
                   lists, apc, dels>>

Exit == AboutToQuit \/ WaitForDone \/ Destroy

Next ==
    \/ WindowStarts \/ WindowStops \/ SeekerStart \/ SeekerTimeout \/ Deliver \/ Exit
    \/ \E t \in Threads : PcMonitorThread(t)
    \/ \E h \in Hosts : AddNewHost(h) \/ PendingAddTask(h)
    \/ \E c \in Computers : RenameHost(c) \/ DeleteComputer(c) \/ DeferredHostDeletionTask(c)

Spec == Init /\ [][Next]_vars

\* The event loop, the pool's threads and the polling threads run; a request
\* ends, by its timeout if need be.  The user and the window owe nothing.
Fairness ==
    /\ WF_vars(WaitForDone) /\ WF_vars(Destroy)
    /\ \A t \in Threads : WF_vars(PcMonitorThread(t))
    /\ \A h \in Hosts : WF_vars(PendingAddTask(h))
    /\ \A c \in Computers : WF_vars(DeferredHostDeletionTask(c))

FairSpec == Spec /\ Fairness

----------------------------------------------------------------------------
\* Every variable keeps its type.
TypeOK ==
    /\ phase \in {"running", "quitting", "destroying", "gone"}
    /\ pollingRef \in 0..2 /\ pollingActive \in BOOLEAN
    /\ seeker \in {"waiting", "seeking", "done"}
    /\ created \in [Hosts -> 0..MaxComputers]
    /\ known \subseteq Computers /\ freed \subseteq Computers
    /\ entry \in [Hosts -> SUBSET Threads]
    /\ active \in [Hosts -> Threads \cup {NoThread}]
    /\ running \subseteq Threads
    /\ tpc \in [Threads -> {"try", "asked"}]
    /\ stop \in [Threads -> BOOLEAN]
    /\ posted \in BOOLEAN /\ rows \subseteq Computers
    /\ apc \in [Hosts -> {"idle", "fetching", "notify"}]
    /\ dpc \in [Computers -> {"idle", "queued", "taken", "waiting", "done"}]
    /\ held \in [Computers -> SUBSET Threads]

Wanted == pollingActive \/ seeker = "seeking"
\* Threads that poll the host and are not about to be told to stop.
Pollers(h) == {t \in running : /\ HostOf(Polled(t)) = h /\ ~stop[t]
                               /\ \A c \in Computers : t \notin held[c]}

\* While someone wants polling, each known host is polled by exactly one thread,
\* on the computer that is known for it; when nobody does, or for a host that
\* is not known (any more), by none.  (m_PollingRef and the polling entries under
\* starts, stops, additions and deletions.)
PolledWhileWanted ==
    phase = "running" =>
        \A h \in Hosts :
            /\ Pollers(h) # {} <=> Wanted /\ Known(h) # {}
            /\ Pollers(h) # {} => /\ Pollers(h) = {active[h]}
                                  /\ Polled(active[h]) \in known

\* No polling thread works on a computer that was freed, and no known host is
\* one ("this must be done last because the polling thread might be using it").
HostsAlive ==
    /\ \A t \in running : Polled(t) \notin freed
    /\ phase # "gone" => known \cap freed = {}

\* When polling is not wanted any more every polling thread ends, whatever it was
\* waiting for.
PollingStops == <>[](pollingRef = 0) => <>[](running = {})

\* The end of the program waits for tasks and threads but not for ever, and then
\* every computer that was ever created has been freed.
ShutdownCompletes ==
    phase = "quitting" ~> /\ phase = "gone" /\ running = {}
                          /\ freed = {c \in Computers : c[2] <= created[HostOf(c)]}

\* computermodel.cpp:229: a computer whose deletion was asked for is removed from the
\* grid, as it is "now invalid".
RowsAlive == phase = "running" => rows \cap freed = {}

\* computermanager.cpp:126: the thread that marks a host offline is "the writing
\* thread".
OneWriter == \A t, u \in running : Polled(t) = Polled(u) => t = u
=============================================================================
