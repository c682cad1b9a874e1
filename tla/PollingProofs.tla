--------------------------- MODULE PollingProofs ---------------------------
(***************************************************************************)
(* Proofs about the polling of hosts, for any number of hosts, computers   *)
(* and threads: which threads poll while polling is wanted, and that a     *)
(* computer outlives the threads that work on it.                          *)
(***************************************************************************)
EXTENDS Polling, TLAPS

Exists(c) == c[2] <= created[HostOf(c)]

\* m_PollingRef counts its two users.
RefInv ==
    pollingRef = (IF pollingActive THEN 1 ELSE 0) + (IF seeker = "seeking" THEN 1 ELSE 0)

\* A computer is known from its creation until a deletion takes its host's entry,
\* and is freed at the end of that.
KnownInv ==
    /\ \A c \in Computers : c \in known <=> Exists(c) /\ dpc[c] \in {"idle", "queued"}
    /\ \A c \in Computers : dpc[c] # "idle" \/ c \in rows => Exists(c)
    /\ \A c, d \in known : HostOf(c) = HostOf(d) => c = d
    /\ \A c \in Computers : c \in freed => dpc[c] = "done" \/ phase = "gone"

\* A thread runs while the entry of its host has it, or a deletion that waits for it.
OwnerInv ==
    /\ \A h \in Hosts : \A t \in entry[h] :
         t \in running /\ HostOf(Polled(t)) = h /\ Polled(t) \in known
    /\ \A c \in Computers : \A t \in held[c] :
         t \in running /\ Polled(t) = c /\ dpc[c] \in {"taken", "waiting"}
    /\ \A t \in running : t \in entry[HostOf(Polled(t))] \/ t \in held[Polled(t)]

\* All of them but the active one have been told to stop.
ActiveInv ==
    /\ \A h \in Hosts : active[h] # NoThread => active[h] \in entry[h] /\ ~stop[active[h]]
    /\ \A h \in Hosts : \A t \in entry[h] : t # active[h] => stop[t]
    /\ \A t \in Threads : stop[t] => t \in running
    /\ phase = "running" =>
         \A h \in Hosts : active[h] # NoThread <=> pollingRef > 0 /\ Known(h) # {}

\* The end of the program comes after the last task, and after the last thread.
EndInv ==
    /\ phase \in {"destroying", "gone"} =>
         /\ \A h \in Hosts : apc[h] = "idle"
         /\ \A c \in Computers : dpc[c] \in {"idle", "done"}
    /\ phase = "gone" => running = {}

IInv == TypeOK /\ RefInv /\ KnownInv /\ OwnerInv /\ ActiveInv /\ EndInv

----------------------------------------------------------------------------
\* Starting and interrupting threads.

LEMMA Shapes ==
    /\ \A t \in Threads : Polled(t) \in Computers
    /\ \A c \in Computers : HostOf(c) \in Hosts /\ c[2] \in Nat
    /\ MaxComputers \in Nat
  BY PollingAssumption DEF Threads, Computers, Polled, HostOf

\* startPollingComputer() adds threads that did not run, one for each entry that
\* had no active thread, and makes them the active ones.
LEMMA Started ==
    ASSUME TypeOK, NEW cs \in SUBSET Computers,
           \A c, d \in cs : HostOf(c) = HostOf(d) => c = d,
           StartPollingComputers(cs)
    PROVE  \E New \in SUBSET Threads :
             /\ New \cap running = {} /\ running' = running \cup New
             /\ \A t \in New : /\ Polled(t) \in cs /\ active[HostOf(Polled(t))] = NoThread
                               /\ active'[HostOf(Polled(t))] = t
             /\ \A c \in cs : active[HostOf(c)] = NoThread => \E t \in New : Polled(t) = c
             /\ \A h \in Hosts : entry'[h] = entry[h] \cup {t \in New : HostOf(Polled(t)) = h}
             /\ \A h \in Hosts : \/ active'[h] = active[h]
                                 \/ active'[h] \in New /\ HostOf(Polled(active'[h])) = h
             /\ entry' \in [Hosts -> SUBSET Threads]
             /\ active' \in [Hosts -> Threads \cup {NoThread}]
             /\ tpc' = tpc /\ stop' = stop
  <1> DEFINE New == {NewThread(c) : c \in Unpolled(cs)}
             Own(h) == {t \in New : HostOf(Polled(t)) = h}
  <1>1. \A c \in Unpolled(cs) : NewThread(c) \in Threads \ running /\ Polled(NewThread(c)) = c
    BY DEF StartPollingComputers, NewThread, Ended
  <1>2. New \in SUBSET Threads /\ New \cap running = {}
    BY <1>1
  <1>3. \A t \in New : Polled(t) \in Unpolled(cs) /\ t = NewThread(Polled(t))
    BY <1>1
  <1>4. \A t, u \in New : HostOf(Polled(t)) = HostOf(Polled(u)) => t = u
    BY <1>3 DEF Unpolled
  <1>5. /\ running' = running \cup New
        /\ entry' = [h \in Hosts |-> entry[h] \cup Own(h)]
        /\ active' = [h \in Hosts |-> IF Own(h) = {} THEN active[h]
                                      ELSE CHOOSE t \in Own(h) : TRUE]
        /\ tpc' = tpc /\ stop' = stop
    BY DEF StartPollingComputers
  <1>6. \A t \in New : HostOf(Polled(t)) \in Hosts
    BY <1>2, Shapes
  <1> HIDE DEF New
  <1>7. \A h \in Hosts : Own(h) # {} => (CHOOSE t \in Own(h) : TRUE) \in Own(h)
    OBVIOUS
  <1>8. \A h \in Hosts : \/ active'[h] = active[h]
                         \/ active'[h] \in Own(h)
    BY <1>5, <1>7
  <1>9. \A t \in New : /\ t \in Own(HostOf(Polled(t)))
                       /\ active'[HostOf(Polled(t))] \in Own(HostOf(Polled(t)))
    BY <1>5, <1>6, <1>7
  <1>10. \A t \in New : active'[HostOf(Polled(t))] = t
    BY <1>4, <1>9
  <1>11. entry' \in [Hosts -> SUBSET Threads]
    BY <1>2, <1>5 DEF TypeOK
  <1>12. active' \in [Hosts -> Threads \cup {NoThread}]
    BY <1>2, <1>5, <1>7 DEF TypeOK
  <1>13. \A c \in cs : active[HostOf(c)] = NoThread => \E t \in New : Polled(t) = c
    <2>1. \A c \in Unpolled(cs) : NewThread(c) \in New
      BY DEF New
    <2> QED
      BY <1>1, <2>1 DEF Unpolled
  <1>14. \A t \in New : Polled(t) \in cs /\ active[HostOf(Polled(t))] = NoThread
    BY <1>3 DEF Unpolled
  <1> QED
    BY <1>2, <1>5, <1>8, <1>10, <1>11, <1>12, <1>13, <1>14

\* The same of startPolling(), when it is the first.
LEMMA StartedAll ==
    ASSUME IInv, StartPolling, pollingRef = 0
    PROVE  \E New \in SUBSET Threads :
             /\ New \cap running = {} /\ running' = running \cup New
             /\ \A t \in New : /\ Polled(t) \in known /\ active[HostOf(Polled(t))] = NoThread
                               /\ active'[HostOf(Polled(t))] = t
             /\ \A c \in known : active[HostOf(c)] = NoThread => \E t \in New : Polled(t) = c
             /\ \A h \in Hosts : entry'[h] = entry[h] \cup {t \in New : HostOf(Polled(t)) = h}
             /\ \A h \in Hosts : \/ active'[h] = active[h]
                                 \/ active'[h] \in New /\ HostOf(Polled(active'[h])) = h
             /\ entry' \in [Hosts -> SUBSET Threads]
             /\ active' \in [Hosts -> Threads \cup {NoThread}]
             /\ tpc' = tpc /\ stop' = stop /\ known' = known /\ pollingRef' = 1
  <1>1. /\ StartPollingComputers(known) /\ known' = known /\ pollingRef' = 1
    BY DEF StartPolling
  <1>2. /\ TypeOK /\ known \in SUBSET Computers
        /\ \A c, d \in known : HostOf(c) = HostOf(d) => c = d
    BY DEF IInv, TypeOK, KnownInv
  <1> QED
    BY <1>1, <1>2, Started

LEMMA RefFits ==
    IInv => /\ pollingRef \in {0, 1, 2}
            /\ pollingActive \/ seeker = "seeking" => pollingRef \in {1, 2}
            /\ ~pollingActive \/ seeker # "seeking" => pollingRef \in {0, 1}
  BY DEF IInv, RefInv, TypeOK

\* ComputerPollingEntry::interrupt() of every entry leaves none with an active thread.
LEMMA Interrupts ==
    ASSUME TypeOK, InterruptAll
    PROVE  /\ active' \in [Hosts -> Threads \cup {NoThread}] /\ stop' \in [Threads -> BOOLEAN]
           /\ \A h \in Hosts : active'[h] = NoThread
           /\ \A t \in Threads : stop'[t] <=> stop[t] \/ \E h \in Hosts : active[h] = t
  BY DEF TypeOK, InterruptAll

\* stopPollingAsync() does so for the last user.
LEMMA Stopped ==
    ASSUME IInv, StopPollingAsync, pollingRef \in {1, 2}
    PROVE  /\ UNCHANGED <<running, tpc, known, entry>>
           /\ pollingRef = 2 => pollingRef' = 1 /\ UNCHANGED <<active, stop>>
           /\ pollingRef = 1 =>
                /\ pollingRef' = 0
                /\ active' \in [Hosts -> Threads \cup {NoThread}] /\ stop' \in [Threads -> BOOLEAN]
                /\ \A h \in Hosts : active'[h] = NoThread
                /\ \A t \in Threads : stop'[t] <=> stop[t] \/ \E h \in Hosts : active[h] = t
  <1>1. CASE pollingRef = 1
    BY <1>1, Interrupts DEF IInv, StopPollingAsync, LastUser
  <1>2. CASE pollingRef = 2
    BY <1>2 DEF StopPollingAsync, LastUser, polls, lists
  <1> QED
    BY <1>1, <1>2

----------------------------------------------------------------------------
\* Types.

\* Every step keeps the types.
LEMMA TypesKept == IInv /\ [Next]_vars => TypeOK'
  <1> SUFFICES ASSUME IInv, [Next]_vars PROVE TypeOK'
    OBVIOUS
  <1> USE DEF IInv, TypeOK, polls, lists, dels
  <1>1. CASE WindowStarts
    <2>1. CASE pollingRef > 0
      BY <1>1, <2>1, RefFits DEF WindowStarts, StartPolling
    <2>2. CASE pollingRef = 0
      <3>1. pollingRef' = 1 /\ UNCHANGED <<tpc, stop, known>>
        BY <1>1, <2>2, StartedAll DEF WindowStarts
      <3>2. /\ running' \subseteq Threads /\ entry' \in [Hosts -> SUBSET Threads]
            /\ active' \in [Hosts -> Threads \cup {NoThread}]
        BY <1>1, <2>2, StartedAll DEF WindowStarts
      <3> QED
        BY <1>1, <3>1, <3>2 DEF WindowStarts
    <2> QED
      BY <2>1, <2>2, RefFits
  <1>2. CASE WindowStops
    <2>1. pollingRef \in {1, 2} /\ pollingRef' \in 0..2
      BY <1>2, RefFits, Stopped DEF WindowStops
    <2>2. /\ active' \in [Hosts -> Threads \cup {NoThread}] /\ stop' \in [Threads -> BOOLEAN]
          /\ UNCHANGED <<running, tpc, known, entry>>
      BY <1>2, <2>1, Stopped DEF WindowStops
    <2> QED
      BY <1>2, <2>1, <2>2 DEF WindowStops
  <1>3. CASE SeekerStart
    <2>1. CASE pollingRef > 0
      BY <1>3, <2>1, RefFits DEF SeekerStart, StartPolling
    <2>2. CASE pollingRef = 0
      <3>1. pollingRef' = 1 /\ UNCHANGED <<tpc, stop, known>>
        BY <1>3, <2>2, StartedAll DEF SeekerStart
      <3>2. /\ running' \subseteq Threads /\ entry' \in [Hosts -> SUBSET Threads]
            /\ active' \in [Hosts -> Threads \cup {NoThread}]
        BY <1>3, <2>2, StartedAll DEF SeekerStart
      <3> QED
        BY <1>3, <3>1, <3>2 DEF SeekerStart
    <2> QED
      BY <2>1, <2>2, RefFits
  <1>4. CASE SeekerTimeout
    BY <1>4, RefFits, Stopped DEF SeekerTimeout, TimerRuns
  <1>5. CASE Deliver
    <2>1. CASE UNCHANGED <<seeker, pollingRef, polls, lists>>
      BY <1>5, <2>1 DEF Deliver, ComputerUpdated
    <2>2. CASE seeker = "seeking" /\ StopPollingAsync /\ seeker' = "done"
      BY <1>5, <2>2, RefFits, Stopped DEF Deliver, ComputerUpdated
    <2> QED
      BY <1>5, <2>1, <2>2 DEF Deliver, ComputerUpdated, TimerRuns
  <1>6. CASE AboutToQuit
    BY <1>6, Interrupts DEF AboutToQuit
  <1>7. CASE WaitForDone
    BY <1>7, Interrupts DEF WaitForDone
  <1>8. CASE Destroy
    BY <1>8 DEF Destroy, Post
  <1>9. ASSUME NEW t \in Threads, Return(t) PROVE TypeOK'
    BY <1>9, Shapes DEF Return
  <1>10. ASSUME NEW t \in Threads, Request(t) PROVE TypeOK'
    BY <1>10 DEF Request, Post
  <1>11. ASSUME NEW t \in Threads, Report(t) PROVE TypeOK'
    BY <1>11 DEF Report, Post
  <1>12. ASSUME NEW h \in Hosts, AddNewHost(h) PROVE TypeOK'
    BY <1>12 DEF AddNewHost, Post
  <1>13. ASSUME NEW h \in Hosts, AddFails(h) PROVE TypeOK'
    BY <1>13 DEF AddFails, Post
  <1>14. ASSUME NEW h \in Hosts, FoldIn(h) PROVE TypeOK'
    BY <1>14 DEF FoldIn, Post
  <1>15. ASSUME NEW h \in Hosts, Add(h) PROVE TypeOK'
    <2> DEFINE c == <<h, created[h] + 1>>
    <2>1. c \in Computers
      BY <1>15, PollingAssumption DEF Add, Computers
    <2>2. /\ running' \subseteq Threads /\ entry' \in [Hosts -> SUBSET Threads]
          /\ active' \in [Hosts -> Threads \cup {NoThread}] /\ tpc' = tpc /\ stop' = stop
      <3>1. CASE PollingEnabled
        BY <1>15, <2>1, <3>1, Started, \A a, b \in {c} : a = b, {c} \in SUBSET Computers
           DEF Add
      <3>2. CASE ~PollingEnabled
        BY <1>15, <3>2 DEF Add
      <3> QED
        BY <3>1, <3>2
    <2>3. created' \in [Hosts -> 0..MaxComputers]
      BY <1>15, Shapes DEF Add
    <2>4. known' = known \cup {c}
      BY <1>15 DEF Add
    <2> HIDE DEF c
    <2>5. known' \subseteq Computers
      BY <2>1, <2>4
    <2>6. apc' \in [Hosts -> {"idle", "fetching", "notify"}]
      BY <1>15 DEF Add
    <2> QED
      BY <1>15, <2>2, <2>3, <2>5, <2>6 DEF Add
  <1>16. ASSUME NEW h \in Hosts, AddNotifies(h) PROVE TypeOK'
    BY <1>16 DEF AddNotifies, Post
  <1>17. ASSUME NEW c \in Computers, RenameHost(c) PROVE TypeOK'
    <2>1. CASE UNCHANGED <<seeker, pollingRef, polls, lists>>
      BY <1>17, <2>1 DEF RenameHost, ComputerUpdated
    <2>2. CASE seeker = "seeking" /\ StopPollingAsync /\ seeker' = "done"
      BY <1>17, <2>2, RefFits, Stopped DEF RenameHost, ComputerUpdated
    <2> QED
      BY <1>17, <2>1, <2>2 DEF RenameHost, ComputerUpdated, TimerRuns
  <1>18. ASSUME NEW c \in Computers, DeleteComputer(c) PROVE TypeOK'
    BY <1>18 DEF DeleteComputer, Post
  <1>19. ASSUME NEW c \in Computers, TakeEntry(c) PROVE TypeOK'
    BY <1>19, Shapes DEF TakeEntry
  <1>20. ASSUME NEW c \in Computers, DeleteEntry(c) PROVE TypeOK'
    BY <1>20 DEF DeleteEntry, Post
  <1>21. ASSUME NEW c \in Computers, FreeComputer(c) PROVE TypeOK'
    BY <1>21 DEF FreeComputer, Post
  <1>22. CASE UNCHANGED vars
    BY <1>22 DEF vars, polls, lists, dels
  <1> QED
    BY <1>1, <1>2, <1>3, <1>4, <1>5, <1>6, <1>7, <1>8, <1>9, <1>10, <1>11,
       <1>12, <1>13, <1>14, <1>15, <1>16, <1>17, <1>18, <1>19, <1>20, <1>21,
       <1>22 DEF Next, Exit, PcMonitorThread, PendingAddTask,
       DeferredHostDeletionTask

\* m_PollingRef counts its users.
LEMMA RefKept == IInv /\ [Next]_vars => RefInv'
  <1> SUFFICES ASSUME IInv, [Next]_vars PROVE RefInv'
    OBVIOUS
  <1> USE DEF IInv, TypeOK, RefInv, polls, lists, dels
  <1>1. CASE WindowStarts
    BY <1>1 DEF WindowStarts, StartPolling
  <1>2. CASE WindowStops
    BY <1>2 DEF WindowStops, StopPollingAsync
  <1>3. CASE SeekerStart
    BY <1>3 DEF SeekerStart, StartPolling
  <1>4. CASE SeekerTimeout
    BY <1>4 DEF SeekerTimeout, StopPollingAsync, TimerRuns
  <1>5. CASE Deliver
    BY <1>5 DEF Deliver, ComputerUpdated, StopPollingAsync, TimerRuns
  <1>6. CASE AboutToQuit
    BY <1>6 DEF AboutToQuit
  <1>7. CASE WaitForDone
    BY <1>7 DEF WaitForDone
  <1>8. CASE Destroy
    BY <1>8 DEF Destroy
  <1>9. ASSUME NEW t \in Threads, Return(t) PROVE RefInv'
    BY <1>9 DEF Return
  <1>10. ASSUME NEW t \in Threads, Request(t) PROVE RefInv'
    BY <1>10 DEF Request
  <1>11. ASSUME NEW t \in Threads, Report(t) PROVE RefInv'
    BY <1>11 DEF Report
  <1>12. ASSUME NEW h \in Hosts, AddNewHost(h) PROVE RefInv'
    BY <1>12 DEF AddNewHost
  <1>13. ASSUME NEW h \in Hosts, AddFails(h) PROVE RefInv'
    BY <1>13 DEF AddFails
  <1>14. ASSUME NEW h \in Hosts, FoldIn(h) PROVE RefInv'
    BY <1>14 DEF FoldIn
  <1>15. ASSUME NEW h \in Hosts, Add(h) PROVE RefInv'
    BY <1>15 DEF Add
  <1>16. ASSUME NEW h \in Hosts, AddNotifies(h) PROVE RefInv'
    BY <1>16 DEF AddNotifies
  <1>17. ASSUME NEW c \in Computers, RenameHost(c) PROVE RefInv'
    BY <1>17 DEF RenameHost, ComputerUpdated, StopPollingAsync, TimerRuns
  <1>18. ASSUME NEW c \in Computers, DeleteComputer(c) PROVE RefInv'
    BY <1>18 DEF DeleteComputer
  <1>19. ASSUME NEW c \in Computers, TakeEntry(c) PROVE RefInv'
    BY <1>19 DEF TakeEntry
  <1>20. ASSUME NEW c \in Computers, DeleteEntry(c) PROVE RefInv'
    BY <1>20 DEF DeleteEntry
  <1>21. ASSUME NEW c \in Computers, FreeComputer(c) PROVE RefInv'
    BY <1>21 DEF FreeComputer
  <1>22. CASE UNCHANGED vars
    BY <1>22 DEF vars, polls, lists, dels
  <1> QED
    BY <1>1, <1>2, <1>3, <1>4, <1>5, <1>6, <1>7, <1>8, <1>9, <1>10, <1>11,
       <1>12, <1>13, <1>14, <1>15, <1>16, <1>17, <1>18, <1>19, <1>20, <1>21,
       <1>22 DEF Next, Exit, PcMonitorThread, PendingAddTask,
       DeferredHostDeletionTask

\* Which computers are known, and which are freed.
LEMMA KnownKept == IInv /\ [Next]_vars => KnownInv'
  <1> SUFFICES ASSUME IInv, [Next]_vars PROVE KnownInv'
    OBVIOUS
  <1>1. CASE WindowStarts
    BY <1>1 DEF WindowStarts, StartPolling, IInv, TypeOK, KnownInv, Exists, polls,
       lists, dels
  <1>2. CASE WindowStops
    BY <1>2 DEF WindowStops, StopPollingAsync, IInv, TypeOK, KnownInv, Exists, polls,
       lists, dels
  <1>3. CASE SeekerStart
    BY <1>3 DEF SeekerStart, StartPolling, IInv, TypeOK, KnownInv, Exists, polls, lists,
       dels
  <1>4. CASE SeekerTimeout
    BY <1>4 DEF SeekerTimeout, StopPollingAsync, TimerRuns, IInv, TypeOK, KnownInv,
       Exists, polls, lists, dels
  <1>5. CASE Deliver
    BY <1>5 DEF Deliver, ComputerUpdated, StopPollingAsync, TimerRuns, IInv, TypeOK,
       KnownInv, Exists, polls, lists, dels
  <1>6. CASE AboutToQuit
    BY <1>6 DEF AboutToQuit, Post, IInv, TypeOK, KnownInv, Exists, polls, lists, dels
  <1>7. CASE WaitForDone
    BY <1>7 DEF WaitForDone, Post, IInv, TypeOK, KnownInv, Exists, polls, lists, dels
  <1>8. CASE Destroy
    BY <1>8 DEF Destroy, Post, IInv, TypeOK, KnownInv, Exists, polls, lists, dels
  <1>9. ASSUME NEW t \in Threads, Return(t) PROVE KnownInv'
    BY <1>9 DEF Return, Post, IInv, TypeOK, KnownInv, Exists, polls, lists, dels
  <1>10. ASSUME NEW t \in Threads, Request(t) PROVE KnownInv'
    BY <1>10 DEF Request, Post, IInv, TypeOK, KnownInv, Exists, polls, lists, dels
  <1>11. ASSUME NEW t \in Threads, Report(t) PROVE KnownInv'
    BY <1>11 DEF Report, Post, IInv, TypeOK, KnownInv, Exists, polls, lists, dels
  <1>12. ASSUME NEW h \in Hosts, AddNewHost(h) PROVE KnownInv'
    BY <1>12 DEF AddNewHost, Post, IInv, TypeOK, KnownInv, Exists, polls, lists, dels
  <1>13. ASSUME NEW h \in Hosts, AddFails(h) PROVE KnownInv'
    BY <1>13 DEF AddFails, Post, IInv, TypeOK, KnownInv, Exists, polls, lists, dels
  <1>14. ASSUME NEW h \in Hosts, FoldIn(h) PROVE KnownInv'
    BY <1>14 DEF FoldIn, Post, IInv, TypeOK, KnownInv, Exists, polls, lists, dels
  <1>15. ASSUME NEW h \in Hosts, Add(h) PROVE KnownInv'
    <2> DEFINE n == <<h, created[h] + 1>>
    <2>0. created \in [Hosts -> 0..MaxComputers]
      BY DEF IInv, TypeOK
    <2>1. /\ n \in Computers /\ HostOf(n) = h /\ n[2] = created[h] + 1 /\ created[h] \in Nat
          /\ \A d \in Computers : HostOf(d) = h /\ d[2] = created[h] + 1 => d = n
      BY <1>15, <2>0, Shapes DEF Add, Computers, HostOf
    <2>2. /\ known' = known \cup {n} /\ created' = [created EXCEPT ![h] = created[h] + 1]
          /\ Known(h) = {} /\ dpc' = dpc /\ rows' = rows /\ freed' = freed /\ phase' = phase
      BY <1>15 DEF Add, dels
    <2> HIDE DEF n
    <2>3. \A d \in Computers : /\ HostOf(d) # h => created'[HostOf(d)] = created[HostOf(d)]
                               /\ HostOf(d) = h => created'[HostOf(d)] = created[h] + 1
      BY <1>15, <2>0, <2>2, Shapes
    <2>4. dpc[n] = "idle" /\ n \notin known
      BY <2>1, Shapes DEF IInv, KnownInv, Exists
    <2>5. \A d \in Computers : HostOf(d) = h => d \notin known
      BY <2>2 DEF Known, IInv, TypeOK
    <2>6. \A d \in Computers : Exists(d)' <=> Exists(d) \/ d = n
      <3> TAKE d \in Computers
      <3>1. CASE HostOf(d) # h
        BY <2>1, <2>3, <3>1 DEF Exists
      <3>2. CASE HostOf(d) = h
        BY <2>1, <2>3, <3>2, Shapes DEF Exists
      <3> QED
        BY <3>1, <3>2
    <2>7. \A d \in Computers : d \in known' <=> Exists(d)' /\ dpc'[d] \in {"idle", "queued"}
      BY <2>1, <2>2, <2>4, <2>6 DEF IInv, KnownInv
    <2>8. \A d, e \in known' : HostOf(d) = HostOf(e) => d = e
      BY <2>1, <2>2, <2>5 DEF IInv, KnownInv, TypeOK
    <2> QED
      BY <2>2, <2>6, <2>7, <2>8 DEF IInv, KnownInv
  <1>16. ASSUME NEW h \in Hosts, AddNotifies(h) PROVE KnownInv'
    BY <1>16 DEF AddNotifies, Post, IInv, TypeOK, KnownInv, Exists, polls, lists, dels
  <1>17. ASSUME NEW c \in Computers, RenameHost(c) PROVE KnownInv'
    BY <1>17 DEF RenameHost, ComputerUpdated, StopPollingAsync, TimerRuns, IInv, TypeOK,
       KnownInv, Exists, polls, lists, dels
  <1>18. ASSUME NEW c \in Computers, DeleteComputer(c) PROVE KnownInv'
    BY <1>18 DEF DeleteComputer, Post, IInv, TypeOK, KnownInv, Exists, polls, lists,
       dels
  <1>19. ASSUME NEW c \in Computers, TakeEntry(c) PROVE KnownInv'
    <2>1. /\ dpc[c] = "queued" /\ dpc' = [dpc EXCEPT ![c] = "taken"]
          /\ known' = known \ Known(HostOf(c)) /\ UNCHANGED <<created, rows, freed, phase>>
      BY <1>19 DEF TakeEntry
    <2>2. c \in known
      BY <2>1 DEF IInv, KnownInv
    <2>3. Known(HostOf(c)) = {c}
      BY <2>2 DEF IInv, KnownInv, Known
    <2> QED
      BY <2>1, <2>3 DEF IInv, KnownInv, Exists, TypeOK
  <1>20. ASSUME NEW c \in Computers, DeleteEntry(c) PROVE KnownInv'
    BY <1>20 DEF DeleteEntry, Post, IInv, TypeOK, KnownInv, Exists, polls, lists, dels
  <1>21. ASSUME NEW c \in Computers, FreeComputer(c) PROVE KnownInv'
    BY <1>21 DEF FreeComputer, Post, IInv, TypeOK, KnownInv, Exists, polls, lists, dels
  <1>22. CASE UNCHANGED vars
    BY <1>22 DEF vars, polls, lists, dels, IInv, KnownInv, Exists
  <1> QED
    BY <1>1, <1>2, <1>3, <1>4, <1>5, <1>6, <1>7, <1>8, <1>9, <1>10, <1>11,
       <1>12, <1>13, <1>14, <1>15, <1>16, <1>17, <1>18, <1>19, <1>20, <1>21,
       <1>22 DEF Next, Exit, PcMonitorThread, PendingAddTask,
       DeferredHostDeletionTask

\* Where the threads that run are kept.
LEMMA OwnerKept == IInv /\ [Next]_vars => OwnerInv'
  <1> SUFFICES ASSUME IInv, [Next]_vars PROVE OwnerInv'
    OBVIOUS
  <1>1. CASE WindowStarts
    <2>1. CASE pollingRef > 0
      BY <1>1, <2>1 DEF WindowStarts, StartPolling, IInv, TypeOK, OwnerInv, polls,
         lists, dels
    <2>2. CASE pollingRef = 0
      <3>1. StartPolling /\ dpc' = dpc /\ held' = held
        BY <1>1 DEF WindowStarts, dels
      <3>2. PICK New \in SUBSET Threads :
              /\ running' = running \cup New
              /\ \A t \in New : Polled(t) \in known
              /\ \A h \in Hosts : entry'[h] = entry[h] \cup {t \in New : HostOf(Polled(t)) = h}
              /\ known' = known
        BY <2>2, <3>1, StartedAll
      <3> QED
        BY <3>1, <3>2, Shapes DEF IInv, TypeOK, OwnerInv, polls, lists, dels
    <2> QED
      BY <2>1, <2>2, RefFits
  <1>2. CASE WindowStops
    BY <1>2 DEF WindowStops, StopPollingAsync, IInv, TypeOK, OwnerInv, polls, lists,
       dels
  <1>3. CASE SeekerStart
    <2>1. CASE pollingRef > 0
      BY <1>3, <2>1 DEF SeekerStart, StartPolling, IInv, TypeOK, OwnerInv, polls, lists,
         dels
    <2>2. CASE pollingRef = 0
      <3>1. StartPolling /\ dpc' = dpc /\ held' = held
        BY <1>3 DEF SeekerStart, dels
      <3>2. PICK New \in SUBSET Threads :
              /\ running' = running \cup New
              /\ \A t \in New : Polled(t) \in known
              /\ \A h \in Hosts : entry'[h] = entry[h] \cup {t \in New : HostOf(Polled(t)) = h}
              /\ known' = known
        BY <2>2, <3>1, StartedAll
      <3> QED
        BY <3>1, <3>2, Shapes DEF IInv, TypeOK, OwnerInv, polls, lists, dels
    <2> QED
      BY <2>1, <2>2, RefFits
  <1>4. CASE SeekerTimeout
    BY <1>4 DEF SeekerTimeout, StopPollingAsync, TimerRuns, IInv, TypeOK, OwnerInv,
       polls, lists, dels
  <1>5. CASE Deliver
    BY <1>5 DEF Deliver, ComputerUpdated, StopPollingAsync, TimerRuns, IInv, TypeOK,
       OwnerInv, polls, lists, dels
  <1>6. CASE AboutToQuit
    BY <1>6 DEF AboutToQuit, InterruptAll, IInv, TypeOK, OwnerInv, polls, lists, dels
  <1>7. CASE WaitForDone
    BY <1>7 DEF WaitForDone, InterruptAll, IInv, TypeOK, OwnerInv, polls, lists, dels
  <1>8. CASE Destroy
    BY <1>8 DEF Destroy, Post, IInv, TypeOK, OwnerInv, polls, lists, dels
  <1>9. ASSUME NEW t \in Threads, Return(t) PROVE OwnerInv'
    <2>1. /\ running' = running \ {t}
          /\ \A h \in Hosts : entry'[h] = entry[h] \ {t}
          /\ \A c \in Computers : held'[c] = held[c] \ {t}
          /\ known' = known /\ dpc' = dpc
      BY <1>9 DEF Return
    <2> QED
      BY <2>1, Shapes DEF IInv, TypeOK, OwnerInv, polls, lists, dels
  <1>10. ASSUME NEW t \in Threads, Request(t) PROVE OwnerInv'
    BY <1>10 DEF Request, Post, IInv, TypeOK, OwnerInv, polls, lists, dels
  <1>11. ASSUME NEW t \in Threads, Report(t) PROVE OwnerInv'
    BY <1>11 DEF Report, Post, IInv, TypeOK, OwnerInv, polls, lists, dels
  <1>12. ASSUME NEW h \in Hosts, AddNewHost(h) PROVE OwnerInv'
    BY <1>12 DEF AddNewHost, Post, IInv, TypeOK, OwnerInv, polls, lists, dels
  <1>13. ASSUME NEW h \in Hosts, AddFails(h) PROVE OwnerInv'
    BY <1>13 DEF AddFails, Post, IInv, TypeOK, OwnerInv, polls, lists, dels
  <1>14. ASSUME NEW h \in Hosts, FoldIn(h) PROVE OwnerInv'
    BY <1>14 DEF FoldIn, Post, IInv, TypeOK, OwnerInv, polls, lists, dels
  <1>15. ASSUME NEW h \in Hosts, Add(h) PROVE OwnerInv'
    <2> DEFINE n == <<h, created[h] + 1>>
    <2>1. n \in Computers
      BY <1>15, PollingAssumption DEF Add, Computers, IInv, TypeOK
    <2>2. known' = known \cup {n} /\ dpc' = dpc /\ held' = held
      BY <1>15 DEF Add, dels
    <2>3. CASE PollingEnabled
      <3>1. StartPollingComputers({n})
        BY <1>15, <2>3 DEF Add
      <3> HIDE DEF n
      <3>2. PICK New \in SUBSET Threads :
              /\ running' = running \cup New
              /\ \A t \in New : Polled(t) = n
              /\ \A k \in Hosts : entry'[k] = entry[k] \cup {t \in New : HostOf(Polled(t)) = k}
        <4>1. TypeOK /\ {n} \in SUBSET Computers /\ \A a, b \in {n} : a = b
          BY <2>1 DEF IInv
        <4> QED
          BY <3>1, <4>1, Started
      <3> QED
        BY <2>1, <2>2, <3>2, Shapes DEF IInv, TypeOK, OwnerInv, polls, lists, dels
    <2>4. CASE ~PollingEnabled
      <3>1. running' = running /\ entry' = entry
        BY <1>15, <2>4 DEF Add, polls
      <3> HIDE DEF n
      <3> QED
        BY <2>2, <3>1 DEF IInv, TypeOK, OwnerInv, polls, lists, dels
    <2> QED
      BY <2>3, <2>4
  <1>16. ASSUME NEW h \in Hosts, AddNotifies(h) PROVE OwnerInv'
    BY <1>16 DEF AddNotifies, Post, IInv, TypeOK, OwnerInv, polls, lists, dels
  <1>17. ASSUME NEW c \in Computers, RenameHost(c) PROVE OwnerInv'
    BY <1>17 DEF RenameHost, ComputerUpdated, StopPollingAsync, TimerRuns, IInv, TypeOK,
       OwnerInv, polls, lists, dels
  <1>18. ASSUME NEW c \in Computers, DeleteComputer(c) PROVE OwnerInv'
    BY <1>18 DEF DeleteComputer, Post, IInv, TypeOK, OwnerInv, polls, lists, dels
  <1>19. ASSUME NEW c \in Computers, TakeEntry(c) PROVE OwnerInv'
    <2>1. /\ dpc[c] = "queued" /\ dpc' = [dpc EXCEPT ![c] = "taken"]
          /\ held' = [held EXCEPT ![c] = entry[HostOf(c)]]
          /\ entry' = [entry EXCEPT ![HostOf(c)] = {}]
          /\ known' = known \ Known(HostOf(c)) /\ running' = running
      BY <1>19 DEF TakeEntry, polls
    <2>2. \A t \in entry[HostOf(c)] : Polled(t) = c
      BY <2>1, Shapes DEF IInv, KnownInv, OwnerInv
    <2>3. \A d \in known : HostOf(d) # HostOf(c) => d \in known'
      BY <2>1 DEF Known
    <2>4. held[c] = {}
      BY <2>1 DEF IInv, TypeOK, OwnerInv
    <2> QED
      BY <2>1, <2>2, <2>3, <2>4, Shapes DEF IInv, TypeOK, OwnerInv, polls, lists, dels
  <1>20. ASSUME NEW c \in Computers, DeleteEntry(c) PROVE OwnerInv'
    BY <1>20 DEF DeleteEntry, Post, IInv, TypeOK, OwnerInv, polls, lists, dels
  <1>21. ASSUME NEW c \in Computers, FreeComputer(c) PROVE OwnerInv'
    BY <1>21 DEF FreeComputer, ThreadsEnded, IInv, TypeOK, OwnerInv, polls, lists, dels
  <1>22. CASE UNCHANGED vars
    BY <1>22 DEF vars, polls, lists, dels, IInv, OwnerInv
  <1> QED
    BY <1>1, <1>2, <1>3, <1>4, <1>5, <1>6, <1>7, <1>8, <1>9, <1>10, <1>11,
       <1>12, <1>13, <1>14, <1>15, <1>16, <1>17, <1>18, <1>19, <1>20, <1>21,
       <1>22 DEF Next, Exit, PcMonitorThread, PendingAddTask,
       DeferredHostDeletionTask

\* Interrupting every entry's active thread leaves all threads told to stop.
LEMMA InterruptedKeeps ==
    ASSUME IInv, UNCHANGED <<running, entry, known>>,
           pollingRef' = 0 \/ phase' # "running",
           pollingRef' \in Nat,
           \A h \in Hosts : active'[h] = NoThread,
           \A t \in Threads : stop'[t] <=> stop[t] \/ \E h \in Hosts : active[h] = t
    PROVE  ActiveInv'
  <1>1. \A h \in Hosts : \A t \in entry[h] : t \in Threads /\ stop'[t]
    BY DEF IInv, TypeOK, ActiveInv
  <1>2. \A t \in Threads : stop'[t] => t \in running
    BY PollingAssumption DEF IInv, TypeOK, OwnerInv, ActiveInv
  <1> QED
    BY <1>1, <1>2 DEF ActiveInv

\* Which threads have been told to stop.
LEMMA ActiveKept == IInv /\ [Next]_vars => ActiveInv'
  <1> SUFFICES ASSUME IInv, [Next]_vars PROVE ActiveInv'
    OBVIOUS
  <1>1. CASE WindowStarts
    <2>1. CASE pollingRef > 0
      <3>1. /\ UNCHANGED <<entry, active, stop, running, known, phase>> /\ pollingRef' > 0
        BY <1>1, <2>1, RefFits DEF WindowStarts, StartPolling, polls, lists
      <3> QED
        BY <2>1, <3>1 DEF IInv, ActiveInv, Known
    <2>2. CASE pollingRef = 0
      <3>1. StartPolling /\ phase = "running"
        BY <1>1 DEF WindowStarts
      <3>2. PICK New \in SUBSET Threads :
              /\ New \cap running = {} /\ running' = running \cup New
              /\ \A t \in New : Polled(t) \in known /\ active'[HostOf(Polled(t))] = t
              /\ \A c \in known : active[HostOf(c)] = NoThread => \E t \in New : Polled(t) = c
              /\ \A h \in Hosts : entry'[h] = entry[h] \cup {t \in New : HostOf(Polled(t)) = h}
              /\ \A h \in Hosts : \/ active'[h] = active[h]
                                  \/ active'[h] \in New /\ HostOf(Polled(active'[h])) = h
              /\ stop' = stop /\ known' = known /\ pollingRef' = 1
        BY <2>2, <3>1, StartedAll
      <3>3. \A h \in Hosts : active[h] = NoThread
        BY <2>2, <3>1 DEF IInv, ActiveInv
      <3>4. \A t \in Threads : t # NoThread /\ HostOf(Polled(t)) \in Hosts
        BY PollingAssumption, Shapes
      <3>5. \A t \in New : ~stop[t]
        BY <3>2 DEF IInv, ActiveInv
      <3>6. \A h \in Hosts : active'[h] # NoThread => active'[h] \in entry'[h] /\ ~stop'[active'[h]]
        BY <3>2, <3>3, <3>5
      <3>7. \A h \in Hosts : \A t \in entry'[h] : t # active'[h] => stop'[t]
        BY <3>2, <3>3, <3>4 DEF IInv, TypeOK, ActiveInv
      <3>8. \A h \in Hosts : active'[h] # NoThread <=> Known(h)' # {}
        <4> TAKE h \in Hosts
        <4>1. ASSUME active'[h] # NoThread PROVE Known(h)' # {}
          BY <3>2, <3>3, <4>1 DEF Known
        <4>2. ASSUME NEW c \in known, HostOf(c) = h PROVE active'[h] # NoThread
          BY <3>2, <3>3, <3>4, <4>2
        <4> QED
          BY <3>2, <4>1, <4>2 DEF Known
      <3>9. \A t \in Threads : stop'[t] => t \in running'
        BY <3>2 DEF IInv, ActiveInv
      <3> QED
        BY <3>2, <3>6, <3>7, <3>8, <3>9 DEF ActiveInv
    <2> QED
      BY <2>1, <2>2, RefFits
  <1>2. CASE WindowStops
    <2>1. StopPollingAsync /\ pollingRef \in {1, 2} /\ phase' = phase
      BY <1>2, RefFits DEF WindowStops
    <2>2. CASE pollingRef = 1
      BY <2>1, <2>2, Stopped, InterruptedKeeps
    <2>3. CASE pollingRef = 2
      <3>1. pollingRef' = 1 /\ UNCHANGED <<active, stop, entry, running, known, phase>>
        BY <2>1, <2>3, Stopped
      <3> QED
        BY <2>3, <3>1 DEF IInv, ActiveInv, Known
    <2> QED
      BY <2>1, <2>2, <2>3
  <1>3. CASE SeekerStart
    <2>1. CASE pollingRef > 0
      <3>1. /\ UNCHANGED <<entry, active, stop, running, known, phase>> /\ pollingRef' > 0
        BY <1>3, <2>1, RefFits DEF SeekerStart, StartPolling, polls, lists
      <3> QED
        BY <2>1, <3>1 DEF IInv, ActiveInv, Known
    <2>2. CASE pollingRef = 0
      <3>1. StartPolling /\ phase = "running"
        BY <1>3 DEF SeekerStart
      <3>2. PICK New \in SUBSET Threads :
              /\ New \cap running = {} /\ running' = running \cup New
              /\ \A t \in New : Polled(t) \in known /\ active'[HostOf(Polled(t))] = t
              /\ \A c \in known : active[HostOf(c)] = NoThread => \E t \in New : Polled(t) = c
              /\ \A h \in Hosts : entry'[h] = entry[h] \cup {t \in New : HostOf(Polled(t)) = h}
              /\ \A h \in Hosts : \/ active'[h] = active[h]
                                  \/ active'[h] \in New /\ HostOf(Polled(active'[h])) = h
              /\ stop' = stop /\ known' = known /\ pollingRef' = 1
        BY <2>2, <3>1, StartedAll
      <3>3. \A h \in Hosts : active[h] = NoThread
        BY <2>2, <3>1 DEF IInv, ActiveInv
      <3>4. \A t \in Threads : t # NoThread /\ HostOf(Polled(t)) \in Hosts
        BY PollingAssumption, Shapes
      <3>5. \A t \in New : ~stop[t]
        BY <3>2 DEF IInv, ActiveInv
      <3>6. \A h \in Hosts : active'[h] # NoThread => active'[h] \in entry'[h] /\ ~stop'[active'[h]]
        BY <3>2, <3>3, <3>5
      <3>7. \A h \in Hosts : \A t \in entry'[h] : t # active'[h] => stop'[t]
        BY <3>2, <3>3, <3>4 DEF IInv, TypeOK, ActiveInv
      <3>8. \A h \in Hosts : active'[h] # NoThread <=> Known(h)' # {}
        <4> TAKE h \in Hosts
        <4>1. ASSUME active'[h] # NoThread PROVE Known(h)' # {}
          BY <3>2, <3>3, <4>1 DEF Known
        <4>2. ASSUME NEW c \in known, HostOf(c) = h PROVE active'[h] # NoThread
          BY <3>2, <3>3, <3>4, <4>2
        <4> QED
          BY <3>2, <4>1, <4>2 DEF Known
      <3>9. \A t \in Threads : stop'[t] => t \in running'
        BY <3>2 DEF IInv, ActiveInv
      <3> QED
        BY <3>2, <3>6, <3>7, <3>8, <3>9 DEF ActiveInv
    <2> QED
      BY <2>1, <2>2, RefFits
  <1>4. CASE SeekerTimeout
    <2>1. StopPollingAsync /\ pollingRef \in {1, 2} /\ phase' = phase
      BY <1>4, RefFits DEF SeekerTimeout, TimerRuns
    <2>2. CASE pollingRef = 1
      BY <2>1, <2>2, Stopped, InterruptedKeeps
    <2>3. CASE pollingRef = 2
      <3>1. pollingRef' = 1 /\ UNCHANGED <<active, stop, entry, running, known, phase>>
        BY <2>1, <2>3, Stopped
      <3> QED
        BY <2>3, <3>1 DEF IInv, ActiveInv, Known
    <2> QED
      BY <2>1, <2>2, <2>3
  <1>5. CASE Deliver
    <2>1. CASE UNCHANGED <<seeker, pollingRef, polls, lists>>
      <3>1. UNCHANGED <<active, stop, entry, running, known, phase, pollingRef>>
        BY <1>5, <2>1 DEF Deliver, polls, lists
      <3> QED
        BY <3>1 DEF IInv, ActiveInv, Known
    <2>2. CASE seeker = "seeking" /\ StopPollingAsync
      <3>1. StopPollingAsync /\ pollingRef \in {1, 2} /\ phase' = phase
        BY <1>5, <2>2, RefFits DEF Deliver
      <3>2. CASE pollingRef = 1
        BY <3>1, <3>2, Stopped, InterruptedKeeps
      <3>3. CASE pollingRef = 2
        <4>1. pollingRef' = 1 /\ UNCHANGED <<active, stop, entry, running, known, phase>>
          BY <3>1, <3>3, Stopped
        <4> QED
          BY <3>3, <4>1 DEF IInv, ActiveInv, Known
      <3> QED
        BY <3>1, <3>2, <3>3
    <2> QED
      BY <1>5, <2>1, <2>2 DEF Deliver, ComputerUpdated, TimerRuns
  <1>6. CASE AboutToQuit
    <2>1. /\ InterruptAll /\ UNCHANGED <<running, entry, known, pollingRef>>
          /\ phase' # "running" /\ pollingRef \in Nat /\ TypeOK
      BY <1>6, RefFits DEF AboutToQuit, IInv
    <2> QED
      BY <2>1, Interrupts, InterruptedKeeps
  <1>7. CASE WaitForDone
    <2>1. /\ InterruptAll /\ UNCHANGED <<running, entry, known, pollingRef>>
          /\ phase' # "running" /\ pollingRef \in Nat /\ TypeOK
      BY <1>7, RefFits DEF WaitForDone, IInv
    <2> QED
      BY <2>1, Interrupts, InterruptedKeeps
  <1>8. CASE Destroy
    BY <1>8 DEF Destroy, Post, IInv, TypeOK, ActiveInv, Known, polls, lists, dels
  <1>9. ASSUME NEW t \in Threads, Return(t) PROVE ActiveInv'
    <2>1. /\ stop[t] /\ running' = running \ {t} /\ stop' = [stop EXCEPT ![t] = FALSE]
          /\ \A h \in Hosts : entry'[h] = entry[h] \ {t}
          /\ UNCHANGED <<known, active, pollingRef, phase>>
      BY <1>9 DEF Return, polls, lists
    <2>2. \A h \in Hosts : active[h] # NoThread => active[h] # t
      BY <2>1 DEF IInv, ActiveInv
    <2> QED
      BY <2>1, <2>2 DEF IInv, TypeOK, ActiveInv, Known
  <1>10. ASSUME NEW t \in Threads, Request(t) PROVE ActiveInv'
    BY <1>10 DEF Request, Post, IInv, TypeOK, ActiveInv, Known, polls, lists, dels
  <1>11. ASSUME NEW t \in Threads, Report(t) PROVE ActiveInv'
    BY <1>11 DEF Report, Post, IInv, TypeOK, ActiveInv, Known, polls, lists, dels
  <1>12. ASSUME NEW h \in Hosts, AddNewHost(h) PROVE ActiveInv'
    BY <1>12 DEF AddNewHost, Post, IInv, TypeOK, ActiveInv, Known, polls, lists, dels
  <1>13. ASSUME NEW h \in Hosts, AddFails(h) PROVE ActiveInv'
    BY <1>13 DEF AddFails, Post, IInv, TypeOK, ActiveInv, Known, polls, lists, dels
  <1>14. ASSUME NEW h \in Hosts, FoldIn(h) PROVE ActiveInv'
    BY <1>14 DEF FoldIn, Post, IInv, TypeOK, ActiveInv, Known, polls, lists, dels
  <1>15. ASSUME NEW h \in Hosts, Add(h) PROVE ActiveInv'
    <2> DEFINE n == <<h, created[h] + 1>>
    <2>1. n \in Computers /\ HostOf(n) = h
      BY <1>15, PollingAssumption DEF Add, Computers, IInv, TypeOK, HostOf
    <2>2. known' = known \cup {n} /\ Known(h) = {} /\ phase' = phase /\ pollingRef' = pollingRef
      BY <1>15 DEF Add, dels
    <2>3. entry[h] = {} /\ active[h] = NoThread
      BY <2>2 DEF IInv, TypeOK, OwnerInv, ActiveInv, Known
    <2>4. \A k \in Hosts : Known(k)' = IF k = h THEN {n} ELSE Known(k)
      BY <2>1, <2>2 DEF Known
    <2>5. CASE PollingEnabled
      <3>1. StartPollingComputers({n}) /\ pollingRef > 0
        BY <1>15, <2>5 DEF Add, PollingEnabled
      <3> HIDE DEF n
      <3>2. PICK New \in SUBSET Threads :
              /\ New \cap running = {} /\ running' = running \cup New
              /\ \A t \in New : Polled(t) = n /\ active'[HostOf(Polled(t))] = t
              /\ \E t \in New : Polled(t) = n
              /\ \A k \in Hosts : entry'[k] = entry[k] \cup {t \in New : HostOf(Polled(t)) = k}
              /\ \A k \in Hosts : \/ active'[k] = active[k]
                                  \/ active'[k] \in New /\ HostOf(Polled(active'[k])) = k
              /\ stop' = stop
        <4>1. TypeOK /\ {n} \in SUBSET Computers /\ \A a, b \in {n} : a = b
          BY <2>1 DEF IInv
        <4> QED
          BY <2>1, <2>3, <3>1, <4>1, Started
      <3>3. \A t \in New : ~stop[t] /\ t # NoThread
        BY <3>2, PollingAssumption DEF IInv, ActiveInv
      <3>4. /\ active'[h] \in New
            /\ \A k \in Hosts \ {h} : active'[k] = active[k] /\ entry'[k] = entry[k]
            /\ entry'[h] = New /\ \A t \in New : t = active'[h]
        <4>1. PICK t \in New : Polled(t) = n
          BY <3>2
        <4>2. \A u \in New : HostOf(Polled(u)) = h /\ u = active'[h]
          BY <2>1, <3>2
        <4>3. \A k \in Hosts \ {h} : {u \in New : HostOf(Polled(u)) = k} = {} /\ active'[k] = active[k]
          BY <3>2, <4>2
        <4>4. \A k \in Hosts \ {h} : entry'[k] = entry[k]
          BY <3>2, <4>3
        <4>5. entry'[h] = New
          BY <2>3, <3>2, <4>2
        <4> QED
          BY <4>1, <4>2, <4>3, <4>4, <4>5
      <3>5. \A k \in Hosts : active'[k] # NoThread => active'[k] \in entry'[k] /\ ~stop'[active'[k]]
        BY <3>2, <3>3, <3>4 DEF IInv, ActiveInv
      <3>6. \A k \in Hosts : \A t \in entry'[k] : t # active'[k] => stop'[t]
        BY <3>2, <3>4 DEF IInv, ActiveInv
      <3>7. \A t \in Threads : stop'[t] => t \in running'
        BY <3>2 DEF IInv, ActiveInv
      <3>8. phase = "running" => \A k \in Hosts : active'[k] # NoThread <=> Known(k)' # {}
        BY <2>4, <3>1, <3>3, <3>4 DEF IInv, ActiveInv
      <3> QED
        BY <2>2, <3>1, <3>5, <3>6, <3>7, <3>8 DEF ActiveInv
    <2>6. CASE ~PollingEnabled
      <3>1. UNCHANGED <<running, entry, active, stop>> /\ ~(pollingRef > 0)
        BY <1>15, <2>6 DEF Add, polls, PollingEnabled
      <3> HIDE DEF n
      <3> QED
        BY <2>2, <3>1 DEF IInv, ActiveInv
    <2> QED
      BY <2>5, <2>6
  <1>16. ASSUME NEW h \in Hosts, AddNotifies(h) PROVE ActiveInv'
    BY <1>16 DEF AddNotifies, Post, IInv, TypeOK, ActiveInv, Known, polls, lists, dels
  <1>17. ASSUME NEW c \in Computers, RenameHost(c) PROVE ActiveInv'
    <2>1. CASE UNCHANGED <<seeker, pollingRef, polls, lists>>
      <3>1. UNCHANGED <<active, stop, entry, running, known, phase, pollingRef>>
        BY <1>17, <2>1 DEF RenameHost, polls, lists
      <3> QED
        BY <3>1 DEF IInv, ActiveInv, Known
    <2>2. CASE seeker = "seeking" /\ StopPollingAsync
      <3>1. StopPollingAsync /\ pollingRef \in {1, 2} /\ phase' = phase
        BY <1>17, <2>2, RefFits DEF RenameHost
      <3>2. CASE pollingRef = 1
        BY <3>1, <3>2, Stopped, InterruptedKeeps
      <3>3. CASE pollingRef = 2
        <4>1. pollingRef' = 1 /\ UNCHANGED <<active, stop, entry, running, known, phase>>
          BY <3>1, <3>3, Stopped
        <4> QED
          BY <3>3, <4>1 DEF IInv, ActiveInv, Known
      <3> QED
        BY <3>1, <3>2, <3>3
    <2> QED
      BY <1>17, <2>1, <2>2 DEF RenameHost, ComputerUpdated, TimerRuns
  <1>18. ASSUME NEW c \in Computers, DeleteComputer(c) PROVE ActiveInv'
    BY <1>18 DEF DeleteComputer, Post, IInv, TypeOK, ActiveInv, Known, polls, lists,
       dels
  <1>19. ASSUME NEW c \in Computers, TakeEntry(c) PROVE ActiveInv'
    <2>1. /\ entry' = [entry EXCEPT ![HostOf(c)] = {}]
          /\ active' = [active EXCEPT ![HostOf(c)] = NoThread]
          /\ known' = known \ Known(HostOf(c)) /\ UNCHANGED <<running, stop, phase, pollingRef>>
      BY <1>19 DEF TakeEntry, polls
    <2>2. \A h \in Hosts : Known(h)' = IF h = HostOf(c) THEN {} ELSE Known(h)
      BY <2>1 DEF Known
    <2> QED
      BY <2>1, <2>2 DEF IInv, TypeOK, ActiveInv
  <1>20. ASSUME NEW c \in Computers, DeleteEntry(c) PROVE ActiveInv'
    <2>1. /\ dpc[c] = "taken" /\ \A t \in Threads : stop'[t] <=> stop[t] \/ t \in held[c]
          /\ UNCHANGED <<running, phase, pollingRef, entry, active, known>>
      BY <1>20 DEF DeleteEntry, Interrupted, lists, IInv, TypeOK
    <2>2. \A t \in held[c] : t \in running /\ Polled(t) \notin known
      BY <2>1 DEF IInv, OwnerInv, KnownInv
    <2>3. \A h \in Hosts : active[h] # NoThread => active[h] \in Threads /\ active[h] \notin held[c]
      BY <2>2 DEF IInv, TypeOK, OwnerInv, ActiveInv
    <2> QED
      BY <2>1, <2>2, <2>3 DEF IInv, TypeOK, ActiveInv, Known
  <1>21. ASSUME NEW c \in Computers, FreeComputer(c) PROVE ActiveInv'
    BY <1>21 DEF FreeComputer, Post, IInv, TypeOK, ActiveInv, Known, polls, lists, dels
  <1>22. CASE UNCHANGED vars
    BY <1>22 DEF vars, polls, lists, dels, IInv, ActiveInv, Known
  <1> QED
    BY <1>1, <1>2, <1>3, <1>4, <1>5, <1>6, <1>7, <1>8, <1>9, <1>10, <1>11,
       <1>12, <1>13, <1>14, <1>15, <1>16, <1>17, <1>18, <1>19, <1>20, <1>21,
       <1>22 DEF Next, Exit, PcMonitorThread, PendingAddTask,
       DeferredHostDeletionTask

\* What is over when the program ends.
LEMMA EndKept == IInv /\ [Next]_vars => EndInv'
  <1> SUFFICES ASSUME IInv, [Next]_vars PROVE EndInv'
    OBVIOUS
  <1>1. CASE WindowStarts
    BY <1>1 DEF WindowStarts, StartPolling, IInv, TypeOK, EndInv, polls, lists, dels
  <1>2. CASE WindowStops
    BY <1>2 DEF WindowStops, StopPollingAsync, IInv, TypeOK, EndInv, polls, lists, dels
  <1>3. CASE SeekerStart
    BY <1>3 DEF SeekerStart, StartPolling, IInv, TypeOK, EndInv, polls, lists, dels
  <1>4. CASE SeekerTimeout
    BY <1>4 DEF SeekerTimeout, StopPollingAsync, TimerRuns, IInv, TypeOK, EndInv, polls,
       lists, dels
  <1>5. CASE Deliver
    BY <1>5 DEF Deliver, ComputerUpdated, StopPollingAsync, TimerRuns, IInv, TypeOK,
       EndInv, polls, lists, dels
  <1>6. CASE AboutToQuit
    BY <1>6 DEF AboutToQuit, InterruptAll, IInv, TypeOK, EndInv, polls, lists, dels
  <1>7. CASE WaitForDone
    BY <1>7 DEF WaitForDone, InterruptAll, IInv, TypeOK, EndInv, polls, lists, dels
  <1>8. CASE Destroy
    <2>1. phase = "destroying" /\ (\A h \in Hosts : entry[h] = {})
          /\ phase' = "gone" /\ UNCHANGED <<apc, dpc, running>>
      BY <1>8 DEF Destroy, dels, polls
    <2>2. \A c \in Computers : held[c] = {}
      BY <2>1 DEF IInv, TypeOK, OwnerInv, EndInv
    <2>3. running = {}
      BY <2>1, <2>2, Shapes DEF IInv, TypeOK, OwnerInv
    <2> QED
      BY <2>1, <2>3 DEF IInv, EndInv
  <1>9. ASSUME NEW t \in Threads, Return(t) PROVE EndInv'
    BY <1>9 DEF Return, Post, IInv, TypeOK, EndInv, polls, lists, dels
  <1>10. ASSUME NEW t \in Threads, Request(t) PROVE EndInv'
    BY <1>10 DEF Request, Post, IInv, TypeOK, EndInv, polls, lists, dels
  <1>11. ASSUME NEW t \in Threads, Report(t) PROVE EndInv'
    BY <1>11 DEF Report, Post, IInv, TypeOK, EndInv, polls, lists, dels
  <1>12. ASSUME NEW h \in Hosts, AddNewHost(h) PROVE EndInv'
    BY <1>12 DEF AddNewHost, Post, IInv, TypeOK, EndInv, polls, lists, dels
  <1>13. ASSUME NEW h \in Hosts, AddFails(h) PROVE EndInv'
    BY <1>13 DEF AddFails, Post, IInv, TypeOK, EndInv, polls, lists, dels
  <1>14. ASSUME NEW h \in Hosts, FoldIn(h) PROVE EndInv'
    BY <1>14 DEF FoldIn, Post, IInv, TypeOK, EndInv, polls, lists, dels
  <1>15. ASSUME NEW h \in Hosts, Add(h) PROVE EndInv'
    <2>1. phase \notin {"destroying", "gone"} /\ phase' = phase
      BY <1>15 DEF Add, IInv, EndInv
    <2> QED
      BY <2>1 DEF EndInv
  <1>16. ASSUME NEW h \in Hosts, AddNotifies(h) PROVE EndInv'
    BY <1>16 DEF AddNotifies, Post, IInv, TypeOK, EndInv, polls, lists, dels
  <1>17. ASSUME NEW c \in Computers, RenameHost(c) PROVE EndInv'
    BY <1>17 DEF RenameHost, ComputerUpdated, StopPollingAsync, TimerRuns, IInv, TypeOK,
       EndInv, polls, lists, dels
  <1>18. ASSUME NEW c \in Computers, DeleteComputer(c) PROVE EndInv'
    BY <1>18 DEF DeleteComputer, Post, IInv, TypeOK, EndInv, polls, lists, dels
  <1>19. ASSUME NEW c \in Computers, TakeEntry(c) PROVE EndInv'
    BY <1>19 DEF TakeEntry, Post, IInv, TypeOK, EndInv, polls, lists, dels
  <1>20. ASSUME NEW c \in Computers, DeleteEntry(c) PROVE EndInv'
    BY <1>20 DEF DeleteEntry, Post, IInv, TypeOK, EndInv, polls, lists, dels
  <1>21. ASSUME NEW c \in Computers, FreeComputer(c) PROVE EndInv'
    BY <1>21 DEF FreeComputer, Post, IInv, TypeOK, EndInv, polls, lists, dels
  <1>22. CASE UNCHANGED vars
    BY <1>22 DEF vars, polls, lists, dels, IInv, EndInv
  <1> QED
    BY <1>1, <1>2, <1>3, <1>4, <1>5, <1>6, <1>7, <1>8, <1>9, <1>10, <1>11,
       <1>12, <1>13, <1>14, <1>15, <1>16, <1>17, <1>18, <1>19, <1>20, <1>21,
       <1>22 DEF Next, Exit, PcMonitorThread, PendingAddTask,
       DeferredHostDeletionTask

----------------------------------------------------------------------------
\* The invariant and the theorems.

LEMMA InitIInv == Init => IInv
  <1> SUFFICES ASSUME Init PROVE IInv
    OBVIOUS
  <1>1. /\ known \subseteq Computers /\ \A c \in known : c[2] = 1
    BY DEF Init
  <1>2. \A c, d \in Computers : c[2] = 1 /\ d[2] = 1 /\ HostOf(c) = HostOf(d) => c = d
    BY DEF Computers, HostOf
  <1>3. \A c \in Computers : c[2] \in 1..MaxComputers
    BY DEF Computers
  <1>4. created \in [Hosts -> 0..MaxComputers]
    BY <1>1, <1>3, Shapes DEF Init, Known
  <1>5. \A c \in Computers : c \in known <=> Exists(c)
    <2> TAKE c \in Computers
    <2>1. CASE c \in known
      <3>1. Known(HostOf(c)) # {}
        BY <2>1 DEF Known
      <3>2. created[HostOf(c)] = 1
        BY <3>1, Shapes DEF Init
      <3> QED
        BY <1>1, <2>1, <3>2 DEF Exists
    <2>2. CASE c \notin known
      <3>1. c[2] = 1 => Known(HostOf(c)) = {}
        BY <1>1, <1>2, <2>2 DEF Known
      <3>2. created[HostOf(c)] = IF Known(HostOf(c)) = {} THEN 0 ELSE 1
        BY Shapes DEF Init
      <3> QED
        BY <1>3, <2>2, <3>1, <3>2 DEF Exists
    <2> QED
      BY <2>1, <2>2
  <1>6. TypeOK
    <2>1. /\ phase = "running" /\ pollingRef = 0 /\ pollingActive \in BOOLEAN /\ seeker = "waiting"
          /\ freed = {} /\ running = {} /\ posted \in BOOLEAN /\ rows = known
      BY DEF Init
    <2>2. /\ entry \in [Hosts -> SUBSET Threads] /\ active \in [Hosts -> Threads \cup {NoThread}]
          /\ tpc \in [Threads -> {"try", "asked"}] /\ stop \in [Threads -> BOOLEAN]
          /\ held \in [Computers -> SUBSET Threads]
      BY DEF Init
    <2>3. /\ apc \in [Hosts -> {"idle", "fetching", "notify"}]
          /\ dpc \in [Computers -> {"idle", "queued", "taken", "waiting", "done"}]
      BY DEF Init
    <2> QED
      BY <1>1, <1>4, <2>1, <2>2, <2>3 DEF TypeOK
  <1>7. RefInv
    BY DEF Init, RefInv
  <1>8. KnownInv
    BY <1>1, <1>2, <1>5 DEF Init, KnownInv
  <1>9. OwnerInv /\ EndInv
    BY DEF Init, OwnerInv, EndInv
  <1>10. ActiveInv
    BY DEF Init, ActiveInv
  <1> QED
    BY <1>6, <1>7, <1>8, <1>9, <1>10 DEF IInv

LEMMA IInvHolds == Spec => []IInv
  <1>1. IInv /\ [Next]_vars => IInv'
    BY TypesKept, RefKept, KnownKept, OwnerKept, ActiveKept, EndKept DEF IInv
  <1> QED
    BY InitIInv, <1>1, PTL DEF Spec

\* Every variable keeps its type: polling is asked for by two users at most, and
\* never given up more often than it was asked for.
THEOREM TypesHold == Spec => []TypeOK
  <1>1. IInv => TypeOK
    BY DEF IInv
  <1> QED
    BY IInvHolds, <1>1, PTL

\* While polling is wanted exactly one thread polls each known host, and none
\* polls when it is not (startPolling(), stopPollingAsync() and the pool's tasks).
THEOREM KnownHostsArePolled == Spec => []PolledWhileWanted
  <1>1. IInv => PolledWhileWanted
    <2> SUFFICES ASSUME IInv, phase = "running", NEW h \in Hosts
                 PROVE  /\ Pollers(h) # {} <=> Wanted /\ Known(h) # {}
                        /\ Pollers(h) # {} => /\ Pollers(h) = {active[h]}
                                              /\ Polled(active[h]) \in known
      BY DEF PolledWhileWanted
    <2>1. Wanted <=> pollingRef > 0
      BY DEF IInv, TypeOK, RefInv, Wanted
    <2>2. active[h] # NoThread <=> Wanted /\ Known(h) # {}
      BY <2>1 DEF IInv, ActiveInv
    <2>3. \A t \in Pollers(h) : /\ t \in Threads /\ HostOf(Polled(t)) = h /\ ~stop[t]
                                /\ t \in entry[h]
      BY Shapes DEF Pollers, IInv, TypeOK, OwnerInv
    <2>4. \A t \in Pollers(h) : t = active[h] /\ t # NoThread
      BY <2>3, PollingAssumption DEF IInv, ActiveInv
    <2>5. active[h] # NoThread => active[h] \in Pollers(h) /\ Polled(active[h]) \in known
      <3> SUFFICES ASSUME active[h] # NoThread
                   PROVE  active[h] \in Pollers(h) /\ Polled(active[h]) \in known
        OBVIOUS
      <3> DEFINE t == active[h]
      <3>1. t \in entry[h] /\ ~stop[t]
        BY DEF IInv, ActiveInv
      <3>2. t \in running /\ HostOf(Polled(t)) = h /\ Polled(t) \in known
        BY <3>1 DEF IInv, OwnerInv
      <3> HIDE DEF t
      <3>3. \A c \in Computers : t \notin held[c]
        BY <3>2 DEF IInv, OwnerInv, KnownInv
      <3>4. t \in Pollers(h) /\ Polled(t) \in known
        BY <3>1, <3>2, <3>3 DEF Pollers
      <3> QED
        BY <3>4 DEF t
    <2> QED
      BY <2>2, <2>4, <2>5
  <1> QED
    BY IInvHolds, <1>1, PTL

\* A computer is freed only when none of its threads runs any more, and no known
\* host is a computer that was freed (DeferredHostDeletionTask, ~ComputerManager()).
THEOREM ComputersOutliveThreads == Spec => []HostsAlive
  <1>1. IInv => HostsAlive
    <2> SUFFICES ASSUME IInv PROVE HostsAlive
      OBVIOUS
    <2>1. \A c \in known : c \in freed => phase = "gone"
      BY DEF IInv, TypeOK, KnownInv
    <2>2. \A t \in running : Polled(t) \notin freed
      BY <2>1, Shapes DEF IInv, TypeOK, KnownInv, OwnerInv, EndInv
    <2> QED
      BY <2>1, <2>2 DEF HostsAlive
  <1> QED
    BY IInvHolds, <1>1, PTL

=============================================================================
