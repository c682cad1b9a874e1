-------------------------- MODULE HostStoreProofs --------------------------
(***************************************************************************)
(* Proofs about the list of hosts, for any hosts, values, changes and      *)
(* crashes: no crash during a flush loses or revives a host, what is       *)
(* stored when nothing is left to do is what is known, and the flush       *)
(* thread leaves nothing behind.                                           *)
(***************************************************************************)
EXTENDS HostStore, TLAPS

\* A list agrees with the hosts that have neither come nor gone.
Agrees(list) == \A h \in Hosts : Untouched(h) => (h \in DOMAIN list <=> h \in settled)

\* What the two arrays hold at each step of the flush.
ArraysInv ==
    /\ Agrees(known)
    /\ pc \in {"check", "checked", "waiting", "begin", "backup", "done"} /\ ~restored =>
           DOMAIN backup = {} /\ Agrees(primary)
    /\ pc \in {"remove", "primary", "commit"} => Agrees(backup)
    /\ pc = "remove" /\ ~restored => Agrees(primary)
    /\ pc = "primary" => DOMAIN primary = {} /\ retouched = {}
    /\ pc = "commit" => /\ Agrees(primary)
                        /\ \A h \in Hosts \ retouched : h \in DOMAIN primary <=> h \in DOMAIN known

\* saveHosts() has been called since the snapshot, or is going to be.
Pending == needs \/ saving \/ deletions > 0

\* The snapshot is up to date but for hosts whose signal is under way.
SnapshotInv ==
    ~Pending => \A h \in Hosts :
        /\ h \in DOMAIN last => h \in DOMAIN known
        /\ h \in DOMAIN known /\ changed[h] = 0 => h \in DOMAIN last /\ last[h] = known[h]

\* A list stores what a host is that compares equal to the snapshot.
Stores(list) ==
    /\ DOMAIN list \subseteq DOMAIN known
    /\ DOMAIN known \cap DOMAIN last \subseteq DOMAIN list
    /\ \A h \in (DOMAIN known \cap DOMAIN last) \ reverted :
          last[h] = known[h] => list[h] = known[h]

\* The entries written so far do.
DraftInv ==
    pc \in {"backup", "primary"} =>
        /\ DOMAIN draft \subseteq DOMAIN known
        /\ \A h \in (DOMAIN draft \cap DOMAIN last) \ reverted :
              last[h] = known[h] => draft[h] = known[h]

\* So does what a start would read, unless a request is pending.
StoredInv ==
    ~Pending => /\ pc = "commit" => Stores(primary)
                /\ pc \in {"check", "checked", "waiting", "done"} => Stores(Loaded)

\* A request that is pending keeps the thread from sleeping and from leaving.
LeaveInv ==
    /\ interrupted => ~saving /\ deletions = 0
    /\ pc = "done" => interrupted
    /\ needs => pc \notin {"checked", "waiting", "done"}

\* The inductive invariant.
IInv == TypeOK /\ ArraysInv /\ SnapshotInv /\ DraftInv /\ StoredInv /\ LeaveInv

----------------------------------------------------------------------------

\* The members of Lists.
LEMMA ListsAre == \A f : f \in Lists <=> f \in [DOMAIN f -> Values] /\ DOMAIN f \subseteq Hosts
  BY DEF Lists

\* The empty array.
LEMMA EmptyIs == Empty \in Lists /\ DOMAIN Empty = {}
  BY ListsAre DEF Empty

\* Every step keeps the types.
LEMMA TypesKept == IInv /\ [Next]_vars => TypeOK'
  <1> SUFFICES ASSUME IInv, [Next]_vars
               PROVE  TypeOK'
    OBVIOUS
  <1> USE DEF IInv, TypeOK, store, ghosts, Steps
  <1>1. CASE Snapshot
    BY <1>1 DEF Snapshot
  <1>2. CASE Check
    BY <1>2 DEF Check
  <1>3. CASE Wait
    BY <1>3 DEF Wait
  <1>4. CASE Leave
    BY <1>4 DEF Leave
  <1>5. CASE BeginBackup
    BY <1>5, EmptyIs DEF BeginBackup
  <1>6. ASSUME NEW h \in Hosts, WriteEntry(h)
        PROVE  TypeOK'
    <2>1. draft' \in Lists
      BY <1>6, ListsAre DEF WriteEntry
    <2> QED
      BY <1>6, <2>1 DEF WriteEntry
  <1>7. CASE EndBackup
    BY <1>7 DEF EndBackup, Ended
  <1>8. CASE RemovePrimary
    BY <1>8, EmptyIs DEF RemovePrimary
  <1>9. CASE EndPrimary
    BY <1>9 DEF EndPrimary, Ended
  <1>10. CASE RemoveBackup
    <2>1. settled' \subseteq Hosts /\ backup' \in Lists
      BY <1>10, EmptyIs, ListsAre DEF RemoveBackup
    <2> QED
      BY <1>10, <2>1 DEF RemoveBackup
  <1>11. ASSUME NEW h \in Hosts, NEW v \in Values, Add(h, v)
        PROVE  TypeOK'
    <2>1. known' \in Lists
      BY <1>11, ListsAre DEF Add
    <2>2. changed' \in [Hosts -> Nat]
      BY <1>11 DEF Add
    <2> QED
      BY <1>11, <2>1, <2>2, HostStoreAssumption DEF Add, Touch
  <1>12. ASSUME NEW h \in Hosts, NEW v \in Values, Update(h, v)
        PROVE  TypeOK'
    <2>1. known' \in Lists
      BY <1>12, ListsAre DEF Update
    <2>2. changed' \in [Hosts -> Nat]
      BY <1>12 DEF Update
    <2> QED
      BY <1>12, <2>1, <2>2, HostStoreAssumption DEF Update
  <1>13. ASSUME NEW h \in Hosts, Delete(h)
        PROVE  TypeOK'
    <2>1. known' \in Lists
      BY <1>13, ListsAre DEF Delete, Restrict
    <2> QED
      BY <1>13, <2>1, HostStoreAssumption DEF Delete, Touch
  <1>14. CASE PersistDeletion
    BY <1>14 DEF PersistDeletion, SaveHosts, Woken
  <1>15. ASSUME NEW h \in Hosts, SaveHost(h)
        PROVE  TypeOK'
    <2>1. changed' \in [Hosts -> Nat]
      BY <1>15 DEF SaveHost, Signalled
    <2>2. saving' \in BOOLEAN
      BY <1>15 DEF SaveHost
    <2> QED
      BY <1>15, <2>1, <2>2 DEF SaveHost
  <1>16. CASE SaveHostRequests
    BY <1>16 DEF SaveHostRequests, SaveHosts, Woken
  <1>17. CASE Quit
    BY <1>17 DEF Quit, Woken
  <1>18. CASE Relaunch
    <2>1. Loaded \in Lists /\ DOMAIN Loaded \subseteq Hosts
      BY ListsAre DEF Loaded
    <2>2. changed' \in [Hosts -> Nat] /\ restored' \in BOOLEAN
      BY <1>18 DEF Relaunch, Start
    <2> QED
      BY <1>18, <2>1, <2>2, EmptyIs, HostStoreAssumption DEF Relaunch, Start
  <1>19. CASE Crash
    <2>1. Loaded \in Lists /\ DOMAIN Loaded \subseteq Hosts
      BY ListsAre DEF Loaded
    <2>2. changed' \in [Hosts -> Nat] /\ restored' \in BOOLEAN
      BY <1>19 DEF Crash, Start
    <2>3. crashes' \in 0 .. MaxCrashes
      BY <1>19, HostStoreAssumption DEF Crash
    <2> QED
      BY <1>19, <2>1, <2>2, <2>3, EmptyIs, HostStoreAssumption DEF Crash, Start
  <1>20. CASE UNCHANGED vars
    BY <1>20 DEF vars
  <1> QED
    BY <1>1, <1>2, <1>3, <1>4, <1>5, <1>6, <1>7, <1>8, <1>9, <1>10, <1>11, <1>12, <1>13, <1>14, <1>15, <1>16, <1>17, <1>18, <1>19, <1>20 DEF Next, FlushThread

\* Every step keeps what is known about the arrays.
LEMMA ArraysKept == IInv /\ [Next]_vars => ArraysInv'
  <1> SUFFICES ASSUME IInv, [Next]_vars
               PROVE  ArraysInv'
    OBVIOUS
  <1> USE DEF IInv, ArraysInv, Agrees, Untouched, store, ghosts
  <1>1. CASE Snapshot
    BY <1>1 DEF Snapshot
  <1>2. CASE Check
    BY <1>2 DEF Check
  <1>3. CASE Wait
    BY <1>3 DEF Wait
  <1>4. CASE Leave
    BY <1>4 DEF Leave
  <1>5. CASE BeginBackup
    BY <1>5, EmptyIs DEF BeginBackup
  <1>6. ASSUME NEW h \in Hosts, WriteEntry(h)
        PROVE  ArraysInv'
    BY <1>6 DEF WriteEntry
  <1>7. CASE EndBackup
    BY <1>7 DEF EndBackup, Ended
  <1>8. CASE RemovePrimary
    BY <1>8, EmptyIs DEF RemovePrimary
  <1>9. CASE EndPrimary
    BY <1>9 DEF EndPrimary, Ended
  <1>10. CASE RemoveBackup
    BY <1>10, EmptyIs DEF RemoveBackup
  <1>11. ASSUME NEW h \in Hosts, NEW v \in Values, Add(h, v)
        PROVE  ArraysInv'
    BY <1>11 DEF Add, Touch, ReadLocked
  <1>12. ASSUME NEW h \in Hosts, NEW v \in Values, Update(h, v)
        PROVE  ArraysInv'
    BY <1>12 DEF Update
  <1>13. ASSUME NEW h \in Hosts, Delete(h)
        PROVE  ArraysInv'
    BY <1>13 DEF Delete, Touch, ReadLocked, Restrict
  <1>14. CASE PersistDeletion
    BY <1>14 DEF PersistDeletion, SaveHosts, Woken
  <1>15. ASSUME NEW h \in Hosts, SaveHost(h)
        PROVE  ArraysInv'
    BY <1>15 DEF SaveHost
  <1>16. CASE SaveHostRequests
    BY <1>16 DEF SaveHostRequests, SaveHosts, Woken
  <1>17. CASE Quit
    BY <1>17 DEF Quit, Woken
  <1>18. CASE Relaunch
    <2>1. /\ known' = Loaded /\ settled' = DOMAIN Loaded /\ touched' = {}
          /\ pc' = "check" /\ UNCHANGED <<primary, backup>>
          /\ restored' = (DOMAIN backup # {})
      BY <1>18 DEF Relaunch, Start
    <2> QED
      BY <2>1 DEF Loaded
  <1>19. CASE Crash
    <2>1. /\ known' = Loaded /\ settled' = DOMAIN Loaded /\ touched' = {}
          /\ pc' = "check" /\ UNCHANGED <<primary, backup>>
          /\ restored' = (DOMAIN backup # {})
      BY <1>19 DEF Crash, Start
    <2> QED
      BY <2>1 DEF Loaded
  <1>20. CASE UNCHANGED vars
    BY <1>20 DEF vars
  <1> QED
    BY <1>1, <1>2, <1>3, <1>4, <1>5, <1>6, <1>7, <1>8, <1>9, <1>10, <1>11, <1>12, <1>13, <1>14, <1>15, <1>16, <1>17, <1>18, <1>19, <1>20 DEF Next, FlushThread

\* Every step keeps what is known about the snapshot.
LEMMA SnapshotKept == IInv /\ [Next]_vars => SnapshotInv'
  <1> SUFFICES ASSUME IInv, [Next]_vars
               PROVE  SnapshotInv'
    OBVIOUS
  <1> USE DEF IInv, SnapshotInv, Pending, TypeOK, store, ghosts
  <1>1. CASE Snapshot
    BY <1>1 DEF Snapshot
  <1>2. CASE Check
    BY <1>2 DEF Check
  <1>3. CASE Wait
    BY <1>3 DEF Wait
  <1>4. CASE Leave
    BY <1>4 DEF Leave
  <1>5. CASE BeginBackup
    BY <1>5 DEF BeginBackup
  <1>6. ASSUME NEW h \in Hosts, WriteEntry(h)
        PROVE  SnapshotInv'
    BY <1>6 DEF WriteEntry
  <1>7. CASE EndBackup
    BY <1>7 DEF EndBackup
  <1>8. CASE RemovePrimary
    BY <1>8 DEF RemovePrimary
  <1>9. CASE EndPrimary
    BY <1>9 DEF EndPrimary
  <1>10. CASE RemoveBackup
    BY <1>10 DEF RemoveBackup
  <1>11. ASSUME NEW h \in Hosts, NEW v \in Values, Add(h, v)
        PROVE  SnapshotInv'
    BY <1>11 DEF Add
  <1>12. ASSUME NEW h \in Hosts, NEW v \in Values, Update(h, v)
        PROVE  SnapshotInv'
    BY <1>12 DEF Update
  <1>13. ASSUME NEW h \in Hosts, Delete(h)
        PROVE  SnapshotInv'
    BY <1>13 DEF Delete, Restrict
  <1>14. CASE PersistDeletion
    BY <1>14 DEF PersistDeletion, SaveHosts, Woken
  <1>15. ASSUME NEW h \in Hosts, SaveHost(h)
        PROVE  SnapshotInv'
    BY <1>15 DEF SaveHost, Signalled, IsEqualSerialized
  <1>16. CASE SaveHostRequests
    BY <1>16 DEF SaveHostRequests, SaveHosts, Woken
  <1>17. CASE Quit
    BY <1>17 DEF Quit, Woken
  <1>18. CASE Relaunch
    BY <1>18 DEF Relaunch, Start
  <1>19. CASE Crash
    BY <1>19 DEF Crash, Start
  <1>20. CASE UNCHANGED vars
    BY <1>20 DEF vars
  <1> QED
    BY <1>1, <1>2, <1>3, <1>4, <1>5, <1>6, <1>7, <1>8, <1>9, <1>10, <1>11, <1>12, <1>13, <1>14, <1>15, <1>16, <1>17, <1>18, <1>19, <1>20 DEF Next, FlushThread

\* Every step keeps what is known about the entries.
LEMMA DraftKept == IInv /\ [Next]_vars => DraftInv'
  <1> SUFFICES ASSUME IInv, [Next]_vars
               PROVE  DraftInv'
    OBVIOUS
  <1> USE DEF IInv, DraftInv, TypeOK, store, ghosts
  <1>1. CASE Snapshot
    BY <1>1 DEF Snapshot
  <1>2. CASE Check
    BY <1>2 DEF Check
  <1>3. CASE Wait
    BY <1>3 DEF Wait
  <1>4. CASE Leave
    BY <1>4 DEF Leave
  <1>5. CASE BeginBackup
    BY <1>5, EmptyIs DEF BeginBackup
  <1>6. ASSUME NEW h \in Hosts, WriteEntry(h)
        PROVE  DraftInv'
    BY <1>6 DEF WriteEntry
  <1>7. CASE EndBackup
    BY <1>7 DEF EndBackup
  <1>8. CASE RemovePrimary
    BY <1>8, EmptyIs DEF RemovePrimary
  <1>9. CASE EndPrimary
    BY <1>9 DEF EndPrimary
  <1>10. CASE RemoveBackup
    BY <1>10 DEF RemoveBackup
  <1>11. ASSUME NEW h \in Hosts, NEW v \in Values, Add(h, v)
        PROVE  DraftInv'
    BY <1>11 DEF Add, ReadLocked
  <1>12. ASSUME NEW h \in Hosts, NEW v \in Values, Update(h, v)
        PROVE  DraftInv'
    BY <1>12 DEF Update
  <1>13. ASSUME NEW h \in Hosts, Delete(h)
        PROVE  DraftInv'
    BY <1>13 DEF Delete, Restrict, ReadLocked
  <1>14. CASE PersistDeletion
    BY <1>14 DEF PersistDeletion, SaveHosts, Woken
  <1>15. ASSUME NEW h \in Hosts, SaveHost(h)
        PROVE  DraftInv'
    BY <1>15 DEF SaveHost
  <1>16. CASE SaveHostRequests
    BY <1>16 DEF SaveHostRequests, SaveHosts, Woken
  <1>17. CASE Quit
    BY <1>17 DEF Quit, Woken
  <1>18. CASE Relaunch
    BY <1>18 DEF Relaunch, Start
  <1>19. CASE Crash
    BY <1>19 DEF Crash, Start
  <1>20. CASE UNCHANGED vars
    BY <1>20 DEF vars
  <1> QED
    BY <1>1, <1>2, <1>3, <1>4, <1>5, <1>6, <1>7, <1>8, <1>9, <1>10, <1>11, <1>12, <1>13, <1>14, <1>15, <1>16, <1>17, <1>18, <1>19, <1>20 DEF Next, FlushThread

\* Every step keeps what is known about the stored list.
LEMMA StoredKept == IInv /\ [Next]_vars => StoredInv'
  <1> SUFFICES ASSUME IInv, [Next]_vars
               PROVE  StoredInv'
    OBVIOUS
  <1> USE DEF IInv, StoredInv, Stores, Loaded, Pending, TypeOK, store, ghosts
  <1>1. CASE Snapshot
    BY <1>1 DEF Snapshot
  <1>2. CASE Check
    BY <1>2 DEF Check
  <1>3. CASE Wait
    BY <1>3 DEF Wait
  <1>4. CASE Leave
    BY <1>4 DEF Leave
  <1>5. CASE BeginBackup
    BY <1>5 DEF BeginBackup
  <1>6. ASSUME NEW h \in Hosts, WriteEntry(h)
        PROVE  StoredInv'
    BY <1>6 DEF WriteEntry
  <1>7. CASE EndBackup
    BY <1>7 DEF EndBackup
  <1>8. CASE RemovePrimary
    BY <1>8 DEF RemovePrimary
  <1>9. CASE EndPrimary
    BY <1>9 DEF EndPrimary, Ended, DraftInv
  <1>10. CASE RemoveBackup
    BY <1>10, EmptyIs DEF RemoveBackup
  <1>11. ASSUME NEW h \in Hosts, NEW v \in Values, Add(h, v)
        PROVE  StoredInv'
    <2>1. ~Pending => h \notin DOMAIN last
      BY <1>11 DEF Add, SnapshotInv
    <2> QED
      BY <1>11, <2>1, ListsAre DEF Add
  <1>12. ASSUME NEW h \in Hosts, NEW v \in Values, Update(h, v)
        PROVE  StoredInv'
    BY <1>12 DEF Update
  <1>13. ASSUME NEW h \in Hosts, Delete(h)
        PROVE  StoredInv'
    BY <1>13 DEF Delete, Restrict
  <1>14. CASE PersistDeletion
    BY <1>14 DEF PersistDeletion, SaveHosts, Woken
  <1>15. ASSUME NEW h \in Hosts, SaveHost(h)
        PROVE  StoredInv'
    BY <1>15 DEF SaveHost
  <1>16. CASE SaveHostRequests
    BY <1>16 DEF SaveHostRequests, SaveHosts, Woken
  <1>17. CASE Quit
    BY <1>17 DEF Quit, Woken
  <1>18. CASE Relaunch
    BY <1>18 DEF Relaunch, Start
  <1>19. CASE Crash
    BY <1>19 DEF Crash, Start
  <1>20. CASE UNCHANGED vars
    BY <1>20 DEF vars
  <1> QED
    BY <1>1, <1>2, <1>3, <1>4, <1>5, <1>6, <1>7, <1>8, <1>9, <1>10, <1>11, <1>12, <1>13, <1>14, <1>15, <1>16, <1>17, <1>18, <1>19, <1>20 DEF Next, FlushThread

\* Every step keeps the thread from leaving early.
LEMMA LeaveKept == IInv /\ [Next]_vars => LeaveInv'
  <1> SUFFICES ASSUME IInv, [Next]_vars
               PROVE  LeaveInv'
    OBVIOUS
  <1> USE DEF IInv, LeaveInv, TypeOK, store, ghosts
  <1>1. CASE Snapshot
    BY <1>1 DEF Snapshot
  <1>2. CASE Check
    BY <1>2 DEF Check
  <1>3. CASE Wait
    BY <1>3 DEF Wait
  <1>4. CASE Leave
    BY <1>4 DEF Leave, MayLeave
  <1>5. CASE BeginBackup
    BY <1>5 DEF BeginBackup
  <1>6. ASSUME NEW h \in Hosts, WriteEntry(h)
        PROVE  LeaveInv'
    BY <1>6 DEF WriteEntry
  <1>7. CASE EndBackup
    BY <1>7 DEF EndBackup
  <1>8. CASE RemovePrimary
    BY <1>8 DEF RemovePrimary
  <1>9. CASE EndPrimary
    BY <1>9 DEF EndPrimary
  <1>10. CASE RemoveBackup
    BY <1>10 DEF RemoveBackup
  <1>11. ASSUME NEW h \in Hosts, NEW v \in Values, Add(h, v)
        PROVE  LeaveInv'
    BY <1>11 DEF Add
  <1>12. ASSUME NEW h \in Hosts, NEW v \in Values, Update(h, v)
        PROVE  LeaveInv'
    BY <1>12 DEF Update
  <1>13. ASSUME NEW h \in Hosts, Delete(h)
        PROVE  LeaveInv'
    BY <1>13 DEF Delete
  <1>14. CASE PersistDeletion
    BY <1>14 DEF PersistDeletion, SaveHosts, Woken, MutexFree
  <1>15. ASSUME NEW h \in Hosts, SaveHost(h)
        PROVE  LeaveInv'
    BY <1>15 DEF SaveHost
  <1>16. CASE SaveHostRequests
    BY <1>16 DEF SaveHostRequests, SaveHosts, Woken, MutexFree
  <1>17. CASE Quit
    BY <1>17 DEF Quit, Woken
  <1>18. CASE Relaunch
    BY <1>18 DEF Relaunch, Start
  <1>19. CASE Crash
    BY <1>19 DEF Crash, Start
  <1>20. CASE UNCHANGED vars
    BY <1>20 DEF vars
  <1> QED
    BY <1>1, <1>2, <1>3, <1>4, <1>5, <1>6, <1>7, <1>8, <1>9, <1>10, <1>11, <1>12, <1>13, <1>14, <1>15, <1>16, <1>17, <1>18, <1>19, <1>20 DEF Next, FlushThread

----------------------------------------------------------------------------

\* The initial states satisfy the invariant.
LEMMA InitIInv == Init => IInv
  <1> SUFFICES ASSUME Init
               PROVE  IInv
    OBVIOUS
  <1>1. /\ known = primary /\ last = primary /\ primary \in Lists /\ backup = Empty
        /\ pc = "check" /\ settled = DOMAIN primary /\ touched = {} /\ reverted = {}
    BY DEF Init
  <1>2. TypeOK
    <2>1. {known, last, draft, primary, backup} \subseteq Lists
      BY <1>1, EmptyIs DEF Init
    <2>2. settled \cup touched \cup retouched \cup reverted \subseteq Hosts
      BY <1>1, ListsAre DEF Init
    <2>3. changes \in 0 .. MaxChanges /\ crashes \in 0 .. MaxCrashes
      BY HostStoreAssumption DEF Init
    <2>4. /\ {needs, interrupted, saving, restored} \subseteq BOOLEAN
          /\ changed \in [Hosts -> Nat] /\ deletions \in Nat
      BY DEF Init
    <2> QED
      BY <1>1, <2>1, <2>2, <2>3, <2>4 DEF TypeOK, Steps
  <1>3. ArraysInv
    BY <1>1, EmptyIs DEF ArraysInv, Agrees, Untouched
  <1>4. SnapshotInv /\ DraftInv
    BY <1>1 DEF SnapshotInv, DraftInv
  <1>5. StoredInv
    BY <1>1, EmptyIs DEF StoredInv, Stores, Loaded
  <1>6. LeaveInv
    BY DEF Init, LeaveInv
  <1> QED
    BY <1>2, <1>3, <1>4, <1>5, <1>6 DEF IInv

\* Every step keeps it.
LEMMA StepKeeps == IInv /\ [Next]_vars => IInv'
  BY TypesKept, ArraysKept, SnapshotKept, DraftKept, StoredKept, LeaveKept DEF IInv

\* The inductive invariant holds of every behaviour.
LEMMA IInvHolds == Spec => []IInv
  BY InitIInv, StepKeeps, PTL DEF Spec

\* Every variable keeps its type.
THEOREM TypesHold == Spec => []TypeOK
  <1>1. IInv => TypeOK
    BY DEF IInv
  <1> QED
    BY <1>1, IInvHolds, PTL

\* A start that interrupts a flush at any point reads the hosts that are
\* neither new nor deleted since the last flush, and no other.
THEOREM HostsSurviveCrashes == Spec => []CrashKeepsHosts
  <1>1. IInv => CrashKeepsHosts
    BY DEF IInv, TypeOK, Steps, ArraysInv, Agrees, CrashKeepsHosts, Loaded
  <1> QED
    BY <1>1, IInvHolds, PTL

\* When nothing is left to do, what is stored is what is known.
THEOREM IdleStoreIsCurrent == Spec => []IdleIsSaved
  <1>1. IInv => IdleIsSaved
    <2> SUFFICES ASSUME IInv, Idle
                 PROVE  /\ DOMAIN Loaded = DOMAIN known
                        /\ \A h \in DOMAIN known \ reverted : Loaded[h] = known[h]
      BY DEF IdleIsSaved
    <2>1. ~Pending /\ Stores(Loaded)
      BY DEF IInv, TypeOK, Idle, Pending, StoredInv
    <2>2. \A h \in DOMAIN known : h \in DOMAIN last /\ last[h] = known[h]
      BY <2>1, ListsAre DEF IInv, TypeOK, Idle, SnapshotInv
    <2>3. DOMAIN known \subseteq DOMAIN Loaded
      BY <2>1, <2>2 DEF Stores
    <2> QED
      BY <2>1, <2>2, <2>3 DEF Stores
  <1> QED
    BY <1>1, IInvHolds, PTL

\* The flush thread neither sleeps nor ends with a request pending.
THEOREM NoRequestMissed == Spec => []RequestsAreSeen
  <1>1. IInv => RequestsAreSeen
    BY DEF IInv, LeaveInv, RequestsAreSeen
  <1> QED
    BY <1>1, IInvHolds, PTL
=============================================================================
