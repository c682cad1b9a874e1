----------------------------- MODULE HostStore -----------------------------
(***************************************************************************)
(* How the list of known hosts is kept (src/app/backend/computermanager.cpp*)
(* and the serialized part of nvcomputer.cpp): tasks and polling threads   *)
(* change it, the main thread decides what has to be saved, and the        *)
(* delayed flush thread writes it, first to a backup array and then to the *)
(* primary one, so that a crash at any point leaves one of the two.        *)
(*                                                                         *)
(* A host is its uuid, with one value for the attributes that are          *)
(* serialized.  External: QSettings, of which every write is persistent at *)
(* once, as in the Windows registry (its file formats commit a whole flush *)
(* when the object is destroyed, which is coarser).  An array without a    *)
(* size key reads as empty: beginWriteArray() removes it and endArray()    *)
(* writes it.                                                              *)
(***************************************************************************)
EXTENDS Integers, FiniteSets, Functions

CONSTANTS Hosts, Values,
          MaxChanges,   \* bound: hosts added, deleted or updated
          MaxCrashes    \* bound: crashes

ASSUME HostStoreAssumption == MaxChanges \in Nat /\ MaxCrashes \in Nat

VARIABLES
    known,        \* m_KnownHosts
    last,         \* m_LastSerializedHosts
    needs,        \* m_NeedsDelayedFlush
    interrupted,  \* isInterruptionRequested() of the flush thread
    pc,           \* the next step of DelayedFlushThread::run()
    draft,        \* entries of the array that is being written
    primary,      \* SER_HOSTS, as it reads
    backup,       \* SER_HOSTS_BACKUP, as it reads
    changed,      \* computerStateChanged() signals not delivered yet, per host
    deletions,    \* deletion tasks that have yet to call saveHosts()
    saving,       \* saveHost() is about to call saveHosts()
    changes, crashes,   \* what the bounds count
    \* What happened, for the properties only:
    settled,      \* hosts the last complete flush has written, or that were loaded
    touched,      \* hosts added or deleted since that flush wrote the primary array
    retouched,    \* the same since the flush under way began to write it
    reverted,     \* hosts whose value came to equal the last snapshot's again
    restored      \* the hosts came from the backup, and no flush has ended since

store   == <<primary, backup>>
ghosts  == <<settled, touched, retouched, reverted, restored>>
vars    == <<known, last, needs, interrupted, pc, draft, store, changed, deletions, saving,
             changes, crashes, ghosts>>

Steps == {"check", "checked", "waiting", "begin", "backup", "remove", "primary", "commit", "done"}

Empty == [h \in {} |-> 0]
Lists == UNION {[S -> Values] : S \in SUBSET Hosts}

\* What a start of the program reads.
Loaded == IF DOMAIN backup # {} THEN backup ELSE primary

Init ==
    /\ primary \in Lists /\ backup = Empty
    /\ known = primary /\ last = primary
    /\ needs = FALSE /\ interrupted = FALSE /\ pc = "check" /\ draft = Empty
    /\ changed = [h \in Hosts |-> 0] /\ deletions = 0 /\ saving = FALSE
    /\ changes = 0 /\ crashes = 0
    /\ settled = DOMAIN primary /\ touched = {} /\ retouched = {} /\ reverted = {}
    /\ restored = FALSE

----------------------------------------------------------------------------
\* DelayedFlushThread::run().

\* Mutant: an interruption ends the thread whatever is requested.
MutMayLeave == interrupted
MayLeave == interrupted /\ ~needs

\* A request, under m_DelayedFlushMutex: the flag is reset and the hosts are
\* noted.  m_KnownHosts is read without m_Lock.
Snapshot ==
    /\ pc = "check" /\ needs /\ ~MayLeave
    /\ needs' = FALSE /\ last' = known /\ pc' = "begin"
    /\ reverted' = {}
    /\ UNCHANGED <<known, interrupted, draft, store, changed, deletions, saving, changes,
                   crashes, settled, touched, retouched, restored>>

\* Nothing is requested: it is going to wait, still under the mutex.
Check ==
    /\ pc = "check" /\ ~needs /\ ~interrupted
    /\ pc' = "checked"
    /\ UNCHANGED <<known, last, needs, interrupted, draft, store, changed, deletions, saving,
                   changes, crashes, ghosts>>

Wait ==
    /\ pc = "checked"
    /\ pc' = "waiting"
    /\ UNCHANGED <<known, last, needs, interrupted, draft, store, changed, deletions, saving,
                   changes, crashes, ghosts>>

Leave ==
    /\ pc = "check" /\ MayLeave
    /\ pc' = "done"
    /\ UNCHANGED <<known, last, needs, interrupted, draft, store, changed, deletions, saving,
                   changes, crashes, ghosts>>

\* beginWriteArray(SER_HOSTS_BACKUP)
BeginBackup ==
    /\ pc = "begin"
    /\ backup' = Empty /\ draft' = Empty /\ pc' = "backup"
    /\ UNCHANGED <<known, last, needs, interrupted, primary, changed, deletions, saving,
                   changes, crashes, ghosts>>

\* NvComputer::serialize() of one host, with m_Lock held for reading.
WriteEntry(h) ==
    /\ pc \in {"backup", "primary"}
    /\ h \in DOMAIN known \ DOMAIN draft
    /\ draft' = [g \in DOMAIN draft \cup {h} |-> IF g = h THEN known[h] ELSE draft[g]]
    /\ UNCHANGED <<known, last, needs, interrupted, pc, store, changed, deletions, saving,
                   changes, crashes, ghosts>>

\* Mutant: endArray() is forgotten.
MutEnded == Empty
\* endArray(): the size makes the entries readable.
Ended == draft

EndBackup ==
    /\ pc = "backup" /\ DOMAIN draft = DOMAIN known
    /\ backup' = Ended /\ pc' = "remove"
    /\ UNCHANGED <<known, last, needs, interrupted, draft, primary, changed, deletions, saving,
                   changes, crashes, ghosts>>

\* remove(SER_HOSTS), then beginWriteArray(SER_HOSTS)
RemovePrimary ==
    /\ pc = "remove"
    /\ primary' = Empty /\ draft' = Empty /\ pc' = "primary"
    /\ retouched' = {}
    /\ UNCHANGED <<known, last, needs, interrupted, backup, changed, deletions, saving,
                   changes, crashes, settled, touched, reverted, restored>>

EndPrimary ==
    /\ pc = "primary" /\ DOMAIN draft = DOMAIN known
    /\ primary' = Ended /\ pc' = "commit"
    /\ UNCHANGED <<known, last, needs, interrupted, draft, backup, changed, deletions, saving,
                   changes, crashes, ghosts>>

\* remove(SER_HOSTS_BACKUP)
RemoveBackup ==
    /\ pc = "commit"
    /\ backup' = Empty /\ pc' = "check"
    /\ settled' = DOMAIN primary /\ touched' = retouched /\ restored' = FALSE
    /\ UNCHANGED <<known, last, needs, interrupted, draft, primary, changed, deletions, saving,
                   changes, crashes, retouched, reverted>>

FlushThread ==
    \/ Snapshot \/ Check \/ Wait \/ Leave
    \/ BeginBackup \/ EndBackup \/ RemovePrimary \/ EndPrimary \/ RemoveBackup
    \/ \E h \in Hosts : WriteEntry(h)

----------------------------------------------------------------------------
\* Tasks of the thread pool and polling threads.

\* The flush thread holds m_Lock for reading, m_DelayedFlushMutex.
ReadLocked == pc \in {"backup", "primary"}
MutexFree  == pc # "checked"

\* Mutant: nobody is woken.
MutWoken == pc
\* m_DelayedFlushCondition.wakeOne()
Woken == IF pc = "waiting" THEN "check" ELSE pc

\* saveHosts()
SaveHosts ==
    /\ MutexFree
    /\ needs' = TRUE
    /\ pc' = Woken

Touch(h) == touched' = touched \cup {h} /\ retouched' = retouched \cup {h}

\* PendingAddTask::run() stores a new host and signals it.
Add(h, v) ==
    /\ changes < MaxChanges /\ h \notin DOMAIN known /\ ~ReadLocked /\ ~interrupted
    /\ known' = [g \in DOMAIN known \cup {h} |-> IF g = h THEN v ELSE known[g]]
    /\ changed' = [changed EXCEPT ![h] = @ + 1]
    /\ changes' = changes + 1
    /\ Touch(h)
    /\ UNCHANGED <<last, needs, interrupted, pc, draft, store, deletions, saving, crashes,
                   settled, reverted, restored>>

\* NvComputer::update() of a known host by a poll or a task, or an attribute
\* set by the user, and the signal that it changed.
Update(h, v) ==
    /\ changes < MaxChanges /\ h \in DOMAIN known /\ known[h] # v
    /\ known' = [known EXCEPT ![h] = v]
    /\ changed' = [changed EXCEPT ![h] = @ + 1]
    /\ changes' = changes + 1
    /\ reverted' = IF h \in DOMAIN last /\ last[h] = v THEN reverted \cup {h} ELSE reverted
    /\ UNCHANGED <<last, needs, interrupted, pc, draft, store, deletions, saving, crashes,
                   settled, touched, retouched, restored>>

\* DeferredHostDeletionTask::run(), under m_Lock for writing.
Delete(h) ==
    /\ changes < MaxChanges /\ h \in DOMAIN known /\ ~ReadLocked /\ ~interrupted
    /\ known' = Restrict(known, DOMAIN known \ {h})
    /\ deletions' = deletions + 1
    /\ changes' = changes + 1
    /\ Touch(h)
    /\ UNCHANGED <<last, needs, interrupted, pc, draft, store, changed, saving, crashes,
                   settled, reverted, restored>>

\* The task goes on with saveHosts().
PersistDeletion ==
    /\ deletions > 0
    /\ SaveHosts
    /\ deletions' = deletions - 1
    /\ UNCHANGED <<known, last, interrupted, draft, store, changed, saving, changes, crashes,
                   ghosts>>

----------------------------------------------------------------------------
\* The main thread.

\* Mutant: a host that was not saved yet counts as unchanged.
MutIsEqualSerialized(h) == h \in DOMAIN last => last[h] = known[h]
IsEqualSerialized(h) == h \in DOMAIN last /\ last[h] = known[h]

Signalled(h) == changed[h] > 0

\* saveHost(), called when computerStateChanged() is delivered.  A host that
\* was deleted meanwhile is read all the same, and may compare either way.
SaveHost(h) ==
    /\ Signalled(h) /\ ~saving /\ ~interrupted /\ MutexFree
    /\ changed' = [changed EXCEPT ![h] = @ - 1]
    /\ saving' \in IF h \in DOMAIN known THEN {~IsEqualSerialized(h)} ELSE BOOLEAN
    /\ UNCHANGED <<known, last, needs, interrupted, pc, draft, store, deletions, changes,
                   crashes, ghosts>>

\* Having released the locks it calls saveHosts().
SaveHostRequests ==
    /\ saving
    /\ SaveHosts
    /\ saving' = FALSE
    /\ UNCHANGED <<known, last, interrupted, draft, store, changed, deletions, changes,
                   crashes, ghosts>>

\* ~ComputerManager(): interruption and wakeOne(), without the mutex.  Assumed:
\* the 30 s that main() gives to the tasks of the pool are enough; polling
\* threads still run.
Quit ==
    /\ ~interrupted /\ ~saving /\ deletions = 0
    /\ interrupted' = TRUE
    /\ pc' = Woken
    /\ UNCHANGED <<known, last, needs, draft, store, changed, deletions, saving, changes,
                   crashes, ghosts>>

\* The constructor, in a new process.
Start ==
    /\ known' = Loaded /\ last' = Loaded
    /\ needs' = FALSE /\ interrupted' = FALSE /\ pc' = "check" /\ draft' = Empty
    /\ changed' = [h \in Hosts |-> 0] /\ deletions' = 0 /\ saving' = FALSE
    /\ settled' = DOMAIN Loaded /\ touched' = {} /\ retouched' = {} /\ reverted' = {}
    /\ restored' = (DOMAIN backup # {})
    /\ UNCHANGED <<store, changes>>

\* The program has quit, and is started again.
Relaunch == pc = "done" /\ Start /\ UNCHANGED crashes

\* It ends at any point, and is started again.
Crash == crashes < MaxCrashes /\ crashes' = crashes + 1 /\ Start

Next ==
    \/ FlushThread
    \/ \E h \in Hosts, v \in Values : Add(h, v) \/ Update(h, v)
    \/ \E h \in Hosts : Delete(h) \/ SaveHost(h)
    \/ PersistDeletion \/ SaveHostRequests
    \/ Quit \/ Relaunch \/ Crash

\* The flush thread is scheduled; so are the tasks and the event loop.
Fairness == WF_vars(FlushThread)

Spec == Init /\ [][Next]_vars /\ Fairness

----------------------------------------------------------------------------
\* Properties.

\* Every variable keeps its type.
TypeOK ==
    /\ {known, last, draft, primary, backup} \subseteq Lists
    /\ {needs, interrupted, saving, restored} \subseteq BOOLEAN
    /\ pc \in Steps
    /\ changed \in [Hosts -> Nat] /\ deletions \in Nat
    /\ changes \in 0 .. MaxChanges /\ crashes \in 0 .. MaxCrashes
    /\ settled \cup touched \cup retouched \cup reverted \subseteq Hosts

Untouched(h) == h \notin touched

\* "First, write to the backup location", computermanager.cpp:285: at every
\* point of a flush a start reads each host that is neither new nor deleted
\* since the last one, and no other.  Not claimed between a start from the
\* backup and the end of the next flush.
CrashKeepsHosts ==
    ~restored => \A h \in Hosts : Untouched(h) => (h \in DOMAIN Loaded <=> h \in settled)

Idle == /\ pc \in {"check", "checked", "waiting", "done"} /\ ~needs /\ ~saving /\ deletions = 0
        /\ \A h \in Hosts : changed[h] = 0

\* "Reset the delayed flush flag to ensure any racing saveHosts() call will set
\* it again", computermanager.cpp:268: when nothing is left to do, what is
\* stored is what is known, but for values that went back to the snapshot's
\* while they were being written.
IdleIsSaved ==
    Idle => /\ DOMAIN Loaded = DOMAIN known
            /\ \A h \in DOMAIN known \ reverted : Loaded[h] = known[h]

\* A request never finds the flush thread asleep, about to sleep or gone, however
\* it races with the thread's test and with the end of the program ("Delayed
\* flushes should have completed by now", computermanager.cpp:218).
RequestsAreSeen == needs => pc \notin {"checked", "waiting", "done"}

\* A request to save is taken up, however it races with the thread's waiting.
RequestsAreFlushed == needs ~> ~needs

\* "Wait for it to terminate (and finish any pending flush)",
\* computermanager.cpp:214: the flush thread notices its interruption.  It does
\* not hold: both the interruption and the wake-up may fall between the
\* thread's test of them and its wait, which has no timeout.
DestructorReturns == interrupted ~> pc = "done" \/ ~interrupted
=============================================================================
