# A verification development for moonlight-vplus

Moonlight V+ is a GameStream client: it finds hosts, pairs with them, starts a
stream through moonlight-common-c, decodes, paces and renders video, and carries
input, microphone, clipboard, files and USB devices alongside it.  These modules
model the parts of it in which several threads, processes or the network can
interleave, check them with TLC on small instances, and prove the properties
that matter most for every value of the parameters with TLAPS.

Paths below are relative to the repository; `session.cpp` is
`app/streaming/session.cpp` and so on.  Run a check with
`tlc -config MCPacer.cfg MCPacer` and a proof with `tlapm PacerProofs.tla`.

## 1. The system

### Parts, state, operations

| Part (source) | State it keeps | Operations | What is hard |
|---|---|---|---|
| Frame pacer (`video/ffmpeg-renderers/pacer/`) | pacing and render queue, two histories, deferred frame, `m_Stopping` | `submitFrame`, V-sync thread, render thread or `renderOnMainThread`, `~Pacer` | three threads and a destructor, wake-ups after unlock, lock dropped to free a frame |
| Session (`session.cpp`, `session.h`) | decoder, microphone, clipboard helper, connection flags, SDL event queue | `start`, `AsyncConnectionStartThread`, `exec` and its loop, `tryReconnect`, the `cl*` callbacks, `DeferredSessionCleanupTask` | callbacks on the connection's threads, reconnects, one event type with two meanings, flushed events |
| Session handover (`session.cpp`, `StreamSegue.qml`, `QuitSegue.qml`, `main.cpp`) | `s_ActiveSession`, its semaphore, posted events, thread pool | `start`, `exec`, the cleanup task, page transitions, exit | a pool thread calling the main thread while the main thread waits for it |
| Clipboard engine (`clipboardsync.cpp`) | echo caches, self-write count, bursts, tokens, transfers | `onLocalClipboardChanged`, `onIncomingFrame`, blob up- and downloads, timers | echoes, doubled or coalesced announcements, reordered blobs, bounded caches |
| Clipboard helper client (`clipboardhelperclient.cpp`, `clipboard-helper/`) | process, queue of host frames, sequence numbers, stdin backlog | start, stop, poll, restart | a second process that dies, stale READYs, restarts |
| Host list persistence (`computermanager.cpp`, `nvcomputer.cpp`) | known hosts, snapshot, flush request, two arrays in the settings | `saveHost`, `saveHosts`, `DelayedFlushThread`, constructor, destructor | crashes between writes, changes during a flush |
| Polling, discovery, pairing tasks (`computermanager.cpp`) | `m_PollingRef`, polling entries and threads, pending tasks | start/stop polling, add, delete, rename, pair, quit | threads stopped while they run, objects deleted by pool tasks |
| Decoder and renderers (`video/ffmpeg.cpp`, `ffmpeg-renderers/`) | decoder, hardware contexts, error counts | submit, reset, probe | decoder lock, resets asked for from any thread |
| Overlays (`video/overlay*`) | menus, toasts, their wake-up state | show, hide, navigate | wake-ups of the SDL loop |
| Input, audio (`input/`, `audio/`, `micstream.cpp`) | pressed keys, gamepads, devices | SDL events, callbacks | device loss |
| File mapping (`filemapping*`, `file-mapping/`) | web socket, mirror | requests, reconnects | lost connections |
| USB forwarding (`backend/usbforwarding*`, `usb-helper/`) | tunnel, local server, helper process | open, forward, close | a process, a socket and the session ending in any order |
| Pairing and HTTP (`nvpairingmanager.cpp`, `nvhttp.cpp`) | one pairing attempt | challenge and response | order of steps |
| Command line (`cli/`, `computerseeker.cpp`) | one state per launcher | found, paired, started, failed, timeout | events in any order, timeouts |
| Updates, box art, presence, settings, GUI | caches and preferences | | |

### How they interact

* The stream page creates a **session**; `start()` takes the active-session
  semaphore, a thread starts the connection, `exec()` runs the SDL loop on the
  main thread, the **cleanup task** stops the connection on a pool thread and
  releases the semaphore for the next session (`SessionHandover`).
* moonlight-common-c calls the session back on its own threads; those calls
  push SDL events, set flags, and hand frames to the decoder, whose thread
  submits them to the **pacer** (`Session`, `Pacer`).
* The session's loop polls the **clipboard helper client**, which exchanges
  frames with the helper process (`ClipboardHelper`) that runs the **clipboard
  engine** (`ClipboardSync`).
* Pool tasks and polling threads change the known hosts and signal the main
  thread (`Polling`), which asks the flush thread to write them (`HostStore`).
* The menu asks the session to forward a USB device; a worker asks the host for a
  port and a token, and a **tunnel** on the main thread copies bytes between a
  local USB/IP server and the host while the session's loop looks for Qt's
  events (`UsbTunnel`).

### What makes each part correct

Pacer: bounded queues, order, every frame freed once and not while on screen,
no lost wake-up, a destructor that returns.  Session: decoder and connection
used in order, an ended connection noticed and reported, nothing changed by a
reconnect, a quit that always ends.  Handover: callbacks find the session whose
connection it is, sessions take turns, an object is deleted last.  Clipboard:
nothing is sent back to where it came from, the user's copies are not
swallowed, files survive.  Clipboard helper: a frame reaches the clipboard of the
host it is for, in order, and does not wait for ever.  Host list: no crash loses
hosts, nothing stays unsaved.  Polling: a known host is polled by one thread while
somebody wants it, no thread works on a freed host, polling and the program end.
USB: a device is shared only while it is asked for, both byte streams stay whole,
queues stay bounded, an opening ends.  The hazards in `PROJECT.json` name the line where each can go wrong.

## 2. Modules

| Module | Role |
|---|---|
| `FramePipe` | abstract: what the frame pacer promises the decoder and the renderer |
| `Pacer`, `MCPacer`, `PacerProofs` | the frame pacer, implements `FramePipe`; its instance, its proofs |
| `Session`, `MCSession`, `SessionProofs` | one session from `start()` to its cleanup, implements `ActiveSession` |
| `ActiveSession` | abstract: what the active-session semaphore promises; implemented by `Session`, one session in detail, and by `SessionHandover`, several |
| `SessionHandover`, `MCSessionHandover`, `SessionHandoverProofs` | several sessions, implements `ActiveSession` |
| `ClipboardSync`, `MCClipboardSync`, `ClipboardSyncProofs` | the clipboard engine |
| `FrameRelay` | abstract: what the clipboard helper's client promises the host's frames |
| `ClipboardHelper`, `ClipboardHelperProofs` | the helper process of the clipboard, and its client in the session, implements `FrameRelay` |
| `HostStore`, `HostStoreProofs` | the host list, in memory and stored |
| `Polling`, `PollingProofs` | polling, additions and deletions of hosts, the end of the program |
| `UsbTunnel`, `UsbTunnelProofs` | USB forwarding: the session's requests and the tunnel |

Definitions keep the source's names.  An operator whose name begins with `Mut`
is a mutated form of the definition after it, the way a plausible bug would
change it; every checked property is violated by one of them, which shows that
the run can tell the code from a wrong one.  Modules that need no definitions of
their own for TLC are checked as they are (`MCPolling.cfg` is a configuration of
`Polling`).

### Pacer and FramePipe

The threads' program counters are `spc` (decoder), `vpc` (V-sync), `rpc` (render
thread or main thread) and `dpc` (destructor).  Every critical section of
`m_FrameQueueLock` is one action; what happens after an unlock (wake-ups,
`av_frame_free()`) is a later one.  A frame is the number of its submission, so
that order and identity are visible; `freed` collects what was given to
`av_frame_free()`.  The two histories decide only when a frame is dropped to
keep a queue short; they are abstracted to the number of further looks that find
a small entry (`pacingAge`, `renderAge`).  `mode` holds what `initialize()`
found.

`IsFramePipe` is the refinement: the frames held are those not yet freed, wherever
they are, the pipe's capacity is what `OutstandingBound` says, and it is open until
the destructor has freed the queues.  `Submit` is `Feed`, with the drop that makes
room, `RenderFrame` is `Show`, every other `av_frame_free()` is `Drop`, `DestroyFree`
is `Close`, and what only moves a frame between threads and queues changes nothing
that can be seen.

### Session

`mpc` follows the main thread through `start()`, `exec()`, the loop and
`tryReconnect()`, `apc` the thread that starts a connection, `kpc` the cleanup
task, `cpc` a receive thread inside `clClipboardData()`.  `events` is the SDL
queue, with the three kinds of event the session's control depends on.
moonlight-common-c is external: a connection is down, starting, up, or failed,
delivers video and clipboard frames, and terminates once.

`KeepsItsTurn` is the refinement by the session's own steps of what its turn promises:
`start()` takes it, a connection that begins in `start()` or `tryReconnect()` is
`Connect`, `LiStopConnection()` or a failed start `Disconnect`, and `TaskReleases` gives
the turn back.

### SessionHandover and ActiveSession

What a session does inside `exec()` is left to `Session`; here `posted` is the
Qt event queue of the main thread and a blocking queued call of the cleanup task
is an event plus the state `waitMain`.  `SessionsTakeTurns` is the refinement:
`Turn` is the session between `start()` and the release of the semaphore,
`Connected` the sessions with a connection, and every step of the handover is a
step of `ActiveSession` or stutters.

### ClipboardSync

One action per entry point of the engine: a frame of the host, the end of a
fetch or an upload, a timer, an announcement of the clipboard.  The platform is
part of the state because the engine's correctness depends on how a write is
announced: later and now and then twice (Windows, X11), before it returns, or by
polling a change count (macOS).  Hashes are abstracted to what they tell apart: an
image's bytes are the image and its encoding, its pixels the image.

### HostStore

`known` is `m_KnownHosts`, `last` the snapshot, `primary` and `backup` the two
arrays as `beginReadArray()` would read them, `draft` the entries written so
far, `pc` the flush thread.  An array is rewritten entry by entry, and the
program may end between any two writes and start again from what it reads.
Tasks are blocked while the flush thread holds `m_Lock`; `saveHosts()` is
blocked between the thread's test and its wait, the destructor is not.

### ClipboardHelper

The client is `mode`, `proc` (what QProcess knows), `ready`, `configSeq`, the
restarts and the queue; the helper is `alive`, `engine` (whose clipboard it has)
and `handled`; two sequences are the pipes.  `processPendingMessages()` is one
action, except that frames are swapped out of the queue in one step and written
in others (`flushing`), because they arrive on another thread in between, and that
`stop()` waits for the helper, so that it begins and ends.  The helper may die,
misspeak or be slow at any point; a write fails when the process is gone.

`IsFrameRelay` is the refinement: a frame is on its way (`Pending`) in the queue, swapped
out of it, or in the pipe.  `ReceiveFrame` is `Arrive`, with the frame that overflows;
a frame read by the helper is `Deliver`; a helper that is started is `Begin`, and every
way it ends, and every frame written to one that has ended, is `Lose`.

### Polling

Everything under `m_Lock` is one action; a polling thread is two (`try` the
interruption and ask, then look at the answer), an addition task and a deletion
task as many as they have critical sections.  A host may be deleted and added
again, which makes a second computer of the same uuid; a thread is named after the
computer it polls, so that "works on a freed one" can be said.  `phase` is the end
of `main()`: the tasks are waited for, then `~ComputerManager()` deletes the
entries, whose destructors wait for their threads.

### UsbTunnel

`menu`, `active`, `pending`, `generation` and `workers` are the session's side;
`tunnel`, `local`, `verified`, `done` and `timer` the tunnel's; each socket has a
read buffer and a write queue, and `atServer` and `atHost` keep what went through.
A unit is a chunk of 64 KiB, the unit in which the pumps read and write; the code
may pass the mark by less than one.  One action per signal of Qt, with the pumps
it runs (`HandleRemoteReadyRead`, `PumpToHost`).  `QSslSocket::bytesToWrite()`
counts only what is not encrypted yet, so `atHost` begins there: the mark does not
bound what has been encrypted.

## 3. Runs

| Run | Bounds | What it shows |
|---|---|---|
| `pacer` | 6 frames, windows 2 and 1, all 16 modes | order, ownership, outstanding surfaces, an event for every queued frame; the pacer implements `FramePipe`; with fairness, frames move on and a main-thread destructor returns |
| `session` | 2 inputs, 2 reconnect attempts | the decoder, microphone and report properties; the session implements `ActiveSession`; with fairness, a quit ends the stream |
| `handover` | 3 sessions | callbacks, deletion, turns; with fairness, a waiting `start()` goes on |
| `clipboard` | 2 copies, 2 frames, caches of 2, 1 burst, tokens modulo 3 | no echo, no swallowed copy, files kept |
| `clipboard_helper` | 2 contexts of which 1 is readable, queue of 2, 2 restarts, 4 frames, 3 configurations | frames reach the clipboard they are for; the client and the helper implement `FrameRelay`; with fairness, frames move on |
| `hosts` | 2 hosts, 2 values, 3 changes, 2 crashes | nothing lost by a crash, nothing left unsaved, no wait or exit over a request; with fairness, requests are taken up |
| `polling` | 1 host, 2 computers of it, 2 threads of each | one poller while polling is wanted, none on freed computers; with fairness, polling stops and the program ends |
| `usb_tunnel` | 2 devices, 4 requests or reconnects, mark 2, line of 1, 4 chunks each way, with and without a local server | bounded queues, whole streams, nothing shared unasked; with fairness, openings end and traffic moves |
| `pacer_destructor` | 1 frame | violation: the destructor waits for a render thread that waits |
| `handover_wait` | 2 sessions | violation: the main thread waits for a task that waits for it |
| `clipboard_burst` | 1 copy, 1 frame | violation: a burst's text is overtaken by its image |
| `polling_rows` | as `polling` | violation: a deleted host comes back in the grid and is freed under it |

Why the bounds are enough.  Six frames fill both queues of three, the slot being
rendered and the deferred one, and still leave one to be dropped; windows of 2
and 1 are the smallest that let a drop target persist and expire.  Two attempts
give a failed one followed by one that succeeds and dies again; two inputs give a
cancel during a reconnect and a quit after it, or two quits.  Three sessions give
a session that waits for one which waits for another.  Two copies and two frames
give a user's copy between a write and its announcement and a burst whose halves
are separated by either; the caches are bounded below what one burst and one
more write fill.  The sizes lie on both sides of the inline threshold and the
wire's limit.  Three changes on two hosts are an addition, a
deletion and an update around one flush, and two crashes put a second one
after a start from the backup.  Four frames overflow the helper's queue of two while
two more are being written, over two restarts with a configuration between them.  The
hosts' entries do not share anything but `m_Lock` and the count of users, so one
host with two computers and two threads of each has every case: a thread that
outlives its interruption next to the one that replaced it, and the same host
deleted, added again and deleted while threads of the first computer still
run (two hosts with one computer and one thread each pass as well).  A mark of two
chunks with four to send pauses each pump twice; a line of at most one part beside
its end can be exact, too long, split over two reads, or read together with data;
four generations are two requests with a release or an answer between them.

Deadlock is not checked: sessions end, pacers are destroyed and the inputs are
bounded.  In `HostStore` it would also report the destructor's lost wake-up
(`Check`, `Quit`, `Wait`, and nothing more).

Fairness is weak and only of the program's own threads: the decoder thread's
notification, the V-sync, render and destructor threads (`Pacer`); the main
thread, the connection thread, a termination callback that was entered and the
cleanup task (`Session`, `SessionHandover`); the flush thread (`HostStore`); the
polling threads, the pool's tasks and the end of the program (`Polling`); the
session's loop, the delay of a restart and a living helper (`ClipboardHelper`).  In
`UsbTunnel` the worker's end, the timer and the sockets' writes are fair only while
the main thread looks for Qt's events (`NeedsEvents`), which is what the loop does:
that this suffices is part of what the run shows.  A runnable thread is
scheduled in the end and each step's wait has a timeout or a waker in the model.
Frames, input, the network, the user and the host owe nothing; `PollingStops`
assumes that the users of polling stay away in the end, `FramesMoveOn` that a
running helper has been sent a configuration it can read.

## 4. Proofs

Each `...Proofs` module states an inductive invariant (`IInv`; beside it `EndInv` and `QuitInv` in
`SessionProofs`; `PageInv` in `SessionHandoverProofs`,
`CInv` and `EchoInv` in `ClipboardSyncProofs`, `SharedInv`, `TunnelInv` and `WaitedInv` in
`UsbTunnelProofs`) as a conjunction of named parts, shows that the initial states satisfy it and
that each action keeps it, and derives the theorems.  Constants are arbitrary
up to the named assumptions (`PacerAssumption`, `SessionAssumption`,
`SessionsAssumption`, `ClipboardAssumption`, `HelperAssumption`, `HostStoreAssumption`,
`PollingAssumption`, `UsbAssumption`), which only say that the bounds are numbers and the sets are disjoint where the code's are.

| Theorem | Argument |
|---|---|
| `PacerProofs!QueuesBounded`, `FramesInOrder`, `ShownIsKept`, `OutstandingIsBounded`, `TypeCorrect` | a drop precedes every append; the whole pipeline is one ascending sequence, so a frame's place determines its age; the shown frame is the one rendered or the deferred one; the surfaces are a sum of bounded parts |
| `PacerProofs!FramesFreedOnce`, `CleanupIsLast` | frames move one at a time, and each move takes a frame from one place to another or to `freed`; the destructor's place tells which threads are gone, and what it leaves in the queues |
| `PacerProofs!EveryFrameAnnounced`, `RenderThreadIsWoken` | an enqueue and the wake-up or event after its unlock are tied by the enqueuing thread's place; the render thread is on its way into a wait only with an empty queue, and nobody can enqueue until it waits |
| `PacerProofs!PacerIsFramePipe` | the refinement: the frames not freed are those in flight (`FramesFreedOnce`), no more than the outstanding surfaces as a set of at most that many places (`HeldFit`); what is rendered is newer than what is shown, and is in flight |
| `SessionProofs!DecoderOrder`, `ConnectionsDoNotOverlap`, `NoReconnectWithoutVideo`, `MicrophoneOnRequest` | for each state of the main thread and the attempt's thread, what the connection can be; the attempt's thread exists only while it is waited for; the flags speak of the connection that is up.  Nothing depends on what the event queue holds |
| `SessionProofs!SessionKeepsItsTurn` | the refinement: a connection begins only while none is up and the session has its turn, and the task releases the semaphore only after the connection is gone |
| `SessionProofs!QuitIsKept` | a third invariant (`QuitInv`): until the session ends or a quit was taken for a cancel, the user's quit and that of an interrupted connection are each on their way, so that the loop may take either for the other |
| `SessionProofs!TypeCorrect`, `EndIsNoticed`, `FailureIsReported` | a second invariant (`EndInv`), over the queue: a connection that reported its end has its quit queued or about to be; a quit that neither the user nor an exit asked for comes from a connection that ended; and the loop leaves for such a quit only by way of the dialog or a reconnect |
| `SessionHandoverProofs!CallbacksSafe`, `DeletionIsLast`, `TypeCorrect`, `TurnsTaken` | at most one session holds the turn, and it is the active one while it is connected; each posted event determines its session's phase.  `TurnsTaken` is the refinement: every step maps to a step of `ActiveSession` or a stutter |
| `SessionHandoverProofs!StartWaitsRight` | a second invariant (`PageInv`): a session has the stream page from its launch until its `sessionFinished()` is delivered, one at a time, and the task posts that event once; a `start()` is for the session that has the page, so whoever still holds the semaphore has had its event delivered, hence has ended |
| `ClipboardSyncProofs!TypeCorrect`, `NothingIsSentBack` | while an announcement is outstanding the caches know what the host put on the clipboard, its text by its bytes and its image by its pixels: a write records what it writes, and an announcement of it sends, hence records, nothing that could push it out.  Two entries suffice, because a compound write records two and nothing else comes between |
| `ClipboardSyncProofs!UserCopiesAreSeen`, `FilesAreKept`, `BurstsAreBounded` | a counted write has its announcement still to come, so the count never exceeds the announcements, and is smaller while a copy of the user is unseen; every write of the engine is guarded; a burst is opened only after one was removed |
| `HostStoreProofs!HostsSurviveCrashes`, `IdleStoreIsCurrent`, `NoRequestMissed`, `TypesHold` | at each step of the flush, which array agrees with the settled hosts; a host that differs from the snapshot has a signal or request under way, and one that equals it is what was written; a request made while the flush thread is awake is seen by its next test, before it waits or ends |
| `ClipboardHelperProofs!FramesMeetTheirConfig`, `FramesKeepTheirOrder`, `TypesHold` | what the pipes hold is no newer than the last configuration; READY for it means that the helper has read it and that no other is ahead of the frames; a frame is in one place, and places are in the order of arrival |
| `ClipboardHelperProofs!HelperIsFrameRelay` | the refinement: the head of the pipe is the least frame on its way, because places are in order; it meets a clipboard, so none is refused; a full queue holds as many frames on their way as it has places, all different |
| `PollingProofs!KnownHostsArePolled`, `ComputersOutliveThreads`, `TypesHold` | the count of users is the number of those who want polling; a computer is known from its creation until its entry is taken, and freed after; a thread runs only while its host's entry, or a deletion that waits for it, has it, and all but the active one are told to stop |
| `UsbTunnelProofs!SharedAsAsked`, `StreamsKeepOrder`, `TypesHold` | a request is the last one only while it is pending, for the selected device; before the handshake there is nothing for the local server and only the request for the host; what follows the line in the buffer and the read queue, after the write queue and what went through, is what was sent, and each pump moves a prefix |
| `UsbTunnelProofs!OpeningHasAnEnd`, `PumpsStayAwake` | a request that is pending has its worker or a tunnel, and a tunnel that is not ready has its timer (`WaitedInv`); a pump stops only at an empty queue or a full one |

The invariants are needed because the properties are not inductive: that the
decoder is gone when a connection stops, for instance, says nothing about the
state of the attempt's thread, which decides whether the next connection can
start under it.

`EndInv` and `EchoInv` were checked by TLC as invariants before they were proved.
They show what the properties rest on: that a flush keeps a quit, for instance, or
that an image is also compared by its pixels, because re-encoding changes its bytes.

`Flushed`, the queue after a flush, is a recursive function over the length of the
queue.  What it returns is proved by induction over a set of numbers (`LeastOf`,
`SetInduction`): the least number for which it would be wrong, which
`WellFoundedInduction` gives, cannot exist.  The library's own induction theorems
take a predicate as a parameter and are out of the provers' reach.

`RenderThreadIsWoken`, `QueuesBounded`, `ShownIsKept` (part of what `FramePipe`
promises), `BurstsAreBounded` and the type invariants other than those of `Session`, `ClipboardSync` and `UsbTunnel` state what no run checks: they were checked
before they were proved, and a run would repeat the theorem on a small instance.  So do
`ConnectionsDoNotOverlap`, `QuitIsKept` and `FramesKeepTheirOrder`, which are the safety
cores of `KeepsItsTurn`, `UserQuitEnds` and `IsFrameRelay`, and `StartWaitsRight`,
`OpeningHasAnEnd` and `PumpsStayAwake`, which are those of `StartGoesOn`, `OpeningEnds` and
`TrafficMoves`; `QuitInv`, `PageInv` and what these theorems state were checked on the
instances of the runs.

Only model-checked: every liveness property, which is out of the prover's reach.
Every invariant, every action property and every refinement of a passing run is a theorem.

## 5. Where code and documents disagree

The violation runs above are listed as findings with the quoted lines.  Stated in the
modules, seen violated, and kept without a run:

* `Session!QuitAppOnlyIfGraceful`: a failure between the connection and the event loop
  has its flag overwritten (`session.cpp:4707`), and the cleanup quits the host's
  app, which it should "only" do after a graceful end (2265);
* `Session!ExitFlagOnRequest`: a connection that drops again during an attempt is taken
  for the user's cancel, and the program exits (`session.cpp:3681`);
* `Session!HelperAliveWhenUsed`: the helper client is deleted under the receive thread
  that tests and uses it (`session.cpp:742`);
* `Pacer!WokenFindsFrame`: a wake-up that belongs to a frame already taken lets the
  V-sync thread dequeue from an empty queue (`pacer.cpp:414`);
* `HostStore!DestructorReturns`: the interruption and the wake-up of `~ComputerManager()`
  may both fall between the flush thread's test and its wait, and the destructor, which
  should "wait for it to terminate", waits for ever (`computermanager.cpp:212`);
* `Polling!OneWriter`: a thread whose last request is under way when polling starts
  again marks the host offline next to its successor (`computermanager.cpp:121`).

Met while modelling:

* the pacer can hold nine surfaces with a V-sync source (`OutstandingBound`), where
  `pacer.h:10` counts five;
* a late SDL_QUIT of a finished session can be read by the GUI's gamepad poller
  (`sdlgamepadkeynavigation.cpp:121`);
* a microphone toggle asked for during a reconnect is cleared with the one of the
  reconnect itself (`session.cpp:3813`);
* the text of a burst is applied with its image, not as it arrives
  (`clipboardsync.h:53`);
* macOS coalesces changes, so one poll can take the user's copy for a self-write;
* a start from the backup array does not restore the primary one, and a second
  crash at the beginning of the next flush loses every host
  (`computermanager.cpp:172`; `CrashKeepsHosts` excepts this time);
* a host's value that changes and changes back during a flush may be stored as it
  was in between (`IdleIsSaved` excepts these values);
* a protocol error in the last output of a clipboard helper that has exited deletes
  the process object whose exit code is then asked for
  (`clipboardhelperclient.cpp:159`; mode `crashed` of `ClipboardHelper`);
* a peer's close of a USB tunnel is reported by `errorOccurred` before `disconnected`, so
  the "empty" message of "a clean stop" (`usbforwardingtunnel.h`) is not seen for one.

## 6. Not modelled

Codec selection, drivers and rendering, layout and drawing, input translation,
audio processing, settings, translations, installers: sequential code, pure
input/output, or state owned by libraries.  The bitrate worker and the overlay's
menus are left out of `Session`; the tasks that pair and quit, wake-on-LAN and what
a poll writes into a host out of `Polling`; the enumeration and binding of devices,
the probes of the platform and the inside of the local server's process out of
`UsbTunnel`.  Time is abstracted to what may happen before
a timeout.  Data races on plain flags are modelled as sequentially consistent
except where a finding is about them; m_KnownHosts being read without its lock is
one step of `HostStore`.

The `.ts` files of `app/languages` are Qt Linguist translations, XML without
behaviour; the program is C++ with QML, and all that is mapped is in it.

## 7. Plan

Done: `Pacer`, `Session`, `SessionHandover`, `ClipboardSync`, `HostStore`,
`ClipboardHelper`, `Polling`, `UsbTunnel`, `FramePipe`, `ActiveSession`, `FrameRelay`, with the theorems above.

What is left, in this order:

1. The pair and quit tasks of `Polling`, with what ends a quit.
2. `DecoderReset`: the decoder lock, resets from any thread, flushed window events.
3. `CliLaunch`: the four launchers as state machines over the events of `Polling`.
4. File mapping: the web socket, its reconnects, requests under way.
5. The wake-up state of the overlays (`OverlayWake`).
6. Refinement of `UsbTunnel`'s streams by two reliable channels.
