------------------------------- MODULE UsbTunnel -------------------------------
(***************************************************************************)
(* USB forwarding: the session asks the host for the tunnel's port and     *)
(* token on a worker thread (src/app/streaming/session.cpp), starts a      *)
(* server for the device where the platform has none                       *)
(* (src/app/backend/usbforwardinglocalserver.cpp), and a tunnel then       *)
(* copies bytes between that server and the host                           *)
(* (src/app/backend/usbforwardingtunnel.cpp).  All but the worker runs on  *)
(* the session's main thread, whose loop delivers Qt's events only while   *)
(* something needs them.                                                   *)
(*                                                                         *)
(* A unit of a stream stands for a chunk of 64 KiB; the data of each side  *)
(* is numbered.  The host's line is some parts and then ready or error.    *)
(* Arrival of data and readyRead() are one action, and so are the writing  *)
(* of data and bytesWritten(); QSslSocket counts as written what it has    *)
(* encrypted.  Whether the tunnel ends with a message is left out.         *)
(***************************************************************************)
EXTENDS Integers, Sequences

CONSTANTS Devices, None,
          HighWater,        \* kHighWaterMark
          MaxLine,          \* kMaxHandshakeBytes
          MaxData,          \* bound: data of each side in one tunnel
          MaxGenerations    \* bound: requests and reconnects

ASSUME UsbAssumption ==
    /\ None \notin Devices
    /\ HighWater \in Nat \ {0} /\ MaxLine \in Nat
    /\ MaxData \in Nat /\ MaxGenerations \in Nat

VARIABLES
    spawns,     \* UsbForwardingLocalServer::spawnSupported(): macOS
    stream,     \* the session's loop runs
    enabled,    \* usbForwardingEnabled
    menu,       \* m_RemoteUsbState
    active,     \* m_RemoteUsbActiveDeviceId
    pending,    \* m_UsbCapabilityPending
    generation, \* m_UsbCapabilityGeneration
    workers,    \* requests under way: <<generation, device>>
    server,     \* m_UsbLocalServer exists
    tunnel,     \* the device of m_UsbTunnel; None: there is none
    local,      \* m_Local is connected
    verified,   \* m_PeerVerified
    done,       \* m_HandshakeDone
    timer,      \* m_StartupTimer runs
    buffer,     \* m_HandshakeBuffer
    inRemote,   \* read buffer of m_Remote
    toLocal,    \* write queue of m_Local
    atServer,   \* what the local server was sent
    inLocal,    \* read buffer of m_Local
    toHost,     \* write queue of m_Remote
    atHost,     \* what was encrypted for the host
    said, sent  \* data that the host and the local server have sent

capability == <<pending, generation, workers>>
state      == <<menu, active>>
socket     == <<tunnel, local, verified, done, timer>>
fromHost   == <<buffer, inRemote, toLocal, atServer, said>>
fromLocal  == <<inLocal, toHost, atHost, sent>>
world      == <<spawns, stream, enabled>>
vars == <<world, state, capability, server, socket, fromHost, fromLocal>>

Forward == 0
Part  == -1
Error == -2
Ready == 0

Init ==
    /\ spawns \in BOOLEAN /\ stream = TRUE /\ enabled \in BOOLEAN
    /\ menu = "unavailable" /\ active = None
    /\ pending = FALSE /\ generation = 0 /\ workers = {}
    /\ server = FALSE /\ tunnel = None
    /\ local = FALSE /\ verified = FALSE /\ done = FALSE /\ timer = FALSE
    /\ buffer = <<>> /\ inRemote = <<>> /\ toLocal = <<>> /\ atServer = <<>> /\ said = 0
    /\ inLocal = <<>> /\ toHost = <<>> /\ atHost = <<>> /\ sent = 0

----------------------------------------------------------------------------
\* The state that the menu shows while nothing is forwarded.

Resting(on) == IF on THEN "available" ELSE "unavailable"
\* "stopping" is shown within stopRemoteUsb() only.
Forwarding == menu \in {"opening", "open"}

\* The tunnel, if there is one, is stopped and deleted with all it holds.
NoTunnel ==
    /\ tunnel' = None
    /\ local' = FALSE /\ verified' = FALSE /\ done' = FALSE /\ timer' = FALSE
    /\ buffer' = <<>> /\ inRemote' = <<>> /\ toLocal' = <<>> /\ atServer' = <<>> /\ said' = 0
    /\ inLocal' = <<>> /\ toHost' = <<>> /\ atHost' = <<>> /\ sent' = 0

\* teardownUsbTunnel().
TeardownUsbTunnel ==
    /\ generation' = generation + 1 /\ pending' = FALSE
    /\ server' = FALSE /\ NoTunnel
    /\ active' = None /\ menu' = Resting(enabled)

\* enumerateRemoteUsb(), when the menu is opened.
EnumerateRemoteUsb ==
    /\ stream /\ enabled /\ ~Forwarding
    /\ menu' = "discovering"
    /\ UNCHANGED <<world, active, capability, server, socket, fromHost, fromLocal>>

\* refreshRemoteUsbDevices(), when the list of devices has changed.
RefreshRemoteUsbDevices ==
    /\ menu' = IF Forwarding THEN menu ELSE Resting(enabled)
    /\ UNCHANGED <<world, active, capability, server, socket, fromHost, fromLocal>>

\* The setting may be changed at any time.
EnablingChanges ==
    /\ enabled' = ~enabled
    /\ UNCHANGED <<spawns, stream, state, capability, server, socket, fromHost, fromLocal>>

----------------------------------------------------------------------------
\* The session: requests, releases, reconnects, the end of the stream.

\* startRemoteUsb(): a worker asks for the port and the token.
StartRemoteUsb(d) ==
    /\ stream /\ enabled /\ tunnel = None /\ ~pending
    /\ generation < MaxGenerations
    /\ generation' = generation + 1 /\ pending' = TRUE
    /\ workers' = workers \cup {<<generation', d>>}
    /\ active' = d /\ menu' = "opening"
    /\ UNCHANGED <<world, server, socket, fromHost, fromLocal>>

\* stopRemoteUsb().
StopRemoteUsb ==
    /\ stream /\ (tunnel # None \/ pending)
    /\ TeardownUsbTunnel
    /\ UNCHANGED <<world, workers>>

\* tryReconnect() begins with it.
TryReconnect ==
    /\ stream /\ generation < MaxGenerations
    /\ TeardownUsbTunnel
    /\ UNCHANGED <<world, workers>>

\* exec() ends with it.
EndStream ==
    /\ stream /\ stream' = FALSE
    /\ TeardownUsbTunnel
    /\ UNCHANGED <<spawns, enabled, workers>>

\* startConfiguredRemoteUsb() and Tunnel::start().
StartTunnel(d) ==
    /\ server' = spawns
    /\ tunnel' = d /\ timer' = TRUE
    /\ UNCHANGED <<state, generation, local, verified, done, fromHost, fromLocal>>

\* Mutant: any answer will do.
MutIsCurrent(g) == TRUE
\* An answer to a request that was given up is dropped.
IsCurrent(g) == g = generation

\* A worker has finished.  The service is available and the local server and the
\* tunnel can be started (which blocks the main thread), or not.
CapabilityKnown(g, d) ==
    /\ workers' = workers \ {<<g, d>>}
    /\ IF ~IsCurrent(g)
       THEN UNCHANGED <<state, pending, generation, server, socket, fromHost, fromLocal>>
       ELSE \/ enabled /\ pending' = FALSE /\ StartTunnel(d)
            \/ TeardownUsbTunnel
    /\ UNCHANGED world

WorkerFinishes == \E w \in workers : CapabilityKnown(w[1], w[2])

----------------------------------------------------------------------------
\* The byte pumps.

\* Mutant: one chunk over the mark.
MutRoom(q) == HighWater + 1 - Len(q)
Room(q) == HighWater - Len(q)

Moved(from, q) == SubSeq(from, 1, IF Len(from) < Room(q) THEN Len(from) ELSE Room(q))
Left(from, q)  == SubSeq(from, Len(Moved(from, q)) + 1, Len(from))

\* handleLocalReadyRead(): local data is held until the handshake is done.
PumpToHost(ready, in, out) ==
    IF ready THEN inLocal' = Left(in, out) /\ toHost' = out \o Moved(in, out)
             ELSE inLocal' = in /\ toHost' = out

\* Mutant: what the local server has queued is not drained.
MutDrains(buf, out) == FALSE
Drains(buf, out) == buf = <<>> /\ Room(out) > 0

\* The second half of handleRemoteReadyRead(): the rest of the handshake first.
PumpToLocal(buf, in, out) ==
    LET all == buf \o in
        written == Len(Moved(all, out))
    IN  /\ buffer' = SubSeq(buf, written + 1, Len(buf))
        /\ inRemote' = IF written < Len(buf) THEN in
                       ELSE SubSeq(in, written - Len(buf) + 1, Len(in))
        /\ toLocal' = out \o Moved(all, out)
        /\ PumpToHost(Drains(buffer', toLocal'), inLocal, toHost)

\* The index of the line's end in the host's stream; 0: it is still to come.
EndsAt(s, i) == s[i] \in {Ready, Error} /\ \A j \in 1..(i - 1) : s[j] \notin {Ready, Error}
LineEnd(s) == IF \E i \in DOMAIN s : EndsAt(s, i)
              THEN CHOOSE i \in DOMAIN s : EndsAt(s, i)
              ELSE 0
TooLong(s) == (IF LineEnd(s) = 0 THEN Len(s) ELSE LineEnd(s) - 1) > MaxLine

\* Mutant: what follows the line is dropped.
MutResidual(s) == <<>>
Residual(s) == SubSeq(s, LineEnd(s) + 1, Len(s))

Refused(s) == TooLong(s) \/ (LineEnd(s) # 0 /\ s[LineEnd(s)] = Error)

\* handleRemoteReadyRead(), with what m_Remote has and m_Local has still to write.
HandleRemoteReadyRead(in, out) ==
    LET line == buffer \o in
        listening == verified /\ local'
    IN  /\ local' \in BOOLEAN
        /\ \/ /\ ~listening
              /\ inRemote' = in /\ toLocal' = out
              /\ UNCHANGED <<buffer, inLocal, toHost, done, timer, menu>>
           \/ /\ listening /\ done
              /\ PumpToLocal(buffer, in, out)
              /\ UNCHANGED <<done, timer, menu>>
           \/ /\ listening /\ ~done /\ LineEnd(line) = 0
              /\ buffer' = line /\ inRemote' = <<>> /\ toLocal' = out
              /\ UNCHANGED <<inLocal, toHost, done, timer, menu>>
           \/ /\ listening /\ ~done /\ LineEnd(line) # 0
              /\ done' = TRUE /\ timer' = FALSE /\ menu' = "open"
              /\ PumpToLocal(Residual(line), <<>>, out)
    /\ UNCHANGED <<world, active, capability, server, tunnel, verified, atHost, sent>>

----------------------------------------------------------------------------
\* A socket fails or is closed by its peer, the certificate is another: failWith() or
\* finishCleanly() stops the tunnel, and the session tears it down.
TunnelFinishes ==
    /\ tunnel # None
    /\ TeardownUsbTunnel
    /\ UNCHANGED <<world, workers>>

\* What the host has sent is no "ready" line.
Rejected(connected, in) == verified /\ connected /\ ~done /\ Refused(buffer \o in)

\* connected() of m_Local.
LocalConnects ==
    /\ tunnel # None /\ ~local
    /\ IF Rejected(TRUE, inRemote) THEN TunnelFinishes
       ELSE /\ local' = TRUE
            /\ HandleRemoteReadyRead(inRemote, toLocal)
            /\ UNCHANGED <<atServer, said>>

\* encrypted() of m_Remote, with the pinned certificate: the request is written.
RemoteEncrypted ==
    /\ tunnel # None /\ ~verified /\ verified' = TRUE
    /\ toHost' = <<Forward>>
    /\ UNCHANGED <<world, state, capability, server, tunnel, local, done, timer, fromHost,
                   inLocal, atHost, sent>>

\* The host answers the request, and its USB/IP client follows.
HostMaySend(u) ==
    LET answered == done \/ LineEnd(buffer \o inRemote) # 0 IN
    \/ ~answered /\ u \in {Part, Ready, Error}
    \/ answered /\ u = said + 1 /\ u <= MaxData

\* readyRead() of m_Remote, whose read buffer is bounded.
HostSends(u) ==
    /\ atHost # <<>> /\ HostMaySend(u) /\ Len(inRemote) < HighWater
    /\ LET in == Append(inRemote, u)
       IN  IF Rejected(local, in) THEN TunnelFinishes
           ELSE /\ local' = local
                /\ HandleRemoteReadyRead(in, toLocal)
                /\ said' = IF u > 0 THEN u ELSE said
                /\ UNCHANGED atServer

\* bytesWritten() of m_Local.
LocalWritten ==
    /\ toLocal # <<>>
    /\ atServer' = Append(atServer, Head(toLocal))
    /\ local' = local
    /\ HandleRemoteReadyRead(inRemote, Tail(toLocal))
    /\ UNCHANGED said

\* readyRead() of m_Local, whose read buffer is bounded.
ServerSends ==
    /\ local /\ sent < MaxData /\ Len(inLocal) < HighWater
    /\ sent' = sent + 1
    /\ PumpToHost(done, Append(inLocal, sent'), toHost)
    /\ UNCHANGED <<world, state, capability, server, socket, fromHost, atHost>>

\* bytesWritten() of m_Remote.
RemoteWritten ==
    /\ toHost # <<>>
    /\ atHost' = Append(atHost, Head(toHost))
    /\ PumpToHost(done, inLocal, Tail(toHost))
    /\ UNCHANGED <<world, state, capability, server, socket, fromHost, sent>>

\* The tunnel is not ready in time.
StartupTimeout == timer /\ TunnelFinishes

----------------------------------------------------------------------------
Next ==
    \/ EnumerateRemoteUsb \/ RefreshRemoteUsbDevices \/ EnablingChanges
    \/ \E d \in Devices : StartRemoteUsb(d)
    \/ StopRemoteUsb \/ TryReconnect \/ EndStream \/ WorkerFinishes
    \/ LocalConnects \/ RemoteEncrypted
    \/ \E u \in {Part, Ready, Error} \cup 1..MaxData : HostSends(u)
    \/ LocalWritten \/ ServerSends \/ RemoteWritten
    \/ StartupTimeout \/ TunnelFinishes

Spec == Init /\ [][Next]_vars

\* Mutant: a pending request is not a reason to look for Qt's events.
MutNeedsEvents == server \/ tunnel # None \/ ~stream
\* The main thread looks for Qt's events while USB forwarding needs it to, and in Qt's
\* own loop after the stream.
NeedsEvents == pending \/ server \/ tunnel # None \/ ~stream

\* The worker's request ends, by its timeout if need be; timers fire and sockets write
\* while the main thread looks for events.  The host, the user, the local server
\* and the connections owe nothing.
Fairness ==
    /\ WF_vars(NeedsEvents /\ WorkerFinishes)
    /\ WF_vars(NeedsEvents /\ StartupTimeout)
    /\ WF_vars(NeedsEvents /\ LocalWritten)
    /\ WF_vars(NeedsEvents /\ RemoteWritten)

FairSpec == Spec /\ Fairness

----------------------------------------------------------------------------
Unit == {Part, Error, Ready} \cup 1..MaxData

\* Every variable keeps its type, and no queue holds more than the mark; what was read
\* with the handshake is the line and no more than one read buffer.
\* ("Residual bytes ... so kHighWaterMark always applies.")
TypeOK ==
    /\ spawns \in BOOLEAN /\ stream \in BOOLEAN /\ enabled \in BOOLEAN
    /\ menu \in {"unavailable", "available", "discovering", "opening", "open"}
    /\ active \in Devices \cup {None} /\ tunnel \in Devices \cup {None}
    /\ pending \in BOOLEAN /\ generation \in Nat /\ workers \subseteq Nat \X Devices
    /\ server \in BOOLEAN /\ local \in BOOLEAN /\ verified \in BOOLEAN
    /\ done \in BOOLEAN /\ timer \in BOOLEAN
    /\ buffer \in Seq(Unit) /\ Len(buffer) <= MaxLine + HighWater
    /\ inRemote \in Seq(Unit) /\ Len(inRemote) <= HighWater
    /\ toLocal \in Seq(Unit) /\ Len(toLocal) <= HighWater
    /\ inLocal \in Seq(Unit) /\ Len(inLocal) <= HighWater
    /\ toHost \in Seq(Unit) /\ Len(toHost) <= HighWater
    /\ atServer \in Seq(Unit) /\ atHost \in Seq(Unit)
    /\ said \in 0..MaxData /\ sent \in 0..MaxData

Upto(n) == [i \in 1..n |-> i]
\* What follows the line in what m_Remote has brought.
Data(s) == IF done THEN s ELSE IF LineEnd(s) = 0 THEN <<>> ELSE SubSeq(s, LineEnd(s) + 1, Len(s))

\* Neither side loses, repeats or reorders a byte of the other, the handshake is not
\* forwarded, and what was read with it is ("Bytes read beyond the handshake must
\* still be forwarded", docs/remote-usb-reverse-tunnel.md).  Until the tunnel is
\* ready the host gets nothing but the request.
StreamsIntact ==
    /\ atServer \o toLocal \o Data(buffer \o inRemote) = Upto(said)
    /\ atHost \o toHost \o inLocal = (IF verified THEN <<Forward>> ELSE <<>>) \o Upto(sent)
    /\ ~done => Len(atServer \o toLocal) = 0 /\ Len(atHost \o toHost) <= 1

\* A device is shared only while it is the one the user has selected and neither
\* released nor lost with its stream: no late answer starts it again
\* ("An outstanding credential request must not restart sharing after
\* cancellation", docs/remote-usb-reverse-tunnel.md), no local server is left
\* behind, and the menu says so.
SharedOnlyWhileAsked ==
    /\ tunnel # None => tunnel = active
    /\ server <=> (spawns /\ tunnel # None)
    /\ active # None <=> pending \/ tunnel # None
    /\ pending => tunnel = None
    /\ menu = "open" <=> tunnel # None /\ done
    /\ menu = "opening" <=> active # None /\ ~done
    /\ ~stream => tunnel = None /\ ~pending

\* While the menu says that a device is being opened, something will make it say
\* otherwise: a worker whose answer counts, or the timer of a tunnel.  No request is
\* given up, and no tunnel started or made ready, without menu and timer following.
OpeningIsWaitedFor ==
    menu = "opening" => (\E w \in workers : IsCurrent(w[1])) \/ timer

\* Once the tunnel is ready, what a pump has left in a read buffer is behind a full
\* write queue, whose next bytesWritten() calls the pump again: no pump sleeps over
\* data, though the local server's data may have come before the handshake was done.
NoPumpSleeps ==
    done =>
        /\ buffer # <<>> \/ inRemote # <<>> => Len(toLocal) >= HighWater
        /\ inLocal # <<>> => Len(toHost) >= HighWater \/ Len(toLocal) >= HighWater

\* A selected device is forwarded, or the menu offers it again: the host's answer, the
\* connections and the handshake are waited for, but not for ever.
OpeningEnds == menu = "opening" ~> menu # "opening"

\* What a side has sent is passed on while the tunnel lasts: a pump that has paused at
\* the mark, or before the tunnel was ready, goes on.
TrafficMoves ==
    \A n \in 1..MaxData :
        /\ said >= n ~> Len(atServer) >= n \/ tunnel = None
        /\ sent >= n ~> Len(atHost) > n \/ tunnel = None
=============================================================================
