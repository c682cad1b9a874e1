---------------------------- MODULE UsbTunnelProofs ----------------------------
(***************************************************************************)
(* Proofs about UsbTunnel: what is shared is what the user has selected,   *)
(* the pumps keep both streams whole, and every queue respects the mark.   *)
(* SharedInv is about the session's state and is inductive by itself;      *)
(* TunnelInv adds the queues and the streams.                              *)
(***************************************************************************)
EXTENDS UsbTunnel, SequenceTheorems, TLAPS

----------------------------------------------------------------------------
\* Sequences.

\* A sequence is what precedes a point and what follows it.
LEMMA SplitAt ==
    ASSUME NEW S, NEW s \in Seq(S), NEW n \in 0..Len(s)
    PROVE  /\ SubSeq(s, 1, n) \in Seq(S) /\ Len(SubSeq(s, 1, n)) = n
           /\ SubSeq(s, n + 1, Len(s)) \in Seq(S)
           /\ Len(SubSeq(s, n + 1, Len(s))) = Len(s) - n
           /\ SubSeq(s, 1, n) \o SubSeq(s, n + 1, Len(s)) = s
<1>1. Len(s) \in Nat /\ \A i \in 1..Len(s) : s[i] \in S
  BY LenProperties, ElementOfSeq
<1>2. SubSeq(s, 1, n) \in Seq(S) /\ Len(SubSeq(s, 1, n)) = n
  <2>1. \A i \in 1..n : s[i] \in S
    BY <1>1
  <2> QED BY <1>1, <2>1, SubSeqProperties
<1>3. /\ SubSeq(s, n + 1, Len(s)) \in Seq(S)
      /\ Len(SubSeq(s, n + 1, Len(s))) = Len(s) - n
  <2>1. \A i \in n + 1..Len(s) : s[i] \in S
    BY <1>1
  <2> QED BY <1>1, <2>1, SubSeqProperties
<1>4. SubSeq(s, 1, n) \o SubSeq(s, n + 1, Len(s)) = SubSeq(s, 1, Len(s))
  <2>1. 1 \in 1..Len(s) + 1 /\ n \in 1 - 1..Len(s) /\ Len(s) \in n..Len(s)
    BY <1>1
  <2> QED BY <2>1, ConcatAdjacentSubSeq
<1>5. SubSeq(s, 1, Len(s)) = s
  BY SubSeqFull
<1>6. SubSeq(s, 1, n) \o SubSeq(s, n + 1, Len(s)) = s
  BY <1>4, <1>5, Zenon
<1> QED BY <1>2, <1>3, <1>6, Zenon

LEMMA ConcatFacts ==
    ASSUME NEW S, NEW a \in Seq(S), NEW b \in Seq(S)
    PROVE  a \o b \in Seq(S) /\ Len(a \o b) = Len(a) + Len(b)
  BY ConcatProperties

\* What follows a point in a concatenation, as parts of its halves.
LEMMA SplitConcat ==
    ASSUME NEW S, NEW a \in Seq(S), NEW b \in Seq(S), NEW n \in 0..(Len(a) + Len(b))
    PROVE  LET x == SubSeq(a, n + 1, Len(a))
               y == IF n < Len(a) THEN b ELSE SubSeq(b, n - Len(a) + 1, Len(b))
           IN  /\ x \in Seq(S) /\ y \in Seq(S)
               /\ Len(x) <= Len(a) /\ Len(y) <= Len(b)
               /\ SubSeq(a \o b, n + 1, Len(a \o b)) = x \o y
<1> DEFINE Y == IF n < Len(a) THEN b ELSE SubSeq(b, n - Len(a) + 1, Len(b))
<1> SUFFICES LET x == SubSeq(a, n + 1, Len(a)) IN
             /\ x \in Seq(S) /\ Y \in Seq(S) /\ Len(x) <= Len(a) /\ Len(Y) <= Len(b)
             /\ SubSeq(a \o b, n + 1, Len(a \o b)) = x \o Y
  OBVIOUS
<1>1. Len(a) \in Nat /\ Len(b) \in Nat /\ a \o b \in Seq(S) /\ Len(a \o b) = Len(a) + Len(b)
  BY LenProperties, ConcatFacts
<1>2. CASE n < Len(a)
  <2> DEFINE x == SubSeq(a, n + 1, Len(a))
             r == SubSeq(a \o b, n + 1, Len(a \o b))
  <2>1. n \in 0..Len(a) /\ n \in 0..Len(a \o b)
    BY <1>1, <1>2
  <2>2. x \in Seq(S) /\ Len(x) = Len(a) - n
    BY <2>1, SplitAt
  <2>3. r \in Seq(S) /\ Len(r) = Len(a \o b) - n
    BY <1>1, <2>1, SplitAt
  <2>4. x \o b \in Seq(S) /\ Len(x \o b) = Len(x) + Len(b)
    BY <2>2, ConcatFacts
  <2>5. \A i \in 1..Len(r) : r[i] = (x \o b)[i]
    <3> SUFFICES ASSUME NEW i \in 1..Len(r) PROVE r[i] = (x \o b)[i]
      OBVIOUS
    <3>1. r[i] = (a \o b)[n + i]
      BY <1>1, <2>3
    <3>2. (a \o b)[n + i] = IF n + i <= Len(a) THEN a[n + i] ELSE b[n + i - Len(a)]
      BY <1>1, <1>2, <2>3, ConcatProperties
    <3>3. (x \o b)[i] = IF i <= Len(x) THEN x[i] ELSE b[i - Len(x)]
      BY <1>1, <2>2, <2>3, ConcatProperties
    <3>4. i <= Len(x) => x[i] = a[n + i]
      BY <1>1, <1>2, <2>2, <2>3
    <3>5. n + i - Len(a) = i - Len(x) /\ (n + i <= Len(a) <=> i <= Len(x))
      <4> HIDE DEF x, r
      <4> QED BY <1>1, <2>1, <2>2, <2>3
    <3> QED BY <3>1, <3>2, <3>3, <3>4, <3>5
  <2>6. Len(r) = Len(x \o b)
    <3> HIDE DEF x, r
    <3> QED BY <1>1, <2>1, <2>2, <2>3, <2>4
  <2>7. r = x \o b
    <3> HIDE DEF x, r
    <3> QED BY <2>3, <2>4, <2>5, <2>6, SeqEqual
  <2>8. Len(x) <= Len(a)
    BY <1>1, <2>1, <2>2
  <2>9. Y = b /\ Len(b) <= Len(b)
    BY <1>1, <1>2
  <2> HIDE DEF Y
  <2> QED BY <2>2, <2>7, <2>8, <2>9
<1>3. CASE Len(a) <= n
  <2> DEFINE m == n - Len(a)
             y == SubSeq(b, m + 1, Len(b))
             r == SubSeq(a \o b, n + 1, Len(a \o b))
  <2>1. m \in 0..Len(b) /\ n \in 0..Len(a \o b)
    BY <1>1, <1>3
  <2>2. y \in Seq(S) /\ Len(y) = Len(b) - m
    BY <2>1, SplitAt
  <2>3. r \in Seq(S) /\ Len(r) = Len(a \o b) - n
    BY <1>1, <2>1, SplitAt
  <2>4. SubSeq(a, n + 1, Len(a)) = <<>>
    BY <1>1, <1>3, SubSeqEmpty
  <2>5. \A i \in 1..Len(r) : r[i] = y[i]
    <3> SUFFICES ASSUME NEW i \in 1..Len(r) PROVE r[i] = y[i]
      OBVIOUS
    <3>1. r[i] = (a \o b)[n + i]
      BY <1>1, <2>3
    <3>2. (a \o b)[n + i] = b[n + i - Len(a)]
      BY <1>1, <1>3, <2>3, ConcatProperties
    <3>3. y[i] = b[m + i]
      <4>1. \A j \in m + 1..Len(b) : b[j] \in S
        BY <1>1, <2>1, ElementOfSeq
      <4>2. \A j \in 1..Len(b) - (m + 1) + 1 : y[j] = b[(m + 1) + j - 1]
        BY <1>1, <2>1, <4>1, SubSeqProperties
      <4>3. i \in 1..Len(b) - (m + 1) + 1 /\ (m + 1) + i - 1 = m + i
        <5> HIDE DEF r
        <5> QED BY <1>1, <1>3, <2>1, <2>3
      <4> HIDE DEF y, m
      <4> QED BY <4>2, <4>3
    <3> QED BY <1>1, <2>1, <2>3, <3>1, <3>2, <3>3
  <2>6. r = y
    <3>1. Len(r) = Len(y)
      BY <1>1, <2>1, <2>2, <2>3
    <3> HIDE DEF y, r
    <3> QED BY <2>2, <2>3, <2>5, <3>1, SeqEqual
  <2>7. <<>> \o y = y /\ <<>> \in Seq(S) /\ Len(<<>>) = 0
    BY <2>2, ConcatEmptySeq, EmptySeq
  <2>8. Len(y) <= Len(b)
    BY <1>1, <2>1, <2>2
  <2>9. Y = y /\ Len(<<>>) <= Len(a)
    BY <1>1, <1>3, <2>7
  <2> HIDE DEF Y, y
  <2> QED BY <2>2, <2>4, <2>6, <2>7, <2>8, <2>9
<1>4. n < Len(a) \/ Len(a) <= n
  BY <1>1
<1> QED BY <1>2, <1>3, <1>4

LEMMA UptoFacts ==
    ASSUME NEW n \in Nat
    PROVE  Upto(n) \in Seq(Nat) /\ Len(Upto(n)) = n /\ Upto(n + 1) = Upto(n) \o <<n + 1>>
  BY DEF Upto

LEMMA MoveFacts ==
    ASSUME NEW S, NEW f \in Seq(S), NEW q \in Seq(S), Len(q) <= HighWater
    PROVE  /\ Moved(f, q) \in Seq(S) /\ Left(f, q) \in Seq(S)
           /\ Moved(f, q) \o Left(f, q) = f
           /\ Len(Moved(f, q)) + Len(q) <= HighWater
           /\ Len(Moved(f, q)) \in 0..Len(f)
           /\ Moved(f, q) = SubSeq(f, 1, Len(Moved(f, q)))
           /\ Left(f, q) = SubSeq(f, Len(Moved(f, q)) + 1, Len(f))
           /\ Len(Left(f, q)) <= Len(f)
<1> DEFINE n == IF Len(f) < Room(q) THEN Len(f) ELSE Room(q)
<1>1. Len(f) \in Nat /\ Len(q) \in Nat /\ HighWater \in Nat
  BY LenProperties, UsbAssumption DEF UsbAssumption
<1>2. n \in 0..Len(f) /\ n + Len(q) <= HighWater
  BY <1>1 DEF Room
<1>3. Moved(f, q) = SubSeq(f, 1, n)
  BY DEF Moved
<1> HIDE DEF n
<1>4. Moved(f, q) \in Seq(S) /\ Len(Moved(f, q)) = n
  BY <1>2, <1>3, SplitAt
<1>5. Left(f, q) = SubSeq(f, n + 1, Len(f))
  BY <1>4 DEF Left
<1>6. /\ Left(f, q) \in Seq(S) /\ Len(Left(f, q)) = Len(f) - n
      /\ Moved(f, q) \o Left(f, q) = f
  <2>1. /\ SubSeq(f, n + 1, Len(f)) \in Seq(S)
        /\ Len(SubSeq(f, n + 1, Len(f))) = Len(f) - n
        /\ SubSeq(f, 1, n) \o SubSeq(f, n + 1, Len(f)) = f
    BY <1>2, SplitAt
  <2> QED BY <1>3, <1>5, <2>1, Zenon
<1>7. Len(Left(f, q)) <= Len(f)
  BY <1>1, <1>2, <1>6
<1>8. /\ Len(Moved(f, q)) + Len(q) <= HighWater /\ Len(Moved(f, q)) \in 0..Len(f)
      /\ Moved(f, q) = SubSeq(f, 1, Len(Moved(f, q)))
      /\ Left(f, q) = SubSeq(f, Len(Moved(f, q)) + 1, Len(f))
  BY <1>2, <1>3, <1>4, <1>5, Zenon
<1> QED BY <1>4, <1>6, <1>7, <1>8, Zenon

----------------------------------------------------------------------------
\* What is shared.

\* Types of the session's and of the sockets' state.
SessionTypes ==
    /\ spawns \in BOOLEAN /\ stream \in BOOLEAN /\ enabled \in BOOLEAN
    /\ menu \in {"unavailable", "available", "discovering", "opening", "open"}
    /\ active \in Devices \cup {None} /\ tunnel \in Devices \cup {None}
    /\ pending \in BOOLEAN /\ generation \in Nat /\ workers \subseteq Nat \X Devices
    /\ server \in BOOLEAN

SocketTypes ==
    /\ local \in BOOLEAN /\ verified \in BOOLEAN
    /\ done \in BOOLEAN /\ timer \in BOOLEAN

\* A request is the last one only while it is pending, for the selected device.
WorkersInv ==
    \A w \in workers : /\ w[1] <= generation
                       /\ w[1] = generation => pending /\ w[2] = active

\* There is no handshake without a tunnel, and none is done without both sockets.
HandshakeInv ==
    /\ tunnel = None => ~local /\ ~verified /\ ~done /\ ~timer
    /\ done => verified /\ local

SharedInv == SessionTypes /\ SocketTypes /\ WorkersInv /\ HandshakeInv /\ SharedOnlyWhileAsked

LEMMA NoneIsNoDevice == None \notin Devices
  BY UsbAssumption DEF UsbAssumption

LEMMA RestingIsNoForwarding ==
    ASSUME NEW on PROVE Resting(on) \in {"unavailable", "available"}
  BY DEF Resting

LEMMA SharedInit == Init => SharedInv
<1> SUFFICES ASSUME Init PROVE SharedInv
  OBVIOUS
<1>1. SessionTypes
  BY DEF Init, SessionTypes
<1>2. SocketTypes
  BY DEF Init, SocketTypes
<1>3. WorkersInv /\ HandshakeInv
  BY DEF Init, WorkersInv, HandshakeInv
<1>4. SharedOnlyWhileAsked
  BY DEF Init, SharedOnlyWhileAsked
<1> QED BY <1>1, <1>2, <1>3, <1>4 DEF SharedInv

\* What every teardown leaves.
LEMMA TeardownKeepsShared ==
    ASSUME SharedInv, TeardownUsbTunnel, workers' \subseteq workers,
           spawns' = spawns, enabled' \in BOOLEAN, stream' \in BOOLEAN
    PROVE  SharedInv'
<1>1. /\ generation' = generation + 1 /\ ~pending' /\ ~server' /\ tunnel' = None
      /\ ~local' /\ ~verified' /\ ~done' /\ ~timer'
      /\ active' = None /\ menu' \in {"unavailable", "available"}
  BY RestingIsNoForwarding DEF TeardownUsbTunnel, NoTunnel
<1>2. pending' \in BOOLEAN /\ server' \in BOOLEAN /\ SocketTypes'
  BY DEF TeardownUsbTunnel, NoTunnel, SocketTypes
<1>3. SessionTypes'
  BY <1>1, <1>2 DEF SharedInv, SessionTypes
<1>4. WorkersInv'
  <2> SUFFICES ASSUME NEW w \in workers'
               PROVE  w[1] < generation'
    BY <1>3 DEF WorkersInv, SessionTypes
  <2>1. w \in workers /\ w \in Nat \X Devices /\ generation \in Nat
    BY DEF SharedInv, SessionTypes
  <2>2. w[1] <= generation /\ w[1] \in Nat
    BY <2>1 DEF SharedInv, WorkersInv
  <2> QED BY <1>1, <2>1, <2>2
<1>5. HandshakeInv'
  BY <1>1 DEF HandshakeInv
<1>6. SharedOnlyWhileAsked'
  BY <1>1 DEF SharedOnlyWhileAsked
<1> QED BY <1>2, <1>3, <1>4, <1>5, <1>6 DEF SharedInv

\* What the pumps leave alone.
Kept == <<world, active, capability, server, tunnel>>

\* A step of the sockets: the handshake is done in it, or menu and handshake stay.
LEMMA SocketStepKeepsShared ==
    ASSUME SharedInv, UNCHANGED Kept, SocketTypes', tunnel # None \/ UNCHANGED socket,
           verified => verified', local => local',
           \/ done' = done /\ menu' = menu
           \/ tunnel # None /\ verified' /\ local' /\ done' /\ menu' = "open"
    PROVE  SharedInv'
<1>1. UNCHANGED <<spawns, stream, enabled, active, pending, generation, workers, server, tunnel>>
  BY DEF Kept, world, capability
<1>2. SessionTypes'
  BY <1>1 DEF SharedInv, SessionTypes
<1>3. WorkersInv'
  BY <1>1 DEF SharedInv, WorkersInv
<1>4. HandshakeInv'
  BY <1>1 DEF SharedInv, HandshakeInv, socket
<1>5. SharedOnlyWhileAsked'
  <2>1. CASE done' = done /\ menu' = menu
    BY <1>1, <2>1 DEF SharedInv, SharedOnlyWhileAsked
  <2>2. CASE tunnel # None /\ verified' /\ local' /\ done' /\ menu' = "open"
    BY <1>1, <2>2 DEF SharedInv, SharedOnlyWhileAsked
  <2> QED BY <2>1, <2>2
<1> QED BY <1>2, <1>3, <1>4, <1>5 DEF SharedInv

\* What handleRemoteReadyRead() does to the handshake.
LEMMA HandlerFacts ==
    ASSUME SharedInv, NEW in, NEW out, HandleRemoteReadyRead(in, out)
    PROVE  /\ UNCHANGED Kept /\ verified' = verified
           /\ SocketTypes'
           /\ \/ UNCHANGED <<done, timer, menu>>
              \/ verified /\ local' /\ done' /\ menu' = "open"
<1>1. UNCHANGED Kept /\ UNCHANGED <<verified>> /\ local' \in BOOLEAN
  BY DEF HandleRemoteReadyRead, Kept, capability
<1>2. \/ UNCHANGED <<done, timer, menu>>
      \/ verified /\ local' /\ done' = TRUE /\ timer' = FALSE /\ menu' = "open"
  BY DEF HandleRemoteReadyRead
<1>3. SocketTypes'
  <2>1. local \in BOOLEAN /\ verified \in BOOLEAN /\ done \in BOOLEAN /\ timer \in BOOLEAN
    BY DEF SharedInv, SocketTypes
  <2>2. CASE UNCHANGED <<done, timer, menu>>
    BY <1>1, <2>1, <2>2 DEF SocketTypes
  <2>3. CASE done' = TRUE /\ timer' = FALSE
    BY <1>1, <2>1, <2>3 DEF SocketTypes
  <2> QED BY <1>2, <2>2, <2>3
<1> QED BY <1>1, <1>2, <1>3

LEMMA HandlerKeepsShared ==
    ASSUME SharedInv, NEW in, NEW out, HandleRemoteReadyRead(in, out),
           local => local', tunnel # None \/ local' = local
    PROVE  SharedInv'
<1>1. /\ UNCHANGED Kept /\ verified' = verified /\ SocketTypes'
      /\ \/ UNCHANGED <<done, timer, menu>>
         \/ verified /\ local' /\ done' /\ menu' = "open"
  BY HandlerFacts
<1>2. HandshakeInv
  BY DEF SharedInv
<1>3. UNCHANGED <<tunnel>>
  BY <1>1 DEF Kept
<1>4. tunnel # None \/ UNCHANGED socket
  BY <1>1, <1>2, <1>3 DEF HandshakeInv, socket
<1>5. \/ done' = done /\ menu' = menu
      \/ tunnel # None /\ verified' /\ local' /\ done' /\ menu' = "open"
  BY <1>1, <1>2 DEF HandshakeInv
<1> QED BY <1>1, <1>4, <1>5, SocketStepKeepsShared

\* The menu alone changes.
LEMMA MenuKeepsShared ==
    ASSUME SharedInv, RefreshRemoteUsbDevices \/ EnumerateRemoteUsb
    PROVE  SharedInv'
<1>1. /\ UNCHANGED <<spawns, stream, enabled, active, pending, generation, workers, server, tunnel>>
      /\ UNCHANGED socket
  BY DEF RefreshRemoteUsbDevices, EnumerateRemoteUsb, world, capability, socket
<1>2. \/ menu' = menu
      \/ menu \notin {"opening", "open"} /\ menu' \in {"unavailable", "available", "discovering"}
  BY RestingIsNoForwarding DEF RefreshRemoteUsbDevices, EnumerateRemoteUsb, Forwarding
<1>3. SessionTypes'
  BY <1>1, <1>2 DEF SharedInv, SessionTypes
<1>4. UNCHANGED <<local, verified, done, timer>>
  BY <1>1 DEF socket
<1>5. SocketTypes' /\ WorkersInv' /\ HandshakeInv'
  BY <1>1, <1>4 DEF SharedInv, SocketTypes, WorkersInv, HandshakeInv
<1>6. SharedOnlyWhileAsked'
  BY <1>1, <1>2, <1>4 DEF SharedInv, SharedOnlyWhileAsked
<1> QED BY <1>3, <1>5, <1>6 DEF SharedInv

LEMMA StartKeepsShared ==
    ASSUME SharedInv, NEW d \in Devices, StartRemoteUsb(d)
    PROVE  SharedInv'
<1>1. /\ UNCHANGED <<spawns, stream, enabled, server, tunnel, local, verified, done, timer>>
      /\ generation' = generation + 1 /\ pending' = TRUE /\ active' = d /\ menu' = "opening"
      /\ workers' = workers \cup {<<generation', d>>}
      /\ tunnel = None /\ stream
  BY DEF StartRemoteUsb, world, socket
<1>2. d # None
  BY NoneIsNoDevice
<1>3. SessionTypes'
  BY <1>1 DEF SharedInv, SessionTypes
<1>4. WorkersInv'
  <2> SUFFICES ASSUME NEW w \in workers'
               PROVE  /\ w[1] <= generation'
                      /\ w[1] = generation' => pending' /\ w[2] = active'
    BY DEF WorkersInv
  <2>1. CASE w = <<generation', d>>
    BY <1>1, <1>3, <2>1 DEF SessionTypes
  <2>2. CASE w \in workers
    <3>1. w \in Nat \X Devices /\ generation \in Nat /\ w[1] <= generation
      BY <2>2 DEF SharedInv, SessionTypes, WorkersInv
    <3> QED BY <1>1, <3>1
  <2> QED BY <1>1, <2>1, <2>2
<1>5. SocketTypes' /\ HandshakeInv'
  BY <1>1 DEF SharedInv, SocketTypes, HandshakeInv
<1>6. SharedOnlyWhileAsked'
  BY <1>1, <1>2 DEF SharedInv, SharedOnlyWhileAsked, HandshakeInv
<1> QED BY <1>3, <1>4, <1>5, <1>6 DEF SharedInv

LEMMA WorkerKeepsShared ==
    ASSUME SharedInv, WorkerFinishes
    PROVE  SharedInv'
<1>1. PICK w \in workers : CapabilityKnown(w[1], w[2])
  BY DEF WorkerFinishes
<1>2. w \in Nat \X Devices /\ w = <<w[1], w[2]>> /\ w[2] \in Devices /\ generation \in Nat
  BY DEF SharedInv, SessionTypes
<1>3. /\ workers' = workers \ {<<w[1], w[2]>>} /\ workers' \subseteq workers
      /\ UNCHANGED <<spawns, stream, enabled>>
  BY <1>1 DEF CapabilityKnown, world
<1>4. CASE TeardownUsbTunnel
  BY <1>3, <1>4, TeardownKeepsShared DEF SharedInv, SessionTypes
<1>5. CASE ~IsCurrent(w[1]) /\ UNCHANGED <<state, pending, generation, server, socket>>
  <2>1. /\ UNCHANGED <<menu, active, pending, generation, server, tunnel>>
        /\ UNCHANGED <<local, verified, done, timer>>
    BY <1>5 DEF state, socket
  <2>2. SessionTypes'
    BY <1>3, <2>1 DEF SharedInv, SessionTypes
  <2>3. WorkersInv'
    BY <1>3, <2>1 DEF SharedInv, WorkersInv
  <2>4. SocketTypes' /\ HandshakeInv' /\ SharedOnlyWhileAsked'
    BY <1>3, <2>1 DEF SharedInv, SocketTypes, HandshakeInv, SharedOnlyWhileAsked
  <2> QED BY <2>2, <2>3, <2>4 DEF SharedInv
<1>6. CASE IsCurrent(w[1]) /\ pending' = FALSE /\ StartTunnel(w[2])
  <2>1. /\ UNCHANGED <<menu, active, generation>> /\ UNCHANGED <<local, verified, done>>
        /\ server' = spawns /\ tunnel' = w[2] /\ timer' = TRUE /\ pending' = FALSE
    BY <1>6 DEF StartTunnel, state
  <2>2. w[1] = generation /\ pending /\ w[2] = active
    BY <1>6 DEF IsCurrent, SharedInv, WorkersInv
  <2>3. w[2] # None /\ tunnel = None
    BY <1>2, <2>2, NoneIsNoDevice DEF SharedInv, SharedOnlyWhileAsked
  <2>4. SessionTypes'
    BY <1>2, <1>3, <2>1 DEF SharedInv, SessionTypes
  <2>5. WorkersInv'
    <3> SUFFICES ASSUME NEW v \in workers'
                 PROVE  v[1] <= generation /\ v[1] # generation
      BY <2>1 DEF WorkersInv
    <3>1. v \in workers /\ v # <<w[1], w[2]>>
      BY <1>3
    <3>2. v[1] <= generation /\ (v[1] = generation => v[2] = active)
      BY <3>1 DEF SharedInv, WorkersInv
    <3>3. v = <<v[1], v[2]>>
      BY <3>1 DEF SharedInv, SessionTypes
    <3> QED BY <2>2, <3>1, <3>2, <3>3
  <2>6. SocketTypes'
    BY <2>1 DEF SharedInv, SocketTypes
  <2>7. HandshakeInv'
    BY <2>1, <2>3 DEF SharedInv, HandshakeInv
  <2>8. stream
    BY <2>2 DEF SharedInv, SharedOnlyWhileAsked
  <2>9. SharedOnlyWhileAsked'
    BY <1>3, <2>1, <2>2, <2>3, <2>8 DEF SharedInv, SharedOnlyWhileAsked, HandshakeInv
  <2> QED BY <2>4, <2>5, <2>6, <2>7, <2>9 DEF SharedInv
<1> QED BY <1>1, <1>4, <1>5, <1>6 DEF CapabilityKnown

LEMMA SharedStep == SharedInv /\ [Next]_vars => SharedInv'
<1> SUFFICES ASSUME SharedInv, [Next]_vars PROVE SharedInv'
  OBVIOUS
<1>1. CASE EnumerateRemoteUsb \/ RefreshRemoteUsbDevices
  BY <1>1, MenuKeepsShared
<1>2. CASE EnablingChanges
  <2>1. /\ UNCHANGED <<spawns, stream, menu, active, pending, generation, workers, server, tunnel>>
        /\ UNCHANGED <<local, verified, done, timer>> /\ enabled' \in BOOLEAN
    BY <1>2 DEF EnablingChanges, state, capability, socket
  <2>2. SessionTypes'
    BY <2>1 DEF SharedInv, SessionTypes
  <2>3. SocketTypes' /\ WorkersInv' /\ HandshakeInv' /\ SharedOnlyWhileAsked'
    BY <2>1 DEF SharedInv, SocketTypes, WorkersInv, HandshakeInv, SharedOnlyWhileAsked
  <2> QED BY <2>2, <2>3 DEF SharedInv
<1>3. ASSUME NEW d \in Devices, StartRemoteUsb(d) PROVE SharedInv'
  BY <1>3, StartKeepsShared
<1>4. CASE StopRemoteUsb \/ TryReconnect \/ TunnelFinishes \/ StartupTimeout
  <2>1. TeardownUsbTunnel /\ UNCHANGED <<spawns, stream, enabled, workers>>
    BY <1>4 DEF StopRemoteUsb, TryReconnect, TunnelFinishes, StartupTimeout, world
  <2> QED BY <2>1, TeardownKeepsShared DEF SharedInv, SessionTypes
<1>5. CASE EndStream
  <2>1. TeardownUsbTunnel /\ UNCHANGED <<spawns, enabled, workers>> /\ stream' \in BOOLEAN
    BY <1>5 DEF EndStream
  <2> QED BY <2>1, TeardownKeepsShared DEF SharedInv, SessionTypes
<1>6. CASE WorkerFinishes
  BY <1>6, WorkerKeepsShared
<1>7. CASE LocalConnects
  <2>1. CASE TunnelFinishes
    <3>1. TeardownUsbTunnel /\ UNCHANGED <<spawns, stream, enabled, workers>>
      BY <2>1 DEF TunnelFinishes, world
    <3> QED BY <3>1, TeardownKeepsShared DEF SharedInv, SessionTypes
  <2>2. CASE ~TunnelFinishes
    <3>1. tunnel # None /\ local' = TRUE /\ HandleRemoteReadyRead(inRemote, toLocal)
      BY <1>7, <2>2 DEF LocalConnects
    <3> QED BY <3>1, HandlerKeepsShared
  <2> QED BY <2>1, <2>2
<1>8. CASE RemoteEncrypted
  <2>1. /\ UNCHANGED Kept /\ tunnel # None /\ verified' = TRUE
        /\ UNCHANGED <<local, done, timer, menu>>
    BY <1>8 DEF RemoteEncrypted, Kept, state, capability
  <2>2. SocketTypes'
    BY <2>1 DEF SharedInv, SocketTypes
  <2> QED BY <2>1, <2>2, SocketStepKeepsShared
<1>9. ASSUME NEW u, HostSends(u) PROVE SharedInv'
  <2>1. CASE TunnelFinishes
    <3>1. TeardownUsbTunnel /\ UNCHANGED <<spawns, stream, enabled, workers>>
      BY <2>1 DEF TunnelFinishes, world
    <3> QED BY <3>1, TeardownKeepsShared DEF SharedInv, SessionTypes
  <2>2. CASE ~TunnelFinishes
    <3>1. local' = local /\ HandleRemoteReadyRead(Append(inRemote, u), toLocal)
      BY <1>9, <2>2 DEF HostSends
    <3> QED BY <3>1, HandlerKeepsShared
  <2> QED BY <2>1, <2>2
<1>10. CASE LocalWritten
  <2>1. local' = local /\ HandleRemoteReadyRead(inRemote, Tail(toLocal))
    BY <1>10 DEF LocalWritten
  <2> QED BY <2>1, HandlerKeepsShared
<1>11. CASE ServerSends \/ RemoteWritten \/ UNCHANGED vars
  <2>1. UNCHANGED Kept /\ UNCHANGED socket /\ UNCHANGED <<menu>>
    BY <1>11 DEF ServerSends, RemoteWritten, vars, Kept, state, capability, socket
  <2>2. UNCHANGED <<local, verified, done, timer>> /\ SocketTypes'
    BY <2>1 DEF SharedInv, SocketTypes, socket
  <2> QED BY <2>1, <2>2, SocketStepKeepsShared
<1> QED BY <1>1, <1>2, <1>3, <1>4, <1>5, <1>6, <1>7, <1>8, <1>9, <1>10, <1>11 DEF Next

LEMMA SharedAlways == Spec => []SharedInv
  BY SharedInit, SharedStep, PTL DEF Spec

\* At every time a device is shared only while it is the one that the user has selected:
\* teardownUsbTunnel() counts the generation up, so that the late answer of a worker
\* starts neither a local server nor a tunnel, whatever the order of requests, releases,
\* reconnects and answers.
THEOREM SharedAsAsked == Spec => []SharedOnlyWhileAsked
<1>1. SharedInv => SharedOnlyWhileAsked
  BY DEF SharedInv
<1> QED BY <1>1, SharedAlways, PTL

----------------------------------------------------------------------------
\* The pumps.

LEMMA Associative ==
    ASSUME NEW S, NEW a \in Seq(S), NEW b \in Seq(S), NEW c \in Seq(S)
    PROVE  (a \o b) \o c = a \o (b \o c)
  BY ConcatAssociative

LEMMA UnitStreams ==
    \A a, b, c \in Seq(Unit) : (a \o b) \o c = a \o (b \o c)
  BY Associative

\* What follows the first n elements, whether there are as many or not.
LEMMA DropFacts ==
    ASSUME NEW S, NEW s \in Seq(S), NEW n \in Nat
    PROVE  /\ SubSeq(s, n + 1, Len(s)) \in Seq(S)
           /\ Len(SubSeq(s, n + 1, Len(s))) <= Len(s)
<1>1. Len(s) \in Nat
  BY LenProperties
<1>2. CASE n <= Len(s)
  <2>1. n \in 0..Len(s)
    BY <1>1, <1>2
  <2>2. /\ SubSeq(s, n + 1, Len(s)) \in Seq(S)
        /\ Len(SubSeq(s, n + 1, Len(s))) = Len(s) - n
    BY <2>1, SplitAt
  <2> QED BY <1>1, <2>1, <2>2
<1>3. CASE Len(s) < n
  <2>1. SubSeq(s, n + 1, Len(s)) = <<>>
    BY <1>1, <1>3, SubSeqEmpty
  <2>2. <<>> \in Seq(S) /\ Len(<<>>) = 0
    BY EmptySeq
  <2>3. Len(<<>>) <= Len(s)
    BY <1>1, <2>2
  <2> QED BY <2>1, <2>2, <2>3, Zenon
<1> QED BY <1>1, <1>2, <1>3

\* A queue that respects the mark.
Fits(q) == q \in Seq(Unit) /\ Len(q) <= HighWater

LEMMA PumpToHostFacts ==
    ASSUME NEW ready, NEW in, NEW out, Fits(in), Fits(out), PumpToHost(ready, in, out)
    PROVE  /\ Fits(inLocal') /\ Fits(toHost')
           /\ toHost' \o inLocal' = out \o in
           /\ ~ready => toHost' = out
<1>1. in \in Seq(Unit) /\ out \in Seq(Unit) /\ Len(in) <= HighWater /\ Len(out) <= HighWater
  BY DEF Fits
<1>2. CASE ~ready
  <2>1. inLocal' = in /\ toHost' = out
    BY <1>2 DEF PumpToHost
  <2> QED BY <2>1
<1>3. CASE ready
  <2>1. inLocal' = Left(in, out) /\ toHost' = out \o Moved(in, out)
    BY <1>3 DEF PumpToHost
  <2>2. /\ Moved(in, out) \in Seq(Unit) /\ Left(in, out) \in Seq(Unit)
        /\ Moved(in, out) \o Left(in, out) = in
        /\ Len(Moved(in, out)) + Len(out) <= HighWater
        /\ Len(Left(in, out)) <= Len(in)
    BY <1>1, MoveFacts
  <2>3. /\ out \o Moved(in, out) \in Seq(Unit)
        /\ Len(out \o Moved(in, out)) = Len(out) + Len(Moved(in, out))
    BY <1>1, <2>2, ConcatFacts
  <2>4. (out \o Moved(in, out)) \o Left(in, out) = out \o in
    <3>1. (out \o Moved(in, out)) \o Left(in, out) = out \o (Moved(in, out) \o Left(in, out))
      BY <1>1, <2>2, UnitStreams, Zenon
    <3> QED BY <2>2, <3>1, Zenon
  <2>5. /\ Len(out) \in Nat /\ Len(in) \in Nat /\ Len(Moved(in, out)) \in Nat
        /\ Len(Left(in, out)) \in Nat /\ HighWater \in Nat
    BY <1>1, <2>2, LenProperties, UsbAssumption DEF UsbAssumption
  <2>6. Len(Left(in, out)) <= HighWater /\ Len(out \o Moved(in, out)) <= HighWater
    BY <1>1, <2>2, <2>3, <2>5
  <2>7. Fits(inLocal') /\ Fits(toHost')
    BY <2>1, <2>2, <2>3, <2>6, Zenon DEF Fits
  <2>8. toHost' \o inLocal' = out \o in
    BY <2>1, <2>4, Zenon
  <2> QED BY <1>3, <2>7, <2>8
<1> QED BY <1>2, <1>3

LEMMA PumpToLocalFacts ==
    ASSUME NEW buf \in Seq(Unit), NEW in, NEW out, Fits(in), Fits(out),
           Fits(inLocal), Fits(toHost), PumpToLocal(buf, in, out)
    PROVE  /\ buffer' \in Seq(Unit) /\ Len(buffer') <= Len(buf)
           /\ Fits(inRemote') /\ Fits(toLocal') /\ Fits(inLocal') /\ Fits(toHost')
           /\ toLocal' \o (buffer' \o inRemote') = out \o (buf \o in)
           /\ toHost' \o inLocal' = toHost \o inLocal
<1> DEFINE all == buf \o in
           written == Len(Moved(all, out))
<1>1. in \in Seq(Unit) /\ out \in Seq(Unit) /\ Len(in) <= HighWater /\ Len(out) <= HighWater
  BY DEF Fits
<1>2. /\ buffer' = SubSeq(buf, written + 1, Len(buf))
      /\ inRemote' = IF written < Len(buf) THEN in
                     ELSE SubSeq(in, written - Len(buf) + 1, Len(in))
      /\ toLocal' = out \o Moved(all, out)
      /\ PumpToHost(Drains(buffer', toLocal'), inLocal, toHost)
  BY DEF PumpToLocal
<1>3. all \in Seq(Unit) /\ Len(all) = Len(buf) + Len(in)
  BY <1>1, ConcatFacts
<1> HIDE DEF all
<1>4. /\ Moved(all, out) \in Seq(Unit) /\ Left(all, out) \in Seq(Unit)
      /\ Moved(all, out) \o Left(all, out) = all
      /\ written + Len(out) <= HighWater
      /\ written \in 0..Len(all)
      /\ Left(all, out) = SubSeq(all, written + 1, Len(all))
  BY <1>1, <1>3, MoveFacts
<1> HIDE DEF written
<1>5. written \in 0..(Len(buf) + Len(in))
  BY <1>3, <1>4
<1>6. /\ buffer' \in Seq(Unit) /\ inRemote' \in Seq(Unit)
      /\ Len(buffer') <= Len(buf) /\ Len(inRemote') <= Len(in)
      /\ SubSeq(buf \o in, written + 1, Len(buf \o in)) = buffer' \o inRemote'
  BY <1>1, <1>2, <1>5, SplitConcat
<1>7. buffer' \o inRemote' = Left(all, out)
  BY <1>4, <1>6 DEF all
<1>8. toLocal' \in Seq(Unit) /\ Len(toLocal') = Len(out) + written
  BY <1>1, <1>2, <1>4, ConcatFacts DEF written
<1>9. toLocal' \o (buffer' \o inRemote') = out \o all
  <2>1. (out \o Moved(all, out)) \o Left(all, out) = out \o (Moved(all, out) \o Left(all, out))
    BY <1>1, <1>4, UnitStreams, Zenon
  <2> QED BY <1>2, <1>4, <1>7, <2>1, Zenon
<1>10. Fits(inRemote') /\ Fits(toLocal')
  <2>1. /\ Len(in) \in Nat /\ Len(inRemote') \in Nat /\ Len(out) \in Nat
        /\ HighWater \in Nat /\ written \in Nat
    BY <1>1, <1>5, <1>6, LenProperties, UsbAssumption DEF UsbAssumption
  <2>2. Len(inRemote') <= HighWater /\ Len(toLocal') <= HighWater
    BY <1>1, <1>4, <1>6, <1>8, <2>1
  <2> QED BY <1>6, <1>8, <2>2, Zenon DEF Fits
<1>11. Fits(inLocal') /\ Fits(toHost') /\ toHost' \o inLocal' = toHost \o inLocal
  BY <1>2, PumpToHostFacts
<1> QED BY <1>6, <1>9, <1>10, <1>11 DEF all

----------------------------------------------------------------------------
\* The host's line.

LEMMA LineEndFacts ==
    ASSUME NEW s \in Seq(Unit)
    PROVE  /\ LineEnd(s) \in 0..Len(s)
           /\ LineEnd(s) # 0 => EndsAt(s, LineEnd(s))
           /\ \A i \in 1..Len(s) : EndsAt(s, i) => LineEnd(s) = i
<1>1. Len(s) \in Nat /\ DOMAIN s = 1..Len(s)
  BY LenProperties
<1>2. ASSUME \E i \in DOMAIN s : EndsAt(s, i)
      PROVE  LineEnd(s) \in 1..Len(s) /\ EndsAt(s, LineEnd(s))
  <2>1. LineEnd(s) = CHOOSE i \in DOMAIN s : EndsAt(s, i)
    BY <1>2 DEF LineEnd
  <2>2. LineEnd(s) \in DOMAIN s /\ EndsAt(s, LineEnd(s))
    BY <1>2, <2>1, Zenon
  <2> QED BY <1>1, <2>2
<1>3. CASE ~\E i \in DOMAIN s : EndsAt(s, i)
  <2>1. LineEnd(s) = 0
    BY <1>3 DEF LineEnd
  <2> QED BY <1>1, <1>3, <2>1
<1>4. CASE \E i \in DOMAIN s : EndsAt(s, i)
  <2>1. LineEnd(s) \in 1..Len(s) /\ EndsAt(s, LineEnd(s))
    BY <1>2, <1>4
  <2>2. ASSUME NEW i \in 1..Len(s), EndsAt(s, i) PROVE LineEnd(s) = i
    BY <1>1, <2>1, <2>2 DEF EndsAt
  <2> QED BY <1>1, <2>1, <2>2
<1> QED BY <1>3, <1>4

\* One more unit does not move the end of a line that has one.
LEMMA LineEndGrows ==
    ASSUME NEW s \in Seq(Unit), NEW u \in Unit
    PROVE  LET t == s \o <<u>> IN
           /\ LineEnd(s) # 0 => LineEnd(t) = LineEnd(s)
           /\ LineEnd(s) = 0 => LineEnd(t) \in {0, Len(t)}
<1> DEFINE t == s \o <<u>>
<1>1. /\ t \in Seq(Unit) /\ Len(t) = Len(s) + 1 /\ Len(s) \in Nat
      /\ \A i \in 1..Len(s) : t[i] = s[i]
  <2>1. <<u>> \in Seq(Unit) /\ Len(<<u>>) = 1
    OBVIOUS
  <2>2. /\ t \in Seq(Unit) /\ Len(t) = Len(s) + Len(<<u>>)
        /\ \A i \in 1..(Len(s) + Len(<<u>>)) : t[i] = IF i <= Len(s) THEN s[i] ELSE <<u>>[i - Len(s)]
    BY <2>1, ConcatProperties
  <2>3. Len(s) \in Nat
    BY LenProperties
  <2> HIDE DEF t
  <2> QED BY <2>1, <2>2, <2>3
<1> HIDE DEF t
<1>2. \A i \in 1..Len(s) : EndsAt(t, i) <=> EndsAt(s, i)
  BY <1>1 DEF EndsAt
<1>3. LineEnd(s) # 0 => LineEnd(t) = LineEnd(s)
  BY <1>1, <1>2, LineEndFacts
<1>4. LineEnd(s) = 0 => LineEnd(t) \in {0, Len(t)}
  <2> SUFFICES ASSUME LineEnd(s) = 0, LineEnd(t) # 0, LineEnd(t) # Len(t) PROVE FALSE
    OBVIOUS
  <2>1. LineEnd(t) \in 1..Len(s)
    BY <1>1, LineEndFacts
  <2>2. EndsAt(s, LineEnd(t))
    BY <1>1, <1>2, <2>1, LineEndFacts
  <2>3. LineEnd(s) = LineEnd(t)
    BY <2>1, <2>2, LineEndFacts
  <2> QED BY <2>1, <2>3
<1> QED BY <1>3, <1>4 DEF t

LEMMA ResidualFacts ==
    ASSUME NEW s \in Seq(Unit)
    PROVE  Residual(s) \in Seq(Unit) /\ Len(Residual(s)) <= Len(s)
<1>1. LineEnd(s) \in Nat
  BY LineEndFacts, LenProperties
<1> QED BY <1>1, DropFacts DEF Residual

\* What follows the line, when one more unit has come.
LEMMA ResidualGrows ==
    ASSUME NEW s \in Seq(Unit), NEW u \in Unit
    PROVE  /\ LineEnd(s) # 0 => Residual(s \o <<u>>) = Residual(s) \o <<u>>
           /\ LineEnd(s) = 0 => LineEnd(s \o <<u>>) = 0 \/ Residual(s \o <<u>>) = <<>>
<1> DEFINE t == s \o <<u>>
           n == LineEnd(s)
<1>1. <<u>> \in Seq(Unit) /\ Len(<<u>>) = 1
  OBVIOUS
<1>2. t \in Seq(Unit) /\ Len(t) = Len(s) + 1 /\ Len(s) \in Nat
  BY <1>1, ConcatFacts, LenProperties
<1>3. n \in 0..Len(s)
  BY LineEndFacts
<1>4. /\ n # 0 => LineEnd(t) = n
      /\ n = 0 => LineEnd(t) \in {0, Len(t)}
  BY LineEndGrows
<1>5. ASSUME n # 0 PROVE Residual(t) = Residual(s) \o <<u>>
  <2>1. n \in 0..(Len(s) + Len(<<u>>))
    BY <1>1, <1>2, <1>3
  <2> DEFINE r == IF n < Len(s) THEN <<u>> ELSE SubSeq(<<u>>, n - Len(s) + 1, Len(<<u>>))
  <2>2. SubSeq(s \o <<u>>, n + 1, Len(s \o <<u>>)) = SubSeq(s, n + 1, Len(s)) \o r
    <3>1. \A b \in Seq(Unit) : n \in 0..(Len(s) + Len(b)) =>
              SubSeq(s \o b, n + 1, Len(s \o b))
                  = SubSeq(s, n + 1, Len(s))
                    \o (IF n < Len(s) THEN b ELSE SubSeq(b, n - Len(s) + 1, Len(b)))
      BY SplitConcat, ZenonT(60)
    <3> QED BY <1>1, <2>1, <3>1, ZenonT(60)
  <2>3. r = <<u>>
    <3>1. SubSeq(<<u>>, 1, Len(<<u>>)) = <<u>>
      BY <1>1, SubSeqFull
    <3>2. n < Len(s) \/ n - Len(s) + 1 = 1
      BY <1>2, <1>3
    <3> QED BY <3>1, <3>2
  <2> HIDE DEF r
  <2>4. Residual(t) = SubSeq(t, n + 1, Len(t))
    <3>1. LineEnd(t) = n
      BY <1>4, <1>5
    <3> QED BY <3>1, Zenon DEF Residual
  <2>5. Residual(s) = SubSeq(s, n + 1, Len(s))
    BY DEF Residual
  <2> QED BY <2>2, <2>3, <2>4, <2>5, Zenon
<1>6. ASSUME n = 0, LineEnd(t) # 0 PROVE Residual(t) = <<>>
  <2>1. LineEnd(t) = Len(t)
    BY <1>4, <1>6
  <2>2. SubSeq(t, Len(t) + 1, Len(t)) = <<>>
    BY <1>2, SubSeqEmpty
  <2> QED BY <2>1, <2>2, Zenon DEF Residual
<1> QED BY <1>5, <1>6 DEF t, n

----------------------------------------------------------------------------
\* The queues.

QueueTypes ==
    /\ buffer \in Seq(Unit) /\ Len(buffer) <= MaxLine + HighWater
    /\ Fits(inRemote) /\ Fits(toLocal) /\ Fits(inLocal) /\ Fits(toHost)
    /\ atServer \in Seq(Unit) /\ atHost \in Seq(Unit)
    /\ said \in 0..MaxData /\ sent \in 0..MaxData

\* What there is not before the handshake: data for the local server, a long line, more
\* than the request for the host, and nothing for an unknown host.
QueuesWait ==
    /\ ~done => Len(buffer) <= MaxLine /\ toLocal = <<>> /\ atServer = <<>>
    /\ ~verified => toHost = <<>> /\ atHost = <<>>

TunnelInv == SharedInv /\ QueueTypes /\ QueuesWait /\ StreamsIntact

LEMMA ConstantFacts == HighWater \in Nat /\ MaxLine \in Nat /\ MaxData \in Nat
  BY UsbAssumption DEF UsbAssumption

\* handleRemoteReadyRead() loses nothing that is not of the line.
LEMMA HandlerMoves ==
    ASSUME SharedInv, QueueTypes, QueuesWait,
           NEW in, NEW out, Fits(in), Fits(out), ~done => out = <<>>,
           HandleRemoteReadyRead(in, out), ~Rejected(local', in)
    PROVE  /\ buffer' \in Seq(Unit) /\ Len(buffer') <= MaxLine + HighWater
           /\ Fits(inRemote') /\ Fits(toLocal') /\ Fits(inLocal') /\ Fits(toHost')
           /\ ~done' => Len(buffer') <= MaxLine /\ toLocal' = <<>> /\ toHost' = toHost /\ ~done
           /\ toHost' \o inLocal' = toHost \o inLocal
           /\ toLocal' \o Data(buffer \o inRemote)' = out \o Data(buffer \o in)
<1> DEFINE line == buffer \o in
           Goal == /\ buffer' \in Seq(Unit) /\ Len(buffer') <= MaxLine + HighWater
                   /\ Fits(inRemote') /\ Fits(toLocal') /\ Fits(inLocal') /\ Fits(toHost')
                   /\ ~done' => /\ Len(buffer') <= MaxLine /\ toLocal' = <<>>
                                /\ toHost' = toHost /\ ~done
                   /\ toHost' \o inLocal' = toHost \o inLocal
                   /\ toLocal' \o Data(buffer \o inRemote)' = out \o Data(buffer \o in)
<1>1. /\ buffer \in Seq(Unit) /\ Len(buffer) <= MaxLine + HighWater
      /\ Fits(inLocal) /\ Fits(toHost)
      /\ ~done => Len(buffer) <= MaxLine
  BY DEF QueueTypes, QueuesWait
<1>2. in \in Seq(Unit) /\ Len(in) <= HighWater /\ Len(in) \in Nat /\ Len(buffer) \in Nat
  BY <1>1, LenProperties DEF Fits
<1>3. line \in Seq(Unit) /\ Len(line) = Len(buffer) + Len(in)
  BY <1>1, <1>2, ConcatFacts
<1>4. CASE ~(verified /\ local')
  <2>1. /\ inRemote' = in /\ toLocal' = out
        /\ UNCHANGED <<buffer, inLocal, toHost, done>>
    BY <1>4 DEF HandleRemoteReadyRead
  <2>2. Data(buffer \o inRemote)' = Data(buffer \o in)
    BY <2>1 DEF Data
  <2> QED BY <1>1, <2>1, <2>2
<1>5. CASE verified /\ local' /\ done
  <2>1. PumpToLocal(buffer, in, out) /\ done' = done
    BY <1>5 DEF HandleRemoteReadyRead
  <2>2. /\ buffer' \in Seq(Unit) /\ Len(buffer') <= Len(buffer)
        /\ Fits(inRemote') /\ Fits(toLocal') /\ Fits(inLocal') /\ Fits(toHost')
        /\ toLocal' \o (buffer' \o inRemote') = out \o (buffer \o in)
        /\ toHost' \o inLocal' = toHost \o inLocal
    BY <1>1, <2>1, PumpToLocalFacts
  <2>3. Len(buffer') <= MaxLine + HighWater
    BY <1>1, <1>2, <2>2, ConstantFacts, LenProperties
  <2>4. done /\ done'
    BY <1>5, <2>1
  <2>5. Data(buffer \o inRemote)' = buffer' \o inRemote' /\ Data(buffer \o in) = buffer \o in
    BY <2>4 DEF Data
  <2> QED BY <2>2, <2>3, <2>4, <2>5
<1>6. CASE verified /\ local' /\ ~done /\ LineEnd(line) = 0
  <2>1. /\ buffer' = line /\ inRemote' = <<>> /\ toLocal' = out
        /\ UNCHANGED <<inLocal, toHost, done>>
    BY <1>6 DEF HandleRemoteReadyRead
  <2>2. ~TooLong(line)
    BY <1>6 DEF Rejected, Refused
  <2>3. Len(line) <= MaxLine
    BY <1>2, <1>3, <1>6, <2>2, ConstantFacts DEF TooLong
  <2>4. Len(line) <= MaxLine + HighWater
    BY <1>2, <1>3, <2>3, ConstantFacts
  <2>5. Fits(<<>>)
    BY ConstantFacts DEF Fits
  <2>6. line \o <<>> = line
    BY <1>3, ConcatEmptySeq
  <2>7. (buffer \o inRemote)' = line
    BY <2>1, <2>6
  <2>8. Data(buffer \o inRemote)' = Data(buffer \o in)
    BY <2>1, <2>7 DEF Data
  <2> HIDE DEF line
  <2> QED BY <1>1, <1>3, <1>6, <2>1, <2>3, <2>4, <2>5, <2>8
<1>7. CASE verified /\ local' /\ ~done /\ LineEnd(line) # 0
  <2>1. done' = TRUE /\ PumpToLocal(Residual(line), <<>>, out)
    BY <1>7 DEF HandleRemoteReadyRead
  <2>2. Residual(line) \in Seq(Unit) /\ Len(Residual(line)) <= Len(line)
    BY <1>3, ResidualFacts
  <2>3. Fits(<<>>)
    BY ConstantFacts DEF Fits
  <2>4. /\ buffer' \in Seq(Unit) /\ Len(buffer') <= Len(Residual(line))
        /\ Fits(inRemote') /\ Fits(toLocal') /\ Fits(inLocal') /\ Fits(toHost')
        /\ toLocal' \o (buffer' \o inRemote') = out \o (Residual(line) \o <<>>)
        /\ toHost' \o inLocal' = toHost \o inLocal
    BY <1>1, <2>1, <2>2, <2>3, PumpToLocalFacts
  <2>5. Residual(line) \o <<>> = Residual(line)
    BY <2>2, ConcatEmptySeq
  <2>6. Len(buffer') <= MaxLine + HighWater
    <3>1. Len(buffer') \in Nat /\ Len(Residual(line)) \in Nat
      BY <2>2, <2>4, LenProperties
    <3> HIDE DEF line
    <3> QED BY <1>1, <1>2, <1>3, <1>7, <2>2, <2>4, <3>1, ConstantFacts
  <2>7. Data(buffer \o inRemote)' = buffer' \o inRemote'
    BY <2>1 DEF Data
  <2>8. Data(buffer \o in) = Residual(line)
    BY <1>7 DEF Data, Residual
  <2>9. toLocal' \o Data(buffer \o inRemote)' = out \o Data(buffer \o in)
    BY <2>4, <2>5, <2>7, <2>8, Zenon
  <2> QED BY <2>1, <2>4, <2>6, <2>9
<1> QED BY <1>4, <1>5, <1>6, <1>7

----------------------------------------------------------------------------
\* The streams.

LEMMA DataTypes ==
    ASSUME QueueTypes PROVE Data(buffer \o inRemote) \in Seq(Unit)
<1>1. buffer \o inRemote \in Seq(Unit)
  BY ConcatFacts DEF QueueTypes, Fits
<1>2. Residual(buffer \o inRemote) \in Seq(Unit)
  BY <1>1, ResidualFacts
<1>3. <<>> \in Seq(Unit)
  OBVIOUS
<1> QED BY <1>1, <1>2, <1>3 DEF Data, Residual

\* The head of a queue moves to the end of what is through.
LEMMA HeadMoves ==
    ASSUME NEW a \in Seq(Unit), NEW q, Fits(q), q # <<>>
    PROVE  /\ Append(a, Head(q)) \in Seq(Unit) /\ Fits(Tail(q))
           /\ Append(a, Head(q)) \o Tail(q) = a \o q
<1>1. q \in Seq(Unit) /\ Len(q) <= HighWater /\ Len(q) \in Nat /\ HighWater \in Nat
  BY LenProperties, ConstantFacts DEF Fits
<1>2. Head(q) \in Unit /\ Tail(q) \in Seq(Unit) /\ Len(Tail(q)) = Len(q) - 1
  BY <1>1, HeadTailProperties
<1>3. q = <<Head(q)>> \o Tail(q)
  BY <1>1
<1>4. Append(a, Head(q)) = a \o <<Head(q)>> /\ <<Head(q)>> \in Seq(Unit)
  BY <1>2, AppendIsConcat
<1>5. Append(a, Head(q)) \in Seq(Unit)
  BY <1>2
<1>6. Fits(Tail(q))
  BY <1>1, <1>2 DEF Fits
<1>7. (a \o <<Head(q)>>) \o Tail(q) = a \o (<<Head(q)>> \o Tail(q))
  BY <1>2, <1>4, UnitStreams, Zenon
<1> QED BY <1>3, <1>4, <1>5, <1>6, <1>7, Zenon

\* A step of handleRemoteReadyRead() keeps the streams, whatever came with it.
LEMMA HandlerKeepsStreams ==
    ASSUME TunnelInv, SharedInv', NEW in, NEW out, Fits(in), Fits(out), ~done => out = <<>>,
           HandleRemoteReadyRead(in, out), ~Rejected(local', in),
           atServer' \in Seq(Unit), said' \in 0..MaxData, ~done => atServer' = atServer,
           atServer' \o (out \o Data(buffer \o in)) = Upto(said')
    PROVE  TunnelInv'
<1>1. /\ buffer' \in Seq(Unit) /\ Len(buffer') <= MaxLine + HighWater
      /\ Fits(inRemote') /\ Fits(toLocal') /\ Fits(inLocal') /\ Fits(toHost')
      /\ ~done' => Len(buffer') <= MaxLine /\ toLocal' = <<>> /\ toHost' = toHost /\ ~done
      /\ toHost' \o inLocal' = toHost \o inLocal
      /\ toLocal' \o Data(buffer \o inRemote)' = out \o Data(buffer \o in)
  BY HandlerMoves DEF TunnelInv
<1>2. UNCHANGED <<atHost, sent, verified>>
  BY DEF HandleRemoteReadyRead
<1>3. QueueTypes'
  BY <1>1, <1>2 DEF TunnelInv, QueueTypes
<1>4. QueuesWait'
  <2>1. ~done' => Len(buffer') <= MaxLine /\ toLocal' = <<>> /\ atServer' = <<>>
    BY <1>1 DEF TunnelInv, QueuesWait
  <2>2. ~verified' => toHost' = <<>> /\ atHost' = <<>>
    <3>1. ~verified' => ~done'
      BY DEF SharedInv, HandshakeInv
    <3> QED BY <1>1, <1>2, <3>1 DEF TunnelInv, QueuesWait
  <2> QED BY <2>1, <2>2 DEF QueuesWait
<1>5. atServer' \o toLocal' \o Data(buffer \o inRemote)' = Upto(said')
  <2>1. Data(buffer \o inRemote)' \in Seq(Unit)
    <3>1. buffer' \o inRemote' \in Seq(Unit)
      BY <1>1, ConcatFacts DEF Fits
    <3>2. \A s \in Seq(Unit) : SubSeq(s, LineEnd(s) + 1, Len(s)) \in Seq(Unit)
      BY ResidualFacts DEF Residual
    <3>3. <<>> \in Seq(Unit)
      OBVIOUS
    <3> QED BY <3>1, <3>2, <3>3 DEF Data
  <2>2. toLocal' \in Seq(Unit)
    BY <1>1 DEF Fits
  <2>3. atServer' \o toLocal' \o Data(buffer \o inRemote)'
            = atServer' \o (toLocal' \o Data(buffer \o inRemote)')
    BY <2>1, <2>2, UnitStreams, Zenon
  <2> QED BY <1>1, <2>3, Zenon
<1>6. atHost' \o toHost' \o inLocal' = (IF verified' THEN <<Forward>> ELSE <<>>) \o Upto(sent')
  <2>1. atHost \in Seq(Unit) /\ \A b, c \in Seq(Unit) : (atHost \o b) \o c = atHost \o (b \o c)
    BY UnitStreams, Zenon DEF TunnelInv, QueueTypes
  <2>2. atHost \o toHost' \o inLocal' = atHost \o (toHost' \o inLocal')
    BY <1>1, <2>1, Zenon DEF Fits
  <2>3. atHost \o toHost \o inLocal = atHost \o (toHost \o inLocal)
    BY <2>1, Zenon DEF TunnelInv, QueueTypes, Fits
  <2>4. atHost \o toHost' \o inLocal' = atHost \o toHost \o inLocal
    BY <1>1, <2>2, <2>3, Zenon
  <2>5. atHost \o toHost \o inLocal = (IF verified THEN <<Forward>> ELSE <<>>) \o Upto(sent)
    BY DEF TunnelInv, StreamsIntact
  <2>6. atHost' = atHost /\ sent' = sent /\ verified' = verified
    BY <1>2
  <2> QED BY <2>4, <2>5, <2>6, Zenon
<1>7. ~done' => Len(atServer' \o toLocal') = 0 /\ Len(atHost' \o toHost') <= 1
  <2> SUFFICES ASSUME ~done'
               PROVE  Len(atServer' \o toLocal') = 0 /\ Len(atHost' \o toHost') <= 1
    OBVIOUS
  <2>1. ~done /\ toHost' = toHost /\ atHost' = atHost
    BY <1>1, <1>2
  <2>2. atServer' \o toLocal' = <<>>
    BY <1>4 DEF QueuesWait
  <2>3. Len(atHost \o toHost) <= 1
    BY <2>1 DEF TunnelInv, StreamsIntact
  <2> QED BY <2>1, <2>2, <2>3
<1>8. StreamsIntact'
  BY <1>5, <1>6, <1>7, Zenon DEF StreamsIntact
<1> QED BY <1>3, <1>4, <1>8 DEF TunnelInv

\* Nothing is in the queues of a tunnel that is gone.
LEMMA TeardownKeepsStreams ==
    ASSUME SharedInv', TeardownUsbTunnel PROVE TunnelInv'
<1>1. /\ ~verified' /\ ~done' /\ buffer' = <<>> /\ inRemote' = <<>> /\ toLocal' = <<>>
      /\ atServer' = <<>> /\ said' = 0 /\ inLocal' = <<>> /\ toHost' = <<>> /\ atHost' = <<>>
      /\ sent' = 0
  BY DEF TeardownUsbTunnel, NoTunnel
<1>2. Len(<<>>) = 0 /\ <<>> \in Seq(Unit) /\ <<>> \o <<>> = <<>>
  OBVIOUS
<1>3. QueueTypes' /\ QueuesWait'
  BY <1>1, <1>2, ConstantFacts DEF QueueTypes, QueuesWait, Fits
<1>4. ~\E i \in DOMAIN <<>> : EndsAt(<<>>, i)
  OBVIOUS
<1>5. LineEnd(<<>>) = 0
  BY <1>4, Zenon DEF LineEnd
<1>6. Data(buffer \o inRemote)' = <<>>
  BY <1>1, <1>2, <1>5 DEF Data
<1>7. Upto(0) = <<>>
  BY DEF Upto
<1>8. StreamsIntact'
  BY <1>1, <1>2, <1>6, <1>7 DEF StreamsIntact
<1> QED BY <1>3, <1>8 DEF TunnelInv

LEMMA UnmovedKeepsStreams ==
    ASSUME TunnelInv, SharedInv', UNCHANGED <<fromHost, fromLocal, verified, done>>
    PROVE  TunnelInv'
<1>1. /\ UNCHANGED <<buffer, inRemote, toLocal, atServer, said>>
      /\ UNCHANGED <<inLocal, toHost, atHost, sent, verified, done>>
  BY DEF fromHost, fromLocal
<1>2. QueueTypes' /\ QueuesWait'
  BY <1>1 DEF TunnelInv, QueueTypes, QueuesWait
<1>3. Data(buffer \o inRemote)' = Data(buffer \o inRemote)
  BY <1>1 DEF Data
<1>4. StreamsIntact
  BY DEF TunnelInv
<1>5. /\ toLocal' = toLocal /\ atServer' = atServer /\ said' = said /\ inLocal' = inLocal
      /\ toHost' = toHost /\ atHost' = atHost /\ sent' = sent
      /\ verified' = verified /\ done' = done
  BY <1>1
<1>6. StreamsIntact'
  <2>1. atServer' \o toLocal' \o Data(buffer \o inRemote)' = Upto(said')
    BY <1>3, <1>4, <1>5 DEF StreamsIntact
  <2>2. atHost' \o toHost' \o inLocal' = (IF verified' THEN <<Forward>> ELSE <<>>) \o Upto(sent')
    BY <1>4, <1>5 DEF StreamsIntact
  <2>3. ~done' => Len(atServer' \o toLocal') = 0 /\ Len(atHost' \o toHost') <= 1
    BY <1>4, <1>5 DEF StreamsIntact
  <2> QED BY <2>1, <2>2, <2>3 DEF StreamsIntact
<1> QED BY <1>2, <1>6 DEF TunnelInv

LEMMA StreamsInit == Init => TunnelInv
<1> SUFFICES ASSUME Init PROVE TunnelInv
  OBVIOUS
<1>1. /\ ~verified /\ ~done /\ buffer = <<>> /\ inRemote = <<>> /\ toLocal = <<>>
      /\ atServer = <<>> /\ said = 0 /\ inLocal = <<>> /\ toHost = <<>> /\ atHost = <<>>
      /\ sent = 0
  BY DEF Init
<1>2. Len(<<>>) = 0 /\ <<>> \in Seq(Unit) /\ <<>> \o <<>> = <<>>
  OBVIOUS
<1>3. QueueTypes /\ QueuesWait
  BY <1>1, <1>2, ConstantFacts DEF QueueTypes, QueuesWait, Fits
<1>4. ~\E i \in DOMAIN <<>> : EndsAt(<<>>, i)
  OBVIOUS
<1>5. LineEnd(<<>>) = 0
  BY <1>4, Zenon DEF LineEnd
<1>6. Data(buffer \o inRemote) = <<>>
  BY <1>1, <1>2, <1>5 DEF Data
<1>7. Upto(0) = <<>>
  BY DEF Upto
<1>8. StreamsIntact
  BY <1>1, <1>2, <1>6, <1>7 DEF StreamsIntact
<1> QED BY <1>3, <1>8, SharedInit DEF TunnelInv

\* What m_Remote has brought so far, and what has been passed on.
LEMMA SaidSoFar ==
    ASSUME TunnelInv
    PROVE  /\ atServer \in Seq(Unit) /\ toLocal \in Seq(Unit)
           /\ buffer \o inRemote \in Seq(Unit) /\ Data(buffer \o inRemote) \in Seq(Unit)
           /\ atServer \o (toLocal \o Data(buffer \o inRemote)) = Upto(said)
<1>1. atServer \in Seq(Unit) /\ toLocal \in Seq(Unit) /\ buffer \o inRemote \in Seq(Unit)
  BY ConcatFacts DEF TunnelInv, QueueTypes, Fits
<1>2. Data(buffer \o inRemote) \in Seq(Unit)
  BY DataTypes DEF TunnelInv
<1>3. atServer \o toLocal \o Data(buffer \o inRemote) = Upto(said)
  BY DEF TunnelInv, StreamsIntact
<1>4. atServer \o toLocal \o Data(buffer \o inRemote)
          = atServer \o (toLocal \o Data(buffer \o inRemote))
  BY <1>1, <1>2, UnitStreams, Zenon
<1> QED BY <1>1, <1>2, <1>3, <1>4, Zenon

LEMMA LocalConnectsKeepsStreams ==
    ASSUME TunnelInv, SharedInv', LocalConnects PROVE TunnelInv'
<1>1. CASE TunnelFinishes
  BY <1>1, TeardownKeepsStreams DEF TunnelFinishes
<1>2. CASE ~TunnelFinishes
  <2>1. /\ local' = TRUE /\ ~Rejected(TRUE, inRemote)
        /\ HandleRemoteReadyRead(inRemote, toLocal) /\ UNCHANGED <<atServer, said>>
    BY <1>2 DEF LocalConnects
  <2>2. ~Rejected(local', inRemote)
    BY <2>1 DEF Rejected
  <2>3. Fits(inRemote) /\ Fits(toLocal) /\ atServer' \in Seq(Unit) /\ said' \in 0..MaxData
    BY <2>1 DEF TunnelInv, QueueTypes
  <2>4. ~done => toLocal = <<>>
    BY DEF TunnelInv, QueuesWait
  <2>5. atServer' \o (toLocal \o Data(buffer \o inRemote)) = Upto(said')
    BY <2>1, SaidSoFar
  <2> QED BY <2>1, <2>2, <2>3, <2>4, <2>5, HandlerKeepsStreams
<1> QED BY <1>1, <1>2

LEMMA LocalWrittenKeepsStreams ==
    ASSUME TunnelInv, SharedInv', LocalWritten PROVE TunnelInv'
<1>1. /\ toLocal # <<>> /\ atServer' = Append(atServer, Head(toLocal)) /\ local' = local
      /\ HandleRemoteReadyRead(inRemote, Tail(toLocal)) /\ said' = said
  BY DEF LocalWritten
<1>2. done
  BY <1>1 DEF TunnelInv, QueuesWait
<1>3. ~Rejected(local', inRemote)
  BY <1>2 DEF Rejected
<1>4. /\ Fits(inRemote) /\ Fits(toLocal) /\ atServer \in Seq(Unit) /\ said' \in 0..MaxData
  BY <1>1 DEF TunnelInv, QueueTypes
<1>5. /\ Append(atServer, Head(toLocal)) \in Seq(Unit) /\ Fits(Tail(toLocal))
      /\ Append(atServer, Head(toLocal)) \o Tail(toLocal) = atServer \o toLocal
  BY <1>1, <1>4, HeadMoves
<1>6. atServer' \o (Tail(toLocal) \o Data(buffer \o inRemote)) = Upto(said')
  <2>1. Data(buffer \o inRemote) \in Seq(Unit) /\ Tail(toLocal) \in Seq(Unit)
    BY <1>5, SaidSoFar DEF Fits
  <2>2. atServer' \in Seq(Unit)
    BY <1>1, <1>5
  <2>3. atServer' \o Tail(toLocal) \o Data(buffer \o inRemote)
            = atServer' \o (Tail(toLocal) \o Data(buffer \o inRemote))
    BY <2>1, <2>2, UnitStreams, Zenon
  <2>4. atServer \o toLocal \o Data(buffer \o inRemote) = Upto(said)
    BY DEF TunnelInv, StreamsIntact
  <2>5. atServer' \o Tail(toLocal) = atServer \o toLocal
    BY <1>1, <1>5
  <2> QED BY <1>1, <2>3, <2>4, <2>5, Zenon
<1>7. atServer' \in Seq(Unit) /\ Fits(Tail(toLocal))
  BY <1>1, <1>5
<1> QED BY <1>1, <1>2, <1>3, <1>4, <1>6, <1>7, HandlerKeepsStreams

\* What the host's next unit adds to the data it has sent.
LEMMA HostAdds ==
    ASSUME TunnelInv, NEW u \in {Part, Ready, Error} \cup 1..MaxData, HostMaySend(u),
           said' = IF u > 0 THEN u ELSE said
    PROVE  /\ said' \in 0..MaxData
           /\ atServer \o (toLocal \o Data(buffer \o Append(inRemote, u))) = Upto(said')
<1> DEFINE s == buffer \o inRemote
           t == s \o <<u>>
<1>1. /\ atServer \in Seq(Unit) /\ toLocal \in Seq(Unit) /\ s \in Seq(Unit)
      /\ Data(s) \in Seq(Unit) /\ atServer \o (toLocal \o Data(s)) = Upto(said)
  BY SaidSoFar
<1>2. u \in Unit /\ <<u>> \in Seq(Unit)
  BY DEF Unit
<1>3. buffer \o Append(inRemote, u) = t
  <2>1. buffer \in Seq(Unit) /\ inRemote \in Seq(Unit)
    BY DEF TunnelInv, QueueTypes, Fits
  <2>2. Append(inRemote, u) = inRemote \o <<u>>
    BY <1>2, <2>1, AppendIsConcat
  <2>3. (buffer \o inRemote) \o <<u>> = buffer \o (inRemote \o <<u>>)
    BY <1>2, <2>1, UnitStreams, Zenon
  <2> QED BY <2>2, <2>3, Zenon
<1>4. said \in 0..MaxData
  BY DEF TunnelInv, QueueTypes
<1>5. /\ LineEnd(s) # 0 => LineEnd(t) # 0 /\ Residual(t) = Residual(s) \o <<u>>
      /\ LineEnd(s) = 0 => LineEnd(t) = 0 \/ Residual(t) = <<>>
  BY <1>1, <1>2, LineEndGrows, ResidualGrows
<1> HIDE DEF s, t
<1>6. CASE ~done /\ LineEnd(s) = 0
  <2>1. u \in {Part, Ready, Error}
    BY <1>6 DEF HostMaySend, s
  <2>2. said' = said
    BY <2>1 DEF Part, Ready, Error
  <2>3. Data(s) = <<>>
    BY <1>6 DEF Data
  <2>4. Data(t) = <<>>
    BY <1>5, <1>6 DEF Data, Residual
  <2> QED BY <1>1, <1>3, <1>4, <2>2, <2>3, <2>4
<1>7. CASE done \/ LineEnd(s) # 0
  <2>1. u = said + 1 /\ u <= MaxData
    BY <1>7 DEF HostMaySend, s
  <2>2. said' = said + 1 /\ said' \in 0..MaxData
    BY <1>4, <2>1, ConstantFacts
  <2>3. Data(t) = Data(s) \o <<u>>
    BY <1>5, <1>7 DEF Data, Residual, t
  <2>4. Upto(said') = Upto(said) \o <<u>>
    BY <1>4, <2>1, <2>2, UptoFacts
  <2>5. toLocal \o (Data(s) \o <<u>>) = (toLocal \o Data(s)) \o <<u>>
    BY <1>1, <1>2, UnitStreams, Zenon
  <2>6. toLocal \o Data(s) \in Seq(Unit)
    BY <1>1, ConcatFacts
  <2>7. atServer \o ((toLocal \o Data(s)) \o <<u>>) = (atServer \o (toLocal \o Data(s))) \o <<u>>
    <3>1. \A b, c \in Seq(Unit) : (atServer \o b) \o c = atServer \o (b \o c)
      BY <1>1, UnitStreams, Zenon
    <3> QED BY <1>2, <2>6, <3>1, Zenon
  <2>8. atServer \o (toLocal \o Data(t)) = Upto(said')
    BY <1>1, <2>3, <2>4, <2>5, <2>7, Zenon
  <2> QED BY <1>3, <2>2, <2>8, Zenon
<1> QED BY <1>6, <1>7

LEMMA HostSendsKeepsStreams ==
    ASSUME TunnelInv, SharedInv', NEW u \in {Part, Ready, Error} \cup 1..MaxData, HostSends(u)
    PROVE  TunnelInv'
<1>1. CASE TunnelFinishes
  BY <1>1, TeardownKeepsStreams DEF TunnelFinishes
<1>2. CASE ~TunnelFinishes
  <2> DEFINE in == Append(inRemote, u)
  <2>1. /\ HostMaySend(u) /\ Len(inRemote) < HighWater
        /\ ~Rejected(local, in) /\ local' = local
        /\ HandleRemoteReadyRead(in, toLocal)
        /\ said' = (IF u > 0 THEN u ELSE said) /\ atServer' = atServer
    BY <1>2 DEF HostSends
  <2>2. ~Rejected(local', in)
    BY <2>1 DEF Rejected
  <2>3. Fits(toLocal) /\ atServer' \in Seq(Unit) /\ inRemote \in Seq(Unit)
    BY <2>1 DEF TunnelInv, QueueTypes, Fits
  <2>4. Fits(in)
    <3>1. u \in Unit
      BY DEF Unit
    <3>2. in \in Seq(Unit) /\ Len(in) = Len(inRemote) + 1
      BY <2>3, <3>1
    <3> QED BY <2>1, <2>3, <3>2, LenProperties, ConstantFacts DEF Fits
  <2>5. ~done => toLocal = <<>>
    BY DEF TunnelInv, QueuesWait
  <2>6. said' \in 0..MaxData /\ atServer \o (toLocal \o Data(buffer \o in)) = Upto(said')
    BY <2>1, HostAdds
  <2>7. atServer' \o (toLocal \o Data(buffer \o in)) = Upto(said')
    BY <2>1, <2>6, Zenon
  <2> HIDE DEF in
  <2> QED BY <2>1, <2>2, <2>3, <2>4, <2>5, <2>6, <2>7, HandlerKeepsStreams
<1> QED BY <1>1, <1>2

LEMMA RemoteEncryptedKeepsStreams ==
    ASSUME TunnelInv, SharedInv', RemoteEncrypted PROVE TunnelInv'
<1>1. /\ ~verified /\ verified' = TRUE /\ toHost' = <<Forward>>
      /\ UNCHANGED <<buffer, inRemote, toLocal, atServer, said, inLocal, atHost, sent, done>>
  BY DEF RemoteEncrypted, fromHost
<1>2. /\ ~done /\ toHost = <<>> /\ atHost = <<>>
  BY <1>1 DEF TunnelInv, SharedInv, HandshakeInv, QueuesWait
<1>3. <<Forward>> \in Seq(Unit) /\ Len(<<Forward>>) = 1 /\ Fits(<<Forward>>)
  <2>1. Forward \in Unit
    BY DEF Unit, Forward, Ready
  <2>2. <<Forward>> \in Seq(Unit) /\ Len(<<Forward>>) = 1
    BY <2>1
  <2> QED BY <2>2, UsbAssumption DEF UsbAssumption, Fits
<1>4. QueueTypes' /\ QueuesWait'
  BY <1>1, <1>3 DEF TunnelInv, QueueTypes, QueuesWait
<1>5. inLocal = Upto(sent)
  <2>1. atHost \o toHost \o inLocal = <<>> \o Upto(sent)
    BY <1>1 DEF TunnelInv, StreamsIntact
  <2>2. inLocal \in Seq(Unit) /\ sent \in Nat
    BY DEF TunnelInv, QueueTypes, Fits
  <2>3. <<>> \o <<>> \o inLocal = inLocal
    BY <2>2, ConcatEmptySeq
  <2>4. <<>> \o Upto(sent) = Upto(sent)
    BY <2>2, UptoFacts, ConcatEmptySeq
  <2> QED BY <1>2, <2>1, <2>3, <2>4
<1>6. <<>> \o <<Forward>> = <<Forward>>
  BY <1>3, ConcatEmptySeq
<1>7. atHost' \o toHost' \o inLocal' = (IF verified' THEN <<Forward>> ELSE <<>>) \o Upto(sent')
  BY <1>1, <1>2, <1>5, <1>6
<1>8. Data(buffer \o inRemote)' = Data(buffer \o inRemote)
  BY <1>1 DEF Data
<1>9. atServer' \o toLocal' \o Data(buffer \o inRemote)' = Upto(said')
  BY <1>1, <1>8 DEF TunnelInv, StreamsIntact
<1>10. Len(atServer' \o toLocal') = 0 /\ Len(atHost' \o toHost') <= 1
  <2>1. Len(atServer \o toLocal) = 0
    BY <1>2 DEF TunnelInv, StreamsIntact
  <2>2. atHost' \o toHost' = <<Forward>>
    BY <1>1, <1>2, <1>6
  <2>3. Len(<<Forward>>) <= 1
    BY <1>3
  <2> QED BY <1>1, <2>1, <2>2, <2>3
<1>11. StreamsIntact'
  BY <1>7, <1>9, <1>10, Zenon DEF StreamsIntact
<1> QED BY <1>4, <1>11 DEF TunnelInv

\* The pump to the host, after what the local server has sent or the host has got.
LEMMA HostPumpKeepsStreams ==
    ASSUME TunnelInv, SharedInv', NEW in, NEW out, Fits(in), Fits(out),
           PumpToHost(done, in, out), UNCHANGED <<fromHost, verified, done>>,
           atHost' \in Seq(Unit), sent' \in 0..MaxData,
           ~verified => out = <<>> /\ atHost' = <<>>,
           ~done => Len(atHost' \o out) <= 1,
           atHost' \o (out \o in) = (IF verified THEN <<Forward>> ELSE <<>>) \o Upto(sent')
    PROVE  TunnelInv'
<1>1. UNCHANGED <<buffer, inRemote, toLocal, atServer, said, verified, done>>
  BY DEF fromHost
<1>2. /\ Fits(inLocal') /\ Fits(toHost') /\ toHost' \o inLocal' = out \o in
      /\ ~done => toHost' = out
  BY PumpToHostFacts, SMTT(60)
<1>3. ~verified => ~done
  BY DEF TunnelInv, SharedInv, HandshakeInv
<1>4. QueueTypes'
  BY <1>1, <1>2 DEF TunnelInv, QueueTypes
<1>5. QueuesWait'
  BY <1>1, <1>2, <1>3 DEF TunnelInv, QueuesWait
<1>6. atHost' \o toHost' \o inLocal' = (IF verified' THEN <<Forward>> ELSE <<>>) \o Upto(sent')
  <2>1. toHost' \in Seq(Unit) /\ inLocal' \in Seq(Unit)
    BY <1>2 DEF Fits
  <2>2. atHost' \o toHost' \o inLocal' = atHost' \o (toHost' \o inLocal')
    BY <2>1, UnitStreams, Zenon
  <2>3. (IF verified' THEN <<Forward>> ELSE <<>>) = (IF verified THEN <<Forward>> ELSE <<>>)
    BY <1>1
  <2>4. atHost' \o (toHost' \o inLocal') = (IF verified THEN <<Forward>> ELSE <<>>) \o Upto(sent')
    BY <1>2
  <2> QED BY <2>2, <2>3, <2>4, Zenon
<1>7. Data(buffer \o inRemote)' = Data(buffer \o inRemote)
  BY <1>1 DEF Data
<1>8. atServer' \o toLocal' \o Data(buffer \o inRemote)' = Upto(said')
  BY <1>1, <1>7 DEF TunnelInv, StreamsIntact
<1>9. ~done' => Len(atServer' \o toLocal') = 0 /\ Len(atHost' \o toHost') <= 1
  BY <1>1, <1>2 DEF TunnelInv, StreamsIntact
<1>10. StreamsIntact'
  BY <1>6, <1>8, <1>9, Zenon DEF StreamsIntact
<1> QED BY <1>4, <1>5, <1>10 DEF TunnelInv

LEMMA ServerSendsKeepsStreams ==
    ASSUME TunnelInv, SharedInv', ServerSends PROVE TunnelInv'
<1> DEFINE in == Append(inLocal, sent')
           head == IF verified THEN <<Forward>> ELSE <<>>
<1>1. /\ sent < MaxData /\ Len(inLocal) < HighWater /\ sent' = sent + 1
      /\ PumpToHost(done, in, toHost)
      /\ UNCHANGED <<fromHost, atHost, verified, done>>
  BY DEF ServerSends, socket
<1>2. /\ inLocal \in Seq(Unit) /\ toHost \in Seq(Unit) /\ atHost \in Seq(Unit) /\ Fits(toHost)
      /\ sent \in 0..MaxData
  BY DEF TunnelInv, QueueTypes, Fits
<1>3. sent' \in 1..MaxData /\ sent \in Nat
  BY <1>1, <1>2, ConstantFacts
<1>4. sent' \in Unit /\ <<sent'>> \in Seq(Unit)
  BY <1>3 DEF Unit
<1>5. in \in Seq(Unit) /\ Len(in) = Len(inLocal) + 1 /\ in = inLocal \o <<sent'>>
  BY <1>2, <1>4, AppendIsConcat
<1>6. Fits(in)
  BY <1>1, <1>2, <1>5, LenProperties, ConstantFacts DEF Fits
<1>7. head \o Upto(sent') = (head \o Upto(sent)) \o <<sent'>>
  <2>1. Upto(sent') = Upto(sent) \o <<sent'>>
    BY <1>1, <1>3, UptoFacts
  <2>2. Upto(sent) \in Seq(Int) /\ <<sent'>> \in Seq(Int)
    BY <1>3 DEF Upto
  <2>3. head \in Seq(Int)
    BY DEF Forward
  <2>4. (head \o Upto(sent)) \o <<sent'>> = head \o (Upto(sent) \o <<sent'>>)
    BY <2>2, <2>3, Associative
  <2> QED BY <2>1, <2>4, Zenon
<1>8. atHost \o (toHost \o in) = (atHost \o toHost \o inLocal) \o <<sent'>>
  <2>1. atHost \o toHost \in Seq(Unit)
    BY <1>2, ConcatFacts
  <2>2. (atHost \o toHost \o inLocal) \o <<sent'>> = (atHost \o toHost) \o (inLocal \o <<sent'>>)
    BY <1>2, <1>4, <2>1, UnitStreams, Zenon
  <2> HIDE DEF in
  <2>3. (atHost \o toHost) \o in = atHost \o (toHost \o in)
    BY <1>2, <1>5, UnitStreams, Zenon
  <2> QED BY <1>5, <2>2, <2>3, Zenon
<1>9. atHost \o toHost \o inLocal = head \o Upto(sent)
  BY DEF TunnelInv, StreamsIntact
<1> HIDE DEF in
<1>10. atHost' \o (toHost \o in) = head \o Upto(sent')
  BY <1>1, <1>7, <1>8, <1>9, Zenon
<1>11. ~verified => toHost = <<>> /\ atHost' = <<>>
  BY <1>1 DEF TunnelInv, QueuesWait
<1>12. ~done => Len(atHost' \o toHost) <= 1
  BY <1>1 DEF TunnelInv, StreamsIntact
<1>13. atHost' \in Seq(Unit) /\ sent' \in 0..MaxData /\ UNCHANGED <<fromHost, verified, done>>
  BY <1>1, <1>2, <1>3
<1> QED BY <1>1, <1>2, <1>6, <1>10, <1>11, <1>12, <1>13, HostPumpKeepsStreams

LEMMA RemoteWrittenKeepsStreams ==
    ASSUME TunnelInv, SharedInv', RemoteWritten PROVE TunnelInv'
<1>1. /\ toHost # <<>> /\ atHost' = Append(atHost, Head(toHost))
      /\ PumpToHost(done, inLocal, Tail(toHost))
      /\ UNCHANGED <<fromHost, sent, verified, done>>
  BY DEF RemoteWritten, socket
<1>2. /\ inLocal \in Seq(Unit) /\ atHost \in Seq(Unit) /\ Fits(inLocal) /\ Fits(toHost)
      /\ toHost \in Seq(Unit) /\ sent' \in 0..MaxData
  BY <1>1 DEF TunnelInv, QueueTypes, Fits
<1>3. /\ atHost' \in Seq(Unit) /\ Fits(Tail(toHost))
      /\ atHost' \o Tail(toHost) = atHost \o toHost
  BY <1>1, <1>2, HeadMoves
<1>4. verified
  BY <1>1 DEF TunnelInv, QueuesWait
<1>5. ~done => Len(atHost' \o Tail(toHost)) <= 1
  BY <1>3 DEF TunnelInv, StreamsIntact
<1>6. atHost' \o (Tail(toHost) \o inLocal) = (IF verified THEN <<Forward>> ELSE <<>>) \o Upto(sent')
  <2>1. Tail(toHost) \in Seq(Unit)
    BY <1>3 DEF Fits
  <2>2. atHost' \o Tail(toHost) \o inLocal = atHost' \o (Tail(toHost) \o inLocal)
    BY <1>2, <1>3, <2>1, UnitStreams, Zenon
  <2>3. atHost \o toHost \o inLocal = (IF verified THEN <<Forward>> ELSE <<>>) \o Upto(sent)
    BY DEF TunnelInv, StreamsIntact
  <2>4. sent' = sent
    BY <1>1
  <2> QED BY <1>3, <2>2, <2>3, <2>4, Zenon
<1>7. UNCHANGED <<fromHost, verified, done>>
  BY <1>1
<1> QED BY <1>1, <1>2, <1>3, <1>4, <1>5, <1>6, <1>7, HostPumpKeepsStreams

LEMMA WorkerKeepsStreams ==
    ASSUME TunnelInv, SharedInv', WorkerFinishes PROVE TunnelInv'
<1>1. PICK w \in workers : CapabilityKnown(w[1], w[2])
  BY DEF WorkerFinishes
<1>2. TeardownUsbTunnel \/ UNCHANGED <<fromHost, fromLocal, verified, done>>
  BY <1>1 DEF CapabilityKnown, StartTunnel, socket
<1> QED BY <1>2, TeardownKeepsStreams, UnmovedKeepsStreams

LEMMA StreamsStep == TunnelInv /\ [Next]_vars => TunnelInv'
<1> SUFFICES ASSUME TunnelInv, [Next]_vars PROVE TunnelInv'
  OBVIOUS
<1>1. SharedInv'
  BY SharedStep DEF TunnelInv
<1>2. CASE EnumerateRemoteUsb \/ RefreshRemoteUsbDevices \/ EnablingChanges \/ UNCHANGED vars
  <2>1. UNCHANGED <<fromHost, fromLocal, verified, done>>
    BY <1>2 DEF EnumerateRemoteUsb, RefreshRemoteUsbDevices, EnablingChanges, vars, socket
  <2> QED BY <1>1, <2>1, UnmovedKeepsStreams
<1>3. ASSUME NEW d \in Devices, StartRemoteUsb(d) PROVE TunnelInv'
  <2>1. UNCHANGED <<fromHost, fromLocal, verified, done>>
    BY <1>3 DEF StartRemoteUsb, socket
  <2> QED BY <1>1, <2>1, UnmovedKeepsStreams
<1>4. CASE StopRemoteUsb \/ TryReconnect \/ EndStream \/ TunnelFinishes \/ StartupTimeout
  <2>1. TeardownUsbTunnel
    BY <1>4 DEF StopRemoteUsb, TryReconnect, EndStream, TunnelFinishes, StartupTimeout
  <2> QED BY <1>1, <2>1, TeardownKeepsStreams
<1>5. CASE WorkerFinishes
  BY <1>1, <1>5, WorkerKeepsStreams
<1>6. CASE LocalConnects
  BY <1>1, <1>6, LocalConnectsKeepsStreams
<1>7. CASE RemoteEncrypted
  BY <1>1, <1>7, RemoteEncryptedKeepsStreams
<1>8. ASSUME NEW u \in {Part, Ready, Error} \cup 1..MaxData, HostSends(u) PROVE TunnelInv'
  BY <1>1, <1>8, HostSendsKeepsStreams
<1>9. CASE LocalWritten
  BY <1>1, <1>9, LocalWrittenKeepsStreams
<1>10. CASE ServerSends
  BY <1>1, <1>10, ServerSendsKeepsStreams
<1>11. CASE RemoteWritten
  BY <1>1, <1>11, RemoteWrittenKeepsStreams
<1> QED BY <1>2, <1>3, <1>4, <1>5, <1>6, <1>7, <1>8, <1>9, <1>10, <1>11 DEF Next

LEMMA StreamsAlways == Spec => []TunnelInv
  BY StreamsInit, StreamsStep, PTL DEF Spec

\* At every time what each side was sent, followed by what waits for it on the way, is what
\* the other has sent: the pumps and the handshake's rest neither lose, repeat nor reorder a
\* chunk, for every high-water mark, line limit and amount of data.
THEOREM StreamsKeepOrder == Spec => []StreamsIntact
<1>1. TunnelInv => StreamsIntact
  BY DEF TunnelInv
<1> QED BY <1>1, StreamsAlways, PTL

\* At every time the variables keep their types and every queue respects the mark.
THEOREM TypesHold == Spec => []TypeOK
<1>1. TunnelInv => TypeOK
  BY DEF TunnelInv, SharedInv, SessionTypes, SocketTypes, QueueTypes, Fits, TypeOK
<1> QED BY <1>1, StreamsAlways, PTL

----------------------------------------------------------------------------
\* What ends an opening, and what wakes the pumps.

\* A pending request has its worker, and a tunnel that is not ready its timer.
WaitedInv ==
    /\ pending => \E w \in workers : w[1] = generation
    /\ tunnel # None => timer \/ done

LEMMA WaitedStep == SharedInv /\ WaitedInv /\ [Next]_vars => WaitedInv'
<1> SUFFICES ASSUME SharedInv, WaitedInv, [Next]_vars PROVE WaitedInv'
  OBVIOUS
<1>1. ASSUME TeardownUsbTunnel PROVE WaitedInv'
  <2>1. pending' = FALSE /\ tunnel' = None
    BY <1>1 DEF TeardownUsbTunnel, NoTunnel
  <2> QED BY <2>1 DEF WaitedInv
<1>2. ASSUME UNCHANGED <<pending, generation, workers, tunnel, timer, done>> PROVE WaitedInv'
  BY <1>2 DEF WaitedInv
<1>3. ASSUME NEW in, NEW out, HandleRemoteReadyRead(in, out) PROVE WaitedInv'
  <2>1. /\ UNCHANGED <<pending, generation, workers, tunnel>>
        /\ UNCHANGED <<done, timer>> \/ done'
    BY <1>3, HandlerFacts DEF Kept, capability
  <2> QED BY <2>1 DEF WaitedInv
<1>4. CASE EnumerateRemoteUsb \/ RefreshRemoteUsbDevices \/ EnablingChanges \/ RemoteEncrypted
           \/ ServerSends \/ RemoteWritten \/ UNCHANGED vars
  <2>1. UNCHANGED <<pending, generation, workers, tunnel, timer, done>>
    BY <1>4 DEF EnumerateRemoteUsb, RefreshRemoteUsbDevices, EnablingChanges, RemoteEncrypted,
                ServerSends, RemoteWritten, vars, capability, socket
  <2> QED BY <1>2, <2>1
<1>5. ASSUME NEW d \in Devices, StartRemoteUsb(d) PROVE WaitedInv'
  <2>1. /\ workers' = workers \cup {<<generation', d>>}
        /\ UNCHANGED <<tunnel, timer, done>>
    BY <1>5 DEF StartRemoteUsb, socket
  <2>2. <<generation', d>> \in workers' /\ <<generation', d>>[1] = generation'
    BY <2>1
  <2> QED BY <2>1, <2>2 DEF WaitedInv
<1>6. CASE StopRemoteUsb \/ TryReconnect \/ EndStream \/ TunnelFinishes \/ StartupTimeout
  <2>1. TeardownUsbTunnel
    BY <1>6 DEF StopRemoteUsb, TryReconnect, EndStream, TunnelFinishes, StartupTimeout
  <2> QED BY <1>1, <2>1
<1>7. CASE WorkerFinishes
  <2>1. PICK v \in workers : CapabilityKnown(v[1], v[2])
    BY <1>7 DEF WorkerFinishes
  <2>2. CASE TeardownUsbTunnel
    BY <1>1, <2>2
  <2>3. CASE ~IsCurrent(v[1]) /\ ~TeardownUsbTunnel
    <3>1. /\ workers' = workers \ {<<v[1], v[2]>>}
          /\ UNCHANGED <<pending, generation, tunnel, timer, done>>
      BY <2>1, <2>3 DEF CapabilityKnown, socket
    <3>2. ASSUME NEW w \in workers, w[1] = generation PROVE w \in workers'
      BY <2>3, <3>1, <3>2 DEF IsCurrent
    <3> QED BY <3>1, <3>2 DEF WaitedInv
  <2>4. CASE IsCurrent(v[1]) /\ ~TeardownUsbTunnel
    <3>1. pending' = FALSE /\ timer' = TRUE
      BY <2>1, <2>4 DEF CapabilityKnown, StartTunnel
    <3> QED BY <3>1 DEF WaitedInv
  <2> QED BY <2>2, <2>3, <2>4
<1>8. CASE LocalConnects
  BY <1>1, <1>3, <1>8 DEF LocalConnects, TunnelFinishes
<1>9. ASSUME NEW u \in {Part, Ready, Error} \cup 1..MaxData, HostSends(u) PROVE WaitedInv'
  <2>1. CASE TunnelFinishes
    BY <1>1, <2>1 DEF TunnelFinishes
  <2>2. CASE ~TunnelFinishes
    <3>1. HandleRemoteReadyRead(Append(inRemote, u), toLocal)
      BY <1>9, <2>2 DEF HostSends
    <3> QED BY <1>3, <3>1
  <2> QED BY <2>1, <2>2
<1>10. CASE LocalWritten
  BY <1>3, <1>10 DEF LocalWritten
<1> QED BY <1>4, <1>5, <1>6, <1>7, <1>8, <1>9, <1>10 DEF Next

\* While a device is being opened, a worker or a timer is there to end it, for any devices
\* and any number of requests given up before.
THEOREM OpeningHasAnEnd == Spec => []OpeningIsWaitedFor
<1>1. Init => WaitedInv
  BY DEF Init, WaitedInv
<1>2. Spec => []WaitedInv
  BY <1>1, SharedAlways, WaitedStep, PTL DEF Spec
<1>3. SharedInv /\ WaitedInv => OpeningIsWaitedFor
  BY DEF SharedInv, SharedOnlyWhileAsked, WaitedInv, OpeningIsWaitedFor, IsCurrent
<1> QED BY <1>2, <1>3, SharedAlways, PTL

\* A move leaves something only when the queue is full after it.
LEMMA MoveStops ==
    ASSUME NEW S, NEW f \in Seq(S), NEW q \in Seq(S), Len(q) <= HighWater, Left(f, q) # <<>>
    PROVE  Len(Moved(f, q)) + Len(q) = HighWater
<1> DEFINE n == IF Len(f) < Room(q) THEN Len(f) ELSE Room(q)
<1>1. Len(f) \in Nat /\ Len(q) \in Nat /\ HighWater \in Nat
  BY LenProperties, ConstantFacts
<1>2. n \in 0..Len(f)
  BY <1>1 DEF Room
<1>3. Moved(f, q) = SubSeq(f, 1, n)
  BY DEF Moved
<1>4. CASE Len(f) < Room(q)
  <2>1. n = Len(f)
    BY <1>4
  <2> HIDE DEF n
  <2>2. Left(f, q) \in Seq(S) /\ Len(Moved(f, q)) = n
    BY <1>2, <1>3, SplitAt, MoveFacts
  <2>3. Left(f, q) = SubSeq(f, n + 1, Len(f))
    BY <2>2 DEF Left
  <2>4. Len(SubSeq(f, n + 1, Len(f))) = Len(f) - n
    BY <1>2, SplitAt
  <2>5. Len(Left(f, q)) = 0
    BY <1>1, <2>1, <2>3, <2>4
  <2> QED BY <2>2, <2>5, EmptySeq
<1>5. CASE ~(Len(f) < Room(q))
  <2>1. n = HighWater - Len(q)
    BY <1>5 DEF Room
  <2> HIDE DEF n
  <2>2. Len(Moved(f, q)) = n
    BY <1>2, <1>3, SplitAt
  <2> QED BY <1>1, <2>1, <2>2
<1> QED BY <1>4, <1>5

LEMMA PumpToHostStops ==
    ASSUME NEW ready, NEW in, NEW out, Fits(in), Fits(out), PumpToHost(ready, in, out),
           ready, inLocal' # <<>>
    PROVE  Len(toHost') >= HighWater
<1>1. in \in Seq(Unit) /\ out \in Seq(Unit) /\ Len(out) <= HighWater
  BY DEF Fits
<1>2. inLocal' = Left(in, out) /\ toHost' = out \o Moved(in, out)
  BY DEF PumpToHost
<1>3. Len(Moved(in, out)) + Len(out) = HighWater /\ Moved(in, out) \in Seq(Unit)
  BY <1>1, <1>2, MoveStops, MoveFacts
<1>4. Len(toHost') = Len(out) + Len(Moved(in, out))
  BY <1>1, <1>2, <1>3, ConcatFacts
<1>5. Len(out) \in Nat /\ Len(Moved(in, out)) \in Nat /\ HighWater \in Nat
  BY <1>1, <1>3, LenProperties, ConstantFacts
<1> QED BY <1>3, <1>4, <1>5

LEMMA PumpToLocalStops ==
    ASSUME NEW buf \in Seq(Unit), NEW in, NEW out, Fits(in), Fits(out),
           Fits(inLocal), Fits(toHost), PumpToLocal(buf, in, out)
    PROVE  /\ buffer' # <<>> \/ inRemote' # <<>> => Len(toLocal') >= HighWater
           /\ inLocal' # <<>> => Len(toHost') >= HighWater \/ Len(toLocal') >= HighWater
<1> DEFINE all == buf \o in
           written == Len(Moved(all, out))
<1>1. in \in Seq(Unit) /\ out \in Seq(Unit) /\ Len(out) <= HighWater
  BY DEF Fits
<1>2. /\ buffer' = SubSeq(buf, written + 1, Len(buf))
      /\ inRemote' = IF written < Len(buf) THEN in
                     ELSE SubSeq(in, written - Len(buf) + 1, Len(in))
      /\ toLocal' = out \o Moved(all, out)
      /\ PumpToHost(Drains(buffer', toLocal'), inLocal, toHost)
  BY DEF PumpToLocal
<1>3. all \in Seq(Unit) /\ Len(all) = Len(buf) + Len(in)
  BY <1>1, ConcatFacts
<1> HIDE DEF all
<1>4. /\ Moved(all, out) \in Seq(Unit) /\ written \in 0..Len(all)
      /\ Left(all, out) = SubSeq(all, written + 1, Len(all))
      /\ Left(all, out) # <<>> => written + Len(out) = HighWater
  BY <1>1, <1>3, MoveFacts, MoveStops
<1>5. Len(toLocal') = Len(out) + written /\ toLocal' \in Seq(Unit)
  BY <1>1, <1>2, <1>4, ConcatFacts
<1> HIDE DEF written
<1>6. written \in 0..(Len(buf) + Len(in))
  BY <1>3, <1>4
<1>7. /\ buffer' \in Seq(Unit) /\ inRemote' \in Seq(Unit)
      /\ SubSeq(buf \o in, written + 1, Len(buf \o in)) = buffer' \o inRemote'
  BY <1>1, <1>2, <1>6, SplitConcat
<1>8. buffer' \o inRemote' = Left(all, out)
  BY <1>4, <1>7 DEF all
<1>9. buffer' # <<>> \/ inRemote' # <<>> => Left(all, out) # <<>>
  <2>1. Len(Left(all, out)) = Len(buffer') + Len(inRemote')
    BY <1>7, <1>8, ConcatFacts
  <2>2. /\ Len(buffer') \in Nat /\ (buffer' # <<>> => Len(buffer') # 0)
        /\ Len(inRemote') \in Nat /\ (inRemote' # <<>> => Len(inRemote') # 0)
    BY <1>7, LenProperties, EmptySeq
  <2>3. Left(all, out) = <<>> => Len(Left(all, out)) = 0
    OBVIOUS
  <2> QED BY <2>1, <2>2, <2>3
<1>10. Len(out) \in Nat /\ written \in Nat /\ HighWater \in Nat
  BY <1>1, <1>4, LenProperties, ConstantFacts DEF written
<1>11. buffer' # <<>> \/ inRemote' # <<>> => Len(toLocal') >= HighWater
  BY <1>4, <1>5, <1>9, <1>10
<1>12. CASE Drains(buffer', toLocal')
  BY <1>2, <1>11, <1>12, PumpToHostStops
<1>13. CASE ~Drains(buffer', toLocal')
  <2>1. buffer' # <<>> \/ Len(toLocal') >= HighWater
    BY <1>5, <1>10, <1>13 DEF Drains, Room
  <2> QED BY <1>11, <2>1
<1> QED BY <1>12, <1>13

\* A step of handleRemoteReadyRead() leaves nothing behind that nobody comes back for.
LEMMA HandlerStops ==
    ASSUME SharedInv, QueueTypes, NEW in, NEW out, Fits(in), Fits(out), done => local',
           HandleRemoteReadyRead(in, out)
    PROVE  NoPumpSleeps'
<1> DEFINE line == buffer \o in
<1>1. buffer \in Seq(Unit) /\ Fits(inLocal) /\ Fits(toHost)
  BY DEF QueueTypes
<1>2. done => verified
  BY DEF SharedInv, HandshakeInv
<1>3. in \in Seq(Unit)
  BY DEF Fits
<1>4. CASE done
  <2>1. PumpToLocal(buffer, in, out)
    BY <1>2, <1>4 DEF HandleRemoteReadyRead
  <2> QED BY <1>1, <2>1, PumpToLocalStops DEF NoPumpSleeps
<1>5. CASE ~done /\ verified /\ local' /\ LineEnd(line) # 0
  <2>1. PumpToLocal(Residual(line), <<>>, out)
    BY <1>5 DEF HandleRemoteReadyRead
  <2>2. Residual(line) \in Seq(Unit)
    BY <1>1, <1>3, ConcatFacts, ResidualFacts
  <2>3. Fits(<<>>)
    BY ConstantFacts DEF Fits
  <2> QED BY <1>1, <2>1, <2>2, <2>3, PumpToLocalStops DEF NoPumpSleeps
<1>6. CASE ~done /\ ~(verified /\ local' /\ LineEnd(line) # 0)
  <2>1. done' = done
    BY <1>6 DEF HandleRemoteReadyRead
  <2> QED BY <1>6, <2>1 DEF NoPumpSleeps
<1> QED BY <1>4, <1>5, <1>6

LEMMA AwakeStep == TunnelInv /\ NoPumpSleeps /\ [Next]_vars => NoPumpSleeps'
<1> SUFFICES ASSUME TunnelInv, NoPumpSleeps, [Next]_vars PROVE NoPumpSleeps'
  OBVIOUS
<1>1. /\ SharedInv /\ QueueTypes
      /\ Fits(inRemote) /\ Fits(toLocal) /\ Fits(inLocal) /\ Fits(toHost)
  BY DEF TunnelInv, QueueTypes
<1>2. done => local /\ verified /\ tunnel # None
  BY <1>1 DEF SharedInv, HandshakeInv
<1>3. ASSUME TeardownUsbTunnel PROVE NoPumpSleeps'
  <2>1. done' = FALSE
    BY <1>3 DEF TeardownUsbTunnel, NoTunnel
  <2> QED BY <2>1 DEF NoPumpSleeps
<1>4. ASSUME UNCHANGED <<fromHost, fromLocal, done>> PROVE NoPumpSleeps'
  BY <1>4 DEF fromHost, fromLocal, NoPumpSleeps
<1>5. CASE EnumerateRemoteUsb \/ RefreshRemoteUsbDevices \/ EnablingChanges \/ UNCHANGED vars
  BY <1>4, <1>5 DEF EnumerateRemoteUsb, RefreshRemoteUsbDevices, EnablingChanges, vars, socket
<1>6. ASSUME NEW d \in Devices, StartRemoteUsb(d) PROVE NoPumpSleeps'
  BY <1>4, <1>6 DEF StartRemoteUsb, socket
<1>7. CASE StopRemoteUsb \/ TryReconnect \/ EndStream \/ TunnelFinishes \/ StartupTimeout
  BY <1>3, <1>7 DEF StopRemoteUsb, TryReconnect, EndStream, TunnelFinishes, StartupTimeout
<1>8. CASE WorkerFinishes
  <2>1. PICK w \in workers : CapabilityKnown(w[1], w[2])
    BY <1>8 DEF WorkerFinishes
  <2>2. TeardownUsbTunnel \/ UNCHANGED <<fromHost, fromLocal, done>>
    BY <2>1 DEF CapabilityKnown, StartTunnel, socket
  <2> QED BY <1>3, <1>4, <2>2
<1>9. CASE LocalConnects
  <2>1. CASE TunnelFinishes
    BY <1>3, <2>1 DEF TunnelFinishes
  <2>2. CASE ~TunnelFinishes
    <3>1. local' = TRUE /\ HandleRemoteReadyRead(inRemote, toLocal)
      BY <1>9, <2>2 DEF LocalConnects
    <3> QED BY <1>1, <3>1, HandlerStops
  <2> QED BY <2>1, <2>2
<1>10. CASE RemoteEncrypted
  BY <1>2, <1>10 DEF RemoteEncrypted, NoPumpSleeps
<1>11. ASSUME NEW u \in {Part, Ready, Error} \cup 1..MaxData, HostSends(u) PROVE NoPumpSleeps'
  <2>1. CASE TunnelFinishes
    BY <1>3, <2>1 DEF TunnelFinishes
  <2>2. CASE ~TunnelFinishes
    <3>1. /\ local' = local /\ HandleRemoteReadyRead(Append(inRemote, u), toLocal)
          /\ Len(inRemote) < HighWater
      BY <1>11, <2>2 DEF HostSends
    <3>2. Fits(Append(inRemote, u))
      <4>1. u \in Unit /\ inRemote \in Seq(Unit)
        BY <1>1 DEF Unit, Fits
      <4>2. Append(inRemote, u) \in Seq(Unit) /\ Len(Append(inRemote, u)) = Len(inRemote) + 1
        BY <4>1
      <4> QED BY <3>1, <4>1, <4>2, LenProperties, ConstantFacts DEF Fits
    <3> QED BY <1>1, <1>2, <3>1, <3>2, HandlerStops
  <2> QED BY <2>1, <2>2
<1>12. CASE LocalWritten
  <2>1. toLocal # <<>> /\ local' = local /\ HandleRemoteReadyRead(inRemote, Tail(toLocal))
    BY <1>12 DEF LocalWritten
  <2>2. Fits(Tail(toLocal))
    BY <1>1, <2>1, HeadMoves DEF TunnelInv, QueueTypes
  <2> QED BY <1>1, <1>2, <2>1, <2>2, HandlerStops
<1>13. ASSUME NEW in, NEW out, Fits(in), Fits(out), PumpToHost(done, in, out),
              UNCHANGED <<fromHost, done>>
       PROVE  NoPumpSleeps'
  <2>1. done /\ inLocal' # <<>> => Len(toHost') >= HighWater
    BY <1>13, PumpToHostStops
  <2> QED BY <1>13, <2>1 DEF fromHost, NoPumpSleeps
<1>14. CASE ServerSends
  <2>1. /\ PumpToHost(done, Append(inLocal, sent'), toHost) /\ Len(inLocal) < HighWater
        /\ UNCHANGED <<fromHost, done>> /\ sent' = sent + 1 /\ sent < MaxData
    BY <1>14 DEF ServerSends, socket
  <2>2. Fits(Append(inLocal, sent'))
    <3>1. sent \in 0..MaxData
      BY DEF TunnelInv, QueueTypes
    <3>2. sent' \in Unit /\ inLocal \in Seq(Unit)
      BY <1>1, <2>1, <3>1, ConstantFacts DEF Unit, Fits
    <3>3. Append(inLocal, sent') \in Seq(Unit) /\ Len(Append(inLocal, sent')) = Len(inLocal) + 1
      BY <3>2
    <3> QED BY <2>1, <3>2, <3>3, LenProperties, ConstantFacts DEF Fits
  <2> QED BY <1>1, <1>13, <2>1, <2>2
<1>15. CASE RemoteWritten
  <2>1. /\ toHost # <<>> /\ PumpToHost(done, inLocal, Tail(toHost))
        /\ UNCHANGED <<fromHost, done>>
    BY <1>15 DEF RemoteWritten, socket
  <2>2. Fits(Tail(toHost))
    BY <1>1, <2>1, HeadMoves DEF TunnelInv, QueueTypes
  <2> QED BY <1>1, <1>13, <2>1, <2>2
<1> QED BY <1>5, <1>6, <1>7, <1>8, <1>9, <1>10, <1>11, <1>12, <1>14, <1>15 DEF Next

\* Whatever a ready tunnel has not passed on is behind a full queue that is being written,
\* for every high-water mark and whatever came with the handshake.
THEOREM PumpsStayAwake == Spec => []NoPumpSleeps
<1>1. Init => NoPumpSleeps
  BY DEF Init, NoPumpSleeps
<1> QED BY <1>1, StreamsAlways, AwakeStep, PTL DEF Spec

=============================================================================
