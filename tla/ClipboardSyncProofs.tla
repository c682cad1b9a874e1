------------------------ MODULE ClipboardSyncProofs ------------------------
(***************************************************************************)
(* Proofs about the clipboard engine, for any items, sizes and limits, and *)
(* any number of copies and frames: the count of self-writes never         *)
(* swallows the user's copy where writes are announced one by one, file    *)
(* clipboards are left alone, the table of bursts stays bounded, and       *)
(* nothing of the host's is sent back to it.                               *)
(***************************************************************************)
EXTENDS ClipboardSync, FiniteSetTheorems, TLAPS

\* The counters' types.
CounterTypes ==
    /\ platform \in Platforms
    /\ notices \in Nat /\ pending \in Nat
    /\ looked \in BOOLEAN

\* A counted write has its announcement still to come; one that is announced
\* at once is not counted any more.
CountedIsAnnounced ==
    /\ platform = "posted" => pending <= notices
    /\ platform = "sync" => pending = 0

\* An announcement is left for a copy of the user that was not looked at.
UnseenIsAnnounced ==
    platform \in {"posted", "sync"} /\ board.by = "user" /\ ~looked => pending < notices

CInv == CounterTypes /\ CountedIsAnnounced /\ UnseenIsAnnounced

----------------------------------------------------------------------------
\* The counters.

\* What Platform() does to the counters.
LEMMA PlatformCounts ==
    ASSUME CInv, UNCHANGED platform,
           NEW content, content.by = "host", NEW native, Platform(content, native)
    PROVE  CInv'
  <1>1. platform' = platform /\ looked' = FALSE /\ board' = content
    BY DEF Platform
  <1>2. platform = "posted" => pending' = pending + 1 /\ notices' \in {notices + 1, notices + 2}
    BY DEF Platform, OneMore, Announced
  <1>3. platform = "sync" => pending' = pending /\ notices' = notices
    BY DEF Platform
  <1>4. platform = "polled" => pending' \in {pending, pending + 1} /\ notices' \in {0, 1}
    BY DEF Platform, OneMore
  <1>5. CounterTypes'
    <2>1. notices' \in Nat /\ pending' \in Nat
      BY <1>2, <1>3, <1>4 DEF CInv, CounterTypes, Platforms
    <2> QED
      BY <2>1, <1>1 DEF CInv, CounterTypes
  <1>6. CountedIsAnnounced'
    BY <1>1, <1>2, <1>3 DEF CInv, CounterTypes, CountedIsAnnounced
  <1>7. UnseenIsAnnounced'
    BY <1>1 DEF UnseenIsAnnounced
  <1> QED
    BY <1>5, <1>6, <1>7 DEF CInv

\* Nor does an apply that writes nothing.
LEMMA NoWriteCounts == CInv /\ UNCHANGED platform /\ NoWrite => CInv'
  BY DEF CInv, CounterTypes, CountedIsAnnounced, UnseenIsAnnounced, NoWrite, caches

LEMMA HostWrites == \A t, i : FromHost(t, i).by = "host"
  BY DEF FromHost

LEMMA TextCounts == ASSUME CInv, UNCHANGED platform, NEW t, ApplyInboundText(t)
                    PROVE  CInv'
  BY PlatformCounts, NoWriteCounts, HostWrites DEF ApplyInboundText

LEMMA PngCounts == ASSUME CInv, UNCHANGED platform, NEW i, ApplyInboundPng(i)
                   PROVE  CInv'
  BY PlatformCounts, NoWriteCounts, HostWrites DEF ApplyInboundPng

LEMMA CompoundCounts == ASSUME CInv, UNCHANGED platform, NEW t, NEW i, ApplyCompound(t, i)
                        PROVE  CInv'
  <1>1. CASE ~MayOverwrite
    BY <1>1, NoWriteCounts DEF ApplyCompound
  <1>2. CASE MayOverwrite /\ t \notin Corrupt /\ i \notin Corrupt
    <2>1. PICK s, native : Platform(FromHost(s, i), native)
      BY <1>2 DEF ApplyCompound
    <2> QED
      BY <2>1, PlatformCounts, HostWrites
  <1>3. CASE MayOverwrite /\ (t \in Corrupt \/ i \in Corrupt)
    <2>1. ApplyInboundText(t) \/ ApplyInboundPng(i)
      BY <1>3 DEF ApplyCompound
    <2> QED
      BY <2>1, TextCounts, PngCounts
  <1> QED
    BY <1>1, <1>2, <1>3

LEMMA BurstCounts == ASSUME CInv, UNCHANGED platform, NEW token, NEW item,
                            HandleBurstFrame(token, item)
                     PROVE  CInv'
  <1>1. CASE HandleBurstText(token, item)
    BY <1>1, NoWriteCounts DEF HandleBurstText
  <1>2. CASE HandleBurstPng(token, item)
    <2>1. PICK b \in Opened(token) :
             \/ NoWrite
             \/ ApplyCompound(b[token].text, item)
             \/ ApplyInboundPng(item)
      BY <1>2 DEF HandleBurstPng
    <2> QED
      BY <2>1, NoWriteCounts, CompoundCounts, PngCounts
  <1> QED
    BY <1>1, <1>2 DEF HandleBurstFrame

LEMMA ApplyCounts == ASSUME CInv, UNCHANGED platform, NEW item, Apply(item)
                     PROVE  CInv'
  BY TextCounts, PngCounts DEF Apply

\* Every step keeps the counters' invariant.
LEMMA CountersKept == CInv /\ [Next]_vars => CInv'
  <1> SUFFICES ASSUME CInv, [Next]_vars
               PROVE  CInv'
    OBVIOUS
  <1>1. ASSUME NEW token, NEW item, IncomingInline(token, item)
        PROVE  CInv'
    BY <1>1, ApplyCounts, BurstCounts DEF IncomingInline
  <1>2. ASSUME NEW f, Fetched(f)
        PROVE  CInv'
    BY <1>2, ApplyCounts, BurstCounts DEF Fetched
  <1> USE DEF CInv, CounterTypes, CountedIsAnnounced, UnseenIsAnnounced, caches, outgoing
  <1>3. ASSUME NEW token, NEW item, IncomingRef(token, item)
        PROVE  CInv'
    BY <1>3 DEF IncomingRef
  <1>4. ASSUME NEW f, FetchFails(f)
        PROVE  CInv'
    BY <1>4 DEF FetchFails
  <1>5. ASSUME NEW token, BurstExpires(token)
        PROVE  CInv'
    BY <1>5 DEF BurstExpires
  <1>6. CASE Absorb
    BY <1>6 DEF Absorb, Absorbed
  <1>7. CASE Look
    <2>1. /\ notices > 0 /\ pending = 0 /\ notices' = notices - 1 /\ looked' = TRUE
          /\ UNCHANGED <<platform, board, pending>>
      BY <1>7 DEF Look
    <2>2. CounterTypes' /\ CountedIsAnnounced'
      BY <2>1 DEF Platforms
    <2>3. UnseenIsAnnounced'
      BY <2>1
    <2> QED
      BY <2>2, <2>3
  <1>8. ASSUME NEW u, Uploaded(u) \/ UploadFails(u)
        PROVE  CInv'
    BY <1>8 DEF Uploaded, UploadFails
  <1>9. CASE EchoExpires
    BY <1>9 DEF EchoExpires
  <1>10. ASSUME NEW t, NEW i, NEW files, UserCopies(t, i, files)
         PROVE  CInv'
    <2>1. /\ UNCHANGED <<platform, pending>> /\ looked' = FALSE
          /\ notices' = IF platform = "polled" THEN 1 ELSE notices + 1
      BY <1>10 DEF UserCopies, Noticed
    <2>2. notices' \in Nat /\ pending' \in Nat
      BY <2>1
    <2>3. CounterTypes'
      BY <2>1, <2>2
    <2>4. CountedIsAnnounced' /\ UnseenIsAnnounced'
      <3>1. platform = "posted" => pending' < notices'
        BY <2>1
      <3>2. platform = "sync" => pending' = 0 /\ pending' < notices'
        BY <2>1
      <3>3. platform = "posted" => pending' <= notices'
        BY <3>1, <2>2
      <3> QED
        BY <3>1, <3>2, <3>3, <2>1
    <2> QED
      BY <2>3, <2>4
  <1>11. CASE Reencode
    BY <1>11 DEF Reencode
  <1>12. CASE UNCHANGED vars
    BY <1>12 DEF vars
  <1> QED
    BY <1>1, <1>2, <1>3, <1>4, <1>5, <1>6, <1>7, <1>8, <1>9, <1>10, <1>11, <1>12 DEF Next

\* Where writes are announced one by one, what the user copied is looked at by
\* the time the last announcement was handled, however many writes of the host
\* and doubled announcements come in between.
THEOREM UserCopiesAreSeen == Spec => []LocalCopiesSeen
  <1>1. Init => CInv
    BY DEF Init, CInv, CounterTypes, CountedIsAnnounced, UnseenIsAnnounced
  <1>2. CInv /\ [Next]_vars => CInv'
    BY CountersKept
  <1>3. CInv => LocalCopiesSeen
    BY DEF CInv, CounterTypes, CountedIsAnnounced, UnseenIsAnnounced, LocalCopiesSeen
  <1> QED
    BY <1>1, <1>2, <1>3, PTL DEF Spec

----------------------------------------------------------------------------
\* File clipboards.

\* The host's content comes without files.
HostHasNoFiles ==
    /\ DOMAIN board = {"text", "img", "enc", "files", "by"}
    /\ board.by = "host" => ~HasFileReferences

\* What a step may do to the clipboard: nothing, or the host writes where there
\* are no files, or the user copies, or macOS re-encodes.
Written   == ~HasFileReferences /\ \E t, i : board' = FromHost(t, i)
Copied    == \E t, i, files : UserCopies(t, i, files)
Disturbed == UNCHANGED board \/ Written \/ Copied \/ Reencode

LEMMA PlatformWrites ==
    ASSUME ~HasFileReferences, NEW t, NEW i, NEW native, Platform(FromHost(t, i), native)
    PROVE  Disturbed
  BY DEF Platform, Written, Disturbed

LEMMA ApplyWrites ==
    ASSUME NEW item, ApplyInboundText(item) \/ ApplyInboundPng(item)
    PROVE  Disturbed
  <1>1. CASE NoWrite
    BY <1>1 DEF NoWrite, Disturbed
  <1>2. CASE ~NoWrite
    BY <1>2, PlatformWrites DEF ApplyInboundText, ApplyInboundPng, MayOverwrite
  <1> QED
    BY <1>1, <1>2

LEMMA BurstWrites ==
    ASSUME NEW token, NEW item, HandleBurstFrame(token, item)
    PROVE  Disturbed
  <1>1. CASE HandleBurstText(token, item)
    BY <1>1 DEF HandleBurstText, NoWrite, Disturbed
  <1>2. CASE HandleBurstPng(token, item)
    <2>1. PICK b \in Opened(token) :
             \/ NoWrite
             \/ ApplyCompound(b[token].text, item)
             \/ ApplyInboundPng(item)
      BY <1>2 DEF HandleBurstPng
    <2>2. CASE NoWrite
      BY <2>2 DEF NoWrite, Disturbed
    <2>3. CASE ApplyCompound(b[token].text, item)
      BY <2>3, PlatformWrites, ApplyWrites DEF ApplyCompound, MayOverwrite, NoWrite, Disturbed
    <2> QED
      BY <2>1, <2>2, <2>3, ApplyWrites
  <1> QED
    BY <1>1, <1>2 DEF HandleBurstFrame

LEMMA StepDisturbs == [Next]_vars => Disturbed
  <1> SUFFICES ASSUME [Next]_vars
               PROVE  Disturbed
    OBVIOUS
  <1>1. ASSUME NEW token, NEW item, IncomingInline(token, item)
        PROVE  Disturbed
    BY <1>1, ApplyWrites, BurstWrites DEF IncomingInline, Apply
  <1>2. ASSUME NEW f, Fetched(f)
        PROVE  Disturbed
    BY <1>2, ApplyWrites, BurstWrites DEF Fetched, Apply
  <1>3. ASSUME NEW t, NEW i, NEW files, UserCopies(t, i, files)
        PROVE  Disturbed
    BY <1>3 DEF Copied, Disturbed
  <1>4. Reencode \/ UNCHANGED board => Disturbed
    BY DEF Disturbed
  <1> QED
    BY <1>1, <1>2, <1>3, <1>4 DEF Next, IncomingRef, FetchFails, BurstExpires, Absorb,
       Look, Uploaded, UploadFails, EchoExpires, vars

\* Nothing the host sends, in whatever form, replaces files on the clipboard.
THEOREM FilesAreKept == Spec => FilesKept
  <1> USE DEF HostHasNoFiles, HasFileReferences
  <1>1. Init => HostHasNoFiles
    BY DEF Init
  <1>2. HostHasNoFiles /\ [Next]_vars => HostHasNoFiles'
    <2> SUFFICES ASSUME HostHasNoFiles, [Next]_vars
                 PROVE  HostHasNoFiles'
      OBVIOUS
    <2>1. CASE UNCHANGED board
      BY <2>1
    <2>2. CASE Written
      BY <2>2 DEF Written, FromHost
    <2>3. CASE Copied
      BY <2>3 DEF Copied, UserCopies
    <2>4. CASE Reencode
      BY <2>4 DEF Reencode
    <2> QED
      BY <2>1, <2>2, <2>3, <2>4, StepDisturbs DEF Disturbed
  <1>3. HostHasNoFiles /\ [Next]_vars
        => [HasFileReferences /\ board' # board => board'.by = "user"]_vars
    <2> SUFFICES ASSUME HostHasNoFiles, Next, HasFileReferences, board' # board
                 PROVE  board'.by = "user"
      OBVIOUS
    <2>1. Copied
      BY StepDisturbs DEF Disturbed, Written, Reencode
    <2> QED
      BY <2>1 DEF Copied, UserCopies
  <1> QED
    BY <1>1, <1>2, <1>3, PTL DEF Spec, FilesKept

----------------------------------------------------------------------------
\* The table of bursts.

BurstsFinite == IsFiniteSet(DOMAIN bursts) /\ BurstsBounded

LEMMA RemoveShrinks ==
    ASSUME NEW b, IsFiniteSet(DOMAIN b), NEW t \in DOMAIN b
    PROVE  /\ IsFiniteSet(DOMAIN RemoveBurst(b, t))
           /\ Cardinality(DOMAIN RemoveBurst(b, t)) = Cardinality(DOMAIN b) - 1
           /\ Cardinality(DOMAIN RemoveBurst(b, t)) \in Nat
  <1>1. DOMAIN RemoveBurst(b, t) = DOMAIN b \ {t}
    BY DEF RemoveBurst, Restrict
  <1> QED
    BY <1>1, FS_RemoveElement, FS_CardinalityType

LEMMA WithGrows ==
    ASSUME NEW b, IsFiniteSet(DOMAIN b), NEW t
    PROVE  /\ IsFiniteSet(DOMAIN WithBurst(b, t))
           /\ Cardinality(DOMAIN WithBurst(b, t)) <= Cardinality(DOMAIN b) + 1
  <1>1. DOMAIN WithBurst(b, t) = DOMAIN b \cup {t}
    BY DEF WithBurst
  <1>2. /\ IsFiniteSet(DOMAIN b \cup {t})
        /\ \/ Cardinality(DOMAIN b \cup {t}) = Cardinality(DOMAIN b)
           \/ Cardinality(DOMAIN b \cup {t}) = Cardinality(DOMAIN b) + 1
    BY FS_AddElement
  <1>3. Cardinality(DOMAIN b) \in Nat
    BY FS_CardinalityType
  <1> QED
    BY <1>1, <1>2, <1>3

\* A table with the burst of a token opened is no larger than the limit.
LEMMA OpenedBounded ==
    ASSUME BurstsFinite, NEW token, NEW b \in Opened(token)
    PROVE  IsFiniteSet(DOMAIN b) /\ Cardinality(DOMAIN b) <= MAX_PENDING_BURSTS
  <1> USE ClipboardAssumption, FS_CardinalityType DEF BurstsFinite, BurstsBounded
  <1>1. CASE b = bursts
    BY <1>1
  <1>2. ASSUME NEW t \in DOMAIN bursts, b = WithBurst(RemoveBurst(bursts, t), token)
        PROVE  IsFiniteSet(DOMAIN b) /\ Cardinality(DOMAIN b) <= MAX_PENDING_BURSTS
    <2> DEFINE r == RemoveBurst(bursts, t)
    <2>1. /\ IsFiniteSet(DOMAIN r) /\ Cardinality(DOMAIN r) = Cardinality(DOMAIN bursts) - 1
      BY RemoveShrinks
    <2>2. IsFiniteSet(DOMAIN b) /\ Cardinality(DOMAIN b) <= Cardinality(DOMAIN r) + 1
      BY <1>2, <2>1, WithGrows
    <2>3. Cardinality(DOMAIN b) \in Nat
      BY <2>2
    <2> HIDE DEF r
    <2> QED
      BY <2>1, <2>2, <2>3
  <1>3. CASE ~Full(bursts) /\ b = WithBurst(bursts, token)
    <2>1. IsFiniteSet(DOMAIN b) /\ Cardinality(DOMAIN b) <= Cardinality(DOMAIN bursts) + 1
      BY <1>3, WithGrows
    <2>2. Cardinality(DOMAIN b) \in Nat /\ Cardinality(DOMAIN bursts) \in Nat
      BY <2>1
    <2>3. Cardinality(DOMAIN bursts) < MAX_PENDING_BURSTS
      BY <1>3, <2>2 DEF Full
    <2> QED
      BY <2>1, <2>2, <2>3
  <1> QED
    BY <1>1, <1>2, <1>3 DEF Opened

LEMMA HandleBounded ==
    ASSUME BurstsFinite, NEW token, NEW item, HandleBurstFrame(token, item)
    PROVE  BurstsFinite'
  <1>1. PICK b \in Opened(token) : DOMAIN bursts' = DOMAIN b
    <2>1. CASE HandleBurstText(token, item)
      BY <2>1 DEF HandleBurstText
    <2>2. CASE HandleBurstPng(token, item)
      BY <2>2 DEF HandleBurstPng
    <2> QED
      BY <2>1, <2>2 DEF HandleBurstFrame
  <1> QED
    BY <1>1, OpenedBounded DEF BurstsFinite, BurstsBounded

\* No sequence of frames and blobs grows the table beyond its limit.
THEOREM BurstsAreBounded == Spec => []BurstsBounded
  <1>1. Init => BurstsFinite
    <2> SUFFICES ASSUME Init
                 PROVE  BurstsFinite
      OBVIOUS
    <2>1. DOMAIN bursts = {}
      BY DEF Init
    <2> QED
      BY <2>1, FS_EmptySet, ClipboardAssumption DEF BurstsFinite, BurstsBounded
  <1>2. BurstsFinite /\ [Next]_vars => BurstsFinite'
    <2> SUFFICES ASSUME BurstsFinite, [Next]_vars
                 PROVE  BurstsFinite'
      OBVIOUS
    <2>1. ASSUME UNCHANGED bursts
          PROVE  BurstsFinite'
      BY <2>1 DEF BurstsFinite, BurstsBounded
    <2>2. ASSUME NEW token, NEW item, IncomingInline(token, item)
          PROVE  BurstsFinite'
      BY <2>1, <2>2, HandleBounded DEF IncomingInline
    <2>3. ASSUME NEW f, Fetched(f)
          PROVE  BurstsFinite'
      BY <2>1, <2>3, HandleBounded DEF Fetched
    <2>4. ASSUME NEW token, BurstExpires(token)
          PROVE  BurstsFinite'
      <3>1. /\ IsFiniteSet(DOMAIN bursts') /\ Cardinality(DOMAIN bursts') \in Nat
            /\ Cardinality(DOMAIN bursts') = Cardinality(DOMAIN bursts) - 1
        BY <2>4, RemoveShrinks DEF BurstExpires, BurstsFinite
      <3>2. Cardinality(DOMAIN bursts) \in Nat
        BY FS_CardinalityType DEF BurstsFinite
      <3>3. Cardinality(DOMAIN bursts') <= MAX_PENDING_BURSTS
        BY <3>1, <3>2, ClipboardAssumption DEF BurstsFinite, BurstsBounded
      <3> QED
        BY <3>1, <3>3 DEF BurstsFinite, BurstsBounded
    <2> QED
      BY <2>1, <2>2, <2>3, <2>4 DEF Next, IncomingRef, FetchFails, Absorb, Look, Uploaded,
         UploadFails, EchoExpires, UserCopies, Reencode, vars
  <1> QED
    BY <1>1, <1>2, PTL DEF Spec, BurstsFinite

----------------------------------------------------------------------------
\* What is sent.

\* An entry of m_EchoCache.
Hashes == Texts \cup (Images \X Encodings)

\* TypeOK in groups: the clipboard and its counters, ...
BoardTypes ==
    /\ platform \in Platforms /\ board \in Boards
    /\ notices \in Nat /\ pending \in Nat
    /\ looked \in BOOLEAN

\* ... the echo caches, ...
CacheTypes == echoes \in Seq(Hashes) /\ pixels \in Seq(Images)

\* ... a table of bursts, ...
BurstTable(b) ==
    /\ DOMAIN b \subseteq Tokens \ {0}
    /\ \A t \in DOMAIN b : b[t] \in Payloads

\* ... what goes to the host, ...
OutgoingTypes ==
    /\ nextToken \in Tokens \ {0}
    /\ uploads \subseteq Transfers
    /\ wire \in Seq([token : Tokens, item : Items])

\* ... and the rest.
OtherTypes ==
    /\ fetches \subseteq Transfers
    /\ copies \in 0 .. MaxCopies /\ pushes \in 0 .. MaxPushes
    /\ copied \subseteq Items

LEMMA TypesGrouped ==
    TypeOK <=>
        /\ BoardTypes
        /\ CacheTypes
        /\ BurstTable(bursts)
        /\ OutgoingTypes
        /\ OtherTypes
  BY DEF TypeOK, BoardTypes, CacheTypes, BurstTable, OutgoingTypes, OtherTypes, Hashes

LEMMA TypesGroupedNext ==
    BoardTypes' /\ CacheTypes' /\ BurstTable(bursts)' /\ OutgoingTypes' /\ OtherTypes' => TypeOK'
  BY DEF TypeOK, BoardTypes, CacheTypes, BurstTable, OutgoingTypes, OtherTypes, Hashes

\* While a change is still to be looked at, the caches know what the host put
\* on the clipboard: its text by its bytes, its image by its pixels.
CachesKnowHost ==
    board.by = "host" /\ notices > 0 =>
        /\ board.text \in Range(echoes) \cup {None}
        /\ board.img \in Range(pixels) \cup {None}

\* What the user put on the clipboard counts as copied.
UserBoardCopied ==
    board.by = "user" => {board.text, board.img} \ {None} \subseteq copied

EchoInv == TypeOK /\ CachesKnowHost /\ UserBoardCopied /\ OnlyUserContentSent

\* A cache keeps what is recorded, and the entry before it.
LEMMA RecordedKnows ==
    ASSUME NEW S, NEW q \in Seq(S), NEW h \in S
    PROVE  /\ Recorded(q, h) \in Seq(S)
           /\ Len(Recorded(q, h)) > 0
           /\ Recorded(q, h)[Len(Recorded(q, h))] = h
           /\ h \in Range(Recorded(q, h))
  <1> DEFINE r == Recorded(q, h)
  <1>1. CASE Len(q) < ECHO_MAX
    BY <1>1 DEF Recorded, Range
  <1>2. CASE ~(Len(q) < ECHO_MAX)
    <2>1. q # <<>>
      BY <1>2, ClipboardAssumption
    <2>2. Tail(q) \in Seq(S)
      BY <2>1
    <2>3. r = Append(Tail(q), h)
      BY <1>2 DEF Recorded
    <2> QED
      BY <2>2, <2>3 DEF Range
  <1> QED
    BY <1>1, <1>2

LEMMA RecordedKnowsTwo ==
    ASSUME NEW S, NEW q \in Seq(S), NEW h \in S, NEW g \in S
    PROVE  h \in Range(Recorded(Recorded(q, h), g))
  <1> DEFINE r == Recorded(q, h)
  <1>1. r \in Seq(S) /\ Len(r) > 0 /\ r[Len(r)] = h
    BY RecordedKnows
  <1> HIDE DEF r
  <1>2. CASE Len(r) < ECHO_MAX
    <2>1. Recorded(r, g) = Append(r, g)
      BY <1>2 DEF Recorded
    <2> QED
      BY <1>1, <2>1 DEF Range, r
  <1>3. CASE ~(Len(r) < ECHO_MAX)
    <2>1. Len(r) >= 2
      BY <1>1, <1>3, ClipboardAssumption
    <2>2. /\ Recorded(r, g) = Append(Tail(r), g)
          /\ Tail(r) \in Seq(S) /\ Len(Tail(r)) = Len(r) - 1
          /\ Tail(r)[Len(r) - 1] = r[Len(r)]
      BY <1>1, <1>3, <2>1 DEF Recorded
    <2>3. /\ Append(Tail(r), g)[Len(r) - 1] = h
          /\ Len(r) - 1 \in DOMAIN Append(Tail(r), g)
      BY <1>1, <2>1, <2>2
    <2> QED
      BY <2>2, <2>3 DEF Range, r
  <1> QED
    BY <1>2, <1>3 DEF r

----------------------------------------------------------------------------
\* What the host's frames do.

\* The host's content is on the clipboard and the caches know it.
HostWrote ==
    /\ BoardTypes' /\ CacheTypes'
    /\ board'.by = "host"
    /\ board'.text \in Range(echoes') \cup {None}
    /\ board'.img \in Range(pixels') \cup {None}

LEMMA PlatformTypes ==
    ASSUME BoardTypes, UNCHANGED platform,
           NEW t \in Texts \cup {None}, NEW i \in Images \cup {None}, NEW native,
           Platform(FromHost(t, i), native)
    PROVE  /\ BoardTypes'
           /\ board'.by = "host" /\ board'.text = t /\ board'.img = i
  <1>1. board' = FromHost(t, i) /\ looked' = FALSE
    BY DEF Platform
  <1>2. FromHost(t, i) \in Boards
    BY DEF FromHost, Boards, Encodings
  <1>3. notices' \in Nat /\ pending' \in Nat
    BY DEF Platform, OneMore, Announced, BoardTypes
  <1> QED
    BY <1>1, <1>2, <1>3 DEF BoardTypes, FromHost

LEMMA TextWrites ==
    ASSUME BoardTypes, CacheTypes, UNCHANGED platform,
           NEW t \in Texts, ApplyInboundText(t)
    PROVE  NoWrite \/ HostWrote
  <1> SUFFICES ASSUME ~NoWrite
               PROVE  HostWrote
    OBVIOUS
  <1>1. /\ echoes' = Recorded(echoes, t) /\ pixels' = pixels
        /\ Platform(FromHost(t, None), FALSE)
    BY DEF ApplyInboundText
  <1>2. echoes' \in Seq(Hashes) /\ t \in Range(echoes')
    BY <1>1, RecordedKnows DEF CacheTypes, Hashes
  <1> QED
    BY <1>1, <1>2, PlatformTypes DEF HostWrote, CacheTypes

LEMMA PngWrites ==
    ASSUME BoardTypes, CacheTypes, UNCHANGED platform,
           NEW i \in Images, ApplyInboundPng(i)
    PROVE  NoWrite \/ HostWrote
  <1> SUFFICES ASSUME ~NoWrite
               PROVE  HostWrote
    OBVIOUS
  <1>1. /\ echoes' = Recorded(echoes, <<i, "wire">>) /\ pixels' = Recorded(pixels, i)
        /\ Platform(FromHost(None, i), FALSE)
    BY DEF ApplyInboundPng, PixelsAfter
  <1>2. <<i, "wire">> \in Hashes
    BY DEF Hashes, Encodings
  <1>3. echoes' \in Seq(Hashes) /\ pixels' \in Seq(Images) /\ i \in Range(pixels')
    BY <1>1, <1>2, RecordedKnows DEF CacheTypes
  <1> QED
    BY <1>1, <1>3, PlatformTypes DEF HostWrote, CacheTypes

LEMMA CompoundWrites ==
    ASSUME BoardTypes, CacheTypes, UNCHANGED platform,
           NEW t \in Texts, NEW i \in Images, ApplyCompound(t, i)
    PROVE  NoWrite \/ HostWrote
  <1>1. CASE MayOverwrite /\ t \notin Corrupt /\ i \notin Corrupt
    <2>1. /\ echoes' = Recorded(Recorded(echoes, t), <<i, "wire">>)
          /\ pixels' = Recorded(pixels, i)
          /\ \E s \in {t, None} : \E native : Platform(FromHost(s, i), native)
      BY <1>1 DEF ApplyCompound, PixelsAfter
    <2>2. t \in Hashes /\ <<i, "wire">> \in Hashes
      BY DEF Hashes, Encodings
    <2>3. Recorded(echoes, t) \in Seq(Hashes)
      BY <2>2, RecordedKnows DEF CacheTypes
    <2>4. echoes' \in Seq(Hashes) /\ t \in Range(echoes')
      BY <2>1, <2>2, <2>3, RecordedKnows, RecordedKnowsTwo DEF CacheTypes
    <2>5. pixels' \in Seq(Images) /\ i \in Range(pixels')
      BY <2>1, RecordedKnows DEF CacheTypes
    <2>6. PICK s \in {t, None} : \E native : Platform(FromHost(s, i), native)
      BY <2>1
    <2>7. PICK native : Platform(FromHost(s, i), native)
      BY <2>6
    <2>8. BoardTypes' /\ board'.by = "host" /\ board'.text = s /\ board'.img = i
      BY <2>7, PlatformTypes
    <2> QED
      BY <2>4, <2>5, <2>8 DEF HostWrote, CacheTypes
  <1>2. CASE ~(MayOverwrite /\ t \notin Corrupt /\ i \notin Corrupt)
    <2>1. NoWrite \/ ApplyInboundText(t) \/ ApplyInboundPng(i)
      BY <1>2 DEF ApplyCompound
    <2> QED
      BY <2>1, TextWrites, PngWrites
  <1> QED
    BY <1>1, <1>2

LEMMA ItemWrites ==
    ASSUME BoardTypes, CacheTypes, UNCHANGED platform, NEW item \in Items, Apply(item)
    PROVE  NoWrite \/ HostWrote
  BY TextWrites, PngWrites DEF Apply, Items

LEMMA OpenedTypes ==
    ASSUME BurstTable(bursts), NEW token \in Tokens \ {0}, NEW b \in Opened(token)
    PROVE  BurstTable(b) /\ token \in DOMAIN b
  <1>1. EmptyBurst \in Payloads
    BY DEF EmptyBurst, Payloads
  <1>2. ASSUME NEW c, BurstTable(c)
        PROVE  BurstTable(WithBurst(c, token)) /\ token \in DOMAIN WithBurst(c, token)
    BY <1>1, <1>2 DEF BurstTable, WithBurst
  <1>3. ASSUME NEW t
        PROVE  BurstTable(RemoveBurst(bursts, t))
    BY <1>3 DEF BurstTable, RemoveBurst, Restrict
  <1> QED
    BY <1>2, <1>3 DEF Opened

LEMMA BurstHandled ==
    ASSUME BoardTypes, CacheTypes, BurstTable(bursts), UNCHANGED platform,
           NEW token \in Tokens \ {0}, NEW item \in Items, HandleBurstFrame(token, item)
    PROVE  BurstTable(bursts') /\ (NoWrite \/ HostWrote)
  <1>1. ASSUME item \in Texts, HandleBurstText(token, item)
        PROVE  BurstTable(bursts') /\ NoWrite
    <2>1. PICK b \in Opened(token) :
             bursts' = IF b[token].text = None THEN [b EXCEPT ![token].text = item] ELSE b
      BY <1>1 DEF HandleBurstText
    <2>2. BurstTable(b) /\ token \in DOMAIN b
      BY OpenedTypes
    <2>3. BurstTable([b EXCEPT ![token].text = item])
      BY <1>1, <2>2 DEF BurstTable, Payloads
    <2> QED
      BY <1>1, <2>1, <2>2, <2>3 DEF HandleBurstText
  <1>2. ASSUME item \in Images, HandleBurstPng(token, item)
        PROVE  BurstTable(bursts') /\ (NoWrite \/ HostWrote)
    <2>1. PICK b \in Opened(token) :
             IF b[token].png # None THEN bursts' = b /\ NoWrite
             ELSE /\ bursts' = [b EXCEPT ![token].png = item]
                  /\ IF b[token].text # None THEN ApplyCompound(b[token].text, item)
                     ELSE ApplyInboundPng(item)
      BY <1>2 DEF HandleBurstPng
    <2>2. BurstTable(b) /\ token \in DOMAIN b
      BY OpenedTypes
    <2>3. BurstTable([b EXCEPT ![token].png = item])
      BY <1>2, <2>2 DEF BurstTable, Payloads
    <2>4. b[token].text \in Texts \cup {None}
      BY <2>2 DEF BurstTable, Payloads
    <2>5. NoWrite \/ HostWrote
      BY <1>2, <2>1, <2>4, CompoundWrites, PngWrites
    <2> QED
      BY <2>1, <2>2, <2>3, <2>5
  <1> QED
    BY <1>1, <1>2 DEF HandleBurstFrame, Items

----------------------------------------------------------------------------
\* Every step keeps the invariant.

LEMMA NumbersFit == 1 \in Tokens \ {0} /\ 0 \in Tokens
  BY ClipboardAssumption DEF Tokens

LEMMA NextTokenFits ==
    ASSUME nextToken \in Tokens \ {0}
    PROVE  NextToken \in Tokens \ {0}
  BY ClipboardAssumption DEF Tokens, NextToken

\* A frame or a blob of the host is applied: nothing is sent.
LEMMA AppliedKeeps ==
    ASSUME EchoInv, NoWrite \/ HostWrote, BurstTable(bursts'),
           UNCHANGED <<platform, outgoing, copied>>,
           fetches' \subseteq Transfers, copies' = copies, pushes' \in 0 .. MaxPushes
    PROVE  EchoInv'
  <1>1. BoardTypes' /\ CacheTypes'
    <2>1. CASE NoWrite
      BY <2>1, TypesGrouped DEF EchoInv, NoWrite, BoardTypes, CacheTypes, caches
    <2>2. CASE HostWrote
      BY <2>2 DEF HostWrote
    <2> QED
      BY <2>1, <2>2
  <1>2. OutgoingTypes' /\ OtherTypes'
    BY TypesGrouped DEF EchoInv, OutgoingTypes, OtherTypes, outgoing
  <1>3. BurstTable(bursts)'
    BY DEF BurstTable
  <1>4. TypeOK'
    BY <1>1, <1>2, <1>3, TypesGroupedNext
  <1>5. CachesKnowHost' /\ UserBoardCopied'
    <2>1. CASE NoWrite
      BY <2>1 DEF EchoInv, NoWrite, caches, CachesKnowHost, UserBoardCopied
    <2>2. CASE HostWrote
      BY <2>2 DEF HostWrote, CachesKnowHost, UserBoardCopied
    <2> QED
      BY <2>1, <2>2
  <1>6. OnlyUserContentSent'
    BY DEF EchoInv, OnlyUserContentSent, outgoing
  <1> QED
    BY <1>4, <1>5, <1>6 DEF EchoInv

LEMMA InlineKeeps ==
    ASSUME EchoInv, NEW token \in Tokens, NEW item \in Items, IncomingInline(token, item)
    PROVE  EchoInv'
  <1>1. BoardTypes /\ CacheTypes /\ BurstTable(bursts) /\ OtherTypes
    BY TypesGrouped DEF EchoInv
  <1>2. BurstTable(bursts') /\ (NoWrite \/ HostWrote)
    BY <1>1, ItemWrites, BurstHandled DEF IncomingInline
  <1>3. pushes' \in 0 .. MaxPushes /\ fetches' \subseteq Transfers
    BY <1>1, ClipboardAssumption DEF IncomingInline, OtherTypes
  <1> QED
    BY <1>2, <1>3, AppliedKeeps DEF IncomingInline

LEMMA FetchedKeeps ==
    ASSUME EchoInv, NEW f, Fetched(f)
    PROVE  EchoInv'
  <1>1. BoardTypes /\ CacheTypes /\ BurstTable(bursts) /\ OtherTypes
    BY TypesGrouped DEF EchoInv
  <1>2. f.item \in Items
    BY <1>1 DEF Fetched, OtherTypes, Transfers
  <1>3. BurstTable(bursts') /\ (NoWrite \/ HostWrote)
    <2>1. CASE f.token \in DOMAIN bursts
      <3>1. f.token \in Tokens \ {0}
        BY <1>1, <2>1 DEF BurstTable
      <3> QED
        BY <1>1, <1>2, <2>1, <3>1, BurstHandled DEF Fetched
    <2>2. CASE f.token \notin DOMAIN bursts
      BY <1>1, <1>2, <2>2, ItemWrites DEF Fetched
    <2> QED
      BY <2>1, <2>2
  <1>4. fetches' \subseteq Transfers /\ pushes' \in 0 .. MaxPushes
    BY <1>1 DEF Fetched, OtherTypes
  <1> QED
    BY <1>3, <1>4, AppliedKeeps DEF Fetched

\* What is sent was copied here: content of the host is known to the caches,
\* and the rest is the user's.
LEMMA SentIsCopied ==
    ASSUME EchoInv, notices > 0
    PROVE  /\ TextToSend => board.text \in copied /\ board.text \in Texts
           /\ PngToSend => board.img \in copied /\ board.img \in Images
  <1>1. board.text \in Texts \cup {None} /\ board.img \in Images \cup {None}
        /\ board.by \in {"user", "host"}
    BY DEF EchoInv, TypeOK, Boards
  <1>2. TextToSend => board.text # None /\ board.text \notin Range(echoes)
    BY DEF TextToSend
  <1>3. PngToSend => board.img # None /\ board.img \notin Range(pixels)
    BY DEF PngToSend, NewBytes
  <1>4. CASE board.by = "host"
    BY <1>2, <1>3, <1>4 DEF EchoInv, CachesKnowHost
  <1>5. CASE board.by = "user"
    BY <1>1, <1>2, <1>3, <1>5 DEF EchoInv, UserBoardCopied
  <1> QED
    BY <1>1, <1>4, <1>5

LEMMA EmitsType ==
    ASSUME NEW sends \in BOOLEAN, NEW item, NEW token \in Tokens,
           sends => item \in copied /\ item \in Items
    PROVE  /\ Emits(sends, item, token) \in Seq([token : Tokens, item : Items])
           /\ \A k \in DOMAIN Emits(sends, item, token) :
                 Emits(sends, item, token)[k].item \in copied
           /\ copies \in Nat => StartsUpload(sends, item, token) \subseteq Transfers
           /\ \A u \in StartsUpload(sends, item, token) : u.item \in copied
  <1>1. CASE sends
    <2> DEFINE m == [token |-> token, item |-> item]
    <2>1. m \in [token : Tokens, item : Items] /\ m.item \in copied
      BY <1>1
    <2>2. Emits(sends, item, token) \in {<<>>, <<m>>}
      BY DEF Emits
    <2>3. /\ <<>> \in Seq([token : Tokens, item : Items])
          /\ <<m>> \in Seq([token : Tokens, item : Items])
          /\ \A k \in DOMAIN <<m>> : <<m>>[k].item \in copied
      BY <2>1
    <2> DEFINE s == [token |-> token, item |-> item, n |-> copies]
    <2>4. StartsUpload(sends, item, token) \in {{}, {s}}
      BY DEF StartsUpload
    <2>5. s.item \in copied /\ (copies \in Nat => s \in Transfers)
      BY <1>1 DEF Transfers
    <2>6. /\ copies \in Nat => StartsUpload(sends, item, token) \subseteq Transfers
          /\ \A u \in StartsUpload(sends, item, token) : u.item \in copied
      <3> HIDE DEF s
      <3> QED
        BY <2>4, <2>5
    <2>7. /\ Emits(sends, item, token) \in Seq([token : Tokens, item : Items])
          /\ \A k \in DOMAIN Emits(sends, item, token) :
                 Emits(sends, item, token)[k].item \in copied
      <3> HIDE DEF m
      <3>1. CASE Emits(sends, item, token) = <<>>
        BY <3>1, <2>3
      <3>2. CASE Emits(sends, item, token) = <<m>>
        BY <3>2, <2>3
      <3> QED
        BY <2>2, <3>1, <3>2
    <2> QED
      BY <2>6, <2>7
  <1>2. CASE ~sends
    BY <1>2 DEF Emits, StartsUpload, Transfers
  <1> QED
    BY <1>1, <1>2

LEMMA ConcatIn ==
    ASSUME NEW S, NEW p \in Seq(S), NEW q \in Seq(S), NEW C,
           \A k \in DOMAIN p : p[k].item \in C,
           \A k \in DOMAIN q : q[k].item \in C
    PROVE  /\ p \o q \in Seq(S)
           /\ \A k \in DOMAIN (p \o q) : (p \o q)[k].item \in C
  <1>1. p \o q \in Seq(S) /\ DOMAIN (p \o q) = 1 .. (Len(p) + Len(q))
    OBVIOUS
  <1>2. ASSUME NEW k \in 1 .. (Len(p) + Len(q))
        PROVE  (p \o q)[k].item \in C
    <2>1. CASE k <= Len(p)
      <3>1. (p \o q)[k] = p[k] /\ k \in DOMAIN p
        BY <2>1
      <3> QED
        BY <3>1
    <2>2. CASE k > Len(p)
      <3>1. (p \o q)[k] = q[k - Len(p)] /\ k - Len(p) \in DOMAIN q
        BY <2>2
      <3> QED
        BY <3>1
    <2> QED
      BY <2>1, <2>2
  <1> QED
    BY <1>1, <1>2

LEMMA LookKeeps == ASSUME EchoInv, Look
                   PROVE  EchoInv'
  <1> DEFINE token == IF Syncable /\ IsBurst THEN nextToken ELSE 0
             eT == Emits(TextToSend, board.text, token)
             eI == Emits(PngToSend, board.img, token)
             uT == StartsUpload(TextToSend, board.text, token)
             uI == StartsUpload(PngToSend, board.img, token)
  <1>1. BoardTypes /\ CacheTypes /\ BurstTable(bursts) /\ OutgoingTypes /\ OtherTypes
    BY TypesGrouped DEF EchoInv
  <1>2. notices > 0 /\ notices' = notices - 1 /\ looked' = TRUE
        /\ UNCHANGED <<platform, board, pending, bursts, fetches, copies, pushes, copied>>
    BY DEF Look
  <1>3. /\ TextToSend => board.text \in copied /\ board.text \in Texts
        /\ PngToSend => board.img \in copied /\ board.img \in Images
    BY <1>2, SentIsCopied
  <1>4. token \in Tokens
    BY <1>1, NumbersFit DEF OutgoingTypes
  <1>5. /\ wire' = wire \o eT \o eI
        /\ uploads' = uploads \cup uT \cup uI
        /\ nextToken' = IF token = 0 THEN nextToken ELSE NextToken
    BY DEF Look
  <1>6. TextToSend \in BOOLEAN /\ PngToSend \in BOOLEAN
    BY DEF TextToSend, PngToSend, NewBytes
  <1>7. copies \in Nat
    BY <1>1, ClipboardAssumption DEF OtherTypes
  <1>8. /\ eT \in Seq([token : Tokens, item : Items]) /\ uT \subseteq Transfers
        /\ \A k \in DOMAIN eT : eT[k].item \in copied
        /\ \A u \in uT : u.item \in copied
    <2> HIDE DEF token
    <2> QED
      BY <1>3, <1>4, <1>6, <1>7, EmitsType DEF Items
  <1>9. /\ eI \in Seq([token : Tokens, item : Items]) /\ uI \subseteq Transfers
        /\ \A k \in DOMAIN eI : eI[k].item \in copied
        /\ \A u \in uI : u.item \in copied
    <2> HIDE DEF token
    <2> QED
      BY <1>3, <1>4, <1>6, <1>7, EmitsType DEF Items
  <1>10. nextToken' \in Tokens \ {0}
    BY <1>1, <1>5, NextTokenFits DEF OutgoingTypes
  <1> HIDE DEF token, eT, eI, uT, uI
  <1>11. /\ \A k \in DOMAIN wire : wire[k].item \in copied
         /\ \A u \in uploads : u.item \in copied
    BY DEF EchoInv, OnlyUserContentSent
  <1>12. /\ wire \o eT \in Seq([token : Tokens, item : Items])
         /\ \A k \in DOMAIN (wire \o eT) : (wire \o eT)[k].item \in copied
    BY <1>1, <1>8, <1>11, ConcatIn DEF OutgoingTypes
  <1>13. /\ wire' \in Seq([token : Tokens, item : Items])
         /\ \A k \in DOMAIN wire' : wire'[k].item \in copied
    BY <1>5, <1>9, <1>12, ConcatIn
  <1>14. uploads' \subseteq Transfers /\ \A u \in uploads' : u.item \in copied
    BY <1>1, <1>5, <1>8, <1>9, <1>11 DEF OutgoingTypes
  <1>15. OnlyUserContentSent'
    BY <1>2, <1>13, <1>14 DEF OnlyUserContentSent
  <1>16. EchoesAfterText \in Seq(Hashes)
    <2>1. TextToSend => board.text \in Hashes
      BY <1>3 DEF Hashes
    <2> QED
      BY <1>1, <2>1, RecordedKnows DEF EchoesAfterText, CacheTypes
  <1>17. CacheTypes'
    <2>1. PngToSend => <<board.img, board.enc>> \in Hashes
      BY <1>1, <1>3 DEF Hashes, BoardTypes, Boards
    <2>2. echoes' \in Seq(Hashes)
      BY <1>16, <2>1, RecordedKnows DEF Look
    <2>3. pixels' \in Seq(Images)
      BY <1>1, <1>3, RecordedKnows DEF Look, CacheTypes
    <2> QED
      BY <2>2, <2>3 DEF CacheTypes
  <1>18. CachesKnowHost'
    <2> SUFFICES ASSUME board.by = "host"
                 PROVE  CachesKnowHost'
      BY <1>2 DEF CachesKnowHost
    <2>1. ~TextToSend /\ ~PngToSend
      BY <1>2 DEF EchoInv, CachesKnowHost, TextToSend, PngToSend, NewBytes
    <2>2. echoes' = echoes /\ pixels' = pixels
      BY <2>1 DEF Look, EchoesAfterText
    <2> QED
      BY <1>2, <2>2 DEF EchoInv, CachesKnowHost
  <1>19. UserBoardCopied'
    BY <1>2 DEF EchoInv, UserBoardCopied
  <1>20. BoardTypes' /\ BurstTable(bursts)' /\ OutgoingTypes' /\ OtherTypes'
    <2>1. BoardTypes'
      BY <1>1, <1>2 DEF BoardTypes
    <2>2. OutgoingTypes'
      BY <1>10, <1>13, <1>14 DEF OutgoingTypes
    <2> QED
      BY <1>1, <1>2, <2>1, <2>2 DEF BurstTable, OtherTypes
  <1> QED
    BY <1>15, <1>17, <1>18, <1>19, <1>20, TypesGroupedNext DEF EchoInv

LEMMA UploadKeeps ==
    ASSUME EchoInv, NEW u, Uploaded(u) \/ UploadFails(u)
    PROVE  EchoInv'
  <1>1. BoardTypes /\ CacheTypes /\ BurstTable(bursts) /\ OutgoingTypes /\ OtherTypes
    BY TypesGrouped DEF EchoInv
  <1>2. u \in uploads /\ uploads' = uploads \ {u}
        /\ UNCHANGED <<platform, board, notices, pending, caches, bursts, nextToken,
                       fetches, copies, pushes, looked, copied>>
    BY DEF Uploaded, UploadFails
  <1>3. u.token \in Tokens /\ u.item \in Items /\ u.item \in copied
    BY <1>1, <1>2 DEF OutgoingTypes, Transfers, EchoInv, OnlyUserContentSent
  <1>4. wire' = wire \/ wire' = Append(wire, [token |-> u.token, item |-> u.item])
    BY DEF Uploaded, UploadFails
  <1>5. wire' \in Seq([token : Tokens, item : Items])
    <2>1. [token |-> u.token, item |-> u.item] \in [token : Tokens, item : Items]
      BY <1>3
    <2>2. wire \in Seq([token : Tokens, item : Items])
      BY <1>1 DEF OutgoingTypes
    <2>3. Append(wire, [token |-> u.token, item |-> u.item])
             \in Seq([token : Tokens, item : Items])
      BY <2>1, <2>2
    <2> QED
      BY <1>4, <2>2, <2>3
  <1>6. \A k \in DOMAIN wire' : wire'[k].item \in copied
    <2>1. \A k \in DOMAIN wire : wire[k].item \in copied
      BY DEF EchoInv, OnlyUserContentSent
    <2>2. wire \in Seq([token : Tokens, item : Items])
      BY <1>1 DEF OutgoingTypes
    <2> QED
      BY <1>3, <1>4, <2>1, <2>2
  <1>7. OnlyUserContentSent'
    BY <1>2, <1>6 DEF EchoInv, OnlyUserContentSent
  <1>8. TypeOK'
    <2>1. OutgoingTypes'
      BY <1>1, <1>2, <1>5 DEF OutgoingTypes
    <2>2. BoardTypes' /\ CacheTypes' /\ BurstTable(bursts)' /\ OtherTypes'
      BY <1>1, <1>2 DEF BoardTypes, CacheTypes, BurstTable, OtherTypes, caches
    <2> QED
      BY <2>1, <2>2, TypesGroupedNext
  <1> QED
    BY <1>2, <1>7, <1>8 DEF EchoInv, CachesKnowHost, UserBoardCopied, caches

LEMMA ExpiryKeeps == ASSUME EchoInv, EchoExpires
                     PROVE  EchoInv'
  <1>1. notices = 0 /\ UNCHANGED <<platform, board, notices, pending, bursts, outgoing,
                                   fetches, copies, pushes, looked, copied>>
    BY DEF EchoExpires
  <1>2. CacheTypes'
    <2>1. echoes \in Seq(Hashes) /\ pixels \in Seq(Images)
      BY TypesGrouped DEF EchoInv, CacheTypes
    <2>2. CASE echoes # <<>> /\ echoes' = Tail(echoes) /\ UNCHANGED pixels
      <3>1. Tail(echoes) \in Seq(Hashes)
        BY <2>1, <2>2
      <3> QED
        BY <2>1, <2>2, <3>1 DEF CacheTypes
    <2>3. CASE pixels # <<>> /\ pixels' = Tail(pixels) /\ UNCHANGED echoes
      <3>1. Tail(pixels) \in Seq(Images)
        BY <2>1, <2>3
      <3> QED
        BY <2>1, <2>3, <3>1 DEF CacheTypes
    <2> QED
      BY <2>2, <2>3 DEF EchoExpires
  <1>3. TypeOK'
    <2>1. BoardTypes /\ BurstTable(bursts) /\ OutgoingTypes /\ OtherTypes
      BY TypesGrouped DEF EchoInv
    <2>2. BoardTypes' /\ BurstTable(bursts)' /\ OutgoingTypes' /\ OtherTypes'
      BY <1>1, <2>1 DEF BoardTypes, BurstTable, OutgoingTypes, OtherTypes, outgoing
    <2> QED
      BY <1>2, <2>2, TypesGroupedNext
  <1> QED
    BY <1>1, <1>3 DEF EchoInv, CachesKnowHost, UserBoardCopied, OnlyUserContentSent, outgoing

LEMMA CopyKeeps ==
    ASSUME EchoInv, NEW t \in Texts \cup {None}, NEW i \in Images \cup {None},
           NEW files \in {"none", "files", "finder"}, UserCopies(t, i, files)
    PROVE  EchoInv'
  <1>1. BoardTypes /\ CacheTypes /\ BurstTable(bursts) /\ OutgoingTypes /\ OtherTypes
    BY TypesGrouped DEF EchoInv
  <1>2. /\ copies < MaxCopies /\ copies' = copies + 1
        /\ board' = [text |-> t, img |-> i, enc |-> "local", files |-> files, by |-> "user"]
        /\ notices' = Noticed /\ looked' = FALSE
        /\ copied' = copied \cup ({t, i} \ {None})
        /\ UNCHANGED <<platform, pending, caches, bursts, outgoing, fetches, pushes>>
    BY DEF UserCopies
  <1>3. BoardTypes'
    <2>1. board' \in Boards
      BY <1>2 DEF Boards, Encodings
    <2>2. notices' \in Nat
      BY <1>1, <1>2 DEF BoardTypes, Noticed
    <2> QED
      BY <1>1, <1>2, <2>1, <2>2 DEF BoardTypes
  <1>4. OtherTypes'
    BY <1>1, <1>2, ClipboardAssumption DEF OtherTypes, Items
  <1>5. TypeOK'
    <2>1. CacheTypes' /\ BurstTable(bursts)' /\ OutgoingTypes'
      BY <1>1, <1>2 DEF CacheTypes, BurstTable, OutgoingTypes, caches, outgoing
    <2> QED
      BY <1>3, <1>4, <2>1, TypesGroupedNext
  <1>6. CachesKnowHost' /\ UserBoardCopied'
    BY <1>2 DEF CachesKnowHost, UserBoardCopied
  <1>7. OnlyUserContentSent'
    BY <1>2 DEF EchoInv, OnlyUserContentSent, outgoing
  <1> QED
    BY <1>5, <1>6, <1>7 DEF EchoInv

LEMMA ReencodeKeeps == ASSUME EchoInv, Reencode
                       PROVE  EchoInv'
  <1>1. BoardTypes /\ CacheTypes /\ BurstTable(bursts) /\ OutgoingTypes /\ OtherTypes
    BY TypesGrouped DEF EchoInv
  <1>2. /\ board.by = "host" /\ board' = [board EXCEPT !.enc = "reencoded"]
        /\ board.img \in Range(pixels) /\ board.text \in Range(echoes) \cup {None}
        /\ notices' = 1
        /\ UNCHANGED <<platform, pending, caches, bursts, outgoing, fetches, copies, pushes,
                       looked, copied>>
    BY DEF Reencode
  <1>3. board' \in Boards /\ board'.by = "host"
        /\ board'.text = board.text /\ board'.img = board.img
    BY <1>1, <1>2 DEF BoardTypes, Boards, Encodings
  <1>4. TypeOK'
    <2>1. BoardTypes'
      BY <1>1, <1>2, <1>3 DEF BoardTypes
    <2>2. CacheTypes' /\ BurstTable(bursts)' /\ OutgoingTypes' /\ OtherTypes'
      BY <1>1, <1>2 DEF CacheTypes, BurstTable, OutgoingTypes, OtherTypes, caches, outgoing
    <2> QED
      BY <2>1, <2>2, TypesGroupedNext
  <1>5. CachesKnowHost' /\ UserBoardCopied'
    BY <1>2, <1>3 DEF CachesKnowHost, UserBoardCopied, caches
  <1>6. OnlyUserContentSent'
    BY <1>2 DEF EchoInv, OnlyUserContentSent, outgoing
  <1> QED
    BY <1>4, <1>5, <1>6 DEF EchoInv

LEMMA EchoesKept == EchoInv /\ [Next]_vars => EchoInv'
  <1> SUFFICES ASSUME EchoInv, [Next]_vars
               PROVE  EchoInv'
    OBVIOUS
  <1>1. BoardTypes /\ CacheTypes /\ BurstTable(bursts) /\ OutgoingTypes /\ OtherTypes
    BY TypesGrouped DEF EchoInv
  <1>2. ASSUME UNCHANGED <<platform, board, pending, caches, outgoing, looked, copied>>,
               notices' \in Nat, notices' <= notices, BurstTable(bursts'),
               OtherTypes'
        PROVE  EchoInv'
    <2>1. BoardTypes' /\ CacheTypes' /\ OutgoingTypes'
      BY <1>1, <1>2 DEF BoardTypes, CacheTypes, OutgoingTypes, caches, outgoing
    <2>2. BurstTable(bursts)'
      BY <1>2 DEF BurstTable
    <2>3. notices' > 0 => notices > 0
      BY <1>1, <1>2 DEF BoardTypes
    <2>4. TypeOK'
      BY <1>2, <2>1, <2>2, TypesGroupedNext
    <2> QED
      BY <1>2, <2>3, <2>4
         DEF EchoInv, CachesKnowHost, UserBoardCopied, OnlyUserContentSent, caches, outgoing
  <1>3. ASSUME NEW token \in Tokens, NEW item \in Items, IncomingRef(token, item)
        PROVE  EchoInv'
    <2>1. [token |-> token, item |-> item, n |-> pushes] \in Transfers
      BY <1>1, ClipboardAssumption DEF Transfers, OtherTypes
    <2>2. OtherTypes'
      BY <1>1, <1>3, <2>1, ClipboardAssumption DEF IncomingRef, OtherTypes
    <2> QED
      BY <1>1, <1>2, <1>3, <2>2 DEF IncomingRef, BoardTypes
  <1>4. ASSUME NEW f, FetchFails(f)
        PROVE  EchoInv'
    <2>1. OtherTypes'
      BY <1>1, <1>4 DEF FetchFails, OtherTypes
    <2> QED
      BY <1>1, <1>2, <1>4, <2>1 DEF FetchFails, BoardTypes
  <1>5. ASSUME NEW token, BurstExpires(token)
        PROVE  EchoInv'
    <2>1. BurstTable(bursts')
      BY <1>1, <1>5 DEF BurstExpires, RemoveBurst, Restrict, BurstTable
    <2>2. OtherTypes'
      BY <1>1, <1>5 DEF BurstExpires, OtherTypes
    <2> QED
      BY <1>1, <1>2, <1>5, <2>1, <2>2 DEF BurstExpires, BoardTypes
  <1>6. CASE Absorb
    <2>1. /\ pending > 0 /\ pending' = pending - 1 /\ notices' = notices - 1 /\ notices > 0
          /\ UNCHANGED <<platform, board, caches, bursts, outgoing, fetches, copies, pushes,
                         looked, copied>>
      BY <1>6 DEF Absorb, Absorbed
    <2>2. BoardTypes'
      BY <1>1, <2>1 DEF BoardTypes
    <2>3. TypeOK'
      <3>1. CacheTypes' /\ BurstTable(bursts)' /\ OutgoingTypes' /\ OtherTypes'
        BY <1>1, <2>1 DEF CacheTypes, BurstTable, OutgoingTypes, OtherTypes, caches, outgoing
      <3> QED
        BY <2>2, <3>1, TypesGroupedNext
    <2> QED
      BY <2>1, <2>3
         DEF EchoInv, CachesKnowHost, UserBoardCopied, OnlyUserContentSent, caches, outgoing
  <1>7. CASE UNCHANGED vars
    BY <1>1, <1>2, <1>7 DEF vars, BoardTypes, OtherTypes
  <1> QED
    BY <1>3, <1>4, <1>5, <1>6, <1>7, InlineKeeps, FetchedKeeps, LookKeeps, UploadKeeps,
       ExpiryKeeps, CopyKeeps, ReencodeKeeps DEF Next

LEMMA EchoInvariance == Spec => []EchoInv
  <1>1. Init => EchoInv
    <2> SUFFICES ASSUME Init
                 PROVE  EchoInv
      OBVIOUS
    <2>1. BoardTypes /\ CacheTypes /\ OutgoingTypes
      BY NumbersFit DEF Init, BoardTypes, Boards, Encodings, CacheTypes, OutgoingTypes
    <2>2. BurstTable(bursts) /\ OtherTypes
      BY ClipboardAssumption DEF Init, BurstTable, OtherTypes
    <2> QED
      BY <2>1, <2>2, TypesGrouped
         DEF Init, EchoInv, CachesKnowHost, UserBoardCopied, OnlyUserContentSent
  <1> QED
    BY <1>1, EchoesKept, PTL DEF Spec

\* Every variable of the engine keeps its type, whatever the user and the host
\* do: recordHash(), handleBurstFrame() and nextToken() stay within theirs.
THEOREM TypeCorrect == Spec => []TypeOK
  BY EchoInvariance, PTL DEF EchoInv

\* Whatever onLocalClipboardChanged() sends to the host, the user copied here.
THEOREM NothingIsSentBack == Spec => []OnlyUserContentSent
  BY EchoInvariance, PTL DEF EchoInv
=============================================================================
