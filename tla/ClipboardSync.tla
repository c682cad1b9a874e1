--------------------------- MODULE ClipboardSync ---------------------------
(***************************************************************************)
(* The clipboard engine of the helper process                              *)
(* (src/app/streaming/clipboardsync.cpp), which runs on one GUI thread     *)
(* from start() until the process ends.  It is called for every change of  *)
(* the platform's clipboard, for every frame of the host, and when a blob  *)
(* transfer or a timer ends.                                               *)
(*                                                                         *)
(* External: the host, the user, the blob store, and the platform, which   *)
(* is one of                                                               *)
(*   posted  a write is announced later, and now and then twice            *)
(*   sync    a write is announced before it returns                        *)
(*   polled  macOS: changes are noticed by polling a change count, many    *)
(*           changes at once, and images are re-encoded after a write.     *)
(*                                                                         *)
(* A text or an image is an item.  The byte hash of a text is the text,    *)
(* that of an image the image and its encoding, its pixel hash the image.  *)
(***************************************************************************)
EXTENDS Integers, Sequences, FiniteSets, Functions

CONSTANTS Texts, Images,
          None,            \* no text, no image
          Size,            \* bytes of an item
          Corrupt,         \* items that a receiver cannot use: a text with a NUL,
                           \* an image that does not decode
          ECHO_MAX, MAX_PENDING_BURSTS,
          TokenModulus,    \* 2^32
          MaxCopies,       \* bound: changes of the clipboard by the user
          MaxPushes        \* bound: frames of the host

INLINE_THRESHOLD == 60000
MAX_PAYLOAD      == 65535 - 10
MAX_BLOB_BYTES   == 64 * 1024 * 1024

Items == Texts \cup Images

ASSUME ClipboardAssumption ==
    /\ Texts \cap Images = {} /\ None \notin Items
    /\ Size \in [Items -> Nat] /\ Corrupt \subseteq Items
    /\ ECHO_MAX \in Nat /\ ECHO_MAX >= 2
    /\ MAX_PENDING_BURSTS \in Nat \ {0}
    /\ TokenModulus \in Nat /\ TokenModulus >= 2
    /\ MaxCopies \in Nat /\ MaxPushes \in Nat

VARIABLES
    platform,   \* which platform it is
    board,      \* the local clipboard
    notices,    \* changes of the clipboard not yet announced to the engine
    pending,    \* m_PendingSelfWrites
    echoes,     \* m_EchoCache: byte hashes
    pixels,     \* m_ImageEchoCache: pixel hashes
    bursts,     \* m_PendingBursts: token -> payloads
    nextToken,  \* m_NextToken
    uploads,    \* uploadAndSendRef() calls that wait for their reply
    fetches,    \* fetchBlob() calls that wait for their reply
    wire,       \* frames emitted to the host
    copies, pushes,  \* what the bounds count
    \* What happened, for the properties only:
    looked,     \* the engine has read this content of the clipboard
    copied      \* items the user has put on the clipboard

caches   == <<echoes, pixels>>
outgoing == <<nextToken, uploads, wire>>
vars     == <<platform, board, notices, pending, caches, bursts, outgoing, fetches,
              copies, pushes, looked, copied>>

Platforms == {"posted", "sync", "polled"}
Encodings == {"wire", "local", "reencoded"}
Boards    == [text : Texts \cup {None}, img : Images \cup {None}, enc : Encodings,
              files : {"none", "files", "finder"}, by : {"user", "host"}]

Init ==
    /\ platform \in Platforms
    /\ board = [text |-> None, img |-> None, enc |-> "local", files |-> "none", by |-> "user"]
    /\ notices = 0 /\ pending = 0
    /\ echoes = <<>> /\ pixels = <<>>
    /\ bursts = <<>>
    /\ nextToken = 1
    /\ uploads = {} /\ fetches = {} /\ wire = <<>>
    /\ copies = 0 /\ pushes = 0
    /\ looked = TRUE /\ copied = {}

HasFileReferences == board.files # "none"

\* recordHash() and recordImageHash(): the oldest entry makes room.
Recorded(q, h) == IF Len(q) < ECHO_MAX THEN Append(q, h) ELSE Append(Tail(q), h)

----------------------------------------------------------------------------
\* Self-writes.

\* One more announcement than is due, as some Windows clipboard hooks cause.
Announced == {notices + 1, notices + 2}

\* Mutant: a write is counted for its doubled announcement as well.
MutOneMore == pending + 2
\* ++m_PendingSelfWrites
OneMore == pending + 1

\* What becomes of a write that was recorded and counted.  A synchronous
\* announcement takes its count back at once, and on macOS brings the change
\* count that polling compares with up to date; a native write has none.
Platform(content, native) ==
    \/ /\ platform = "posted"
       /\ board' = content /\ looked' = FALSE
       /\ pending' = OneMore /\ notices' \in Announced
    \/ /\ platform = "sync" \/ (platform = "polled" /\ ~native)
       /\ board' = content /\ looked' = FALSE
       /\ UNCHANGED pending
       /\ notices' = (IF platform = "polled" THEN 0 ELSE notices)
    \/ /\ platform = "polled" /\ native
       /\ board' = content /\ looked' = FALSE
       /\ pending' = OneMore /\ notices' = 1

NoWrite == UNCHANGED <<board, looked, notices, pending, caches>>

FromHost(t, i) == [text |-> t, img |-> i, enc |-> "wire", files |-> "none", by |-> "host"]

\* Mutant: a file clipboard is overwritten.
MutMayOverwrite == TRUE
MayOverwrite == ~HasFileReferences

ApplyInboundText(t) ==
    IF t \in Corrupt \/ ~MayOverwrite THEN NoWrite
    ELSE /\ echoes' = Recorded(echoes, t)
         /\ UNCHANGED pixels
         /\ Platform(FromHost(t, None), FALSE)

PixelsAfter(i) == Recorded(pixels, i)

ApplyInboundPng(i) ==
    IF i \in Corrupt \/ ~MayOverwrite THEN NoWrite
    ELSE /\ echoes' = Recorded(echoes, <<i, "wire">>)
         /\ pixels' = PixelsAfter(i)
         /\ Platform(FromHost(None, i), FALSE)

\* Qt's clipboard on macOS drops the text of a compound write; it is what the
\* engine falls back to when the native write fails.
ApplyCompound(t, i) ==
    IF ~MayOverwrite THEN NoWrite
    ELSE IF t \notin Corrupt /\ i \notin Corrupt
    THEN /\ echoes' = Recorded(Recorded(echoes, t), <<i, "wire">>)
         /\ pixels' = PixelsAfter(i)
         /\ \/ Platform(FromHost(t, i), platform = "polled")
            \/ platform = "polled" /\ Platform(FromHost(None, i), FALSE)
    ELSE IF t \notin Corrupt THEN ApplyInboundText(t)
    ELSE ApplyInboundPng(i)

Apply(item) == IF item \in Texts THEN ApplyInboundText(item) ELSE ApplyInboundPng(item)

----------------------------------------------------------------------------
\* Frames of the host.

EmptyBurst == [text |-> None, png |-> None]

\* Mutant: the limit is tested with > instead of >=.
MutFull(b) == Cardinality(DOMAIN b) > MAX_PENDING_BURSTS
Full(b) == Cardinality(DOMAIN b) >= MAX_PENDING_BURSTS

RemoveBurst(b, token) == Restrict(b, DOMAIN b \ {token})
WithBurst(b, token)   == [t \in DOMAIN b \cup {token} |-> IF t = token THEN EmptyBurst ELSE b[t]]

\* The burst of a token, opened if need be.  The backlog's "oldest" burst is
\* the first that the hash table happens to yield.
Opened(token) ==
    IF token \in DOMAIN bursts THEN {bursts}
    ELSE IF Full(bursts)
    THEN {WithBurst(RemoveBurst(bursts, t), token) : t \in DOMAIN bursts}
    ELSE {WithBurst(bursts, token)}

\* handleBurstFrame(): a text is retained, an image is applied with the text
\* that was retained, and a second copy of either is ignored.
HandleBurstText(token, t) ==
    /\ \E b \in Opened(token) :
          bursts' = IF b[token].text = None THEN [b EXCEPT ![token].text = t] ELSE b
    /\ NoWrite

HandleBurstPng(token, i) ==
    \E b \in Opened(token) :
        IF b[token].png # None THEN bursts' = b /\ NoWrite
        ELSE /\ bursts' = [b EXCEPT ![token].png = i]
             /\ IF b[token].text # None THEN ApplyCompound(b[token].text, i)
                ELSE ApplyInboundPng(i)

HandleBurstFrame(token, item) ==
    IF item \in Texts THEN HandleBurstText(token, item) ELSE HandleBurstPng(token, item)

\* onIncomingFrame() of a text or a PNG frame; token 0 is never aggregated.
IncomingInline(token, item) ==
    /\ pushes < MaxPushes /\ Size[item] <= MAX_PAYLOAD
    /\ pushes' = pushes + 1
    /\ IF token = 0 THEN Apply(item) /\ UNCHANGED bursts
       ELSE HandleBurstFrame(token, item)
    /\ UNCHANGED <<platform, outgoing, fetches, copies, copied>>

\* onIncomingFrame() of a REF frame: the blob is fetched.
IncomingRef(token, item) ==
    /\ pushes < MaxPushes
    /\ pushes' = pushes + 1
    /\ fetches' = fetches \cup {[token |-> token, item |-> item, n |-> pushes]}
    /\ UNCHANGED <<platform, board, notices, pending, caches, bursts, outgoing, copies,
                   looked, copied>>

\* The blob has arrived.  One whose burst is no longer retained lands alone.
Fetched(f) ==
    /\ f \in fetches
    /\ fetches' = fetches \ {f}
    /\ IF f.token \in DOMAIN bursts THEN HandleBurstFrame(f.token, f.item)
       ELSE Apply(f.item) /\ UNCHANGED bursts
    /\ UNCHANGED <<platform, outgoing, copies, pushes, copied>>

\* An error, an empty or oversized blob, a size other than advertised, or a
\* kind of content that is not supported.
FetchFails(f) ==
    /\ f \in fetches
    /\ fetches' = fetches \ {f}
    /\ UNCHANGED <<platform, board, notices, pending, caches, bursts, outgoing, copies,
                   pushes, looked, copied>>

\* BURST_RETENTION_MS are over.
BurstExpires(token) ==
    /\ token \in DOMAIN bursts
    /\ bursts' = RemoveBurst(bursts, token)
    /\ UNCHANGED <<platform, board, notices, pending, caches, outgoing, fetches, copies,
                   pushes, looked, copied>>

----------------------------------------------------------------------------
\* Changes of the local clipboard.

Absorbed == pending - 1

\* onLocalClipboardChanged() takes the announcement for a self-write's.
Absorb ==
    /\ notices > 0 /\ pending > 0
    /\ notices' = notices - 1
    /\ pending' = Absorbed
    /\ UNCHANGED <<platform, board, caches, bursts, outgoing, fetches, copies, pushes,
                   looked, copied>>

\* Finder's files, and files without an image to transfer, are not synced.
Syncable == board.files = "none" \/ (board.files = "files" /\ board.img # None)

\* A change with both flavors is a burst; a text above the wire's limit is
\* left out of it.
IsBurst == board.img # None /\ board.text # None /\ Size[board.text] <= MAX_PAYLOAD

TextToSend ==
    /\ Syncable /\ board.text # None
    /\ board.img # None => IsBurst
    /\ Size[board.text] <= MAX_BLOB_BYTES
    /\ board.text \notin Range(echoes)

EchoesAfterText == IF TextToSend THEN Recorded(echoes, board.text) ELSE echoes

\* sendClipboardPng() up to its last return: the bytes, then the pixels.
NewBytes == /\ Syncable /\ board.img # None
            /\ Size[board.img] <= MAX_BLOB_BYTES
            /\ <<board.img, board.enc>> \notin Range(EchoesAfterText)

\* Mutant: the pixels are not compared.
MutPngToSend == NewBytes
PngToSend == NewBytes /\ board.img \notin Range(pixels)

ShouldTransferOutOfBand(item) == Size[item] >= INLINE_THRESHOLD

\* Mutant: the counter does not skip 0 when it wraps.
MutNextToken == (nextToken + 1) % TokenModulus
NextToken == IF nextToken + 1 = TokenModulus THEN 1 ELSE nextToken + 1

\* The end of sendTextOutbound() and of sendClipboardPng(): what passed their
\* tests goes to the host at once or by an upload.
Emits(sends, item, token) ==
    IF sends /\ ~ShouldTransferOutOfBand(item) THEN <<[token |-> token, item |-> item]>>
    ELSE <<>>
StartsUpload(sends, item, token) ==
    IF sends /\ ShouldTransferOutOfBand(item)
    THEN {[token |-> token, item |-> item, n |-> copies]} ELSE {}

\* onLocalClipboardChanged() past the self-writes: sendTextOutbound(), then
\* sendClipboardPng().
Look ==
    LET token == IF Syncable /\ IsBurst THEN nextToken ELSE 0
    IN  /\ notices > 0 /\ pending = 0
        /\ notices' = notices - 1
        /\ looked' = TRUE
        /\ nextToken' = IF token = 0 THEN nextToken ELSE NextToken
        /\ echoes' = IF PngToSend THEN Recorded(EchoesAfterText, <<board.img, board.enc>>)
                     ELSE EchoesAfterText
        /\ pixels' = IF PngToSend THEN Recorded(pixels, board.img) ELSE pixels
        /\ wire' = wire \o Emits(TextToSend, board.text, token)
                        \o Emits(PngToSend, board.img, token)
        /\ uploads' = uploads \cup StartsUpload(TextToSend, board.text, token)
                              \cup StartsUpload(PngToSend, board.img, token)
        /\ UNCHANGED <<platform, board, pending, bursts, fetches, copies, pushes, copied>>

\* The blob is stored: its REF frame is emitted.
Uploaded(u) ==
    /\ u \in uploads
    /\ uploads' = uploads \ {u}
    /\ wire' = Append(wire, [token |-> u.token, item |-> u.item])
    /\ UNCHANGED <<platform, board, notices, pending, caches, bursts, nextToken, fetches,
                   copies, pushes, looked, copied>>

UploadFails(u) ==
    /\ u \in uploads
    /\ uploads' = uploads \ {u}
    /\ UNCHANGED <<platform, board, notices, pending, caches, bursts, nextToken, wire,
                   fetches, copies, pushes, looked, copied>>

\* ECHO_TTL_MS after an entry.  Assumed: announcements do not take that long.
EchoExpires ==
    /\ notices = 0
    /\ \/ echoes # <<>> /\ echoes' = Tail(echoes) /\ UNCHANGED pixels
       \/ pixels # <<>> /\ pixels' = Tail(pixels) /\ UNCHANGED echoes
    /\ UNCHANGED <<platform, board, notices, pending, bursts, outgoing, fetches, copies,
                   pushes, looked, copied>>

----------------------------------------------------------------------------
\* The user and the platform.

Noticed == IF platform = "polled" THEN 1 ELSE notices + 1

\* The user copies; what extractClipboardPng() will find in it is chosen here.
UserCopies(t, i, files) ==
    /\ copies < MaxCopies
    /\ t # None \/ i # None \/ files # "none"
    /\ files = "finder" => platform = "polled"
    /\ copies' = copies + 1
    /\ board' = [text |-> t, img |-> i, enc |-> "local", files |-> files, by |-> "user"]
    /\ notices' = Noticed
    /\ looked' = FALSE
    /\ copied' = copied \cup ({t, i} \ {None})
    /\ UNCHANGED <<platform, pending, caches, bursts, outgoing, fetches, pushes>>

\* macOS adds flavors to an image it was given.  Assumed: while the echo caches
\* still know what was written.
Reencode ==
    /\ platform = "polled" /\ board.by = "host" /\ board.enc = "wire"
    /\ board.img \in Range(pixels) /\ board.text \in Range(echoes) \cup {None}
    /\ board' = [board EXCEPT !.enc = "reencoded"]
    /\ notices' = 1
    /\ UNCHANGED <<platform, pending, caches, bursts, outgoing, fetches, copies, pushes,
                   looked, copied>>

Tokens == 0 .. TokenModulus - 1

Next ==
    \/ \E token \in Tokens, item \in Items : IncomingInline(token, item) \/ IncomingRef(token, item)
    \/ \E f \in fetches : Fetched(f) \/ FetchFails(f)
    \/ \E token \in DOMAIN bursts : BurstExpires(token)
    \/ Absorb \/ Look
    \/ \E u \in uploads : Uploaded(u) \/ UploadFails(u)
    \/ EchoExpires
    \/ \E t \in (Texts \ Corrupt) \cup {None}, i \in (Images \ Corrupt) \cup {None},
          files \in {"none", "files", "finder"} : UserCopies(t, i, files)
    \/ Reencode

Spec == Init /\ [][Next]_vars

----------------------------------------------------------------------------
\* Properties.

Transfers == [token : Tokens, item : Items, n : Nat]
Payloads  == [text : Texts \cup {None}, png : Images \cup {None}]

\* Every variable keeps its type.
TypeOK ==
    /\ platform \in Platforms /\ board \in Boards
    /\ notices \in Nat /\ pending \in Nat
    /\ echoes \in Seq(Texts \cup (Images \X Encodings)) /\ pixels \in Seq(Images)
    /\ DOMAIN bursts \subseteq Tokens \ {0}
    /\ \A t \in DOMAIN bursts : bursts[t] \in Payloads
    /\ nextToken \in Tokens \ {0}
    /\ uploads \subseteq Transfers /\ fetches \subseteq Transfers
    /\ wire \in Seq([token : Tokens, item : Items])
    /\ copies \in 0 .. MaxCopies /\ pushes \in 0 .. MaxPushes
    /\ looked \in BOOLEAN /\ copied \subseteq Items

\* "So the two ends don't ping-pong", clipboardsync.h:66: whatever is sent to
\* the host, at once or as a blob, is something the user copied here, through
\* doubled announcements, re-encoded images and a full echo cache.
OnlyUserContentSent ==
    {u.item : u \in uploads} \cup {wire[k].item : k \in DOMAIN wire} \subseteq copied

\* "Counting lets multiple pending writes coexist", clipboardsync.h:257: where
\* every write is announced, no count is left over to swallow the announcement
\* of the user's own copy.
LocalCopiesSeen ==
    platform \in {"posted", "sync"} /\ notices = 0 /\ board.by = "user" => looked

\* "Inbound applies keep rejecting any file clipboard to preserve a pending
\* local file paste", clipboardsync.h:120: only the user replaces files.
FilesKept == [][HasFileReferences /\ board' # board => board'.by = "user"]_vars

\* "A pathological sender must not grow the map without limit", clipboardsync.cpp:1199.
BurstsBounded == Cardinality(DOMAIN bursts) <= MAX_PENDING_BURSTS

\* "Inside a burst the text frame is always inline", so that it cannot race
\* the image onto the wire, clipboardsync.h:55.
BurstTextFirst ==
    \A j, k \in DOMAIN wire :
        j < k /\ wire[j].token # 0 /\ wire[j].token = wire[k].token =>
            wire[j].item \in Texts
=============================================================================
