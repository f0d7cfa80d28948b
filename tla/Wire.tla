-------------------------------- MODULE Wire --------------------------------
(***************************************************************************)
(* One message from the composer to the mailbox of its recipient: payload  *)
(* and header (cemp-ckb/assemble.ts), the limits of the codec              *)
(* (cemp-core/codec), sealing and opening (cemp-crypto/envelope.ts), the   *)
(* message cell and its type script (builders.ts, contracts/), the scan of *)
(* the route tags (discovery.ts), what the client accepts of an indexer's  *)
(* answer (client.ts), and what the recipient keeps (incoming.ts,          *)
(* cemp-images/manifest.ts, cemp-sync/workers.ts).                         *)
(*                                                                         *)
(* Cells under the type script also come from other programs: such a cell  *)
(* differs in one field from one this app could have built. A sealed       *)
(* payload opens with the key of its sender, its recipient and its header. *)
(***************************************************************************)
EXTENDS Integers, Sequences, FiniteSets, FiniteSetsExt

CONSTANTS MaxWireEpoch   \* bound: routing epochs that begin

VARIABLES sender,   \* the sender's call: [at, draft, payload, cell]
          posted,   \* the message cell on the chain, NoCell before
          clock,    \* the routing epoch of each side's wall clock
          outcome   \* what the recipient made of it

wireVars == <<sender, posted, clock, outcome>>

Me == "me"
Friend == "friend"

Text == 1
Receipt == 2
AttachmentManifest == 3
ContentTypes == {Text, Receipt, AttachmentManifest}

-----------------------------------------------------------------------------
(* Limits and sizes, in bytes.                                             *)

MaxTextBytes == 16384
MaxPayloadBytes == 65536
MaxEnvelopeBytes == 82000
MaxPaddingBytes == 255
MaxReceipts == 64
MaxManifests == 4
GcmTag == 16
ChunkBytes == 32768
MaxAttachmentBytes == 1048576
MaxEdge == 1280
PreferredEdge == 960
MaxThumbnail == 32768

Absent == -1
Bytes(n) == IF n = Absent THEN 0 ELSE 4 + n
Sum(f) == MapThenSumSet(LAMBDA k : f[k], DOMAIN f)

ManifestBytes(m) == 280 + 52 * m.chunks + Bytes(m.thumb)

PayloadBytes(p) ==
    200 + Bytes(p.text) + Bytes(p.padding) + 33 * p.receipts
        + Sum([k \in DOMAIN p.manifests |-> ManifestBytes(p.manifests[k])])

EnvelopeBytes(p) == 1400 + PayloadBytes(p) + GcmTag

-----------------------------------------------------------------------------
(* The gates of the codec. The sender passes them before it publishes, the *)
(* recipient before it believes.                                           *)

ValidatePayload(p) ==
    /\ p.body \in ContentTypes
    /\ p.request <= 3 /\ p.status <= 6
    /\ p.text <= MaxTextBytes
    /\ PayloadBytes(p) <= MaxPayloadBytes
    /\ p.padding <= MaxPaddingBytes
    /\ p.receipts <= MaxReceipts
    /\ Len(p.manifests) <= MaxManifests
    /\ p.body = Text => p.text # Absent

(* Bytes are accepted only if encoding what they decode to gives them back. *)
DecodesStrictly(e) == e.canonical

(* Size before decoding.                                                   *)
ValidateEnvelope(e) ==
    /\ e.bytes <= MaxEnvelopeBytes
    /\ DecodesStrictly(e)
    /\ e.header.version = 1
    /\ e.header.network = 1
    /\ e.header.type \in ContentTypes
    /\ e.cipher >= GcmTag

SemanticConsistency(h, p) == p.id = h.id /\ p.body = h.type /\ p.to = Me

NeededChunks(m) == (m.encrypted + ChunkBytes - 1) \div ChunkBytes

CheckManifest(m) ==
    /\ m.chunks > 0
    /\ m.plain > 0 /\ m.plain <= MaxAttachmentBytes
    /\ m.encrypted = m.plain + GcmTag
    /\ m.chunks = NeededChunks(m)
    /\ m.edge > 0 /\ m.edge <= MaxEdge
    /\ m.thumb <= MaxThumbnail
    /\ m.mime \in {"webp", "jpeg", "png"}
    /\ m.aead = "gcm"
    /\ m.thumb # Absent => m.thumbMime = m.mime

(* What a profile cell must be before anything is encrypted to it.         *)
ValidateProfile(f) ==
    /\ f.bytes <= 4096 /\ f.version = 1
    /\ f.algorithms = "known"
    /\ Len(f.versions) <= 8 /\ \E k \in DOMAIN f.versions : f.versions[k] = 1
    /\ f.handle <= 64 /\ f.revoked \in {0, 1} /\ f.attachments <= 3

(* The one live cell of the profile id, and a lock it names itself.        *)
ResolveLiveProfile(f) == f.live = 1 /\ ValidateProfile(f)
ProfileBinding(f) == f.locked

-----------------------------------------------------------------------------
(* Sealing. A key is derived from both profile ids; the header is          *)
(* authenticated along with the payload.                                   *)

Seal(h, p) ==
    [header |-> h, canonical |-> TRUE, bytes |-> EnvelopeBytes(p),
     cipher |-> PayloadBytes(p) + GcmTag,
     sealed |-> [from |-> h.from, to |-> p.to, aad |-> h, payload |-> p]]

Opens(e) ==
    /\ e.sealed.from = e.header.from /\ e.sealed.to = Me
    /\ e.sealed.aad = e.header

EncryptEnvelope(h, p) == p.id = h.id /\ p.body = h.type /\ ValidateEnvelope(Seal(h, p))
DecryptEnvelope(e) == ValidateEnvelope(e) /\ Opens(e)

-----------------------------------------------------------------------------
(* The message cell: 81 bytes of type args, of which the script checks the *)
(* length and the version.                                                 *)

MessageTypeArgs(epoch) ==
    [len |-> 81, version |-> 1, to |-> Me, epoch |-> epoch, reserved |-> 0]

ValidateTypeArgs(args) == args.len = 81 /\ args.version = 1

(* The script is loaded into a buffer of 512 bytes, 53 of them not args.   *)
ParseScriptArgs(args) == args.len <= 512 - 53
ProgramEntry(args) == ParseScriptArgs(args) /\ ValidateTypeArgs(args)

MessageCell(e, epoch) == [args |-> MessageTypeArgs(epoch), envelope |-> e, wide |-> FALSE]

NoCell == [args |-> [len |-> 0, version |-> 0, to |-> Me, epoch |-> 0, reserved |-> 0],
           envelope |-> {}, wide |-> FALSE]

-----------------------------------------------------------------------------
(* What the sender asks for. The composer takes 1 to MaxTextBytes bytes;   *)
(* an acknowledgement has an empty text and a receipt; an image may have a *)
(* caption. The codec of the platform decides how large things become.     *)

TextDrafts == {[kind |-> "text", text |-> t, size |-> 0, thumb |-> Absent, mime |-> "none"] :
                 t \in {1, MaxTextBytes, MaxTextBytes + 1}}
AckDrafts == {[kind |-> "ack", text |-> 0, size |-> 0, thumb |-> Absent, mime |-> "none"]}
ImageDrafts ==
    [kind : {"image"}, text : {0, MaxTextBytes},
     size : {1, MaxAttachmentBytes, MaxAttachmentBytes + 1},
     thumb : {900, MaxThumbnail, MaxThumbnail + 1}, mime : {"webp", "jpeg"}]
Drafts == TextDrafts \cup AckDrafts \cup ImageDrafts

Composed(d) == d.kind = "text" => d.text \in 1..MaxTextBytes

(* compressToLimits: below the cap at some step of its ladder, or refused. *)
CompressToLimits(d) == d.kind = "image" => d.size <= MaxAttachmentBytes

SplitIntoChunks(size) == (size + ChunkBytes - 1) \div ChunkBytes

\* A plausible bug: the tag of the cipher is forgotten when chunks are counted.
ChunkCount_Flawed(size) == SplitIntoChunks(size)

ChunkCount(size) == SplitIntoChunks(size + GcmTag)

(* Image and thumbnail come from one codec in one format.                  *)
BuildManifest(d) ==
    [plain |-> d.size, encrypted |-> d.size + GcmTag, chunks |-> ChunkCount(d.size),
     edge |-> PreferredEdge, thumb |-> d.thumb, mime |-> d.mime, thumbMime |-> d.mime,
     aead |-> "gcm"]

HeaderOf(d) ==
    [version |-> 1, network |-> 1, id |-> "id", from |-> Friend,
     type |-> IF d.kind = "image" THEN AttachmentManifest ELSE Text]

PayloadOf(d, padding) ==
    [id |-> "id", body |-> HeaderOf(d).type, to |-> Me,
     text |-> IF d.kind = "image" /\ d.text = 0 THEN Absent ELSE d.text,
     manifests |-> IF d.kind = "image" THEN <<BuildManifest(d)>> ELSE <<>>,
     receipts |-> IF d.kind = "ack" THEN 1 ELSE 0, status |-> 5,
     request |-> 1, padding |-> padding]

IdleSender == [at |-> "idle", draft |-> {}, payload |-> {}]

GoodProfile == [live |-> 1, locked |-> TRUE, bytes |-> 3300, version |-> 1,
                algorithms |-> "known", versions |-> <<1>>, handle |-> 64,
                revoked |-> 0, attachments |-> 3]
ProfileCellsSeen ==
    {GoodProfile, [GoodProfile EXCEPT !.live = 0], [GoodProfile EXCEPT !.locked = FALSE],
     [GoodProfile EXCEPT !.version = 2], [GoodProfile EXCEPT !.algorithms = "other"],
     [GoodProfile EXCEPT !.versions = <<2>>], [GoodProfile EXCEPT !.handle = 65],
     [GoodProfile EXCEPT !.revoked = 2], [GoodProfile EXCEPT !.attachments = 4]}

-----------------------------------------------------------------------------
(* What another program may put under the type script: one field of a      *)
(* well-formed message changed, before or after sealing.                   *)

Plain == [kind |-> "text", text |-> 1, size |-> 0, thumb |-> Absent, mime |-> "none"]
Picture == [kind |-> "image", text |-> 0, size |-> 1, thumb |-> 900, mime |-> "webp"]
P0 == PayloadOf(Plain, 0)
H0 == HeaderOf(Plain)

OtherPayloads ==
    LET q == PayloadOf(Picture, 0)
        m == q.manifests[1]
        Others == {[m EXCEPT !.plain = 0], [m EXCEPT !.encrypted = 2], [m EXCEPT !.chunks = 2],
                   [m EXCEPT !.edge = MaxEdge + 1], [m EXCEPT !.mime = "gif"],
                   [m EXCEPT !.thumbMime = "unknown"], [m EXCEPT !.aead = "other"]}
    IN  {[P0 EXCEPT !.body = 9], [P0 EXCEPT !.request = 4], [P0 EXCEPT !.status = 7],
         [P0 EXCEPT !.text = MaxTextBytes + 1], [P0 EXCEPT !.text = Absent],
         [P0 EXCEPT !.padding = MaxPaddingBytes + 1],
         [P0 EXCEPT !.receipts = MaxReceipts + 1], [P0 EXCEPT !.receipts = MaxReceipts],
         [q EXCEPT !.manifests = <<m, m, m, m, m>>]}
        \cup {[q EXCEPT !.manifests = <<o>>] : o \in Others}

(* Sealed by its sender for whom the payload names, under its own header.  *)
OtherEnvelopes ==
    {Seal([H0 EXCEPT !.type = p.body], p) : p \in OtherPayloads}
    \cup {Seal(H0, [P0 EXCEPT !.id = "other"]), Seal(H0, [P0 EXCEPT !.body = AttachmentManifest]),
          Seal([H0 EXCEPT !.type = Receipt], [P0 EXCEPT !.body = Receipt]),
          Seal(H0, [P0 EXCEPT !.to = Friend]),
          Seal([H0 EXCEPT !.version = 2], P0), Seal([H0 EXCEPT !.network = 0], P0),
          [Seal(H0, P0) EXCEPT !.header.from = "third"],
          [Seal(H0, P0) EXCEPT !.header.id = "other"],
          [Seal(H0, [P0 EXCEPT !.to = Friend]) EXCEPT !.sealed.to = Me],
          [Seal(H0, P0) EXCEPT !.canonical = FALSE],
          [Seal(H0, P0) EXCEPT !.cipher = GcmTag - 1],
          [Seal(H0, P0) EXCEPT !.bytes = MaxEnvelopeBytes + 1]}

OtherCells(epoch) ==
    LET good == MessageCell(Seal(H0, P0), epoch)
    IN  {MessageCell(e, epoch) : e \in OtherEnvelopes}
        \cup {[good EXCEPT !.args.reserved = 1], [good EXCEPT !.args.version = 2],
              [good EXCEPT !.args.len = 80],
              [good EXCEPT !.args.len = 512], [good EXCEPT !.wide = TRUE]}

-----------------------------------------------------------------------------
Outcomes == {"unread", "refused", "acknowledged", "stored", "bare"}

WireTypeOK ==
    /\ sender.at \in {"idle", "assembled", "done", "refused"}
    /\ sender.at # "idle" => sender.draft \in Drafts
    /\ clock \in [{"sender", "recipient"} -> 1..MaxWireEpoch]
    /\ outcome \in Outcomes
    /\ outcome # "unread" => posted # NoCell

WireInit ==
    /\ sender = IdleSender /\ posted = NoCell
    /\ clock \in [{"sender", "recipient"} -> 1..2]
    /\ outcome = "unread"

(* 30 days pass, first on one wall clock, then on the other.               *)
EpochBegins(side) ==
    /\ clock[side] < MaxWireEpoch
    /\ clock' = [clock EXCEPT ![side] = @ + 1]
    /\ UNCHANGED <<sender, posted, outcome>>

AssembleTextMessage ==
    /\ sender.at = "idle" /\ posted = NoCell
    /\ \E d \in Drafts, padding \in {0, MaxPaddingBytes}, f \in ProfileCellsSeen :
          sender' = [at |-> IF /\ Composed(d) /\ CompressToLimits(d)
                               /\ ResolveLiveProfile(f) /\ ProfileBinding(f)
                               /\ ValidatePayload(PayloadOf(d, padding))
                            THEN "assembled" ELSE "refused",
                     draft |-> d, payload |-> PayloadOf(d, padding)]
    /\ UNCHANGED <<posted, clock, outcome>>

(* buildSendMessageTx, and the type script that runs on the new cell. The  *)
(* tag was derived from the sender's clock.                                *)
PublishMessageCell ==
    LET h == HeaderOf(sender.draft)
        cell == MessageCell(Seal(h, sender.payload), clock["sender"])
    IN  /\ sender.at = "assembled"
        /\ EncryptEnvelope(h, sender.payload) /\ ProgramEntry(cell.args)
        /\ posted' = cell
        /\ sender' = [sender EXCEPT !.at = "done"]
        /\ UNCHANGED <<clock, outcome>>

OtherProgramPublishes ==
    /\ sender.at = "idle" /\ posted = NoCell
    /\ \E c \in OtherCells(clock["sender"]) : ProgramEntry(c.args) /\ posted' = c
    /\ UNCHANGED <<sender, clock, outcome>>

-----------------------------------------------------------------------------
(* The recipient scans the tag of this epoch and of the one before.        *)

ScannedEpochs == {clock["recipient"], clock["recipient"] - 1}

(* A page of the indexer is taken as a whole: a capacity above the bound   *)
(* of client.ts (seven bytes) fails every cell of the tag.                 *)
ParseCellsPage(cell) == ~cell.wide

(* The args are compared up to the tag; the reserved bytes are not.        *)
FindMessageCells(cell) ==
    /\ cell.args.to = Me /\ cell.args.epoch \in ScannedEpochs
    /\ cell.args.len = 81 /\ cell.envelope.bytes <= MaxEnvelopeBytes

ProcessIncomingText(e) ==
    /\ DecryptEnvelope(e)
    /\ ValidatePayload(e.sealed.payload)
    /\ SemanticConsistency(e.header, e.sealed.payload)
    /\ e.sealed.payload.body \in {Text, AttachmentManifest}

(* An empty text with receipts is an acknowledgement and is not shown; of  *)
(* the manifests only the consistent ones are kept.                        *)
PureAcknowledgement(p) == p.text \in {Absent, 0} /\ p.receipts > 0

Kept(p) == {k \in DOMAIN p.manifests : CheckManifest(p.manifests[k])}

IngestEnvelope ==
    /\ outcome = "unread" /\ posted # NoCell
    /\ ParseCellsPage(posted) /\ FindMessageCells(posted)
    /\ outcome' =
         LET p == posted.envelope.sealed.payload
         IN  IF ~ProcessIncomingText(posted.envelope) THEN "refused"
             ELSE IF PureAcknowledgement(p) THEN "acknowledged"
             ELSE IF p.manifests # <<>> /\ Kept(p) = {} THEN "bare"
             ELSE "stored"
    /\ UNCHANGED <<sender, posted, clock>>

WireNext ==
    \/ \E side \in {"sender", "recipient"} : EpochBegins(side)
    \/ AssembleTextMessage \/ PublishMessageCell \/ OtherProgramPublishes
    \/ IngestEnvelope

WireSpec == WireInit /\ [][WireNext]_wireVars

-----------------------------------------------------------------------------
(* The two ends agree on what a message is. What the sender's gates let    *)
(* out arrives: a text as a text, an acknowledgement as one, an image with *)
(* its picture - except an image whose thumbnail is above the recipient's  *)
(* limit, which nothing bounds on the way out (prepare.ts:69-72,           *)
(* manifest.ts:119-125). And what is shown, whoever built the cell, was    *)
(* sealed for this profile by the profile and under the message id that    *)
(* its clear header names (validate.ts:302-332, envelope.ts:213-262).      *)
StoredIsWhatWasSent ==
    LET e == posted.envelope
        d == sender.draft
        shown == outcome \in {"stored", "bare"}
    IN  /\ sender.at = "done" /\ outcome # "unread" =>
              outcome = CASE d.kind = "ack" -> "acknowledged"
                          [] d.kind = "image" /\ d.thumb > MaxThumbnail -> "bare"
                          [] OTHER -> "stored"
        /\ shown => /\ e.sealed.payload.to = Me /\ e.sealed.from = e.header.from
                    /\ e.sealed.payload.id = e.header.id
=============================================================================
