----------------------------- MODULE DeviceProofs -----------------------------
(***************************************************************************)
(* What is proved of the device with its components side by side           *)
(* (MCDevice): each of them runs as its own specification says, so what is  *)
(* proved of it alone (RuntimeProofs, ConversationProofs) holds of the     *)
(* device.  Before that, what is proved of the components that are in no   *)
(* other proof module: the two ends of the wire (Wire), the wakes asked of *)
(* the platform (Scheduling) and the profiles a contact trusts (Rotation). *)
(***************************************************************************)
EXTENDS MCDevice, RuntimeProofs, ConversationProofs

-----------------------------------------------------------------------------
(* The two ends of the wire.                                               *)

(* A draft that the sender's gates let through, as the payload it became.  *)
Passed(d, p) ==
    /\ d \in Drafts /\ Composed(d) /\ CompressToLimits(d)
    /\ ValidatePayload(p)
    /\ \E padding \in {0, MaxPaddingBytes} : p = PayloadOf(d, padding)

(* No cell is on the chain before the sender published; then it is the one *)
(* its draft was sealed into, and it passed the codec once more.           *)
PostedBySender ==
    /\ sender.at \in {"idle", "assembled", "done", "refused"}
    /\ sender.at \in {"assembled", "done"} => Passed(sender.draft, sender.payload)
    /\ sender.at = "assembled" => posted = NoCell
    /\ sender.at = "done" =>
          /\ EncryptEnvelope(HeaderOf(sender.draft), sender.payload)
          /\ posted.envelope = Seal(HeaderOf(sender.draft), sender.payload)
          /\ posted # NoCell

(* What the recipient makes of a cell it can read.                         *)
Reading(e) ==
    IF ~ProcessIncomingText(e) THEN "refused"
    ELSE IF PureAcknowledgement(e.sealed.payload) THEN "acknowledged"
    ELSE IF e.sealed.payload.manifests # <<>> /\ Kept(e.sealed.payload) = {} THEN "bare"
    ELSE "stored"

(* A cell is read once it is on the chain, and stays as it was read.       *)
ReadAsPosted ==
    outcome # "unread" => posted # NoCell /\ outcome = Reading(posted.envelope)

WireInv == PostedBySender /\ ReadAsPosted

LEMMA InitWire == WireInit => WireInv
BY DEF WireInit, WireInv, PostedBySender, ReadAsPosted, IdleSender

(* A cell the type script lets onto the chain is a cell.                   *)
LEMMA LetOnChain ==
    ASSUME NEW c, ProgramEntry(c.args)
    PROVE  c # NoCell
BY DEF ProgramEntry, ValidateTypeArgs, NoCell

LEMMA WireStep ==
    ASSUME WireInv, [WireNext]_wireVars
    PROVE  WireInv'
<1>1. CASE \E side \in {"sender", "recipient"} : EpochBegins(side)
  BY <1>1 DEF EpochBegins, WireInv, PostedBySender, ReadAsPosted
<1>2. CASE AssembleTextMessage
  <2>1. PICK d \in Drafts, padding \in {0, MaxPaddingBytes}, f \in ProfileCellsSeen :
           sender' = [at |-> IF /\ Composed(d) /\ CompressToLimits(d)
                               /\ ResolveLiveProfile(f) /\ ProfileBinding(f)
                               /\ ValidatePayload(PayloadOf(d, padding))
                            THEN "assembled" ELSE "refused",
                     draft |-> d, payload |-> PayloadOf(d, padding)]
    BY <1>2 DEF AssembleTextMessage
  <2>2. sender'.at = "assembled" => Passed(sender'.draft, sender'.payload)
    BY <2>1 DEF Passed
  <2>3. posted = NoCell /\ UNCHANGED <<posted, outcome>>
    BY <1>2 DEF AssembleTextMessage
  <2>4. sender'.at \in {"assembled", "refused"}
    BY <2>1
  <2> QED BY <2>2, <2>3, <2>4 DEF WireInv, PostedBySender, ReadAsPosted
<1>3. CASE PublishMessageCell
  <2> DEFINE h == HeaderOf(sender.draft)
             c == MessageCell(Seal(h, sender.payload), clock["sender"])
  <2>1. /\ sender.at = "assembled" /\ EncryptEnvelope(h, sender.payload)
        /\ ProgramEntry(c.args) /\ posted' = c
        /\ sender' = [sender EXCEPT !.at = "done"] /\ outcome' = outcome
    BY <1>3 DEF PublishMessageCell
  <2>2. posted = NoCell /\ outcome = "unread" /\ Passed(sender.draft, sender.payload)
    BY <2>1 DEF WireInv, PostedBySender, ReadAsPosted
  <2>3. c # NoCell
    BY <2>1, LetOnChain
  <2>4. c.envelope = Seal(h, sender.payload)
    BY DEF MessageCell
  <2> QED BY <2>1, <2>2, <2>3, <2>4 DEF WireInv, PostedBySender, ReadAsPosted
<1>4. CASE OtherProgramPublishes
  <2>1. PICK c \in OtherCells(clock["sender"]) : ProgramEntry(c.args) /\ posted' = c
    BY <1>4 DEF OtherProgramPublishes
  <2>2. sender.at = "idle" /\ posted = NoCell /\ UNCHANGED <<sender, outcome>>
    BY <1>4 DEF OtherProgramPublishes
  <2> QED BY <2>1, <2>2 DEF WireInv, PostedBySender, ReadAsPosted
<1>5. CASE IngestEnvelope
  <2>1. outcome' = Reading(posted.envelope) /\ posted # NoCell /\ UNCHANGED <<sender, posted>>
    BY <1>5 DEF IngestEnvelope, Reading
  <2> QED BY <2>1 DEF WireInv, PostedBySender, ReadAsPosted
<1>6. CASE UNCHANGED wireVars
  BY <1>6 DEF wireVars, WireInv, PostedBySender, ReadAsPosted
<1> QED BY <1>1, <1>2, <1>3, <1>4, <1>5, <1>6 DEF WireNext

-----------------------------------------------------------------------------
(* What comes of a draft that passed.                                      *)

LEMMA DraftFields ==
    ASSUME NEW d \in Drafts
    PROVE  /\ d.kind \in {"text", "ack", "image"}
           /\ d.kind = "text" => d.text \in {1, MaxTextBytes, MaxTextBytes + 1}
           /\ d.kind = "ack" => d.text = 0
           /\ d.kind = "image" =>
                 /\ d.size \in {1, MaxAttachmentBytes, MaxAttachmentBytes + 1}
                 /\ d.thumb \in {900, MaxThumbnail, MaxThumbnail + 1}
                 /\ d.mime \in {"webp", "jpeg"}
<1>1. CASE d \in TextDrafts  BY <1>1 DEF TextDrafts
<1>2. CASE d \in AckDrafts  BY <1>2 DEF AckDrafts
<1>3. CASE d \in ImageDrafts  BY <1>3 DEF ImageDrafts
<1> QED BY <1>1, <1>2, <1>3 DEF Drafts

(* The recipient's check of the manifest the sender built fails only for   *)
(* a thumbnail above the recipient's limit.                                *)
LEMMA BuiltManifestIsChecked ==
    ASSUME NEW d, d.size \in {1, MaxAttachmentBytes},
           d.thumb \in {900, MaxThumbnail, MaxThumbnail + 1}, d.mime \in {"webp", "jpeg"}
    PROVE  CheckManifest(BuildManifest(d)) <=> ~(d.thumb > MaxThumbnail)
<1> DEFINE m == BuildManifest(d)
<1>1. /\ m.plain = d.size /\ m.encrypted = d.size + 16 /\ m.edge = 960
      /\ m.chunks = (d.size + 16 + 32768 - 1) \div 32768
      /\ m.thumb = d.thumb /\ m.mime = d.mime /\ m.thumbMime = d.mime /\ m.aead = "gcm"
  BY DEF BuildManifest, ChunkCount, SplitIntoChunks, GcmTag, ChunkBytes, PreferredEdge
<1>2. NeededChunks(m) = m.chunks
  BY <1>1 DEF NeededChunks, ChunkBytes
<1>3. m.chunks > 0
  BY <1>1 DEF MaxAttachmentBytes
<1>4. m.plain > 0 /\ m.plain <= MaxAttachmentBytes /\ m.encrypted = m.plain + GcmTag
  BY <1>1 DEF MaxAttachmentBytes, GcmTag
<1>5. m.edge > 0 /\ m.edge <= MaxEdge
  BY <1>1 DEF MaxEdge
<1>6. d.thumb \in Int /\ (d.thumb <= MaxThumbnail <=> ~(d.thumb > MaxThumbnail))
  BY DEF MaxThumbnail
<1> HIDE DEF m
<1>7. CheckManifest(m) <=> ~(d.thumb > MaxThumbnail)
  BY <1>1, <1>2, <1>3, <1>4, <1>5, <1>6 DEF CheckManifest
<1> QED BY <1>7 DEF m

LEMMA SealedIsAccepted ==
    ASSUME NEW d, NEW p, Passed(d, p), EncryptEnvelope(HeaderOf(d), p)
    PROVE  ProcessIncomingText(Seal(HeaderOf(d), p))
<1> DEFINE h == HeaderOf(d)
           e == Seal(h, p)
<1>1. e.header = h /\ e.sealed.payload = p /\ e.sealed.from = h.from
      /\ e.sealed.to = p.to /\ e.sealed.aad = h
  BY DEF Seal
<1>2. p.to = Me /\ p.id = h.id /\ p.body = h.type
  BY DEF Passed, PayloadOf, HeaderOf
<1>3. h.type \in {Text, AttachmentManifest}
  BY DEF HeaderOf
<1>4. ValidateEnvelope(e) /\ ValidatePayload(p)
  BY DEF EncryptEnvelope, Passed
<1> HIDE DEF h, e
<1>5. Opens(e)
  BY <1>1, <1>2 DEF Opens
<1>6. DecryptEnvelope(e)
  BY <1>4, <1>5 DEF DecryptEnvelope
<1>7. SemanticConsistency(e.header, e.sealed.payload)
  BY <1>1, <1>2 DEF SemanticConsistency
<1>8. ProcessIncomingText(e)
  BY <1>1, <1>2, <1>3, <1>4, <1>6, <1>7 DEF ProcessIncomingText
<1> QED BY <1>8 DEF e, h

LEMMA SealedIsReadAsMeant ==
    ASSUME NEW d, NEW p, Passed(d, p), EncryptEnvelope(HeaderOf(d), p)
    PROVE  Reading(Seal(HeaderOf(d), p)) =
              CASE d.kind = "ack" -> "acknowledged"
                [] d.kind = "image" /\ d.thumb > MaxThumbnail -> "bare"
                [] OTHER -> "stored"
<1> DEFINE e == Seal(HeaderOf(d), p)
<1>1. ProcessIncomingText(e) /\ e.sealed.payload = p
  BY SealedIsAccepted DEF Seal
<1>2. /\ p.text = (IF d.kind = "image" /\ d.text = 0 THEN Absent ELSE d.text)
      /\ p.receipts = (IF d.kind = "ack" THEN 1 ELSE 0)
      /\ p.manifests = (IF d.kind = "image" THEN <<BuildManifest(d)>> ELSE <<>>)
  BY DEF Passed, PayloadOf
<1>3. d \in Drafts /\ Composed(d) /\ CompressToLimits(d)
  BY DEF Passed
<1> HIDE DEF e
<1>4. PureAcknowledgement(p) <=> d.kind = "ack"
  BY <1>2, <1>3, DraftFields DEF PureAcknowledgement, Absent
<1>5. CASE d.kind = "ack"
  BY <1>1, <1>4, <1>5 DEF Reading, e
<1>6. CASE d.kind = "text"
  BY <1>1, <1>2, <1>4, <1>6 DEF Reading, e
<1>7. CASE d.kind = "image"
  <2>1. /\ d.size \in {1, MaxAttachmentBytes}
        /\ d.thumb \in {900, MaxThumbnail, MaxThumbnail + 1} /\ d.mime \in {"webp", "jpeg"}
    BY <1>3, <1>7, DraftFields DEF CompressToLimits, MaxAttachmentBytes
  <2>2. p.manifests = <<BuildManifest(d)>> /\ p.manifests # <<>>
    BY <1>2, <1>7
  <2>3. Kept(p) = {} <=> ~CheckManifest(BuildManifest(d))
    BY <2>2 DEF Kept
  <2>4. Kept(p) = {} <=> d.thumb > MaxThumbnail
    BY <2>1, <2>3, BuiltManifestIsChecked
  <2> QED BY <1>1, <1>4, <1>7, <2>2, <2>4 DEF Reading, e
<1> QED BY <1>3, <1>5, <1>6, <1>7, DraftFields

(* What is shown was sealed for this profile by the one its header names.  *)
LEMMA ShownIsAuthentic ==
    ASSUME NEW e, Reading(e) \in {"stored", "bare"}
    PROVE  /\ e.sealed.payload.to = Me /\ e.sealed.from = e.header.from
           /\ e.sealed.payload.id = e.header.id
<1>1. ProcessIncomingText(e)
  BY DEF Reading
<1> QED BY <1>1 DEF ProcessIncomingText, SemanticConsistency, DecryptEnvelope, Opens

LEMMA WireInvSuffices == WireInv => StoredIsWhatWasSent
<1> SUFFICES ASSUME WireInv PROVE StoredIsWhatWasSent
  OBVIOUS
<1>1. ASSUME sender.at = "done", outcome # "unread"
      PROVE  outcome = CASE sender.draft.kind = "ack" -> "acknowledged"
                 [] sender.draft.kind = "image" /\ sender.draft.thumb > MaxThumbnail -> "bare"
                 [] OTHER -> "stored"
  <2>1. outcome = Reading(Seal(HeaderOf(sender.draft), sender.payload))
    BY <1>1 DEF WireInv, PostedBySender, ReadAsPosted
  <2>2. /\ Passed(sender.draft, sender.payload)
        /\ EncryptEnvelope(HeaderOf(sender.draft), sender.payload)
    BY <1>1 DEF WireInv, PostedBySender
  <2> QED BY <2>1, <2>2, SealedIsReadAsMeant
<1>2. ASSUME outcome \in {"stored", "bare"}
      PROVE  /\ posted.envelope.sealed.payload.to = Me
             /\ posted.envelope.sealed.from = posted.envelope.header.from
             /\ posted.envelope.sealed.payload.id = posted.envelope.header.id
  BY <1>2, ShownIsAuthentic DEF WireInv, ReadAsPosted
<1> QED BY <1>1, <1>2 DEF StoredIsWhatWasSent

(* The two ends agree on what a message is, whatever cells other programs  *)
(* put under the type script (validate.ts:302-332, manifest.ts:119-125).   *)
THEOREM TheTwoEndsAgree == WireSpec => []StoredIsWhatWasSent
<1>1. WireInv /\ [WireNext]_wireVars => WireInv'
  BY WireStep
<1> QED BY InitWire, <1>1, WireInvSuffices, PTL DEF WireSpec

-----------------------------------------------------------------------------
(* The wakes asked of the platform.                                        *)

SpecRow(r, k) == Tables[r][k]

LEMMA TwoReleases ==
    /\ Releases = {1, 2}
    /\ DOMAIN Tables[1] = {1, 2, 3, 4} /\ DOMAIN Tables[2] = {1, 2}
    /\ Tables[1][1] = Every("pending", 15, TRUE) /\ Tables[1][2] = Every("lora", 1, TRUE)
    /\ Tables[1][3] = Every("watched", 30, TRUE) /\ Tables[1][4] = Every("maintenance", 1440, FALSE)
    /\ Tables[2][1] = Every("maintenance", 1440, FALSE) /\ Tables[2][2] = Every("watched", 30, FALSE)
<1>1. Releases = {1, 2}
  BY DEF Releases, Tables
<1>2. Tables[1] = <<Every("pending", 15, TRUE), Every("lora", 1, TRUE),
               Every("watched", 30, TRUE), Every("maintenance", 1440, FALSE)>>
  BY DEF Tables
<1>3. Tables[2] = <<Every("maintenance", 1440, FALSE), Every("watched", 30, FALSE)>>
  BY DEF Tables
<1> QED BY <1>1, <1>2, <1>3

LEMMA MaxOfSet ==
    ASSUME NEW S, NEW m \in S, S \subseteq Nat, \A y \in S : y <= m
    PROVE  Max(S) = m
<1>1. m \in S /\ \A y \in S : m >= y
  OBVIOUS
<1>2. Max(S) \in S /\ \A y \in S : Max(S) >= y
  BY <1>1 DEF Max
<1>3. m \in Nat /\ Max(S) \in Nat /\ Max(S) <= m /\ m <= Max(S)
  BY <1>2
<1> QED BY <1>3

LEMMA MinOfSet ==
    ASSUME NEW S, NEW m \in S, S \subseteq Nat, \A y \in S : m <= y
    PROVE  Min(S) = m
<1>1. m \in S /\ \A y \in S : m <= y
  OBVIOUS
<1>2. Min(S) \in S /\ \A y \in S : Min(S) <= y
  BY <1>1 DEF Min
<1>3. m \in Nat /\ Min(S) \in Nat /\ Min(S) <= m /\ m <= Min(S)
  BY <1>2
<1> QED BY <1>3

LEMMA ToSetOfFour ==
    ASSUME NEW seq, DOMAIN seq = {1, 2, 3, 4}
    PROVE  ToSet(seq) = {seq[1], seq[2], seq[3], seq[4]}
BY DEF ToSet

LEMMA ToSetOfTwo ==
    ASSUME NEW seq, DOMAIN seq = {1, 2}
    PROVE  ToSet(seq) = {seq[1], seq[2]}
BY DEF ToSet

LEMMA MaxUpToFour ==
    ASSUME NEW s \in SUBSET {1, 2, 3, 4}
    PROVE  /\ 4 \in s => Max(s) = 4
           /\ 4 \notin s /\ 3 \in s => Max(s) = 3
           /\ 4 \notin s /\ 3 \notin s /\ 2 \in s => Max(s) = 2
           /\ s = {1} => Max(s) = 1
<1>1. s \subseteq Nat /\ \A y \in s : y <= 4
  OBVIOUS
<1>2. 4 \notin s => \A y \in s : y <= 3
  OBVIOUS
<1>3. 4 \notin s /\ 3 \notin s => \A y \in s : y <= 2
  OBVIOUS
<1>4. s = {1} => \A y \in s : y <= 1
  OBVIOUS
<1> QED BY <1>1, <1>2, <1>3, <1>4, MaxOfSet

AddAll(base, seq) == FoldLeft(AddSpec, base, seq)

(* Four steps of the fold. *)
LEMMA FoldOfFour ==
    ASSUME NEW seq, DOMAIN seq = {1, 2, 3, 4}, NEW base
    PROVE  AddAll(base, seq) =
             AddSpec(AddSpec(AddSpec(AddSpec(base, seq[1]), seq[2]), seq[3]), seq[4])
<1> DEFINE S == {1, 2, 3, 4}
           A(s) == IF 1 \in s THEN AddSpec(base, seq[1]) ELSE base
           B(s) == IF 2 \in s THEN AddSpec(A(s), seq[2]) ELSE A(s)
           C(s) == IF 3 \in s THEN AddSpec(B(s), seq[3]) ELSE B(s)
           D(s) == IF 4 \in s THEN AddSpec(C(s), seq[4]) ELSE C(s)
           h == [s \in SUBSET S |-> D(s)]
           Rule(it) == it = [s \in SUBSET S |-> IF s = {} THEN base
                              ELSE AddSpec(it[s \ {Max(s)}], seq[Max(s)])]
           it0 == CHOOSE it : Rule(it)
<1>1. AddAll(base, seq) = it0[S]
  BY DEF AddAll, FoldLeft, MapThenFoldSet
<1>2. Rule(h)
  <2>1. ASSUME NEW s \in SUBSET S, s # {}
        PROVE  D(s) = AddSpec(D(s \ {Max(s)}), seq[Max(s)])
    <3> HIDE DEF A
    <3>1. CASE 4 \in s
      <4>1. Max(s) = 4
        BY <3>1, MaxUpToFour
      <4>2. A(s \ {4}) = A(s)
        BY DEF A
      <4> QED BY <3>1, <4>1, <4>2
    <3>2. CASE 4 \notin s /\ 3 \in s
      <4>1. Max(s) = 3
        BY <3>2, MaxUpToFour
      <4>2. A(s \ {3}) = A(s)
        BY DEF A
      <4> QED BY <3>2, <4>1, <4>2
    <3>3. CASE 4 \notin s /\ 3 \notin s /\ 2 \in s
      <4>1. Max(s) = 2
        BY <3>3, MaxUpToFour
      <4>2. A(s \ {2}) = A(s)
        BY DEF A
      <4> QED BY <3>3, <4>1, <4>2
    <3>4. CASE s = {1}
      <4>1. Max(s) = 1
        BY <3>4, MaxUpToFour
      <4>2. A(s \ {1}) = base /\ A(s) = AddSpec(base, seq[1])
        BY <3>4 DEF A
      <4> QED BY <3>4, <4>1, <4>2
    <3> QED BY <2>1, <3>1, <3>2, <3>3, <3>4
  <2>2. D({}) = base
    OBVIOUS
  <2>3. ASSUME NEW s \in SUBSET S
        PROVE  D(s) = IF s = {} THEN base ELSE AddSpec(h[s \ {Max(s)}], seq[Max(s)])
    <3>1. h[s \ {Max(s)}] = D(s \ {Max(s)})
      OBVIOUS
    <3> HIDE DEF D, h
    <3> QED BY <2>1, <2>2, <3>1
  <2> HIDE DEF D
  <2> QED BY <2>3
<1>3. Rule(it0)
  <2> HIDE DEF Rule, h
  <2> QED BY <1>2
<1>4. /\ it0[{}] = base
      /\ it0[{1}] = AddSpec(it0[{}], seq[1])
      /\ it0[{1, 2}] = AddSpec(it0[{1}], seq[2])
      /\ it0[{1, 2, 3}] = AddSpec(it0[{1, 2}], seq[3])
      /\ it0[S] = AddSpec(it0[{1, 2, 3}], seq[4])
  <2> HIDE DEF it0, A, B, C, D, h
  <2>1. Max({1}) = 1 /\ Max({1, 2}) = 2 /\ Max({1, 2, 3}) = 3 /\ Max(S) = 4
    BY MaxUpToFour
  <2>2. {1} \ {1} = {} /\ {1, 2} \ {2} = {1} /\ {1, 2, 3} \ {3} = {1, 2} /\ S \ {4} = {1, 2, 3}
    OBVIOUS
  <2>3. \A s \in SUBSET S : it0[s] = IF s = {} THEN base ELSE AddSpec(it0[s \ {Max(s)}], seq[Max(s)])
    BY <1>3
  <2>4. it0[{}] = base
    BY <2>3
  <2>5. it0[{1}] = AddSpec(it0[{1} \ {Max({1})}], seq[Max({1})])
    BY <2>3
  <2>6. it0[{1, 2}] = AddSpec(it0[{1, 2} \ {Max({1, 2})}], seq[Max({1, 2})])
    BY <2>3
  <2>7. it0[{1, 2, 3}] = AddSpec(it0[{1, 2, 3} \ {Max({1, 2, 3})}], seq[Max({1, 2, 3})])
    BY <2>3
  <2>8. it0[S] = AddSpec(it0[S \ {Max(S)}], seq[Max(S)])
    BY <2>3
  <2> QED BY <2>1, <2>2, <2>4, <2>5, <2>6, <2>7, <2>8
<1> HIDE DEF it0
<1> QED BY <1>1, <1>4

Registry(S, wake, out) == [specs |-> S, scheduled |-> wake, out |-> out]
Periodic(wake, replace) == [op |-> "periodic", tick |-> wake, replace |-> replace]
First(wake) == Periodic(wake, FALSE)
Again(wake) == Periodic(wake, TRUE)
Entry(next, wake) == Periodic(next, Replaces(wake))

Quarter == [every |-> 15, net |-> TRUE]
Daily == [every |-> 1440, net |-> FALSE]
HalfHour == [every |-> 30, net |-> FALSE]

LEMMA Coalesced ==
    ASSUME NEW S, \A s \in S : s.every \in Nat,
           NEW e, \A s \in S : e <= s.every, \E s \in S : s.every = e,
           NEW net, net \in BOOLEAN, net <=> \E s \in S : s.net
    PROVE  Coalesce(S) = [every |-> IF e <= 15 THEN 15 ELSE e, net |-> net]
<1> DEFINE E == {s.every : s \in S}
           m == IF e <= 15 THEN 15 ELSE e
<1>0. e \in Nat
  OBVIOUS
<1>1. Min(E) = e
  <2>1. E \subseteq Nat /\ e \in E /\ \A y \in E : e <= y
    OBVIOUS
  <2> HIDE DEF E
  <2> QED BY <2>1, MinOfSet
<1>2. Max({15, e}) = m
  <2>1. {15, e} \subseteq Nat /\ m \in {15, e} /\ \A y \in {15, e} : y <= m
    BY <1>0
  <2> HIDE DEF m
  <2> QED BY <2>1, MaxOfSet
<1>3. Coalesce(S) = [every |-> Max({MinEvery, Min(E)}), net |-> \E s \in S : s.net]
  BY DEF Coalesce
<1>4. Coalesce(S) = [every |-> m, net |-> net]
  <2> HIDE DEF E, m
  <2> QED BY <1>1, <1>2, <1>3 DEF MinEvery
<1> QED BY <1>4

LEMMA CoalescedOnline ==
    ASSUME NEW S, \A s \in S : s.every \in Nat,
           NEW e, \A s \in S : e <= s.every, \E s \in S : s.every = e, e <= 15,
           \E s \in S : s.net
    PROVE  Coalesce(S) = Quarter
<1>1. Coalesce(S) = [every |-> IF e <= 15 THEN 15 ELSE e, net |-> TRUE]
  BY Coalesced
<1> QED BY <1>1 DEF Quarter

LEMMA CoalescedOffline ==
    ASSUME NEW S, \A s \in S : s.every \in Nat,
           NEW e, \A s \in S : e <= s.every, \E s \in S : s.every = e, e > 15,
           ~ \E s \in S : s.net
    PROVE  Coalesce(S) = [every |-> e, net |-> FALSE]
<1>1. Coalesce(S) = [every |-> IF e <= 15 THEN 15 ELSE e, net |-> FALSE]
  BY Coalesced
<1>2. ~ (e <= 15)
  OBVIOUS
<1> QED BY <1>1, <1>2

LEMMA Added ==
    ASSUME NEW S, NEW wake, NEW out, NEW s, \A t \in S : t.id # s.id, NEW T, T = S \cup {s}
    PROVE  AddSpec(Registry(S, wake, out), s) = Recompute(Registry(T, wake, out))
<1> DEFINE r == Registry(S, wake, out)
<1>1. {t \in S : t.id # s.id} = S
  OBVIOUS
<1>2. {t \in r.specs : t.id # s.id} \cup {s} = T
  BY <1>1 DEF Registry
<1>3. [r EXCEPT !.specs = T] = Registry(T, wake, out)
  BY DEF Registry
<1>4. [r EXCEPT !.specs = {t \in @ : t.id # s.id} \cup {s}] = Registry(T, wake, out)
  <2> HIDE DEF r
  <2> QED BY <1>2, <1>3
<1> QED BY <1>4 DEF AddSpec

LEMMA AddedUnchanged ==
    ASSUME NEW S, NEW wake, NEW out, NEW s, \A t \in S : t.id # s.id, NEW T, T = S \cup {s},
           Coalesce(T) = wake
    PROVE  AddSpec(Registry(S, wake, out), s) = Registry(T, wake, out)
<1> DEFINE r == Registry(T, wake, out)
<1>1. r.specs = T /\ r.scheduled = wake
  BY DEF Registry
<1>2. Recompute(r) = r
  <2> HIDE DEF r
  <2> QED BY <1>1 DEF Recompute
<1> QED BY <1>2, Added

Widens(S, s, T, next) == (\A t \in S : t.id # s.id) /\ T = S \cup {s} /\ Coalesce(T) = next

LEMMA AddedOther ==
    ASSUME NEW S, NEW wake, NEW out, NEW s, NEW T, NEW next, Widens(S, s, T, next),
           next # wake
    PROVE  AddSpec(Registry(S, wake, out), s) =
              Registry(T, next, Append(out, Entry(next, wake)))
<1> DEFINE r == Registry(T, wake, out)
<1>1. r.specs = T /\ r.scheduled = wake /\ r.out = out /\ T # {} /\ Coalesce(T) = next
  BY DEF Registry, Widens
<1>2. ASSUME NEW o PROVE [r EXCEPT !.scheduled = next, !.out = o] = Registry(T, next, o)
  <2>1. [r EXCEPT !.scheduled = next] = [specs |-> T, scheduled |-> next, out |-> out]
    BY DEF Registry
  <2> DEFINE q == [r EXCEPT !.scheduled = next]
  <2>2. [q EXCEPT !.out = o] = [specs |-> T, scheduled |-> next, out |-> o]
    <3> HIDE DEF q
    <3>1. q = [specs |-> T, scheduled |-> next, out |-> out]
      BY <2>1 DEF q
    <3> QED BY <3>1
  <2> QED BY <2>2 DEF Registry
<1>3. Recompute(r) = [r EXCEPT !.scheduled = next, !.out = Append(out, Entry(next, wake))]
  <2> HIDE DEF r
  <2> QED BY <1>1 DEF Recompute, Periodic, Entry
<1>4. Recompute(r) = Registry(T, next, Append(out, Entry(next, wake)))
  <2> HIDE DEF r
  <2> QED BY <1>2, <1>3
<1> QED BY <1>4, Added DEF Widens

LEMMA AddedFirst ==
    ASSUME NEW s, NEW next, Coalesce({s}) = next, next # NoTick
    PROVE  AddSpec(FreshRegistry, s) = Registry({s}, next, <<First(next)>>)
<1>1. FreshRegistry = Registry({}, NoTick, <<>>)
  BY DEF FreshRegistry, Registry
<1>2. {} \cup {s} = {s} /\ \A t \in {} : t.id # s.id
  OBVIOUS
<1>3. AddSpec(Registry({}, NoTick, <<>>), s) = Registry({s}, next, Append(<<>>, First(next)))
  <2> DEFINE S == {}
             T == {s}
             o == <<>>
  <2>1. T = S \cup {s} /\ \A t \in S : t.id # s.id
    OBVIOUS
  <2>2. Entry(next, NoTick) = First(next)
    BY DEF Entry, Replaces, Periodic, First, Again
  <2>3. Coalesce(T) = next
    OBVIOUS
  <2>4. AddSpec(Registry(S, NoTick, o), s) =
           Registry(T, next, Append(o, Entry(next, NoTick)))
    <3>1. Widens(S, s, T, next) /\ next # NoTick
      BY <2>1, <2>3 DEF Widens
    <3> HIDE DEF S, T, o
    <3> QED BY <3>1, AddedOther
  <2> QED BY <2>2, <2>4
<1>4. Append(<<>>, First(next)) = <<First(next)>>
  OBVIOUS
<1> QED BY <1>1, <1>2, <1>3, <1>4

LEMMA AddedChanged ==
    ASSUME NEW S, NEW wake, NEW out, NEW s, NEW T, NEW next, Widens(S, s, T, next),
           next # wake, wake # NoTick
    PROVE  AddSpec(Registry(S, wake, out), s) = Registry(T, next, Append(out, Again(next)))
<1>1. Entry(next, wake) = Again(next)
  BY DEF Entry, Replaces, Periodic, First, Again
<1>2. AddSpec(Registry(S, wake, out), s) = Registry(T, next, Append(out, Entry(next, wake)))
  BY AddedOther
<1> QED BY <1>1, <1>2

LEMMA FirstReleaseAsks ==
    /\ AddAll(FreshRegistry, Tables[1]).out = <<First(Quarter)>>
    /\ Coalesce(ToSet(Tables[1])) = Quarter
<1> DEFINE p == Every("pending", 15, TRUE)
           l == Every("lora", 1, TRUE)
           w == Every("watched", 30, TRUE)
           m == Every("maintenance", 1440, FALSE)
<1>1. /\ p.every = 15 /\ l.every = 1 /\ w.every = 30 /\ m.every = 1440
      /\ p.net = TRUE /\ l.net = TRUE /\ w.net = TRUE /\ m.net = FALSE
      /\ p.id = "pending" /\ l.id = "lora" /\ w.id = "watched" /\ m.id = "maintenance"
  BY DEF Every
<1> HIDE DEF p, l, w, m
<1>2. Coalesce({p}) = Quarter
  <2> DEFINE S == {p}
  <2>1. \A s \in S : s.every \in Nat /\ 15 <= s.every
    BY <1>1
  <2>2. (\E s \in S : s.every = 15) /\ (\E s \in S : s.net)
    BY <1>1
  <2>3. Coalesce(S) = Quarter
    <3> HIDE DEF S
    <3> QED BY <2>1, <2>2, CoalescedOnline
  <2> QED BY <2>3
<1>3. Coalesce({p, l}) = Quarter
  <2> DEFINE S == {p, l}
  <2>1. \A s \in S : s.every \in Nat /\ 1 <= s.every
    BY <1>1
  <2>2. (\E s \in S : s.every = 1) /\ (\E s \in S : s.net)
    BY <1>1
  <2>3. Coalesce(S) = Quarter
    <3> HIDE DEF S
    <3> QED BY <2>1, <2>2, CoalescedOnline
  <2> QED BY <2>3
<1>4. Coalesce({p, l, w}) = Quarter
  <2> DEFINE S == {p, l, w}
  <2>1. \A s \in S : s.every \in Nat /\ 1 <= s.every
    BY <1>1
  <2>2. (\E s \in S : s.every = 1) /\ (\E s \in S : s.net)
    BY <1>1
  <2>3. Coalesce(S) = Quarter
    <3> HIDE DEF S
    <3> QED BY <2>1, <2>2, CoalescedOnline
  <2> QED BY <2>3
<1>5. Coalesce({p, l, w, m}) = Quarter
  <2> DEFINE S == {p, l, w, m}
  <2>1. \A s \in S : s.every \in Nat /\ 1 <= s.every
    BY <1>1
  <2>2. (\E s \in S : s.every = 1) /\ (\E s \in S : s.net)
    BY <1>1
  <2>3. Coalesce(S) = Quarter
    <3> HIDE DEF S
    <3> QED BY <2>1, <2>2, CoalescedOnline
  <2> QED BY <2>3
<1>6. FreshRegistry = Registry({}, NoTick, <<>>)
  BY DEF FreshRegistry, Registry
<1>7. AddSpec(FreshRegistry, p) = Registry({p}, Quarter, <<First(Quarter)>>)
  <2>1. Quarter # NoTick
    BY DEF Quarter, NoTick
  <2> QED BY <1>2, <2>1, AddedFirst
<1> DEFINE o == <<First(Quarter)>>
<1> HIDE DEF o
<1>8. AddSpec(Registry({p}, Quarter, o), l) = Registry({p, l}, Quarter, o)
  <2> DEFINE S == {p}
             T == {p, l}
  <2>1. T = S \cup {l} /\ (\A t \in S : t.id # l.id) /\ Coalesce(T) = Quarter
    BY <1>1, <1>3
  <2> HIDE DEF S, T
  <2>2. AddSpec(Registry(S, Quarter, o), l) = Registry(T, Quarter, o)
    BY <2>1, AddedUnchanged
  <2> QED BY <2>2 DEF S, T
<1>9. AddSpec(Registry({p, l}, Quarter, o), w) = Registry({p, l, w}, Quarter, o)
  <2> DEFINE S == {p, l}
             T == {p, l, w}
  <2>1. T = S \cup {w} /\ (\A t \in S : t.id # w.id) /\ Coalesce(T) = Quarter
    BY <1>1, <1>4
  <2> HIDE DEF S, T
  <2>2. AddSpec(Registry(S, Quarter, o), w) = Registry(T, Quarter, o)
    BY <2>1, AddedUnchanged
  <2> QED BY <2>2 DEF S, T
<1>10. AddSpec(Registry({p, l, w}, Quarter, o), m) = Registry({p, l, w, m}, Quarter, o)
  <2> DEFINE S == {p, l, w}
             T == {p, l, w, m}
  <2>1. T = S \cup {m} /\ (\A t \in S : t.id # m.id) /\ Coalesce(T) = Quarter
    BY <1>1, <1>5
  <2> HIDE DEF S, T
  <2>2. AddSpec(Registry(S, Quarter, o), m) = Registry(T, Quarter, o)
    BY <2>1, AddedUnchanged
  <2> QED BY <2>2 DEF S, T
<1>11. AddAll(FreshRegistry, Tables[1]) = Registry({p, l, w, m}, Quarter, o)
  <2>1. Tables[1][1] = p /\ Tables[1][2] = l /\ Tables[1][3] = w /\ Tables[1][4] = m
    BY TwoReleases DEF p, l, w, m
  <2>2. AddAll(FreshRegistry, Tables[1]) =
           AddSpec(AddSpec(AddSpec(AddSpec(FreshRegistry, p), l), w), m)
    <3>1. DOMAIN Tables[1] = {1, 2, 3, 4}
      BY TwoReleases
    <3>2. AddAll(FreshRegistry, Tables[1]) =
             AddSpec(AddSpec(AddSpec(AddSpec(FreshRegistry, Tables[1][1]), Tables[1][2]), Tables[1][3]), Tables[1][4])
      BY <3>1, FoldOfFour
    <3> QED BY <2>1, <3>2
  <2> QED BY <2>2, <1>7, <1>8, <1>9, <1>10 DEF o
<1>12. ToSet(Tables[1]) = {p, l, w, m}
  <2>1. DOMAIN Tables[1] = {1, 2, 3, 4}
    BY TwoReleases
  <2>2. Tables[1][1] = p /\ Tables[1][2] = l /\ Tables[1][3] = w /\ Tables[1][4] = m
    BY TwoReleases DEF p, l, w, m
  <2>3. ToSet(Tables[1]) = {Tables[1][1], Tables[1][2], Tables[1][3], Tables[1][4]}
    BY <2>1, ToSetOfFour
  <2> QED BY <2>2, <2>3
<1>13. Registry({p, l, w, m}, Quarter, o).out = o
  BY DEF Registry
<1>14. AddAll(FreshRegistry, Tables[1]).out = o
  BY <1>11, <1>13
<1> QED BY <1>5, <1>12, <1>14 DEF o

LEMMA FoldOfTwo ==
    ASSUME NEW seq, DOMAIN seq = {1, 2}, NEW base
    PROVE  AddAll(base, seq) = AddSpec(AddSpec(base, seq[1]), seq[2])
<1> DEFINE S == {1, 2}
           A(s) == IF 1 \in s THEN AddSpec(base, seq[1]) ELSE base
           B(s) == IF 2 \in s THEN AddSpec(A(s), seq[2]) ELSE A(s)
           h == [s \in SUBSET S |-> B(s)]
           Rule(it) == it = [s \in SUBSET S |-> IF s = {} THEN base
                              ELSE AddSpec(it[s \ {Max(s)}], seq[Max(s)])]
           it0 == CHOOSE it : Rule(it)
<1>1. AddAll(base, seq) = it0[S]
  BY DEF AddAll, FoldLeft, MapThenFoldSet
<1>2. Rule(h)
  <2>1. ASSUME NEW s \in SUBSET S, s # {}
        PROVE  B(s) = AddSpec(B(s \ {Max(s)}), seq[Max(s)])
    <3> HIDE DEF A
    <3>0. s \in SUBSET {1, 2, 3, 4}
      OBVIOUS
    <3>1. CASE 2 \in s
      <4>1. Max(s) = 2
        BY <3>0, <3>1, MaxUpToFour
      <4>2. A(s \ {2}) = A(s)
        BY DEF A
      <4> QED BY <3>1, <4>1, <4>2
    <3>2. CASE s = {1}
      <4>1. Max(s) = 1
        BY <3>0, <3>2, MaxUpToFour
      <4>2. A(s \ {1}) = base /\ A(s) = AddSpec(base, seq[1])
        BY <3>2 DEF A
      <4> QED BY <3>2, <4>1, <4>2
    <3> QED BY <2>1, <3>1, <3>2
  <2>2. B({}) = base
    OBVIOUS
  <2>3. ASSUME NEW s \in SUBSET S
        PROVE  B(s) = IF s = {} THEN base ELSE AddSpec(h[s \ {Max(s)}], seq[Max(s)])
    <3>1. h[s \ {Max(s)}] = B(s \ {Max(s)})
      OBVIOUS
    <3> HIDE DEF B, h
    <3> QED BY <2>1, <2>2, <3>1
  <2> HIDE DEF B
  <2> QED BY <2>3
<1>3. Rule(it0)
  <2> HIDE DEF Rule, h
  <2> QED BY <1>2
<1>4. /\ it0[{}] = base
      /\ it0[{1}] = AddSpec(it0[{}], seq[1])
      /\ it0[S] = AddSpec(it0[{1}], seq[2])
  <2> HIDE DEF it0, A, B, h
  <2>1. Max({1}) = 1 /\ Max(S) = 2
    BY MaxUpToFour
  <2>2. {1} \ {1} = {} /\ S \ {2} = {1}
    OBVIOUS
  <2>3. \A s \in SUBSET S : it0[s] = IF s = {} THEN base ELSE AddSpec(it0[s \ {Max(s)}], seq[Max(s)])
    BY <1>3
  <2>4. it0[{}] = base
    BY <2>3
  <2>5. it0[{1}] = AddSpec(it0[{1} \ {Max({1})}], seq[Max({1})])
    BY <2>3
  <2>6. it0[S] = AddSpec(it0[S \ {Max(S)}], seq[Max(S)])
    BY <2>3
  <2> QED BY <2>1, <2>2, <2>4, <2>5, <2>6
<1> HIDE DEF it0
<1> QED BY <1>1, <1>4

LEMMA SecondReleaseAsks ==
    /\ AddAll(FreshRegistry, Tables[2]).out =
          Append(<<First(Daily)>>, Again(HalfHour))
    /\ Coalesce(ToSet(Tables[2])) = HalfHour
<1> DEFINE m == Every("maintenance", 1440, FALSE)
           w == Every("watched", 30, FALSE)
<1>1. /\ m.every = 1440 /\ w.every = 30 /\ m.net = FALSE /\ w.net = FALSE
      /\ m.id = "maintenance" /\ w.id = "watched"
  BY DEF Every
<1> HIDE DEF m, w
<1>2. Coalesce({m}) = Daily
  <2> DEFINE S == {m}
  <2>1. \A s \in S : s.every \in Nat /\ 1440 <= s.every
    BY <1>1
  <2>2. (\E s \in S : s.every = 1440) /\ ~ (\E s \in S : s.net)
    BY <1>1
  <2>3. Coalesce(S) = Daily
    <3> HIDE DEF S
    <3> QED BY <2>1, <2>2, CoalescedOffline DEF Daily
  <2> QED BY <2>3
<1>3. Coalesce({m, w}) = HalfHour
  <2> DEFINE S == {m, w}
  <2>1. \A s \in S : s.every \in Nat /\ 30 <= s.every
    BY <1>1
  <2>2. (\E s \in S : s.every = 30) /\ ~ (\E s \in S : s.net)
    BY <1>1
  <2>3. Coalesce(S) = HalfHour
    <3> HIDE DEF S
    <3> QED BY <2>1, <2>2, CoalescedOffline DEF HalfHour
  <2> QED BY <2>3
<1>4. FreshRegistry = Registry({}, NoTick, <<>>)
  BY DEF FreshRegistry, Registry
<1>5. AddSpec(FreshRegistry, m) = Registry({m}, Daily, <<First(Daily)>>)
  <2>1. Daily # NoTick
    BY DEF Daily, NoTick
  <2> QED BY <1>2, <2>1, AddedFirst
<1> DEFINE o == <<First(Daily)>>
<1>6. AddSpec(Registry({m}, Daily, o), w) =
         Registry({m, w}, HalfHour, Append(<<First(Daily)>>, Again(HalfHour)))
  <2> DEFINE S == {m}
             T == {m, w}
  <2>1. T = S \cup {w} /\ (\A t \in S : t.id # w.id) /\ Coalesce(T) = HalfHour
    BY <1>1, <1>3
  <2>2. Daily # NoTick /\ HalfHour # Daily
    BY DEF Daily, NoTick, HalfHour
  <2>3. AddSpec(Registry(S, Daily, o), w) = Registry(T, HalfHour, Append(o, Again(HalfHour)))
    <3>1. Widens(S, w, T, HalfHour)
      BY <2>1 DEF Widens
    <3> HIDE DEF S, T, o
    <3> QED BY <2>2, <3>1, AddedChanged
  <2> QED BY <2>3
<1>7. AddAll(FreshRegistry, Tables[2]) =
         Registry({m, w}, HalfHour, Append(<<First(Daily)>>, Again(HalfHour)))
  <2>1. Tables[2][1] = m /\ Tables[2][2] = w
    BY TwoReleases DEF m, w
  <2>2. AddAll(FreshRegistry, Tables[2]) = AddSpec(AddSpec(FreshRegistry, m), w)
    <3>1. DOMAIN Tables[2] = {1, 2}
      BY TwoReleases
    <3>2. AddAll(FreshRegistry, Tables[2]) = AddSpec(AddSpec(FreshRegistry, Tables[2][1]), Tables[2][2])
      BY <3>1, FoldOfTwo
    <3> QED BY <2>1, <3>2
  <2> QED BY <2>2, <1>5, <1>6
<1>8. ToSet(Tables[2]) = {m, w}
  <2>1. DOMAIN Tables[2] = {1, 2}
    BY TwoReleases
  <2>2. Tables[2][1] = m /\ Tables[2][2] = w
    BY TwoReleases DEF m, w
  <2>3. ToSet(Tables[2]) = {Tables[2][1], Tables[2][2]}
    BY <2>1, ToSetOfTwo
  <2> QED BY <2>2, <2>3
<1>9. Registry({m, w}, HalfHour, Append(<<First(Daily)>>, Again(HalfHour))).out
         = Append(<<First(Daily)>>, Again(HalfHour))
  BY DEF Registry
<1>10. AddAll(FreshRegistry, Tables[2]).out = Append(<<First(Daily)>>, Again(HalfHour))
  BY <1>7, <1>9
<1> QED BY <1>3, <1>8, <1>10

WantedOf(r) == IF r = 1 THEN Quarter ELSE HalfHour

LEMMA WhatIsWanted ==
    ASSUME release \in Releases
    PROVE  Wanted = WantedOf(release)
BY TwoReleases, FirstReleaseAsks, SecondReleaseAsks DEF Wanted, WantedOf

CallOps == {"periodic", "oneShot", "cancel", "cancelPeriodic"}
Calls == [op : CallOps, tick : [every : Nat, net : BOOLEAN], replace : BOOLEAN]

(* A call that leaves the wake r wants where it is, once it is held, and   *)
(* one that puts it there.                                                 *)
Harmless(c, r) == c.op # "cancelPeriodic" /\ (c.op = "periodic" => c.tick = WantedOf(r))
Decides(c, r) == c.op = "periodic" /\ c.tick = WantedOf(r) /\ (c.replace \/ r = 1)

(* What is still to be handled leads to the wake that is wanted.           *)
LeadsToWanted(q, wake, r) ==
    \/ wake = WantedOf(r) /\ \A i \in 1..Len(q) : Harmless(q[i], r)
    \/ \E i \in 1..Len(q) : Decides(q[i], r) /\ \A j \in (i + 1)..Len(q) : Harmless(q[j], r)

(* The first release never asks for anything but its one wake.             *)
FirstReleaseHolds ==
    release = 1 => /\ held \in {NoTick, Quarter}
                   /\ \A i \in 1..Len(calls) : calls[i].op = "periodic" => calls[i].tick = Quarter

ScheduleInv ==
    /\ release \in Releases
    /\ calls \in Seq(Calls)
    /\ FirstReleaseHolds
    /\ intact => LeadsToWanted(calls, held, release)

LEMMA InitSchedule == SchedulingInit => ScheduleInv
<1> SUFFICES ASSUME SchedulingInit PROVE ScheduleInv
  OBVIOUS
<1>1. release = 1 /\ calls = <<>> /\ held = NoTick /\ intact = FALSE
  BY DEF SchedulingInit
<1>2. calls \in Seq(Calls)
  BY <1>1
<1> QED BY <1>1, <1>2, TwoReleases DEF ScheduleInv, FirstReleaseHolds

(* A call that is made later.                                              *)
LEMMA OneMoreCall ==
    ASSUME ScheduleInv, NEW c \in Calls, c.op \in {"oneShot", "cancel"},
           calls' = Append(calls, c), UNCHANGED <<release, held, intact>>
    PROVE  ScheduleInv'
<1> DEFINE n == Len(calls)
<1>1. n \in Nat /\ calls' \in Seq(Calls) /\ Len(calls') = n + 1
      /\ (\A i \in 1..n : calls'[i] = calls[i]) /\ calls'[n + 1] = c
  BY AppendProperties DEF ScheduleInv
<1>2. Harmless(c, release) /\ c.op # "periodic"
  BY DEF Harmless
<1> HIDE DEF n
<1>3. 1..(n + 1) = 1..n \cup {n + 1}
  BY <1>1
<1>4. FirstReleaseHolds'
  <2>1. release' = release /\ held' = held
    OBVIOUS
  <2> QED BY <1>1, <1>2, <1>3, <2>1 DEF ScheduleInv, FirstReleaseHolds, n
<1>5. ASSUME LeadsToWanted(calls, held, release)
      PROVE  LeadsToWanted(calls', held, release)
  <2>1. CASE held = WantedOf(release) /\ \A i \in 1..n : Harmless(calls[i], release)
    <3>1. \A i \in 1..(n + 1) : Harmless(calls'[i], release)
      BY <1>1, <1>2, <1>3, <2>1
    <3> QED BY <1>1, <2>1, <3>1 DEF LeadsToWanted
  <2>2. CASE \E i \in 1..n : Decides(calls[i], release)
                  /\ \A j \in (i + 1)..n : Harmless(calls[j], release)
    <3>1. PICK i \in 1..n : Decides(calls[i], release)
                  /\ \A j \in (i + 1)..n : Harmless(calls[j], release)
      BY <2>2
    <3>2. i \in 1..(n + 1) /\ Decides(calls'[i], release)
      BY <1>1, <1>3, <3>1
    <3>3. ASSUME NEW j \in (i + 1)..(n + 1) PROVE Harmless(calls'[j], release)
      <4>1. CASE j = n + 1
        BY <1>1, <1>2, <4>1
      <4>2. CASE j # n + 1
        <5>1. j \in (i + 1)..n /\ j \in 1..n
          BY <1>1, <4>2
        <5> QED BY <1>1, <3>1, <5>1
      <4> QED BY <4>1, <4>2
    <3> QED BY <1>1, <3>2, <3>3 DEF LeadsToWanted
  <2> QED BY <1>5, <2>1, <2>2 DEF LeadsToWanted, n
<1>6. intact' => LeadsToWanted(calls', held', release')
  <2>1. release' = release /\ held' = held /\ intact' = intact
    OBVIOUS
  <2> QED BY <1>5, <2>1 DEF ScheduleInv
<1>7. release' \in Releases'
  BY DEF ScheduleInv, Releases
<1> QED BY <1>1, <1>4, <1>6, <1>7 DEF ScheduleInv

(* The head is handled.                                                    *)
LEMMA HeadIsHandled ==
    ASSUME ScheduleInv, calls # <<>>, calls' = Tail(calls), release' = release,
           release = 1 => held' \in {NoTick, Quarter},
           intact' => intact,
           intact' /\ Decides(Head(calls), release) => held' = WantedOf(release),
           intact' /\ Harmless(Head(calls), release) /\ held = WantedOf(release)
              => held' = WantedOf(release)
    PROVE  ScheduleInv'
<1> DEFINE n == Len(calls)
<1>1. n \in Nat \ {0} /\ calls' \in Seq(Calls) /\ Len(calls') = n - 1 /\ Head(calls) = calls[1]
      /\ \A i \in 1..(n - 1) : calls'[i] = calls[i + 1]
  BY HeadTailProperties, EmptySeq DEF ScheduleInv
<1> HIDE DEF n
<1>2. \A i \in 1..(n - 1) : i + 1 \in 1..n
  BY <1>1
<1>3. FirstReleaseHolds'
  BY <1>1, <1>2 DEF ScheduleInv, FirstReleaseHolds, n
<1>4. ASSUME intact' PROVE LeadsToWanted(calls', held', release)
  <2>1. LeadsToWanted(calls, held, release)
    BY <1>4 DEF ScheduleInv
  <2>2. CASE held = WantedOf(release) /\ \A i \in 1..n : Harmless(calls[i], release)
    <3>1. 1 \in 1..n
      BY <1>1
    <3>2. held' = WantedOf(release)
      BY <1>1, <1>4, <2>2, <3>1
    <3>3. \A i \in 1..(n - 1) : Harmless(calls'[i], release)
      BY <1>1, <1>2, <2>2
    <3> QED BY <1>1, <3>2, <3>3 DEF LeadsToWanted
  <2>3. CASE \E i \in 1..n : Decides(calls[i], release)
                  /\ \A j \in (i + 1)..n : Harmless(calls[j], release)
    <3>1. PICK i \in 1..n : Decides(calls[i], release)
                  /\ \A j \in (i + 1)..n : Harmless(calls[j], release)
      BY <2>3
    <3>2. CASE i = 1
      <4>1. held' = WantedOf(release)
        BY <1>1, <1>4, <3>1, <3>2
      <4>2. \A k \in 1..(n - 1) : k + 1 \in (i + 1)..n
        BY <1>1, <3>2
      <4>3. \A k \in 1..(n - 1) : Harmless(calls'[k], release)
        BY <1>1, <3>1, <4>2
      <4> QED BY <1>1, <4>1, <4>3 DEF LeadsToWanted
    <3>3. CASE i # 1
      <4>1. i - 1 \in 1..(n - 1) /\ (i - 1) + 1 = i
        BY <1>1, <3>3
      <4>2. Decides(calls'[i - 1], release)
        BY <1>1, <3>1, <4>1
      <4>3. ASSUME NEW k \in ((i - 1) + 1)..(n - 1) PROVE Harmless(calls'[k], release)
        <5>1. k \in 1..(n - 1) /\ k + 1 \in (i + 1)..n
          BY <1>1, <4>1
        <5> QED BY <1>1, <3>1, <5>1
      <4> QED BY <1>1, <4>1, <4>2, <4>3 DEF LeadsToWanted
    <3> QED BY <3>2, <3>3
  <2> QED BY <2>1, <2>2, <2>3 DEF LeadsToWanted, n
<1>5. release' \in Releases'
  BY DEF ScheduleInv, Releases
<1> QED BY <1>1, <1>3, <1>4, <1>5 DEF ScheduleInv

(* What the engine asks for when it starts ends in the wake wanted.        *)
LEMMA EngineAsks ==
    ASSUME release \in Releases
    PROVE  LET out == AddAll(FreshRegistry, Tables[release]).out
           IN  /\ out \in Seq(Calls) /\ Len(out) > 0
               /\ Decides(out[Len(out)], release)
               /\ release = 1 => \A i \in 1..Len(out) : out[i].tick = Quarter
<1>1. Quarter \in [every : Nat, net : BOOLEAN] /\ Daily \in [every : Nat, net : BOOLEAN]
      /\ HalfHour \in [every : Nat, net : BOOLEAN]
  BY DEF Quarter, Daily, HalfHour
<1>2. First(Quarter) \in Calls /\ First(Daily) \in Calls /\ Again(HalfHour) \in Calls
  BY <1>1 DEF First, Again, Periodic, Calls, CallOps
<1>3. CASE release = 1
  <2>1. AddAll(FreshRegistry, Tables[release]).out = <<First(Quarter)>>
    BY <1>3, FirstReleaseAsks
  <2>2. First(Quarter).op = "periodic" /\ First(Quarter).tick = Quarter
    BY DEF First, Periodic
  <2> DEFINE out == <<First(Quarter)>>
  <2>3. out \in Seq(Calls) /\ Len(out) = 1 /\ out[1] = First(Quarter)
    BY <1>2
  <2> HIDE DEF out
  <2>4. Decides(out[1], release)
    BY <1>3, <2>2, <2>3 DEF Decides, WantedOf
  <2>5. \A i \in 1..Len(out) : out[i].tick = Quarter
    BY <2>2, <2>3
  <2> QED BY <2>1, <2>3, <2>4, <2>5 DEF out
<1>4. CASE release = 2
  <2>1. AddAll(FreshRegistry, Tables[release]).out = Append(<<First(Daily)>>, Again(HalfHour))
    BY <1>4, SecondReleaseAsks
  <2>2. Again(HalfHour).op = "periodic" /\ Again(HalfHour).tick = HalfHour /\ Again(HalfHour).replace
    BY DEF Again, Periodic
  <2> DEFINE one == <<First(Daily)>>
             out == Append(one, Again(HalfHour))
  <2>3. one \in Seq(Calls) /\ Len(one) = 1
    BY <1>2
  <2> HIDE DEF one
  <2>4. out \in Seq(Calls) /\ Len(out) = 2 /\ out[2] = Again(HalfHour)
    <3> HIDE DEF out
    <3>1. out = Append(one, Again(HalfHour))
      BY DEF out
    <3>2. out \in Seq(Calls) /\ Len(out) = Len(one) + 1 /\ out[Len(one) + 1] = Again(HalfHour)
      BY <1>2, <2>3, <3>1, AppendProperties
    <3> QED BY <2>3, <3>2
  <2> HIDE DEF out
  <2>5. Decides(out[2], release)
    BY <1>4, <2>2, <2>4 DEF Decides, WantedOf
  <2> QED BY <1>4, <2>1, <2>4, <2>5 DEF out, one
<1> QED BY <1>3, <1>4, TwoReleases

LEMMA StartEngineKeeps ==
    ASSUME ScheduleInv, StartEngine
    PROVE  ScheduleInv'
<1>1. PICK out : out = AddAll(FreshRegistry, Tables[release]).out
  OBVIOUS
<1>2. calls' = calls \o out /\ UNCHANGED <<release, held>>
  BY <1>1 DEF StartEngine, AddAll
<1>3. /\ out \in Seq(Calls) /\ Len(out) > 0 /\ Decides(out[Len(out)], release)
      /\ release = 1 => \A i \in 1..Len(out) : out[i].tick = Quarter
  BY <1>1, EngineAsks DEF ScheduleInv
<1> DEFINE n == Len(calls)
           m == Len(out)
<1>4. /\ n \in Nat /\ m \in Nat /\ m > 0 /\ calls' \in Seq(Calls) /\ Len(calls') = n + m
      /\ \A i \in 1..(n + m) : calls'[i] = IF i <= n THEN calls[i] ELSE out[i - n]
  BY <1>2, <1>3, ConcatProperties DEF ScheduleInv
<1> HIDE DEF n, m
<1>5. FirstReleaseHolds'
  <2>1. ASSUME release = 1, NEW i \in 1..(n + m), calls'[i].op = "periodic"
        PROVE  calls'[i].tick = Quarter
    <3>1. CASE i <= n
      <4>1. i \in 1..n
        BY <1>4, <3>1
      <4> QED BY <1>4, <2>1, <3>1, <4>1 DEF ScheduleInv, FirstReleaseHolds, n
    <3>2. CASE ~ (i <= n)
      <4>1. i - n \in 1..m
        BY <1>4, <3>2
      <4> QED BY <1>3, <1>4, <2>1, <3>2, <4>1 DEF m
    <3> QED BY <3>1, <3>2
  <2> QED BY <1>2, <1>4, <2>1 DEF ScheduleInv, FirstReleaseHolds
<1>6. LeadsToWanted(calls', held, release)
  <2>1. n + m \in 1..(n + m) /\ ~ (n + m <= n) /\ (n + m) - n = m
    BY <1>4
  <2>2. Decides(calls'[n + m], release)
    BY <1>3, <1>4, <2>1 DEF m
  <2>3. ((n + m) + 1)..(n + m) = {}
    BY <1>4
  <2> QED BY <1>4, <2>1, <2>2, <2>3 DEF LeadsToWanted
<1>7. release' \in Releases'
  BY <1>2 DEF ScheduleInv, Releases
<1> QED BY <1>2, <1>4, <1>5, <1>6, <1>7 DEF ScheduleInv

LEMMA ScheduleStep ==
    ASSUME ScheduleInv, [SchedulingNext]_schedulingVars
    PROVE  ScheduleInv'
<1>1. CASE UNCHANGED <<release, calls, held, intact>>
  BY <1>1 DEF ScheduleInv, FirstReleaseHolds, Releases
<1>2. CASE StartEngine
  BY <1>2, StartEngineKeeps
<1>3. CASE ScheduleOneShot
  <2>1. [op |-> "oneShot", tick |-> NoTick, replace |-> TRUE] \in Calls
    BY DEF Calls, CallOps, NoTick
  <2> QED BY <1>3, <2>1, OneMoreCall DEF ScheduleOneShot
<1>4. CASE CancelRetry
  <2>1. [op |-> "cancel", tick |-> NoTick, replace |-> TRUE] \in Calls
    BY DEF Calls, CallOps, NoTick
  <2> QED BY <1>4, <2>1, OneMoreCall DEF CancelRetry
<1>5. CASE WipeCancels
  <2> DEFINE c == [op |-> "cancelPeriodic", tick |-> NoTick, replace |-> TRUE]
  <2>1. c \in Calls /\ c.op = "cancelPeriodic"
    BY DEF Calls, CallOps, NoTick
  <2>2. calls' = <<c>> /\ intact' = FALSE /\ UNCHANGED <<release, held>>
    BY <1>5 DEF WipeCancels
  <2> HIDE DEF c
  <2>3. calls' \in Seq(Calls) /\ Len(calls') = 1 /\ calls'[1] = c
    BY <2>1, <2>2
  <2> QED BY <2>1, <2>2, <2>3 DEF ScheduleInv, FirstReleaseHolds, Releases
<1>6. CASE SchedulePeriodic
  <2>1. /\ calls # <<>> /\ Head(calls).op = "periodic" /\ calls' = Tail(calls)
        /\ held' = IF Head(calls).replace \/ Upgraded \/ held = NoTick THEN Head(calls).tick ELSE held
        /\ UNCHANGED <<release, intact>>
    BY <1>6 DEF SchedulePeriodic
  <2>2. Len(calls) \in Nat /\ 1 \in 1..Len(calls) /\ Head(calls) = calls[1]
    BY <2>1, HeadTailProperties, EmptySeq DEF ScheduleInv
  <2>3. release = 1 => held' \in {NoTick, Quarter} /\ Head(calls).tick = Quarter
    BY <2>1, <2>2 DEF ScheduleInv, FirstReleaseHolds
  <2>4. Decides(Head(calls), release) => held' = WantedOf(release)
    BY <2>1, <2>3 DEF Decides, WantedOf, ScheduleInv, FirstReleaseHolds
  <2>5. Harmless(Head(calls), release) /\ held = WantedOf(release) => held' = WantedOf(release)
    BY <2>1 DEF Harmless
  <2> QED BY <2>1, <2>3, <2>4, <2>5, HeadIsHandled
<1>7. CASE NativeCall
  <2>1. /\ calls # <<>> /\ Head(calls).op # "periodic" /\ calls' = Tail(calls)
        /\ held' = IF Head(calls).op = "cancelPeriodic" THEN NoTick ELSE held
        /\ UNCHANGED <<release, intact>>
    BY <1>7 DEF NativeCall
  <2>2. release = 1 => held' \in {NoTick, Quarter}
    BY <2>1 DEF ScheduleInv, FirstReleaseHolds
  <2>3. ~ Decides(Head(calls), release)
    BY <2>1 DEF Decides
  <2>4. Harmless(Head(calls), release) => held' = held
    BY <2>1 DEF Harmless
  <2> QED BY <2>1, <2>2, <2>3, <2>4, HeadIsHandled
<1>8. CASE CallFails
  <2>1. calls # <<>> /\ calls' = Tail(calls) /\ intact' = FALSE /\ UNCHANGED <<release, held>>
    BY <1>8 DEF CallFails
  <2>2. release = 1 => held' \in {NoTick, Quarter}
    BY <2>1 DEF ScheduleInv, FirstReleaseHolds
  <2> QED BY <2>1, <2>2, HeadIsHandled
<1>9. CASE ProcessEnds
  <2>1. release' \in {release, Max(Releases)} /\ calls' = <<>> /\ intact' = FALSE /\ held' = held
    BY <1>9 DEF ProcessEnds
  <2>2. Max(Releases) = 2
    BY TwoReleases, MaxUpToFour
  <2>3. release' \in Releases /\ (release' = 1 => release = 1)
    BY <2>1, <2>2, TwoReleases DEF ScheduleInv
  <2>4. Releases' = Releases
    BY DEF Releases
  <2>5. calls' \in Seq(Calls) /\ 1..Len(calls') = {}
    BY <2>1
  <2> QED BY <2>1, <2>3, <2>4, <2>5 DEF ScheduleInv, FirstReleaseHolds
<1>10. CASE OneShotRuns
  BY <1>1, <1>10 DEF OneShotRuns
<1>11. CASE \E n \in TickIds :
             \/ DoWork(n) \/ NoReactHost(n) \/ AwaitReactContext(n)
             \/ RunTask(n) \/ NotPosted(n) \/ StartTask(n) \/ StartThrows(n)
             \/ NotifyTaskFinished(n) \/ TaskTimesOut(n) \/ TickEnds(n)
  BY <1>1, <1>11 DEF DoWork, NoReactHost, AwaitReactContext, RunTask, NotPosted, StartTask,
                     StartThrows, NotifyTaskFinished, TaskTimesOut, TickEnds, scheduleVars
<1>12. CASE UNCHANGED schedulingVars
  BY <1>1, <1>12 DEF schedulingVars, scheduleVars
<1> QED BY <1>2, <1>3, <1>4, <1>5, <1>6, <1>7, <1>8, <1>9, <1>10, <1>11, <1>12 DEF SchedulingNext

LEMMA ScheduleInvSuffices == ScheduleInv => HeldIsWanted
<1> SUFFICES ASSUME ScheduleInv, intact, calls = <<>> PROVE held = Wanted
  BY DEF HeldIsWanted
<1>1. 1..Len(calls) = {}
  OBVIOUS
<1>2. held = WantedOf(release)
  BY <1>1 DEF ScheduleInv, LeadsToWanted
<1> QED BY <1>2, WhatIsWanted DEF ScheduleInv

Works == [at : {"idle", "context", "start", "await", "ending", "over"},
          result : {"none", "success", "retry", "failure"}]
Tasks == [js : {"none", "posted", "queued", "over"}, active : BOOLEAN, timedOut : BOOLEAN,
          late : BOOLEAN]

(* A wake that was told of an end, and one that reported a success, has a  *)
(* task that ended; a start that is still posted has not begun anything,   *)
(* and an entry is there for a task that began and has not reported.       *)
TickIsSound(n) ==
    /\ work[n].result = "success" => work[n].at = "over"
    /\ work[n].at = "ending" \/ work[n].result = "success" =>
          task[n].js = "over" \/ task[n].timedOut
    /\ task[n].js = "posted" =>
          ~task[n].active /\ ~task[n].timedOut /\ work[n].at \in {"await", "over"}
    /\ n \in entries =>
          /\ task[n].js = "queued" /\ work[n].at \in {"await", "ending", "over"}
          /\ work[n].at = "over" => task[n].late

TickInv ==
    /\ work \in [TickIds -> Works] /\ task \in [TickIds -> Tasks]
    /\ entries \subseteq TickIds
    /\ \A n \in TickIds : TickIsSound(n)

LEMMA InitTick == SchedulingInit => TickInv
BY DEF SchedulingInit, TickInv, TickIsSound, Works, Tasks, NoWork, NoTask

LEMMA TickKeeps ==
    ASSUME TickInv, [SchedulingNext]_schedulingVars
    PROVE  TickInv'
<1> TickIds' = TickIds
  BY DEF TickIds
<1>1. CASE UNCHANGED tickVars
  BY <1>1 DEF tickVars, TickInv, TickIsSound
<1>2. CASE StartEngine \/ ScheduleOneShot \/ CancelRetry \/ WipeCancels \/ SchedulePeriodic
           \/ NativeCall \/ CallFails \/ OneShotRuns
  BY <1>1, <1>2 DEF StartEngine, ScheduleOneShot, CancelRetry, WipeCancels, SchedulePeriodic,
                    NativeCall, CallFails, OneShotRuns
<1>3. CASE ProcessEnds
  <2>1. /\ work' = [n \in TickIds |-> IF work[n].at = "idle" THEN work[n]
                                      ELSE [work[n] EXCEPT !.at = "over"]]
        /\ task' = [n \in TickIds |-> [task[n] EXCEPT !.active = FALSE, !.js = "over"]]
        /\ entries' = {}
    BY <1>3 DEF ProcessEnds
  <2>2. ASSUME NEW n \in TickIds
        PROVE  /\ work'[n] \in Works /\ task'[n] \in Tasks /\ task'[n].js = "over"
               /\ work'[n].result = "success" => work'[n].at = "over"
    <3>1. work[n] \in Works /\ task[n] \in Tasks
      BY DEF TickInv
    <3>2. task'[n] = [task[n] EXCEPT !.active = FALSE, !.js = "over"]
      BY <2>1
    <3>3. task'[n] \in Tasks /\ task'[n].js = "over"
      BY <3>1, <3>2 DEF Tasks
    <3>4. work'[n] = IF work[n].at = "idle" THEN work[n] ELSE [work[n] EXCEPT !.at = "over"]
      BY <2>1
    <3>5. work[n].result = "success" => work[n].at = "over"
      BY DEF TickInv, TickIsSound
    <3> QED BY <3>1, <3>3, <3>4, <3>5 DEF Works
  <2>3. work' \in [TickIds -> Works] /\ task' \in [TickIds -> Tasks]
    BY <2>1, <2>2
  <2> QED BY <2>1, <2>2, <2>3 DEF TickInv, TickIsSound
<1>4. ASSUME NEW n \in TickIds, DoWork(n) PROVE TickInv'
  BY <1>4 DEF DoWork, TickInv, TickIsSound, Works
<1>5. ASSUME NEW n \in TickIds, AwaitReactContext(n) \/ NoReactHost(n) \/ NotPosted(n)
      PROVE  TickInv'
  <2>1. PICK w \in Works : /\ work' = [work EXCEPT ![n] = w] /\ w.at # "ending"
                           /\ w.result # "success"
    <3>1. work[n] \in Works /\ work[n].at # "over" /\ work[n].result # "success"
      BY <1>5 DEF AwaitReactContext, NoReactHost, NotPosted, TickInv, TickIsSound
    <3>2. CASE work' = [work EXCEPT ![n].at = "start"]
      <4> DEFINE w == [work[n] EXCEPT !.at = "start"]
      <4>1. w \in Works /\ w.at # "ending" /\ w.result # "success"
        BY <3>1 DEF Works
      <4>2. work' = [work EXCEPT ![n] = w]
        BY <3>2
      <4> HIDE DEF w
      <4> QED BY <4>1, <4>2
    <3>3. ASSUME NEW r \in {"retry", "failure"}, Ends(n, r)
          PROVE  \E w \in Works : /\ work' = [work EXCEPT ![n] = w] /\ w.at # "ending"
                                  /\ w.result # "success"
      <4> DEFINE w == [work[n] EXCEPT !.at = "over", !.result = r]
      <4>1. w \in Works /\ w.at # "ending" /\ w.result # "success"
        BY <3>1 DEF Works
      <4>2. work' = [work EXCEPT ![n] = w]
        BY <3>3 DEF Ends
      <4> HIDE DEF w
      <4> QED BY <4>1, <4>2
    <3> QED BY <1>5, <3>2, <3>3 DEF AwaitReactContext, NoReactHost, NotPosted
  <2>2. work[n].at \in {"context", "start"} /\ UNCHANGED <<task, entries>>
    BY <1>5 DEF AwaitReactContext, NoReactHost, NotPosted
  <2> QED BY <2>1, <2>2 DEF TickInv, TickIsSound
<1>6. ASSUME NEW n \in TickIds, RunTask(n) PROVE TickInv'
  <2> DEFINE t == [NoTask EXCEPT !.js = "posted"]
             w == [work[n] EXCEPT !.at = "await"]
  <2>1. t \in Tasks /\ t.js = "posted" /\ ~t.active /\ ~t.timedOut
    BY DEF NoTask, Tasks
  <2>2. w \in Works /\ w.at = "await" /\ w.result = work[n].result
    BY DEF TickInv, Works
  <2>3. /\ work' = [work EXCEPT ![n] = w] /\ task' = [task EXCEPT ![n] = t]
        /\ entries' = entries /\ work[n].at = "start"
    BY <1>6 DEF RunTask
  <2> HIDE DEF t, w
  <2>4. work[n].result # "success" /\ n \notin entries
    BY <2>3 DEF TickInv, TickIsSound
  <2>5. ASSUME NEW m \in TickIds PROVE TickIsSound(m)'
    <3>1. TickIsSound(m)
      BY DEF TickInv
    <3>2. CASE m = n
      BY <2>1, <2>2, <2>3, <2>4, <3>2 DEF TickInv, TickIsSound
    <3>3. CASE m # n
      BY <2>3, <3>1, <3>3 DEF TickInv, TickIsSound
    <3> QED BY <3>2, <3>3
  <2> QED BY <2>1, <2>2, <2>3, <2>5 DEF TickInv
<1>7. ASSUME NEW n \in TickIds, StartTask(n) PROVE TickInv'
  <2> DEFINE t == [js |-> "queued", active |-> TRUE, timedOut |-> FALSE,
                   late |-> work[n].at = "over"]
  <2>1. t \in Tasks /\ t.js = "queued" /\ (work[n].at = "over" => t.late)
    BY DEF Tasks
  <2>2. task[n].js = "posted" /\ task' = [task EXCEPT ![n] = t] /\ work' = work
        /\ entries' = entries \cup {n}
    BY <1>7 DEF StartTask
  <2>3. work[n].at \in {"await", "over"} /\ work[n].result # "success"
    BY <2>2 DEF TickInv, TickIsSound
  <2> HIDE DEF t
  <2> QED BY <2>1, <2>2, <2>3 DEF TickInv, TickIsSound
<1>12. ASSUME NEW n \in TickIds, StartThrows(n) PROVE TickInv'
  <2> DEFINE t == [task[n] EXCEPT !.js = "over"]
  <2>1. t \in Tasks /\ t.js = "over"
    BY DEF TickInv, Tasks
  <2>2. task[n].js = "posted" /\ task' = [task EXCEPT ![n] = t] /\ UNCHANGED <<work, entries>>
    BY <1>12 DEF StartThrows
  <2> HIDE DEF t
  <2> QED BY <2>1, <2>2 DEF TickInv, TickIsSound
<1>8. ASSUME NEW n \in TickIds, task[n].active = TRUE \/ task[n].active = FALSE,
             NEW t \in Tasks, task' = [task EXCEPT ![n] = t],
             t.js = "over" \/ t.timedOut, t.js # "posted",
             entries' \subseteq entries, work' = Told(n),
             n \in entries' => t.js = task[n].js /\ t.late = task[n].late
      PROVE  TickInv'
  <2>1. ASSUME NEW m \in TickIds
        PROVE  /\ work'[m] \in Works
               /\ work'[m].result = work[m].result
               /\ work'[m].at = IF task[n].active /\ work[m].at = "await" /\ m = n
                                THEN "ending" ELSE work[m].at
    <3>1. work[m] \in Works
      BY DEF TickInv
    <3>2. work'[m] = IF task[n].active /\ work[m].at = "await" /\ n = m
                     THEN [work[m] EXCEPT !.at = "ending"] ELSE work[m]
      BY <1>8 DEF Told, IsOurs
    <3> QED BY <3>1, <3>2 DEF Works
  <2>2. work' \in [TickIds -> Works]
    BY <1>8, <2>1 DEF Told
  <2>3. task' \in [TickIds -> Tasks] /\ task'[n] = t /\ \A m \in TickIds \ {n} : task'[m] = task[m]
    BY <1>8 DEF TickInv
  <2>4. ASSUME NEW m \in TickIds PROVE TickIsSound(m)'
    <3>1. TickIsSound(m)
      BY DEF TickInv
    <3>2. CASE m = n
      BY <1>8, <2>1, <2>3, <3>1, <3>2 DEF TickIsSound
    <3>3. CASE m # n
      BY <1>8, <2>1, <2>3, <3>1, <3>3 DEF TickIsSound
    <3> QED BY <3>2, <3>3
  <2>5. entries' \subseteq TickIds
    BY <1>8 DEF TickInv
  <2> QED BY <2>2, <2>3, <2>4, <2>5 DEF TickInv
<1>9. ASSUME NEW n \in TickIds, NotifyTaskFinished(n) PROVE TickInv'
  <2>0. task[n] \in Tasks
    BY DEF TickInv
  <2>1. CASE n \in entries
    <3> DEFINE t == [task[n] EXCEPT !.js = "over", !.active = FALSE]
    <3>1. t \in Tasks /\ t.js = "over" /\ (task[n].active = TRUE \/ task[n].active = FALSE)
      BY <2>0 DEF Tasks
    <3>2. task' = [task EXCEPT ![n] = t] /\ entries' = entries \ {n} /\ work' = Told(n)
      BY <1>9, <2>1 DEF NotifyTaskFinished
    <3> HIDE DEF t
    <3> QED BY <1>8, <3>1, <3>2
  <2>2. CASE n \notin entries
    <3> DEFINE t == [task[n] EXCEPT !.js = "over"]
    <3>1. t \in Tasks /\ t.js = "over"
      BY <2>0 DEF Tasks
    <3>2. task' = [task EXCEPT ![n] = t] /\ UNCHANGED <<work, entries>>
      BY <1>9, <2>2 DEF NotifyTaskFinished
    <3> HIDE DEF t
    <3>3. ASSUME NEW m \in TickIds PROVE TickIsSound(m)'
      <4>1. TickIsSound(m)
        BY DEF TickInv
      <4>2. CASE m = n
        BY <2>2, <3>1, <3>2, <4>1, <4>2 DEF TickInv, TickIsSound
      <4>3. CASE m # n
        BY <3>2, <4>1, <4>3 DEF TickInv, TickIsSound
      <4> QED BY <4>2, <4>3
    <3> QED BY <3>1, <3>2, <3>3 DEF TickInv
  <2> QED BY <2>1, <2>2
<1>10. ASSUME NEW n \in TickIds, TaskTimesOut(n) PROVE TickInv'
  <2> DEFINE t == [task[n] EXCEPT !.active = FALSE, !.timedOut = TRUE]
  <2>0. task[n] \in Tasks
    BY DEF TickInv
  <2>1. t \in Tasks /\ t.timedOut /\ (task[n].active = TRUE \/ task[n].active = FALSE)
        /\ t.js = task[n].js /\ t.late = task[n].late
    BY <2>0 DEF Tasks
  <2>3. task[n].js # "posted"
    BY <1>10 DEF TaskTimesOut, TickInv, TickIsSound
  <2>2. task' = [task EXCEPT ![n] = t] /\ entries' \subseteq entries /\ work' = Told(n)
    BY <1>10 DEF TaskTimesOut
  <2> HIDE DEF t
  <2> QED BY <1>8, <2>1, <2>2, <2>3
<1>11. ASSUME NEW n \in TickIds, TickEnds(n) PROVE TickInv'
  <2>1. PICK w : /\ work' = [work EXCEPT ![n] = w] /\ w \in Works /\ w.at = "over"
                 /\ w.result = "success" => work[n].at = "ending"
    <3>1. work[n] \in Works
      BY DEF TickInv
    <3>2. PICK r \in {"success", "retry"} : Ends(n, r) /\ (r = "success" => work[n].at = "ending")
      BY <1>11 DEF TickEnds
    <3> DEFINE w == [work[n] EXCEPT !.at = "over", !.result = r]
    <3>3. w \in Works /\ w.at = "over" /\ (w.result = "success" => work[n].at = "ending")
      BY <3>1, <3>2 DEF Works
    <3>4. work' = [work EXCEPT ![n] = w]
      BY <3>2 DEF Ends
    <3> HIDE DEF w
    <3> QED BY <3>3, <3>4
  <2>2. entries' = entries \ {n} /\ task' = task
    BY <1>11 DEF TickEnds
  <2> QED BY <2>1, <2>2 DEF TickInv, TickIsSound
<1> QED BY <1>1, <1>2, <1>3, <1>4, <1>5, <1>6, <1>7, <1>9, <1>10, <1>11, <1>12
        DEF SchedulingNext, schedulingVars, scheduleVars

SchedulingInv == ScheduleInv /\ TickInv

LEMMA SchedulingInvSuffices == SchedulingInv => WakesAreKept
<1>1. TickInv => TicksEndAlone
  BY DEF TickInv, TickIsSound, TicksEndAlone
<1> QED BY <1>1, ScheduleInvSuffices DEF SchedulingInv, WakesAreKept

(* Once the calls of an unlock went through, WorkManager holds the tick    *)
(* the installed release wants, however many releases, processes and       *)
(* failed calls came before; a tick reports success only when its own task *)
(* is over or timed out, and an entry outlives its tick only when the UI   *)
(* thread came too late to its start (CempSchedulerModule.kt:30-48, 62-72, *)
(* CempSyncWorker.kt:140-183).                                             *)
THEOREM WakesAreKeptAlways == SchedulingSpec => []WakesAreKept
<1>1. SchedulingInit => SchedulingInv
  BY InitSchedule, InitTick DEF SchedulingInv
<1>2. SchedulingInv /\ [SchedulingNext]_schedulingVars => SchedulingInv'
  BY ScheduleStep, TickKeeps DEF SchedulingInv
<1> QED BY <1>1, <1>2, SchedulingInvSuffices, PTL DEF SchedulingSpec

-----------------------------------------------------------------------------
(* The profiles a contact trusts.                                          *)

USE RotationAssumption

(* The descendants of a cell.                                              *)

WithHeirs(q, S) == S \cup {c \in 1..Len(q) : q[c].spends \in S}
Grown(q, old, g, n) ==
    /\ DOMAIN g = 0..n
    /\ g[0] = {old}
    /\ \A k \in 1..n : g[k] = WithHeirs(q, g[k - 1])

Family(q, old) ==
    LET from[k \in 0..MaxProfiles] ==
            IF k = 0 THEN {old}
            ELSE from[k - 1] \cup {c \in 1..Len(q) : q[c].spends \in from[k - 1]}
    IN  from[MaxProfiles]

LEMMA DescendsIsFamily ==
    ASSUME NEW old, NEW new
    PROVE  Descends(old, new) <=> new \in Family(cell, old)
BY DEF Descends, Family, ProfileCells

LEMMA GrownExists ==
    ASSUME NEW q, NEW old, NEW n \in Nat
    PROVE  \E g : Grown(q, old, g, n)
<1> DEFINE Missed == {m \in Nat : ~ \E g : Grown(q, old, g, m)}
<1>1. SUFFICES Missed = {}
  OBVIOUS
<1>2. SUFFICES ASSUME Missed # {} PROVE FALSE
  OBVIOUS
<1>3. PICK m \in Missed : \A k \in Missed : m <= k
  BY <1>2, LeastOfNat
<1>4. CASE m = 0
  <2> DEFINE g == [k \in 0..0 |-> {old}]
  <2>1. Grown(q, old, g, 0)
    BY DEF Grown
  <2> QED BY <1>3, <1>4, <2>1
<1>5. CASE m # 0
  <2>1. m - 1 \in Nat /\ m - 1 \notin Missed
    BY <1>3, <1>5
  <2>2. PICK g : Grown(q, old, g, m - 1)
    BY <2>1
  <2> DEFINE h == [k \in 0..m |-> IF k = m THEN WithHeirs(q, g[m - 1]) ELSE g[k]]
  <2>3. Grown(q, old, h, m)
    <3>1. m \in Nat /\ m # 0
      BY <1>3, <1>5
    <3>2. DOMAIN h = 0..m
      OBVIOUS
    <3>3. h[0] = {old}
      BY <2>2, <3>1 DEF Grown
    <3>4. ASSUME NEW k \in 1..m PROVE h[k] = WithHeirs(q, h[k - 1])
      <4>1. k - 1 \in 0..m /\ k - 1 # m /\ k \in 0..m
        BY <3>1
      <4>2. h[k - 1] = g[k - 1]
        BY <4>1
      <4>3. CASE k = m
        BY <4>1, <4>2, <4>3
      <4>4. CASE k # m
        <5>1. k \in 1..(m - 1)
          BY <3>1, <4>4
        <5>2. g[k] = WithHeirs(q, g[k - 1])
          BY <2>2, <5>1 DEF Grown
        <5>3. h[k] = g[k]
          BY <4>1, <4>4
        <5> QED BY <4>2, <5>2, <5>3
      <4> QED BY <4>3, <4>4
    <3> HIDE DEF h
    <3> QED BY <3>2, <3>3, <3>4 DEF Grown
  <2> QED BY <1>3, <2>3
<1> QED BY <1>4, <1>5

LEMMA FamilyIsGrown ==
    ASSUME NEW q, NEW old
    PROVE  \E g : Grown(q, old, g, MaxProfiles) /\ Family(q, old) = g[MaxProfiles]
<1> DEFINE Rule(f) == f = [k \in 0..MaxProfiles |-> IF k = 0 THEN {old}
                             ELSE f[k - 1] \cup {c \in 1..Len(q) : q[c].spends \in f[k - 1]}]
           from == CHOOSE f : Rule(f)
<1>1. Family(q, old) = from[MaxProfiles]
  BY DEF Family
<1>2. PICK g : Grown(q, old, g, MaxProfiles)
  BY GrownExists
<1> DEFINE h == [k \in 0..MaxProfiles |-> g[k]]
<1>3. Rule(h)
  <2>1. ASSUME NEW k \in 0..MaxProfiles
        PROVE  h[k] = IF k = 0 THEN {old}
                      ELSE h[k - 1] \cup {c \in 1..Len(q) : q[c].spends \in h[k - 1]}
    <3>1. CASE k = 0
      BY <1>2, <3>1 DEF Grown
    <3>2. CASE k # 0
      <4>1. k \in 1..MaxProfiles /\ k - 1 \in 0..MaxProfiles
        BY <3>2
      <4>2. g[k] = WithHeirs(q, g[k - 1])
        BY <1>2, <4>1 DEF Grown
      <4>3. h[k - 1] = g[k - 1] /\ h[k] = g[k]
        BY <4>1
      <4> HIDE DEF h
      <4> QED BY <3>2, <4>2, <4>3 DEF WithHeirs
    <3> QED BY <3>1, <3>2
  <2>2. h = [k \in 0..MaxProfiles |-> h[k]]
    OBVIOUS
  <2> HIDE DEF h
  <2> QED BY <2>1, <2>2
<1>4. Rule(from)
  <2> HIDE DEF Rule, h
  <2> QED BY <1>3
<1>5. Grown(q, old, from, MaxProfiles)
  <2>1. from = [k \in 0..MaxProfiles |-> IF k = 0 THEN {old}
                  ELSE from[k - 1] \cup {c \in 1..Len(q) : q[c].spends \in from[k - 1]}]
    BY <1>4
  <2> HIDE DEF from
  <2>2. DOMAIN from = 0..MaxProfiles
    BY <2>1
  <2>3. from[0] = {old}
    <3>1. 0 \in 0..MaxProfiles
      OBVIOUS
    <3> QED BY <2>1, <3>1
  <2>4. ASSUME NEW k \in 1..MaxProfiles PROVE from[k] = WithHeirs(q, from[k - 1])
    <3>1. k \in 0..MaxProfiles /\ k # 0
      OBVIOUS
    <3> QED BY <2>1, <3>1 DEF WithHeirs
  <2> QED BY <2>2, <2>3, <2>4 DEF Grown
<1> HIDE DEF from
<1> QED BY <1>1, <1>5

(* Every cell spends an older one, or none.                                *)
Older(q) ==
    /\ Len(q) \in 0..MaxProfiles
    /\ \A c \in 1..Len(q) : q[c].spends \in 0..(c - 1)

HeirsClosed(q, S) == \A c \in 1..Len(q) : q[c].spends \in S => c \in S

LEMMA GrownGrows ==
    ASSUME NEW q, NEW old, NEW n \in Nat, NEW g, Grown(q, old, g, n), NEW k \in 0..n
    PROVE  old \in g[k]
<1> DEFINE Missed == {m \in 0..n : old \notin g[m]}
<1>1. SUFFICES ASSUME Missed # {} PROVE FALSE
  OBVIOUS
<1>2. PICK m \in Missed : \A j \in Missed : m <= j
  <2>1. Missed \in SUBSET Nat
    OBVIOUS
  <2> HIDE DEF Missed
  <2> QED BY <1>1, <2>1, LeastOfNat
<1>3. m # 0
  BY <1>2 DEF Grown
<1>4. m \in 1..n /\ m - 1 \in 0..n /\ m - 1 \notin Missed
  BY <1>2, <1>3
<1>5. old \in g[m - 1]
  BY <1>4
<1> QED BY <1>2, <1>4, <1>5 DEF Grown, WithHeirs

(* A cell d is found in d rounds.                                          *)
LEMMA FoundEarly ==
    ASSUME NEW q, Older(q), NEW old, NEW n \in Nat, NEW g, Grown(q, old, g, n),
           NEW d \in Nat, NEW k \in 0..n, d \in g[k], NEW m \in 0..n, d <= m
    PROVE  d \in g[m]
<1> DEFINE Late == {e \in Nat : \E i, j \in 0..n : e \in g[i] /\ e <= j /\ e \notin g[j]}
<1>1. SUFFICES ASSUME Late # {} PROVE FALSE
  OBVIOUS
<1>2. PICK e \in Late : \A f \in Late : e <= f
  BY <1>1, LeastOfNat
<1>3. PICK j \in 0..n : e <= j /\ e \notin g[j] /\ \E i \in 0..n : e \in g[i]
  BY <1>2
<1> DEFINE In == {i \in 0..n : e \in g[i]}
<1>4. PICK i \in In : \A f \in In : i <= f
  <2>1. In # {} /\ In \in SUBSET Nat
    BY <1>3
  <2> QED BY <2>1, LeastOfNat
<1>5. i # 0
  <2>1. ASSUME i = 0 PROVE FALSE
    <3>1. e = old
      BY <1>4, <2>1 DEF Grown
    <3> QED BY <1>3, <3>1, GrownGrows
  <2> QED BY <2>1
<1>6. i \in 1..n /\ i - 1 \in 0..n /\ i - 1 \notin In
  BY <1>4, <1>5
<1>7. e \notin g[i - 1] /\ g[i] = WithHeirs(q, g[i - 1]) /\ e \in g[i]
  BY <1>4, <1>6 DEF Grown
<1>8. e \in 1..Len(q) /\ q[e].spends \in g[i - 1]
  BY <1>7 DEF WithHeirs
<1>9. PICK s : s = q[e].spends
  OBVIOUS
<1>10. s \in Nat /\ s < e /\ e >= 1
  BY <1>8, <1>9 DEF Older
<1>11. s \notin Late
  BY <1>2, <1>10
<1>12. j \in 1..n /\ j - 1 \in 0..n /\ s <= j - 1
  BY <1>2, <1>3, <1>10
<1>13. s \in g[j - 1]
  BY <1>6, <1>8, <1>9, <1>10, <1>11, <1>12
<1>14. e \in g[j]
  BY <1>8, <1>9, <1>12, <1>13 DEF Grown, WithHeirs
<1> QED BY <1>3, <1>14

LEMMA FamilyIsClosed ==
    ASSUME NEW q, Older(q), NEW old \in Nat
    PROVE  old \in Family(q, old) /\ HeirsClosed(q, Family(q, old))
<1>1. PICK g : Grown(q, old, g, MaxProfiles) /\ Family(q, old) = g[MaxProfiles]
  BY FamilyIsGrown
<1>2. old \in g[MaxProfiles]
  BY <1>1, GrownGrows
<1>3. ASSUME NEW c \in 1..Len(q), q[c].spends \in g[MaxProfiles]
      PROVE  c \in g[MaxProfiles]
  <2>1. PICK s : s = q[c].spends
    OBVIOUS
  <2>2. s \in Nat /\ s <= MaxProfiles - 1 /\ MaxProfiles \in 1..MaxProfiles
    BY <2>1 DEF Older
  <2>3. s \in g[MaxProfiles - 1]
    <3>1. MaxProfiles - 1 \in 0..MaxProfiles /\ MaxProfiles \in 0..MaxProfiles
      BY <2>2
    <3> QED BY <1>1, <1>3, <2>1, <2>2, <3>1, FoundEarly
  <2>4. g[MaxProfiles] = WithHeirs(q, g[MaxProfiles - 1])
    BY <1>1, <2>2 DEF Grown
  <2> QED BY <2>1, <2>3, <2>4 DEF WithHeirs
<1> QED BY <1>1, <1>2, <1>3 DEF HeirsClosed

LEMMA FamilyIsLeast ==
    ASSUME NEW q, NEW old, NEW S, old \in S, HeirsClosed(q, S)
    PROVE  Family(q, old) \subseteq S
<1>1. PICK g : Grown(q, old, g, MaxProfiles) /\ Family(q, old) = g[MaxProfiles]
  BY FamilyIsGrown
<1> DEFINE Beyond == {k \in 0..MaxProfiles : ~ (g[k] \subseteq S)}
<1>2. Beyond = {}
  <2>1. SUFFICES ASSUME Beyond # {} PROVE FALSE
    OBVIOUS
  <2>2. PICK k \in Beyond : \A m \in Beyond : k <= m
    <3>1. Beyond \in SUBSET Nat
      OBVIOUS
    <3> HIDE DEF Beyond
    <3> QED BY <2>1, <3>1, LeastOfNat
  <2>3. k # 0
    BY <1>1, <2>2 DEF Grown
  <2>4. k \in 1..MaxProfiles /\ k - 1 \in 0..MaxProfiles /\ k - 1 \notin Beyond
    BY <2>2, <2>3
  <2>5. g[k - 1] \subseteq S /\ g[k] = WithHeirs(q, g[k - 1])
    BY <1>1, <2>4 DEF Grown
  <2>6. g[k] \subseteq S
    BY <2>5 DEF WithHeirs, HeirsClosed
  <2> QED BY <2>2, <2>6
<1> QED BY <1>1, <1>2

-----------------------------------------------------------------------------
(* The lineage of a row.                                                   *)

Back(r, line) == IF r[Head(line)].prev = 0 THEN line ELSE <<r[Head(line)].prev>> \o line

Traced(r, tip, g, n) ==
    /\ DOMAIN g = 0..n
    /\ g[0] = <<tip>>
    /\ \A k \in 1..n : g[k] = Back(r, g[k - 1])

RowLine(r, tip) ==
    LET back[k \in 0..MaxProfiles] ==
            IF k = 0 THEN <<tip>>
            ELSE LET chain == back[k - 1]
                     prev == r[Head(chain)].prev
                 IN  IF prev = 0 THEN chain ELSE <<prev>> \o chain
    IN  back[MaxProfiles]

LEMMA LineageIsLine ==
    ASSUME NEW tip
    PROVE  Lineage(tip) = RowLine(ownRows, tip)
BY DEF Lineage, RowLine

LEMMA TracedExists ==
    ASSUME NEW r, NEW tip, NEW n \in Nat
    PROVE  \E g : Traced(r, tip, g, n)
<1> DEFINE Missed == {m \in Nat : ~ \E g : Traced(r, tip, g, m)}
<1>1. SUFFICES Missed = {}
  OBVIOUS
<1>2. SUFFICES ASSUME Missed # {} PROVE FALSE
  OBVIOUS
<1>3. PICK m \in Missed : \A k \in Missed : m <= k
  BY <1>2, LeastOfNat
<1>4. CASE m = 0
  <2> DEFINE g == [k \in 0..0 |-> <<tip>>]
  <2>1. Traced(r, tip, g, 0)
    BY DEF Traced
  <2> QED BY <1>3, <1>4, <2>1
<1>5. CASE m # 0
  <2>1. m - 1 \in Nat /\ m - 1 \notin Missed
    BY <1>3, <1>5
  <2>2. PICK g : Traced(r, tip, g, m - 1)
    BY <2>1
  <2> DEFINE h == [k \in 0..m |-> IF k = m THEN Back(r, g[m - 1]) ELSE g[k]]
  <2>3. Traced(r, tip, h, m)
    <3>1. m \in Nat /\ m # 0
      BY <1>3, <1>5
    <3>2. DOMAIN h = 0..m
      OBVIOUS
    <3>3. h[0] = <<tip>>
      BY <2>2, <3>1 DEF Traced
    <3>4. ASSUME NEW k \in 1..m PROVE h[k] = Back(r, h[k - 1])
      <4>1. k - 1 \in 0..m /\ k - 1 # m /\ k \in 0..m
        BY <3>1
      <4>2. h[k - 1] = g[k - 1]
        BY <4>1
      <4>3. CASE k = m
        BY <4>1, <4>2, <4>3
      <4>4. CASE k # m
        <5>1. k \in 1..(m - 1)
          BY <3>1, <4>4
        <5>2. g[k] = Back(r, g[k - 1])
          BY <2>2, <5>1 DEF Traced
        <5>3. h[k] = g[k]
          BY <4>1, <4>4
        <5> QED BY <4>2, <5>2, <5>3
      <4> QED BY <4>3, <4>4
    <3> HIDE DEF h
    <3> QED BY <3>2, <3>3, <3>4 DEF Traced
  <2> QED BY <1>3, <2>3
<1> QED BY <1>4, <1>5

LEMMA LineIsTraced ==
    ASSUME NEW r, NEW tip
    PROVE  \E g : Traced(r, tip, g, MaxProfiles) /\ RowLine(r, tip) = g[MaxProfiles]
<1> DEFINE Rule(f) == f = [k \in 0..MaxProfiles |-> IF k = 0 THEN <<tip>>
              ELSE IF r[Head(f[k - 1])].prev = 0 THEN f[k - 1]
                   ELSE <<r[Head(f[k - 1])].prev>> \o f[k - 1]]
           back == CHOOSE f : Rule(f)
<1>1. RowLine(r, tip) = back[MaxProfiles]
  BY DEF RowLine
<1>2. PICK g : Traced(r, tip, g, MaxProfiles)
  BY TracedExists
<1> DEFINE h == [k \in 0..MaxProfiles |-> g[k]]
<1>3. Rule(h)
  <2>1. ASSUME NEW k \in 0..MaxProfiles
        PROVE  h[k] = IF k = 0 THEN <<tip>>
                      ELSE IF r[Head(h[k - 1])].prev = 0 THEN h[k - 1]
                           ELSE <<r[Head(h[k - 1])].prev>> \o h[k - 1]
    <3>1. CASE k = 0
      BY <1>2, <3>1 DEF Traced
    <3>2. CASE k # 0
      <4>1. k \in 1..MaxProfiles /\ k - 1 \in 0..MaxProfiles
        BY <3>2
      <4>2. g[k] = Back(r, g[k - 1])
        BY <1>2, <4>1 DEF Traced
      <4>3. h[k - 1] = g[k - 1] /\ h[k] = g[k]
        BY <4>1
      <4> HIDE DEF h
      <4> QED BY <3>2, <4>2, <4>3 DEF Back
    <3> QED BY <3>1, <3>2
  <2>2. h = [k \in 0..MaxProfiles |-> h[k]]
    OBVIOUS
  <2> HIDE DEF h
  <2> QED BY <2>1, <2>2
<1>4. Rule(back)
  <2> HIDE DEF Rule, h
  <2> QED BY <1>3
<1>5. Traced(r, tip, back, MaxProfiles)
  <2>1. back = [k \in 0..MaxProfiles |-> IF k = 0 THEN <<tip>>
              ELSE IF r[Head(back[k - 1])].prev = 0 THEN back[k - 1]
                   ELSE <<r[Head(back[k - 1])].prev>> \o back[k - 1]]
    BY <1>4
  <2> HIDE DEF back
  <2>2. DOMAIN back = 0..MaxProfiles
    BY <2>1
  <2>3. back[0] = <<tip>>
    <3>1. 0 \in 0..MaxProfiles
      OBVIOUS
    <3> QED BY <2>1, <3>1
  <2>4. ASSUME NEW k \in 1..MaxProfiles PROVE back[k] = Back(r, back[k - 1])
    <3>1. k \in 0..MaxProfiles /\ k # 0
      OBVIOUS
    <3> QED BY <2>1, <3>1 DEF Back
  <2> QED BY <2>2, <2>3, <2>4 DEF Traced
<1> HIDE DEF back
<1> QED BY <1>1, <1>5

(* Each back-reference of a row is the cell its own cell spent.            *)
RowsFollow(q, r) ==
    \A c \in 1..MaxProfiles :
       r[c].prev # 0 => /\ c <= Len(q)
                        /\ r[c].prev \in 1..MaxProfiles
                        /\ q[c].spends = r[c].prev

Spending(q, line) ==
    /\ line \in Seq(1..MaxProfiles) /\ line # <<>>
    /\ \A i \in 1..(Len(line) - 1) : q[line[i + 1]].spends = line[i]

LEMMA BackSpends ==
    ASSUME NEW q, NEW r, RowsFollow(q, r), NEW line, Spending(q, line)
    PROVE  Spending(q, Back(r, line))
<1>1. line \in Seq(1..MaxProfiles) /\ Len(line) \in Nat /\ Len(line) > 0
      /\ Head(line) = line[1] /\ line[1] \in 1..MaxProfiles
  <2>1. line \in Seq(1..MaxProfiles) /\ line # <<>>
    BY DEF Spending
  <2>2. Len(line) \in Nat /\ Len(line) > 0
    BY <2>1, EmptySeq
  <2> QED BY <2>1, <2>2
<1> DEFINE p == r[line[1]].prev
<1>2. CASE p = 0
  BY <1>1, <1>2 DEF Back
<1>3. CASE p # 0
  <2>1. p \in 1..MaxProfiles /\ q[line[1]].spends = p
    BY <1>1, <1>3 DEF RowsFollow
  <2>2. PICK one : one = <<p>>
    OBVIOUS
  <2>3. one \in Seq(1..MaxProfiles) /\ Len(one) = 1 /\ one[1] = p
    BY <2>1, <2>2
  <2> DEFINE l == one \o line
  <2>4. Back(r, line) = l
    BY <1>1, <1>3, <2>2 DEF Back
  <2>5. /\ l \in Seq(1..MaxProfiles) /\ Len(l) = 1 + Len(line)
        /\ \A i \in 1..(1 + Len(line)) : l[i] = IF i <= 1 THEN one[i] ELSE line[i - 1]
    <3>1. /\ l \in Seq(1..MaxProfiles) /\ Len(l) = Len(one) + Len(line)
          /\ \A i \in 1..(Len(one) + Len(line)) : 
                l[i] = IF i <= Len(one) THEN one[i] ELSE line[i - Len(one)]
      <4> HIDE DEF p
      <4> QED BY <1>1, <2>3, ConcatProperties
    <3> QED BY <2>3, <3>1
  <2> HIDE DEF l, p
  <2>6. ASSUME NEW i \in 1..(Len(l) - 1) PROVE q[l[i + 1]].spends = l[i]
    <3>1. i \in 1..(1 + Len(line)) /\ i + 1 \in 1..(1 + Len(line)) /\ ~ (i + 1 <= 1)
          /\ (i + 1) - 1 = i
      BY <1>1, <2>5
    <3>2. l[i + 1] = line[i]
      BY <2>5, <3>1
    <3>3. CASE i = 1
      BY <2>1, <2>3, <2>5, <3>1, <3>2, <3>3
    <3>4. CASE i # 1
      <4>1. i - 1 \in 1..(Len(line) - 1) /\ (i - 1) + 1 = i /\ ~ (i <= 1)
        BY <1>1, <2>5, <3>4
      <4>2. q[line[i]].spends = line[i - 1]
        BY <4>1 DEF Spending
      <4> QED BY <2>5, <3>1, <3>2, <4>1, <4>2
    <3> QED BY <3>3, <3>4
  <2>7. l # <<>>
    BY <1>1, <2>5
  <2> QED BY <2>4, <2>5, <2>6, <2>7 DEF Spending
<1> QED BY <1>2, <1>3

LEMMA LineSpends ==
    ASSUME NEW q, NEW r, RowsFollow(q, r), NEW tip \in 1..MaxProfiles
    PROVE  Spending(q, RowLine(r, tip))
<1>1. PICK g : Traced(r, tip, g, MaxProfiles) /\ RowLine(r, tip) = g[MaxProfiles]
  BY LineIsTraced
<1> DEFINE Broken == {k \in 0..MaxProfiles : ~ Spending(q, g[k])}
<1>2. Broken = {}
  <2>1. SUFFICES ASSUME Broken # {} PROVE FALSE
    OBVIOUS
  <2>2. PICK k \in Broken : \A m \in Broken : k <= m
    <3>1. Broken \in SUBSET Nat
      OBVIOUS
    <3> HIDE DEF Broken
    <3> QED BY <2>1, <3>1, LeastOfNat
  <2>3. k # 0
    <3>1. Spending(q, <<tip>>)
      BY DEF Spending
    <3> QED BY <1>1, <2>2, <3>1 DEF Traced
  <2>4. k \in 1..MaxProfiles /\ k - 1 \in 0..MaxProfiles /\ k - 1 \notin Broken
    BY <2>2, <2>3
  <2>5. Spending(q, g[k - 1]) /\ g[k] = Back(r, g[k - 1])
    BY <1>1, <2>4 DEF Traced
  <2> QED BY <2>2, <2>5, BackSpends
<1> QED BY <1>1, <1>2

-----------------------------------------------------------------------------
(* What holds of the chain, the rows and the contact at every moment.      *)

CellKind == [lock : Owners, seq : 0..2 * MaxProfiles, prev : 0..MaxProfiles,
             spends : 0..MaxProfiles, live : BOOLEAN]

SeqIsShort(q) == \A c \in 1..Len(q) : q[c].seq <= c

(* What is trusted is a cell, and of the family of the first use.          *)
TrustedInFamily(q, f) ==
    /\ f.first = 0 <=> f.saved = 0
    /\ f.saved # 0 => /\ f.first \in 1..Len(q)
                      /\ f.saved \in Family(q, f.first)

RotationInv ==
    /\ RotationTypeOK
    /\ Older(cell)
    /\ SeqIsShort(cell)
    /\ RowsFollow(cell, ownRows)
    /\ TrustedInFamily(cell, friend)

(* One more cell: the old ones keep what they spent.                       *)
Longer(q, p) ==
    /\ Len(p) = Len(q) + 1
    /\ \A c \in 1..Len(q) : p[c].spends = q[c].spends /\ p[c].seq = q[c].seq
    /\ p[Len(p)].spends \in 0..Len(q)
    /\ p[Len(p)].seq <= Len(p)

LEMMA LongerKeeps ==
    ASSUME NEW q, NEW p, Longer(q, p), Older(q), SeqIsShort(q), Len(q) < MaxProfiles,
           NEW f, TrustedInFamily(q, f)
    PROVE  Older(p) /\ SeqIsShort(p) /\ TrustedInFamily(p, f)
<1>1. PICK n : n = Len(q)
  OBVIOUS
<1>2. n \in Nat /\ n < MaxProfiles /\ Len(p) = n + 1
  BY <1>1 DEF Longer, Older
<1>3. Older(p)
  BY <1>1, <1>2 DEF Longer, Older
<1>4. SeqIsShort(p)
  BY <1>1, <1>2 DEF Longer, SeqIsShort
<1>5. ASSUME f.saved # 0
      PROVE  f.first \in 1..Len(p) /\ f.saved \in Family(p, f.first)
  <2>1. f.first \in 1..n /\ f.saved \in Family(q, f.first)
    BY <1>1, <1>5 DEF TrustedInFamily
  <2>2. f.first \in Nat
    BY <2>1, <1>2
  <2>3. f.first \in Family(p, f.first) /\ HeirsClosed(p, Family(p, f.first))
    BY <1>3, <2>2, FamilyIsClosed
  <2>4. HeirsClosed(q, Family(p, f.first))
    BY <1>1, <1>2, <2>3 DEF HeirsClosed, Longer
  <2>5. Family(q, f.first) \subseteq Family(p, f.first)
    BY <2>3, <2>4, FamilyIsLeast
  <2> QED BY <1>2, <2>1, <2>5
<1> QED BY <1>3, <1>4, <1>5 DEF TrustedInFamily

LEMMA LongerRows ==
    ASSUME NEW q, NEW p, Longer(q, p), Len(q) \in Nat, NEW r, RowsFollow(q, r)
    PROVE  RowsFollow(p, r)
BY DEF Longer, RowsFollow

(* A chain each of whose links the ledger vouches for stays in the family. *)
LEMMA ChainStaysInFamily ==
    ASSUME NEW q, Older(q), NEW first \in Nat, NEW chain \in Seq(1..Len(q)),
           chain[1] \in Family(q, first),
           \A i \in 1..Len(chain) - 1 : q[chain[i + 1]].spends = chain[i],
           NEW k \in 1..Len(chain)
    PROVE  chain[k] \in Family(q, first)
<1> DEFINE Outside == {i \in 1..Len(chain) : chain[i] \notin Family(q, first)}
<1>1. SUFFICES ASSUME Outside # {} PROVE FALSE
  OBVIOUS
<1>2. PICK i \in Outside : \A j \in Outside : i <= j
  <2>1. Outside \in SUBSET Nat
    OBVIOUS
  <2> HIDE DEF Outside
  <2> QED BY <1>1, <2>1, LeastOfNat
<1>3. Len(chain) \in Nat /\ i \in 1..Len(chain) /\ i # 1
  BY <1>2
<1>4. i - 1 \in 1..Len(chain) - 1 /\ (i - 1) + 1 = i /\ i - 1 \in 1..Len(chain)
  BY <1>3
<1>5. q[chain[i]].spends = chain[i - 1] /\ chain[i] \in 1..Len(q)
  <2>1. PICK j \in 1..Len(chain) - 1 : j = i - 1 /\ j + 1 = i
    BY <1>4
  <2>2. q[chain[j + 1]].spends = chain[j]
    OBVIOUS
  <2>3. chain[i] \in 1..Len(q)
    BY <1>3
  <2> QED BY <2>1, <2>2, <2>3
<1>6. chain[i - 1] \in Family(q, first)
  <2>1. i - 1 \notin Outside
    BY <1>2, <1>3
  <2> QED BY <1>4, <2>1
<1>7. chain[i] \in Family(q, first)
  BY <1>5, <1>6, FamilyIsClosed DEF HeirsClosed
<1> QED BY <1>2, <1>7

LEMMA InvImpliesTrust ==
    ASSUME RotationInv
    PROVE  TrustFollowsSpends
<1>1. ASSUME friend.saved # 0 PROVE Descends(friend.first, friend.saved)
  BY <1>1, DescendsIsFamily DEF RotationInv, TrustedInFamily
<1>2. ASSUME NEW c \in ProfileCells, ownRows[c].state = "active"
      PROVE  LET line == Lineage(c)
             IN  \A i \in 1..Len(line) - 1 : cell[line[i + 1]].spends = line[i]
  <2>1. c \in 1..MaxProfiles /\ RowsFollow(cell, ownRows)
    BY DEF RotationInv, Older, ProfileCells
  <2>2. Spending(cell, Lineage(c))
    BY <2>1, LineSpends, LineageIsLine
  <2> QED BY <2>2 DEF Spending
<1> QED BY <1>1, <1>2 DEF TrustFollowsSpends

LEMMA RotationStarts == RotationInit => RotationInv
<1> SUFFICES ASSUME RotationInit PROVE RotationInv
  OBVIOUS
<1>1. RotationTypeOK
  BY DEF RotationInit, RotationTypeOK, NoRow, Owners
<1>2. Older(cell) /\ SeqIsShort(cell)
  BY DEF RotationInit, Older, SeqIsShort
<1>3. RowsFollow(cell, ownRows)
  BY DEF RotationInit, RowsFollow, NoRow
<1>4. TrustedInFamily(cell, friend)
  BY DEF RotationInit, TrustedInFamily
<1> QED BY <1>1, <1>2, <1>3, <1>4 DEF RotationInv

LEMMA ChainsAreSequences ==
    ASSUME Len(cell) \in Nat, NEW chain \in Chains
    PROVE  chain \in Seq(ProfileCells) /\ Len(chain) \in Nat /\ Len(chain) > 0
<1>1. PICK n \in 1..Len(cell) : chain \in [1..n -> ProfileCells]
  BY DEF Chains
<1>2. n \in Nat /\ n > 0
  BY <1>1
<1>3. chain \in Seq(ProfileCells)
  BY <1>1, <1>2, SeqDef
<1>4. Len(chain) = n
  BY <1>1, <1>2, <1>3, LenProperties
<1> QED BY <1>2, <1>3, <1>4

LEMMA AcceptedInFamily ==
    ASSUME RotationInv, NEW c \in ProfileCells, NEW chain \in Chains,
           EvaluateContact(c, chain)
    PROVE  TrustedInFamily(cell, friend')
<1>1. Len(cell) \in Nat /\ c \in 1..Len(cell) /\ Older(cell)
  BY DEF ProfileCells, RotationInv, Older
<1>2. PICK v : v = Judged(friend.saved, c, chain)
  OBVIOUS
<1>3. friend' = [first |-> IF friend.first = 0 THEN c ELSE friend.first,
                 saved |-> IF v \in Accepted THEN c ELSE friend.saved,
                 verdict |-> v]
  BY <1>2 DEF EvaluateContact
<1>4. CASE friend.saved = 0
  <2>1. friend.first = 0 /\ v = "first-use"
    <3>1. friend.first = 0
      BY <1>4 DEF RotationInv, TrustedInFamily
    <3>2. Verdict(friend.saved, c, chain) = "first-use"
      <4>1. c # 0
        BY <1>1
      <4> QED BY <1>4, <4>1 DEF Verdict
    <3> QED BY <1>2, <3>1, <3>2 DEF Judged
  <2>2. friend'.first = c /\ friend'.saved = c
    BY <1>3, <2>1 DEF Accepted
  <2>3. c \in Family(cell, c)
    BY <1>1, FamilyIsClosed
  <2> QED BY <1>1, <2>2, <2>3 DEF TrustedInFamily
<1>5. CASE friend.saved # 0
  <2>1. /\ friend.first # 0 /\ friend.first \in 1..Len(cell)
        /\ friend.saved \in Family(cell, friend.first)
    BY <1>5 DEF RotationInv, TrustedInFamily
  <2>2. friend'.first = friend.first
    BY <1>3, <2>1
  <2>3. CASE v \notin Accepted
    <3>1. friend'.saved = friend.saved
      BY <1>3, <2>3
    <3> QED BY <1>5, <2>1, <2>2, <3>1 DEF TrustedInFamily
  <2>4. CASE v \in Accepted
    <3>1. friend'.saved = c
      BY <1>3, <2>4
    <3>2. c \in Family(cell, friend.first)
      <4>1. CASE friend.saved = c
        BY <2>1, <4>1
      <4>2. CASE friend.saved # c
        <5>1. Verdict(friend.saved, c, chain) # "first-use"
          BY <1>5 , <4>2 DEF Verdict
        <5>2. Verdict(friend.saved, c, chain) # "trusted"
          BY <1>5, <4>2 DEF Verdict
        <5>3. Verdict(friend.saved, c, chain) = "rotation-verified" /\ ChainOnChain(chain)
          BY <1>2, <2>4, <5>1, <5>2 DEF Judged, Accepted
        <5>4. chain[1] = friend.saved /\ chain[Len(chain)] = c
          BY <1>5, <4>2, <5>3 DEF Verdict
        <5>5. \A i \in 1..Len(chain) - 1 : cell[chain[i + 1]].spends = chain[i]
          BY <5>3 DEF ChainOnChain, LinkOnChain
        <5>6. chain \in Seq(1..Len(cell)) /\ Len(chain) \in 1..Len(chain)
          BY <1>1, ChainsAreSequences DEF ProfileCells
        <5>7. chain[Len(chain)] \in Family(cell, friend.first)
          <6>1. friend.first \in Nat
            BY <1>1, <2>1
          <6> QED BY <1>1, <2>1, <5>4, <5>5, <5>6, <6>1, ChainStaysInFamily
        <5> QED BY <5>4, <5>7
      <4> QED BY <4>1, <4>2
    <3> QED BY <1>1, <2>1, <2>2, <3>1, <3>2 DEF TrustedInFamily
  <2> QED BY <2>3, <2>4
<1> QED BY <1>4, <1>5

LEMMA EvaluateKeeps ==
    ASSUME RotationInv, NEW c \in ProfileCells, NEW chain \in Chains,
           EvaluateContact(c, chain)
    PROVE  RotationInv'
<1>1. cell' = cell /\ ownRows' = ownRows
  BY DEF EvaluateContact
<1>2. TrustedInFamily(cell, friend')
  BY AcceptedInFamily
<1>3. friend' \in [first : 0..MaxProfiles, saved : 0..MaxProfiles,
                   verdict : {"none", "first-use", "trusted", "rotation-verified",
                              "key-changed-blocking"}]
  <2>1. PICK v : v = Judged(friend.saved, c, chain)
    OBVIOUS
  <2>2. v \in {"first-use", "trusted", "rotation-verified", "key-changed-blocking"}
    BY <2>1 DEF Judged, Verdict
  <2>3. c \in 0..MaxProfiles /\ friend.first \in 0..MaxProfiles
        /\ friend.saved \in 0..MaxProfiles
    <3>1. friend.first \in 0..MaxProfiles /\ friend.saved \in 0..MaxProfiles
      BY DEF RotationInv, RotationTypeOK
    <3>2. Len(cell) \in 0..MaxProfiles
      BY DEF RotationInv, Older
    <3>3. c \in 1..Len(cell)
      BY DEF ProfileCells
    <3>4. MaxProfiles \in Nat
      BY DEF RotationAssumption
    <3>5. c \in 0..MaxProfiles
      BY ONLY <3>2, <3>3, <3>4
    <3> QED BY ONLY <3>1, <3>5
  <2>4. friend' = [first |-> IF friend.first = 0 THEN c ELSE friend.first,
                   saved |-> IF v \in Accepted THEN c ELSE friend.saved,
                   verdict |-> v]
    BY <2>1 DEF EvaluateContact
  <2> QED BY <2>2, <2>3, <2>4
<1>4. RotationTypeOK'
  BY <1>1, <1>3 DEF RotationInv, RotationTypeOK
<1>5. (Older(cell) /\ SeqIsShort(cell) /\ RowsFollow(cell, ownRows))'
  BY <1>1 DEF RotationInv
<1>6. TrustedInFamily(cell, friend)'
  BY <1>1, <1>2
<1> QED BY <1>4, <1>5, <1>6 DEF RotationInv

(* What a longer list of cells leaves to show.                             *)
LEMMA LongerInv ==
    ASSUME RotationInv, Len(cell) < MaxProfiles, cell' \in Seq(CellKind),
           Longer(cell, cell'), RowsFollow(cell', ownRows'),
           ownRows' \in [1..MaxProfiles -> [state : {"none", "active", "rotated"},
                                            prev : 0..MaxProfiles]],
           friend' = friend
    PROVE  RotationInv'
<1>1. Older(cell') /\ SeqIsShort(cell') /\ TrustedInFamily(cell', friend)
  BY LongerKeeps DEF RotationInv
<1>2. RotationTypeOK'
  BY <1>1 DEF RotationInv, RotationTypeOK, CellKind, Older
<1>3. (Older(cell) /\ SeqIsShort(cell) /\ RowsFollow(cell, ownRows))'
  BY <1>1
<1>4. TrustedInFamily(cell, friend)'
  BY <1>1
<1> QED BY <1>2, <1>3, <1>4 DEF RotationInv

LEMMA AppendedIsLonger ==
    ASSUME NEW q \in Seq(CellKind), NEW x \in CellKind, x.spends \in 0..Len(q),
           x.seq <= Len(q) + 1
    PROVE  Append(q, x) \in Seq(CellKind) /\ Longer(q, Append(q, x))
<1>1. PICK p : p = Append(q, x)
  OBVIOUS
<1>2. Len(p) = Len(q) + 1 /\ p[Len(q) + 1] = x /\ p \in Seq(CellKind)
      /\ \A c \in 1..Len(q) : p[c] = q[c]
  BY <1>1, AppendProperties
<1>3. Longer(q, p)
  BY <1>2 DEF Longer
<1> QED BY <1>1, <1>2, <1>3

LEMMA CreateProfileKeeps ==
    ASSUME RotationInv, NEW who \in Owners, CreateProfile(who)
    PROVE  RotationInv'
<1>1. PICK seq \in 0..1, prev \in 0..Len(cell) :
         cell' = Append(cell, [lock |-> who, seq |-> seq, prev |-> prev, spends |-> 0,
                               live |-> TRUE])
  BY DEF CreateProfile
<1> DEFINE x == [lock |-> who, seq |-> seq, prev |-> prev, spends |-> 0, live |-> TRUE]
<1>2. Len(cell) \in Nat /\ Len(cell) < MaxProfiles /\ cell \in Seq(CellKind)
  BY DEF CreateProfile, RotationInv, Older, RotationTypeOK, CellKind
<1>3. x \in CellKind /\ x.spends \in 0..Len(cell) /\ x.seq <= Len(cell) + 1
  BY <1>2 DEF CellKind
<1> HIDE DEF x
<1>4. cell' \in Seq(CellKind) /\ Longer(cell, cell')
  <2>1. cell' = Append(cell, x)
    BY <1>1 DEF x
  <2> QED BY <1>2, <1>3, <2>1, AppendedIsLonger
<1>5. ownRows' = ownRows /\ friend' = friend
  BY DEF CreateProfile
<1>6. RowsFollow(cell', ownRows')
  BY <1>2, <1>4, <1>5, LongerRows DEF RotationInv
<1> QED BY <1>2, <1>4, <1>5, <1>6, LongerInv DEF RotationInv, RotationTypeOK

LEMMA PublishOwnKeeps ==
    ASSUME RotationInv, PublishOwn
    PROVE  RotationInv'
<1> DEFINE x == [lock |-> "owner", seq |-> 0, prev |-> 0, spends |-> 0, live |-> TRUE]
<1>2. Len(cell) \in Nat /\ Len(cell) < MaxProfiles /\ cell \in Seq(CellKind)
  BY DEF PublishOwn, RotationInv, Older, RotationTypeOK, CellKind
<1>3. x \in CellKind /\ x.spends \in 0..Len(cell) /\ x.seq <= Len(cell) + 1
  BY <1>2 DEF CellKind, Owners
<1>4. cell' \in Seq(CellKind) /\ Longer(cell, cell')
  <2>1. cell' = Append(cell, x)
    BY DEF PublishOwn
  <2> HIDE DEF x
  <2> QED BY <1>2, <1>3, <2>1, AppendedIsLonger
<1>5. /\ ownRows' = [ownRows EXCEPT ![Len(cell) + 1] = [state |-> "active", prev |-> 0]]
      /\ friend' = friend
  BY DEF PublishOwn
<1>6. /\ ownRows \in [1..MaxProfiles -> [state : {"none", "active", "rotated"},
                                         prev : 0..MaxProfiles]]
      /\ RowsFollow(cell, ownRows)
  BY DEF RotationInv, RotationTypeOK
<1>7. ownRows' \in [1..MaxProfiles -> [state : {"none", "active", "rotated"},
                                       prev : 0..MaxProfiles]]
  <2>1. [state |-> "active", prev |-> 0] \in [state : {"none", "active", "rotated"},
                                             prev : 0..MaxProfiles]
    OBVIOUS
  <2> QED BY <1>5, <1>6, <2>1
<1>8. RowsFollow(cell, ownRows')
  BY <1>5, <1>6 DEF RowsFollow
<1>9. RowsFollow(cell', ownRows')
  BY <1>2, <1>4, <1>8, LongerRows
<1> HIDE DEF x
<1> QED BY <1>2, <1>4, <1>5, <1>7, <1>9, LongerInv

LEMMA RotateKeeps ==
    ASSUME RotationInv, NEW old \in ProfileCells, RotateProfile(old)
    PROVE  RotationInv'
<1> DEFINE x == [lock |-> "owner", seq |-> cell[old].seq + 1, prev |-> old,
                 spends |-> old, live |-> TRUE]
           q == [cell EXCEPT ![old].live = FALSE]
<1>2. /\ Len(cell) \in Nat /\ Len(cell) < MaxProfiles /\ cell \in Seq(CellKind)
      /\ old \in 1..Len(cell)
  BY DEF RotateProfile, RotationInv, Older, RotationTypeOK, CellKind, ProfileCells
<1>3. cell[old] \in CellKind /\ cell[old].seq \in Nat /\ cell[old].seq <= old
  <2>1. cell[old] \in CellKind
    BY <1>2
  <2> QED BY <1>2, <2>1 DEF RotationInv, SeqIsShort, CellKind
<1>4. x \in CellKind /\ x.spends \in 0..Len(cell) /\ x.seq <= Len(cell) + 1
  <2>1. cell[old].seq + 1 \in 0..2 * MaxProfiles /\ old \in 0..MaxProfiles
    BY <1>2, <1>3
  <2> QED BY <1>2, <1>3, <2>1 DEF CellKind, Owners
<1>5. /\ q \in Seq(CellKind) /\ Len(q) = Len(cell)
      /\ \A c \in 1..Len(cell) : q[c].spends = cell[c].spends /\ q[c].seq = cell[c].seq
  <2>1. [cell[old] EXCEPT !.live = FALSE] \in CellKind
    BY <1>3 DEF CellKind
  <2>2. q = [cell EXCEPT ![old] = [cell[old] EXCEPT !.live = FALSE]]
    BY <1>2
  <2>3. q \in Seq(CellKind) /\ Len(q) = Len(cell)
    BY <1>2, <2>1, <2>2, ExceptSeq
  <2>4. \A c \in 1..Len(cell) : q[c].spends = cell[c].spends /\ q[c].seq = cell[c].seq
    <3>1. TAKE c \in 1..Len(cell)
    <3>2. cell[c] \in CellKind
      BY <1>2
    <3>3. CASE c = old
      BY <1>2, <2>2, <3>2, <3>3 DEF CellKind
    <3>4. CASE c # old
      BY <1>2, <2>2, <3>4
    <3> QED BY <3>3, <3>4
  <2> QED BY <2>3, <2>4
<1>6. cell' = Append(q, x)
  BY DEF RotateProfile
<1> HIDE DEF x, q
<1>7. cell' \in Seq(CellKind) /\ Longer(q, cell')
  BY <1>4, <1>5, <1>6, AppendedIsLonger
<1>8. Longer(cell, cell')
  BY <1>5, <1>7 DEF Longer
<1>9. ownRows' = ownRows /\ friend' = friend
  BY DEF RotateProfile
<1>10. RowsFollow(cell', ownRows')
  BY <1>2, <1>8, <1>9, LongerRows DEF RotationInv
<1> QED BY <1>2, <1>7, <1>8, <1>9, <1>10, LongerInv DEF RotationInv, RotationTypeOK

LEMMA RecordKeeps ==
    ASSUME RotationInv, NEW old \in ProfileCells, NEW new \in ProfileCells,
           RecordRotation(old, new)
    PROVE  RotationInv'
<1>1. cell' = cell /\ friend' = friend
  BY DEF RecordRotation
<1>2. /\ Len(cell) \in 0..MaxProfiles /\ new \in 1..Len(cell) /\ old \in 1..Len(cell)
      /\ cell[new].spends = old
  BY DEF RecordRotation, RotationInv, Older, ProfileCells
<1> DEFINE RowKind == [state : {"none", "active", "rotated"}, prev : 0..MaxProfiles]
           mid == [ownRows EXCEPT ![old].state = "rotated"]
<1>3. ownRows \in [1..MaxProfiles -> RowKind]
  BY DEF RotationInv, RotationTypeOK
<1>4. /\ mid \in [1..MaxProfiles -> RowKind]
      /\ \A c \in 1..MaxProfiles : mid[c].prev = ownRows[c].prev
  BY <1>2, <1>3
<1>5. ownRows' = [mid EXCEPT ![new] = [state |-> "active", prev |-> old]]
  BY DEF RecordRotation
<1> HIDE DEF mid
<1>6. ownRows' \in [1..MaxProfiles -> RowKind]
  BY <1>2, <1>4, <1>5
<1>7. RowsFollow(cell, ownRows')
  <2>1. new \in 1..MaxProfiles /\ old \in 1..MaxProfiles
    BY <1>2
  <2>2. ASSUME NEW c \in 1..MaxProfiles, ownRows'[c].prev # 0
        PROVE  /\ c <= Len(cell) /\ ownRows'[c].prev \in 1..MaxProfiles
               /\ cell[c].spends = ownRows'[c].prev
    <3>1. CASE c = new
      <4>1. ownRows'[c].prev = old
        BY <1>4, <1>5, <2>1, <3>1
      <4> QED BY <1>2, <2>1, <3>1, <4>1
    <3>2. CASE c # new
      <4>1. ownRows'[c].prev = ownRows[c].prev
        BY <1>4, <1>5, <2>1, <3>2
      <4> QED BY <2>2, <4>1 DEF RowsFollow, RotationInv
    <3> QED BY <3>1, <3>2
  <2> QED BY <2>2 DEF RowsFollow
<1>8. RotationTypeOK'
  BY <1>1, <1>6 DEF RotationInv, RotationTypeOK
<1>9. (Older(cell) /\ SeqIsShort(cell) /\ TrustedInFamily(cell, friend))'
  BY <1>1 DEF RotationInv
<1>10. RowsFollow(cell, ownRows)'
  BY <1>1, <1>7
<1> QED BY <1>8, <1>9, <1>10 DEF RotationInv

LEMMA RotationKeeps == RotationInv /\ [RotationNext]_rotationVars => RotationInv'
<1> SUFFICES ASSUME RotationInv, [RotationNext]_rotationVars PROVE RotationInv'
  OBVIOUS
<1>1. CASE UNCHANGED rotationVars
  BY <1>1 DEF rotationVars, RotationInv, RotationTypeOK, ProfileCells
<1>2. ASSUME NEW who \in Owners, CreateProfile(who) PROVE RotationInv'
  BY <1>2, CreateProfileKeeps
<1>3. CASE PublishOwn
  BY <1>3, PublishOwnKeeps
<1>4. ASSUME NEW old \in ProfileCells, RotateProfile(old) PROVE RotationInv'
  BY <1>4, RotateKeeps
<1>5. ASSUME NEW old \in ProfileCells, NEW new \in ProfileCells, RecordRotation(old, new)
      PROVE  RotationInv'
  BY <1>5, RecordKeeps
<1>6. ASSUME NEW c \in ProfileCells, NEW chain \in Chains, EvaluateContact(c, chain)
      PROVE  RotationInv'
  BY <1>6, EvaluateKeeps
<1> QED BY <1>1, <1>2, <1>3, <1>4, <1>5, <1>6 DEF RotationNext

(* What a contact row trusts descends from the keys of its first use by    *)
(* spends that the chain vouches for, however many profiles anybody writes, *)
(* whatever their data claim and whatever chain is offered to              *)
(* evaluateContactProfile; and getLineage reads such a line.               *)
THEOREM TrustIsEarned == RotationSpec => []TrustFollowsSpends
<1>1. RotationInit => RotationInv
  BY RotationStarts
<1>2. RotationInv /\ [RotationNext]_rotationVars => RotationInv'
  BY RotationKeeps
<1>3. RotationInv => TrustFollowsSpends
  BY InvImpliesTrust
<1> QED BY <1>1, <1>2, <1>3, PTL DEF RotationSpec

-----------------------------------------------------------------------------
(* The device: its components side by side.                                *)

LEMMA EachStarts ==
    Init => /\ SessionInit /\ LoopInit /\ ProbeInit /\ DatabaseInit
            /\ ImageInit /\ RotationInit /\ ContactBookInit /\ ClientInit /\ WireInit
            /\ BridgeInit /\ SchedulingInit
BY DEF Init

LEMMA EachStepsOrRests ==
    [Next]_deviceVars =>
       /\ [SessionNext]_sessionVars /\ [LoopNext]_loopVars /\ [ProbeNext]_probeVars
       /\ [DatabaseNext]_dbVars /\ [ImageNext]_imageVars /\ [RotationNext]_rotationVars
       /\ [ContactBookNext]_bookVars /\ [ClientNext]_clientVars /\ [WireNext]_wireVars
       /\ [BridgeNext]_bridgeVars /\ [SchedulingNext]_schedulingVars
BY DEF Next, deviceVars

(* A behaviour of the device is one of each of its components.             *)
THEOREM EachRunsAsAlone ==
    Spec => /\ SessionSpec /\ LoopSpec /\ ProbeSpec /\ DatabaseSpec
            /\ ImageSpec /\ RotationSpec /\ ContactBookSpec /\ ClientSpec /\ WireSpec
            /\ BridgeSpec /\ SchedulingSpec
BY EachStarts, EachStepsOrRests, PTL
   DEF Spec, SessionSpec, LoopSpec, ProbeSpec, DatabaseSpec, ImageSpec, RotationSpec,
       ContactBookSpec, ClientSpec, WireSpec, BridgeSpec, SchedulingSpec

(* What the app asks of the platform comes about, in a process that scans  *)
(* fewer than 256 times: a dialog's answer reaches the call that opened it *)
(* and a tick stays enqueued for as long as a worker wants one             *)
(* (CempQrScannerModule.kt:97-159, background-engine.ts).                  *)
THEOREM ThePlatformKeepsItsWord ==
    ASSUME CodesAreDistinct
    PROVE  Spec => []PlatformKeepsItsWord
<1>1. Spec => BridgeSpec /\ SchedulingSpec
  BY EachRunsAsAlone
<1>2. BridgeSpec => []BridgesKeepTheirPromises
  BY PromisesAreKept
<1>3. SchedulingSpec => []WakesAreKept
  BY WakesAreKeptAlways
<1>4. BridgesKeepTheirPromises /\ WakesAreKept => PlatformKeepsItsWord
  BY DEF PlatformKeepsItsWord
<1> QED BY <1>1, <1>2, <1>3, <1>4, PTL
=============================================================================
