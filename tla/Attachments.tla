---------------------------- MODULE Attachments ----------------------------
(***************************************************************************)
(* One image message: publishImage and the upload of its chunk cells       *)
(* (apps/android/src/messaging.ts, image-send.ts, packages/cemp-images/    *)
(* src/send.ts), the recipient's tap and its 0x05 receipt, and the reclaim *)
(* of the chunk cells as one group (reclaim.ts, workers.ts).               *)
(*                                                                         *)
(* An upload is one transaction that creates every chunk of one attempt;   *)
(* each attempt draws a fresh attachment id, so its journal purpose is new *)
(* and the resume of publishAttachmentChunks never finds a record.         *)
(* publishText is one step here and is the subject of Publication, the     *)
(* message cell's own reclaim is one step and is the subject of Reclaim.   *)
(***************************************************************************)
EXTENDS Naturals

CONSTANTS MaxUploads,   \* bound: attempts that get as far as an upload
          Collectors,   \* passes over the groups that may overlap
          MaxImageFaults  \* bound: deaths and failed requests

ASSUME ImageAssumption == MaxUploads \in Nat /\ MaxImageFaults \in Nat

VARIABLES upload,      \* upload[u]: the chunk cells of attempt u
          post,        \* the publishImage call
          textJournal, \* the latest message:<id> record
          textNode,    \* its transaction on the node
          named,       \* the upload its manifest names, 0 for a plain text
          textCell,    \* the message cell
          imageRow,    \* the upload named by the sender's attachments row, or 0
          confirmed,   \* that row's remote_downloaded
          tap,         \* the recipient: message stored, image fetched
          bytesAck,    \* the row ack-attachment:<id> and the receipt it sends
          group,       \* the reclaim transaction of the group: record and node
          collect,     \* collect[c]: a call of reclaimAttachmentGroup
          ledger,      \* chunk capacity by bucket, in uploads
          imageFaults

sending == <<upload, post, textJournal, textNode, named, imageRow>>
tapping == <<textCell, tap, bytesAck, confirmed>>
collecting == <<group, collect>>
imageVars == <<sending, tapping, collecting, ledger, imageFaults>>

Uploads == 1..MaxUploads
IdlePost == [at |-> "idle", u |-> 0]
PostLabels == {"idle", "check", "prepare", "record", "send", "await", "settle", "reserve",
               "text", "textwait", "create", "resume", "resumewait"}
CollectLabels == {"idle", "find", "resume", "abandon", "cells", "record", "send", "await",
                  "cas", "fund", "release"}

ImageTypeOK ==
    /\ upload \in [Uploads -> {"none", "pool", "gone", "live", "spent"}]
    /\ post \in [at : PostLabels, u : 0..MaxUploads]
    /\ textJournal \in {"none", "submitted", "committed"}
    /\ textNode \in {"none", "pool", "dead", "committed"}
    /\ {named, imageRow} \subseteq 0..MaxUploads
    /\ textCell \in {"none", "live", "reclaimed"}
    /\ tap \in {"nothing", "stored", "fetched"}
    /\ bytesAck \in {"none", "queued", "sent", "applied"}
    /\ confirmed \in BOOLEAN
    /\ group \in [record : {"none", "submitted", "committed", "abandoned"},
                  node : {"none", "pool", "dead", "committed"}]
    /\ collect \in [Collectors -> CollectLabels]
    /\ ledger \in [reserved : 0..MaxUploads, reclaimable : 0..MaxUploads, released : 0..2]
    /\ imageFaults \in 0..MaxImageFaults

ImageInit ==
    /\ upload = [u \in Uploads |-> "none"]
    /\ post = IdlePost
    /\ textJournal = "none" /\ textNode = "none" /\ named = 0 /\ textCell = "none"
    /\ imageRow = 0 /\ confirmed = FALSE
    /\ tap = "nothing" /\ bytesAck = "none"
    /\ group = [record |-> "none", node |-> "none"]
    /\ collect = [c \in Collectors |-> "idle"]
    /\ ledger = [reserved |-> 0, reclaimable |-> 0, released |-> 0]
    /\ imageFaults = 0

Fault == imageFaults < MaxImageFaults /\ imageFaults' = imageFaults + 1

-----------------------------------------------------------------------------
(* publishImage.                                                           *)

PostAt(label) == post.at = label
PostGoto(label) == post' = [post EXCEPT !.at = label]

(* The bubble's first send or its retry; publishBusy allows one at a time. *)
StartPost ==
    /\ PostAt("idle") /\ textCell = "none"
    /\ PostGoto("check")
    /\ UNCHANGED <<upload, textJournal, textNode, named, imageRow, tapping, collecting,
                   ledger, imageFaults>>

(* A message transaction in flight must not be followed by a new upload.   *)
CheckJournal ==
    /\ PostAt("check")
    /\ PostGoto(IF textJournal \in {"submitted", "committed"} THEN "resume" ELSE "prepare")
    /\ UNCHANGED <<upload, textJournal, textNode, named, imageRow, tapping, collecting,
                   ledger, imageFaults>>

(* Compress, size, encrypt under a fresh id, split.                        *)
PrepareImage ==
    /\ PostAt("prepare")
    /\ \E u \in Uploads : /\ upload[u] = "none" /\ \A v \in 1..(u - 1) : upload[v] # "none"
                          /\ post' = [at |-> "record", u |-> u]
    /\ UNCHANGED <<upload, textJournal, textNode, named, imageRow, tapping, collecting,
                   ledger, imageFaults>>

(* Journal, then broadcast; the node may refuse, or take it and not answer. *)
RecordChunks ==
    /\ PostAt("record")
    /\ upload' = [upload EXCEPT ![post.u] = "gone"]
    /\ PostGoto("send")
    /\ UNCHANGED <<textJournal, textNode, named, imageRow, tapping, collecting, ledger,
                   imageFaults>>

SendChunks ==
    /\ PostAt("send")
    /\ \/ upload' = [upload EXCEPT ![post.u] = "pool"] /\ PostGoto("await")
          /\ UNCHANGED imageFaults
       \/ Fault /\ upload' = [upload EXCEPT ![post.u] = "pool"] /\ post' = IdlePost
       \/ Fault /\ post' = IdlePost /\ UNCHANGED upload
    /\ UNCHANGED <<textJournal, textNode, named, imageRow, tapping, collecting, ledger>>

\* A plausible bug: the manifest is built as soon as the chunks are accepted.
ChunksLanded_Flawed(u) == upload[u] \in {"pool", "live"}

ChunksLanded(u) == upload[u] = "live"

(* waitForTransactionCommit: committed, or an error at its deadline.       *)
AwaitChunks ==
    /\ PostAt("await")
    /\ \/ ChunksLanded(post.u) /\ PostGoto("settle") /\ UNCHANGED imageFaults
       \/ upload[post.u] \in {"pool", "gone"} /\ Fault /\ post' = IdlePost
    /\ UNCHANGED <<upload, textJournal, textNode, named, imageRow, tapping, collecting,
                   ledger>>

SettleChunks ==
    /\ PostAt("settle")
    /\ PostGoto("reserve")
    /\ UNCHANGED <<upload, textJournal, textNode, named, imageRow, tapping, collecting,
                   ledger, imageFaults>>

ReserveChunks ==
    /\ PostAt("reserve")
    /\ ledger' = [ledger EXCEPT !.reserved = @ + 1]
    /\ PostGoto("text")
    /\ UNCHANGED <<upload, textJournal, textNode, named, imageRow, tapping, collecting,
                   imageFaults>>

(* publishText journals and broadcasts a cell that carries the manifest.   *)
PublishManifest ==
    /\ PostAt("text")
    /\ textJournal' = "submitted" /\ textNode' = "pool" /\ named' = post.u
    /\ PostGoto("textwait")
    /\ UNCHANGED <<upload, imageRow, tapping, collecting, ledger, imageFaults>>

AwaitText ==
    /\ PostAt("textwait")
    /\ \/ /\ textNode = "committed"
          /\ textJournal' = "committed"
          /\ PostGoto("create")
          /\ UNCHANGED imageFaults
       \/ textNode # "committed" /\ Fault /\ post' = IdlePost /\ UNCHANGED textJournal
    /\ UNCHANGED <<upload, textNode, named, imageRow, tapping, collecting, ledger>>

(* The sender's own record of the manifest comes last.                     *)
CreateImageRow ==
    /\ PostAt("create")
    /\ imageRow' = post.u
    /\ post' = IdlePost
    /\ UNCHANGED <<upload, textJournal, textNode, named, tapping, collecting, ledger,
                   imageFaults>>

(* The resume passes no manifest: when publishText finds the transaction   *)
(* dead it abandons it and builds the caption as a plain text.             *)
ResumeText ==
    /\ PostAt("resume")
    /\ PostGoto("resumewait")
    /\ textJournal' = IF textJournal = "committed" THEN "committed" ELSE "submitted"
    /\ textNode' = IF textNode \in {"none", "dead"} THEN "pool" ELSE textNode
    /\ named' = IF textNode = "dead" THEN 0 ELSE named
    /\ UNCHANGED <<upload, imageRow, tapping, collecting, ledger, imageFaults>>

AwaitResumed ==
    /\ PostAt("resumewait")
    /\ \/ textNode = "committed" /\ textJournal' = "committed" /\ UNCHANGED imageFaults
       \/ textNode # "committed" /\ Fault /\ UNCHANGED textJournal
    /\ post' = IdlePost
    /\ UNCHANGED <<upload, textNode, named, imageRow, tapping, collecting, ledger>>

-----------------------------------------------------------------------------
(* The node.                                                               *)

ChunksLand ==
    /\ \E u \in Uploads : /\ upload[u] = "pool"
                          /\ upload' = [upload EXCEPT ![u] = "live"]
    /\ UNCHANGED <<post, textJournal, textNode, named, imageRow, tapping, collecting, ledger,
                   imageFaults>>

TextLands ==
    /\ textNode = "pool"
    /\ textNode' = "committed" /\ textCell' = "live"
    /\ UNCHANGED <<upload, post, textJournal, named, imageRow, tap, bytesAck, confirmed,
                   collecting, ledger, imageFaults>>

TextLost ==
    /\ textNode = "pool" /\ Fault
    /\ textNode' \in {"none", "dead"}
    /\ UNCHANGED <<upload, post, textJournal, named, imageRow, tapping, collecting, ledger>>

GroupLands ==
    /\ group.node = "pool"
    /\ group' = [group EXCEPT !.node = "committed"]
    /\ upload' = [upload EXCEPT ![imageRow] = "spent"]
    /\ UNCHANGED <<post, textJournal, textNode, named, imageRow, tapping, collect, ledger,
                   imageFaults>>

GroupLost ==
    /\ group.node = "pool" /\ Fault
    /\ \E lost \in {"none", "dead"} : group' = [group EXCEPT !.node = lost]
    /\ UNCHANGED <<sending, tapping, collect, ledger>>

-----------------------------------------------------------------------------
(* The recipient, and the sender's side of its receipts.                   *)

ReceiveText ==
    /\ textCell = "live" /\ tap = "nothing"
    /\ tap' = "stored"
    /\ UNCHANGED <<sending, textCell, bytesAck, confirmed, collecting, ledger, imageFaults>>

(* The 0x01 receipt is applied and a batch reclaims the message cell.      *)
ReclaimText ==
    /\ textCell = "live" /\ tap # "nothing"
    /\ textCell' = "reclaimed"
    /\ UNCHANGED <<sending, tap, bytesAck, confirmed, collecting, ledger, imageFaults>>

(* downloadAttachment: every chunk must be live, nothing partial is kept.  *)
Fetchable == named # 0 /\ upload[named] = "live"

(* downloadImageAttachment; the acknowledgement after it may fail.         *)
TapImage ==
    /\ tap # "nothing" /\ Fetchable
    /\ tap' = "fetched"
    /\ bytesAck' \in IF bytesAck = "none" THEN {"none", "queued"} ELSE {bytesAck}
    /\ UNCHANGED <<sending, textCell, confirmed, collecting, ledger, imageFaults>>

PublishBytesAck ==
    /\ bytesAck = "queued"
    /\ bytesAck' = "sent"
    /\ UNCHANGED <<sending, textCell, tap, confirmed, collecting, ledger, imageFaults>>

(* A 0x05 receipt is ingested once; without an attachments row it is lost. *)
ApplyBytesAck ==
    /\ bytesAck = "sent"
    /\ bytesAck' = "applied"
    /\ confirmed' = (imageRow # 0)
    /\ UNCHANGED <<sending, textCell, tap, collecting, ledger, imageFaults>>

-----------------------------------------------------------------------------
(* The group's reclaim.                                                    *)

CollectAt(c, label) == collect[c] = label
CollectGoto(c, label) == collect' = [collect EXCEPT ![c] = label]

Collectable == textCell = "reclaimed" /\ imageRow # 0 /\ confirmed

StartCollect(c) ==
    /\ CollectAt(c, "idle") /\ Collectable /\ group.record # "committed"
    /\ CollectGoto(c, "find")
    /\ UNCHANGED <<sending, tapping, group, ledger, imageFaults>>

FindGroup(c) ==
    /\ CollectAt(c, "find")
    /\ CollectGoto(c, IF group.record = "submitted" THEN "resume" ELSE "cells")
    /\ UNCHANGED <<sending, tapping, group, ledger, imageFaults>>

ResumeGroup(c) ==
    /\ CollectAt(c, "resume")
    /\ CollectGoto(c, IF group.node = "dead" THEN "abandon" ELSE "await")
    /\ group' = IF group.node = "none" THEN [group EXCEPT !.node = "pool"] ELSE group
    /\ UNCHANGED <<sending, tapping, ledger, imageFaults>>

AbandonGroup(c) ==
    /\ CollectAt(c, "abandon")
    /\ group' = [group EXCEPT !.record = "abandoned"]
    /\ CollectGoto(c, "cells")
    /\ UNCHANGED <<sending, tapping, ledger, imageFaults>>

(* Only live cells go into the build; none left, nothing to do.            *)
LiveChunks(c) ==
    /\ CollectAt(c, "cells")
    /\ CollectGoto(c, IF upload[imageRow] = "live" THEN "record" ELSE "idle")
    /\ UNCHANGED <<sending, tapping, group, ledger, imageFaults>>

(* The same cells give the same transaction, whose record is kept.         *)
RecordGroup(c) ==
    /\ CollectAt(c, "record")
    /\ group' = IF group.record = "none" THEN [group EXCEPT !.record = "submitted"] ELSE group
    /\ CollectGoto(c, "send")
    /\ UNCHANGED <<sending, tapping, ledger, imageFaults>>

SendGroup(c) ==
    /\ CollectAt(c, "send")
    /\ IF group.node \in {"none", "dead"}
       THEN \/ /\ group' = [group EXCEPT !.node = "pool"]
               /\ CollectGoto(c, "await") /\ UNCHANGED imageFaults
            \/ /\ group' \in {group, [group EXCEPT !.node = "pool"]}
               /\ CollectGoto(c, "idle") /\ Fault
       ELSE CollectGoto(c, "idle") /\ UNCHANGED <<group, imageFaults>>
    /\ UNCHANGED <<sending, tapping, ledger>>

AwaitGroup(c) ==
    /\ CollectAt(c, "await")
    /\ \/ group.node = "committed" /\ CollectGoto(c, "cas") /\ UNCHANGED imageFaults
       \/ group.node # "committed" /\ CollectGoto(c, "idle") /\ Fault
    /\ UNCHANGED <<sending, tapping, group, ledger>>

(* markOutgoingTxStateIf: one caller takes the record from submitted.      *)
Wins == group.record = "submitted"

CasGroup(c) ==
    /\ CollectAt(c, "cas")
    /\ group' = IF Wins THEN [group EXCEPT !.record = "committed"] ELSE group
    /\ CollectGoto(c, IF Wins THEN "fund" ELSE "idle")
    /\ UNCHANGED <<sending, tapping, ledger, imageFaults>>

(* Each move is refused when its bucket does not hold the amount.          *)
FundGroup(c) ==
    /\ CollectAt(c, "fund")
    /\ IF ledger.reserved > 0
       THEN /\ ledger' = [ledger EXCEPT !.reserved = @ - 1, !.reclaimable = @ + 1]
            /\ CollectGoto(c, "release")
       ELSE CollectGoto(c, "idle") /\ UNCHANGED ledger
    /\ UNCHANGED <<sending, tapping, group, imageFaults>>

ReleaseGroup(c) ==
    /\ CollectAt(c, "release")
    /\ ledger' = [ledger EXCEPT !.reclaimable = @ - 1, !.released = @ + 1]
    /\ CollectGoto(c, "idle")
    /\ UNCHANGED <<sending, tapping, group, imageFaults>>

-----------------------------------------------------------------------------
ImageCrash ==
    /\ Fault
    /\ post' = IdlePost
    /\ collect' = [c \in Collectors |-> "idle"]
    /\ UNCHANGED <<upload, textJournal, textNode, named, imageRow, tapping, group, ledger>>

PostStep ==
    \/ StartPost \/ CheckJournal \/ PrepareImage \/ RecordChunks \/ SendChunks \/ AwaitChunks
    \/ SettleChunks \/ ReserveChunks \/ PublishManifest \/ AwaitText \/ CreateImageRow
    \/ ResumeText \/ AwaitResumed

CollectStep(c) ==
    \/ StartCollect(c) \/ FindGroup(c) \/ ResumeGroup(c) \/ AbandonGroup(c) \/ LiveChunks(c)
    \/ RecordGroup(c) \/ SendGroup(c) \/ AwaitGroup(c) \/ CasGroup(c) \/ FundGroup(c)
    \/ ReleaseGroup(c)

ImageNext ==
    \/ PostStep
    \/ ChunksLand \/ TextLands \/ TextLost \/ GroupLands \/ GroupLost
    \/ ReceiveText \/ ReclaimText \/ TapImage \/ PublishBytesAck \/ ApplyBytesAck
    \/ \E c \in Collectors : CollectStep(c)
    \/ ImageCrash

ImageSpec == ImageInit /\ [][ImageNext]_imageVars

-----------------------------------------------------------------------------
(* What the manifest of a message on the chain names can be fetched until  *)
(* the recipient has fetched it: the manifest is built only after the      *)
(* chunks are committed, and the chunks are spent only behind a 0x05       *)
(* receipt, never behind the envelope's 0x01 (send.ts:177-204,             *)
(* workers.ts:836-845).                                                    *)
ImageOutlivesTap ==
    textNode = "committed" /\ named # 0 /\ tap # "fetched" => upload[named] = "live"

(* However calls overlap, resume or rebuild, the capacity of a group is    *)
(* released at most once and only when its cells are spent                 *)
(* (reclaim.ts:108-135, 196-214).                                          *)
GroupReleasedOnce ==
    ledger.released <= (IF imageRow # 0 /\ upload[imageRow] = "spent" THEN 1 ELSE 0)

(* What recipient and sender are promised of an image.                     *)
ImagesAreSafe == ImageOutlivesTap /\ GroupReleasedOnce
=============================================================================
