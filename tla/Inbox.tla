------------------------------- MODULE Inbox -------------------------------
(***************************************************************************)
(* The receiving side of packages/cemp-sync/src/workers.ts: sweeps that    *)
(* ingest messages from the chain or from the LoRa relay, heal interrupted *)
(* rows, publish acknowledgements and watch the senders' cells; and, as    *)
(* the environment, the sender who reclaims a cell once it finds the       *)
(* receipt on the chain.                                                   *)
(*                                                                         *)
(* A sweep is runAllNow: its jobs run in registration order, one step per  *)
(* await, and any number of sweeps may interleave.  Text, manifests and    *)
(* the bytes of an envelope are left out; publishText is one step here and *)
(* is the subject of Publication.                                          *)
(***************************************************************************)
EXTENDS MessageStates, FiniteSets

CONSTANTS Msgs,          \* incoming messages, all of one sender
          Relayed,       \* those the LoRa gateway may hold as well
          InboxSweeps,        \* sweeps that may be in flight together
          MaxInboxCrash  \* bound: process deaths and locks

ASSUME InboxAssumption == Relayed \subseteq Msgs /\ "none" \notin Msgs

VARIABLES inRow,       \* inRow[m]: state of the message's row, "none" before the insert
          source,    \* source[m]: the row's chain ref names the cell
          manifest,  \* manifest[m]: the attachment row is persisted
          ack,       \* ack[m]: what became of the row response:<m>
          replyTo,   \* replyTo[m]: the response row's chain ref names the original cell
          watch,     \* watch[m]: the watched outpoint of the original cell
          contact,   \* a contact exists for the sender
          origin,    \* origin[m]: the sender's cell
          relayed,   \* what the gateway returns for the relay cursor
          window,    \* window[m]: its route tag is of the current or the previous epoch
          receipt,   \* receipt[m]: a response carrying m's receipt is on the chain
          sweep,     \* sweep[s]: what sweep s is doing
          inboxCrashes

inboxRows == <<inRow, source, manifest, ack, replyTo, watch, contact>>
outside == <<origin, relayed, window, receipt>>
inboxVars == <<inboxRows, outside, sweep, inboxCrashes>>

(* The jobs of a sweep that drive incoming rows, in registration order.    *)
JobOrder == <<"heal", "chain", "lora", "respond", "watch">>
Jobs == {JobOrder[i] : i \in 1..Len(JobOrder)}

IngestLabels == {"screen", "create", "insert", "attach", "chainref"}
AdvanceLabels == {"advance", "notify", "ackcheck", "ackinsert", "ackref"}
RespondLabels == {"publish", "read1", "walk1", "read2", "walk2", "read3", "walk3",
                  "finalize", "register"}
WatchLabels == {"probe", "markspent", "moverow"}
SweepLabels == {"list", "next", "prune"}
                 \cup IngestLabels \cup AdvanceLabels \cup RespondLabels \cup WatchLabels

RowStates == {"none"} \cup IncomingStates
Strandable == {"discovered", "downloading", "decrypting"}
AdvanceOrder == <<"discovered", "downloading", "decrypting", "received">>
Received == {"received", "displayed", "response_queued", "response_sent",
             "awaiting_remote_reclaim", "remote_reclaimed"}
WalkStates == <<"displayed", "response_queued", "response_sent">>

(* Between two sweeps the loop is about to list the work of the first job.  *)
IdleSweep == [at |-> "list", job |-> JobOrder[1], todo |-> {}, m |-> "none",
              read |-> [m \in Msgs |-> "none"], spent |-> FALSE]

InboxTypeOK ==
    /\ inRow \in [Msgs -> RowStates]
    /\ ack \in [Msgs -> {"none", "queued", "sent", "pending", "failed"}]
    /\ watch \in [Msgs -> {"none", "watching", "spent"}]
    /\ origin \in [Msgs -> {"live", "dead"}]
    /\ relayed \subseteq Relayed
    /\ \A f \in {source, manifest, replyTo, window, receipt} : f \in [Msgs -> BOOLEAN]
    /\ contact \in BOOLEAN
    /\ \A s \in InboxSweeps : /\ sweep[s].at \in SweepLabels
                         /\ sweep[s].job \in Jobs
                         /\ sweep[s].todo \subseteq Msgs
                         /\ sweep[s].read \in [Msgs -> RowStates]
    /\ inboxCrashes \in 0..MaxInboxCrash

InboxInit ==
    /\ inRow = [m \in Msgs |-> "none"]
    /\ source = [m \in Msgs |-> FALSE]
    /\ manifest = [m \in Msgs |-> FALSE]
    /\ ack = [m \in Msgs |-> "none"]
    /\ replyTo = [m \in Msgs |-> FALSE]
    /\ watch = [m \in Msgs |-> "none"]
    /\ contact = FALSE
    /\ origin = [m \in Msgs |-> "live"]
    /\ relayed \in SUBSET Relayed
    /\ window = [m \in Msgs |-> TRUE]
    /\ receipt = [m \in Msgs |-> FALSE]
    /\ sweep = [s \in InboxSweeps |-> IdleSweep]
    /\ inboxCrashes = 0

-----------------------------------------------------------------------------
(* Moving a sweep.                                                         *)

SweepGoto(s, at) == sweep' = [sweep EXCEPT ![s].at = at]
NextItem(s) == SweepGoto(s, "next")

JobAfter(job) == LET i == CHOOSE j \in 1..Len(JobOrder) : JobOrder[j] = job
                 IN JobOrder[(i % Len(JobOrder)) + 1]

EndJob(s) == sweep' = [sweep EXCEPT ![s] = [IdleSweep EXCEPT !.job = JobAfter(sweep[s].job)]]

(* A step that throws: the healer, discovery and the relay poll isolate    *)
(* the item; the response sender and the watch poll end their run.         *)
Throw(s) == IF sweep[s].job \in {"respond", "watch"} THEN EndJob(s) ELSE NextItem(s)

SetRow(m, to) == inRow' = [inRow EXCEPT ![m] = to]

(* What a job finds to do.  A scan keeps no cursor: it returns every live  *)
(* cell under the route tags of two epochs.                                *)
TaggedCells == {m \in Msgs : origin[m] = "live" /\ window[m]}

\* A plausible bug: the healer looks for one of the interrupted states only.
InterruptedRows_Flawed == {m \in Msgs : inRow[m] = "downloading"}

InterruptedRows == {m \in Msgs : inRow[m] \in {"downloading", "decrypting"}}

QueuedResponses == {m \in Msgs : ack[m] = "queued"}
ActiveWatches == {m \in Msgs : watch[m] = "watching"}

Work(job) ==
    CASE job = "heal"    -> InterruptedRows
      [] job = "chain"   -> TaggedCells
      [] job = "lora"    -> relayed
      [] job = "respond" -> QueuedResponses
      [] job = "watch"   -> ActiveWatches

Gather(s) ==
    sweep' = [sweep EXCEPT ![s].at = "next", ![s].todo = Work(sweep[s].job), ![s].read = inRow]

(* The indexer or the gateway may not answer: the job ends with nothing    *)
(* done.  The heal comes last in its worker, behind the scan of submitted  *)
(* and of stranded outgoing rows, which may throw at any await.            *)
List(s) ==
    /\ sweep[s].at = "list"
    /\ Gather(s) \/ (sweep[s].job \in {"chain", "lora", "heal"} /\ EndJob(s))
    /\ UNCHANGED <<inboxRows, outside, inboxCrashes>>

(* A pass of the worker that gets as far as the heal.                      *)
HealBegins(s) == sweep[s].job = "heal" /\ Gather(s) /\ List(s)

FirstLabel(job) == CASE job = "heal" -> "advance" [] job = "respond" -> "publish"
                     [] job = "watch" -> "probe"  [] OTHER -> "screen"

(* The response sender passes over a row that has no reply_to yet, or      *)
(* whose original carries no envelope id: this row was never ready.        *)
TakeItem(s) ==
    /\ sweep[s].at = "next"
    /\ \E m \in sweep[s].todo :
         sweep' = [sweep EXCEPT ![s].todo = @ \ {m}, ![s].m = m,
                     ![s].at = IF sweep[s].job = "respond" /\ ~replyTo[m]
                               THEN "next" ELSE FirstLabel(sweep[s].job)]
    /\ UNCHANGED <<inboxRows, outside, inboxCrashes>>

(* The relay cursor moves only past a poll that was drained.               *)
FinishJob(s) ==
    /\ sweep[s].at = "next" /\ sweep[s].todo = {}
    /\ IF sweep[s].spent THEN SweepGoto(s, "prune") ELSE EndJob(s)
    /\ relayed' = IF sweep[s].job = "lora" THEN {} ELSE relayed
    /\ UNCHANGED <<inboxRows, origin, window, receipt, inboxCrashes>>

-----------------------------------------------------------------------------
(* ingestIncomingCellData.                                                 *)

(* The blocked-sender check and the rate limiter may drop the message;     *)
(* otherwise the sender's contact is looked up.                            *)
Screen(s, m) ==
    /\ sweep[s].at = "screen"
    /\ NextItem(s) \/ SweepGoto(s, IF contact THEN "insert" ELSE "create")
    /\ UNCHANGED inboxRows

(* A rival sweep may have created the stub: the unique profile id throws.  *)
CreateContact(s, m) ==
    /\ sweep[s].at = "create"
    /\ contact' = TRUE
    /\ IF contact THEN Throw(s) ELSE SweepGoto(s, "insert")
    /\ UNCHANGED <<inRow, source, manifest, ack, replyTo, watch>>

(* The insert is idempotent on the logical id and returns the row as it is. *)
Insert(s, m) ==
    /\ sweep[s].at = "insert"
    /\ LET state == IF inRow[m] = "none" THEN "discovered" ELSE inRow[m]
       IN /\ SetRow(m, state)
          /\ sweep' = [sweep EXCEPT ![s].read[m] = state, ![s].at = "attach"]
    /\ UNCHANGED <<source, manifest, ack, replyTo, watch, contact>>

AfterAttach(s, m) ==
    IF sweep[s].read[m] \notin Strandable THEN "next"
    ELSE IF sweep[s].job = "chain" THEN "chainref" ELSE "advance"

\* A plausible bug: the manifest is stored after the row is advanced.
Attach_Flawed(s, m) ==
    /\ sweep[s].at = "attach"
    /\ manifest' = [manifest EXCEPT ![m] = inRow[m] \in Received]
    /\ SweepGoto(s, AfterAttach(s, m))
    /\ UNCHANGED <<inRow, source, ack, replyTo, watch, contact>>

(* The manifest is created once; a rival creation updates it in place.     *)
Attach(s, m) ==
    /\ sweep[s].at = "attach"
    /\ manifest' = [manifest EXCEPT ![m] = TRUE]
    /\ SweepGoto(s, AfterAttach(s, m))
    /\ UNCHANGED <<inRow, source, ack, replyTo, watch, contact>>

\* A plausible bug: the acknowledgement is queued first, the advance left to the healer.
RecordSource_Flawed(s, m) ==
    /\ sweep[s].at = "chainref"
    /\ source' = [source EXCEPT ![m] = TRUE]
    /\ SweepGoto(s, "ackcheck")
    /\ UNCHANGED <<inRow, manifest, ack, replyTo, watch, contact>>

(* A chain source is recorded before the advance; the relay has none.       *)
RecordSource(s, m) ==
    /\ sweep[s].at = "chainref"
    /\ source' = [source EXCEPT ![m] = TRUE]
    /\ SweepGoto(s, "advance")
    /\ UNCHANGED <<inRow, manifest, ack, replyTo, watch, contact>>

-----------------------------------------------------------------------------
(* advanceIncomingToReceived and queueAcknowledgement.                     *)

AdvanceTarget(state) ==
    LET i == CHOOSE j \in 1..Len(AdvanceOrder) : AdvanceOrder[j] = state
    IN AdvanceOrder[i + 1]

(* One transition from the state this sweep read; a rival that is ahead    *)
(* makes it illegal, one that is level makes it a no-op.                   *)
Advance(s, m) ==
    /\ sweep[s].at = "advance"
    /\ LET to == AdvanceTarget(sweep[s].read[m])
       IN IF Accepts(inRow[m], to)
          THEN /\ SetRow(m, to)
               /\ sweep' = [sweep EXCEPT ![s].read[m] = to,
                              ![s].at = IF to = "received" THEN "notify" ELSE "advance"]
          ELSE UNCHANGED inRow /\ Throw(s)
    /\ UNCHANGED <<source, manifest, ack, replyTo, watch, contact>>

(* The notifier may throw; then the acknowledgement is not queued either.  *)
(* The relay has no cell to acknowledge, nor has a row without chain ref.  *)
Notify(s, m) ==
    /\ sweep[s].at = "notify"
    /\ \/ SweepGoto(s, IF sweep[s].job = "chain" \/ (sweep[s].job = "heal" /\ source[m])
                  THEN "ackcheck" ELSE "next")
       \/ Throw(s)
    /\ UNCHANGED inboxRows

CheckAck(s, m) ==
    /\ sweep[s].at = "ackcheck"
    /\ SweepGoto(s, IF ack[m] = "none" THEN "ackinsert" ELSE "next")
    /\ UNCHANGED inboxRows

InsertAck(s, m) ==
    /\ sweep[s].at = "ackinsert"
    /\ ack' = [ack EXCEPT ![m] = IF @ = "none" THEN "queued" ELSE @]
    /\ SweepGoto(s, "ackref")
    /\ UNCHANGED <<inRow, source, manifest, replyTo, watch, contact>>

AddressAck(s, m) ==
    /\ sweep[s].at = "ackref"
    /\ replyTo' = [replyTo EXCEPT ![m] = TRUE]
    /\ NextItem(s)
    /\ UNCHANGED <<inRow, source, manifest, ack, watch, contact>>

-----------------------------------------------------------------------------
(* runResponseSender.                                                      *)

(* publishText succeeds; or throws with the row failed, or pending behind  *)
(* a transaction that may still land (see Publication).                    *)
Publish(s, m) ==
    /\ sweep[s].at = "publish"
    /\ \/ /\ ack' = [ack EXCEPT ![m] = "sent"]
          /\ receipt' = [receipt EXCEPT ![m] = TRUE]
          /\ SweepGoto(s, "read1")
       \/ /\ ack[m] = "queued"
          /\ \E to \in {"failed", "pending"} : ack' = [ack EXCEPT ![m] = to]
          /\ UNCHANGED receipt
          /\ Throw(s)
    /\ UNCHANGED <<inRow, source, manifest, replyTo, watch, contact>>

ReadLabels == <<"read1", "read2", "read3">>
WalkLabels == <<"walk1", "walk2", "walk3">>
ReadOrder == <<"received">> \o WalkStates

OrderIndex(state) ==
    IF \E i \in 1..4 : ReadOrder[i] = state
    THEN CHOOSE i \in 1..4 : ReadOrder[i] = state ELSE 0

AfterWalk(i) == IF i = 3 THEN "finalize" ELSE ReadLabels[i + 1]

(* A state that is not on the list counts as one that lies before it.      *)
WalkRead(s, m) == \E i \in 1..3 :
    /\ sweep[s].at = ReadLabels[i]
    /\ SweepGoto(s, IF OrderIndex(inRow[m]) < i + 1 THEN WalkLabels[i] ELSE AfterWalk(i))
    /\ UNCHANGED inboxRows

WalkTransition(s, m) == \E i \in 1..3 :
    /\ sweep[s].at = WalkLabels[i]
    /\ IF Accepts(inRow[m], WalkStates[i])
       THEN SetRow(m, WalkStates[i]) /\ SweepGoto(s, AfterWalk(i))
       ELSE UNCHANGED inRow /\ Throw(s)
    /\ UNCHANGED <<source, manifest, ack, replyTo, watch, contact>>

\* A plausible bug: the watch is registered although the row was refused.
Finalize_Flawed(s, m) ==
    /\ sweep[s].at = "finalize"
    /\ SweepGoto(s, "register")
    /\ UNCHANGED inboxRows

(* finalizeResponseSent: the row first, then the watch on the original.    *)
Finalize(s, m) ==
    /\ sweep[s].at = "finalize"
    /\ IF Accepts(inRow[m], "awaiting_remote_reclaim")
       THEN SetRow(m, "awaiting_remote_reclaim") /\ SweepGoto(s, "register")
       ELSE UNCHANGED inRow /\ Throw(s)
    /\ UNCHANGED <<source, manifest, ack, replyTo, watch, contact>>

Register(s, m) ==
    /\ sweep[s].at = "register"
    /\ watch' = [watch EXCEPT ![m] = IF @ = "none" THEN "watching" ELSE @]
    /\ NextItem(s)
    /\ UNCHANGED <<inRow, source, manifest, ack, replyTo, contact>>

-----------------------------------------------------------------------------
(* pollWatchesOnce.                                                        *)

(* Only an explicit `dead` counts; live and unknown leave the watch be,    *)
(* and a request that fails ends the poll.                                 *)
Probe(s, m) ==
    /\ sweep[s].at = "probe"
    /\ \/ origin[m] = "dead" /\ SweepGoto(s, "markspent")
       \/ NextItem(s)
       \/ Throw(s)
    /\ UNCHANGED inboxRows

(* A watch another poll has pruned is not there to be marked: it throws.   *)
MarkSpent(s, m) ==
    /\ sweep[s].at = "markspent"
    /\ IF watch[m] = "none"
       THEN UNCHANGED watch /\ Throw(s)
       ELSE watch' = [watch EXCEPT ![m] = "spent"] /\ SweepGoto(s, "moverow")
    /\ UNCHANGED <<inRow, source, manifest, ack, replyTo, contact>>

MoveRow(s, m) ==
    /\ sweep[s].at = "moverow"
    /\ IF Accepts(inRow[m], "remote_reclaimed")
       THEN /\ SetRow(m, "remote_reclaimed")
            /\ sweep' = [sweep EXCEPT ![s].spent = TRUE, ![s].at = "next"]
       ELSE UNCHANGED inRow /\ Throw(s)
    /\ UNCHANGED <<source, manifest, ack, replyTo, watch, contact>>

(* Every spent record goes, whichever poll marked it.                      *)
Prune(s) ==
    /\ sweep[s].at = "prune"
    /\ watch' = [m \in Msgs |-> IF watch[m] = "spent" THEN "none" ELSE watch[m]]
    /\ EndJob(s)
    /\ UNCHANGED <<inRow, source, manifest, ack, replyTo, contact, outside, inboxCrashes>>

-----------------------------------------------------------------------------
Ingest(s, m) ==
    \/ Screen(s, m) \/ CreateContact(s, m) \/ Insert(s, m)
    \/ Attach(s, m) \/ RecordSource(s, m)

AdvanceToReceived(s, m) ==
    \/ Advance(s, m) \/ Notify(s, m) \/ CheckAck(s, m) \/ InsertAck(s, m) \/ AddressAck(s, m)

Respond(s, m) ==
    \/ WalkRead(s, m) \/ WalkTransition(s, m) \/ Finalize(s, m) \/ Register(s, m)

PollWatch(s, m) == Probe(s, m) \/ MarkSpent(s, m) \/ MoveRow(s, m)

SweepStep(s) ==
    \/ List(s) \/ TakeItem(s) \/ FinishJob(s) \/ Prune(s)
    \/ /\ sweep[s].m \in Msgs
       /\ LET m == sweep[s].m IN
            \/ /\ Ingest(s, m) \/ AdvanceToReceived(s, m) \/ Respond(s, m) \/ PollWatch(s, m)
               /\ UNCHANGED <<outside, inboxCrashes>>
            \/ Publish(s, m) /\ UNCHANGED <<origin, relayed, window, inboxCrashes>>

(* A pending response lands; the pending worker brings its row to the end. *)
ResponseLands(m) ==
    /\ ack[m] = "pending"
    /\ ack' = [ack EXCEPT ![m] = "sent"]
    /\ receipt' = [receipt EXCEPT ![m] = TRUE]
    /\ UNCHANGED <<inRow, source, manifest, replyTo, watch, contact, origin, relayed, window, sweep, inboxCrashes>>

(* The sender applies the receipt and spends the acknowledged cell.        *)
SenderReclaims(m) ==
    /\ receipt[m] /\ origin[m] = "live"
    /\ origin' = [origin EXCEPT ![m] = "dead"]
    /\ UNCHANGED <<inboxRows, relayed, window, receipt, sweep, inboxCrashes>>

(* Two routing epochs later the tag is no longer scanned.                  *)
EpochPasses(m) ==
    /\ window[m] /\ origin[m] = "live"
    /\ window' = [window EXCEPT ![m] = FALSE]
    /\ UNCHANGED <<inboxRows, origin, relayed, receipt, sweep, inboxCrashes>>

(* The process dies, or an auto-lock closes the database under the sweeps. *)
InboxCrash ==
    /\ inboxCrashes < MaxInboxCrash
    /\ inboxCrashes' = inboxCrashes + 1
    /\ sweep' = [s \in InboxSweeps |-> IdleSweep]
    /\ UNCHANGED <<inboxRows, outside>>

InboxNext ==
    \/ \E s \in InboxSweeps : SweepStep(s)
    \/ \E m \in Msgs : ResponseLands(m) \/ SenderReclaims(m) \/ EpochPasses(m)
    \/ InboxCrash

InboxSpec == InboxInit /\ [][InboxNext]_inboxVars

-----------------------------------------------------------------------------
(* A sender's cell is spent only after the recipient has the message: the  *)
(* receipt that releases it is queued behind the transition to `received`  *)
(* (workers.ts 450-474), over crashes, refusals and rival sweeps.          *)
ReclaimedWasStored ==
    \A m \in Msgs : origin[m] = "dead" => inRow[m] \in Received

(* lifecycle.ts 497-499: a response watch exists only after the row moved  *)
(* to awaiting_remote_reclaim, so that the move to remote_reclaimed is     *)
(* always legal; also when a rival poll has moved the row already.         *)
WatchedRowCanEnd ==
    \A m \in Msgs : watch[m] # "none" => Accepts(inRow[m], "remote_reclaimed")

(* review E4, lifecycle.ts 485-489: a row is told that the sender reclaimed *)
(* only when the cell is really gone, never on an unverified answer.       *)
RemoteReclaimedIsGone ==
    \A m \in Msgs : inRow[m] = "remote_reclaimed" => origin[m] = "dead"

(* A cell that is gone, and a row that says so, are only ever of a message *)
(* that was safe.                                                          *)
GoneWasSafe == ReclaimedWasStored /\ RemoteReclaimedIsGone

(* workers.ts 344-363: whoever shows the message as received has persisted *)
(* its manifest and key first; once the sender reclaims the cell there is  *)
(* no second chance to read them.                                          *)
ReceivedHasManifest ==
    \A m \in Msgs : inRow[m] \in Received => manifest[m]

(* workers.ts 729-744: a row that an interruption left in the middle of    *)
(* the advance is driven to `received`, whether or not its cell is ever    *)
(* seen again, provided that not every pass of the worker throws before it *)
(* comes to the heal.                                                      *)
StrandedIsHealed ==
    \A m \in Msgs : (inRow[m] \in {"downloading", "decrypting"}) ~> (inRow[m] \in Received)
=============================================================================
