------------------------- MODULE ConversationProofs -------------------------
(***************************************************************************)
(* What is proved of the parts a conversation is made of.                  *)
(*                                                                         *)
(* Inbox, for every number of messages and of sweeps that interleave: the  *)
(* chain of evidence from the cell the sender spends back to the row, its  *)
(* manifest and its acknowledgement.                                       *)
(*                                                                         *)
(* ContactBook, for any number of rows, of passes and of taps: what        *)
(* concerns one person ends up in one conversation.  The two UNIQUE        *)
(* constraints carry the theorem (UniqueRows), together with what a call   *)
(* on its way has in hand (OpenersKnow) and what a save of the edit screen *)
(* writes back (EditorKnows).                                              *)
(*                                                                         *)
(* Attachments, for any number of attempts and of passes over the groups   *)
(* that overlap: what a manifest names can be fetched until it was, and    *)
(* the capacity of its chunks comes back at most once.                     *)
(***************************************************************************)
EXTENDS Inbox, ContactBook, Attachments, MessageStatesProofs, SequenceTheorems

-----------------------------------------------------------------------------
(* Inbox.                                                                  *)

USE InboxAssumption

(* The states a response watch may be registered under.                    *)
Ended == {"awaiting_remote_reclaim", "remote_reclaimed"}

SweepShape == [at : SweepLabels, job : Jobs, todo : SUBSET Msgs, m : Msgs \cup {"none"},
               read : [Msgs -> RowStates], spent : BOOLEAN]

(* The item a sweep is at is no longer among those to do.                  *)
SweepRecs == {w \in SweepShape : w.m \notin w.todo /\ (w.at = "list" => w.m = "none")}

InboxTyped ==
    /\ inRow \in [Msgs -> RowStates]
    /\ manifest \in [Msgs -> BOOLEAN]
    /\ ack \in [Msgs -> {"none", "queued", "sent", "pending", "failed"}]
    /\ watch \in [Msgs -> {"none", "watching", "spent"}]
    /\ origin \in [Msgs -> {"live", "dead"}]
    /\ receipt \in [Msgs -> BOOLEAN]
    /\ relayed \subseteq Msgs
    /\ sweep \in [InboxSweeps -> SweepRecs]

(* What stands behind a row: its manifest before it advances, its receipt  *)
(* before its acknowledgement and its spent cell, the spent cell before    *)
(* the row that says so, and the end of the row before its watch.          *)
Backed(m) ==
    /\ inRow[m] \notin {"none", "discovered"} => manifest[m]
    /\ ack[m] # "none" => inRow[m] \in Received
    /\ receipt[m] => inRow[m] \in Received
    /\ origin[m] = "dead" => receipt[m]
    /\ inRow[m] = "remote_reclaimed" => origin[m] = "dead"
    /\ watch[m] # "none" => inRow[m] \in Ended

RowsAreBacked == \A m \in Msgs : Backed(m)

(* What a sweep knows: of the work it listed, and of the message it is at  *)
(* when it is at a label, having last read a state of its row.             *)
ListsWell(w) ==
    /\ w.job = "heal" => \A m \in w.todo : manifest[m] /\ w.read[m] \in Strandable
    /\ w.job = "respond" => \A m \in w.todo : ack[m] # "none"

Sees(at, m, state) ==
    /\ at \in {"chainref", "advance"} => manifest[m] /\ state \in Strandable
    /\ at \in {"notify", "ackcheck", "ackinsert", "ackref"} => inRow[m] \in Received
    /\ at = "publish" => ack[m] # "none"
    /\ at = "register" => inRow[m] \in Ended
    /\ at \in {"markspent", "moverow"} => origin[m] = "dead"

Knows(w) == ListsWell(w) /\ (w.m \in Msgs => Sees(w.at, w.m, w.read[w.m]))

SweepsKnow == \A s \in InboxSweeps : Knows(sweep[s])

InboxInv == InboxTyped /\ RowsAreBacked /\ SweepsKnow

-----------------------------------------------------------------------------
(* Where the states lie on the incoming machine.                           *)
LEMMA Stages ==
    /\ Received \subseteq RowStates /\ Ended \subseteq Received
    /\ Strandable = {"discovered", "downloading", "decrypting"}
    /\ {"none", "discovered", "downloading", "decrypting", "invalid"} \cap Received = {}
    /\ {"none", "discovered", "downloading", "decrypting"} \subseteq RowStates
BY DEF Received, RowStates, IncomingStates, Ended, Strandable

LEMMA LabelSet ==
    SweepLabels = {"list", "next", "prune", "screen", "create", "insert", "attach", "chainref",
                   "advance", "notify", "ackcheck", "ackinsert", "ackref", "publish", "read1",
                   "walk1", "read2", "walk2", "read3", "walk3", "finalize", "register", "probe",
                   "markspent", "moverow"}
BY DEF SweepLabels, IngestLabels, AdvanceLabels, RespondLabels, WatchLabels

LEMMA JobSet ==
    /\ Jobs = {"heal", "chain", "lora", "respond", "watch"}
    /\ \A job \in Jobs : JobAfter(job) \in Jobs
<1>1. Len(JobOrder) = 5 /\ JobOrder \in [1..5 -> {"heal", "chain", "lora", "respond", "watch"}]
  BY DEF JobOrder
<1>2. Jobs = {"heal", "chain", "lora", "respond", "watch"}
  BY DEF Jobs, JobOrder
<1>3. ASSUME NEW job \in Jobs
      PROVE  JobAfter(job) \in Jobs
  <2>1. PICK i \in 1..5 : JobOrder[i] = job
    BY <1>1 DEF Jobs
  <2> DEFINE j == CHOOSE k \in 1..5 : JobOrder[k] = job
  <2>2. j \in 1..5
    BY <2>1
  <2>3. JobAfter(job) = JobOrder[(j % 5) + 1]
    BY <1>1 DEF JobAfter
  <2> HIDE DEF j
  <2>4. (j % 5) + 1 \in 1..5
    BY <2>2
  <2> QED BY <1>1, <2>3, <2>4 DEF Jobs
<1> QED BY <1>2, <1>3

(* A received row stays received and an ended one ended, and the states    *)
(* after `received` are reached from a received row only.                  *)
LEMMA RowsGoOn ==
    \A from \in RowStates : \A to :
        Accepts(from, to) /\ to # "invalid" =>
          /\ from \in Received => to \in Received
          /\ from \in Ended => to \in Ended
          /\ to \in Received \ {"received"} => from \in Received
<1> SUFFICES ASSUME NEW from \in RowStates, NEW to, CanTransition(from, to), to # "invalid"
             PROVE  /\ from \in Received => to \in Received
                    /\ from \in Ended => to \in Ended
                    /\ to \in Received \ {"received"} => from \in Received
  BY DEF Accepts
<1>1. PICK i \in 1..8 : IncomingSpine[i] = from /\ IncomingSpine[i + 1] = to
  BY IncomingMoves DEF RowStates
<1>2. /\ \A j \in 1..3 : IncomingSpine[j] \notin Received
      /\ IncomingSpine[4] = "received" /\ \A j \in 4..9 : IncomingSpine[j] \in Received
      /\ \A j \in 1..7 : IncomingSpine[j] \notin Ended
      /\ IncomingSpine[8] \in Ended /\ IncomingSpine[9] \in Ended
  BY DEF IncomingSpine, Received, Ended
<1>3. i \in 1..2 \/ i = 3 \/ i \in 4..7 \/ i = 8
  OBVIOUS
<1> QED BY <1>1, <1>2, <1>3

-----------------------------------------------------------------------------
(* What a step may do to what the sweeps know: nothing of it is undone.    *)
Keeps ==
    \A m \in Msgs :
        /\ manifest[m] => manifest'[m]
        /\ ack[m] # "none" => ack'[m] # "none"
        /\ inRow[m] \in Received => inRow'[m] \in Received
        /\ inRow[m] \in Ended => inRow'[m] \in Ended
        /\ origin[m] = "dead" => origin'[m] = "dead"

(* The knowledge of a sweep in the next state.                             *)
ListsWellNext(w) ==
    /\ w.job = "heal" => \A m \in w.todo : manifest'[m] /\ w.read[m] \in Strandable
    /\ w.job = "respond" => \A m \in w.todo : ack'[m] # "none"

SeesNext(at, m, state) ==
    /\ at \in {"chainref", "advance"} => manifest'[m] /\ state \in Strandable
    /\ at \in {"notify", "ackcheck", "ackinsert", "ackref"} => inRow'[m] \in Received
    /\ at = "publish" => ack'[m] # "none"
    /\ at = "register" => inRow'[m] \in Ended
    /\ at \in {"markspent", "moverow"} => origin'[m] = "dead"

LEMMA KnowledgeStays ==
    ASSUME Keeps, NEW w \in SweepRecs, Knows(w)
    PROVE  ListsWellNext(w) /\ (w.m \in Msgs => SeesNext(w.at, w.m, w.read[w.m]))
<1>1. w.todo \subseteq Msgs
  BY DEF SweepRecs, SweepShape
<1> QED BY <1>1 DEF Keeps, Knows, ListsWell, Sees, ListsWellNext, SeesNext

(* A sweep that moves on must know what its next label asks for.           *)
LEMMA MoveKnows ==
    ASSUME InboxInv, Keeps, NEW s \in InboxSweeps, NEW new \in SweepRecs,
           sweep' = [sweep EXCEPT ![s] = new],
           ListsWellNext(new), new.m \in Msgs => SeesNext(new.at, new.m, new.read[new.m])
    PROVE  sweep' \in [InboxSweeps -> SweepRecs] /\ SweepsKnow'
<1>1. sweep' \in [InboxSweeps -> SweepRecs]
  BY DEF InboxInv, InboxTyped
<1>2. \A t \in InboxSweeps :
        ListsWellNext(sweep'[t])
          /\ (sweep'[t].m \in Msgs => SeesNext(sweep'[t].at, sweep'[t].m, sweep'[t].read[sweep'[t].m]))
  <2> TAKE t \in InboxSweeps
  <2>1. CASE t = s
    BY <2>1 DEF InboxInv, InboxTyped
  <2>2. CASE t # s
    <3>1. sweep'[t] = sweep[t] /\ sweep[t] \in SweepRecs /\ Knows(sweep[t])
      BY <2>2 DEF InboxInv, InboxTyped, SweepsKnow
    <3> QED BY <3>1, KnowledgeStays
  <2> QED BY <2>1, <2>2
<1> QED BY <1>1, <1>2 DEF SweepsKnow, Knows, ListsWell, Sees, ListsWellNext, SeesNext

LEMMA GotoKnows ==
    ASSUME InboxInv, Keeps, NEW s \in InboxSweeps, NEW at \in SweepLabels \ {"list"}, SweepGoto(s, at),
           sweep[s].m \in Msgs => SeesNext(at, sweep[s].m, sweep[s].read[sweep[s].m])
    PROVE  sweep' \in [InboxSweeps -> SweepRecs] /\ SweepsKnow'
<1> DEFINE new == [sweep[s] EXCEPT !.at = at]
<1>1. sweep[s] \in SweepRecs /\ Knows(sweep[s])
  BY DEF InboxInv, InboxTyped, SweepsKnow
<1>2. sweep' = [sweep EXCEPT ![s] = new]
  BY DEF SweepGoto
<1>3. /\ new \in SweepRecs /\ new.at = at /\ new.m = sweep[s].m /\ new.read = sweep[s].read
      /\ new.job = sweep[s].job /\ new.todo = sweep[s].todo
  BY <1>1 DEF SweepRecs, SweepShape
<1>4. ListsWellNext(sweep[s])
  BY <1>1, KnowledgeStays
<1> HIDE DEF new
<1>5. ListsWellNext(new)
  BY <1>3, <1>4 DEF ListsWellNext
<1> QED BY <1>2, <1>3, <1>5, MoveKnows

(* At these labels a sweep knows nothing in particular.                    *)
PlainStops == {"next", "prune", "screen", "create", "insert", "attach", "read1", "walk1",
          "read2", "walk2", "read3", "walk3", "finalize", "probe"}

LEMMA PlainKnows ==
    ASSUME InboxInv, Keeps, NEW s \in InboxSweeps, NEW at \in PlainStops, SweepGoto(s, at)
    PROVE  sweep' \in [InboxSweeps -> SweepRecs] /\ SweepsKnow'
<1>1. at \in SweepLabels \ {"list"}
  BY LabelSet DEF PlainStops
<1> QED BY <1>1, GotoKnows DEF PlainStops, SeesNext

LEMMA EndKnows ==
    ASSUME InboxInv, Keeps, NEW s \in InboxSweeps, EndJob(s)
    PROVE  sweep' \in [InboxSweeps -> SweepRecs] /\ SweepsKnow'
<1> DEFINE new == [IdleSweep EXCEPT !.job = JobAfter(sweep[s].job)]
<1>1. JobAfter(sweep[s].job) \in Jobs
  BY JobSet DEF InboxInv, InboxTyped, SweepRecs, SweepShape
<1>2. /\ new \in SweepRecs /\ new.todo = {} /\ new.at = "list"
  BY <1>1, LabelSet, Stages DEF IdleSweep, SweepRecs, SweepShape
<1>3. sweep' = [sweep EXCEPT ![s] = new]
  BY DEF EndJob
<1> HIDE DEF new
<1>4. ListsWellNext(new) /\ (new.m \in Msgs => SeesNext(new.at, new.m, new.read[new.m]))
  BY <1>2 DEF ListsWellNext, SeesNext
<1> QED BY <1>2, <1>3, <1>4, MoveKnows

LEMMA ThrowKnows ==
    ASSUME InboxInv, Keeps, NEW s \in InboxSweeps, Throw(s)
    PROVE  sweep' \in [InboxSweeps -> SweepRecs] /\ SweepsKnow'
BY EndKnows, PlainKnows DEF Throw, NextItem, PlainStops

-----------------------------------------------------------------------------
(* What a step may do to the rows.                                         *)

LEMMA NothingMoves ==
    ASSUME InboxInv, UNCHANGED <<inRow, manifest, ack, watch, origin, receipt>>
    PROVE  Keeps /\ RowsAreBacked'
BY DEF InboxInv, Keeps, RowsAreBacked, Backed

(* A row moves as the state machine allows, its manifest and, for the last *)
(* state, its spent cell behind it.                                        *)
LEMMA RowMoves ==
    ASSUME InboxInv, NEW m \in Msgs, NEW to \in RowStates \ {"invalid"}, SetRow(m, to),
           UNCHANGED <<manifest, ack, watch, origin, receipt>>,
           Accepts(inRow[m], to) \/ (inRow[m] = "none" /\ to = "discovered"),
           to \notin {"none", "discovered"} => manifest[m],
           to = "remote_reclaimed" => origin[m] = "dead"
    PROVE  Keeps /\ RowsAreBacked' /\ inRow' \in [Msgs -> RowStates] /\ inRow'[m] = to
<1>1. /\ inRow' \in [Msgs -> RowStates] /\ inRow'[m] = to
      /\ \A n \in Msgs : n # m => inRow'[n] = inRow[n]
  BY DEF SetRow, InboxInv, InboxTyped
<1>2. (inRow[m] \in Received => to \in Received) /\ (inRow[m] \in Ended => to \in Ended)
  BY RowsGoOn, Stages DEF InboxInv, InboxTyped
<1>3. Keeps
  BY <1>1, <1>2 DEF Keeps
<1>4. \A n \in Msgs : n # m => Backed(n)'
  BY <1>1 DEF InboxInv, RowsAreBacked, Backed
<1>5. Backed(m)'
  BY <1>1, <1>2 DEF InboxInv, RowsAreBacked, Backed
<1> QED BY <1>1, <1>3, <1>4, <1>5 DEF RowsAreBacked

LEMMA ManifestStored ==
    ASSUME InboxInv, NEW m \in Msgs, manifest' = [manifest EXCEPT ![m] = TRUE],
           UNCHANGED <<inRow, ack, watch, origin, receipt>>
    PROVE  Keeps /\ RowsAreBacked' /\ manifest' \in [Msgs -> BOOLEAN] /\ manifest'[m]
<1>1. /\ manifest' \in [Msgs -> BOOLEAN] /\ manifest'[m]
      /\ \A n \in Msgs : manifest[n] => manifest'[n]
  BY DEF InboxInv, InboxTyped
<1> QED BY <1>1 DEF InboxInv, Keeps, RowsAreBacked, Backed

(* An acknowledgement goes on only for a received message.                 *)
LEMMA AckMoves ==
    ASSUME InboxInv, NEW m \in Msgs, inRow[m] \in Received,
           NEW to \in {"queued", "sent", "pending", "failed"}, ack' = [ack EXCEPT ![m] = to],
           receipt' = [receipt EXCEPT ![m] = TRUE] \/ UNCHANGED receipt,
           UNCHANGED <<inRow, manifest, watch, origin>>
    PROVE  /\ Keeps /\ RowsAreBacked' /\ ack'[m] = to
           /\ ack' \in [Msgs -> {"none", "queued", "sent", "pending", "failed"}]
           /\ receipt' \in [Msgs -> BOOLEAN]
<1>1. /\ ack' \in [Msgs -> {"none", "queued", "sent", "pending", "failed"}] /\ ack'[m] = to
      /\ receipt' \in [Msgs -> BOOLEAN]
      /\ \A n \in Msgs : n # m => ack'[n] = ack[n] /\ receipt'[n] = receipt[n]
      /\ receipt[m] => receipt'[m]
  BY DEF InboxInv, InboxTyped
<1>2. Keeps
  BY <1>1 DEF Keeps
<1>3. \A n \in Msgs : Backed(n)'
  BY <1>1 DEF InboxInv, RowsAreBacked, Backed
<1> QED BY <1>1, <1>2, <1>3 DEF RowsAreBacked

(* A watch comes and goes; it comes only behind an ended row.              *)
LEMMA WatchMoves ==
    ASSUME InboxInv, watch' \in [Msgs -> {"none", "watching", "spent"}],
           \A m \in Msgs : watch'[m] # "none" => watch[m] # "none" \/ inRow[m] \in Ended,
           UNCHANGED <<inRow, manifest, ack, origin, receipt>>
    PROVE  Keeps /\ RowsAreBacked'
BY DEF InboxInv, Keeps, RowsAreBacked, Backed

-----------------------------------------------------------------------------
(* The jobs.                                                               *)
LEMMA ListKeeps ==
    ASSUME InboxInv, NEW s \in InboxSweeps, List(s)
    PROVE  InboxInv'
<1>1. Keeps /\ RowsAreBacked'
  BY NothingMoves DEF List, inboxRows, outside
<1>2. sweep' \in [InboxSweeps -> SweepRecs] /\ SweepsKnow'
  <2>1. CASE EndJob(s)
    BY <1>1, <2>1, EndKnows
  <2>2. CASE ~EndJob(s)
    <3> DEFINE work == Work(sweep[s].job)
               new == [sweep[s] EXCEPT !.at = "next", !.todo = work, !.read = inRow]
    <3>1. sweep[s] \in SweepRecs /\ sweep[s].job \in Jobs /\ sweep[s].m = "none"
      BY DEF List, InboxInv, InboxTyped, SweepRecs, SweepShape
    <3>2. /\ work \subseteq Msgs
          /\ sweep[s].job = "heal" => work = InterruptedRows
          /\ sweep[s].job = "respond" => work = QueuedResponses
      BY <3>1, JobSet
         DEF Work, InterruptedRows, TaggedCells, QueuedResponses, ActiveWatches, InboxInv, InboxTyped
    <3>3. sweep' = [sweep EXCEPT ![s] = new]
      BY <2>2 DEF List, Gather
    <3> HIDE DEF work
    <3>4. /\ new \in SweepRecs /\ new.at = "next" /\ new.todo = work /\ new.read = inRow
          /\ new.job = sweep[s].job
      BY <3>1, <3>2, LabelSet DEF SweepRecs, SweepShape, InboxInv, InboxTyped
    <3> HIDE DEF new
    <3>5. ListsWellNext(new)
      <4>1. UNCHANGED <<manifest, ack>>
        BY DEF List, inboxRows
      <4>2. \A m \in InterruptedRows : manifest[m] /\ inRow[m] \in Strandable
        BY Stages DEF InterruptedRows, InboxInv, RowsAreBacked, Backed
      <4>3. \A m \in QueuedResponses : ack[m] # "none"
        BY DEF QueuedResponses
      <4> QED BY <3>2, <3>4, <4>1, <4>2, <4>3 DEF ListsWellNext
    <3>6. new.m \in Msgs => SeesNext(new.at, new.m, new.read[new.m])
      BY <3>4 DEF SeesNext
    <3> QED BY <1>1, <3>3, <3>4, <3>5, <3>6, MoveKnows
  <2> QED BY <2>1, <2>2
<1> QED BY <1>1, <1>2 DEF InboxInv, InboxTyped, List, inboxRows, outside

LEMMA TakeKeeps ==
    ASSUME InboxInv, NEW s \in InboxSweeps, TakeItem(s)
    PROVE  InboxInv'
<1>1. Keeps /\ RowsAreBacked'
  BY NothingMoves DEF TakeItem, inboxRows, outside
<1>2. sweep[s] \in SweepRecs /\ Knows(sweep[s])
  BY DEF InboxInv, InboxTyped, SweepsKnow
<1>3. PICK m \in sweep[s].todo :
        sweep' = [sweep EXCEPT ![s].todo = @ \ {m}, ![s].m = m,
                     ![s].at = IF sweep[s].job = "respond" /\ ~replyTo[m]
                               THEN "next" ELSE FirstLabel(sweep[s].job)]
  BY DEF TakeItem
<1> DEFINE at == IF sweep[s].job = "respond" /\ ~replyTo[m]
                 THEN "next" ELSE FirstLabel(sweep[s].job)
           new == [sweep[s] EXCEPT !.todo = @ \ {m}, !.m = m, !.at = at]
<1>4. m \in Msgs
  BY <1>2 DEF SweepRecs, SweepShape
<1>5. /\ at \in {"next", "advance", "publish", "probe", "screen"}
      /\ at = "advance" => sweep[s].job = "heal"
      /\ at = "publish" => sweep[s].job = "respond"
  <2>1. sweep[s].job \in Jobs
    BY <1>2 DEF SweepRecs, SweepShape
  <2> QED BY <2>1, JobSet DEF FirstLabel
<1>6. sweep' = [sweep EXCEPT ![s] = new]
  BY <1>3
<1> HIDE DEF at
<1>7. /\ new \in SweepRecs /\ new.at = at /\ new.m = m /\ new.read = sweep[s].read
      /\ new.job = sweep[s].job /\ new.todo = sweep[s].todo \ {m}
  BY <1>2, <1>4, <1>5, LabelSet DEF SweepRecs, SweepShape
<1> HIDE DEF new
<1>8. ListsWellNext(sweep[s])
  BY <1>1, <1>2, KnowledgeStays
<1>9. ListsWellNext(new) /\ SeesNext(at, m, sweep[s].read[m])
  BY <1>5, <1>7, <1>8 DEF ListsWellNext, SeesNext
<1>10. sweep' \in [InboxSweeps -> SweepRecs] /\ SweepsKnow'
  BY <1>1, <1>6, <1>7, <1>9, MoveKnows
<1> QED BY <1>1, <1>10 DEF InboxInv, InboxTyped, TakeItem, inboxRows, outside

LEMMA FinishKeeps ==
    ASSUME InboxInv, NEW s \in InboxSweeps, FinishJob(s)
    PROVE  InboxInv'
<1>1. Keeps /\ RowsAreBacked'
  BY NothingMoves DEF FinishJob, inboxRows
<1>2. sweep' \in [InboxSweeps -> SweepRecs] /\ SweepsKnow'
  BY <1>1, EndKnows, PlainKnows DEF FinishJob, PlainStops
<1>3. relayed' \subseteq Msgs
  BY DEF FinishJob, InboxInv, InboxTyped
<1> QED BY <1>1, <1>2, <1>3 DEF InboxInv, InboxTyped, FinishJob, inboxRows

LEMMA PruneKeeps ==
    ASSUME InboxInv, NEW s \in InboxSweeps, Prune(s)
    PROVE  InboxInv'
<1>1. watch' \in [Msgs -> {"none", "watching", "spent"}]
      /\ \A m \in Msgs : watch'[m] # "none" => watch[m] # "none"
  BY DEF Prune, InboxInv, InboxTyped
<1>2. Keeps /\ RowsAreBacked'
  BY <1>1, WatchMoves DEF Prune, outside
<1>3. sweep' \in [InboxSweeps -> SweepRecs] /\ SweepsKnow'
  BY <1>2, EndKnows DEF Prune
<1> QED BY <1>1, <1>2, <1>3 DEF InboxInv, InboxTyped, Prune, outside

-----------------------------------------------------------------------------
(* The steps of one item, m, which a sweep is at.                          *)

(* An item step that leaves all but the sweep as it was.                   *)
LEMMA LookKeeps ==
    ASSUME InboxInv, UNCHANGED <<inboxRows, outside>>, sweep' \in [InboxSweeps -> SweepRecs],
           SweepsKnow'
    PROVE  InboxInv'
BY NothingMoves DEF InboxInv, InboxTyped, inboxRows, outside

(* What a sweep knows of the item it is at.                                *)
LEMMA AtItem ==
    ASSUME InboxInv, NEW s \in InboxSweeps, NEW m \in Msgs, sweep[s].m = m
    PROVE  /\ sweep[s] \in SweepRecs /\ sweep[s].read[m] \in RowStates
           /\ Sees(sweep[s].at, m, sweep[s].read[m])
           /\ Backed(m) /\ inRow[m] \in RowStates
<1>1. sweep[s] \in SweepRecs /\ Knows(sweep[s])
  BY DEF InboxInv, InboxTyped, SweepsKnow
<1>2. sweep[s].read[m] \in RowStates
  BY <1>1 DEF SweepRecs, SweepShape
<1>3. Sees(sweep[s].at, m, sweep[s].read[m])
  BY <1>1 DEF Knows
<1> QED BY <1>1, <1>2, <1>3 DEF InboxInv, InboxTyped, RowsAreBacked

(* What a sweep reads of its own item says nothing of those to do.         *)
LEMMA ReadElsewhere ==
    ASSUME InboxInv, Keeps, NEW s \in InboxSweeps, NEW new \in SweepRecs,
           new.job = sweep[s].job, new.todo = sweep[s].todo,
           \A n \in new.todo : new.read[n] = sweep[s].read[n]
    PROVE  ListsWellNext(new)
<1>1. sweep[s] \in SweepRecs /\ Knows(sweep[s])
  BY DEF InboxInv, InboxTyped, SweepsKnow
<1>2. ListsWellNext(sweep[s])
  BY <1>1, KnowledgeStays
<1> QED BY <1>2 DEF ListsWellNext

LEMMA IngestKeeps ==
    ASSUME InboxInv, NEW s \in InboxSweeps, NEW m \in Msgs, sweep[s].m = m, Ingest(s, m),
           UNCHANGED <<outside, inboxCrashes>>
    PROVE  InboxInv'
<1>1. /\ sweep[s] \in SweepRecs /\ sweep[s].read[m] \in RowStates
      /\ Sees(sweep[s].at, m, sweep[s].read[m])
      /\ Backed(m) /\ inRow[m] \in RowStates
  BY AtItem
<1>2. CASE Screen(s, m)
  <2>1. Keeps
    BY <1>2, NothingMoves DEF Screen, inboxRows, outside
  <2>2. sweep' \in [InboxSweeps -> SweepRecs] /\ SweepsKnow'
    BY <1>2, <2>1, PlainKnows DEF Screen, NextItem, PlainStops
  <2> QED BY <1>2, <2>2, LookKeeps DEF Screen
<1>3. CASE CreateContact(s, m)
  <2>1. Keeps /\ RowsAreBacked'
    BY <1>3, NothingMoves DEF CreateContact, outside
  <2>2. sweep' \in [InboxSweeps -> SweepRecs] /\ SweepsKnow'
    BY <1>3, <2>1, PlainKnows, ThrowKnows DEF CreateContact, PlainStops
  <2> QED BY <1>3, <2>1, <2>2 DEF CreateContact, outside, InboxInv, InboxTyped
<1>4. CASE Insert(s, m)
  <2> DEFINE state == IF inRow[m] = "none" THEN "discovered" ELSE inRow[m]
             new == [sweep[s] EXCEPT !.read = [@ EXCEPT ![m] = state], !.at = "attach"]
  <2>1. state \in RowStates
    BY <1>1, Stages
  <2>2. Keeps /\ RowsAreBacked' /\ inRow' \in [Msgs -> RowStates]
    <3>1. CASE inRow[m] = "none"
      <4>1. SetRow(m, "discovered")
        BY <1>4, <3>1 DEF Insert
      <4>2. "discovered" \in RowStates \ {"invalid"}
        BY Stages
      <4> QED BY <1>4, <3>1, <4>1, <4>2, RowMoves DEF Insert, outside
    <3>2. CASE inRow[m] # "none"
      <4>1. UNCHANGED inRow
        BY <1>4, <3>2 DEF Insert, SetRow, InboxInv, InboxTyped
      <4> QED BY <1>4, <4>1, NothingMoves DEF Insert, outside, InboxInv, InboxTyped
    <3> QED BY <3>1, <3>2
  <2>3. sweep' = [sweep EXCEPT ![s] = new]
    BY <1>4 DEF Insert
  <2>4. sweep[s].at = "insert" /\ UNCHANGED <<source, manifest, ack, replyTo, watch, outside>>
    BY <1>4 DEF Insert
  <2> HIDE DEF state
  <2>5. /\ new \in SweepRecs /\ new.at = "attach" /\ new.m = m
        /\ new.job = sweep[s].job /\ new.todo = sweep[s].todo /\ m \notin new.todo
        /\ \A n \in Msgs : n # m => new.read[n] = sweep[s].read[n]
    BY <1>1, <2>1, <2>4, LabelSet DEF SweepRecs, SweepShape
  <2> HIDE DEF new
  <2>6. ListsWellNext(new) /\ SeesNext("attach", m, new.read[m])
    BY <2>2, <2>5, ReadElsewhere DEF SeesNext, SweepRecs, SweepShape
  <2>7. sweep' \in [InboxSweeps -> SweepRecs] /\ SweepsKnow'
    BY <2>2, <2>3, <2>5, <2>6, MoveKnows
  <2> QED BY <2>2, <2>4, <2>7 DEF outside, InboxInv, InboxTyped
<1>5. CASE Attach(s, m)
  <2>1. Keeps /\ RowsAreBacked' /\ manifest' \in [Msgs -> BOOLEAN] /\ manifest'[m]
    BY <1>5, ManifestStored DEF Attach, outside
  <2>2. SeesNext(AfterAttach(s, m), m, sweep[s].read[m])
    BY <2>1 DEF AfterAttach, SeesNext
  <2>3. AfterAttach(s, m) \in SweepLabels \ {"list"}
    BY LabelSet DEF AfterAttach
  <2>4. sweep' \in [InboxSweeps -> SweepRecs] /\ SweepsKnow'
    BY <1>5, <2>1, <2>2, <2>3, GotoKnows DEF Attach
  <2> QED BY <1>5, <2>1, <2>4 DEF Attach, outside, InboxInv, InboxTyped
<1>6. CASE RecordSource(s, m)
  <2>1. Keeps /\ RowsAreBacked'
    BY <1>6, NothingMoves DEF RecordSource, outside
  <2>2. SeesNext("advance", m, sweep[s].read[m])
    BY <1>1, <1>6 DEF RecordSource, Sees, SeesNext
  <2>3. "advance" \in SweepLabels \ {"list"}
    BY LabelSet
  <2>4. sweep' \in [InboxSweeps -> SweepRecs] /\ SweepsKnow'
    BY <1>6, <2>1, <2>2, <2>3, GotoKnows DEF RecordSource
  <2> QED BY <1>6, <2>1, <2>4 DEF RecordSource, outside, InboxInv, InboxTyped
<1> QED BY <1>2, <1>3, <1>4, <1>5, <1>6 DEF Ingest

LEMMA AdvanceTargets ==
    /\ AdvanceTarget("discovered") = "downloading"
    /\ AdvanceTarget("downloading") = "decrypting"
    /\ AdvanceTarget("decrypting") = "received"
<1> DEFINE At(state) == CHOOSE j \in 1..Len(AdvanceOrder) : AdvanceOrder[j] = state
<1>1. /\ Len(AdvanceOrder) = 4
      /\ AdvanceOrder[1] = "discovered" /\ AdvanceOrder[2] = "downloading"
      /\ AdvanceOrder[3] = "decrypting" /\ AdvanceOrder[4] = "received"
  BY DEF AdvanceOrder
<1>2. At("discovered") = 1
  BY <1>1
<1>3. At("downloading") = 2
  BY <1>1
<1>4. At("decrypting") = 3
  BY <1>1
<1> QED BY <1>1, <1>2, <1>3, <1>4 DEF AdvanceTarget

LEMMA AdvanceKeeps ==
    ASSUME InboxInv, NEW s \in InboxSweeps, NEW m \in Msgs, sweep[s].m = m,
           AdvanceToReceived(s, m), UNCHANGED <<outside, inboxCrashes>>
    PROVE  InboxInv'
<1>1. /\ sweep[s] \in SweepRecs /\ sweep[s].read[m] \in RowStates
      /\ Sees(sweep[s].at, m, sweep[s].read[m])
      /\ Backed(m) /\ inRow[m] \in RowStates
  BY AtItem
<1>2. CASE Advance(s, m)
  <2> DEFINE to == AdvanceTarget(sweep[s].read[m])
             at == IF to = "received" THEN "notify" ELSE "advance"
             new == [sweep[s] EXCEPT !.read = [@ EXCEPT ![m] = to], !.at = at]
  <2>1. manifest[m] /\ sweep[s].read[m] \in Strandable
    BY <1>1, <1>2 DEF Advance, Sees
  <2>2. to \in {"downloading", "decrypting", "received"}
    BY <2>1, AdvanceTargets, Stages
  <2>3. UNCHANGED <<source, manifest, ack, replyTo, watch, outside>> /\ sweep[s].at = "advance"
    BY <1>2 DEF Advance
  <2>4. CASE Accepts(inRow[m], to)
    <3>1. SetRow(m, to) /\ sweep' = [sweep EXCEPT ![s] = new]
      BY <1>2, <2>4 DEF Advance
    <3> HIDE DEF to
    <3>2. to \in RowStates \ {"invalid"} /\ to \notin {"none", "discovered", "remote_reclaimed"}
      BY <2>2 DEF RowStates, IncomingStates
    <3>3. Keeps /\ RowsAreBacked' /\ inRow' \in [Msgs -> RowStates] /\ inRow'[m] = to
      BY <2>1, <2>3, <2>4, <3>1, <3>2, RowMoves DEF outside
    <3>4. at \in SweepLabels \ {"list"}
      BY LabelSet
    <3>5. /\ new \in SweepRecs /\ new.at = at /\ new.m = m
          /\ new.job = sweep[s].job /\ new.todo = sweep[s].todo /\ m \notin new.todo
          /\ \A n \in Msgs : n # m => new.read[n] = sweep[s].read[n]
          /\ new.read[m] = to
      BY <1>1, <3>2, <3>4 DEF SweepRecs, SweepShape
    <3>6. at = "notify" => to = "received"
      OBVIOUS
    <3>7. at \in {"notify", "advance"}
      OBVIOUS
    <3>8. at = "advance" => to \in {"downloading", "decrypting"}
      BY <2>2
    <3> HIDE DEF new, at
    <3>9. ListsWellNext(new)
      BY <3>3, <3>5, ReadElsewhere DEF SweepRecs, SweepShape
    <3>10. SeesNext(at, m, to)
      BY <2>1, <2>3, <3>3, <3>6, <3>7, <3>8, Stages DEF SeesNext, Received
    <3>11. sweep' \in [InboxSweeps -> SweepRecs] /\ SweepsKnow'
      BY <3>1, <3>3, <3>5, <3>9, <3>10, MoveKnows
    <3> QED BY <2>3, <3>3, <3>11 DEF outside, InboxInv, InboxTyped
  <2>5. CASE ~Accepts(inRow[m], to)
    <3>1. UNCHANGED inRow /\ Throw(s)
      BY <1>2, <2>5 DEF Advance
    <3>2. Keeps /\ RowsAreBacked'
      BY <2>3, <3>1, NothingMoves DEF outside
    <3>3. sweep' \in [InboxSweeps -> SweepRecs] /\ SweepsKnow'
      BY <3>1, <3>2, ThrowKnows
    <3> QED BY <2>3, <3>1, <3>2, <3>3 DEF outside, InboxInv, InboxTyped
  <2> QED BY <2>4, <2>5
<1>3. CASE Notify(s, m)
  <2>1. Keeps /\ UNCHANGED inboxRows /\ inRow[m] \in Received
    BY <1>1, <1>3, NothingMoves DEF Notify, Sees, inboxRows, outside
  <2>2. SeesNext("ackcheck", m, sweep[s].read[m]) /\ SeesNext("next", m, sweep[s].read[m])
    BY <2>1 DEF SeesNext, inboxRows
  <2>3. {"ackcheck", "next"} \subseteq SweepLabels \ {"list"}
    BY LabelSet
  <2>4. sweep' \in [InboxSweeps -> SweepRecs] /\ SweepsKnow'
    BY <1>3, <2>1, <2>2, <2>3, GotoKnows, ThrowKnows DEF Notify
  <2> QED BY <2>1, <2>4, LookKeeps
<1>4. CASE CheckAck(s, m)
  <2>1. Keeps /\ UNCHANGED inboxRows /\ inRow[m] \in Received
    BY <1>1, <1>4, NothingMoves DEF CheckAck, Sees, inboxRows, outside
  <2>2. SeesNext("ackinsert", m, sweep[s].read[m]) /\ SeesNext("next", m, sweep[s].read[m])
    BY <2>1 DEF SeesNext, inboxRows
  <2>3. {"ackinsert", "next"} \subseteq SweepLabels \ {"list"}
    BY LabelSet
  <2>4. sweep' \in [InboxSweeps -> SweepRecs] /\ SweepsKnow'
    BY <1>4, <2>1, <2>2, <2>3, GotoKnows DEF CheckAck
  <2> QED BY <2>1, <2>4, LookKeeps
<1>5. CASE InsertAck(s, m)
  <2> DEFINE to == IF ack[m] = "none" THEN "queued" ELSE ack[m]
  <2>1. inRow[m] \in Received
    BY <1>1, <1>5 DEF InsertAck, Sees
  <2>2. to \in {"queued", "sent", "pending", "failed"} /\ ack' = [ack EXCEPT ![m] = to]
    BY <1>5 DEF InsertAck, InboxInv, InboxTyped
  <2> HIDE DEF to
  <2>3. /\ Keeps /\ RowsAreBacked'
        /\ ack' \in [Msgs -> {"none", "queued", "sent", "pending", "failed"}]
    BY <1>5, <2>1, <2>2, AckMoves DEF InsertAck, outside
  <2>4. SeesNext("ackref", m, sweep[s].read[m])
    BY <1>5, <2>1 DEF SeesNext, InsertAck
  <2>5. "ackref" \in SweepLabels \ {"list"}
    BY LabelSet
  <2>6. sweep' \in [InboxSweeps -> SweepRecs] /\ SweepsKnow'
    BY <1>5, <2>3, <2>4, <2>5, GotoKnows DEF InsertAck
  <2> QED BY <1>5, <2>3, <2>6 DEF InsertAck, outside, InboxInv, InboxTyped
<1>6. CASE AddressAck(s, m)
  <2>1. Keeps /\ RowsAreBacked'
    BY <1>6, NothingMoves DEF AddressAck, outside
  <2>2. sweep' \in [InboxSweeps -> SweepRecs] /\ SweepsKnow'
    BY <1>6, <2>1, PlainKnows DEF AddressAck, NextItem, PlainStops
  <2> QED BY <1>6, <2>1, <2>2 DEF AddressAck, outside, InboxInv, InboxTyped
<1> QED BY <1>2, <1>3, <1>4, <1>5, <1>6 DEF AdvanceToReceived

LEMMA PublishKeeps ==
    ASSUME InboxInv, NEW s \in InboxSweeps, NEW m \in Msgs, sweep[s].m = m, Publish(s, m),
           UNCHANGED <<origin, relayed, window, inboxCrashes>>
    PROVE  InboxInv'
<1>1. Sees(sweep[s].at, m, sweep[s].read[m]) /\ Backed(m)
  BY AtItem
<1>2. inRow[m] \in Received
  BY <1>1 DEF Publish, Sees, Backed
<1>3. PICK to \in {"sent", "failed", "pending"} :
        /\ ack' = [ack EXCEPT ![m] = to]
        /\ receipt' = [receipt EXCEPT ![m] = TRUE] \/ UNCHANGED receipt
  BY DEF Publish
<1>4. /\ Keeps /\ RowsAreBacked' /\ receipt' \in [Msgs -> BOOLEAN]
      /\ ack' \in [Msgs -> {"none", "queued", "sent", "pending", "failed"}]
  BY <1>2, <1>3, AckMoves DEF Publish
<1>5. sweep' \in [InboxSweeps -> SweepRecs] /\ SweepsKnow'
  BY <1>4, PlainKnows, ThrowKnows DEF Publish, PlainStops
<1> QED BY <1>4, <1>5 DEF Publish, InboxInv, InboxTyped

LEMMA RespondKeeps ==
    ASSUME InboxInv, NEW s \in InboxSweeps, NEW m \in Msgs, sweep[s].m = m, Respond(s, m),
           UNCHANGED <<outside, inboxCrashes>>
    PROVE  InboxInv'
<1>1. /\ Sees(sweep[s].at, m, sweep[s].read[m])
      /\ Backed(m) /\ inRow[m] \in RowStates
  BY AtItem
<1>2. /\ \A i \in 1..3 : WalkLabels[i] \in PlainStops /\ AfterWalk(i) \in PlainStops
      /\ \A i \in 1..3 : WalkStates[i] \in Received \ {"received", "remote_reclaimed"}
  BY DEF WalkLabels, ReadLabels, AfterWalk, PlainStops, WalkStates, Received
<1>3. CASE WalkRead(s, m)
  <2>1. Keeps /\ UNCHANGED inboxRows
    BY <1>3, NothingMoves DEF WalkRead, inboxRows, outside
  <2>2. sweep' \in [InboxSweeps -> SweepRecs] /\ SweepsKnow'
    BY <1>2, <1>3, <2>1, PlainKnows DEF WalkRead
  <2> QED BY <2>1, <2>2, LookKeeps
<1>4. ASSUME NEW to \in Received \ {"received", "remote_reclaimed"}, SetRow(m, to),
             Accepts(inRow[m], to), UNCHANGED <<source, manifest, ack, replyTo, watch, contact>>
      PROVE  Keeps /\ RowsAreBacked' /\ inRow' \in [Msgs -> RowStates] /\ inRow'[m] = to
  <2>1. to \in RowStates \ {"invalid"} /\ to \notin {"none", "discovered"}
    BY Stages
  <2>2. inRow[m] \in Received
    BY <1>1, <1>4, <2>1, RowsGoOn
  <2>3. manifest[m]
    BY <1>1, <2>2, Stages DEF Backed
  <2> QED BY <1>4, <2>1, <2>3, RowMoves DEF outside
<1>5. ASSUME UNCHANGED inRow, Throw(s),
             UNCHANGED <<source, manifest, ack, replyTo, watch, contact>>
      PROVE  InboxInv'
  <2>1. Keeps /\ UNCHANGED inboxRows
    BY <1>5, NothingMoves DEF inboxRows, outside
  <2> QED BY <1>5, <2>1, ThrowKnows, LookKeeps
<1>6. CASE WalkTransition(s, m)
  <2>1. PICK i \in 1..3 :
          IF Accepts(inRow[m], WalkStates[i])
          THEN SetRow(m, WalkStates[i]) /\ SweepGoto(s, AfterWalk(i))
          ELSE UNCHANGED inRow /\ Throw(s)
    BY <1>6 DEF WalkTransition
  <2>2. UNCHANGED <<source, manifest, ack, replyTo, watch, contact>>
    BY <1>6 DEF WalkTransition
  <2>3. CASE Accepts(inRow[m], WalkStates[i])
    <3>1. Keeps /\ RowsAreBacked' /\ inRow' \in [Msgs -> RowStates]
      BY <1>2, <1>4, <2>1, <2>2, <2>3
    <3>2. sweep' \in [InboxSweeps -> SweepRecs] /\ SweepsKnow'
      BY <1>2, <2>1, <2>3, <3>1, PlainKnows
    <3> QED BY <2>2, <3>1, <3>2 DEF outside, InboxInv, InboxTyped
  <2> QED BY <1>5, <2>1, <2>2, <2>3
<1>7. CASE Finalize(s, m)
  <2>1. UNCHANGED <<source, manifest, ack, replyTo, watch, contact>>
    BY <1>7 DEF Finalize
  <2>2. CASE Accepts(inRow[m], "awaiting_remote_reclaim")
    <3>1. SetRow(m, "awaiting_remote_reclaim") /\ SweepGoto(s, "register")
      BY <1>7, <2>2 DEF Finalize
    <3>2. /\ Keeps /\ RowsAreBacked' /\ inRow' \in [Msgs -> RowStates]
          /\ inRow'[m] = "awaiting_remote_reclaim"
      BY <1>4, <2>1, <2>2, <3>1 DEF Received
    <3>3. SeesNext("register", m, sweep[s].read[m])
      BY <3>2 DEF SeesNext, Ended
    <3>4. "register" \in SweepLabels \ {"list"}
      BY LabelSet
    <3>5. sweep' \in [InboxSweeps -> SweepRecs] /\ SweepsKnow'
      BY <3>1, <3>2, <3>3, <3>4, GotoKnows
    <3> QED BY <2>1, <3>2, <3>5 DEF outside, InboxInv, InboxTyped
  <2> QED BY <1>5, <1>7, <2>1, <2>2 DEF Finalize
<1>8. CASE Register(s, m)
  <2>1. inRow[m] \in Ended
    BY <1>1, <1>8 DEF Register, Sees
  <2>2. /\ watch' \in [Msgs -> {"none", "watching", "spent"}]
        /\ \A n \in Msgs : watch'[n] # "none" => watch[n] # "none" \/ n = m
    BY <1>8 DEF Register, InboxInv, InboxTyped
  <2>3. Keeps /\ RowsAreBacked'
    BY <1>8, <2>1, <2>2, WatchMoves DEF Register, outside
  <2>4. sweep' \in [InboxSweeps -> SweepRecs] /\ SweepsKnow'
    BY <1>8, <2>3, PlainKnows DEF Register, NextItem, PlainStops
  <2> QED BY <1>8, <2>2, <2>3, <2>4 DEF Register, outside, InboxInv, InboxTyped
<1> QED BY <1>3, <1>6, <1>7, <1>8 DEF Respond

LEMMA PollKeeps ==
    ASSUME InboxInv, NEW s \in InboxSweeps, NEW m \in Msgs, sweep[s].m = m, PollWatch(s, m),
           UNCHANGED <<outside, inboxCrashes>>
    PROVE  InboxInv'
<1>1. /\ sweep[s] \in SweepRecs /\ Sees(sweep[s].at, m, sweep[s].read[m])
      /\ Backed(m) /\ inRow[m] \in RowStates
  BY AtItem
<1>2. "markspent" \in SweepLabels \ {"list"} /\ "moverow" \in SweepLabels \ {"list"}
  BY LabelSet
<1>3. CASE Probe(s, m)
  <2>1. Keeps /\ UNCHANGED inboxRows
    BY <1>3, NothingMoves DEF Probe, inboxRows, outside
  <2>2. origin[m] = "dead" => SeesNext("markspent", m, sweep[s].read[m])
    BY DEF SeesNext, outside
  <2>3. sweep' \in [InboxSweeps -> SweepRecs] /\ SweepsKnow'
    BY <1>2, <1>3, <2>1, <2>2, GotoKnows, PlainKnows, ThrowKnows DEF Probe, NextItem, PlainStops
  <2> QED BY <2>1, <2>3, LookKeeps
<1>4. CASE MarkSpent(s, m)
  <2>1. /\ watch' \in [Msgs -> {"none", "watching", "spent"}]
        /\ \A n \in Msgs : watch'[n] # "none" => watch[n] # "none"
    BY <1>4 DEF MarkSpent, InboxInv, InboxTyped
  <2>2. Keeps /\ RowsAreBacked'
    BY <1>4, <2>1, WatchMoves DEF MarkSpent, outside
  <2>3. SeesNext("moverow", m, sweep[s].read[m])
    BY <1>1, <1>4 DEF MarkSpent, Sees, SeesNext, outside
  <2>4. sweep' \in [InboxSweeps -> SweepRecs] /\ SweepsKnow'
    BY <1>2, <1>4, <2>2, <2>3, GotoKnows, ThrowKnows DEF MarkSpent
  <2> QED BY <1>4, <2>1, <2>2, <2>4 DEF MarkSpent, outside, InboxInv, InboxTyped
<1>5. CASE MoveRow(s, m)
  <2>1. /\ origin[m] = "dead" /\ sweep[s].at = "moverow"
        /\ UNCHANGED <<source, manifest, ack, replyTo, watch, contact>>
    BY <1>1, <1>5 DEF MoveRow, Sees
  <2>2. CASE Accepts(inRow[m], "remote_reclaimed")
    <3> DEFINE new == [sweep[s] EXCEPT !.spent = TRUE, !.at = "next"]
    <3>1. SetRow(m, "remote_reclaimed") /\ sweep' = [sweep EXCEPT ![s] = new]
      BY <1>5, <2>2 DEF MoveRow
    <3>2. inRow[m] \in Received /\ "remote_reclaimed" \in RowStates \ {"invalid"}
      BY <1>1, <2>2, RowsGoOn DEF Received, RowStates, IncomingStates
    <3>3. manifest[m]
      BY <1>1, <3>2, Stages DEF Backed
    <3>4. Keeps /\ RowsAreBacked' /\ inRow' \in [Msgs -> RowStates]
      BY <2>1, <2>2, <3>1, <3>2, <3>3, RowMoves DEF outside
    <3>5. /\ new \in SweepRecs /\ new.at = "next" /\ new.read = sweep[s].read
          /\ new.job = sweep[s].job /\ new.todo = sweep[s].todo
      BY <1>1, LabelSet DEF SweepRecs, SweepShape
    <3> HIDE DEF new
    <3>6. ListsWellNext(new)
      BY <3>4, <3>5, ReadElsewhere
    <3>7. new.m \in Msgs => SeesNext(new.at, new.m, new.read[new.m])
      BY <3>5 DEF SeesNext
    <3>8. sweep' \in [InboxSweeps -> SweepRecs] /\ SweepsKnow'
      BY <3>1, <3>4, <3>5, <3>6, <3>7, MoveKnows
    <3> QED BY <2>1, <3>4, <3>8 DEF outside, InboxInv, InboxTyped
  <2>3. CASE ~Accepts(inRow[m], "remote_reclaimed")
    <3>1. Keeps /\ UNCHANGED inboxRows /\ Throw(s)
      BY <1>5, <2>1, <2>3, NothingMoves DEF MoveRow, inboxRows, outside
    <3> QED BY <3>1, ThrowKnows, LookKeeps
  <2> QED BY <2>2, <2>3
<1> QED BY <1>3, <1>4, <1>5 DEF PollWatch

LEMMA SweepKeeps ==
    ASSUME InboxInv, NEW s \in InboxSweeps, SweepStep(s)
    PROVE  InboxInv'
<1>1. CASE List(s) \/ TakeItem(s) \/ FinishJob(s) \/ Prune(s)
  BY <1>1, ListKeeps, TakeKeeps, FinishKeeps, PruneKeeps
<1>2. CASE ~(List(s) \/ TakeItem(s) \/ FinishJob(s) \/ Prune(s))
  <2>1. PICK m \in Msgs :
          /\ sweep[s].m = m
          /\ \/ /\ Ingest(s, m) \/ AdvanceToReceived(s, m) \/ Respond(s, m) \/ PollWatch(s, m)
                /\ UNCHANGED <<outside, inboxCrashes>>
             \/ Publish(s, m) /\ UNCHANGED <<origin, relayed, window, inboxCrashes>>
    BY <1>2 DEF SweepStep
  <2> QED BY <2>1, IngestKeeps, AdvanceKeeps, RespondKeeps, PollKeeps, PublishKeeps
<1> QED BY <1>1, <1>2

-----------------------------------------------------------------------------
(* Steps no sweep takes: those of the chain, of the sender and of the      *)
(* clock, and the death of the process.                                    *)

(* With the sweeps at rest, keeping the rows keeps what the sweeps know.   *)
LEMMA SweepsRest ==
    ASSUME InboxInv, Keeps, UNCHANGED sweep
    PROVE  sweep' \in [InboxSweeps -> SweepRecs] /\ SweepsKnow'
<1>1. \A s \in InboxSweeps :
        ListsWellNext(sweep[s])
          /\ (sweep[s].m \in Msgs => SeesNext(sweep[s].at, sweep[s].m, sweep[s].read[sweep[s].m]))
  <2> TAKE s \in InboxSweeps
  <2>1. sweep[s] \in SweepRecs /\ Knows(sweep[s])
    BY DEF InboxInv, InboxTyped, SweepsKnow
  <2> QED BY <2>1, KnowledgeStays
<1> QED BY <1>1 DEF InboxInv, InboxTyped, SweepsKnow, Knows, ListsWell, Sees, ListsWellNext, SeesNext

LEMMA LandKeeps ==
    ASSUME InboxInv, NEW m \in Msgs, ResponseLands(m)
    PROVE  InboxInv'
<1>1. inRow[m] \in Received
  BY DEF ResponseLands, InboxInv, RowsAreBacked, Backed
<1>2. /\ Keeps /\ RowsAreBacked' /\ receipt' \in [Msgs -> BOOLEAN]
      /\ ack' \in [Msgs -> {"none", "queued", "sent", "pending", "failed"}]
  BY <1>1, AckMoves DEF ResponseLands
<1>3. sweep' \in [InboxSweeps -> SweepRecs] /\ SweepsKnow'
  BY <1>2, SweepsRest DEF ResponseLands
<1> QED BY <1>2, <1>3 DEF ResponseLands, InboxInv, InboxTyped

LEMMA SenderKeeps ==
    ASSUME InboxInv, NEW m \in Msgs, SenderReclaims(m)
    PROVE  InboxInv'
<1>1. /\ origin' \in [Msgs -> {"live", "dead"}] /\ origin'[m] = "dead" /\ receipt[m]
      /\ \A n \in Msgs : n # m => origin'[n] = origin[n]
      /\ UNCHANGED <<inboxRows, receipt, sweep, relayed>>
  BY DEF SenderReclaims, InboxInv, InboxTyped
<1>2. Keeps /\ RowsAreBacked'
  BY <1>1 DEF Keeps, InboxInv, RowsAreBacked, Backed, inboxRows
<1>3. sweep' \in [InboxSweeps -> SweepRecs] /\ SweepsKnow'
  BY <1>1, <1>2, SweepsRest
<1> QED BY <1>1, <1>2, <1>3 DEF inboxRows, InboxInv, InboxTyped

LEMMA EpochKeeps ==
    ASSUME InboxInv, NEW m \in Msgs, EpochPasses(m)
    PROVE  InboxInv'
<1>1. UNCHANGED <<inboxRows, origin, receipt, sweep, relayed>>
  BY DEF EpochPasses
<1>2. Keeps /\ RowsAreBacked'
  BY <1>1, NothingMoves DEF inboxRows
<1>3. sweep' \in [InboxSweeps -> SweepRecs] /\ SweepsKnow'
  BY <1>1, <1>2, SweepsRest
<1> QED BY <1>1, <1>2, <1>3 DEF inboxRows, InboxInv, InboxTyped

(* Between two sweeps nothing is known, and nothing is asked.              *)
LEMMA IdleKnows ==
    /\ IdleSweep \in SweepRecs
    /\ IdleSweep.todo = {} /\ IdleSweep.at = "list" /\ IdleSweep.m = "none"
<1>1. JobOrder[1] \in Jobs /\ JobOrder[1] = "heal"
  BY JobSet DEF JobOrder
<1> QED BY <1>1, LabelSet, Stages DEF IdleSweep, SweepRecs, SweepShape

LEMMA CrashKeeps ==
    ASSUME InboxInv, InboxCrash
    PROVE  InboxInv'
<1>1. Keeps /\ RowsAreBacked'
  BY NothingMoves DEF InboxCrash, inboxRows, outside
<1>2. sweep' = [s \in InboxSweeps |-> IdleSweep]
  BY DEF InboxCrash
<1>3. sweep' \in [InboxSweeps -> SweepRecs] /\ SweepsKnow'
  BY <1>2, IdleKnows DEF SweepsKnow, Knows, ListsWell, Sees
<1> QED BY <1>1, <1>3 DEF InboxCrash, inboxRows, outside, InboxInv, InboxTyped

LEMMA NextInv ==
    ASSUME InboxInv, [InboxNext]_inboxVars
    PROVE  InboxInv'
<1>1. CASE \E s \in InboxSweeps : SweepStep(s)
  BY <1>1, SweepKeeps
<1>2. CASE \E m \in Msgs : ResponseLands(m) \/ SenderReclaims(m) \/ EpochPasses(m)
  BY <1>2, LandKeeps, SenderKeeps, EpochKeeps
<1>3. CASE InboxCrash
  BY <1>3, CrashKeeps
<1>4. CASE UNCHANGED inboxVars
  <2>1. UNCHANGED <<inboxRows, outside, sweep>>
    BY <1>4 DEF inboxVars
  <2>2. Keeps
    BY <2>1, NothingMoves DEF inboxRows, outside
  <2> QED BY <2>1, <2>2, SweepsRest, LookKeeps
<1> QED BY <1>1, <1>2, <1>3, <1>4 DEF InboxNext

LEMMA InitInv == InboxInit => InboxInv
<1> SUFFICES ASSUME InboxInit PROVE InboxInv
  OBVIOUS
<1>1. InboxTyped
  BY IdleKnows, Stages DEF InboxInit, InboxTyped
<1>2. RowsAreBacked
  BY Stages DEF InboxInit, RowsAreBacked, Backed
<1>3. SweepsKnow
  BY IdleKnows DEF InboxInit, SweepsKnow, Knows, ListsWell, Sees
<1> QED BY <1>1, <1>2, <1>3 DEF InboxInv

-----------------------------------------------------------------------------
LEMMA InvSafe == InboxInv => GoneWasSafe /\ WatchedRowCanEnd /\ ReceivedHasManifest
<1> SUFFICES ASSUME InboxInv PROVE GoneWasSafe /\ WatchedRowCanEnd /\ ReceivedHasManifest
  OBVIOUS
<1>1. \A m \in Msgs : Backed(m)
  BY DEF InboxInv, RowsAreBacked
<1>2. \A state \in Ended : Accepts(state, "remote_reclaimed")
  <2>1. <<"awaiting_remote_reclaim", "remote_reclaimed">> \in StepsOf(IncomingSpine)
    <3>1. /\ Len(IncomingSpine) = 9
          /\ <<"awaiting_remote_reclaim", "remote_reclaimed">>
               = <<IncomingSpine[8], IncomingSpine[8 + 1]>>
      BY DEF IncomingSpine
    <3> QED BY <3>1 DEF StepsOf
  <2> QED BY <2>1 DEF Ended, Accepts, CanTransition, IncomingTransitions
<1>3. GoneWasSafe
  BY <1>1 DEF GoneWasSafe, ReclaimedWasStored, RemoteReclaimedIsGone, Backed
<1>4. WatchedRowCanEnd
  BY <1>1, <1>2 DEF WatchedRowCanEnd, Backed
<1>5. ReceivedHasManifest
  BY <1>1, Stages DEF ReceivedHasManifest, Backed
<1> QED BY <1>3, <1>4, <1>5

(* A cell the sender spends, and a row that says so, are of a message that *)
(* this device has stored: the acknowledgement is queued behind the        *)
(* transition to `received`, however many sweeps race and die.             *)
THEOREM SpentCellsWereSafe == InboxSpec => []GoneWasSafe
<1>1. InboxInv /\ [InboxNext]_inboxVars => InboxInv'
  BY NextInv
<1> QED BY <1>1, InitInv, InvSafe, PTL DEF InboxSpec

(* The watch poll never finds a row it may not move to remote_reclaimed:   *)
(* a response watch is registered behind an ended row, and an ended row    *)
(* stays ended.                                                            *)
THEOREM WatchedRowsEnd == InboxSpec => []WatchedRowCanEnd
<1>1. InboxInv /\ [InboxNext]_inboxVars => InboxInv'
  BY NextInv
<1> QED BY <1>1, InitInv, InvSafe, PTL DEF InboxSpec

(* Whoever finds a row at `received` or beyond finds its manifest.         *)
THEOREM ManifestsComeFirst == InboxSpec => []ReceivedHasManifest
<1>1. InboxInv /\ [InboxNext]_inboxVars => InboxInv'
  BY NextInv
<1> QED BY <1>1, InitInv, InvSafe, PTL DEF InboxSpec

-----------------------------------------------------------------------------
(* ContactBook.                                                            *)

(* The inductive invariant.                                                *)

Ids == Cards \cup {Unlinked}

BookTyped ==
    /\ contacts \in Seq(Ids) /\ Len(contacts) <= MaxContacts
    /\ convs \in Seq(1..MaxContacts)
    /\ scan \in [at : {"idle", "own", "find", "addable", "shown"}, id : Texts]
    /\ form \subseteq Ids
    /\ opener \in [Openers -> [at : OpenerLabels, contact : Nat, conv : Nat]]
    /\ editor \in [contact : Nat, id : Ids]

UniqueRows ==
    /\ \A j, k \in DOMAIN contacts : contacts[j] = contacts[k] /\ contacts[j] # Unlinked => j = k
    /\ \A v, w \in DOMAIN convs : convs[v] = convs[w] => v = w

(* A card that is looked up, or may be added, was readable.                *)
AddableIsACard == scan.at \in {"find", "addable"} => scan.id \in Cards

(* A call that left the lookup has a contact, and one that arrived has the *)
(* conversation of that contact.                                           *)

OpenerKnows(o) ==
    /\ opener[o].at \in {"read", "insert", "reread", "open"}
          => opener[o].contact \in DOMAIN contacts
    /\ opener[o].at = "open" => opener[o].conv \in DOMAIN convs
                               /\ convs[opener[o].conv] = opener[o].contact

OpenersKnow == \A o \in Openers : OpenerKnows(o)

(* A save writes back the id the row still has.                            *)
EditorKnows ==
    editor # ClosedEditor => /\ editor.contact \in DOMAIN contacts
                             /\ contacts[editor.contact] = editor.id

(* A conversation is that of a contact: contact_id is a foreign key.       *)
ConversationsHaveContacts == \A v \in DOMAIN convs : convs[v] \in DOMAIN contacts

BookInv ==
    /\ BookTyped /\ UniqueRows /\ AddableIsACard
    /\ ConversationsHaveContacts /\ OpenersKnow /\ EditorKnows

-----------------------------------------------------------------------------
(* What a step may do to the rows, and what that leaves.                   *)

Grows(s, t) == \A k \in DOMAIN s : k \in DOMAIN t /\ t[k] = s[k]

RowsGrow == Grows(contacts, contacts') /\ Grows(convs, convs')

USE BookAssumption

(* A row is inserted only if no other has its id.                          *)
LEMMA InsertKeepsIdsUnique ==
    ASSUME BookTyped, UniqueRows, NEW id \in Ids, Insertable(id),
           contacts' = Append(contacts, id)
    PROVE  /\ contacts' \in Seq(Ids) /\ Len(contacts') <= MaxContacts
           /\ Grows(contacts, contacts')
           /\ Len(contacts) + 1 \in DOMAIN contacts'
           /\ \A j, k \in DOMAIN contacts' :
                 contacts'[j] = contacts'[k] /\ contacts'[j] # Unlinked => j = k
<1>1. contacts \in Seq(Ids) /\ Len(contacts) \in Nat /\ DOMAIN contacts = 1..Len(contacts)
  BY DEF BookTyped
<1>2. Len(contacts) < MaxContacts /\ ~Known(id)
  BY DEF Insertable
<1>3. /\ contacts' \in Seq(Ids) /\ Len(contacts') = Len(contacts) + 1
      /\ DOMAIN contacts' = 1..Len(contacts) + 1
      /\ \A k \in 1..Len(contacts) : contacts'[k] = contacts[k]
      /\ contacts'[Len(contacts) + 1] = id
  BY <1>1, AppendProperties
<1>4. Len(contacts') <= MaxContacts
  BY <1>1, <1>2, <1>3
<1>5. Grows(contacts, contacts')
  BY <1>1, <1>3 DEF Grows
<1>6. ASSUME NEW j \in DOMAIN contacts', NEW k \in DOMAIN contacts',
             contacts'[j] = contacts'[k], contacts'[j] # Unlinked
      PROVE  j = k
  <2>1. \A i \in DOMAIN contacts : id # Unlinked => contacts[i] # id
    BY <1>2 DEF Known
  <2>2. CASE j \in DOMAIN contacts /\ k \in DOMAIN contacts
    BY <2>2, <1>1, <1>3, <1>6 DEF UniqueRows
  <2>3. CASE j \notin DOMAIN contacts
    BY <2>1, <2>3, <1>1, <1>3, <1>6
  <2>4. CASE k \notin DOMAIN contacts
    BY <2>1, <2>4, <1>1, <1>3, <1>6
  <2>. QED  BY <2>2, <2>3, <2>4
<1>. QED  BY <1>1, <1>3, <1>4, <1>5, <1>6

(* A conversation is inserted only if its contact has none.                *)
LEMMA InsertKeepsConversationsUnique ==
    ASSUME BookTyped, UniqueRows, NEW c \in 1..MaxContacts, ~Taken(c),
           convs' = Append(convs, c)
    PROVE  /\ convs' \in Seq(1..MaxContacts)
           /\ Grows(convs, convs')
           /\ Len(convs) + 1 \in DOMAIN convs' /\ convs'[Len(convs) + 1] = c
           /\ \A v, w \in DOMAIN convs' : convs'[v] = convs'[w] => v = w
<1>1. convs \in Seq(1..MaxContacts) /\ Len(convs) \in Nat /\ DOMAIN convs = 1..Len(convs)
  BY DEF BookTyped
<1>2. \A v \in DOMAIN convs : convs[v] # c
  BY DEF Taken, ConversationOf
<1>3. /\ convs' \in Seq(1..MaxContacts) /\ Len(convs') = Len(convs) + 1
      /\ DOMAIN convs' = 1..Len(convs) + 1
      /\ \A k \in 1..Len(convs) : convs'[k] = convs[k]
      /\ convs'[Len(convs) + 1] = c
  BY <1>1, AppendProperties
<1>4. Grows(convs, convs')
  BY <1>1, <1>3 DEF Grows
<1>5. ASSUME NEW v \in DOMAIN convs', NEW w \in DOMAIN convs', convs'[v] = convs'[w]
      PROVE  v = w
  <2>1. CASE v \in DOMAIN convs /\ w \in DOMAIN convs
    BY <2>1, <1>1, <1>3, <1>5 DEF UniqueRows
  <2>2. CASE v \notin DOMAIN convs
    BY <2>2, <1>1, <1>2, <1>3, <1>5
  <2>3. CASE w \notin DOMAIN convs
    BY <2>3, <1>1, <1>2, <1>3, <1>5
  <2>. QED  BY <2>1, <2>2, <2>3
<1>. QED  BY <1>1, <1>3, <1>4, <1>5

LEMMA UnchangedRowsGrow == ASSUME contacts' = contacts, convs' = convs PROVE RowsGrow
BY DEF RowsGrow, Grows

(* What a call has in hand stays true while rows are only added.           *)
LEMMA OpenersKeepKnowing ==
    ASSUME OpenersKnow, RowsGrow, opener' = opener
    PROVE  OpenersKnow'
<1>. SUFFICES ASSUME NEW o \in Openers PROVE OpenerKnows(o)'
  BY DEF OpenersKnow
<1>1. OpenerKnows(o)
  BY DEF OpenersKnow
<1>. QED  BY <1>1 DEF OpenerKnows, RowsGrow, Grows

LEMMA EditorKeepsKnowing ==
    ASSUME EditorKnows, RowsGrow, editor' = editor
    PROVE  EditorKnows'
BY DEF EditorKnows, RowsGrow, Grows

(* One call moves on.                                                      *)
LEMMA OpenerMoves ==
    ASSUME BookTyped, OpenersKnow, RowsGrow, NEW o \in Openers,
           NEW at \in OpenerLabels, NEW c \in Nat, NEW v \in Nat,
           opener' = [opener EXCEPT ![o] = [at |-> at, contact |-> c, conv |-> v]],
           at \in {"read", "insert", "reread", "open"} => c \in DOMAIN contacts',
           at = "open" => v \in DOMAIN convs' /\ convs'[v] = c
    PROVE  /\ opener' \in [Openers -> [at : OpenerLabels, contact : Nat, conv : Nat]]
           /\ OpenersKnow'
<1>1. opener' \in [Openers -> [at : OpenerLabels, contact : Nat, conv : Nat]]
  BY DEF BookTyped
<1>2. ASSUME NEW p \in Openers PROVE OpenerKnows(p)'
  <2>1. CASE p = o
    <3>1. opener'[p] = [at |-> at, contact |-> c, conv |-> v]
      BY <2>1 DEF BookTyped
    <3>. QED  BY <3>1 DEF OpenerKnows
  <2>2. CASE p # o
    <3>1. opener'[p] = opener[p]
      BY <2>2 DEF BookTyped
    <3>2. OpenerKnows(p)
      BY DEF OpenersKnow
    <3>. QED  BY <3>1, <3>2 DEF OpenerKnows, RowsGrow, Grows
  <2>. QED  BY <2>1, <2>2
<1>. QED  BY <1>1, <1>2 DEF OpenersKnow

-----------------------------------------------------------------------------
(* The steps.                                                              *)

ScanStep ==
    \/ RunCameraScan \/ RunPhotoScan \/ RunPasteScan \/ ClassifyScannedCard
    \/ FindExisting \/ ScanAgain

LEMMA ScansKeepTheBook == BookInv /\ ScanStep => BookInv'
<1>. SUFFICES ASSUME BookInv, ScanStep PROVE BookInv'
  OBVIOUS
<1>. USE DEF BookInv
<1>1. UNCHANGED <<contacts, convs, form, opener, editor>>
  BY DEF ScanStep, RunCameraScan, RunPhotoScan, RunPasteScan, HandleScanned,
         ClassifyScannedCard, FindExisting, ScanAgain
<1>2. /\ scan' \in [at : {"idle", "own", "find", "addable", "shown"}, id : Texts]
      /\ AddableIsACard'
  <2>0. scan \in [at : {"idle", "own", "find", "addable", "shown"}, id : Texts]
    BY DEF BookTyped
  <2>1. CASE \E text \in Texts : HandleScanned(text)
    BY <2>1 DEF HandleScanned, AddableIsACard
  <2>2. CASE ClassifyScannedCard
    <3>1. CASE scan' = IdleScan
      BY <3>1 DEF IdleScan, AddableIsACard, Texts, Cards
    <3>2. CASE scan' = [scan EXCEPT !.at = "shown"]
      BY <3>2, <2>0 DEF AddableIsACard
    <3>3. CASE scan' = [scan EXCEPT !.at = "find"] /\ scan.id \in Cards
      BY <3>3, <2>0 DEF AddableIsACard
    <3>. QED  BY <2>2, <3>1, <3>2, <3>3 DEF ClassifyScannedCard, DecodeContactBundle
  <2>3. CASE FindExisting
    <3>1. scan.id \in Cards
      BY <2>3 DEF FindExisting, AddableIsACard
    <3>2. \/ scan' = [scan EXCEPT !.at = "shown"]
          \/ scan' = [scan EXCEPT !.at = "addable"]
      BY <2>3 DEF FindExisting
    <3>. QED  BY <2>0, <3>1, <3>2 DEF AddableIsACard
  <2>4. CASE ScanAgain
    BY <2>4 DEF ScanAgain, IdleScan, AddableIsACard, Texts, Cards
  <2>. QED  BY <2>1, <2>2, <2>3, <2>4 DEF ScanStep, RunCameraScan, RunPhotoScan, RunPasteScan
<1>3. BookTyped'
  BY <1>1, <1>2 DEF BookTyped
<1>4. RowsGrow
  BY <1>1, UnchangedRowsGrow
<1>5. OpenersKnow' /\ EditorKnows'
  BY <1>1, <1>4, OpenersKeepKnowing, EditorKeepsKnowing
<1>6. UniqueRows' /\ ConversationsHaveContacts'
  BY <1>1 DEF UniqueRows, ConversationsHaveContacts
<1>. QED  BY <1>2, <1>3, <1>5, <1>6

(* A scanned card and a form insert the row of an id.                      *)
LEMMA SavesKeepTheBook == BookInv /\ (SaveScanned \/ SubmitForm \/ SaveForm) => BookInv'
<1>. SUFFICES ASSUME BookInv, SaveScanned \/ SubmitForm \/ SaveForm PROVE BookInv'
  OBVIOUS
<1>. USE DEF BookInv
<1>1. UNCHANGED <<convs, opener, editor>>
  BY DEF SaveScanned, SubmitForm, SaveForm
<1>2. /\ scan' \in [at : {"idle", "own", "find", "addable", "shown"}, id : Texts]
      /\ AddableIsACard' /\ form' \subseteq Ids
  <2>1. scan' = scan \/ scan' = IdleScan
    BY DEF SaveScanned, SubmitForm, SaveForm
  <2>2. form' \subseteq Ids
    BY DEF SaveScanned, SubmitForm, SaveForm, BookTyped, Ids
  <2>. QED  BY <2>1, <2>2 DEF BookTyped, IdleScan, AddableIsACard, Texts, Cards
<1>3. /\ contacts' \in Seq(Ids) /\ Len(contacts') <= MaxContacts
      /\ Grows(contacts, contacts')
      /\ \A j, k \in DOMAIN contacts' :
            contacts'[j] = contacts'[k] /\ contacts'[j] # Unlinked => j = k
  <2>1. \/ contacts' = contacts
        \/ \E id \in Ids : Insertable(id) /\ contacts' = Append(contacts, id)
    <3>1. CASE SaveScanned
      <4>1. scan.id \in Ids
        BY <3>1 DEF SaveScanned, AddableIsACard, Ids
      <4>. QED  BY <3>1, <4>1 DEF SaveScanned
    <3>2. CASE SubmitForm
      BY <3>2 DEF SubmitForm
    <3>3. CASE SaveForm
      BY <3>3 DEF SaveForm, BookTyped
    <3>. QED  BY <3>1, <3>2, <3>3
  <2>2. CASE contacts' = contacts
    BY <2>2 DEF BookTyped, UniqueRows, Grows
  <2>3. ASSUME NEW id \in Ids, Insertable(id), contacts' = Append(contacts, id)
        PROVE  /\ contacts' \in Seq(Ids) /\ Len(contacts') <= MaxContacts
               /\ Grows(contacts, contacts')
               /\ \A j, k \in DOMAIN contacts' :
                     contacts'[j] = contacts'[k] /\ contacts'[j] # Unlinked => j = k
    BY <2>3, InsertKeepsIdsUnique
  <2>. QED  BY <2>1, <2>2, <2>3
<1>4. BookTyped'
  BY <1>1, <1>2, <1>3 DEF BookTyped
<1>5. RowsGrow
  BY <1>1, <1>3 DEF RowsGrow, Grows
<1>6. OpenersKnow' /\ EditorKnows'
  BY <1>1, <1>5, OpenersKeepKnowing, EditorKeepsKnowing
<1>7. UniqueRows' /\ ConversationsHaveContacts'
  BY <1>1, <1>3 DEF UniqueRows, ConversationsHaveContacts, Grows
<1>. QED  BY <1>2, <1>4, <1>6, <1>7

(* The edit screen writes back what it read.                               *)
LEMMA EditsKeepTheBook ==
    BookInv /\ (UpdateContact \/ \E k \in 1..MaxContacts : EditContact(k)) => BookInv'
<1>. SUFFICES ASSUME BookInv, UpdateContact \/ \E k \in 1..MaxContacts : EditContact(k) PROVE BookInv'
  OBVIOUS
<1>. USE DEF BookInv
<1>1. UNCHANGED <<convs, scan, form, opener>>
  BY DEF UpdateContact, EditContact
<1>2. contacts' = contacts
  <2>1. CASE UpdateContact
    <3>1. contacts[editor.contact] = editor.id
      BY <2>1 DEF UpdateContact, EditorKnows
    <3>2. contacts' = [contacts EXCEPT ![editor.contact] = contacts[editor.contact]]
      BY <2>1, <3>1 DEF UpdateContact
    <3>3. contacts = [i \in 1..Len(contacts) |-> contacts[i]]
      BY DEF BookTyped
    <3>. QED  BY <3>2, <3>3
  <2>2. CASE \E k \in 1..MaxContacts : EditContact(k)
    BY <2>2 DEF EditContact
  <2>. QED  BY <2>1, <2>2
<1>3. editor' \in [contact : Nat, id : Ids] /\ EditorKnows'
  <2>1. CASE UpdateContact
    BY <2>1 DEF UpdateContact, ClosedEditor, EditorKnows, Ids
  <2>2. ASSUME NEW k \in 1..MaxContacts, EditContact(k)
        PROVE  editor' \in [contact : Nat, id : Ids] /\ EditorKnows'
    <3>1. k \in DOMAIN contacts
      <4>1. CASE k \in ContactsListed
        BY <4>1 DEF ContactsListed
      <4>2. CASE Known(scan.id) /\ k = RowOf(scan.id)
        BY <4>2 DEF Known, RowOf
      <4>. QED  BY <2>2, <4>1, <4>2 DEF EditContact
    <3>2. contacts[k] \in Ids
      BY <3>1 DEF BookTyped
    <3>3. editor' = [contact |-> k, id |-> contacts[k]]
      BY <2>2 DEF EditContact
    <3>. QED  BY <1>2, <3>1, <3>2, <3>3 DEF EditorKnows
  <2>. QED  BY <2>1, <2>2
<1>4. BookTyped'
  BY <1>1, <1>2, <1>3 DEF BookTyped
<1>5. OpenersKnow'
  BY <1>1, <1>2, UnchangedRowsGrow, OpenersKeepKnowing
<1>6. UniqueRows' /\ AddableIsACard' /\ ConversationsHaveContacts'
  BY <1>1, <1>2 DEF UniqueRows, AddableIsACard, ConversationsHaveContacts
<1>. QED  BY <1>3, <1>4, <1>5, <1>6

CallStep(o) ==
    \/ StartIngest(o) \/ LookUpSender(o) \/ CreateStub(o) \/ TapContact(o) \/ TapChat(o)
    \/ ReadConversation(o) \/ InsertConversation(o) \/ RereadConversation(o)

(* Where a call goes, and what it has in hand there.                       *)
LEMMA CallsKnowTheirRows ==
    ASSUME BookInv, NEW o \in Openers, CallStep(o)
    PROVE  \E at \in OpenerLabels, c \in Nat, v \in Nat :
              /\ opener' = [opener EXCEPT ![o] = [at |-> at, contact |-> c, conv |-> v]]
              /\ at \in {"read", "insert", "reread", "open"} => c \in DOMAIN contacts'
              /\ at = "open" => v \in DOMAIN convs' /\ convs'[v] = c
<1>. USE DEF BookInv, OpenerLabels
<1>. DEFINE Goes(at, c, v) ==
        /\ opener' = [opener EXCEPT ![o] = [at |-> at, contact |-> c, conv |-> v]]
        /\ at \in {"read", "insert", "reread", "open"} => c \in DOMAIN contacts'
        /\ at = "open" => v \in DOMAIN convs' /\ convs'[v] = c
<1>. DEFINE Gone == \E at \in OpenerLabels, c \in Nat, v \in Nat : Goes(at, c, v)
<1>. DEFINE c0 == opener[o].contact
<1>. DEFINE v0 == opener[o].conv
<1>0. /\ opener[o] \in [at : OpenerLabels, contact : Nat, conv : Nat]
      /\ c0 \in Nat /\ v0 \in Nat
  BY DEF BookTyped
<1>a. \A l \in OpenerLabels :
        [opener EXCEPT ![o].at = l] = [opener EXCEPT ![o] = [at |-> l, contact |-> c0, conv |-> v0]]
  <2>. TAKE l \in OpenerLabels
  <2>1. [opener[o] EXCEPT !.at = l] = [at |-> l, contact |-> c0, conv |-> v0]
    BY <1>0
  <2>2. [opener EXCEPT ![o].at = l] = [opener EXCEPT ![o] = [opener[o] EXCEPT !.at = l]]
    BY DEF BookTyped
  <2>. QED  BY <2>1, <2>2
<1>1. OpenerKnows(o)
  BY DEF OpenersKnow
<1>2. DOMAIN contacts = 1..Len(contacts) /\ DOMAIN convs = 1..Len(convs)
  BY DEF BookTyped
<1>3. ASSUME NEW l \in OpenerLabels, opener' = [opener EXCEPT ![o].at = l],
             l \in {"insert", "reread"} => c0 \in DOMAIN contacts',
             l \notin {"read", "open"}
      PROVE  Gone
  <2>1. opener' = [opener EXCEPT ![o] = [at |-> l, contact |-> c0, conv |-> v0]]
    BY <1>a, <1>3
  <2>2. Goes(l, c0, v0)
    BY <2>1, <1>3
  <2>. QED  BY <2>2, <1>0
<1>4. ASSUME NEW v \in DOMAIN convs', v \in Nat, Open(o, c0, v),
             c0 \in DOMAIN contacts', convs'[v] = c0
      PROVE  Gone
  <2>1. opener' = [opener EXCEPT ![o] = [at |-> "open", contact |-> c0, conv |-> v]]
    BY <1>4 DEF Open
  <2>2. Goes("open", c0, v)
    BY <2>1, <1>4
  <2>. QED  BY <2>2, <1>0, <1>4
<1>5. ASSUME NEW c \in DOMAIN contacts', c \in Nat,
             opener' = [opener EXCEPT ![o] = OfContact(c)]
      PROVE  Gone
  <2>1. Goes("read", c, 0)
    BY <1>5 DEF OfContact
  <2>. QED  BY <2>1, <1>0, <1>5
<1>6. CASE StartIngest(o)
  BY <1>6, <1>3 DEF StartIngest, OpenerGoto
<1>7. CASE LookUpSender(o)
  <2>1. contacts' = contacts
    BY <1>7 DEF LookUpSender
  <2>2. CASE Known("friend")
    <3>1. RowOf("friend") \in DOMAIN contacts
      BY <2>2 DEF Known, RowOf
    <3>2. opener' = [opener EXCEPT ![o] = OfContact(RowOf("friend"))]
      BY <1>7, <2>2 DEF LookUpSender
    <3>3. RowOf("friend") \in DOMAIN contacts' /\ RowOf("friend") \in Nat
      BY <3>1, <2>1, <1>2
    <3>4. Gone
      <4>. HIDE DEF Gone
      <4>. QED  BY <3>2, <3>3, <1>5
    <3>. QED  BY <3>4
  <2>3. CASE ~Known("friend")
    <3>1. opener' = [opener EXCEPT ![o].at = "stub"]
      BY <1>7, <2>3, <1>0 DEF LookUpSender
    <3>. QED  BY <3>1, <1>3
  <2>. QED  BY <2>2, <2>3
<1>8. CASE CreateStub(o)
  <2>1. CASE OpenerGoto(o, "idle")
    BY <2>1, <1>3 DEF OpenerGoto
  <2>2. CASE /\ Insertable("friend") /\ contacts' = Append(contacts, "friend")
             /\ opener' = [opener EXCEPT ![o] = OfContact(Len(contacts) + 1)]
    <3>1. Len(contacts) + 1 \in DOMAIN contacts' /\ Len(contacts) + 1 \in Nat
      BY <2>2, AppendProperties DEF BookTyped, Ids, Cards
    <3>. QED  BY <2>2, <3>1, <1>5
  <2>. QED  BY <1>8, <2>1, <2>2 DEF CreateStub
<1>9. CASE TapContact(o)
  <2>1. contacts' = contacts
    BY <1>9 DEF TapContact
  <2>2. PICK k \in DOMAIN contacts : opener' = [opener EXCEPT ![o] = OfContact(k)]
    BY <1>9 DEF TapContact, ContactsListed
  <2>3. k \in DOMAIN contacts' /\ k \in Nat
    BY <2>1, <1>2
  <2>4. Gone
    <3>. HIDE DEF Gone
    <3>. QED  BY <2>2, <2>3, <1>5
  <2>. QED  BY <2>4
<1>10. CASE TapChat(o)
  <2>1. contacts' = contacts /\ convs' = convs
    BY <1>10 DEF TapChat
  <2>2. PICK v \in DOMAIN convs :
          opener' = [opener EXCEPT ![o] = [at |-> "open", contact |-> convs[v], conv |-> v]]
    BY <1>10 DEF TapChat, ChatsListed, Open
  <2>3. convs[v] \in DOMAIN contacts /\ convs[v] \in Nat /\ v \in Nat
    BY <1>2 DEF BookTyped, ConversationsHaveContacts
  <2>4. Goes("open", convs[v], v)
    BY <2>1, <2>2, <2>3
  <2>. QED  BY <2>3, <2>4
<1>11. CASE ReadConversation(o)
  <2>1. contacts' = contacts /\ convs' = convs /\ c0 \in DOMAIN contacts
    BY <1>11, <1>1 DEF ReadConversation, OpenerAt, OpenerKnows
  <2>2. ASSUME NEW v \in ConversationOf(c0), Open(o, c0, v) PROVE Gone
    <3>1. v \in DOMAIN convs /\ convs[v] = c0
      BY DEF ConversationOf
    <3>. QED  BY <2>1, <2>2, <3>1, <1>2, <1>4
  <2>3. CASE OpenerGoto(o, "insert")
    BY <2>1, <2>3, <1>3 DEF OpenerGoto
  <2>. QED  BY <1>11, <2>2, <2>3 DEF ReadConversation
<1>12. CASE InsertConversation(o)
  <2>1. contacts' = contacts /\ c0 \in DOMAIN contacts
    BY <1>12, <1>1 DEF InsertConversation, OpenerAt, OpenerKnows
  <2>2. CASE OpenerGoto(o, "reread")
    BY <2>1, <2>2, <1>3 DEF OpenerGoto
  <2>3. CASE convs' = Append(convs, c0) /\ Open(o, c0, Len(convs) + 1)
    <3>1. c0 \in 1..MaxContacts
      BY <2>1, <1>2 DEF BookTyped
    <3>2. Len(convs) + 1 \in DOMAIN convs' /\ convs'[Len(convs) + 1] = c0
      BY <2>3, <3>1, AppendProperties DEF BookTyped
    <3>3. Len(convs) + 1 \in Nat
      BY DEF BookTyped
    <3>. QED  BY <2>1, <2>3, <3>2, <3>3, <1>4
  <2>. QED  BY <1>12, <2>2, <2>3 DEF InsertConversation
<1>13. CASE RereadConversation(o)
  <2>1. contacts' = contacts /\ convs' = convs /\ c0 \in DOMAIN contacts
    BY <1>13, <1>1 DEF RereadConversation, OpenerAt, OpenerKnows
  <2>2. ASSUME NEW v \in ConversationOf(c0), Open(o, c0, v) PROVE Gone
    <3>1. v \in DOMAIN convs /\ convs[v] = c0
      BY DEF ConversationOf
    <3>. QED  BY <2>1, <2>2, <3>1, <1>2, <1>4
  <2>. QED  BY <1>13, <2>2 DEF RereadConversation
<1>14. Gone
  BY <1>6, <1>7, <1>8, <1>9, <1>10, <1>11, <1>12, <1>13 DEF CallStep
<1>. QED  BY <1>14

LEMMA CallsKeepTheBook == ASSUME BookInv, NEW o \in Openers, CallStep(o) PROVE BookInv'
<1>. USE DEF BookInv
<1>1. UNCHANGED <<scan, form, editor>>
  BY DEF CallStep, StartIngest, LookUpSender, CreateStub, TapContact, TapChat,
         ReadConversation, InsertConversation, RereadConversation
<1>2. /\ contacts' \in Seq(Ids) /\ Len(contacts') <= MaxContacts
      /\ Grows(contacts, contacts')
      /\ \A j, k \in DOMAIN contacts' :
            contacts'[j] = contacts'[k] /\ contacts'[j] # Unlinked => j = k
  <2>1. CASE contacts' = contacts
    BY <2>1 DEF BookTyped, UniqueRows, Grows
  <2>2. CASE Insertable("friend") /\ contacts' = Append(contacts, "friend")
    BY <2>2, "friend" \in Ids, InsertKeepsIdsUnique DEF Ids, Cards
  <2>. QED  BY <2>1, <2>2
             DEF CallStep, StartIngest, LookUpSender, CreateStub, TapContact, TapChat,
                 ReadConversation, InsertConversation, RereadConversation
<1>3. /\ convs' \in Seq(1..MaxContacts) /\ Grows(convs, convs')
      /\ \A v, w \in DOMAIN convs' : convs'[v] = convs'[w] => v = w
      /\ \A v \in DOMAIN convs' : convs'[v] \in DOMAIN contacts'
  <2>0. DOMAIN contacts = 1..Len(contacts) /\ Len(contacts) \in Nat
    BY DEF BookTyped
  <2>1. CASE convs' = convs
    BY <2>1, <1>2 DEF BookTyped, UniqueRows, Grows, ConversationsHaveContacts
  <2>2. CASE InsertConversation(o) /\ convs' # convs
    <3>1. /\ ~Taken(opener[o].contact) /\ convs' = Append(convs, opener[o].contact)
          /\ contacts' = contacts /\ opener[o].at = "insert"
      BY <2>2 DEF InsertConversation, OpenerAt
    <3>2. opener[o].contact \in DOMAIN contacts
      BY <3>1 DEF OpenersKnow, OpenerKnows
    <3>3. opener[o].contact \in 1..MaxContacts
      BY <3>2, <2>0 DEF BookTyped
    <3>4. /\ convs' \in Seq(1..MaxContacts) /\ Grows(convs, convs')
          /\ \A v, w \in DOMAIN convs' : convs'[v] = convs'[w] => v = w
      BY <3>1, <3>3, InsertKeepsConversationsUnique
    <3>5. ASSUME NEW v \in DOMAIN convs' PROVE convs'[v] \in DOMAIN contacts'
      <4>1. \/ convs'[v] = opener[o].contact
            \/ v \in DOMAIN convs /\ convs'[v] = convs[v]
        BY <3>1, <3>3, AppendProperties DEF BookTyped
      <4>. QED  BY <4>1, <3>1, <3>2 DEF ConversationsHaveContacts
    <3>. QED  BY <3>4, <3>5
  <2>. QED  BY <2>1, <2>2
             DEF CallStep, StartIngest, LookUpSender, CreateStub, TapContact, TapChat,
                 ReadConversation, InsertConversation, RereadConversation
<1>4. RowsGrow
  BY <1>2, <1>3 DEF RowsGrow
<1>5. /\ opener' \in [Openers -> [at : OpenerLabels, contact : Nat, conv : Nat]]
      /\ OpenersKnow'
  <2>1. PICK at \in OpenerLabels, c \in Nat, v \in Nat :
              /\ opener' = [opener EXCEPT ![o] = [at |-> at, contact |-> c, conv |-> v]]
              /\ at \in {"read", "insert", "reread", "open"} => c \in DOMAIN contacts'
              /\ at = "open" => v \in DOMAIN convs' /\ convs'[v] = c
    BY CallsKnowTheirRows
  <2>. QED  BY <2>1, <1>4, OpenerMoves
<1>6. BookTyped'
  BY <1>1, <1>2, <1>3, <1>5 DEF BookTyped
<1>7. EditorKnows'
  BY <1>1, <1>4, EditorKeepsKnowing
<1>8. UniqueRows' /\ AddableIsACard' /\ ConversationsHaveContacts'
  BY <1>1, <1>2, <1>3 DEF UniqueRows, AddableIsACard, ConversationsHaveContacts
<1>. QED  BY <1>5, <1>6, <1>7, <1>8

(* The process dies; the rows, and the conversations on the screen, stay.  *)
LEMMA CrashKeepsTheBook == BookInv /\ BookCrash => BookInv'
<1>. SUFFICES ASSUME BookInv, BookCrash PROVE BookInv'
  OBVIOUS
<1>. USE DEF BookInv, BookCrash
<1>1. UNCHANGED <<contacts, convs>> /\ scan' = IdleScan /\ form' = {} /\ editor' = ClosedEditor
  OBVIOUS
<1>2. ASSUME NEW o \in Openers
      PROVE  opener'[o] = IdleOpener \/ opener'[o] = opener[o]
  OBVIOUS
<1>3. opener' \in [Openers -> [at : OpenerLabels, contact : Nat, conv : Nat]]
  BY DEF BookTyped, IdleOpener, OpenerLabels
<1>4. OpenersKnow'
  <2>1. ASSUME NEW o \in Openers PROVE OpenerKnows(o)'
    <3>1. OpenerKnows(o)
      BY DEF OpenersKnow
    <3>. QED  BY <3>1, <1>1, <1>2 DEF OpenerKnows, IdleOpener
  <2>. QED  BY <2>1 DEF OpenersKnow
<1>5. BookTyped'
  BY <1>1, <1>3 DEF BookTyped, IdleScan, ClosedEditor, Texts, Cards, Ids
<1>6. UniqueRows' /\ AddableIsACard' /\ ConversationsHaveContacts' /\ EditorKnows'
  BY <1>1 DEF UniqueRows, AddableIsACard, ConversationsHaveContacts, EditorKnows, IdleScan
<1>. QED  BY <1>4, <1>5, <1>6

LEMMA NextKeepsTheBook == BookInv /\ [ContactBookNext]_bookVars => BookInv'
<1>. SUFFICES ASSUME BookInv, [ContactBookNext]_bookVars PROVE BookInv'
  OBVIOUS
<1>1. CASE ScanStep
  BY <1>1, ScansKeepTheBook
<1>2. CASE SaveScanned \/ SubmitForm \/ SaveForm
  BY <1>2, SavesKeepTheBook
<1>3. CASE UpdateContact \/ \E k \in 1..MaxContacts : EditContact(k)
  BY <1>3, EditsKeepTheBook
<1>4. CASE \E o \in Openers : CallStep(o)
  BY <1>4, CallsKeepTheBook
<1>5. CASE BookCrash
  BY <1>5, CrashKeepsTheBook
<1>6. CASE UNCHANGED bookVars
  BY <1>6 DEF bookVars, BookInv, BookTyped, UniqueRows, AddableIsACard, ConversationsHaveContacts,
              OpenersKnow, OpenerKnows, EditorKnows
<1>. QED  BY <1>1, <1>2, <1>3, <1>4, <1>5, <1>6 DEF ContactBookNext, ScanStep, CallStep

LEMMA EmptyBookIsFine == ContactBookInit => BookInv
<1>. SUFFICES ASSUME ContactBookInit PROVE BookInv
  OBVIOUS
<1>. USE DEF ContactBookInit
<1>1. contacts \in Seq(Ids) /\ Len(contacts) = 0 /\ convs \in Seq(1..MaxContacts) /\ Len(convs) = 0
  OBVIOUS
<1>2. DOMAIN contacts = {} /\ DOMAIN convs = {}
  BY <1>1
<1>3. BookTyped
  BY <1>1 DEF BookTyped, IdleScan, IdleOpener, ClosedEditor, OpenerLabels, Texts, Cards, Ids
<1>4. UniqueRows /\ AddableIsACard /\ ConversationsHaveContacts
  BY <1>2 DEF UniqueRows, AddableIsACard, ConversationsHaveContacts, IdleScan
<1>5. OpenersKnow /\ EditorKnows
  BY DEF OpenersKnow, OpenerKnows, EditorKnows, IdleOpener
<1>. QED  BY <1>3, <1>4, <1>5 DEF BookInv

-----------------------------------------------------------------------------
(* However scans, form saves, edits, arriving messages, taps and deaths of *)
(* the process interleave, what concerns one person ends up in one         *)
(* conversation (conversations.ts:44-69, contacts.ts:65-98).               *)
THEOREM OnePersonOneConversation == ContactBookSpec => []OneConversation
<1>1. BookInv => OneConversation
  <2>. SUFFICES ASSUME BookInv, NEW o \in Openers, NEW p \in Openers,
                       OpenerAt(o, "open"), OpenerAt(p, "open"),
                       contacts[opener[o].contact] = contacts[opener[p].contact],
                       contacts[opener[o].contact] # Unlinked
                PROVE  opener[o].conv = opener[p].conv
    BY DEF OneConversation
  <2>1. OpenerKnows(o) /\ OpenerKnows(p)
    BY DEF BookInv, OpenersKnow
  <2>2. opener[o].contact = opener[p].contact
    BY <2>1 DEF BookInv, UniqueRows, OpenerKnows, OpenerAt
  <2>. QED  BY <2>1, <2>2 DEF BookInv, UniqueRows, OpenerKnows, OpenerAt
<1>. QED  BY <1>1, EmptyBookIsFine, NextKeepsTheBook, PTL DEF ContactBookSpec

-----------------------------------------------------------------------------
(* Attachments.                                                            *)

USE ImageAssumption

-----------------------------------------------------------------------------
(* The inductive invariant.                                                *)

(* The types, without the bounds on what the ledger counts.                *)
ImageTyped ==
    /\ upload \in [Uploads -> {"none", "pool", "gone", "live", "spent"}]
    /\ post \in [at : PostLabels, u : 0..MaxUploads]
    /\ textJournal \in {"none", "submitted", "committed"}
    /\ textNode \in {"none", "pool", "dead", "committed"}
    /\ named \in 0..MaxUploads /\ imageRow \in 0..MaxUploads
    /\ textCell \in {"none", "live", "reclaimed"}
    /\ tap \in {"nothing", "stored", "fetched"}
    /\ bytesAck \in {"none", "queued", "sent", "applied"}
    /\ confirmed \in BOOLEAN
    /\ group \in [record : {"none", "submitted", "committed", "abandoned"},
                  node : {"none", "pool", "dead", "committed"}]
    /\ collect \in [Collectors -> CollectLabels]
    /\ ledger \in [reserved : Int, reclaimable : Int, released : Int]

(* Where the publishing call is, what it has in hand: an upload that       *)
(* reached the step before it, and a manifest that nobody has replaced.    *)
BeforeText == {"prepare", "record", "send", "await", "settle", "reserve", "text"}
UploadKnown == {"settle", "reserve", "text", "textwait", "create"}

PostKnows ==
    /\ post.at \in BeforeText => textJournal = "none"
    /\ post.at \in {"record", "send", "await"} => post.u \in Uploads
    /\ post.at = "record" => upload[post.u] = "none"
    /\ post.at = "send" => upload[post.u] = "gone"
    /\ post.at = "await" => upload[post.u] \in {"gone", "pool", "live"}
    /\ post.at \in UploadKnown => post.u \in Uploads /\ upload[post.u] = "live"
    /\ post.at \in {"textwait", "create"} => named = post.u /\ imageRow = 0
    /\ post.at = "create" => textNode = "committed"
    /\ post.at \in {"textwait", "create", "resume", "resumewait"} => textJournal # "none"

(* The message: nothing of it exists before its record, and its cell is    *)
(* there once its transaction is committed.                                *)
TextIsOne ==
    /\ textJournal = "none" => textNode = "none" /\ named = 0
    /\ textNode = "committed" <=> textCell # "none"
    /\ imageRow # 0 => imageRow = named /\ textNode = "committed"
    /\ named # 0 => upload[named] \in {"live", "spent"}

(* The receipt says that the recipient has the image.                      *)
ReceiptIsTrue ==
    /\ tap # "nothing" => textCell # "none"
    /\ bytesAck # "none" => tap = "fetched"
    /\ confirmed => bytesAck = "applied" /\ imageRow # 0

(* Whoever works on the group read that receipt, and only the group spends *)
(* chunks.                                                                 *)
GroupIsConfirmed ==
    /\ group.record # "none" => confirmed
    /\ group.node # "none" => group.record # "none"
    /\ \A c \in Collectors : collect[c] # "idle" => confirmed
    /\ \A u \in Uploads : upload[u] = "spent" <=> (u = imageRow /\ group.node = "committed")

(* One caller takes the record from submitted, which it never is again.    *)
Winner(c) == collect[c] \in {"fund", "release"}

OneWinner ==
    /\ \A c, d \in Collectors : Winner(c) /\ Winner(d) => c = d
    /\ \A c \in Collectors : Winner(c) => /\ group.record \in {"committed", "abandoned"}
                                          /\ group.node = "committed" /\ ledger.released = 0
    /\ ledger.released \in {0, 1}
    /\ ledger.released = 1 => /\ group.record \in {"committed", "abandoned"}
                              /\ group.node = "committed"
    /\ \A c \in Collectors :
          /\ collect[c] = "cas" => group.node = "committed"
          /\ collect[c] \in {"resume", "abandon", "send", "await", "cas"} =>
                group.record # "none"

ImageInv == ImageTyped /\ PostKnows /\ TextIsOne /\ ReceiptIsTrue /\ GroupIsConfirmed /\ OneWinner

-----------------------------------------------------------------------------
(* The publishing call. It leaves the receipt, the group and its passes    *)
(* alone; what it does to the uploads and to the message is in PostMoves.  *)

LEMMA ImageLabels ==
    /\ BeforeText \subseteq PostLabels /\ UploadKnown \subseteq PostLabels
    /\ IdlePost \in [at : PostLabels, u : 0..MaxUploads]
BY DEF BeforeText, UploadKnown, PostLabels, IdlePost

LEMMA PostMoves ==
    ImageInv /\ PostStep =>
        /\ upload' \in [Uploads -> {"none", "pool", "gone", "live", "spent"}]
        /\ post' \in [at : PostLabels, u : 0..MaxUploads]
        /\ textJournal' \in {"none", "submitted", "committed"}
        /\ textNode' \in {"none", "pool", "dead", "committed"}
        /\ named' \in 0..MaxUploads /\ imageRow' \in 0..MaxUploads
        /\ PostKnows' /\ TextIsOne'
        /\ imageRow # 0 => imageRow' = imageRow
        /\ \A u \in Uploads : upload'[u] = "spent" <=> upload[u] = "spent"
        /\ ledger' \in [reserved : Int, reclaimable : Int, released : Int]
        /\ ledger'.released = ledger.released
        /\ UNCHANGED <<tapping, collecting>>
<1>. SUFFICES ASSUME ImageInv, PostStep
             PROVE  /\ upload' \in [Uploads -> {"none", "pool", "gone", "live", "spent"}]
                    /\ post' \in [at : PostLabels, u : 0..MaxUploads]
                    /\ textJournal' \in {"none", "submitted", "committed"}
                    /\ textNode' \in {"none", "pool", "dead", "committed"}
                    /\ named' \in 0..MaxUploads /\ imageRow' \in 0..MaxUploads
                    /\ PostKnows' /\ TextIsOne'
                    /\ imageRow # 0 => imageRow' = imageRow
                    /\ \A u \in Uploads : upload'[u] = "spent" <=> upload[u] = "spent"
                    /\ ledger' \in [reserved : Int, reclaimable : Int, released : Int]
                    /\ ledger'.released = ledger.released
                    /\ UNCHANGED <<tapping, collecting>>
  OBVIOUS
<1>. USE DEF ImageInv, ImageTyped, Uploads, PostAt, PostGoto, tapping, collecting
<1>0. UNCHANGED <<tapping, collecting>>
  BY DEF PostStep, StartPost, CheckJournal, PrepareImage, RecordChunks, SendChunks, AwaitChunks,
         SettleChunks, ReserveChunks, PublishManifest, AwaitText, CreateImageRow, ResumeText,
         AwaitResumed
<1>1. CASE StartPost
  <2>1. /\ post' \in [at : PostLabels, u : 0..MaxUploads]
        /\ textJournal' \in {"none", "submitted", "committed"}
        /\ textNode' \in {"none", "pool", "dead", "committed"}
        /\ named' \in 0..MaxUploads /\ imageRow' \in 0..MaxUploads
    BY <1>1, ImageLabels DEF StartPost, PostKnows, PostLabels, UploadKnown, BeforeText
  <2>2. /\ upload' \in [Uploads -> {"none", "pool", "gone", "live", "spent"}]
        /\ \A u \in Uploads : upload'[u] = "spent" <=> upload[u] = "spent"
    BY <1>1 DEF StartPost, PostKnows
  <2>3. /\ ledger' \in [reserved : Int, reclaimable : Int, released : Int]
        /\ ledger'.released = ledger.released
    BY <1>1 DEF StartPost
  <2>4. PostKnows'
    BY <1>1, <2>1 DEF StartPost, PostKnows, TextIsOne, BeforeText, UploadKnown, IdlePost
  <2>5. TextIsOne' /\ (imageRow # 0 => imageRow' = imageRow)
    BY <1>1, <2>1 DEF StartPost, PostKnows, TextIsOne, BeforeText, UploadKnown
  <2>. QED  BY <1>0, <2>1, <2>2, <2>3, <2>4, <2>5
<1>2. CASE CheckJournal
  <2>1. /\ post' \in [at : PostLabels, u : 0..MaxUploads]
        /\ textJournal' \in {"none", "submitted", "committed"}
        /\ textNode' \in {"none", "pool", "dead", "committed"}
        /\ named' \in 0..MaxUploads /\ imageRow' \in 0..MaxUploads
    BY <1>2, ImageLabels DEF CheckJournal, PostKnows, PostLabels, UploadKnown, BeforeText
  <2>2. /\ upload' \in [Uploads -> {"none", "pool", "gone", "live", "spent"}]
        /\ \A u \in Uploads : upload'[u] = "spent" <=> upload[u] = "spent"
    BY <1>2 DEF CheckJournal, PostKnows
  <2>3. /\ ledger' \in [reserved : Int, reclaimable : Int, released : Int]
        /\ ledger'.released = ledger.released
    BY <1>2 DEF CheckJournal
  <2>4. PostKnows'
    BY <1>2, <2>1
       DEF CheckJournal, PostKnows, TextIsOne, BeforeText, UploadKnown, IdlePost
  <2>5. TextIsOne' /\ (imageRow # 0 => imageRow' = imageRow)
    BY <1>2, <2>1 DEF CheckJournal, PostKnows, TextIsOne, BeforeText, UploadKnown
  <2>. QED  BY <1>0, <2>1, <2>2, <2>3, <2>4, <2>5
<1>3. CASE PrepareImage
  <2>1. /\ post' \in [at : PostLabels, u : 0..MaxUploads]
        /\ textJournal' \in {"none", "submitted", "committed"}
        /\ textNode' \in {"none", "pool", "dead", "committed"}
        /\ named' \in 0..MaxUploads /\ imageRow' \in 0..MaxUploads
    BY <1>3, ImageLabels DEF PrepareImage, PostKnows, PostLabels, UploadKnown, BeforeText
  <2>2. /\ upload' \in [Uploads -> {"none", "pool", "gone", "live", "spent"}]
        /\ \A u \in Uploads : upload'[u] = "spent" <=> upload[u] = "spent"
    BY <1>3 DEF PrepareImage, PostKnows
  <2>3. /\ ledger' \in [reserved : Int, reclaimable : Int, released : Int]
        /\ ledger'.released = ledger.released
    BY <1>3 DEF PrepareImage
  <2>4. PostKnows'
    BY <1>3, <2>1
       DEF PrepareImage, PostKnows, TextIsOne, BeforeText, UploadKnown, IdlePost
  <2>5. TextIsOne' /\ (imageRow # 0 => imageRow' = imageRow)
    BY <1>3, <2>1 DEF PrepareImage, PostKnows, TextIsOne, BeforeText, UploadKnown
  <2>. QED  BY <1>0, <2>1, <2>2, <2>3, <2>4, <2>5
<1>4. CASE RecordChunks
  <2>1. /\ post' \in [at : PostLabels, u : 0..MaxUploads]
        /\ textJournal' \in {"none", "submitted", "committed"}
        /\ textNode' \in {"none", "pool", "dead", "committed"}
        /\ named' \in 0..MaxUploads /\ imageRow' \in 0..MaxUploads
    BY <1>4, ImageLabels DEF RecordChunks, PostKnows, PostLabels, UploadKnown, BeforeText
  <2>2. /\ upload' \in [Uploads -> {"none", "pool", "gone", "live", "spent"}]
        /\ \A u \in Uploads : upload'[u] = "spent" <=> upload[u] = "spent"
    BY <1>4 DEF RecordChunks, PostKnows
  <2>3. /\ ledger' \in [reserved : Int, reclaimable : Int, released : Int]
        /\ ledger'.released = ledger.released
    BY <1>4 DEF RecordChunks
  <2>4. PostKnows'
    BY <1>4, <2>1
       DEF RecordChunks, PostKnows, TextIsOne, BeforeText, UploadKnown, IdlePost
  <2>5. TextIsOne' /\ (imageRow # 0 => imageRow' = imageRow)
    BY <1>4, <2>1 DEF RecordChunks, PostKnows, TextIsOne, BeforeText, UploadKnown
  <2>. QED  BY <1>0, <2>1, <2>2, <2>3, <2>4, <2>5
<1>5. CASE SendChunks
  <2>1. /\ post' \in [at : PostLabels, u : 0..MaxUploads]
        /\ textJournal' \in {"none", "submitted", "committed"}
        /\ textNode' \in {"none", "pool", "dead", "committed"}
        /\ named' \in 0..MaxUploads /\ imageRow' \in 0..MaxUploads
    BY <1>5, ImageLabels DEF SendChunks, PostKnows, PostLabels, UploadKnown, BeforeText
  <2>2. /\ upload' \in [Uploads -> {"none", "pool", "gone", "live", "spent"}]
        /\ \A u \in Uploads : upload'[u] = "spent" <=> upload[u] = "spent"
    BY <1>5 DEF SendChunks, PostKnows
  <2>3. /\ ledger' \in [reserved : Int, reclaimable : Int, released : Int]
        /\ ledger'.released = ledger.released
    BY <1>5 DEF SendChunks
  <2>4. PostKnows'
    BY <1>5, <2>1
       DEF SendChunks, PostKnows, TextIsOne, BeforeText, UploadKnown, IdlePost
  <2>5. TextIsOne' /\ (imageRow # 0 => imageRow' = imageRow)
    BY <1>5, <2>1 DEF SendChunks, PostKnows, TextIsOne, BeforeText, UploadKnown
  <2>. QED  BY <1>0, <2>1, <2>2, <2>3, <2>4, <2>5
<1>6. CASE AwaitChunks
  <2>1. /\ post' \in [at : PostLabels, u : 0..MaxUploads]
        /\ textJournal' \in {"none", "submitted", "committed"}
        /\ textNode' \in {"none", "pool", "dead", "committed"}
        /\ named' \in 0..MaxUploads /\ imageRow' \in 0..MaxUploads
    BY <1>6, ImageLabels DEF AwaitChunks, PostKnows, PostLabels, UploadKnown, BeforeText
  <2>2. /\ upload' \in [Uploads -> {"none", "pool", "gone", "live", "spent"}]
        /\ \A u \in Uploads : upload'[u] = "spent" <=> upload[u] = "spent"
    BY <1>6 DEF AwaitChunks, PostKnows
  <2>3. /\ ledger' \in [reserved : Int, reclaimable : Int, released : Int]
        /\ ledger'.released = ledger.released
    BY <1>6 DEF AwaitChunks
  <2>4. PostKnows'
    BY <1>6, <2>1
       DEF AwaitChunks, PostKnows, TextIsOne, BeforeText, UploadKnown, IdlePost,
           ChunksLanded
  <2>5. TextIsOne' /\ (imageRow # 0 => imageRow' = imageRow)
    BY <1>6, <2>1 DEF AwaitChunks, PostKnows, TextIsOne, BeforeText, UploadKnown
  <2>. QED  BY <1>0, <2>1, <2>2, <2>3, <2>4, <2>5
<1>7. CASE SettleChunks
  <2>1. /\ post' \in [at : PostLabels, u : 0..MaxUploads]
        /\ textJournal' \in {"none", "submitted", "committed"}
        /\ textNode' \in {"none", "pool", "dead", "committed"}
        /\ named' \in 0..MaxUploads /\ imageRow' \in 0..MaxUploads
    BY <1>7, ImageLabels DEF SettleChunks, PostKnows, PostLabels, UploadKnown, BeforeText
  <2>2. /\ upload' \in [Uploads -> {"none", "pool", "gone", "live", "spent"}]
        /\ \A u \in Uploads : upload'[u] = "spent" <=> upload[u] = "spent"
    BY <1>7 DEF SettleChunks, PostKnows
  <2>3. /\ ledger' \in [reserved : Int, reclaimable : Int, released : Int]
        /\ ledger'.released = ledger.released
    BY <1>7 DEF SettleChunks
  <2>4. PostKnows'
    BY <1>7, <2>1
       DEF SettleChunks, PostKnows, TextIsOne, BeforeText, UploadKnown, IdlePost
  <2>5. TextIsOne' /\ (imageRow # 0 => imageRow' = imageRow)
    BY <1>7, <2>1 DEF SettleChunks, PostKnows, TextIsOne, BeforeText, UploadKnown
  <2>. QED  BY <1>0, <2>1, <2>2, <2>3, <2>4, <2>5
<1>8. CASE ReserveChunks
  <2>1. /\ post' \in [at : PostLabels, u : 0..MaxUploads]
        /\ textJournal' \in {"none", "submitted", "committed"}
        /\ textNode' \in {"none", "pool", "dead", "committed"}
        /\ named' \in 0..MaxUploads /\ imageRow' \in 0..MaxUploads
    BY <1>8, ImageLabels DEF ReserveChunks, PostKnows, PostLabels, UploadKnown, BeforeText
  <2>2. /\ upload' \in [Uploads -> {"none", "pool", "gone", "live", "spent"}]
        /\ \A u \in Uploads : upload'[u] = "spent" <=> upload[u] = "spent"
    BY <1>8 DEF ReserveChunks, PostKnows
  <2>3. /\ ledger' \in [reserved : Int, reclaimable : Int, released : Int]
        /\ ledger'.released = ledger.released
    BY <1>8 DEF ReserveChunks
  <2>4. PostKnows'
    BY <1>8, <2>1
       DEF ReserveChunks, PostKnows, TextIsOne, BeforeText, UploadKnown, IdlePost
  <2>5. TextIsOne' /\ (imageRow # 0 => imageRow' = imageRow)
    BY <1>8, <2>1 DEF ReserveChunks, PostKnows, TextIsOne, BeforeText, UploadKnown
  <2>. QED  BY <1>0, <2>1, <2>2, <2>3, <2>4, <2>5
<1>9. CASE PublishManifest
  <2>1. /\ post' \in [at : PostLabels, u : 0..MaxUploads]
        /\ textJournal' \in {"none", "submitted", "committed"}
        /\ textNode' \in {"none", "pool", "dead", "committed"}
        /\ named' \in 0..MaxUploads /\ imageRow' \in 0..MaxUploads
    BY <1>9, ImageLabels DEF PublishManifest, PostKnows, PostLabels, UploadKnown, BeforeText
  <2>2. /\ upload' \in [Uploads -> {"none", "pool", "gone", "live", "spent"}]
        /\ \A u \in Uploads : upload'[u] = "spent" <=> upload[u] = "spent"
    BY <1>9 DEF PublishManifest, PostKnows
  <2>3. /\ ledger' \in [reserved : Int, reclaimable : Int, released : Int]
        /\ ledger'.released = ledger.released
    BY <1>9 DEF PublishManifest
  <2>4. PostKnows'
    BY <1>9, <2>1
       DEF PublishManifest, PostKnows, TextIsOne, BeforeText, UploadKnown, IdlePost
  <2>5. TextIsOne' /\ (imageRow # 0 => imageRow' = imageRow)
    BY <1>9, <2>1 DEF PublishManifest, PostKnows, TextIsOne, BeforeText, UploadKnown
  <2>. QED  BY <1>0, <2>1, <2>2, <2>3, <2>4, <2>5
<1>10. CASE AwaitText
  <2>1. /\ post' \in [at : PostLabels, u : 0..MaxUploads]
        /\ textJournal' \in {"none", "submitted", "committed"}
        /\ textNode' \in {"none", "pool", "dead", "committed"}
        /\ named' \in 0..MaxUploads /\ imageRow' \in 0..MaxUploads
    BY <1>10, ImageLabels DEF AwaitText, PostKnows, PostLabels, UploadKnown, BeforeText
  <2>2. /\ upload' \in [Uploads -> {"none", "pool", "gone", "live", "spent"}]
        /\ \A u \in Uploads : upload'[u] = "spent" <=> upload[u] = "spent"
    BY <1>10 DEF AwaitText, PostKnows
  <2>3. /\ ledger' \in [reserved : Int, reclaimable : Int, released : Int]
        /\ ledger'.released = ledger.released
    BY <1>10 DEF AwaitText
  <2>4. PostKnows'
    BY <1>10, <2>1
       DEF AwaitText, PostKnows, TextIsOne, BeforeText, UploadKnown, IdlePost
  <2>5. TextIsOne' /\ (imageRow # 0 => imageRow' = imageRow)
    BY <1>10, <2>1 DEF AwaitText, PostKnows, TextIsOne, BeforeText, UploadKnown
  <2>. QED  BY <1>0, <2>1, <2>2, <2>3, <2>4, <2>5
<1>11. CASE CreateImageRow
  <2>1. /\ post' \in [at : PostLabels, u : 0..MaxUploads]
        /\ textJournal' \in {"none", "submitted", "committed"}
        /\ textNode' \in {"none", "pool", "dead", "committed"}
        /\ named' \in 0..MaxUploads /\ imageRow' \in 0..MaxUploads
    BY <1>11, ImageLabels DEF CreateImageRow, PostKnows, PostLabels, UploadKnown, BeforeText
  <2>2. /\ upload' \in [Uploads -> {"none", "pool", "gone", "live", "spent"}]
        /\ \A u \in Uploads : upload'[u] = "spent" <=> upload[u] = "spent"
    BY <1>11 DEF CreateImageRow, PostKnows
  <2>3. /\ ledger' \in [reserved : Int, reclaimable : Int, released : Int]
        /\ ledger'.released = ledger.released
    BY <1>11 DEF CreateImageRow
  <2>4. PostKnows'
    BY <1>11, <2>1
       DEF CreateImageRow, PostKnows, TextIsOne, BeforeText, UploadKnown, IdlePost
  <2>5. TextIsOne' /\ (imageRow # 0 => imageRow' = imageRow)
    BY <1>11, <2>1 DEF CreateImageRow, PostKnows, TextIsOne, BeforeText, UploadKnown
  <2>. QED  BY <1>0, <2>1, <2>2, <2>3, <2>4, <2>5
<1>12. CASE ResumeText
  <2>1. /\ post' \in [at : PostLabels, u : 0..MaxUploads]
        /\ textJournal' \in {"none", "submitted", "committed"}
        /\ textNode' \in {"none", "pool", "dead", "committed"}
        /\ named' \in 0..MaxUploads /\ imageRow' \in 0..MaxUploads
    <3>1. post' \in [at : PostLabels, u : 0..MaxUploads]
      BY <1>12, ImageLabels DEF ResumeText, PostKnows, PostLabels, UploadKnown, BeforeText
    <3>2. /\ textJournal' \in {"none", "submitted", "committed"}
          /\ textNode' \in {"none", "pool", "dead", "committed"}
      BY <1>12 DEF ResumeText
    <3>3. named' \in 0..MaxUploads /\ imageRow' \in 0..MaxUploads
      BY <1>12 DEF ResumeText, PostKnows, UploadKnown, BeforeText
    <3>. QED  BY <3>1, <3>2, <3>3
  <2>2. /\ upload' \in [Uploads -> {"none", "pool", "gone", "live", "spent"}]
        /\ \A u \in Uploads : upload'[u] = "spent" <=> upload[u] = "spent"
    BY <1>12 DEF ResumeText, PostKnows
  <2>3. /\ ledger' \in [reserved : Int, reclaimable : Int, released : Int]
        /\ ledger'.released = ledger.released
    BY <1>12 DEF ResumeText
  <2>4. PostKnows'
    BY <1>12, <2>1
       DEF ResumeText, PostKnows, TextIsOne, BeforeText, UploadKnown, IdlePost
  <2>5. TextIsOne' /\ (imageRow # 0 => imageRow' = imageRow)
    BY <1>12, <2>1 DEF ResumeText, PostKnows, TextIsOne, BeforeText, UploadKnown
  <2>. QED  BY <1>0, <2>1, <2>2, <2>3, <2>4, <2>5
<1>13. CASE AwaitResumed
  <2>1. /\ post' \in [at : PostLabels, u : 0..MaxUploads]
        /\ textJournal' \in {"none", "submitted", "committed"}
        /\ textNode' \in {"none", "pool", "dead", "committed"}
        /\ named' \in 0..MaxUploads /\ imageRow' \in 0..MaxUploads
    BY <1>13, ImageLabels DEF AwaitResumed, PostKnows, PostLabels, UploadKnown, BeforeText
  <2>2. /\ upload' \in [Uploads -> {"none", "pool", "gone", "live", "spent"}]
        /\ \A u \in Uploads : upload'[u] = "spent" <=> upload[u] = "spent"
    BY <1>13 DEF AwaitResumed, PostKnows
  <2>3. /\ ledger' \in [reserved : Int, reclaimable : Int, released : Int]
        /\ ledger'.released = ledger.released
    BY <1>13 DEF AwaitResumed
  <2>4. PostKnows'
    BY <1>13, <2>1
       DEF AwaitResumed, PostKnows, TextIsOne, BeforeText, UploadKnown, IdlePost
  <2>5. TextIsOne' /\ (imageRow # 0 => imageRow' = imageRow)
    BY <1>13, <2>1 DEF AwaitResumed, PostKnows, TextIsOne, BeforeText, UploadKnown
  <2>. QED  BY <1>0, <2>1, <2>2, <2>3, <2>4, <2>5
<1>. QED
  BY <1>1, <1>2, <1>3, <1>4, <1>5, <1>6, <1>7, <1>8, <1>9, <1>10, <1>11, <1>12,
     <1>13
     DEF PostStep

LEMMA PostKeepsTheImage == ImageInv /\ PostStep => ImageInv'
<1>. SUFFICES ASSUME ImageInv, PostStep PROVE ImageInv'
  OBVIOUS
<1>1. UNCHANGED <<textCell, tap, bytesAck, confirmed, group, collect>>
  BY PostMoves DEF tapping, collecting
<1>2. ImageTyped' /\ PostKnows' /\ TextIsOne'
  BY <1>1, PostMoves DEF ImageInv, ImageTyped
<1>3. confirmed => imageRow' = imageRow
  BY PostMoves DEF ImageInv, ReceiptIsTrue
<1>4. ReceiptIsTrue'
  BY <1>1, <1>3 DEF ImageInv, ReceiptIsTrue
<1>5. GroupIsConfirmed'
  <2>1. \A u \in Uploads : upload'[u] = "spent" <=> upload[u] = "spent"
    BY PostMoves
  <2>2. group.node = "committed" => imageRow' = imageRow
    BY <1>3 DEF ImageInv, GroupIsConfirmed
  <2>. QED  BY <1>1, <2>1, <2>2 DEF ImageInv, GroupIsConfirmed
<1>6. OneWinner'
  BY <1>1, PostMoves DEF ImageInv, OneWinner, Winner
<1>. QED  BY <1>2, <1>4, <1>5, <1>6 DEF ImageInv

-----------------------------------------------------------------------------
(* The node, the recipient and its receipt.                                *)

LEMMA NodeKeepsTheImage ==
    ImageInv /\ (ChunksLand \/ TextLands \/ TextLost \/ GroupLands \/ GroupLost) => ImageInv'
<1>. SUFFICES ASSUME ImageInv, ChunksLand \/ TextLands \/ TextLost \/ GroupLands \/ GroupLost
             PROVE  ImageInv'
  OBVIOUS
<1>. USE DEF ImageInv
<1>1. CASE ChunksLand
  <2>1. ImageTyped'
    BY <1>1 DEF ChunksLand, ImageTyped, Uploads, sending, tapping, collecting
  <2>2. PostKnows'
    BY <1>1, <2>1
       DEF ChunksLand, PostKnows, ImageTyped, Uploads, sending, tapping, collecting,
           TextIsOne, ReceiptIsTrue, GroupIsConfirmed, BeforeText, UploadKnown
  <2>3. TextIsOne'
    BY <1>1, <2>1
       DEF ChunksLand, TextIsOne, ImageTyped, Uploads, sending, tapping, collecting,
           GroupIsConfirmed, ReceiptIsTrue
  <2>4. ReceiptIsTrue'
    BY <1>1, <2>1
       DEF ChunksLand, ReceiptIsTrue, ImageTyped, Uploads, sending, tapping, collecting,
           TextIsOne
  <2>5. GroupIsConfirmed'
    BY <1>1, <2>1
       DEF ChunksLand, GroupIsConfirmed, ImageTyped, Uploads, sending, tapping,
           collecting, ReceiptIsTrue, TextIsOne
  <2>6. OneWinner'
    BY <1>1, <2>1
       DEF ChunksLand, OneWinner, ImageTyped, Uploads, sending, tapping, collecting,
           Winner, GroupIsConfirmed
  <2>. QED  BY <2>1, <2>2, <2>3, <2>4, <2>5, <2>6
<1>2. CASE TextLands
  <2>1. ImageTyped'
    BY <1>2 DEF TextLands, ImageTyped, Uploads, sending, tapping, collecting
  <2>2. PostKnows'
    BY <1>2, <2>1
       DEF TextLands, PostKnows, ImageTyped, Uploads, sending, tapping, collecting,
           TextIsOne, ReceiptIsTrue, GroupIsConfirmed, BeforeText, UploadKnown
  <2>3. TextIsOne'
    BY <1>2, <2>1
       DEF TextLands, TextIsOne, ImageTyped, Uploads, sending, tapping, collecting,
           GroupIsConfirmed, ReceiptIsTrue
  <2>4. ReceiptIsTrue'
    BY <1>2, <2>1
       DEF TextLands, ReceiptIsTrue, ImageTyped, Uploads, sending, tapping, collecting,
           TextIsOne
  <2>5. GroupIsConfirmed'
    BY <1>2, <2>1
       DEF TextLands, GroupIsConfirmed, ImageTyped, Uploads, sending, tapping, collecting,
           ReceiptIsTrue, TextIsOne
  <2>6. OneWinner'
    BY <1>2, <2>1
       DEF TextLands, OneWinner, ImageTyped, Uploads, sending, tapping, collecting,
           Winner, GroupIsConfirmed
  <2>. QED  BY <2>1, <2>2, <2>3, <2>4, <2>5, <2>6
<1>3. CASE TextLost
  <2>1. ImageTyped'
    BY <1>3 DEF TextLost, ImageTyped, Uploads, sending, tapping, collecting
  <2>2. PostKnows'
    BY <1>3, <2>1
       DEF TextLost, PostKnows, ImageTyped, Uploads, sending, tapping, collecting,
           TextIsOne, ReceiptIsTrue, GroupIsConfirmed, BeforeText, UploadKnown
  <2>3. TextIsOne'
    BY <1>3, <2>1
       DEF TextLost, TextIsOne, ImageTyped, Uploads, sending, tapping, collecting,
           GroupIsConfirmed, ReceiptIsTrue
  <2>4. ReceiptIsTrue'
    BY <1>3, <2>1
       DEF TextLost, ReceiptIsTrue, ImageTyped, Uploads, sending, tapping, collecting,
           TextIsOne
  <2>5. GroupIsConfirmed'
    BY <1>3, <2>1
       DEF TextLost, GroupIsConfirmed, ImageTyped, Uploads, sending, tapping, collecting,
           ReceiptIsTrue, TextIsOne
  <2>6. OneWinner'
    BY <1>3, <2>1
       DEF TextLost, OneWinner, ImageTyped, Uploads, sending, tapping, collecting, Winner,
           GroupIsConfirmed
  <2>. QED  BY <2>1, <2>2, <2>3, <2>4, <2>5, <2>6
<1>4. CASE GroupLands
  <2>1. ImageTyped'
    BY <1>4 DEF GroupLands, ImageTyped, Uploads, sending, tapping, collecting
  <2>2. PostKnows'
    BY <1>4, <2>1
       DEF GroupLands, PostKnows, ImageTyped, Uploads, sending, tapping, collecting,
           TextIsOne, ReceiptIsTrue, GroupIsConfirmed, BeforeText, UploadKnown
  <2>3. TextIsOne'
    BY <1>4, <2>1
       DEF GroupLands, TextIsOne, ImageTyped, Uploads, sending, tapping, collecting,
           GroupIsConfirmed, ReceiptIsTrue
  <2>4. ReceiptIsTrue'
    BY <1>4, <2>1
       DEF GroupLands, ReceiptIsTrue, ImageTyped, Uploads, sending, tapping, collecting,
           TextIsOne
  <2>5. GroupIsConfirmed'
    BY <1>4, <2>1
       DEF GroupLands, GroupIsConfirmed, ImageTyped, Uploads, sending, tapping,
           collecting, ReceiptIsTrue, TextIsOne
  <2>6. OneWinner'
    BY <1>4, <2>1
       DEF GroupLands, OneWinner, ImageTyped, Uploads, sending, tapping, collecting,
           Winner, GroupIsConfirmed
  <2>. QED  BY <2>1, <2>2, <2>3, <2>4, <2>5, <2>6
<1>5. CASE GroupLost
  <2>1. ImageTyped'
    BY <1>5 DEF GroupLost, ImageTyped, Uploads, sending, tapping, collecting
  <2>2. PostKnows'
    BY <1>5, <2>1
       DEF GroupLost, PostKnows, ImageTyped, Uploads, sending, tapping, collecting,
           TextIsOne, ReceiptIsTrue, GroupIsConfirmed, BeforeText, UploadKnown
  <2>3. TextIsOne'
    BY <1>5, <2>1
       DEF GroupLost, TextIsOne, ImageTyped, Uploads, sending, tapping, collecting,
           GroupIsConfirmed, ReceiptIsTrue
  <2>4. ReceiptIsTrue'
    BY <1>5, <2>1
       DEF GroupLost, ReceiptIsTrue, ImageTyped, Uploads, sending, tapping, collecting,
           TextIsOne
  <2>5. GroupIsConfirmed'
    BY <1>5, <2>1
       DEF GroupLost, GroupIsConfirmed, ImageTyped, Uploads, sending, tapping, collecting,
           ReceiptIsTrue, TextIsOne
  <2>6. OneWinner'
    BY <1>5, <2>1
       DEF GroupLost, OneWinner, ImageTyped, Uploads, sending, tapping, collecting,
           Winner, GroupIsConfirmed
  <2>. QED  BY <2>1, <2>2, <2>3, <2>4, <2>5, <2>6
<1>. QED  BY <1>1, <1>2, <1>3, <1>4, <1>5

LEMMA ReceiptKeepsTheImage ==
    ImageInv /\ (ReceiveText \/ ReclaimText \/ TapImage \/ PublishBytesAck \/ ApplyBytesAck) => ImageInv'
<1>. SUFFICES ASSUME ImageInv,
                    \/ ReceiveText \/ ReclaimText \/ TapImage
                    \/ PublishBytesAck \/ ApplyBytesAck
             PROVE  ImageInv'
  OBVIOUS
<1>. USE DEF ImageInv
<1>1. CASE ReceiveText
  <2>1. ImageTyped'
    BY <1>1 DEF ReceiveText, ImageTyped, Uploads, sending, tapping, collecting
  <2>2. PostKnows'
    BY <1>1, <2>1
       DEF ReceiveText, PostKnows, ImageTyped, Uploads, sending, tapping, collecting,
           TextIsOne, ReceiptIsTrue, GroupIsConfirmed, BeforeText, UploadKnown
  <2>3. TextIsOne'
    BY <1>1, <2>1
       DEF ReceiveText, TextIsOne, ImageTyped, Uploads, sending, tapping, collecting,
           GroupIsConfirmed, ReceiptIsTrue
  <2>4. ReceiptIsTrue'
    BY <1>1, <2>1
       DEF ReceiveText, ReceiptIsTrue, ImageTyped, Uploads, sending, tapping, collecting,
           TextIsOne
  <2>5. GroupIsConfirmed'
    BY <1>1, <2>1
       DEF ReceiveText, GroupIsConfirmed, ImageTyped, Uploads, sending, tapping,
           collecting, ReceiptIsTrue, TextIsOne
  <2>6. OneWinner'
    BY <1>1, <2>1
       DEF ReceiveText, OneWinner, ImageTyped, Uploads, sending, tapping, collecting,
           Winner, GroupIsConfirmed
  <2>. QED  BY <2>1, <2>2, <2>3, <2>4, <2>5, <2>6
<1>2. CASE ReclaimText
  <2>1. ImageTyped'
    BY <1>2 DEF ReclaimText, ImageTyped, Uploads, sending, tapping, collecting
  <2>2. PostKnows'
    BY <1>2, <2>1
       DEF ReclaimText, PostKnows, ImageTyped, Uploads, sending, tapping, collecting,
           TextIsOne, ReceiptIsTrue, GroupIsConfirmed, BeforeText, UploadKnown
  <2>3. TextIsOne'
    BY <1>2, <2>1
       DEF ReclaimText, TextIsOne, ImageTyped, Uploads, sending, tapping, collecting,
           GroupIsConfirmed, ReceiptIsTrue
  <2>4. ReceiptIsTrue'
    BY <1>2, <2>1
       DEF ReclaimText, ReceiptIsTrue, ImageTyped, Uploads, sending, tapping, collecting,
           TextIsOne
  <2>5. GroupIsConfirmed'
    BY <1>2, <2>1
       DEF ReclaimText, GroupIsConfirmed, ImageTyped, Uploads, sending, tapping,
           collecting, ReceiptIsTrue, TextIsOne
  <2>6. OneWinner'
    BY <1>2, <2>1
       DEF ReclaimText, OneWinner, ImageTyped, Uploads, sending, tapping, collecting,
           Winner, GroupIsConfirmed
  <2>. QED  BY <2>1, <2>2, <2>3, <2>4, <2>5, <2>6
<1>3. CASE TapImage
  <2>1. ImageTyped'
    BY <1>3 DEF TapImage, ImageTyped, Uploads, sending, tapping, collecting
  <2>2. PostKnows'
    BY <1>3, <2>1
       DEF TapImage, PostKnows, ImageTyped, Uploads, sending, tapping, collecting,
           TextIsOne, ReceiptIsTrue, GroupIsConfirmed, BeforeText, UploadKnown
  <2>3. TextIsOne'
    BY <1>3, <2>1
       DEF TapImage, TextIsOne, ImageTyped, Uploads, sending, tapping, collecting,
           GroupIsConfirmed, ReceiptIsTrue
  <2>4. ReceiptIsTrue'
    BY <1>3, <2>1
       DEF TapImage, ReceiptIsTrue, ImageTyped, Uploads, sending, tapping, collecting,
           TextIsOne
  <2>5. GroupIsConfirmed'
    BY <1>3, <2>1
       DEF TapImage, GroupIsConfirmed, ImageTyped, Uploads, sending, tapping, collecting,
           ReceiptIsTrue, TextIsOne
  <2>6. OneWinner'
    BY <1>3, <2>1
       DEF TapImage, OneWinner, ImageTyped, Uploads, sending, tapping, collecting, Winner,
           GroupIsConfirmed
  <2>. QED  BY <2>1, <2>2, <2>3, <2>4, <2>5, <2>6
<1>4. CASE PublishBytesAck
  <2>1. ImageTyped'
    BY <1>4 DEF PublishBytesAck, ImageTyped, Uploads, sending, tapping, collecting
  <2>2. PostKnows'
    BY <1>4, <2>1
       DEF PublishBytesAck, PostKnows, ImageTyped, Uploads, sending, tapping, collecting,
           TextIsOne, ReceiptIsTrue, GroupIsConfirmed, BeforeText, UploadKnown
  <2>3. TextIsOne'
    BY <1>4, <2>1
       DEF PublishBytesAck, TextIsOne, ImageTyped, Uploads, sending, tapping, collecting,
           GroupIsConfirmed, ReceiptIsTrue
  <2>4. ReceiptIsTrue'
    BY <1>4, <2>1
       DEF PublishBytesAck, ReceiptIsTrue, ImageTyped, Uploads, sending, tapping,
           collecting, TextIsOne
  <2>5. GroupIsConfirmed'
    BY <1>4, <2>1
       DEF PublishBytesAck, GroupIsConfirmed, ImageTyped, Uploads, sending, tapping,
           collecting, ReceiptIsTrue, TextIsOne
  <2>6. OneWinner'
    BY <1>4, <2>1
       DEF PublishBytesAck, OneWinner, ImageTyped, Uploads, sending, tapping, collecting,
           Winner, GroupIsConfirmed
  <2>. QED  BY <2>1, <2>2, <2>3, <2>4, <2>5, <2>6
<1>5. CASE ApplyBytesAck
  <2>1. ImageTyped'
    BY <1>5 DEF ApplyBytesAck, ImageTyped, Uploads, sending, tapping, collecting
  <2>2. PostKnows'
    BY <1>5, <2>1
       DEF ApplyBytesAck, PostKnows, ImageTyped, Uploads, sending, tapping, collecting,
           TextIsOne, ReceiptIsTrue, GroupIsConfirmed, BeforeText, UploadKnown
  <2>3. TextIsOne'
    BY <1>5, <2>1
       DEF ApplyBytesAck, TextIsOne, ImageTyped, Uploads, sending, tapping, collecting,
           GroupIsConfirmed, ReceiptIsTrue
  <2>4. ReceiptIsTrue'
    BY <1>5, <2>1
       DEF ApplyBytesAck, ReceiptIsTrue, ImageTyped, Uploads, sending, tapping,
           collecting, TextIsOne
  <2>5. GroupIsConfirmed'
    BY <1>5, <2>1
       DEF ApplyBytesAck, GroupIsConfirmed, ImageTyped, Uploads, sending, tapping,
           collecting, ReceiptIsTrue, TextIsOne
  <2>6. OneWinner'
    BY <1>5, <2>1
       DEF ApplyBytesAck, OneWinner, ImageTyped, Uploads, sending, tapping, collecting,
           Winner, GroupIsConfirmed
  <2>. QED  BY <2>1, <2>2, <2>3, <2>4, <2>5, <2>6
<1>. QED  BY <1>1, <1>2, <1>3, <1>4, <1>5

-----------------------------------------------------------------------------
(* The passes over the group. They leave the message and its receipt, and  *)
(* the cells of every upload, as they are.                                 *)

LEMMA CollectMoves ==
    ASSUME NEW c \in Collectors, CollectStep(c)
    PROVE  UNCHANGED <<sending, tapping>>
BY DEF CollectStep, StartCollect, FindGroup, ResumeGroup, AbandonGroup, LiveChunks,
       RecordGroup, SendGroup, AwaitGroup, CasGroup, FundGroup, ReleaseGroup

LEMMA CollectKeepsTheImage ==
    ASSUME ImageInv, NEW c \in Collectors, CollectStep(c)
    PROVE  ImageInv'
<1>. USE DEF ImageInv, CollectAt, CollectGoto
<1>0. UNCHANGED <<upload, post, textJournal, textNode, named, imageRow, textCell, tap,
                  bytesAck, confirmed>>
  BY CollectMoves DEF sending, tapping
<1>a. PostKnows' /\ TextIsOne' /\ ReceiptIsTrue'
  BY <1>0 DEF PostKnows, TextIsOne, ReceiptIsTrue
<1>b. CollectLabels = {"idle", "find", "resume", "abandon", "cells", "record", "send", "await",
                       "cas", "fund", "release"}
  BY DEF CollectLabels
<1>1. CASE StartCollect(c)
  <2>1. ImageTyped'
    BY <1>0, <1>b, <1>1 DEF StartCollect, ImageTyped, Collectable
  <2>2. GroupIsConfirmed'
    BY <1>0, <1>1 DEF StartCollect, ImageTyped, GroupIsConfirmed, Collectable
  <2>3. OneWinner'
    BY <1>0, <1>1
       DEF StartCollect, ImageTyped, OneWinner, Winner, GroupIsConfirmed, Collectable
  <2>. QED  BY <1>a, <2>1, <2>2, <2>3
<1>2. CASE FindGroup(c)
  <2>1. ImageTyped'
    BY <1>0, <1>b, <1>2 DEF FindGroup, ImageTyped
  <2>2. GroupIsConfirmed'
    BY <1>0, <1>2 DEF FindGroup, ImageTyped, GroupIsConfirmed
  <2>3. OneWinner'
    BY <1>0, <1>2 DEF FindGroup, ImageTyped, OneWinner, Winner, GroupIsConfirmed
  <2>. QED  BY <1>a, <2>1, <2>2, <2>3
<1>3. CASE ResumeGroup(c)
  <2>1. ImageTyped'
    BY <1>0, <1>b, <1>3 DEF ResumeGroup, ImageTyped
  <2>2. GroupIsConfirmed'
    BY <1>0, <1>3 DEF ResumeGroup, ImageTyped, GroupIsConfirmed, OneWinner
  <2>3. OneWinner'
    BY <1>0, <1>3 DEF ResumeGroup, ImageTyped, OneWinner, Winner, GroupIsConfirmed
  <2>. QED  BY <1>a, <2>1, <2>2, <2>3
<1>4. CASE AbandonGroup(c)
  <2>1. ImageTyped'
    BY <1>0, <1>b, <1>4 DEF AbandonGroup, ImageTyped
  <2>2. GroupIsConfirmed'
    BY <1>0, <1>4 DEF AbandonGroup, ImageTyped, GroupIsConfirmed
  <2>3. OneWinner'
    BY <1>0, <1>4 DEF AbandonGroup, ImageTyped, OneWinner, Winner, GroupIsConfirmed
  <2>. QED  BY <1>a, <2>1, <2>2, <2>3
<1>5. CASE LiveChunks(c)
  <2>1. ImageTyped'
    BY <1>0, <1>b, <1>5 DEF LiveChunks, ImageTyped
  <2>2. GroupIsConfirmed'
    BY <1>0, <1>5 DEF LiveChunks, ImageTyped, GroupIsConfirmed
  <2>3. OneWinner'
    BY <1>0, <1>5 DEF LiveChunks, ImageTyped, OneWinner, Winner, GroupIsConfirmed
  <2>. QED  BY <1>a, <2>1, <2>2, <2>3
<1>6. CASE RecordGroup(c)
  <2>1. ImageTyped'
    BY <1>0, <1>b, <1>6 DEF RecordGroup, ImageTyped
  <2>2. GroupIsConfirmed'
    BY <1>0, <1>6 DEF RecordGroup, ImageTyped, GroupIsConfirmed
  <2>3. OneWinner'
    BY <1>0, <1>6 DEF RecordGroup, ImageTyped, OneWinner, Winner, GroupIsConfirmed
  <2>. QED  BY <1>a, <2>1, <2>2, <2>3
<1>7. CASE SendGroup(c)
  <2>1. ImageTyped'
    BY <1>0, <1>b, <1>7 DEF SendGroup, ImageTyped
  <2>2. GroupIsConfirmed'
    BY <1>0, <1>7 DEF SendGroup, ImageTyped, GroupIsConfirmed, OneWinner
  <2>3. OneWinner'
    BY <1>0, <1>7 DEF SendGroup, ImageTyped, OneWinner, Winner, GroupIsConfirmed
  <2>. QED  BY <1>a, <2>1, <2>2, <2>3
<1>8. CASE AwaitGroup(c)
  <2>1. ImageTyped'
    BY <1>0, <1>b, <1>8 DEF AwaitGroup, ImageTyped
  <2>2. GroupIsConfirmed'
    BY <1>0, <1>8 DEF AwaitGroup, ImageTyped, GroupIsConfirmed
  <2>3. OneWinner'
    BY <1>0, <1>8 DEF AwaitGroup, ImageTyped, OneWinner, Winner, GroupIsConfirmed
  <2>. QED  BY <1>a, <2>1, <2>2, <2>3
<1>9. CASE CasGroup(c)
  <2>1. ImageTyped'
    BY <1>0, <1>b, <1>9 DEF CasGroup, ImageTyped, Wins
  <2>2. GroupIsConfirmed'
    BY <1>0, <1>9 DEF CasGroup, ImageTyped, GroupIsConfirmed, Wins
  <2>3. OneWinner'
    BY <1>0, <1>9 DEF CasGroup, ImageTyped, OneWinner, Winner, GroupIsConfirmed, Wins
  <2>. QED  BY <1>a, <2>1, <2>2, <2>3
<1>10. CASE FundGroup(c)
  <2>1. ImageTyped'
    <3>1. ledger' \in [reserved : Int, reclaimable : Int, released : Int]
      <4>1. CASE ledger.reserved > 0
        <5>1. ledger' = [ledger EXCEPT !.reserved = ledger.reserved - 1,
                                       !.reclaimable = ledger.reclaimable + 1]
          BY <1>10, <4>1 DEF FundGroup
        <5>2. ledger.reserved - 1 \in Int /\ ledger.reclaimable + 1 \in Int
          BY DEF ImageTyped
        <5>. QED  BY <5>1, <5>2 DEF ImageTyped
      <4>2. CASE ~(ledger.reserved > 0)
        <5>1. ledger' = ledger
          BY <1>10, <4>2, Zenon DEF FundGroup
        <5>. QED  BY <5>1 DEF ImageTyped
      <4>. QED  BY <4>1, <4>2
    <3>2. collect' \in [Collectors -> CollectLabels] /\ group' = group
      BY <1>b, <1>10 DEF FundGroup, ImageTyped
    <3>. QED  BY <1>0, <3>1, <3>2 DEF ImageTyped
  <2>2. GroupIsConfirmed'
    BY <1>0, <1>10 DEF FundGroup, ImageTyped, GroupIsConfirmed
  <2>3. OneWinner'
    BY <1>0, <1>10 DEF FundGroup, ImageTyped, OneWinner, Winner, GroupIsConfirmed
  <2>. QED  BY <1>a, <2>1, <2>2, <2>3
<1>11. CASE ReleaseGroup(c)
  <2>1. ImageTyped'
    <3>1. ledger' \in [reserved : Int, reclaimable : Int, released : Int]
      <4>1. ledger' = [ledger EXCEPT !.reclaimable = ledger.reclaimable - 1,
                                     !.released = ledger.released + 1]
        BY <1>11 DEF ReleaseGroup
      <4>2. ledger.reclaimable - 1 \in Int /\ ledger.released + 1 \in Int
        BY DEF ImageTyped
      <4>. QED  BY <4>1, <4>2 DEF ImageTyped
    <3>2. collect' \in [Collectors -> CollectLabels] /\ group' = group
      BY <1>b, <1>11 DEF ReleaseGroup, ImageTyped
    <3>. QED  BY <1>0, <3>1, <3>2 DEF ImageTyped
  <2>2. GroupIsConfirmed'
    BY <1>0, <1>11 DEF ReleaseGroup, ImageTyped, GroupIsConfirmed
  <2>3. OneWinner'
    BY <1>0, <1>11 DEF ReleaseGroup, ImageTyped, OneWinner, Winner, GroupIsConfirmed
  <2>. QED  BY <1>a, <2>1, <2>2, <2>3
<1>. QED
  BY <1>1, <1>2, <1>3, <1>4, <1>5, <1>6, <1>7, <1>8, <1>9, <1>10, <1>11 DEF CollectStep

-----------------------------------------------------------------------------
(* The app dies; and the theorem.                                          *)

LEMMA CrashKeepsTheImage == ImageInv /\ ImageCrash => ImageInv'
<1>. SUFFICES ASSUME ImageInv, ImageCrash PROVE ImageInv'
  OBVIOUS
<1>. USE DEF ImageInv, ImageCrash, tapping
<1>1. ImageTyped'
  <2>1. collect' \in [Collectors -> CollectLabels]
    BY DEF CollectLabels
  <2>2. post' \in [at : PostLabels, u : 0..MaxUploads]
    BY ImageLabels
  <2>3. /\ upload' = upload /\ textJournal' = textJournal /\ textNode' = textNode
        /\ named' = named /\ imageRow' = imageRow /\ textCell' = textCell /\ tap' = tap
        /\ bytesAck' = bytesAck /\ group' = group /\ ledger' = ledger
    OBVIOUS
  <2>4. confirmed' \in BOOLEAN
    BY DEF ImageTyped
  <2>. HIDE DEF ImageCrash
  <2>. QED  BY <2>1, <2>2, <2>3, <2>4 DEF ImageTyped
<1>2. PostKnows' /\ TextIsOne' /\ ReceiptIsTrue'
  BY DEF PostKnows, TextIsOne, ReceiptIsTrue, IdlePost, BeforeText, UploadKnown
<1>3. GroupIsConfirmed' /\ OneWinner'
  BY DEF GroupIsConfirmed, OneWinner, Winner
<1>. QED  BY <1>1, <1>2, <1>3

LEMMA ImageInit_Inv == ImageInit => ImageInv
<1>. SUFFICES ASSUME ImageInit PROVE ImageInv
  OBVIOUS
<1>. USE DEF ImageInit
<1>1. ImageTyped
  <2>1. collect \in [Collectors -> CollectLabels]
    BY DEF CollectLabels
  <2>2. upload \in [Uploads -> {"none", "pool", "gone", "live", "spent"}]
    OBVIOUS
  <2>3. ledger \in [reserved : Int, reclaimable : Int, released : Int]
    OBVIOUS
  <2>4. group \in [record : {"none", "submitted", "committed", "abandoned"},
                   node : {"none", "pool", "dead", "committed"}]
    OBVIOUS
  <2>5. post \in [at : PostLabels, u : 0..MaxUploads]
    BY ImageLabels
  <2>6. /\ textJournal = "none" /\ textNode = "none" /\ textCell = "none"
        /\ named = 0 /\ imageRow = 0 /\ tap = "nothing" /\ bytesAck = "none"
        /\ confirmed \in BOOLEAN
    OBVIOUS
  <2>. HIDE DEF ImageInit
  <2>. QED  BY <2>1, <2>2, <2>3, <2>4, <2>5, <2>6 DEF ImageTyped
<1>2. PostKnows /\ TextIsOne /\ ReceiptIsTrue
  BY DEF PostKnows, TextIsOne, ReceiptIsTrue, IdlePost, BeforeText, UploadKnown
<1>3. GroupIsConfirmed /\ OneWinner
  BY DEF GroupIsConfirmed, OneWinner, Winner, Uploads
<1>. QED  BY <1>1, <1>2, <1>3 DEF ImageInv

LEMMA ImageNext_Inv == ImageInv /\ [ImageNext]_imageVars => ImageInv'
<1>. SUFFICES ASSUME ImageInv, [ImageNext]_imageVars PROVE ImageInv'
  OBVIOUS
<1>1. CASE UNCHANGED imageVars
  BY <1>1 DEF imageVars, sending, tapping, collecting, ImageInv, ImageTyped, PostKnows, TextIsOne,
              ReceiptIsTrue, GroupIsConfirmed, OneWinner, Winner
<1>2. CASE ImageNext
  BY <1>2, PostKeepsTheImage, NodeKeepsTheImage, ReceiptKeepsTheImage, CollectKeepsTheImage,
     CrashKeepsTheImage DEF ImageNext
<1>. QED  BY <1>1, <1>2

(* Both promises follow: a manifest is made of chunks that are live, the   *)
(* group may only spend them behind a receipt that only a recipient who    *)
(* has the image sends, and one pass at most gets to release.              *)
LEMMA Inv_Safe == ImageInv => ImagesAreSafe
<1>. SUFFICES ASSUME ImageInv PROVE ImagesAreSafe
  OBVIOUS
<1>. USE DEF ImageInv, ImageTyped
<1>1. ImageOutlivesTap
  BY DEF ImageOutlivesTap, TextIsOne, ReceiptIsTrue, GroupIsConfirmed, Uploads
<1>2. GroupReleasedOnce
  <2>1. CASE ledger.released = 1
    BY <2>1 DEF GroupReleasedOnce, OneWinner, GroupIsConfirmed, ReceiptIsTrue, Uploads
  <2>2. CASE ledger.released = 0
    BY <2>2 DEF GroupReleasedOnce
  <2>. QED  BY <2>1, <2>2 DEF OneWinner
<1>. QED  BY <1>1, <1>2 DEF ImagesAreSafe

(* What the manifest of a committed message names can be fetched until the *)
(* recipient has fetched it (send.ts:177-204, workers.ts:836-845), and the *)
(* capacity of a group is released at most once and only when its cells    *)
(* are spent (reclaim.ts:108-135, 196-214), for every number of attempts,  *)
(* of passes that overlap, of deaths and of failed requests.               *)
THEOREM ImagesAreKept == ImageSpec => []ImagesAreSafe
<1>1. ImageInit => ImageInv
  BY ImageInit_Inv
<1>2. ImageInv /\ [ImageNext]_imageVars => ImageInv'
  BY ImageNext_Inv
<1>3. ImageInv => ImagesAreSafe
  BY Inv_Safe
<1>. QED  BY <1>1, <1>2, <1>3, PTL DEF ImageSpec
=============================================================================
