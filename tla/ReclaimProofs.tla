---------------------------- MODULE ReclaimProofs ----------------------------
(***************************************************************************)
(* What is proved of Reclaim for every value of its constants: any number  *)
(* of messages, transactions, overlapping batches, receipts and workers.   *)
(***************************************************************************)
EXTENDS Reclaim, MessageStatesProofs, FiniteSetTheorems

USE NodeAssumption, ReclaimAssumption

(* Transactions are numbered from one; zero stands for none.               *)
LEMMA Names ==
    /\ TxIds \in SUBSET Nat /\ NoTx \notin TxIds
    /\ \A t \in 1..MaxTx : t \in TxIds
BY DEF TxIds, NoTx

(* A set of message cells has a size.                                      *)
LEMMA SizesAreNatural ==
    \A M \in SUBSET Messages : Cardinality(M) \in Nat
<1> TAKE M \in SUBSET Messages
<1>1. IsFiniteSet(M)
  BY FS_Subset
<1> QED BY <1>1, FS_CardinalityType

-----------------------------------------------------------------------------
(***************************************************************************)
(* The inductive invariant.  First the part about what the variables name: *)
(* nothing is known of a transaction before it is built, and a call that   *)
(* is past a build or a resume, or a worker that was told of a rejection,  *)
(* is at a built transaction.                                              *)
(***************************************************************************)
HasTx == {"status", "rebroadcast", "abandon", "record", "send"} \cup SettleLabels

UnbuiltIsUnknown ==
    \A t \in TxIds :
        t \notin 1..built =>
            inputs[t] = {} /\ node[t] = "unknown" /\ t \notin wire /\ journal[t] = "none"

LatestIsBuilt == latest # NoTx => latest \in 1..built

CallsAreBound ==
    \A b \in Batches :
        /\ batch[b].at \in HasTx => batch[b].t \in 1..built
        /\ batch[b].at \in {"dead", "deadNow"} => batch[b].m \in Messages

AnswersAreBuilt ==
    \A w \in Workers : listed[w].rejected # NoTx => listed[w].rejected \in 1..built

Bound == TypeOK /\ UnbuiltIsUnknown /\ LatestIsBuilt /\ CallsAreBound /\ AnswersAreBuilt

(* The part about evidence: whoever is about to bring a row to its end     *)
(* knows of a committed transaction that spent its cell.                   *)
CallsHaveEvidence ==
    \A b \in Batches :
        /\ batch[b].at \in {"cas", "settle", "release"} => node[batch[b].t] = "committed"
        /\ BAt(b, "settle") => batch[b].todo \subseteq inputs[batch[b].t]
        /\ batch[b].at \in {"dead", "deadNow"} => Gone(batch[b].m)

Evidence == CallsHaveEvidence /\ ReclaimedIsGone

(* The part about winning: a transaction is settled by one call at most,   *)
(* and never again once its record has left `submitted`; of two that spend *)
(* the same cell only one is in play.                                      *)
Winning(b, t) == batch[b].at \in {"settle", "release"} /\ batch[b].t = t
Decided(t) == journal[t] \notin {"none", "submitted"}

NoDoubleSpend ==
    \A t, u \in TxIds : Conflicts(t, u) => ~(InPlay(t) /\ InPlay(u))

WinnersDiffer ==
    /\ \A b \in Batches, t \in TxIds : Winning(b, t) => Decided(t)
    /\ \A b, c \in Batches, t \in TxIds : Winning(b, t) /\ Winning(c, t) => b = c

OverFor(t, m) ==
    /\ node[t] = "committed" /\ m \in inputs[t] /\ Decided(t)
    /\ \A b \in Batches : ~Winning(b, t)

ReleasedIsOver ==
    \A m \in Messages :
        released[m] # 0 => released[m] = 1 /\ \E t \in TxIds : OverFor(t, m)

Once == NoDoubleSpend /\ WinnersDiffer /\ ReleasedIsOver

(* The part about funding, for receipts that are handled one at a time:    *)
(* once a row's capacity was moved, or a batch has seen the row, it is     *)
(* among the states that are no longer acknowledged.                       *)
OneAcker == \A a, b \in Ackers : a = b

Begun(M) == \A m \in M : row[m] \in ReclaimStates

WalkedFrom(label) ==
    CASE label = "downloaded_by_recipient" -> "available_on_chain"
      [] label = "acknowledged" -> "downloaded_by_recipient"
      [] label = "reclaim_queued" -> "acknowledged"
WalkLabels == {"downloaded_by_recipient", "acknowledged", "reclaim_queued"}

RowsAreBegun ==
    /\ \A t \in TxIds : Begun(inputs[t])
    /\ \A b \in Batches : Begun(batch[b].todo) /\ Begun(batch[b].covered)

ReceiptsAreFresh ==
    \A a \in Ackers :
        /\ ack[a].at \in WalkLabels => row[ack[a].m] = WalkedFrom(ack[a].at)
        /\ AAt(a, "fund") => row[ack[a].m] \in ReclaimStates /\ funded[ack[a].m] = 0

Funding ==
    /\ RowsAreBegun
    /\ ReceiptsAreFresh
    /\ \A m \in Messages : funded[m] # 0 => funded[m] = 1 /\ row[m] \in ReclaimStates

(* The part about marking, for batches that do not overlap either.         *)
OneBatch == \A b, c \in Batches : b = c

Quiet == {"requeue", "list", "check", "dead", "deadNow", "mark", "build", "record"}
AllMarked(M) == \A m \in M : row[m] # "reclaim_queued"

OnlyLatestSubmitted == \A t \in TxIds : journal[t] = "submitted" => t = latest

BatchIsAtLatest ==
    \A b \in Batches :
        /\ batch[b].at \in Quiet => \A t \in TxIds : journal[t] # "submitted"
        /\ batch[b].at \in {"status", "rebroadcast", "abandon"} => batch[b].t = latest

BatchMarks ==
    \A b \in Batches :
        /\ BAt(b, "mark") => AllMarked(batch[b].covered \ batch[b].todo)
        /\ batch[b].at \in {"build", "record"} => AllMarked(batch[b].covered)
        /\ BAt(b, "record") => inputs[batch[b].t] = batch[b].covered

Marking == OnlyLatestSubmitted /\ BatchIsAtLatest /\ BatchMarks /\ SubmittedIsMarked

-----------------------------------------------------------------------------
(* Shapes shared by the steps of the calls.                                *)
LEMMA NothingCovered ==
    {} \in SUBSET Messages /\ NoTx \in TxIds \cup {NoTx}
OBVIOUS

BatchLabels == {"idle"} \cup ResumeLabels \cup CollectLabels \cup SettleLabels

LEMMA SetTyped ==
    ASSUME batch \in [Batches -> BatchCalls], NEW b \in Batches, NEW l \in BatchLabels,
           NEW t \in TxIds \cup {NoTx}, NEW todo \in SUBSET Messages,
           NEW covered \in SUBSET Messages, BSet(b, l, t, todo, covered)
    PROVE  batch' \in [Batches -> BatchCalls]
BY DEF BSet, BatchCalls, BatchLabels

LEMMA BatchGotoTyped ==
    ASSUME batch \in [Batches -> BatchCalls], NEW b \in Batches, NEW l \in BatchLabels,
           BGoto(b, l)
    PROVE  batch' \in [Batches -> BatchCalls]
BY DEF BGoto, BatchCalls, BatchLabels

LEMMA FinishTyped ==
    ASSUME batch \in [Batches -> BatchCalls], NEW b \in Batches, BFinish(b)
    PROVE  batch' \in [Batches -> BatchCalls]
BY DEF BFinish, BatchCalls, NoBatch

LEMMA TransitionTyped ==
    ASSUME row \in [Messages -> AckableStates \cup ReclaimStates],
           NEW m \in Messages, NEW to \in AckableStates \cup ReclaimStates,
           Transition(m, to) \/ Refused(m, to)
    PROVE  row' \in [Messages -> AckableStates \cup ReclaimStates]
BY DEF Transition, Refused

LEMMA MoveEachTyped ==
    ASSUME TypeOK, NEW b \in Batches, NEW l, NEW to \in ReclaimStates, MoveEach(b, l, to)
    PROVE  /\ row' \in [Messages -> AckableStates \cup ReclaimStates]
           /\ batch' \in [Batches -> BatchCalls]
<1>1. /\ row \in [Messages -> AckableStates \cup ReclaimStates]
      /\ batch \in [Batches -> BatchCalls]
      /\ batch[b].todo \in SUBSET Messages
  BY DEF TypeOK, BatchCalls
<1>2. PICK m \in batch[b].todo :
        \/ Transition(m, to) /\ batch' = [batch EXCEPT ![b].todo = @ \ {m}]
        \/ Refused(m, to) /\ BFinish(b)
  BY DEF MoveEach
<1>3. row' \in [Messages -> AckableStates \cup ReclaimStates]
  BY <1>1, <1>2, TransitionTyped
<1>4. CASE batch' = [batch EXCEPT ![b].todo = @ \ {m}]
  BY <1>1, <1>3, <1>4 DEF BatchCalls
<1>5. CASE BFinish(b)
  BY <1>1, <1>3, <1>5, FinishTyped
<1> QED BY <1>2, <1>4, <1>5

(* The node keeps its types whatever it does on its own, and whatever end  *)
(* a sendTransaction comes to.                                             *)
LEMMA NodeTyped ==
    ASSUME NodeTypeOK, NEW t \in TxIds,
           \/ NodeStep(t)
           \/ UNCHANGED inputs /\ (Sent(t) \/ SendRefused(t) \/ SendTimedOut(t))
    PROVE  NodeTypeOK'
<1>1. CASE NodeStep(t)
  BY <1>1 DEF NodeTypeOK, NodeStates, NodeStep, Commit, Reject, Forget, Deliver
<1>2. CASE UNCHANGED inputs /\ (Sent(t) \/ SendRefused(t) \/ SendTimedOut(t))
  BY <1>2 DEF NodeTypeOK, NodeStates, Sent, SendRefused, SendTimedOut
<1> QED BY <1>1, <1>2

-----------------------------------------------------------------------------
(* Type correctness, step by step.                                         *)
LEMMA AckTyped ==
    ASSUME TypeOK, NEW a \in Ackers, AckStep(a)
    PROVE  TypeOK'
<1>1. /\ row \in [Messages -> AckableStates \cup ReclaimStates]
      /\ ack \in [Ackers -> AckCalls]
  BY DEF TypeOK
<1>2. CASE AckWalk(a)
  <2>1. ack[a].m \in Messages /\ ack[a].at \in AckableStates \cup ReclaimStates
    BY <1>1, <1>2 DEF AckWalk, AckCalls, AckableStates, ReclaimStates
  <2>2. row' \in [Messages -> AckableStates \cup ReclaimStates]
    BY <1>1, <1>2, <2>1, TransitionTyped DEF AckWalk
  <2>3. ack' \in [Ackers -> AckCalls]
    BY <1>1, <1>2, <2>1 DEF AckWalk, AGoto, AFinish, AAt, AckCalls
  <2> QED BY <1>2, <2>2, <2>3 DEF AckWalk, AckStep, TypeOK, NodeTypeOK, nodeVars
<1>3. CASE AckFund(a)
  <2>1. ack' \in [Ackers -> AckCalls]
    BY <1>1, <1>3 DEF AckFund, AFinish, AckCalls
  <2>2. funded' \in [Messages -> 0..MaxCount] /\ reclaimable' \in Nat
    BY <1>3 DEF AckFund, Counted, MaxCount, TypeOK
  <2> QED BY <1>3, <2>1, <2>2 DEF AckFund, AckStep, TypeOK, NodeTypeOK, nodeVars
<1>4. ASSUME NEW m \in Messages, AckFind(a, m)
      PROVE  TypeOK'
  <2>1. ack' \in [Ackers -> AckCalls]
    BY <1>1, <1>4 DEF AckFind, AckCalls
  <2> QED BY <1>4, <2>1 DEF AckFind, AckStep, TypeOK, NodeTypeOK, nodeVars
<1> QED BY <1>2, <1>3, <1>4 DEF AckStep

LEMMA BatchLocalTyped ==
    ASSUME TypeOK, NEW b \in Batches, BatchLocal(b)
    PROVE  batch' \in [Batches -> BatchCalls]
<1>1. /\ batch \in [Batches -> BatchCalls] /\ latest \in TxIds \cup {NoTx}
      /\ batch[b].todo \in SUBSET Messages /\ batch[b].covered \in SUBSET Messages
  BY DEF TypeOK, BatchCalls
<1>2. {"status", "list", "cas", "wait", "abandon", "rebroadcast", "check", "dead", "mark"}
        \subseteq BatchLabels
  BY DEF BatchLabels, ResumeLabels, CollectLabels, SettleLabels
<1>3. CASE BatchFind(b)
  BY <1>1, <1>2, <1>3, SetTyped, NothingCovered DEF BatchFind
<1>4. CASE BatchStatus(b)
  BY <1>1, <1>2, <1>4, BatchGotoTyped DEF BatchStatus
<1>5. CASE BatchList(b)
  BY <1>1, <1>2, <1>5, SetTyped, FinishTyped, NothingCovered DEF BatchList, Candidates
<1>6. CASE BatchCheck(b)
  <2>1. PICK m \in batch[b].todo :
          \/ batch' = [batch EXCEPT ![b].todo = @ \ {m}, ![b].covered = @ \cup {m}]
          \/ batch' = [batch EXCEPT ![b].todo = @ \ {m}, ![b].at = "dead", ![b].m = m]
    BY <1>6 DEF BatchCheck
  <2> DEFINE live == [batch[b] EXCEPT !.todo = @ \ {m}, !.covered = @ \cup {m}]
             dead == [batch[b] EXCEPT !.todo = @ \ {m}, !.at = "dead", !.m = m]
  <2>2. batch' = [batch EXCEPT ![b] = live] \/ batch' = [batch EXCEPT ![b] = dead]
    BY <2>1
  <2>3. live \in BatchCalls /\ dead \in BatchCalls
    BY <1>1 DEF BatchCalls, CollectLabels
  <2> HIDE DEF live, dead
  <2> QED BY <1>1, <2>2, <2>3
<1>7. CASE BatchCovered(b)
  BY <1>1, <1>2, <1>7, SetTyped, FinishTyped DEF BatchCovered
<1>8. CASE BatchWait(b)
  BY <1>1, <1>2, <1>8, BatchGotoTyped, FinishTyped DEF BatchWait
<1> QED BY <1>3, <1>4, <1>5, <1>6, <1>7, <1>8 DEF BatchLocal

LEMMA BatchRowsTyped ==
    ASSUME TypeOK, CallsAreBound, NEW b \in Batches, BatchRows(b)
    PROVE  /\ row' \in [Messages -> AckableStates \cup ReclaimStates]
           /\ batch' \in [Batches -> BatchCalls]
<1>1. /\ batch \in [Batches -> BatchCalls]
      /\ row \in [Messages -> AckableStates \cup ReclaimStates]
      /\ {"reclaim_queued", "reclaim_pending", "reclaimed"} \subseteq ReclaimStates
      /\ {"build", "release"} \subseteq BatchLabels
  BY DEF TypeOK, ReclaimStates, BatchLabels, CollectLabels, SettleLabels
<1>2. CASE BatchRequeue(b)
  BY <1>1, <1>2, MoveEachTyped, FinishTyped DEF BatchRequeue
<1>3. CASE BatchDead(b)
  <2>1. batch[b].m \in Messages
    BY <1>3 DEF BatchDead, BAt, CallsAreBound
  <2>2. row' \in [Messages -> AckableStates \cup ReclaimStates]
    BY <1>1, <1>3, <2>1, TransitionTyped DEF BatchDead
  <2>3. CASE BFinish(b)
    BY <1>1, <2>2, <2>3, FinishTyped
  <2>4. CASE ~BFinish(b)
    <3>1. batch' = [batch EXCEPT ![b].at = IF BAt(b, "dead") THEN "deadNow" ELSE "check",
                                 ![b].m = IF BAt(b, "dead") THEN @ ELSE NoMessage]
      BY <1>3, <2>4 DEF BatchDead
    <3>2. (IF BAt(b, "dead") THEN "deadNow" ELSE "check") \in CollectLabels
      BY DEF CollectLabels
    <3>3. (IF BAt(b, "dead") THEN batch[b].m ELSE NoMessage) \in Messages \cup {NoMessage}
      BY <2>1
    <3> DEFINE new == [batch[b] EXCEPT !.at = IF BAt(b, "dead") THEN "deadNow" ELSE "check",
                                       !.m = IF BAt(b, "dead") THEN @ ELSE NoMessage]
    <3>4. batch' = [batch EXCEPT ![b] = new]
      BY <3>1
    <3>5. new \in BatchCalls
      BY <1>1, <3>2, <3>3 DEF BatchCalls
    <3> HIDE DEF new
    <3> QED BY <1>1, <2>2, <3>4, <3>5
  <2> QED BY <2>3, <2>4
<1>4. CASE BatchMark(b)
  BY <1>1, <1>4, MoveEachTyped, BatchGotoTyped DEF BatchMark
<1>5. CASE BatchSettle(b)
  BY <1>1, <1>5, MoveEachTyped, BatchGotoTyped DEF BatchSettle
<1> QED BY <1>2, <1>3, <1>4, <1>5 DEF BatchRows

LEMMA BatchJournalTyped ==
    ASSUME TypeOK, CallsAreBound, NEW b \in Batches, BatchJournal(b)
    PROVE  /\ journal' \in [TxIds -> JournalStates]
           /\ latest' \in TxIds \cup {NoTx}
           /\ batch' \in [Batches -> BatchCalls]
<1>1. /\ batch \in [Batches -> BatchCalls] /\ journal \in [TxIds -> JournalStates]
      /\ latest \in TxIds \cup {NoTx} /\ inputs \in [TxIds -> SUBSET Messages]
      /\ {"requeue", "send", "settle"} \subseteq BatchLabels
      /\ {"abandoned", "submitted", "committed"} \subseteq JournalStates
  BY DEF TypeOK, NodeTypeOK, BatchLabels, ResumeLabels, CollectLabels, SettleLabels,
         JournalStates, Messages
<1>2. batch[b].t \in TxIds
  BY DEF BatchJournal, BatchAbandon, BatchCas, BatchRecord, BAt, CallsAreBound, HasTx,
         SettleLabels, TypeOK, TxIds
<1>3. inputs[batch[b].t] \in SUBSET Messages
  BY <1>1, <1>2
<1>4. CASE BatchAbandon(b)
  BY <1>1, <1>2, <1>3, <1>4, SetTyped DEF BatchAbandon, BatchJournal, MarkState, BatchCas, BatchRecord, BAt
<1>5. CASE BatchCas(b)
  BY <1>1, <1>2, <1>3, <1>5, SetTyped, FinishTyped DEF BatchAbandon, BatchCas, BatchJournal, MarkState, BatchRecord, BAt
<1>6. CASE BatchRecord(b)
  BY <1>1, <1>2, <1>6, BatchGotoTyped DEF BatchRecord, MarkState
<1> QED BY <1>4, <1>5, <1>6 DEF BatchJournal

LEMMA BatchNetworkTyped ==
    ASSUME TypeOK, CallsAreBound, NEW b \in Batches, BatchNetwork(b)
    PROVE  NodeTypeOK' /\ batch' \in [Batches -> BatchCalls]
<1>1. batch \in [Batches -> BatchCalls] /\ NodeTypeOK /\ UNCHANGED inputs
  BY DEF TypeOK, BatchNetwork
<1>2. batch[b].t \in TxIds
  BY DEF BatchNetwork, BatchRebroadcast, BatchSend, BAt, CallsAreBound, HasTx, TypeOK, TxIds
<1>3. {"wait", "abandon"} \subseteq BatchLabels
  BY DEF BatchLabels, ResumeLabels, SettleLabels
<1>4. NodeTypeOK'
  BY <1>1, <1>2, NodeTyped DEF BatchNetwork, BatchRebroadcast, BatchSend
<1>5. batch' \in [Batches -> BatchCalls]
  BY <1>1, <1>3, BatchGotoTyped, FinishTyped DEF BatchNetwork, BatchRebroadcast, BatchSend
<1> QED BY <1>4, <1>5

LEMMA BatchMakeTyped ==
    ASSUME TypeOK, NEW b \in Batches, BatchMake(b)
    PROVE  /\ NodeTypeOK' /\ built' \in 0..MaxTx
           /\ batch' \in [Batches -> BatchCalls]
<1>1. /\ batch \in [Batches -> BatchCalls] /\ NodeTypeOK /\ built \in 0..MaxTx
      /\ batch[b].covered \in SUBSET Messages /\ "record" \in BatchLabels
      /\ {} \in SUBSET Messages
  BY DEF TypeOK, BatchCalls, BatchLabels, CollectLabels
<1>2. CASE \E t \in 1..built : BSet(b, "record", t, {}, batch[b].covered)
                               /\ UNCHANGED <<inputs, built>>
  <2>1. PICK t \in 1..built : BSet(b, "record", t, {}, batch[b].covered)
    BY <1>2
  <2>2. t \in TxIds \cup {NoTx}
    BY <1>1 DEF TxIds
  <2>3. batch' \in [Batches -> BatchCalls]
    BY <1>1, <2>1, <2>2, SetTyped
  <2> QED BY <1>1, <1>2, <2>3 DEF BatchMake, NodeTypeOK
<1>3. CASE /\ built < MaxTx /\ built' = built + 1
           /\ inputs' = [inputs EXCEPT ![built + 1] = batch[b].covered]
           /\ BSet(b, "record", built + 1, {}, batch[b].covered)
  <2>1. built + 1 \in TxIds /\ built' \in 0..MaxTx
    BY <1>1, <1>3 DEF TxIds
  <2>2. batch' \in [Batches -> BatchCalls]
    BY <1>1, <1>3, <2>1, SetTyped
  <2>3. inputs' \in [TxIds -> SUBSET Coins]
    BY <1>1, <1>3 DEF NodeTypeOK, Messages
  <2> QED BY <1>1, <2>1, <2>2, <2>3 DEF BatchMake, NodeTypeOK
<1>4. CASE BFinish(b) /\ UNCHANGED <<inputs, built>>
  BY <1>1, <1>4, FinishTyped DEF BatchMake, NodeTypeOK
<1> QED BY <1>2, <1>3, <1>4 DEF BatchMake, BatchBuild

LEMMA BatchFreeTyped ==
    ASSUME TypeOK, CallsAreBound, NEW b \in Batches, BatchFree(b)
    PROVE  /\ released' \in [Messages -> 0..MaxCount] /\ reclaimable' \in Nat
           /\ batch' \in [Batches -> BatchCalls]
<1> DEFINE freed == inputs[batch[b].t]
<1>1. batch[b].t \in TxIds
  BY DEF BatchFree, BatchRelease, BAt, CallsAreBound, HasTx, SettleLabels, TypeOK, TxIds
<1>2. Cardinality(freed) \in Nat
  BY <1>1, SizesAreNatural DEF TypeOK, NodeTypeOK, Messages
<1>3. reclaimable' \in Nat
  <2>1. reclaimable \in Nat
    BY DEF TypeOK
  <2>2. \/ UNCHANGED reclaimable
        \/ reclaimable >= Cardinality(freed) /\ reclaimable' = reclaimable - Cardinality(freed)
    BY DEF BatchFree, BatchRelease
  <2> HIDE DEF freed
  <2> QED BY <1>2, <2>1, <2>2
<1>4. released' \in [Messages -> 0..MaxCount]
  BY DEF BatchFree, BatchRelease, Counted, MaxCount, TypeOK
<1>5. batch' \in [Batches -> BatchCalls]
  BY FinishTyped DEF BatchFree, BatchRelease, TypeOK
<1> QED BY <1>3, <1>4, <1>5

LEMMA BatchTyped ==
    ASSUME TypeOK, CallsAreBound, NEW b \in Batches, BatchStep(b)
    PROVE  TypeOK'
<1>1. CASE BatchLocal(b)
  BY <1>1, BatchLocalTyped DEF BatchLocal, BatchStep, TypeOK, NodeTypeOK, nodeVars
<1>2. CASE BatchRows(b)
  BY <1>2, BatchRowsTyped DEF BatchRows, BatchStep, TypeOK, NodeTypeOK, nodeVars
<1>3. CASE BatchJournal(b)
  BY <1>3, BatchJournalTyped DEF BatchJournal, BatchStep, TypeOK, NodeTypeOK, nodeVars
<1>4. CASE BatchNetwork(b)
  BY <1>4, BatchNetworkTyped DEF BatchNetwork, BatchStep, TypeOK
<1>5. CASE BatchMake(b)
  BY <1>5, BatchMakeTyped DEF BatchMake, BatchStep, TypeOK
<1>6. CASE BatchFree(b)
  BY <1>6, BatchFreeTyped DEF BatchFree, BatchStep, TypeOK, NodeTypeOK, nodeVars
<1> QED BY <1>1, <1>2, <1>3, <1>4, <1>5, <1>6 DEF BatchStep

LEMMA FaultTyped ==
    ASSUME TypeOK, CallsAreBound, NEW b \in Batches, BatchFault(b)
    PROVE  TypeOK'
<1>1. batch \in [Batches -> BatchCalls] /\ NodeTypeOK /\ UNCHANGED inputs
  BY DEF TypeOK, BatchFault
<1>2. faults' \in 0..MaxFaults
  BY DEF BatchFault, TypeOK
<1>3. CASE CellUnknown(b)
  <2>1. batch' \in [Batches -> BatchCalls]
    BY <1>1, <1>3 DEF CellUnknown, BatchCalls
  <2> QED BY <1>1, <1>2, <1>3, <2>1 DEF CellUnknown, BatchFault, TypeOK, NodeTypeOK, ledgerVars
<1>4. CASE BatchThrows(b)
  <2>1. batch' \in [Batches -> BatchCalls]
    BY <1>1, <1>4, FinishTyped DEF BatchThrows
  <2>2. NodeTypeOK'
    <3>1. CASE UNCHANGED <<node, wire>>
      BY <1>1, <3>1 DEF NodeTypeOK
    <3>2. CASE batch[b].at \in {"rebroadcast", "send"} /\ SendTimedOut(batch[b].t)
      <4>1. batch[b].t \in TxIds
        BY <3>2 DEF CallsAreBound, HasTx, TypeOK, TxIds
      <4> QED BY <1>1, <3>2, <4>1, NodeTyped
    <3> QED BY <1>4, <3>1, <3>2 DEF BatchThrows
  <2> QED BY <1>2, <2>1, <2>2 DEF BatchFault, TypeOK, ledgerVars
<1> QED BY <1>3, <1>4 DEF BatchFault

(* What a pending-worker run holds.                                        *)
Lists == [txs : SUBSET TxIds, rejected : TxIds \cup {NoTx}]

LEMMA WorkerTyped ==
    ASSUME TypeOK, NEW w \in Workers, WorkerStep(w)
    PROVE  TypeOK'
<1>1. listed \in [Workers -> Lists]
  BY DEF TypeOK, Lists
<1>2. NoTx \in TxIds \cup {NoTx}
  OBVIOUS
<1>3. CASE WorkerList(w)
  <2>1. [listed[w] EXCEPT !.txs = {t \in TxIds : journal[t] = "submitted"}] \in Lists
    BY <1>1 DEF Lists
  <2>2. listed' \in [Workers -> Lists] /\ UNCHANGED journal
    BY <1>1, <1>3, <2>1 DEF WorkerList
  <2> QED BY <2>2 DEF WorkerStep, TypeOK, NodeTypeOK, nodeVars, ledgerVars, Lists
<1>4. CASE WorkerAsk(w)
  <2>1. PICK t \in listed[w].txs :
          listed' = [listed EXCEPT
                       ![w] = [txs |-> @.txs \ {t},
                               rejected |-> IF node[t] = "rejected" THEN t ELSE NoTx]]
    BY <1>4 DEF WorkerAsk
  <2>2. t \in TxIds /\ listed[w].txs \ {t} \in SUBSET TxIds
    BY <1>1, <2>1 DEF Lists
  <2>3. [txs |-> listed[w].txs \ {t},
         rejected |-> IF node[t] = "rejected" THEN t ELSE NoTx] \in Lists
    BY <2>2 DEF Lists
  <2>4. listed' \in [Workers -> Lists] /\ UNCHANGED journal
    BY <1>1, <1>4, <2>1, <2>3 DEF WorkerAsk
  <2> QED BY <2>4 DEF WorkerStep, TypeOK, NodeTypeOK, nodeVars, ledgerVars, Lists
<1>5. CASE WorkerMark(w)
  <2>1. [listed[w] EXCEPT !.rejected = NoTx] \in Lists
    BY <1>1 DEF Lists
  <2>2. listed' \in [Workers -> Lists]
    BY <1>1, <1>5, <2>1 DEF WorkerMark
  <2>3. "rejected" \in JournalStates
    BY DEF JournalStates
  <2>4. journal' \in [TxIds -> JournalStates]
    BY <1>5, <2>3 DEF WorkerMark, MarkState, TypeOK
  <2> QED BY <2>2, <2>4 DEF WorkerStep, TypeOK, NodeTypeOK, nodeVars, ledgerVars, Lists
<1> QED BY <1>3, <1>4, <1>5 DEF WorkerStep

LEMMA CrashTyped ==
    ASSUME TypeOK, CallsAreBound, Crash
    PROVE  TypeOK'
<1>1. faults' \in 0..MaxFaults
  BY DEF Crash, TypeOK
<1>2. wire' \in SUBSET TxIds
  <2>1. \A b \in Batches : BAt(b, "send") \/ BAt(b, "rebroadcast") => batch[b].t \in TxIds
    BY DEF BAt, CallsAreBound, HasTx, TypeOK, TxIds
  <2>2. PICK lost \in SUBSET {batch[b].t : b \in {c \in Batches : BAt(c, "send") \/ BAt(c, "rebroadcast")}} :
            wire' = wire \cup lost
    BY DEF Crash
  <2> QED BY <2>1, <2>2 DEF TypeOK, NodeTypeOK
<1>3. batch' \in [Batches -> BatchCalls]
  BY DEF Crash, NoBatch, BatchCalls
<1>4. ack' \in [Ackers -> AckCalls]
  BY DEF Crash, AckCalls
<1>5. listed' \in [Workers -> [txs : SUBSET TxIds, rejected : TxIds \cup {NoTx}]]
  BY DEF Crash, NoList
<1> QED BY <1>1, <1>2, <1>3, <1>4, <1>5 DEF Crash, TypeOK, NodeTypeOK, ledgerVars

LEMMA NetworkTyped ==
    ASSUME TypeOK, Network
    PROVE  TypeOK'
<1>1. NodeTypeOK'
  BY NodeTyped DEF Network, TypeOK
<1> QED BY <1>1 DEF Network, TypeOK, ledgerVars

LEMMA InitTyped == Init => TypeOK
<1> SUFFICES ASSUME Init PROVE TypeOK
  OBVIOUS
<1>1. NodeTypeOK
  BY DEF Init, NodeInit, NodeTypeOK, NodeStates
<1>2. batch \in [Batches -> BatchCalls]
  BY DEF Init, NoBatch, BatchCalls
<1>3. row \in [Messages -> AckableStates \cup ReclaimStates] /\ journal \in [TxIds -> JournalStates]
  BY DEF Init, AckableStates, JournalStates
<1>4. funded \in [Messages -> 0..MaxCount] /\ released \in [Messages -> 0..MaxCount]
  BY DEF Init, MaxCount
<1>5. /\ ack \in [Ackers -> AckCalls]
      /\ listed \in [Workers -> [txs : SUBSET TxIds, rejected : TxIds \cup {NoTx}]]
  BY DEF Init, AckCalls, NoList
<1> QED BY <1>1, <1>2, <1>3, <1>4, <1>5 DEF Init, TypeOK

-----------------------------------------------------------------------------
(* What the ways to move a batch leave where.                              *)
LEMMA SetAt ==
    ASSUME batch \in [Batches -> BatchCalls], NEW b \in Batches, NEW l, NEW t, NEW todo,
           NEW covered, BSet(b, l, t, todo, covered)
    PROVE  /\ batch'[b].at = l /\ batch'[b].t = t /\ batch'[b].todo = todo
           /\ batch'[b].covered = covered /\ batch'[b].m = NoMessage
           /\ \A c \in Batches \ {b} : batch'[c] = batch[c]
BY DEF BSet

LEMMA GotoAt ==
    ASSUME batch \in [Batches -> BatchCalls], NEW b \in Batches, NEW l, BGoto(b, l)
    PROVE  /\ batch'[b].at = l /\ batch'[b].t = batch[b].t /\ batch'[b].todo = batch[b].todo
           /\ batch'[b].covered = batch[b].covered /\ batch'[b].m = batch[b].m
           /\ \A c \in Batches \ {b} : batch'[c] = batch[c]
BY DEF BGoto, BatchCalls

LEMMA FinishAt ==
    ASSUME batch \in [Batches -> BatchCalls], NEW b \in Batches, BFinish(b)
    PROVE  /\ batch'[b].at = "idle" /\ batch'[b].t = NoTx /\ batch'[b].todo = {}
           /\ batch'[b].covered = {} /\ batch'[b].m = NoMessage
           /\ \A c \in Batches \ {b} : batch'[c] = batch[c]
BY DEF BFinish, NoBatch

CallKept(b) ==    \* what a step of a loop leaves of its call
    /\ batch'[b].at = batch[b].at /\ batch'[b].t = batch[b].t
    /\ batch'[b].m = batch[b].m
    /\ \A c \in Batches \ {b} : batch'[c] = batch[c]

LEMMA MoveEachAt ==
    ASSUME TypeOK, NEW b \in Batches, NEW l, NEW to, MoveEach(b, l, to)
    PROVE  BAt(b, l) /\ \E m \in batch[b].todo :
             \/ /\ Transition(m, to) /\ CallKept(b)
                /\ batch'[b].todo = batch[b].todo \ {m}
                /\ batch'[b].covered = batch[b].covered
             \/ UNCHANGED row /\ BFinish(b)
<1>1. batch \in [Batches -> BatchCalls]
  BY DEF TypeOK
<1>2. PICK m \in batch[b].todo :
        \/ Transition(m, to) /\ batch' = [batch EXCEPT ![b].todo = @ \ {m}]
        \/ Refused(m, to) /\ BFinish(b)
  BY DEF MoveEach
<1>3. CASE batch' = [batch EXCEPT ![b].todo = @ \ {m}]
  <2>1. CallKept(b) /\ batch'[b].todo = batch[b].todo \ {m} /\ batch'[b].covered = batch[b].covered
    BY <1>1, <1>3 DEF CallKept, BatchCalls
  <2>2. CASE Transition(m, to)
    BY <2>1, <2>2 DEF MoveEach
  <2>3. CASE Refused(m, to) /\ BFinish(b)
    BY <2>3 DEF MoveEach, Refused
  <2> QED BY <1>2, <2>2, <2>3
<1>4. CASE Refused(m, to) /\ BFinish(b)
  BY <1>4 DEF MoveEach, Refused
<1> QED BY <1>2, <1>3, <1>4

LEMMA CheckAt ==
    ASSUME TypeOK, NEW b \in Batches, BatchCheck(b)
    PROVE  \E m \in batch[b].todo :
             /\ batch'[b].todo = batch[b].todo \ {m} /\ batch'[b].t = batch[b].t
             /\ \A c \in Batches \ {b} : batch'[c] = batch[c]
             /\ \/ /\ batch'[b].at = "check" /\ batch'[b].covered = batch[b].covered \cup {m}
                   /\ batch'[b].m = batch[b].m
                \/ /\ batch'[b].at = "dead" /\ batch'[b].m = m /\ Gone(m)
                   /\ batch'[b].covered = batch[b].covered
<1>1. batch \in [Batches -> BatchCalls]
  BY DEF TypeOK
<1>2. PICK m \in batch[b].todo :
        \/ batch' = [batch EXCEPT ![b].todo = @ \ {m}, ![b].covered = @ \cup {m}]
        \/ Gone(m) /\ batch' = [batch EXCEPT ![b].todo = @ \ {m}, ![b].at = "dead", ![b].m = m]
  BY DEF BatchCheck
<1> DEFINE live == [batch[b] EXCEPT !.todo = @ \ {m}, !.covered = @ \cup {m}]
           dead == [batch[b] EXCEPT !.todo = @ \ {m}, !.at = "dead", !.m = m]
<1>3. /\ live.at = batch[b].at /\ live.todo = batch[b].todo \ {m} /\ live.t = batch[b].t
      /\ live.covered = batch[b].covered \cup {m} /\ live.m = batch[b].m
      /\ dead.at = "dead" /\ dead.todo = batch[b].todo \ {m} /\ dead.m = m
      /\ dead.t = batch[b].t /\ dead.covered = batch[b].covered
  BY <1>1 DEF BatchCalls
<1>4. \/ batch' = [batch EXCEPT ![b] = live]
      \/ Gone(m) /\ batch' = [batch EXCEPT ![b] = dead]
  BY <1>2
<1>5. BAt(b, "check")
  BY DEF BatchCheck
<1> HIDE DEF live, dead
<1> QED BY <1>1, <1>3, <1>4, <1>5 DEF BAt

LEMMA DeadAt ==
    ASSUME TypeOK, NEW b \in Batches, BatchDead(b)
    PROVE  /\ BAt(b, "dead") \/ BAt(b, "deadNow")
           /\ \/ UNCHANGED row /\ BFinish(b)
              \/ /\ Transition(batch[b].m, IF BAt(b, "dead") THEN "reclaim_pending" ELSE "reclaimed")
                 /\ batch'[b].todo = batch[b].todo /\ batch'[b].covered = batch[b].covered
                 /\ batch'[b].t = batch[b].t
                 /\ \A c \in Batches \ {b} : batch'[c] = batch[c]
                 /\ \/ BAt(b, "dead") /\ batch'[b].at = "deadNow" /\ batch'[b].m = batch[b].m
                    \/ BAt(b, "deadNow") /\ batch'[b].at = "check" /\ batch'[b].m = NoMessage
<1>1. batch \in [Batches -> BatchCalls]
  BY DEF TypeOK
<1>2. CASE Refused(batch[b].m, IF BAt(b, "dead") THEN "reclaim_pending" ELSE "reclaimed")
             /\ BFinish(b)
  BY <1>2 DEF BatchDead, Refused
<1>3. CASE /\ Transition(batch[b].m, IF BAt(b, "dead") THEN "reclaim_pending" ELSE "reclaimed")
           /\ batch' = [batch EXCEPT ![b].at = IF BAt(b, "dead") THEN "deadNow" ELSE "check",
                                     ![b].m = IF BAt(b, "dead") THEN @ ELSE NoMessage]
  <2> DEFINE new == [batch[b] EXCEPT !.at = IF BAt(b, "dead") THEN "deadNow" ELSE "check",
                                     !.m = IF BAt(b, "dead") THEN @ ELSE NoMessage]
  <2>1. /\ new.at = (IF BAt(b, "dead") THEN "deadNow" ELSE "check")
        /\ new.m = (IF BAt(b, "dead") THEN batch[b].m ELSE NoMessage)
        /\ new.todo = batch[b].todo /\ new.t = batch[b].t /\ new.covered = batch[b].covered
    BY <1>1 DEF BatchCalls
  <2>2. batch' = [batch EXCEPT ![b] = new]
    BY <1>3
  <2>3. /\ batch'[b] = new
        /\ \A c \in Batches \ {b} : batch'[c] = batch[c]
    BY <1>1, <2>2
  <2>4. BAt(b, "dead") \/ BAt(b, "deadNow")
    BY DEF BatchDead
  <2> HIDE DEF new
  <2>5. \/ BAt(b, "dead") /\ batch'[b].at = "deadNow" /\ batch'[b].m = batch[b].m
        \/ BAt(b, "deadNow") /\ batch'[b].at = "check" /\ batch'[b].m = NoMessage
    BY <2>1, <2>3, <2>4
  <2> QED BY <1>3, <2>1, <2>3, <2>4, <2>5
<1> QED BY <1>2, <1>3 DEF BatchDead

-----------------------------------------------------------------------------
(***************************************************************************)
(* What a step may do to the node, to the transactions and to the journal, *)
(* whoever takes it.                                                       *)
(***************************************************************************)
NodeMoves ==
    \/ UNCHANGED node
    \/ /\ UNCHANGED inputs
       /\ \E t \in 1..built, s \in NodeStates :
            /\ node' = [node EXCEPT ![t] = s]
            /\ \/ s = "pending" /\ Accepted(t)
               \/ s # "pending" /\ node[t] = "pending"

WireMoves == wire' \subseteq wire \cup 1..built

InputsMove ==
    \/ UNCHANGED <<inputs, built>>
    \/ /\ built' = built + 1 /\ built' \in TxIds /\ UNCHANGED <<node, wire, journal>>
       /\ \E M : inputs' = [inputs EXCEPT ![built'] = M]

JournalMoves ==
    \/ UNCHANGED journal
    \/ \E t \in 1..built, s \in JournalStates :
         /\ journal' = [journal EXCEPT ![t] = s]
         /\ \/ s = "submitted" /\ journal[t] = "none"
            \/ s = "committed" /\ journal[t] = "submitted"
            \/ s \in {"abandoned", "rejected"}

Moves == NodeMoves /\ WireMoves /\ InputsMove /\ JournalMoves

LEMMA SendMoves ==
    ASSUME Bound, NEW t \in 1..built, UNCHANGED inputs,
           Sent(t) \/ SendRefused(t) \/ SendTimedOut(t)
    PROVE  NodeMoves /\ WireMoves
<1>1. CASE Sent(t)
  BY <1>1 DEF Sent, NodeMoves, WireMoves, NodeStates
<1>2. CASE UNCHANGED <<node, wire>>
  BY <1>2 DEF NodeMoves, WireMoves
<1>3. CASE wire' = wire \cup {t} /\ UNCHANGED node
  BY <1>3 DEF NodeMoves, WireMoves
<1> QED BY <1>1, <1>2, <1>3 DEF SendRefused, SendTimedOut

LEMMA NetworkMoves ==
    ASSUME Bound, NEW t \in TxIds, NodeStep(t)
    PROVE  NodeMoves /\ WireMoves
<1>1. CASE Commit(t) \/ Reject(t) \/ Forget(t)
  <2>1. node[t] = "pending" /\ t \in 1..built
    BY <1>1 DEF Commit, Reject, Forget, Bound, UnbuiltIsUnknown
  <2> QED BY <1>1, <2>1 DEF Commit, Reject, Forget, NodeMoves, WireMoves, NodeStates
<1>2. CASE Deliver(t)
  <2>1. t \in 1..built /\ wire' = wire \ {t} /\ UNCHANGED inputs
    BY <1>2 DEF Deliver, Bound, UnbuiltIsUnknown
  <2>2. CASE Accepted(t)
    <3>1. node' = [node EXCEPT ![t] = "pending"]
      BY <1>2, <2>2 DEF Deliver
    <3>2. "pending" \in NodeStates
      BY DEF NodeStates
    <3> QED BY <2>1, <2>2, <3>1, <3>2 DEF NodeMoves, WireMoves
  <2>3. CASE ~Accepted(t)
    BY <1>2, <2>1, <2>3 DEF Deliver, NodeMoves, WireMoves
  <2> QED BY <2>2, <2>3
<1> QED BY <1>1, <1>2 DEF NodeStep

LEMMA BatchMoves ==
    ASSUME Bound, NEW b \in Batches, BatchStep(b)
    PROVE  Moves
<1>1. CASE BatchLocal(b) \/ BatchRows(b) \/ BatchFree(b)
  BY <1>1 DEF BatchLocal, BatchRows, BatchFree, Moves, NodeMoves, WireMoves, InputsMove,
              JournalMoves, nodeVars
<1>2. CASE BatchJournal(b)
  <2>1. NodeMoves /\ WireMoves /\ InputsMove
    BY <1>2 DEF BatchJournal, NodeMoves, WireMoves, InputsMove, nodeVars
  <2>2. batch[b].t \in 1..built
    BY <1>2 DEF BatchJournal, BatchAbandon, BatchCas, BatchRecord, BAt, Bound, CallsAreBound,
                HasTx, SettleLabels
  <2>3. {"submitted", "committed", "abandoned"} \subseteq JournalStates
    BY DEF JournalStates
  <2>4. JournalMoves
    <3>1. CASE BatchAbandon(b)
      BY <2>2, <2>3, <3>1 DEF BatchAbandon, MarkState, JournalMoves
    <3>2. CASE BatchCas(b)
      BY <2>2, <2>3, <3>2 DEF BatchCas, MarkState, JournalMoves
    <3>3. CASE BatchRecord(b)
      BY <2>2, <2>3, <3>3 DEF BatchRecord, MarkState, JournalMoves
    <3> QED BY <1>2, <3>1, <3>2, <3>3 DEF BatchJournal
  <2> QED BY <2>1, <2>4 DEF Moves
<1>3. CASE BatchNetwork(b)
  <2>1. InputsMove /\ JournalMoves
    BY <1>3 DEF BatchNetwork, InputsMove, JournalMoves
  <2>2. batch[b].t \in 1..built
    BY <1>3 DEF BatchNetwork, BatchRebroadcast, BatchSend, BAt, Bound, CallsAreBound, HasTx
  <2>3. NodeMoves /\ WireMoves
    BY <1>3, <2>2, SendMoves DEF BatchNetwork, BatchRebroadcast, BatchSend
  <2> QED BY <2>1, <2>3 DEF Moves
<1>4. CASE BatchMake(b)
  <2>1. NodeMoves /\ WireMoves /\ JournalMoves
    BY <1>4 DEF BatchMake, NodeMoves, WireMoves, JournalMoves
  <2>2. InputsMove
    <3>1. CASE UNCHANGED <<inputs, built>>
      BY <3>1 DEF InputsMove
    <3>2. CASE /\ built < MaxTx /\ built' = built + 1
               /\ inputs' = [inputs EXCEPT ![built + 1] = batch[b].covered]
      <4>1. built' \in TxIds
        BY <3>2 DEF TxIds, Bound, TypeOK
      <4> QED BY <1>4, <3>2, <4>1 DEF InputsMove, BatchMake
    <3> QED BY <1>4, <3>1, <3>2 DEF BatchMake, BatchBuild
  <2> QED BY <2>1, <2>2 DEF Moves
<1> QED BY <1>1, <1>2, <1>3, <1>4 DEF BatchStep

LEMMA StepMoves ==
    ASSUME Bound, Next
    PROVE  Moves
<1>1. ASSUME NEW a \in Ackers, AckStep(a)
      PROVE  Moves
  BY <1>1 DEF AckStep, Moves, NodeMoves, WireMoves, InputsMove, JournalMoves, nodeVars
<1>2. ASSUME NEW b \in Batches, BatchFault(b)
      PROVE  Moves
  <2>1. InputsMove /\ JournalMoves
    BY <1>2 DEF BatchFault, InputsMove, JournalMoves
  <2>2. CASE UNCHANGED <<node, wire>>
    BY <2>1, <2>2 DEF Moves, NodeMoves, WireMoves
  <2>3. CASE batch[b].at \in {"rebroadcast", "send"} /\ SendTimedOut(batch[b].t)
    <3>1. batch[b].t \in 1..built
      BY <2>3 DEF Bound, CallsAreBound, HasTx
    <3> QED BY <1>2, <2>1, <2>3, <3>1, SendMoves DEF BatchFault, Moves
  <2> QED BY <1>2, <2>2, <2>3 DEF BatchFault, CellUnknown, BatchThrows
<1>3. ASSUME NEW w \in Workers, WorkerStep(w)
      PROVE  Moves
  <2>1. NodeMoves /\ WireMoves /\ InputsMove
    BY <1>3 DEF WorkerStep, NodeMoves, WireMoves, InputsMove, nodeVars
  <2>2. JournalMoves
    <3>1. CASE UNCHANGED journal
      BY <3>1 DEF JournalMoves
    <3>2. CASE WorkerMark(w)
      <4>1. listed[w].rejected \in 1..built
        BY <3>2 DEF WorkerMark, Bound, AnswersAreBuilt
      <4>2. "rejected" \in JournalStates
        BY DEF JournalStates
      <4> QED BY <3>2, <4>1, <4>2 DEF WorkerMark, MarkState, JournalMoves
    <3> QED BY <1>3, <3>1, <3>2 DEF WorkerStep, WorkerList, WorkerAsk
  <2> QED BY <2>1, <2>2 DEF Moves
<1>4. CASE Crash
  <2>1. NodeMoves /\ InputsMove /\ JournalMoves
    BY <1>4 DEF Crash, NodeMoves, InputsMove, JournalMoves
  <2>2. WireMoves
    <3>1. \A b \in Batches : BAt(b, "send") \/ BAt(b, "rebroadcast") => batch[b].t \in 1..built
      BY DEF BAt, Bound, CallsAreBound, HasTx
    <3>2. PICK lost \in SUBSET {batch[b].t : b \in {c \in Batches : BAt(c, "send") \/ BAt(c, "rebroadcast")}} :
            wire' = wire \cup lost
      BY <1>4 DEF Crash
    <3>3. lost \subseteq 1..built
      BY <3>1
    <3> QED BY <3>2, <3>3 DEF WireMoves
  <2>3. UNCHANGED built
    BY <1>4 DEF Crash
  <2> QED BY <2>1, <2>2, <2>3 DEF Moves, InputsMove
<1>5. CASE Network
  <2>1. InputsMove /\ JournalMoves
    BY <1>5 DEF Network, NodeStep, Commit, Reject, Forget, Deliver, InputsMove, JournalMoves
  <2> QED BY <1>5, <2>1, NetworkMoves DEF Network, Moves
<1> QED BY <1>1, <1>2, <1>3, <1>4, <1>5, BatchMoves DEF Next

(* So what was built stays as it is, a commit stays, and so does the end   *)
(* of a record.                                                            *)
Grows ==
    /\ 1..built \subseteq 1..built'
    /\ \A t \in 1..built : inputs'[t] = inputs[t]
    /\ \A t \in TxIds : node[t] = "committed" => node'[t] = "committed"
    /\ \A t \in TxIds : Decided(t) => Decided(t)'

LEMMA HistoryGrows ==
    ASSUME Bound, Moves
    PROVE  Grows
<1>0. /\ built \in Nat /\ inputs \in [TxIds -> SUBSET Coins]
      /\ node \in [TxIds -> NodeStates] /\ journal \in [TxIds -> JournalStates]
      /\ 1..built \subseteq TxIds
  BY DEF Bound, TypeOK, NodeTypeOK, TxIds
<1>1. 1..built \subseteq 1..built' /\ \A t \in 1..built : inputs'[t] = inputs[t]
  BY <1>0 DEF Moves, InputsMove
<1>2. \A t \in TxIds : node[t] = "committed" => node'[t] = "committed"
  BY <1>0 DEF Moves, NodeMoves, Accepted, InPlay
<1>3. \A t \in TxIds : Decided(t) => Decided(t)'
  BY <1>0 DEF Moves, JournalMoves, Decided
<1> QED BY <1>1, <1>2, <1>3 DEF Grows

GoneAfter(m) == \E t \in TxIds : node'[t] = "committed" /\ m \in inputs'[t]

LEMMA GoneStays ==
    ASSUME Bound, Grows, NEW m, Gone(m)
    PROVE  GoneAfter(m)
<1>1. PICK t \in TxIds : node[t] = "committed" /\ m \in inputs[t]
  BY DEF Gone
<1>2. t \in 1..built
  BY <1>1 DEF Bound, UnbuiltIsUnknown
<1> QED BY <1>1, <1>2 DEF GoneAfter, Grows

LEMMA UnbuiltStays ==
    ASSUME Bound, Moves
    PROVE  UnbuiltIsUnknown'
<1> SUFFICES ASSUME NEW t \in TxIds, t \notin 1..built'
             PROVE  /\ inputs'[t] = {} /\ node'[t] = "unknown" /\ t \notin wire'
                    /\ journal'[t] = "none"
  BY DEF UnbuiltIsUnknown
<1>0. /\ built \in Nat /\ inputs \in [TxIds -> SUBSET Coins]
      /\ node \in [TxIds -> NodeStates] /\ journal \in [TxIds -> JournalStates]
  BY DEF Bound, TypeOK, NodeTypeOK
<1>1. t \notin 1..built
  BY <1>0, HistoryGrows DEF Grows
<1>2. inputs[t] = {} /\ node[t] = "unknown" /\ t \notin wire /\ journal[t] = "none"
  BY <1>1 DEF Bound, UnbuiltIsUnknown
<1>3. inputs'[t] = {}
  <2>1. CASE UNCHANGED inputs
    BY <1>2, <2>1
  <2>2. CASE built' = built + 1 /\ \E M : inputs' = [inputs EXCEPT ![built'] = M]
    <3>1. t # built'
      BY <1>0, <2>2 DEF TxIds
    <3> QED BY <1>0, <1>2, <2>2, <3>1
  <2> QED BY <2>1, <2>2 DEF Moves, InputsMove
<1>4. node'[t] = "unknown"
  BY <1>0, <1>1, <1>2 DEF Moves, NodeMoves
<1>5. t \notin wire'
  BY <1>1, <1>2 DEF Moves, WireMoves
<1>6. journal'[t] = "none"
  BY <1>0, <1>1, <1>2 DEF Moves, JournalMoves
<1> QED BY <1>3, <1>4, <1>5, <1>6

-----------------------------------------------------------------------------
(* Where a step of a batch leaves it: at a transaction that is built, with *)
(* the evidence its next step rests on.                                    *)
Arrives(b) ==
    /\ \A c \in Batches \ {b} : batch'[c] = batch[c]
    /\ batch'[b].at \in HasTx => batch'[b].t \in 1..built'
    /\ batch'[b].at \in {"cas", "settle", "release"} =>
          batch'[b].t \in 1..built /\ node[batch'[b].t] = "committed"
    /\ batch'[b].at = "settle" => batch'[b].todo \subseteq inputs[batch'[b].t]
    /\ batch'[b].at \in {"dead", "deadNow"} =>
          batch'[b].m \in Messages /\ Gone(batch'[b].m)

LEMMA FinishArrives ==
    ASSUME Bound, NEW b \in Batches, BFinish(b)
    PROVE  Arrives(b)
BY FinishAt DEF Bound, TypeOK, Arrives, HasTx, SettleLabels

LEMMA MoveEachArrives ==
    ASSUME Bound, CallsHaveEvidence, NEW b \in Batches, NEW l, NEW to,
           MoveEach(b, l, to), UNCHANGED <<inputs, built>>
    PROVE  Arrives(b)
<1>1. TypeOK
  BY DEF Bound
<1>2. PICK m \in batch[b].todo :
             \/ CallKept(b) /\ batch'[b].todo = batch[b].todo \ {m}
             \/ BFinish(b)
  BY <1>1, MoveEachAt
<1>3. CASE CallKept(b) /\ batch'[b].todo = batch[b].todo \ {m}
  <2>1. /\ batch[b].at \in HasTx => batch[b].t \in 1..built
        /\ batch[b].at \in {"dead", "deadNow"} => batch[b].m \in Messages /\ Gone(batch[b].m)
        /\ batch[b].at \in {"cas", "settle", "release"} => node[batch[b].t] = "committed"
        /\ batch[b].at = "settle" => batch[b].todo \subseteq inputs[batch[b].t]
    BY DEF Bound, CallsAreBound, CallsHaveEvidence, BAt
  <2>2. {"cas", "settle", "release"} \subseteq HasTx
    BY DEF HasTx, SettleLabels
  <2> QED BY <1>3, <2>1, <2>2 DEF CallKept, Arrives
<1> QED BY <1>2, <1>3, FinishArrives

LEMMA LocalArrives ==
    ASSUME Bound, CallsHaveEvidence, NEW b \in Batches, BatchLocal(b)
    PROVE  Arrives(b)
<1>1. batch \in [Batches -> BatchCalls] /\ TypeOK /\ UNCHANGED built
  BY DEF Bound, TypeOK, BatchLocal
<1>2. batch[b].at \in HasTx => batch[b].t \in 1..built
  BY DEF Bound, CallsAreBound
<1>3. CASE BatchFind(b)
  <2>1. CASE latest # NoTx /\ BSet(b, "status", latest, {}, {})
    BY <1>1, <2>1, SetAt DEF Arrives, Bound, LatestIsBuilt
  <2>2. CASE BSet(b, "list", NoTx, {}, {})
    BY <1>1, <2>2, SetAt DEF Arrives, HasTx, SettleLabels
  <2> QED BY <1>3, <2>1, <2>2 DEF BatchFind
<1>4. CASE BatchStatus(b)
  <2>1. batch[b].t \in 1..built
    BY <1>2, <1>4 DEF BatchStatus, BAt, HasTx
  <2>2. CASE node[batch[b].t] = "committed" /\ BGoto(b, "cas")
    BY <1>1, <2>1, <2>2, GotoAt DEF Arrives
  <2>3. CASE BGoto(b, "wait") \/ BGoto(b, "abandon") \/ BGoto(b, "rebroadcast")
    BY <1>1, <2>1, <2>3, GotoAt DEF Arrives
  <2> QED BY <1>4, <2>2, <2>3 DEF BatchStatus
<1>5. CASE BatchList(b)
  BY <1>1, <1>5, SetAt, FinishArrives DEF BatchList, Arrives, HasTx, SettleLabels
<1>6. CASE BatchCheck(b)
  <2>1. batch[b].todo \subseteq Messages
    BY <1>1 DEF BatchCalls
  <2> QED BY <1>1, <1>6, <2>1, CheckAt DEF Arrives, HasTx, SettleLabels
<1>7. CASE BatchCovered(b)
  BY <1>1, <1>7, SetAt, FinishArrives DEF BatchCovered, Arrives, HasTx, SettleLabels
<1>8. CASE BatchWait(b)
  <2>1. batch[b].t \in 1..built
    BY <1>2, <1>8 DEF BatchWait, BAt, HasTx, SettleLabels
  <2>2. CASE node[batch[b].t] = "committed" /\ BGoto(b, "cas")
    BY <1>1, <2>1, <2>2, GotoAt DEF Arrives
  <2> QED BY <1>8, <2>2, FinishArrives DEF BatchWait
<1> QED BY <1>3, <1>4, <1>5, <1>6, <1>7, <1>8 DEF BatchLocal

LEMMA RowsArrives ==
    ASSUME Bound, CallsHaveEvidence, NEW b \in Batches, BatchRows(b)
    PROVE  Arrives(b)
<1>1. batch \in [Batches -> BatchCalls] /\ TypeOK /\ UNCHANGED <<inputs, built>>
  BY DEF Bound, TypeOK, BatchRows, nodeVars
<1>2. CASE BatchRequeue(b)
  BY <1>1, <1>2, MoveEachArrives, FinishArrives DEF BatchRequeue
<1>3. CASE BatchDead(b)
  <2>1. batch[b].m \in Messages /\ Gone(batch[b].m)
    BY <1>3 DEF BatchDead, BAt, Bound, CallsAreBound, CallsHaveEvidence
  <2> QED BY <1>1, <1>3, <2>1, DeadAt, FinishArrives DEF Arrives, HasTx, SettleLabels
<1>4. CASE BatchMark(b)
  <2>1. CASE BGoto(b, "build")
    BY <1>1, <2>1, GotoAt DEF Arrives, HasTx, SettleLabels
  <2> QED BY <1>1, <1>4, <2>1, MoveEachArrives DEF BatchMark
<1>5. CASE BatchSettle(b)
  <2>1. CASE LoopEnds(b, "settle") /\ BGoto(b, "release")
    BY <1>1, <2>1, GotoAt DEF Arrives, LoopEnds, BAt, Bound, CallsAreBound, HasTx, SettleLabels,
                              CallsHaveEvidence
  <2> QED BY <1>1, <1>5, <2>1, MoveEachArrives DEF BatchSettle
<1> QED BY <1>2, <1>3, <1>4, <1>5 DEF BatchRows

LEMMA BatchArrives ==
    ASSUME Bound, CallsHaveEvidence, NEW b \in Batches, BatchStep(b)
    PROVE  Arrives(b)
<1>1. batch \in [Batches -> BatchCalls]
  BY DEF Bound, TypeOK
<1>2. batch[b].at \in HasTx => batch[b].t \in 1..built
  BY DEF Bound, CallsAreBound
<1>3. CASE BatchJournal(b)
  <2>1. UNCHANGED built
    BY <1>3 DEF BatchJournal
  <2>2. CASE BatchAbandon(b)
    BY <1>1, <1>2, <2>1, <2>2, SetAt DEF BatchAbandon, BAt, Arrives, HasTx, SettleLabels
  <2>3. CASE BatchCas(b)
    BY <1>1, <1>2, <2>1, <2>3, SetAt, FinishArrives
       DEF BatchCas, BAt, Arrives, HasTx, SettleLabels, CallsHaveEvidence
  <2>4. CASE BatchRecord(b)
    BY <1>1, <1>2, <2>1, <2>4, GotoAt DEF BatchRecord, BAt, Arrives, HasTx, SettleLabels
  <2> QED BY <1>3, <2>2, <2>3, <2>4 DEF BatchJournal
<1>4. CASE BatchNetwork(b)
  <2>1. CASE BGoto(b, "wait") \/ BGoto(b, "abandon")
    BY <1>1, <1>2, <1>4, <2>1, GotoAt
       DEF BatchNetwork, BatchRebroadcast, BatchSend, BAt, Arrives, HasTx
  <2> QED BY <1>4, <2>1, FinishArrives DEF BatchNetwork, BatchRebroadcast, BatchSend
<1>5. CASE BatchMake(b)
  <2>1. ASSUME NEW t, BSet(b, "record", t, {}, batch[b].covered), t \in 1..built'
        PROVE  Arrives(b)
    BY <1>1, <2>1, SetAt DEF Arrives
  <2>2. CASE built' = built + 1 /\ BSet(b, "record", built + 1, {}, batch[b].covered)
    <3>1. built + 1 \in 1..built'
      BY <2>2 DEF Bound, TypeOK
    <3> QED BY <2>1, <2>2, <3>1
  <2> QED BY <1>5, <2>1, <2>2, FinishArrives DEF BatchMake, BatchBuild
<1>6. CASE BatchFree(b)
  BY <1>6, FinishArrives DEF BatchFree, BatchRelease
<1> QED BY <1>3, <1>4, <1>5, <1>6, LocalArrives, RowsArrives DEF BatchStep

LEMMA FaultArrives ==
    ASSUME Bound, NEW b \in Batches, BatchFault(b)
    PROVE  Arrives(b)
<1>1. batch \in [Batches -> BatchCalls]
  BY DEF Bound, TypeOK
<1>2. CASE CellUnknown(b)
  <2>1. batch'[b].at = "check" /\ \A c \in Batches \ {b} : batch'[c] = batch[c]
    BY <1>1, <1>2 DEF CellUnknown, BatchCalls, BAt
  <2> QED BY <2>1 DEF Arrives, HasTx, SettleLabels
<1> QED BY <1>2, FinishArrives DEF BatchFault, BatchThrows

(* A step of anyone else, or a crash, leaves every batch where it is or    *)
(* ends it.                                                                *)
LEMMA OthersArrive ==
    ASSUME Next
    PROVE  \/ \E b \in Batches : BatchStep(b) \/ BatchFault(b)
           \/ UNCHANGED <<batch, latest>>
           \/ batch' = [b \in Batches |-> NoBatch] /\ UNCHANGED latest
BY DEF Next, AckStep, WorkerStep, Crash, Network

LEMMA CallsStaySound ==
    ASSUME Bound, CallsHaveEvidence, Next
    PROVE  CallsAreBound' /\ CallsHaveEvidence'
<1>1. Moves /\ Grows
  BY StepMoves, HistoryGrows
<1>2. ASSUME NEW b \in Batches, Arrives(b)
      PROVE  CallsAreBound' /\ CallsHaveEvidence'
  <2> SUFFICES ASSUME NEW c \in Batches
               PROVE  /\ batch'[c].at \in HasTx => batch'[c].t \in 1..built'
                      /\ batch'[c].at \in {"dead", "deadNow"} =>
                            batch'[c].m \in Messages /\ GoneAfter(batch'[c].m)
                      /\ batch'[c].at \in {"cas", "settle", "release"} =>
                            node'[batch'[c].t] = "committed"
                      /\ batch'[c].at = "settle" => batch'[c].todo \subseteq inputs'[batch'[c].t]
    BY DEF CallsAreBound, CallsHaveEvidence, BAt, Gone, GoneAfter
  <2>0. 1..built \subseteq TxIds
    BY DEF Bound, TypeOK, TxIds
  <2>1. CASE c = b
    BY <1>1, <1>2, <2>0, <2>1, GoneStays DEF Arrives, Grows
  <2>2. CASE c # b
    <3>1. batch'[c] = batch[c]
      BY <1>2, <2>2 DEF Arrives
    <3>2. batch'[c].at \in HasTx => batch[c].t \in 1..built
      BY <3>1 DEF Bound, CallsAreBound
    <3>3. /\ batch[c].at \in {"dead", "deadNow"} => batch[c].m \in Messages /\ Gone(batch[c].m)
          /\ batch[c].at \in {"cas", "settle", "release"} => node[batch[c].t] = "committed"
          /\ batch[c].at = "settle" => batch[c].todo \subseteq inputs[batch[c].t]
      BY DEF Bound, CallsAreBound, CallsHaveEvidence, BAt
    <3>4. {"cas", "settle", "release"} \subseteq HasTx
      BY DEF HasTx, SettleLabels
    <3>5. /\ batch'[c].at \in HasTx => batch'[c].t \in 1..built'
          /\ batch'[c].at \in {"dead", "deadNow"} =>
                batch'[c].m \in Messages /\ GoneAfter(batch'[c].m)
      BY <1>1, <3>1, <3>2, <3>3, GoneStays DEF Grows
    <3>6. /\ batch'[c].at \in {"cas", "settle", "release"} => node'[batch'[c].t] = "committed"
          /\ batch'[c].at = "settle" => batch'[c].todo \subseteq inputs'[batch'[c].t]
      BY <1>1, <2>0, <3>1, <3>2, <3>3, <3>4 DEF Grows
    <3> QED BY <3>5, <3>6
  <2> QED BY <2>1, <2>2
<1>3. CASE UNCHANGED batch
  <2>1. \A c \in Batches : batch'[c] = batch[c]
    BY <1>3
  <2>2. 1..built \subseteq TxIds
    BY DEF Bound, TypeOK, TxIds
  <2>3. CallsAreBound'
    BY <1>1, <2>1 DEF Bound, CallsAreBound, Grows
  <2>4. CallsHaveEvidence'
    <3> SUFFICES ASSUME NEW c \in Batches
                 PROVE  /\ batch[c].at \in {"cas", "settle", "release"} => node'[batch[c].t] = "committed"
                        /\ batch[c].at = "settle" => batch[c].todo \subseteq inputs'[batch[c].t]
                        /\ batch[c].at \in {"dead", "deadNow"} => GoneAfter(batch[c].m)
      BY <2>1 DEF CallsHaveEvidence, BAt, Gone, GoneAfter
    <3>1. batch[c].at \in {"cas", "settle", "release"} => batch[c].t \in 1..built
      BY DEF Bound, CallsAreBound, HasTx, SettleLabels
    <3>2. batch[c].at \in {"dead", "deadNow"} => GoneAfter(batch[c].m)
      BY <1>1, GoneStays DEF CallsHaveEvidence
    <3> QED BY <1>1, <2>2, <3>1, <3>2 DEF CallsHaveEvidence, BAt, Grows
  <2> QED BY <2>3, <2>4
<1>4. CASE batch' = [b \in Batches |-> NoBatch]
  <2>1. \A c \in Batches : batch'[c].at = "idle"
    BY <1>4 DEF NoBatch
  <2> QED BY <2>1 DEF CallsAreBound, CallsHaveEvidence, HasTx, SettleLabels, BAt
<1> QED BY <1>1, <1>2, <1>3, <1>4, OthersArrive, BatchArrives, FaultArrives

LEMMA LatestStaysBuilt ==
    ASSUME Bound, Next
    PROVE  LatestIsBuilt'
<1>1. Grows
  BY StepMoves, HistoryGrows
<1>2. CASE UNCHANGED latest
  BY <1>1, <1>2 DEF Bound, LatestIsBuilt, Grows
<1>3. ASSUME NEW b \in Batches, BatchRecord(b)
      PROVE  LatestIsBuilt'
  BY <1>1, <1>2, <1>3 DEF BatchRecord, BAt, Bound, CallsAreBound, HasTx, LatestIsBuilt, Grows
<1>4. UNCHANGED latest \/ \E b \in Batches : BatchRecord(b)
  BY DEF Next, AckStep, BatchStep, BatchLocal, BatchRows, BatchJournal, BatchNetwork, BatchMake,
         BatchFree, BatchFault, WorkerStep, Crash, Network
<1> QED BY <1>2, <1>3, <1>4

(* A rejection is told of a built transaction only.                        *)
LEMMA AnswersStayBuilt ==
    ASSUME Bound, Next
    PROVE  AnswersAreBuilt'
<1>1. /\ 1..built \subseteq 1..built'
      /\ listed \in [Workers -> [txs : SUBSET TxIds, rejected : TxIds \cup {NoTx}]]
  BY StepMoves, HistoryGrows DEF Grows, Bound, TypeOK
<1>2. CASE UNCHANGED listed
  BY <1>1, <1>2 DEF Bound, AnswersAreBuilt
<1>3. CASE listed' = [w \in Workers |-> NoList]
  BY <1>3 DEF AnswersAreBuilt, NoList
<1>4. ASSUME NEW w \in Workers, NEW t \in TxIds,
             listed'[w].rejected \in {NoTx, t}, t = listed[w].rejected \/ node[t] = "rejected",
             \A v \in Workers \ {w} : listed'[v] = listed[v]
      PROVE  AnswersAreBuilt'
  <2>1. listed'[w].rejected # NoTx => t \in 1..built
    BY <1>4, Names DEF Bound, AnswersAreBuilt, UnbuiltIsUnknown
  <2> QED BY <1>1, <1>4, <2>1 DEF Bound, AnswersAreBuilt
<1>5. ASSUME NEW w \in Workers, WorkerStep(w)
      PROVE  AnswersAreBuilt'
  <2>1. CASE WorkerList(w)
    <3>1. \A v \in Workers : listed'[v].rejected = listed[v].rejected
      BY <1>1, <2>1 DEF WorkerList
    <3> QED BY <1>1, <3>1 DEF Bound, AnswersAreBuilt
  <2>2. CASE WorkerAsk(w)
    <3>1. PICK t \in listed[w].txs :
            listed' = [listed EXCEPT
                         ![w] = [txs |-> @.txs \ {t},
                                 rejected |-> IF node[t] = "rejected" THEN t ELSE NoTx]]
      BY <2>2 DEF WorkerAsk
    <3>2. t \in TxIds
      BY <1>1, <3>1
    <3>3. /\ listed'[w].rejected = IF node[t] = "rejected" THEN t ELSE NoTx
          /\ \A v \in Workers \ {w} : listed'[v] = listed[v]
      BY <1>1, <3>1
    <3>4. CASE node[t] = "rejected"
      BY <1>4, <3>2, <3>3, <3>4
    <3>5. CASE node[t] # "rejected"
      BY <1>1, <3>3, <3>5 DEF Bound, AnswersAreBuilt
    <3> QED BY <3>4, <3>5
  <2>3. CASE WorkerMark(w)
    <3>1. /\ listed'[w].rejected = NoTx
          /\ \A v \in Workers \ {w} : listed'[v] = listed[v]
      BY <1>1, <2>3 DEF WorkerMark
    <3> QED BY <1>1, <3>1 DEF Bound, AnswersAreBuilt
  <2> QED BY <1>5, <2>1, <2>2, <2>3 DEF WorkerStep
<1> QED BY <1>2, <1>3, <1>5 DEF Next, AckStep, BatchStep, BatchFault, Crash, Network

(* The first half of the inductive invariant.                              *)
Sound == Bound /\ CallsHaveEvidence

LEMMA InitSound == Init => Sound
<1> SUFFICES ASSUME Init PROVE Sound
  OBVIOUS
<1>1. TypeOK
  BY InitTyped
<1>2. UnbuiltIsUnknown /\ LatestIsBuilt /\ AnswersAreBuilt
  BY DEF Init, NodeInit, UnbuiltIsUnknown, LatestIsBuilt, AnswersAreBuilt, NoList
<1>3. CallsAreBound /\ CallsHaveEvidence
  BY DEF Init, NoBatch, CallsAreBound, CallsHaveEvidence, HasTx, SettleLabels, BAt
<1> QED BY <1>1, <1>2, <1>3 DEF Sound, Bound

LEMMA StepKeepsSound ==
    ASSUME Sound, Next
    PROVE  Sound'
<1>1. Bound /\ CallsHaveEvidence /\ TypeOK /\ CallsAreBound
  BY DEF Sound, Bound
<1>2. TypeOK'
  BY <1>1, AckTyped, BatchTyped, FaultTyped, WorkerTyped, CrashTyped, NetworkTyped DEF Next
<1>3. UnbuiltIsUnknown'
  BY <1>1, StepMoves, UnbuiltStays
<1> QED BY <1>1, <1>2, <1>3, LatestStaysBuilt, CallsStaySound, AnswersStayBuilt DEF Sound, Bound

LEMMA SoundStays == Sound /\ [Next]_vars => Sound'
<1>1. Sound /\ UNCHANGED vars => Sound'
  <2> SUFFICES ASSUME Sound, UNCHANGED vars PROVE Sound'
    OBVIOUS
  <2> QED BY DEF vars, nodeVars, ledgerVars, Sound, Bound, TypeOK, NodeTypeOK, UnbuiltIsUnknown,
                 LatestIsBuilt, CallsAreBound, AnswersAreBuilt, CallsHaveEvidence, BAt, Gone
<1> QED BY <1>1, StepKeepsSound

LEMMA SoundInvariant == Spec => []Sound
  BY SoundStays, InitSound, PTL DEF Spec

(* Every variable keeps its type: no call indexes a table outside its      *)
(* domain, and the reclaimable bucket never goes below zero.               *)
THEOREM TypeCorrect == Spec => []TypeOK
<1>1. Sound => TypeOK
  BY DEF Sound, Bound
<1> QED BY <1>1, SoundInvariant, PTL

-----------------------------------------------------------------------------
(***************************************************************************)
(* Evidence: a step that brings a row to its end knows its cell is spent.  *)
(***************************************************************************)
RowMoves ==
    \/ UNCHANGED row
    \/ \E m \in Messages, to \in WalkLabels \cup ReclaimStates :
          Transition(m, to) /\ (to = "reclaimed" => Gone(m))

LEMMA LoopMovesRow ==
    ASSUME TypeOK, NEW b \in Batches, NEW l,
           NEW to \in {"reclaim_queued", "reclaim_pending"}, MoveEach(b, l, to)
    PROVE  RowMoves
<1>1. batch[b].todo \subseteq Messages
  BY DEF TypeOK, BatchCalls
<1> QED BY <1>1, MoveEachAt DEF RowMoves, ReclaimStates

LEMMA BatchMovesRow ==
    ASSUME Sound, NEW b \in Batches, BatchStep(b)
    PROVE  RowMoves
<1>1. TypeOK /\ batch[b].todo \subseteq Messages
  BY DEF Sound, Bound, TypeOK, BatchCalls
<1>2. CASE UNCHANGED row
  BY <1>2 DEF RowMoves
<1>3. CASE BatchRequeue(b)
  BY <1>1, <1>2, <1>3, LoopMovesRow DEF BatchRequeue
<1>4. CASE BatchMark(b)
  BY <1>1, <1>2, <1>4, LoopMovesRow DEF BatchMark
<1>5. CASE BatchDead(b)
  <2>1. batch[b].m \in Messages /\ Gone(batch[b].m)
    BY <1>5 DEF BatchDead, BAt, Sound, Bound, CallsAreBound, CallsHaveEvidence
  <2>2. (IF BAt(b, "dead") THEN "reclaim_pending" ELSE "reclaimed") \in ReclaimStates
    BY DEF ReclaimStates
  <2> QED BY <1>1, <1>2, <1>5, <2>1, <2>2, DeadAt DEF RowMoves
<1>6. CASE BatchSettle(b)
  <2>1. CASE MoveEach(b, "settle", "reclaimed")
    <3>1. PICK m \in batch[b].todo : Transition(m, "reclaimed") \/ UNCHANGED row
      BY <1>1, <2>1, MoveEachAt
    <3>2. batch[b].t \in TxIds /\ node[batch[b].t] = "committed" /\ m \in inputs[batch[b].t]
      BY <2>1 DEF MoveEach, BAt, Sound, Bound, TypeOK, TxIds, CallsAreBound, HasTx, SettleLabels,
                  CallsHaveEvidence
    <3>3. Gone(m) /\ "reclaimed" \in ReclaimStates
      BY <3>2 DEF Gone, ReclaimStates
    <3> QED BY <1>1, <3>1, <3>3 DEF RowMoves
  <2> QED BY <1>2, <1>6, <2>1 DEF BatchSettle
<1> QED BY <1>2, <1>3, <1>4, <1>5, <1>6 DEF BatchStep, BatchLocal, BatchRows, BatchJournal,
                                            BatchNetwork, BatchMake, BatchFree

LEMMA StepMovesRow ==
    ASSUME Sound, Next
    PROVE  RowMoves
<1>1. CASE UNCHANGED row
  BY <1>1 DEF RowMoves
<1>2. ASSUME NEW a \in Ackers, AckStep(a)
      PROVE  RowMoves
  <2>1. CASE AckWalk(a)
    <3>1. ack[a].m \in Messages /\ ack[a].at \in WalkLabels /\ ack[a].at # "reclaimed"
      BY <2>1 DEF AckWalk, Sound, Bound, TypeOK, AckCalls, WalkLabels
    <3> QED BY <1>1, <2>1, <3>1 DEF AckWalk, Refused, RowMoves
  <2> QED BY <1>1, <1>2, <2>1 DEF AckStep, AckFind, AckFund
<1> QED BY <1>1, <1>2, BatchMovesRow DEF Next, BatchFault, WorkerStep, Crash, Network

LEMMA StepKeepsEvidence ==
    ASSUME Sound, ReclaimedIsGone, Next
    PROVE  ReclaimedIsGone'
<1> SUFFICES ASSUME NEW m \in Messages, row'[m] = "reclaimed"
             PROVE  GoneAfter(m)
  BY DEF ReclaimedIsGone, Gone, GoneAfter
<1>1. Bound /\ row \in [Messages -> AckableStates \cup ReclaimStates]
  BY DEF Sound, Bound, TypeOK
<1>2. CASE row[m] = "reclaimed"
  BY <1>1, <1>2, StepMoves, HistoryGrows, GoneStays DEF ReclaimedIsGone
<1>3. CASE row[m] # "reclaimed"
  <2>1. PICK k \in Messages, to \in WalkLabels \cup ReclaimStates : Transition(k, to) /\ (to = "reclaimed" => Gone(k))
    BY <1>3, StepMovesRow DEF RowMoves
  <2>2. k = m /\ to = "reclaimed"
    BY <1>1, <1>3, <2>1 DEF Transition
  <2> QED BY <1>1, <2>1, <2>2, StepMoves, HistoryGrows, GoneStays
<1> QED BY <1>2, <1>3

(* A row says reclaimed only if its cell was spent by a committed reclaim, *)
(* whichever of any number of overlapping calls, resumes and dead branches *)
(* moved it there.                                                         *)
THEOREM ReclaimedAreGone == Spec => []ReclaimedIsGone
<1>1. Init => ReclaimedIsGone
  BY DEF Init, ReclaimedIsGone
<1>2. Sound /\ ReclaimedIsGone /\ [Next]_vars => ReclaimedIsGone'
  <2>1. ReclaimedIsGone /\ UNCHANGED vars => ReclaimedIsGone'
    BY DEF vars, nodeVars, ReclaimedIsGone, Gone
  <2> QED BY <2>1, StepKeepsEvidence
<1> QED BY <1>1, <1>2, SoundInvariant, PTL DEF Spec

-----------------------------------------------------------------------------
(***************************************************************************)
(* Winning: the release happens at most once for a cell.                   *)
(***************************************************************************)
(* A step that puts a call among the winners of a transaction is the one   *)
(* that took its record out of `submitted`.                                *)
WinsOnce ==
    \/ \A c \in Batches, t \in TxIds : Winning(c, t)' => Winning(c, t)
    \/ \E b \in Batches, t \in TxIds :
          /\ journal[t] = "submitted" /\ Decided(t)'
          /\ \A c \in Batches, u \in TxIds :
                Winning(c, u)' => Winning(c, u) \/ (c = b /\ u = t)

LEMMA OtherStepsDoNotWin ==
    ASSUME NEW b \in Batches,
           \A c \in Batches \ {b} : batch'[c] = batch[c],
           batch'[b].at \in {"settle", "release"} =>
              batch[b].at \in {"settle", "release"} /\ batch'[b].t = batch[b].t
    PROVE  WinsOnce
<1>1. ASSUME NEW c \in Batches, NEW t \in TxIds, Winning(c, t)'
      PROVE  Winning(c, t)
  BY <1>1 DEF Winning
<1> QED BY <1>1 DEF WinsOnce

LEMMA LocalDoesNotWin ==
    ASSUME Sound, NEW b \in Batches, BatchLocal(b)
    PROVE  WinsOnce
<1>1. batch \in [Batches -> BatchCalls] /\ TypeOK
  BY DEF Sound, Bound, TypeOK
<1>2. batch'[b].at \notin {"settle", "release"} /\ \A c \in Batches \ {b} : batch'[c] = batch[c]
  <2>1. CASE BatchFind(b)
    BY <1>1, <2>1, SetAt DEF BatchFind
  <2>2. CASE BatchStatus(b)
    BY <1>1, <2>2, GotoAt DEF BatchStatus
  <2>3. CASE BatchList(b)
    BY <1>1, <2>3, SetAt, FinishAt DEF BatchList
  <2>4. CASE BatchCheck(b)
    BY <1>1, <2>4, CheckAt
  <2>5. CASE BatchCovered(b)
    BY <1>1, <2>5, SetAt, FinishAt DEF BatchCovered
  <2>6. CASE BatchWait(b)
    BY <1>1, <2>6, GotoAt, FinishAt DEF BatchWait
  <2> QED BY <2>1, <2>2, <2>3, <2>4, <2>5, <2>6 DEF BatchLocal
<1> QED BY <1>2, OtherStepsDoNotWin

LEMMA FinishDoesNotWin ==
    ASSUME Sound, NEW b \in Batches, BFinish(b)
    PROVE  WinsOnce
<1>1. batch \in [Batches -> BatchCalls]
  BY DEF Sound, Bound, TypeOK
<1> QED BY <1>1, FinishAt, OtherStepsDoNotWin

LEMMA GotoDoesNotWin ==
    ASSUME Sound, NEW b \in Batches, NEW l, BGoto(b, l),
           l \notin {"settle", "release"} \/ BAt(b, "settle")
    PROVE  WinsOnce
<1>1. batch \in [Batches -> BatchCalls]
  BY DEF Sound, Bound, TypeOK
<1> QED BY <1>1, GotoAt, OtherStepsDoNotWin DEF BAt

LEMMA MoveEachDoesNotWin ==
    ASSUME Sound, NEW b \in Batches, NEW l, NEW to, MoveEach(b, l, to)
    PROVE  WinsOnce
<1>1. TypeOK
  BY DEF Sound, Bound
<1>2. CallKept(b) \/ BFinish(b)
  BY <1>1, MoveEachAt
<1> QED BY <1>2, FinishDoesNotWin, OtherStepsDoNotWin DEF CallKept

LEMMA BatchWins ==
    ASSUME Sound, NEW b \in Batches, BatchStep(b)
    PROVE  WinsOnce
<1>1. batch \in [Batches -> BatchCalls] /\ TypeOK /\ journal \in [TxIds -> JournalStates]
  BY DEF Sound, Bound, TypeOK
<1>2. CASE BatchRows(b)
  <2>1. CASE BatchDead(b)
    <3>1. \/ BFinish(b)
          \/ /\ \A c \in Batches \ {b} : batch'[c] = batch[c]
             /\ batch'[b].at \in {"deadNow", "check"}
      BY <1>1, <2>1, DeadAt
    <3> QED BY <3>1, FinishDoesNotWin, OtherStepsDoNotWin
  <2> QED BY <1>2, <2>1, MoveEachDoesNotWin, FinishDoesNotWin, GotoDoesNotWin
          DEF BatchRows, BatchRequeue, BatchMark, BatchSettle, LoopEnds
<1>3. CASE BatchJournal(b)
  <2>1. CASE BatchAbandon(b)
    BY <1>1, <2>1, SetAt, OtherStepsDoNotWin DEF BatchAbandon
  <2>2. CASE BatchRecord(b)
    BY <2>2, GotoDoesNotWin DEF BatchRecord
  <2>3. CASE BatchCas(b)
    <3>1. CASE BFinish(b)
      BY <3>1, FinishDoesNotWin
    <3>2. CASE ~BFinish(b)
      <4> DEFINE t == batch[b].t
      <4>1. t \in TxIds
        BY <2>3 DEF BatchCas, BAt, Sound, Bound, TypeOK, TxIds, CallsAreBound, HasTx, SettleLabels
      <4>2. /\ journal[t] = "submitted" /\ MarkState(t, "committed")
            /\ BSet(b, "settle", t, inputs[t], {})
        BY <2>3, <3>2 DEF BatchCas
      <4>3. journal'[t] = "committed"
        BY <1>1, <4>1, <4>2 DEF MarkState
      <4>4. batch'[b].t = t /\ \A c \in Batches \ {b} : batch'[c] = batch[c]
        BY <1>1, <4>2, SetAt
      <4>5. ASSUME NEW c \in Batches, NEW u \in TxIds, Winning(c, u)'
            PROVE  Winning(c, u) \/ (c = b /\ u = batch'[b].t)
        BY <4>5, <4>4 DEF Winning
      <4>6. PICK k \in TxIds : k = t
        BY <4>1
      <4>7. /\ journal[k] = "submitted" /\ Decided(k)'
            /\ \A c \in Batches, u \in TxIds : Winning(c, u)' => Winning(c, u) \/ (c = b /\ u = k)
        BY <4>2, <4>3, <4>4, <4>5, <4>6 DEF Decided
      <4> QED BY <4>7 DEF WinsOnce
    <3> QED BY <3>1, <3>2
  <2> QED BY <1>3, <2>1, <2>2, <2>3 DEF BatchJournal
<1>4. CASE BatchNetwork(b)
  BY <1>4, GotoDoesNotWin, FinishDoesNotWin DEF BatchNetwork, BatchRebroadcast, BatchSend
<1>5. CASE BatchMake(b)
  <2>1. ASSUME NEW t, BSet(b, "record", t, {}, batch[b].covered)
        PROVE  WinsOnce
    BY <1>1, <2>1, SetAt, OtherStepsDoNotWin
  <2> QED BY <1>5, <2>1, FinishDoesNotWin DEF BatchMake, BatchBuild
<1>6. CASE BatchFree(b)
  BY <1>6, FinishDoesNotWin DEF BatchFree, BatchRelease
<1> QED BY <1>2, <1>3, <1>4, <1>5, <1>6, LocalDoesNotWin DEF BatchStep

LEMMA StepWins ==
    ASSUME Sound, Next
    PROVE  WinsOnce
<1>1. CASE UNCHANGED batch
  BY <1>1 DEF WinsOnce, Winning
<1>2. CASE batch' = [b \in Batches |-> NoBatch]
  BY <1>2 DEF WinsOnce, Winning, NoBatch
<1>3. ASSUME NEW b \in Batches, BatchFault(b)
      PROVE  WinsOnce
  <2>1. CASE CellUnknown(b)
    <3>1. batch'[b].at = "check" /\ \A c \in Batches \ {b} : batch'[c] = batch[c]
      BY <2>1 DEF CellUnknown, BAt, Sound, Bound, TypeOK, BatchCalls
    <3> QED BY <3>1, OtherStepsDoNotWin
  <2> QED BY <1>3, <2>1, FinishDoesNotWin DEF BatchFault, BatchThrows
<1> QED BY <1>1, <1>2, <1>3, BatchWins, OthersArrive

LEMMA StepSpendsOnce ==
    ASSUME Sound, NoDoubleSpend, Next
    PROVE  NoDoubleSpend'
<1>1. Moves /\ Bound /\ Grows
  BY StepMoves, HistoryGrows DEF Sound
<1>2. /\ built \in Nat /\ inputs \in [TxIds -> SUBSET Coins] /\ node \in [TxIds -> NodeStates]
      /\ 1..built \subseteq TxIds
  BY <1>1 DEF Bound, TypeOK, NodeTypeOK, TxIds
<1> SUFFICES ASSUME NEW t \in TxIds, NEW u \in TxIds, t # u, inputs'[t] \cap inputs'[u] # {},
                    node'[t] \in {"pending", "committed"}, node'[u] \in {"pending", "committed"}
             PROVE  FALSE
  BY DEF NoDoubleSpend, Conflicts, InPlay
<1>3. CASE UNCHANGED inputs
  <2>1. Conflicts(t, u) /\ Conflicts(u, t)
    BY <1>3 DEF Conflicts
  <2>2. ~(InPlay(t) /\ InPlay(u))
    BY <2>1 DEF NoDoubleSpend
  <2>3. PICK k \in 1..built, s \in NodeStates :
          /\ node' = [node EXCEPT ![k] = s]
          /\ \/ s = "pending" /\ Accepted(k)
             \/ s # "pending" /\ node[k] = "pending"
    BY <1>1, <2>2 DEF Moves, NodeMoves, InPlay
  <2>4. \A x \in TxIds : x # k => node'[x] = node[x]
    BY <1>2, <2>3
  <2>5. CASE Accepted(k)
    BY <1>2, <2>1, <2>2, <2>4, <2>5 DEF Accepted, SpentElsewhere, InPlay
  <2>6. CASE node[k] = "pending"
    BY <1>2, <2>2, <2>4, <2>6 DEF InPlay
  <2> QED BY <2>3, <2>5, <2>6
<1>4. CASE /\ built' = built + 1 /\ built' \in TxIds /\ UNCHANGED node
           /\ \E M : inputs' = [inputs EXCEPT ![built'] = M]
  <2>1. node[built'] = "unknown"
    BY <1>1, <1>2, <1>4 DEF Bound, UnbuiltIsUnknown
  <2>2. t # built' /\ u # built'
    BY <1>4, <2>1
  <2>3. inputs'[t] = inputs[t] /\ inputs'[u] = inputs[u]
    BY <1>2, <1>4, <2>2
  <2> QED BY <1>4, <2>3 DEF NoDoubleSpend, Conflicts, InPlay
<1> QED BY <1>1, <1>3, <1>4 DEF Moves, InputsMove

LEMMA StepKeepsWinners ==
    ASSUME Sound, WinnersDiffer, Next
    PROVE  WinnersDiffer'
<1>1. Grows /\ WinsOnce
  BY StepMoves, HistoryGrows, StepWins DEF Sound
<1>2. CASE \A c \in Batches, t \in TxIds : Winning(c, t)' => Winning(c, t)
  BY <1>1, <1>2 DEF WinnersDiffer, Grows
<1>3. ASSUME NEW b \in Batches, NEW t \in TxIds, journal[t] = "submitted", Decided(t)',
             \A c \in Batches, u \in TxIds : Winning(c, u)' => Winning(c, u) \/ (c = b /\ u = t)
      PROVE  WinnersDiffer'
  <2>1. \A c \in Batches : ~Winning(c, t)
    BY <1>3 DEF WinnersDiffer, Decided
  <2>2. \A c \in Batches, u \in TxIds : Winning(c, u)' => Decided(u)'
    BY <1>1, <1>3 DEF WinnersDiffer, Grows
  <2>3. \A c, d \in Batches, u \in TxIds : Winning(c, u)' /\ Winning(d, u)' => c = d
    BY <1>3, <2>1 DEF WinnersDiffer
  <2> QED BY <2>2, <2>3 DEF WinnersDiffer
<1> QED BY <1>1, <1>2, <1>3 DEF WinsOnce

LEMMA OverStays ==
    ASSUME Sound, Next, NEW t \in TxIds, NEW m, OverFor(t, m)
    PROVE  OverFor(t, m)'
<1>1. Grows /\ WinsOnce /\ Bound
  BY StepMoves, HistoryGrows, StepWins DEF Sound
<1>2. t \in 1..built
  BY <1>1 DEF Bound, UnbuiltIsUnknown, OverFor
<1>3. node'[t] = "committed" /\ m \in inputs'[t] /\ Decided(t)'
  BY <1>1, <1>2 DEF Grows, OverFor
<1>4. \A b \in Batches : ~Winning(b, t)'
  BY <1>1 DEF WinsOnce, OverFor, Decided
<1> QED BY <1>3, <1>4 DEF OverFor

(* The release itself: none of the cells was released before, and nobody   *)
(* else will release them.                                                 *)
LEMMA ReleaseEnds ==
    ASSUME Sound, Once, NEW b \in Batches, BatchRelease(b), Next, NEW m \in Messages,
           m \in inputs[batch[b].t]
    PROVE  released[m] = 0 /\ \E t \in TxIds : OverFor(t, m)'
<1>1. Grows /\ Bound /\ batch \in [Batches -> BatchCalls]
  BY StepMoves, HistoryGrows DEF Sound, Bound, TypeOK
<1>2. batch[b].t \in 1..built /\ batch[b].t \in TxIds /\ node[batch[b].t] = "committed"
  BY <1>1 DEF BatchRelease, BAt, Sound, Bound, TypeOK, TxIds, CallsAreBound, CallsHaveEvidence,
              HasTx, SettleLabels
<1>3. PICK t \in TxIds : t = batch[b].t
  BY <1>2
<1>4. Winning(b, t) /\ t \in 1..built /\ node[t] = "committed" /\ m \in inputs[t]
  BY <1>2, <1>3 DEF BatchRelease, BAt, Winning
<1>5. released[m] = 0
  <2> SUFFICES ASSUME released[m] # 0 PROVE FALSE
    OBVIOUS
  <2>1. PICK u \in TxIds : OverFor(u, m)
    BY DEF Once, ReleasedIsOver
  <2>2. u # t
    BY <1>4, <2>1 DEF OverFor
  <2> QED BY <1>4, <2>1, <2>2 DEF OverFor, Once, NoDoubleSpend, Conflicts, InPlay
<1>6. node'[t] = "committed" /\ m \in inputs'[t] /\ Decided(t)'
  BY <1>1, <1>4 DEF Grows, Once, WinnersDiffer
<1>7. \A c \in Batches : ~Winning(c, t)'
  <2>1. batch'[b].at = "idle" /\ \A c \in Batches \ {b} : batch'[c] = batch[c]
    BY <1>1, FinishAt DEF BatchRelease
  <2> QED BY <1>4, <2>1 DEF Winning, Once, WinnersDiffer
<1> QED BY <1>5, <1>6, <1>7 DEF OverFor

LEMMA StepReleasesOnce ==
    ASSUME Sound, Once, Next
    PROVE  ReleasedIsOver'
<1> SUFFICES ASSUME NEW m \in Messages, released'[m] # 0
             PROVE  released'[m] = 1 /\ \E t \in TxIds : OverFor(t, m)'
  BY DEF ReleasedIsOver
<1>1. CASE released'[m] = released[m]
  BY <1>1, OverStays DEF Once, ReleasedIsOver
<1>2. CASE released'[m] # released[m]
  <2>1. PICK b \in Batches : BatchRelease(b)
    BY <1>2 DEF Next, AckStep, BatchStep, BatchLocal, BatchRows, BatchJournal, BatchNetwork,
         BatchMake, BatchFree, BatchFault, WorkerStep, Crash, Network, ledgerVars
  <2>2. m \in inputs[batch[b].t] /\ released'[m] = Counted(released[m])
    BY <1>2, <2>1 DEF BatchRelease
  <2>3. released[m] = 0 /\ \E t \in TxIds : OverFor(t, m)'
    BY <2>1, <2>2, ReleaseEnds
  <2> QED BY <2>2, <2>3 DEF Counted, MaxCount
<1> QED BY <1>1, <1>2

LEMMA OnceInvariant == Spec => []Once
<1>1. Init => Once
  <2> SUFFICES ASSUME Init PROVE Once
    OBVIOUS
  <2>1. NoDoubleSpend
    BY DEF Init, NodeInit, NoDoubleSpend, Conflicts
  <2>2. WinnersDiffer
    BY DEF Init, NoBatch, WinnersDiffer, Winning
  <2>3. ReleasedIsOver
    BY DEF Init, ReleasedIsOver
  <2> QED BY <2>1, <2>2, <2>3 DEF Once
<1>2. Sound /\ Once /\ [Next]_vars => Once'
  <2>1. Once /\ UNCHANGED vars => Once'
    BY DEF vars, nodeVars, ledgerVars, Once, NoDoubleSpend, Conflicts, InPlay, WinnersDiffer,
           Winning, Decided, ReleasedIsOver, OverFor
  <2>2. Sound /\ Once /\ Next => Once'
    BY StepSpendsOnce, StepKeepsWinners, StepReleasesOnce DEF Once
  <2> QED BY <2>1, <2>2
<1> QED BY <1>1, <1>2, SoundInvariant, PTL DEF Spec

(* However many calls, resumes and rebuilt transactions settle a message,  *)
(* its cell is released at most once, and only when it is spent.           *)
THEOREM CellsAreReleasedOnce == Spec => []ReleasedOnce
<1>1. Sound /\ Once => ReleasedOnce
  <2> SUFFICES ASSUME Sound, Once, NEW m \in Messages
               PROVE  released[m] <= (IF Gone(m) THEN 1 ELSE 0)
    BY DEF ReleasedOnce
  <2>1. released[m] \in Nat
    BY DEF Sound, Bound, TypeOK, MaxCount
  <2>2. released[m] # 0 => released[m] = 1 /\ Gone(m)
    BY DEF Once, ReleasedIsOver, OverFor, Gone
  <2> QED BY <2>1, <2>2
<1> QED BY <1>1, SoundInvariant, OnceInvariant, PTL

-----------------------------------------------------------------------------
(***************************************************************************)
(* Funding: a receipt that comes again finds a row that is past it.        *)
(***************************************************************************)
LEMMA ReclaimIsClosed ==
    ASSUME NEW from \in ReclaimStates, NEW to \in WalkLabels \cup ReclaimStates,
           Accepts(from, to)
    PROVE  to \in ReclaimStates
BY ReclaimIsOneWay DEF ReclaimStates, WalkLabels

(* Whoever has begun to reclaim a row does not see it go back.             *)
LEMMA BegunStays ==
    ASSUME Sound, Next, NEW m \in Messages, row[m] \in ReclaimStates
    PROVE  row'[m] \in ReclaimStates
<1>1. row \in [Messages -> AckableStates \cup ReclaimStates]
  BY DEF Sound, Bound, TypeOK
<1>2. CASE UNCHANGED row
  BY <1>2
<1>3. ASSUME NEW k \in Messages, NEW to \in WalkLabels \cup ReclaimStates, Transition(k, to)
      PROVE  row'[m] \in ReclaimStates
  <2>1. CASE k = m
    BY <1>1, <1>3, <2>1, ReclaimIsClosed DEF Transition
  <2>2. CASE k # m
    BY <1>1, <1>3, <2>2 DEF Transition
  <2> QED BY <2>1, <2>2
<1> QED BY <1>2, <1>3, StepMovesRow DEF RowMoves

(* A batch only ever touches rows that have begun.                         *)
LEMMA BatchTouchesBegun ==
    ASSUME Sound, RowsAreBegun, NEW b \in Batches, BatchStep(b), NEW m \in Messages,
           row[m] \notin ReclaimStates
    PROVE  row'[m] = row[m]
<1>1. TypeOK /\ row \in [Messages -> AckableStates \cup ReclaimStates]
  BY DEF Sound, Bound, TypeOK
<1>2. m \notin batch[b].todo
  BY DEF RowsAreBegun, Begun
<1>3. ASSUME NEW l, NEW to, MoveEach(b, l, to)
      PROVE  row'[m] = row[m]
  <2>1. PICK k \in batch[b].todo : Transition(k, to) \/ UNCHANGED row
    BY <1>1, <1>3, MoveEachAt
  <2> QED BY <1>1, <1>2, <2>1 DEF Transition
<1>4. CASE BatchDead(b)
  <2>1. Gone(batch[b].m)
    BY <1>4 DEF BatchDead, BAt, Sound, CallsHaveEvidence
  <2>2. m # batch[b].m
    BY <2>1 DEF Gone, RowsAreBegun, Begun
  <2>3. Transition(batch[b].m, IF BAt(b, "dead") THEN "reclaim_pending" ELSE "reclaimed")
          \/ UNCHANGED row
    BY <1>1, <1>4, DeadAt
  <2> QED BY <1>1, <2>2, <2>3 DEF Transition
<1>5. CASE UNCHANGED row
  BY <1>5
<1> QED BY <1>3, <1>4, <1>5 DEF BatchStep, BatchLocal, BatchRows, BatchJournal, BatchNetwork,
             BatchMake, BatchFree, BatchRequeue, BatchMark, BatchSettle

(* What a batch gathers has begun: the rows of a built transaction, those  *)
(* it listed, or some of those it had.                                     *)
Gathers(b) ==
    /\ \A c \in Batches \ {b} : batch'[c] = batch[c]
    /\ Begun(batch'[b].todo) /\ Begun(batch'[b].covered)

LEMMA GatherLess ==
    ASSUME RowsAreBegun, NEW b \in Batches, \A c \in Batches \ {b} : batch'[c] = batch[c],
           batch'[b].todo \subseteq batch[b].todo,
           batch'[b].covered \subseteq batch[b].covered \cup batch[b].todo
    PROVE  Gathers(b)
BY DEF Gathers, RowsAreBegun, Begun

LEMMA FinishGathers ==
    ASSUME Sound, NEW b \in Batches, BFinish(b)
    PROVE  Gathers(b)
<1>1. batch \in [Batches -> BatchCalls]
  BY DEF Sound, Bound, TypeOK
<1> QED BY <1>1, FinishAt DEF Gathers, Begun

LEMMA GotoGathers ==
    ASSUME Sound, RowsAreBegun, NEW b \in Batches, NEW l, BGoto(b, l)
    PROVE  Gathers(b)
<1>1. batch \in [Batches -> BatchCalls]
  BY DEF Sound, Bound, TypeOK
<1> QED BY <1>1, GotoAt, GatherLess

LEMMA SetGathers ==
    ASSUME Sound, NEW b \in Batches, NEW l, NEW t, NEW todo, NEW covered,
           BSet(b, l, t, todo, covered), Begun(todo), Begun(covered)
    PROVE  Gathers(b)
<1>1. batch \in [Batches -> BatchCalls]
  BY DEF Sound, Bound, TypeOK
<1> QED BY <1>1, SetAt DEF Gathers

LEMMA MoveEachGathers ==
    ASSUME Sound, RowsAreBegun, NEW b \in Batches, NEW l, NEW to, MoveEach(b, l, to)
    PROVE  Gathers(b)
<1>1. TypeOK
  BY DEF Sound, Bound
<1>2. PICK m \in batch[b].todo :
             \/ /\ CallKept(b) /\ batch'[b].todo = batch[b].todo \ {m}
                /\ batch'[b].covered = batch[b].covered
             \/ BFinish(b)
  BY <1>1, MoveEachAt
<1>3. CASE /\ CallKept(b) /\ batch'[b].todo = batch[b].todo \ {m}
           /\ batch'[b].covered = batch[b].covered
  BY <1>3, GatherLess DEF CallKept
<1> QED BY <1>2, <1>3, FinishGathers

LEMMA BatchGathers ==
    ASSUME Sound, RowsAreBegun, NEW b \in Batches, BatchStep(b)
    PROVE  Gathers(b)
<1>1. /\ batch \in [Batches -> BatchCalls] /\ TypeOK /\ Begun({})
      /\ Begun(batch[b].covered) /\ Begun(batch[b].todo)
  BY DEF Sound, Bound, TypeOK, Begun, RowsAreBegun
<1>2. batch[b].at \in HasTx => Begun(inputs[batch[b].t])
  <2>1. batch[b].at \in HasTx => batch[b].t \in TxIds
    BY DEF Sound, Bound, CallsAreBound, TypeOK, TxIds
  <2> QED BY <2>1 DEF RowsAreBegun
<1>3. CASE BatchLocal(b)
  <2>1. CASE BatchFind(b)
    BY <1>1, <2>1, SetGathers DEF BatchFind
  <2>2. CASE BatchStatus(b)
    BY <2>2, GotoGathers DEF BatchStatus
  <2>3. CASE BatchList(b)
    <3>1. Begun(Candidates)
      BY DEF Begun, Candidates, ReclaimStates
    <3> QED BY <1>1, <2>3, <3>1, SetGathers, FinishGathers DEF BatchList
  <2>4. CASE BatchCheck(b)
    BY <1>1, <2>4, CheckAt, GatherLess
  <2>5. CASE BatchCovered(b)
    BY <1>1, <2>5, SetGathers, FinishGathers DEF BatchCovered
  <2>6. CASE BatchWait(b)
    BY <2>6, GotoGathers, FinishGathers DEF BatchWait
  <2> QED BY <1>3, <2>1, <2>2, <2>3, <2>4, <2>5, <2>6 DEF BatchLocal
<1>4. CASE BatchRows(b)
  <2>1. CASE BatchDead(b)
    BY <1>1, <2>1, DeadAt, FinishGathers, GatherLess
  <2> QED BY <1>4, <2>1, MoveEachGathers, FinishGathers, GotoGathers
          DEF BatchRows, BatchRequeue, BatchMark, BatchSettle, LoopEnds
<1>5. CASE BatchJournal(b)
  <2>1. CASE BatchAbandon(b)
    <3>1. Begun(inputs[batch[b].t])
      BY <1>2, <2>1 DEF BatchAbandon, BAt, HasTx
    <3> QED BY <1>1, <2>1, <3>1, SetGathers DEF BatchAbandon
  <2>2. CASE BatchCas(b)
    <3>1. Begun(inputs[batch[b].t])
      BY <1>2, <2>2 DEF BatchCas, BAt, HasTx, SettleLabels
    <3> QED BY <1>1, <2>2, <3>1, SetGathers, FinishGathers DEF BatchCas
  <2> QED BY <1>5, <2>1, <2>2, GotoGathers DEF BatchJournal, BatchRecord
<1>6. CASE BatchNetwork(b)
  BY <1>6, GotoGathers, FinishGathers DEF BatchNetwork, BatchRebroadcast, BatchSend
<1>7. CASE BatchMake(b)
  <2>1. ASSUME NEW t, BSet(b, "record", t, {}, batch[b].covered)
        PROVE  Gathers(b)
    BY <1>1, <2>1, SetGathers
  <2> QED BY <1>7, <2>1, FinishGathers DEF BatchMake, BatchBuild
<1>8. CASE BatchFree(b)
  BY <1>8, FinishGathers DEF BatchFree, BatchRelease
<1> QED BY <1>3, <1>4, <1>5, <1>6, <1>7, <1>8 DEF BatchStep

LEMMA InputsComeFromCovered ==
    ASSUME Sound, Next, NEW t \in TxIds
    PROVE  inputs'[t] = inputs[t] \/ \E b \in Batches : inputs'[t] = batch[b].covered
<1>1. built \in Nat /\ inputs \in [TxIds -> SUBSET Coins]
  BY DEF Sound, Bound, TypeOK, NodeTypeOK
<1>2. CASE UNCHANGED inputs
  BY <1>2
<1>3. ASSUME NEW b \in Batches, BatchMake(b)
      PROVE  inputs'[t] = inputs[t] \/ inputs'[t] = batch[b].covered
  BY <1>1, <1>3 DEF BatchMake, BatchBuild
<1>4. UNCHANGED inputs \/ \E b \in Batches : BatchMake(b)
  BY DEF Next, AckStep, BatchStep, BatchLocal, BatchRows, BatchJournal, BatchNetwork,
         BatchFree, BatchFault, WorkerStep, Crash, Network, NodeStep, Commit, Reject, Forget,
         Deliver, nodeVars
<1> QED BY <1>2, <1>3, <1>4

LEMMA StepKeepsBegun ==
    ASSUME Sound, RowsAreBegun, Next
    PROVE  RowsAreBegun'
<1>1. /\ batch \in [Batches -> BatchCalls] /\ inputs \in [TxIds -> SUBSET Messages]
      /\ \A b \in Batches : batch[b].todo \subseteq Messages /\ batch[b].covered \subseteq Messages
  BY DEF Sound, Bound, TypeOK, NodeTypeOK, BatchCalls, Messages
<1>2. \A m \in Messages : row[m] \in ReclaimStates => row'[m] \in ReclaimStates
  BY BegunStays
<1>3. ASSUME NEW t \in TxIds, NEW m \in inputs'[t]
      PROVE  row'[m] \in ReclaimStates
  <2>1. m \in Messages /\ row[m] \in ReclaimStates
    BY <1>1, <1>3, InputsComeFromCovered DEF RowsAreBegun, Begun
  <2> QED BY <1>2, <2>1
<1>4. ASSUME NEW b \in Batches, NEW m \in batch'[b].todo \cup batch'[b].covered
      PROVE  m \in Messages /\ row'[m] \in ReclaimStates
  <2>1. CASE batch'[b] = batch[b]
    <3>1. m \in batch[b].todo \cup batch[b].covered
      BY <1>4, <2>1
    <3>2. m \in Messages /\ row[m] \in ReclaimStates
      BY <1>1, <3>1 DEF RowsAreBegun, Begun
    <3> QED BY <1>2, <3>2
  <2>2. CASE batch' = [c \in Batches |-> NoBatch]
    BY <1>4, <2>2 DEF NoBatch
  <2>3. CASE batch'[b] # batch[b] /\ ~(batch' = [c \in Batches |-> NoBatch])
    <3>1. PICK c \in Batches : BatchStep(c) \/ BatchFault(c)
      BY <2>3, OthersArrive
    <3>2. Gathers(c)
      <4>1. CASE BatchFault(c)
        <5>1. CASE CellUnknown(c)
          <6>1. /\ batch'[c].covered = batch[c].covered
                /\ batch'[c].todo \subseteq batch[c].todo
                /\ \A d \in Batches \ {c} : batch'[d] = batch[d]
            BY <1>1, <5>1 DEF CellUnknown, BatchCalls
          <6> QED BY <6>1, GatherLess
        <5> QED BY <4>1, <5>1, FinishGathers DEF BatchFault, BatchThrows
      <4> QED BY <3>1, <4>1, BatchGathers
    <3>3. b = c
      BY <2>3, <3>2 DEF Gathers
    <3>4. row[m] \in ReclaimStates
      BY <1>4, <3>2, <3>3 DEF Gathers, Begun
    <3>5. m \in Messages
      BY <1>4, StepKeepsSound DEF Sound, Bound, TypeOK, BatchCalls
    <3> QED BY <1>2, <3>4, <3>5
  <2> QED BY <2>1, <2>2, <2>3
<1> QED BY <1>3, <1>4 DEF RowsAreBegun, Begun

(* One receipt: what it found stays true until it has walked past it.      *)
LEMMA AckKeepsFunding ==
    ASSUME Sound, Funding, OneAcker, NEW a \in Ackers, AckStep(a), Next
    PROVE  /\ ReceiptsAreFresh'
           /\ \A m \in Messages : funded'[m] # 0 => funded'[m] = 1 /\ row'[m] \in ReclaimStates
<1>1. /\ row \in [Messages -> AckableStates \cup ReclaimStates]
      /\ ack \in [Ackers -> AckCalls] /\ funded \in [Messages -> 0..MaxCount]
      /\ \A c \in Ackers : c = a
  BY DEF Sound, Bound, TypeOK, OneAcker
<1>2. \A m \in Messages : row[m] \in ReclaimStates => row'[m] \in ReclaimStates
  BY BegunStays
<1>3. \A m \in Messages : funded[m] # 0 => funded[m] = 1 /\ row[m] \in ReclaimStates
  BY DEF Funding
<1>4. ASSUME NEW m \in Messages, AckFind(a, m)
      PROVE  ReceiptsAreFresh' /\ UNCHANGED <<row, funded>>
  <2>1. /\ ack'[a].m = m /\ row[m] \in AckableStates
        /\ ack'[a].at = CASE row[m] = "available_on_chain" -> "downloaded_by_recipient"
                          [] row[m] = "downloaded_by_recipient" -> "acknowledged"
                          [] OTHER -> "reclaim_queued"
    BY <1>1, <1>4 DEF AckFind, Ackable
  <2>2. ack'[a].at \in WalkLabels /\ row[m] = WalkedFrom(ack'[a].at)
    BY <2>1 DEF AckableStates, WalkLabels, WalkedFrom
  <2> QED BY <1>1, <1>4, <2>1, <2>2 DEF AckFind, ReceiptsAreFresh, WalkLabels, AAt
<1>5. CASE AckWalk(a)
  <2> DEFINE m == ack[a].m
             to == ack[a].at
  <2>1. m \in Messages /\ to \in WalkLabels /\ UNCHANGED funded
    BY <1>1, <1>5 DEF AckWalk, AckCalls, WalkLabels
  <2>2. ASSUME AFinish(a)
        PROVE  ReceiptsAreFresh'
    BY <1>1, <2>2 DEF AFinish, ReceiptsAreFresh, WalkLabels, AAt
  <2>3. ASSUME Transition(m, to),
               AGoto(a, CASE to = "downloaded_by_recipient" -> "acknowledged"
                          [] to = "acknowledged" -> "reclaim_queued"
                          [] to = "reclaim_queued" -> "fund")
        PROVE  ReceiptsAreFresh'
    <3>1. row'[m] = to
      BY <1>1, <2>1, <2>3 DEF Transition
    <3>2. /\ ack'[a].m = m
          /\ ack'[a].at = CASE to = "downloaded_by_recipient" -> "acknowledged"
                            [] to = "acknowledged" -> "reclaim_queued"
                            [] to = "reclaim_queued" -> "fund"
      BY <1>1, <2>1, <2>3 DEF AGoto, AckCalls, WalkLabels
    <3>3. row[m] = WalkedFrom(to)
      BY <2>1 DEF Funding, ReceiptsAreFresh
    <3>4. funded[m] = 0
      BY <1>3, <2>1, <3>3 DEF WalkedFrom, WalkLabels, ReclaimStates
    <3>5. ack'[a].at \in WalkLabels => row'[m] = WalkedFrom(ack'[a].at)
      BY <2>1, <3>1, <3>2 DEF WalkLabels, WalkedFrom
    <3>6. ack'[a].at = "fund" => row'[m] \in ReclaimStates
      BY <2>1, <3>1, <3>2 DEF WalkLabels, ReclaimStates
    <3> QED BY <1>1, <2>1, <3>2, <3>4, <3>5, <3>6 DEF ReceiptsAreFresh, AAt
  <2>4. ReceiptsAreFresh'
    BY <1>5, <2>2, <2>3 DEF AckWalk, AAt
  <2> QED BY <1>2, <1>3, <2>1, <2>4
<1>6. CASE AckFund(a)
  <2>1. ack[a].m \in Messages /\ funded[ack[a].m] = 0 /\ row[ack[a].m] \in ReclaimStates
    BY <1>1, <1>6 DEF AckFund, AAt, Funding, ReceiptsAreFresh, AckCalls
  <2>2. ReceiptsAreFresh'
    BY <1>1, <1>6 DEF AckFund, AFinish, ReceiptsAreFresh, WalkLabels, AAt
  <2>3. \A m \in Messages : funded'[m] = funded[m] \/ (m = ack[a].m /\ funded'[m] = 1)
    BY <1>1, <1>6, <2>1 DEF AckFund, Counted, MaxCount
  <2> QED BY <1>2, <1>3, <1>6, <2>1, <2>2, <2>3 DEF AckFund
<1> QED BY <1>2, <1>3, <1>4, <1>5, <1>6 DEF AckStep

LEMMA StepKeepsFunding ==
    ASSUME Sound, Funding, OneAcker, Next
    PROVE  Funding'
<1>1. RowsAreBegun /\ RowsAreBegun'
  BY StepKeepsBegun DEF Funding
<1>2. /\ row \in [Messages -> AckableStates \cup ReclaimStates]
      /\ ack \in [Ackers -> AckCalls]
  BY DEF Sound, Bound, TypeOK
<1>3. \A m \in Messages : row[m] \in ReclaimStates => row'[m] \in ReclaimStates
  BY BegunStays
<1>4. ASSUME UNCHANGED <<ack, funded>>,
             \A m \in Messages : row[m] \notin ReclaimStates => row'[m] = row[m]
      PROVE  Funding'
  <2>1. ASSUME NEW c \in Ackers, ack[c].at \in WalkLabels
        PROVE  row'[ack[c].m] = WalkedFrom(ack[c].at)
    <3>1. ack[c].m \in Messages /\ row[ack[c].m] = WalkedFrom(ack[c].at)
      BY <1>2, <2>1 DEF Funding, ReceiptsAreFresh, AckCalls, WalkLabels
    <3>2. WalkedFrom(ack[c].at) \notin ReclaimStates
      BY <2>1 DEF WalkLabels, WalkedFrom, ReclaimStates
    <3> QED BY <1>4, <3>1, <3>2
  <2>2. ASSUME NEW c \in Ackers, AAt(c, "fund")
        PROVE  row'[ack[c].m] \in ReclaimStates /\ funded[ack[c].m] = 0
    BY <1>2, <1>3, <2>2 DEF Funding, ReceiptsAreFresh, AckCalls, AAt
  <2>3. ReceiptsAreFresh'
    BY <1>4, <2>1, <2>2 DEF ReceiptsAreFresh, AAt
  <2> QED BY <1>1, <1>3, <1>4, <2>3 DEF Funding
<1>5. CASE Crash
  <2>1. ReceiptsAreFresh'
    BY <1>5 DEF Crash, ReceiptsAreFresh, WalkLabels, AAt
  <2> QED BY <1>1, <1>5, <2>1 DEF Crash, Funding, ledgerVars
<1>6. ASSUME NEW b \in Batches, BatchStep(b)
      PROVE  Funding'
  BY <1>1, <1>4, <1>6, BatchTouchesBegun DEF BatchStep
<1>7. CASE (\E b \in Batches : BatchFault(b)) \/ (\E w \in Workers : WorkerStep(w)) \/ Network
  BY <1>4, <1>7 DEF BatchFault, WorkerStep, Network, ledgerVars
<1>8. ASSUME NEW a \in Ackers, AckStep(a)
      PROVE  Funding'
  BY <1>1, <1>8, AckKeepsFunding DEF Funding
<1> QED BY <1>5, <1>6, <1>7, <1>8 DEF Next

LEMMA FundingInvariant == OneAcker => (Spec => []Funding)
<1>0. Init => Funding
  <2> SUFFICES ASSUME Init PROVE Funding
    OBVIOUS
  <2>1. RowsAreBegun
    BY DEF Init, NodeInit, NoBatch, RowsAreBegun, Begun
  <2>2. ReceiptsAreFresh
    BY DEF Init, ReceiptsAreFresh, WalkLabels, AAt
  <2> QED BY <2>1, <2>2 DEF Init, Funding
<1>1. Funding /\ UNCHANGED vars => Funding'
  BY DEF vars, nodeVars, ledgerVars, Funding, RowsAreBegun, Begun, ReceiptsAreFresh, AAt
<1>2. OneAcker /\ Sound /\ Funding /\ [Next]_vars => Funding'
  BY <1>1, StepKeepsFunding
<1> SUFFICES ASSUME OneAcker PROVE Spec => []Funding
  OBVIOUS
<1>3. Sound /\ Funding /\ [Next]_vars => Funding'
  BY <1>2
<1> QED BY <1>0, <1>3, SoundInvariant, PTL DEF Spec

(* A receipt that comes again, after a rescan or a crash, does not fund    *)
(* the reclaimable bucket a second time, while receipts are handled one at *)
(* a time and whatever the batches, the workers and the node do meanwhile. *)
THEOREM ReceiptsFundOnce == OneAcker => (Spec => []FundedOnce)
<1>1. Funding => FundedOnce
  BY DEF Funding, FundedOnce
<1> QED BY <1>1, FundingInvariant, PTL

-----------------------------------------------------------------------------
(***************************************************************************)
(* Marking: while a reclaim is submitted none of its rows waits for        *)
(* another.  Batches do not overlap here, so the one that works either     *)
(* follows the latest record or knows that nothing is submitted.           *)
(***************************************************************************)
LEMMA AckLeavesBegun ==
    ASSUME Sound, ReceiptsAreFresh, NEW a \in Ackers, AckStep(a), NEW m \in Messages,
           row[m] \in ReclaimStates
    PROVE  row'[m] = row[m]
<1>1. ack \in [Ackers -> AckCalls] /\ row \in [Messages -> AckableStates \cup ReclaimStates]
  BY DEF Sound, Bound, TypeOK
<1>2. CASE AckWalk(a)
  <2>1. ack[a].at \in WalkLabels
    BY <1>2 DEF AckWalk, WalkLabels
  <2>2. row[ack[a].m] \notin ReclaimStates
    BY <2>1 DEF ReceiptsAreFresh, WalkLabels, WalkedFrom, ReclaimStates
  <2> QED BY <1>1, <1>2, <2>2 DEF AckWalk, Transition, Refused
<1> QED BY <1>2 DEF AckStep, AckFind, AckFund

(* A row goes back to waiting only when its reclaim is requeued.           *)
LEMMA MarkedStays ==
    ASSUME Sound, Funding, Next, NEW m \in Messages, row[m] \in ReclaimStates,
           row[m] # "reclaim_queued", row'[m] = "reclaim_queued"
    PROVE  \E b \in Batches : BatchStep(b) /\ BAt(b, "requeue")
<1>1. /\ TypeOK /\ row \in [Messages -> AckableStates \cup ReclaimStates]
      /\ batch \in [Batches -> BatchCalls]
  BY DEF Sound, Bound, TypeOK
<1>2. ~UNCHANGED row
  OBVIOUS
<1>3. PICK b \in Batches : BatchRows(b) /\ BatchStep(b)
  <2>1. ~ \E a \in Ackers : AckStep(a)
    BY AckLeavesBegun DEF Funding
  <2> QED BY <1>2, <2>1 DEF Next, BatchStep, BatchLocal, BatchJournal, BatchNetwork, BatchMake,
                            BatchFree, BatchFault, WorkerStep, Crash, Network
<1>4. ASSUME NEW k, NEW to, Transition(k, to), to # "reclaim_queued"
      PROVE  FALSE
  BY <1>1, <1>4 DEF Transition
<1>5. BatchRequeue(b)
  <2>1. ~BatchDead(b)
    BY <1>1, <1>2, <1>4, DeadAt
  <2>2. ~MoveEach(b, "mark", "reclaim_pending") /\ ~MoveEach(b, "settle", "reclaimed")
    BY <1>1, <1>2, <1>4, MoveEachAt
  <2> QED BY <1>2, <1>3, <2>1, <2>2 DEF BatchRows, BatchMark, BatchSettle
<1> QED BY <1>3, <1>5 DEF BatchRequeue, MoveEach, LoopEnds

(* What a step of the only batch leaves it with.                           *)
NothingSubmittedNext == \A t \in TxIds : journal'[t] # "submitted"
NothingSubmitted == \A t \in TxIds : journal[t] # "submitted"
MarkedNext(M) == \A m \in M : row'[m] # "reclaim_queued"

LeavesMarked(b) ==
    /\ batch'[b].at \in Quiet => NothingSubmittedNext
    /\ batch'[b].at \in {"status", "rebroadcast", "abandon"} => batch'[b].t = latest'
    /\ batch'[b].at = "mark" => MarkedNext(batch'[b].covered \ batch'[b].todo)
    /\ batch'[b].at \in {"build", "record"} => MarkedNext(batch'[b].covered)
    /\ batch'[b].at = "record" => inputs'[batch'[b].t] = batch'[b].covered

Working == {"wait", "cas", "settle", "release", "send", "idle"}

LEMMA WorkingIsMarked ==
    ASSUME NEW b \in Batches, batch'[b].at \in Working
    PROVE  LeavesMarked(b)
BY DEF LeavesMarked, Working, Quiet

LEMMA FinishLeavesMarked ==
    ASSUME Sound, NEW b \in Batches, BFinish(b)
    PROVE  LeavesMarked(b)
<1>1. batch \in [Batches -> BatchCalls]
  BY DEF Sound, Bound, TypeOK
<1> QED BY <1>1, FinishAt, WorkingIsMarked DEF Working

LEMMA LocalLeavesMarked ==
    ASSUME Sound, Marking, NEW b \in Batches, BatchLocal(b)
    PROVE  LeavesMarked(b)
<1>1. /\ batch \in [Batches -> BatchCalls] /\ TypeOK /\ UNCHANGED <<row, journal, latest, inputs>>
  BY DEF Sound, Bound, TypeOK, BatchLocal, nodeVars
<1>2. batch[b].at \in Quiet => NothingSubmittedNext
  BY <1>1 DEF Marking, BatchIsAtLatest, NothingSubmittedNext
<1>3. CASE BatchFind(b)
  <2>1. CASE BSet(b, "status", latest, {}, {})
    BY <1>1, <2>1, SetAt DEF LeavesMarked, Quiet
  <2>2. CASE ~(latest # NoTx /\ journal[latest] = "submitted") /\ BSet(b, "list", NoTx, {}, {})
    <3>1. NothingSubmittedNext
      BY <1>1, <2>2, Names DEF Marking, OnlyLatestSubmitted, NothingSubmittedNext
    <3> QED BY <1>1, <2>2, <3>1, SetAt DEF LeavesMarked
  <2> QED BY <1>3, <2>1, <2>2 DEF BatchFind
<1>4. CASE BatchStatus(b)
  <2>1. batch[b].t = latest
    BY <1>4 DEF BatchStatus, BAt, Marking, BatchIsAtLatest
  <2> QED BY <1>1, <1>4, <2>1, GotoAt DEF BatchStatus, LeavesMarked, Quiet
<1>5. CASE BatchList(b)
  <2>1. NothingSubmittedNext
    BY <1>2, <1>5 DEF BatchList, BAt, Quiet
  <2>2. CASE BSet(b, "check", NoTx, Candidates, {})
    BY <1>1, <2>1, <2>2, SetAt DEF LeavesMarked
  <2> QED BY <1>5, <2>2, FinishLeavesMarked DEF BatchList
<1>6. CASE BatchCheck(b)
  <2>1. NothingSubmittedNext
    BY <1>2, <1>6 DEF BatchCheck, BAt, Quiet
  <2>2. batch'[b].at \in {"check", "dead"}
    BY <1>1, <1>6, CheckAt
  <2> QED BY <2>1, <2>2 DEF LeavesMarked
<1>7. CASE BatchCovered(b)
  <2>1. NothingSubmittedNext
    BY <1>2, <1>7 DEF BatchCovered, LoopEnds, BAt, Quiet
  <2>2. CASE BSet(b, "mark", NoTx, batch[b].covered, batch[b].covered)
    BY <1>1, <2>1, <2>2, SetAt DEF LeavesMarked, MarkedNext
  <2> QED BY <1>7, <2>2, FinishLeavesMarked DEF BatchCovered
<1>8. CASE BatchWait(b)
  <2>1. CASE BGoto(b, "cas")
    BY <1>1, <2>1, GotoAt, WorkingIsMarked DEF Working
  <2> QED BY <1>8, <2>1, FinishLeavesMarked DEF BatchWait
<1> QED BY <1>3, <1>4, <1>5, <1>6, <1>7, <1>8 DEF BatchLocal

LEMMA RowsLeaveMarked ==
    ASSUME Sound, Marking, NEW b \in Batches, BatchRows(b)
    PROVE  LeavesMarked(b)
<1>1. /\ batch \in [Batches -> BatchCalls] /\ TypeOK /\ UNCHANGED <<journal, latest, inputs>>
      /\ row \in [Messages -> AckableStates \cup ReclaimStates]
      /\ batch[b].todo \subseteq Messages /\ batch[b].covered \subseteq Messages
  BY DEF Sound, Bound, TypeOK, BatchRows, nodeVars, BatchCalls
<1>2. batch[b].at \in Quiet => NothingSubmittedNext
  BY <1>1 DEF Marking, BatchIsAtLatest, NothingSubmittedNext
<1>3. CASE BatchRequeue(b)
  <2>1. CASE MoveEach(b, "requeue", "reclaim_queued")
    <3>1. BAt(b, "requeue") /\ (BFinish(b) \/ batch'[b].at = "requeue")
      BY <1>1, <2>1, MoveEachAt DEF CallKept, BAt
    <3> QED BY <1>2, <3>1, FinishLeavesMarked DEF BAt, Quiet, LeavesMarked
  <2> QED BY <1>3, <2>1, FinishLeavesMarked DEF BatchRequeue
<1>4. CASE BatchDead(b)
  <2>1. NothingSubmittedNext
    BY <1>2, <1>4 DEF BatchDead, BAt, Quiet
  <2>2. BFinish(b) \/ batch'[b].at \in {"deadNow", "check"}
    BY <1>1, <1>4, DeadAt
  <2> QED BY <2>1, <2>2, FinishLeavesMarked DEF LeavesMarked
<1>5. CASE BatchMark(b)
  <2>1. NothingSubmittedNext /\ BAt(b, "mark") /\ AllMarked(batch[b].covered \ batch[b].todo)
    BY <1>2, <1>5 DEF BatchMark, MoveEach, LoopEnds, BAt, Quiet, Marking, BatchMarks
  <2>2. CASE LoopEnds(b, "mark") /\ BGoto(b, "build") /\ UNCHANGED row
    <3>1. /\ batch'[b].at = "build" /\ batch'[b].covered = batch[b].covered
          /\ batch[b].todo = {}
      BY <1>1, <2>2, GotoAt DEF LoopEnds
    <3> QED BY <2>1, <2>2, <3>1 DEF LeavesMarked, AllMarked, MarkedNext
  <2>3. CASE MoveEach(b, "mark", "reclaim_pending")
    <3>1. PICK m \in batch[b].todo :
             \/ /\ Transition(m, "reclaim_pending") /\ CallKept(b)
                /\ batch'[b].todo = batch[b].todo \ {m}
                /\ batch'[b].covered = batch[b].covered
             \/ UNCHANGED row /\ BFinish(b)
      BY <1>1, <2>3, MoveEachAt
    <3>2. CASE /\ Transition(m, "reclaim_pending") /\ CallKept(b)
               /\ batch'[b].todo = batch[b].todo \ {m}
               /\ batch'[b].covered = batch[b].covered
      <4>1. \A k \in batch[b].covered \ (batch[b].todo \ {m}) : row'[k] # "reclaim_queued"
        BY <1>1, <2>1, <3>2 DEF Transition, AllMarked
      <4>2. batch'[b].at = "mark"
        BY <2>1, <3>2 DEF CallKept, BAt
      <4> QED BY <2>1, <3>2, <4>1, <4>2 DEF LeavesMarked, MarkedNext
    <3> QED BY <3>1, <3>2, FinishLeavesMarked
  <2> QED BY <1>5, <2>2, <2>3 DEF BatchMark
<1>6. CASE BatchSettle(b)
  <2>1. BFinish(b) \/ batch'[b].at \in {"settle", "release"}
    BY <1>1, <1>6, MoveEachAt, GotoAt DEF BatchSettle, CallKept, BAt
  <2> QED BY <2>1, FinishLeavesMarked, WorkingIsMarked DEF Working
<1> QED BY <1>3, <1>4, <1>5, <1>6 DEF BatchRows

LEMMA BatchLeavesMarked ==
    ASSUME Sound, Marking, NEW b \in Batches, BatchStep(b)
    PROVE  LeavesMarked(b)
<1>1. /\ batch \in [Batches -> BatchCalls] /\ TypeOK /\ journal \in [TxIds -> JournalStates]
      /\ inputs \in [TxIds -> SUBSET Coins] /\ built \in Nat
  BY DEF Sound, Bound, TypeOK, NodeTypeOK
<1>2. batch[b].at \in HasTx => batch[b].t \in TxIds
  BY DEF Sound, Bound, CallsAreBound, TypeOK, TxIds
<1>3. CASE BatchJournal(b)
  <2>1. CASE BatchAbandon(b)
    <3>1. batch[b].t = latest /\ batch[b].t \in TxIds
      BY <1>2, <2>1 DEF BatchAbandon, BAt, HasTx, Marking, BatchIsAtLatest
    <3>2. NothingSubmittedNext
      BY <1>1, <2>1, <3>1 DEF BatchAbandon, MarkState, Marking, OnlyLatestSubmitted,
                              NothingSubmittedNext
    <3> QED BY <1>1, <2>1, <3>2, SetAt DEF BatchAbandon, LeavesMarked
  <2>2. CASE BatchCas(b)
    <3>1. BFinish(b) \/ batch'[b].at = "settle"
      BY <1>1, <2>2, SetAt DEF BatchCas
    <3> QED BY <3>1, FinishLeavesMarked, WorkingIsMarked DEF Working
  <2>3. CASE BatchRecord(b)
    BY <1>1, <2>3, GotoAt, WorkingIsMarked DEF BatchRecord, Working
  <2> QED BY <1>3, <2>1, <2>2, <2>3 DEF BatchJournal
<1>4. CASE BatchNetwork(b)
  <2>1. CASE BGoto(b, "wait")
    BY <1>1, <2>1, GotoAt, WorkingIsMarked DEF Working
  <2>2. CASE BAt(b, "rebroadcast") /\ BGoto(b, "abandon")
    <3>1. batch'[b].at = "abandon" /\ batch'[b].t = latest'
      BY <1>1, <1>4, <2>2, GotoAt DEF BAt, BatchNetwork, Marking, BatchIsAtLatest
    <3> QED BY <3>1 DEF LeavesMarked, Quiet
  <2> QED BY <1>4, <2>1, <2>2, FinishLeavesMarked DEF BatchNetwork, BatchRebroadcast, BatchSend
<1>5. CASE BatchMake(b)
  <2>1. /\ UNCHANGED <<row, journal>> /\ NothingSubmitted /\ AllMarked(batch[b].covered)
    BY <1>5 DEF BatchMake, BatchBuild, BAt, Quiet, Marking, BatchIsAtLatest, BatchMarks,
                NothingSubmitted
  <2>2. ASSUME NEW t, BSet(b, "record", t, {}, batch[b].covered), inputs'[t] = batch[b].covered
        PROVE  LeavesMarked(b)
    BY <1>1, <2>1, <2>2, SetAt DEF LeavesMarked, NothingSubmitted, NothingSubmittedNext,
                                   AllMarked, MarkedNext
  <2>3. CASE /\ built' = built + 1 /\ built < MaxTx
             /\ inputs' = [inputs EXCEPT ![built + 1] = batch[b].covered]
             /\ BSet(b, "record", built + 1, {}, batch[b].covered)
    <3>1. built + 1 \in TxIds
      BY <1>1, <2>3 DEF TxIds
    <3> QED BY <1>1, <2>2, <2>3, <3>1
  <2> QED BY <1>5, <2>2, <2>3, FinishLeavesMarked DEF BatchMake, BatchBuild
<1>6. CASE BatchFree(b)
  BY <1>6, FinishLeavesMarked DEF BatchFree, BatchRelease
<1> QED BY <1>3, <1>4, <1>5, <1>6, LocalLeavesMarked, RowsLeaveMarked DEF BatchStep

(* A record becomes submitted only by being written, with nothing else     *)
(* submitted at that time.                                                 *)
LEMMA SubmittedByRecord ==
    ASSUME Sound, Next
    PROVE  \/ UNCHANGED latest /\ \A t \in TxIds : journal'[t] = "submitted" => journal[t] = "submitted"
           \/ \E b \in Batches :
                /\ BatchStep(b) /\ BatchRecord(b) /\ batch[b].t \in TxIds /\ latest' = batch[b].t
                /\ UNCHANGED <<row, inputs>>
                /\ \A t \in TxIds : journal'[t] = "submitted" =>
                                       journal[t] = "submitted" \/ t = batch[b].t
<1>1. journal \in [TxIds -> JournalStates] /\ TypeOK
  BY DEF Sound, Bound, TypeOK
<1>2. CASE UNCHANGED <<journal, latest>>
  BY <1>2
<1>3. ASSUME NEW b \in Batches, BatchStep(b), BatchJournal(b)
      PROVE  \/ UNCHANGED latest /\ \A t \in TxIds : journal'[t] = "submitted" => journal[t] = "submitted"
             \/ /\ BatchRecord(b) /\ batch[b].t \in TxIds /\ latest' = batch[b].t
                /\ UNCHANGED <<row, inputs>>
                /\ \A t \in TxIds : journal'[t] = "submitted" =>
                                       journal[t] = "submitted" \/ t = batch[b].t
  <2>1. CASE BatchAbandon(b) \/ BatchCas(b)
    BY <1>1, <1>3, <2>1 DEF BatchJournal, BatchAbandon, BatchCas, BatchRecord, BAt, MarkState
  <2>2. CASE BatchRecord(b)
    <3>1. batch[b].t \in TxIds
      BY <2>2 DEF BatchRecord, BAt, Sound, Bound, CallsAreBound, HasTx, TypeOK, TxIds
    <3>2. CASE UNCHANGED <<journal, latest>>
      BY <3>2
    <3>3. CASE MarkState(batch[b].t, "submitted") /\ latest' = batch[b].t
      BY <1>1, <1>3, <2>2, <3>1, <3>3 DEF BatchJournal, MarkState, nodeVars
    <3> QED BY <2>2, <3>2, <3>3 DEF BatchRecord
  <2> QED BY <1>3, <2>1, <2>2 DEF BatchJournal
<1>4. ASSUME NEW w \in Workers, WorkerStep(w)
      PROVE  UNCHANGED latest /\ \A t \in TxIds : journal'[t] = "submitted" => journal[t] = "submitted"
  BY <1>1, <1>4 DEF WorkerStep, WorkerList, WorkerAsk, WorkerMark, MarkState
<1>5. \/ UNCHANGED <<journal, latest>>
      \/ \E b \in Batches : BatchStep(b) /\ BatchJournal(b)
      \/ \E w \in Workers : WorkerStep(w)
  BY DEF Next, AckStep, BatchStep, BatchLocal, BatchRows, BatchNetwork, BatchMake, BatchFree,
         BatchFault, Crash, Network
<1> QED BY <1>2, <1>3, <1>4, <1>5

LEMMA StepKeepsMarking ==
    ASSUME Sound, Funding, Marking, OneBatch, Next
    PROVE  Marking'
<1>1. /\ journal \in [TxIds -> JournalStates] /\ TypeOK /\ Bound /\ Grows
      /\ batch \in [Batches -> BatchCalls] /\ inputs \in [TxIds -> SUBSET Messages]
      /\ 1..built \subseteq TxIds
  BY StepMoves, HistoryGrows DEF Sound, Bound, TypeOK, NodeTypeOK, Messages, TxIds
<1>2. ASSUME NEW b \in Batches, BatchRecord(b)
      PROVE  /\ NothingSubmitted /\ AllMarked(inputs[batch[b].t])
  BY <1>2 DEF BatchRecord, BAt, Quiet, Marking, BatchIsAtLatest, BatchMarks, NothingSubmitted
<1>3. OnlyLatestSubmitted'
  BY <1>2, SubmittedByRecord DEF Marking, OnlyLatestSubmitted, NothingSubmitted
<1>4. SubmittedIsMarked'
  <2>1. ASSUME NEW t \in TxIds, journal[t] = "submitted", NEW m \in inputs'[t]
        PROVE  row'[m] # "reclaim_queued"
    <3>1. t \in 1..built /\ m \in inputs[t] /\ m \in Messages
      BY <1>1, <2>1 DEF Bound, UnbuiltIsUnknown, Grows
    <3>2. row[m] # "reclaim_queued" /\ row[m] \in ReclaimStates
      BY <2>1, <3>1 DEF Marking, SubmittedIsMarked, Funding, RowsAreBegun, Begun
    <3>3. ~ \E b \in Batches : BAt(b, "requeue")
      BY <2>1 DEF Marking, BatchIsAtLatest, BAt, Quiet
    <3> QED BY <3>1, <3>2, <3>3, MarkedStays
  <2>2. ASSUME NEW b \in Batches, BatchRecord(b), UNCHANGED <<row, inputs>>, NEW m \in inputs'[batch[b].t]
        PROVE  row'[m] # "reclaim_queued"
    BY <1>2, <2>2 DEF AllMarked
  <2> QED BY <2>1, <2>2, SubmittedByRecord DEF SubmittedIsMarked
<1>5. ASSUME NEW b \in Batches, LeavesMarked(b)
      PROVE  BatchIsAtLatest' /\ BatchMarks'
  BY <1>5 DEF OneBatch, LeavesMarked, NothingSubmittedNext, BatchIsAtLatest, BatchMarks, BAt,
              AllMarked, MarkedNext
<1>6. ASSUME NEW b \in Batches, BatchStep(b)
      PROVE  BatchIsAtLatest' /\ BatchMarks'
  BY <1>5, <1>6, BatchLeavesMarked
<1>7. ASSUME batch' = [b \in Batches |-> NoBatch]
      PROVE  BatchIsAtLatest' /\ BatchMarks'
  BY <1>7 DEF NoBatch, BatchIsAtLatest, BatchMarks, BAt, Quiet
<1>8. ASSUME NEW b \in Batches, BatchFault(b)
      PROVE  BatchIsAtLatest' /\ BatchMarks'
  <2>1. CASE CellUnknown(b)
    <3>1. batch'[b].at = "check" /\ NothingSubmittedNext
      BY <1>1, <1>8, <2>1 DEF BatchFault, CellUnknown, BAt, BatchCalls, Marking,
                              BatchIsAtLatest, Quiet, NothingSubmittedNext
    <3> QED BY <1>5, <3>1 DEF LeavesMarked
  <2> QED BY <1>5, <1>8, <2>1, FinishLeavesMarked DEF BatchFault, BatchThrows
<1>9. ASSUME UNCHANGED <<batch, latest>>, ~ \E b \in Batches : BatchStep(b)
      PROVE  BatchIsAtLatest' /\ BatchMarks'
  <2>1. \A t \in TxIds : journal'[t] = "submitted" => journal[t] = "submitted"
    BY <1>9, SubmittedByRecord
  <2>2. BatchIsAtLatest'
    BY <1>9, <2>1 DEF Marking, BatchIsAtLatest
  <2>3. ASSUME NEW M \in SUBSET Messages, Begun(M), AllMarked(M)
        PROVE  MarkedNext(M)
    BY <1>9, <2>3, MarkedStays DEF Begun, AllMarked, MarkedNext
  <2>4. ASSUME NEW b \in Batches
        PROVE  /\ BAt(b, "mark") => MarkedNext(batch[b].covered \ batch[b].todo)
               /\ batch[b].at \in {"build", "record"} => MarkedNext(batch[b].covered)
               /\ BAt(b, "record") => inputs'[batch[b].t] = batch[b].covered
    <3>1. batch[b].covered \subseteq Messages /\ Begun(batch[b].covered)
      BY <1>1 DEF BatchCalls, Funding, RowsAreBegun
    <3>2. Begun(batch[b].covered \ batch[b].todo)
      BY <3>1 DEF Begun
    <3>3. BAt(b, "record") => inputs'[batch[b].t] = batch[b].covered
      BY <1>1 DEF Bound, CallsAreBound, HasTx, BAt, Grows, Marking, BatchMarks
    <3> QED BY <2>3, <3>1, <3>2, <3>3 DEF Marking, BatchMarks
  <2>5. BatchMarks'
    BY <1>9, <2>4 DEF BatchMarks, BAt, AllMarked, MarkedNext
  <2> QED BY <2>2, <2>5
<1>10. BatchIsAtLatest' /\ BatchMarks'
  <2>1. CASE \E b \in Batches : BatchStep(b) \/ BatchFault(b)
    BY <1>6, <1>8, <2>1
  <2>2. CASE ~ \E b \in Batches : BatchStep(b) \/ BatchFault(b)
    BY <1>7, <1>9, <2>2, OthersArrive
  <2> QED BY <2>1, <2>2
<1> QED BY <1>3, <1>4, <1>10 DEF Marking

(* While a reclaim is submitted, none of its rows is offered for another   *)
(* one: for batches that do not overlap each other and receipts that do    *)
(* not either, beside any number of pending-transactions workers, with     *)
(* crashes and late requests.                                              *)
THEOREM SubmittedRowsAreMarked ==
    OneAcker /\ OneBatch => (Spec => []SubmittedIsMarked)
<1> SUFFICES ASSUME OneAcker, OneBatch PROVE Spec => []SubmittedIsMarked
  OBVIOUS
<1>1. Init => Marking
  <2> SUFFICES ASSUME Init PROVE Marking
    OBVIOUS
  <2>1. OnlyLatestSubmitted /\ SubmittedIsMarked
    BY DEF Init, OnlyLatestSubmitted, SubmittedIsMarked
  <2>2. BatchIsAtLatest /\ BatchMarks
    BY DEF Init, NoBatch, BatchIsAtLatest, BatchMarks, BAt, Quiet
  <2> QED BY <2>1, <2>2 DEF Marking
<1>2. Marking /\ UNCHANGED vars => Marking'
  <2> SUFFICES ASSUME Marking, UNCHANGED vars PROVE Marking'
    OBVIOUS
  <2>1. OnlyLatestSubmitted' /\ SubmittedIsMarked'
    BY DEF vars, nodeVars, Marking, OnlyLatestSubmitted, SubmittedIsMarked
  <2>2. BatchIsAtLatest'
    BY DEF vars, Marking, BatchIsAtLatest
  <2>3. BatchMarks'
    BY DEF vars, nodeVars, Marking, BatchMarks, BAt, AllMarked
  <2> QED BY <2>1, <2>2, <2>3 DEF Marking
<1>3. Sound /\ Funding /\ Marking /\ [Next]_vars => Marking'
  BY <1>2, StepKeepsMarking
<1>4. Spec => []Funding
  BY FundingInvariant
<1>5. Marking => SubmittedIsMarked
  BY DEF Marking
<1> QED BY <1>1, <1>3, <1>4, <1>5, SoundInvariant, PTL DEF Spec

=============================================================================
