------------------------------- MODULE Reclaim -------------------------------
(***************************************************************************)
(* Reclaiming the capacity of acknowledged messages: processAcknowledge-   *)
(* ments and executeReclaimBatch of packages/cemp-ckb/src/lifecycle.ts,    *)
(* with the pending-transactions worker that marks a rejected reclaim.     *)
(* Batches may overlap: the reclaim worker runs one under a lease that is  *)
(* re-entrant, the pending worker runs one under no lease at all.          *)
(*                                                                         *)
(* It starts where Publication ends: every row is available_on_chain.      *)
(* The coins of the node are here the message cells, each named by its     *)
(* message; a reclaim pays its fee out of them.  A definition named        *)
(* ..._Flawed is the one after it with a plausible mistake.                *)
(***************************************************************************)
EXTENDS MessageStates, CkbNode, Integers

CONSTANTS Batches,      \* calls of executeReclaimBatch that may overlap
          Ackers,       \* ingest calls that may overlap
          Workers,      \* runs of the pending-transactions worker
          MaxFaults     \* bound: crashes, locks and failed requests in one behaviour

Messages == Coins
NoTx == 0
NoMessage == "none"
MaxCount == 2   \* bound: moves of one message's capacity are counted up to here

ASSUME ReclaimAssumption ==
    MaxFaults \in Nat /\ NoMessage \notin Messages /\ IsFiniteSet(Messages)

VARIABLES
    row,        \* messages.state
    journal,    \* outgoing_transactions.state of each reclaim
    latest,     \* the newest record whose purpose starts with "reclaim:"
    built,      \* how many reclaims were ever built
    reclaimable,\* wallet_balances.reclaimable_shannon, in message cells
    funded,     \* times a message's capacity was moved to reclaimable
    released,   \* times it was released by a committed reclaim
    batch,      \* each executeReclaimBatch call
    ack,        \* each processAcknowledgements call, at one receipt
    listed,     \* each pending-worker run: the submitted reclaims it still has to
                \* ask about, and the one it was told is rejected
    faults

ledgerVars == <<reclaimable, funded, released>>
vars == <<nodeVars, row, journal, latest, built, ledgerVars, batch, ack, listed, faults>>

JournalStates == {"none", "submitted", "committed", "rejected", "abandoned"}

AckableStates == {"available_on_chain", "downloaded_by_recipient", "acknowledged"}
ReclaimStates == {"reclaim_queued", "reclaim_pending", "reclaimed"}

ResumeLabels == {"status", "rebroadcast", "abandon", "requeue"}
CollectLabels == {"list", "check", "dead", "deadNow", "mark", "build", "record", "send"}
SettleLabels == {"wait", "cas", "settle", "release"}

(* todo: the rows a loop has not reached; covered: those found live;       *)
(* m: the row whose cell was found dead.                                   *)
BatchCalls == [at : {"idle"} \cup ResumeLabels \cup CollectLabels \cup SettleLabels,
               t : TxIds \cup {NoTx}, todo : SUBSET Messages, covered : SUBSET Messages,
               m : Messages \cup {NoMessage}]
NoBatch == [at |-> "idle", t |-> NoTx, todo |-> {}, covered |-> {}, m |-> NoMessage]

NoList == [txs |-> {}, rejected |-> NoTx]

AckCalls == [at : {"downloaded_by_recipient", "acknowledged", "reclaim_queued", "fund"},
             m : Messages] \cup {[at |-> "idle"]}

TypeOK ==
    /\ NodeTypeOK
    /\ row \in [Messages -> AckableStates \cup ReclaimStates]
    /\ journal \in [TxIds -> JournalStates]
    /\ latest \in TxIds \cup {NoTx}
    /\ built \in 0..MaxTx
    /\ reclaimable \in Nat
    /\ funded \in [Messages -> 0..MaxCount]
    /\ released \in [Messages -> 0..MaxCount]
    /\ batch \in [Batches -> BatchCalls]
    /\ ack \in [Ackers -> AckCalls]
    /\ listed \in [Workers -> [txs : SUBSET TxIds, rejected : TxIds \cup {NoTx}]]
    /\ faults \in 0..MaxFaults

Init ==
    /\ NodeInit
    /\ row = [m \in Messages |-> "available_on_chain"]
    /\ journal = [t \in TxIds |-> "none"]
    /\ latest = NoTx /\ built = 0
    /\ reclaimable = 0
    /\ funded = [m \in Messages |-> 0]
    /\ released = [m \in Messages |-> 0]
    /\ batch = [b \in Batches |-> NoBatch]
    /\ ack = [a \in Ackers |-> [at |-> "idle"]]
    /\ listed = [w \in Workers |-> NoList]
    /\ faults = 0

-----------------------------------------------------------------------------
Transition(m, to) == Accepts(row[m], to) /\ row' = [row EXCEPT ![m] = to]
Refused(m, to) == ~Accepts(row[m], to) /\ UNCHANGED row
MarkState(t, state) == journal' = [journal EXCEPT ![t] = state]
Counted(n) == IF n < MaxCount THEN n + 1 ELSE n

(* get_live_cell says dead once a committed reclaim has spent the cell.    *)
Gone(m) == \E t \in TxIds : node[t] = "committed" /\ m \in inputs[t]

-----------------------------------------------------------------------------
(* One receipt: the row is read once, then walked from what was read.      *)
(* Receipts come again with every rescan of the cell that carries them.    *)
AAt(a, label) == ack[a].at = label
AGoto(a, label) == ack' = [ack EXCEPT ![a].at = label]
AFinish(a) == ack' = [ack EXCEPT ![a] = [at |-> "idle"]]

Ackable_Flawed(m) ==    \* a row that is queued already counts as well
    row[m] \in AckableStates \cup {"reclaim_queued"}

Ackable(m) == row[m] \in AckableStates

AckFind(a, m) ==
    /\ AAt(a, "idle") /\ Ackable(m)
    /\ ack' = [ack EXCEPT ![a] =
                 [m |-> m,
                  at |-> CASE row[m] = "available_on_chain" -> "downloaded_by_recipient"
                           [] row[m] = "downloaded_by_recipient" -> "acknowledged"
                           [] OTHER -> "reclaim_queued"]]
    /\ UNCHANGED <<row, reclaimable, funded>>

AckWalk(a) ==
    /\ ack[a].at \in {"downloaded_by_recipient", "acknowledged", "reclaim_queued"}
    /\ \/ /\ Transition(ack[a].m, ack[a].at)
          /\ AGoto(a, CASE AAt(a, "downloaded_by_recipient") -> "acknowledged"
                        [] AAt(a, "acknowledged") -> "reclaim_queued"
                        [] AAt(a, "reclaim_queued") -> "fund")
       \/ Refused(ack[a].m, ack[a].at) /\ AFinish(a)
    /\ UNCHANGED <<reclaimable, funded>>

(* markCapacityReclaimable, refused when too little is reserved.           *)
AckFund(a) ==
    /\ AAt(a, "fund")
    /\ AFinish(a)
    /\ \/ /\ funded' = [funded EXCEPT ![ack[a].m] = Counted(@)]
          /\ reclaimable' = reclaimable + 1
       \/ UNCHANGED <<reclaimable, funded>>
    /\ UNCHANGED row

AckStep(a) ==
    /\ AckWalk(a) \/ AckFund(a) \/ \E m \in Messages : AckFind(a, m)
    /\ UNCHANGED <<nodeVars, journal, latest, built, released, batch, listed, faults>>

-----------------------------------------------------------------------------
(* executeReclaimBatch.  A call that throws ends where it is.              *)
BAt(b, label) == batch[b].at = label
BSet(b, label, t, todo, covered) ==
    batch' = [batch EXCEPT ![b] =
                [at |-> label, t |-> t, todo |-> todo, covered |-> covered,
                 m |-> NoMessage]]
BGoto(b, label) == batch' = [batch EXCEPT ![b].at = label]
BFinish(b) == batch' = [batch EXCEPT ![b] = NoBatch]

(* The next row of a loop moves to `to`; a refusal throws.                 *)
MoveEach(b, label, to) ==
    /\ BAt(b, label)
    /\ \E m \in batch[b].todo :
        \/ Transition(m, to) /\ batch' = [batch EXCEPT ![b].todo = @ \ {m}]
        \/ Refused(m, to) /\ BFinish(b)

LoopEnds(b, label) == BAt(b, label) /\ batch[b].todo = {}

(* The latest reclaim is resumed while it is submitted.                    *)
BatchFind(b) ==
    /\ BAt(b, "idle")
    /\ IF latest # NoTx /\ journal[latest] = "submitted"
       THEN BSet(b, "status", latest, {}, {})
       ELSE BSet(b, "list", NoTx, {}, {})

BatchStatus(b) ==
    LET t == batch[b].t
    IN  /\ BAt(b, "status")
        /\ \/ node[t] = "committed" /\ BGoto(b, "cas")
           \/ node[t] = "pending" /\ BGoto(b, "wait")
           \/ node[t] = "rejected" /\ BGoto(b, "abandon")
           \/ node[t] = "unknown" /\ BGoto(b, "rebroadcast")

BatchRebroadcast(b) ==
    /\ BAt(b, "rebroadcast")
    /\ \/ Sent(batch[b].t) /\ BGoto(b, "wait")
       \/ SendRefused(batch[b].t) /\ BGoto(b, "abandon")

BatchAbandon_Flawed(b) ==    \* requeues the rows and leaves the record
    /\ BAt(b, "abandon")
    /\ BSet(b, "requeue", batch[b].t, inputs[batch[b].t], {})
    /\ UNCHANGED journal

(* Whatever the record has become meanwhile, it is marked abandoned.       *)
BatchAbandon(b) ==
    /\ BAt(b, "abandon")
    /\ MarkState(batch[b].t, "abandoned")
    /\ BSet(b, "requeue", batch[b].t, inputs[batch[b].t], {})

BatchRequeue(b) ==
    \/ MoveEach(b, "requeue", "reclaim_queued")
    \/ LoopEnds(b, "requeue") /\ BFinish(b) /\ UNCHANGED row

-----------------------------------------------------------------------------
(* Collecting: the rows that wait for a reclaim, and their cells.          *)
Candidates_Flawed ==    \* forgets the rows a dead call left at reclaim_pending
    {m \in Messages : row[m] = "reclaim_queued"}

Candidates == {m \in Messages : row[m] \in {"reclaim_queued", "reclaim_pending"}}

BatchList(b) ==
    /\ BAt(b, "list")
    /\ IF Candidates = {} THEN BFinish(b) ELSE BSet(b, "check", NoTx, Candidates, {})

BatchCheck_Flawed(b) ==    \* takes a cell that is not live for a dead one
    /\ BAt(b, "check")
    /\ \E m \in batch[b].todo :
        \/ ~Gone(m) /\ batch' = [batch EXCEPT ![b].todo = @ \ {m}, ![b].covered = @ \cup {m}]
        \/ batch' = [batch EXCEPT ![b].todo = @ \ {m}, ![b].at = "dead", ![b].m = m]

(* get_live_cell: a live cell is covered, a dead one was spent by a        *)
(* reclaim of ours and its row is brought to the end.                      *)
BatchCheck(b) ==
    /\ BAt(b, "check")
    /\ \E m \in batch[b].todo :
        \/ ~Gone(m) /\ batch' = [batch EXCEPT ![b].todo = @ \ {m}, ![b].covered = @ \cup {m}]
        \/ Gone(m) /\ batch' = [batch EXCEPT ![b].todo = @ \ {m}, ![b].at = "dead", ![b].m = m]

BatchDead(b) ==
    LET to == IF BAt(b, "dead") THEN "reclaim_pending" ELSE "reclaimed"
    IN  /\ BAt(b, "dead") \/ BAt(b, "deadNow")
        /\ \/ /\ Transition(batch[b].m, to)
              /\ batch' = [batch EXCEPT ![b].at = IF BAt(b, "dead") THEN "deadNow" ELSE "check",
                                        ![b].m = IF BAt(b, "dead") THEN @ ELSE NoMessage]
           \/ Refused(batch[b].m, to) /\ BFinish(b)

BatchCovered(b) ==
    /\ LoopEnds(b, "check")
    /\ IF batch[b].covered = {}
       THEN BFinish(b)
       ELSE BSet(b, "mark", NoTx, batch[b].covered, batch[b].covered)

BatchMark(b) ==
    \/ MoveEach(b, "mark", "reclaim_pending")
    \/ LoopEnds(b, "mark") /\ BGoto(b, "build") /\ UNCHANGED row

(* The hash leaves the signatures out, so from the same cells, in the same *)
(* order, with the fixed fee rate, the same transaction is built again.    *)
BatchBuild(b) ==
    LET covered == batch[b].covered
        before == {t \in 1..built : inputs[t] = covered}
    IN  /\ BAt(b, "build")
        /\ \/ \E t \in before :
                BSet(b, "record", t, {}, covered) /\ UNCHANGED <<inputs, built>>
           \/ /\ built < MaxTx
              /\ before = {} \/ Cardinality(covered) > 1    \* another order
              /\ built' = built + 1
              /\ inputs' = [inputs EXCEPT ![built + 1] = covered]
              /\ BSet(b, "record", built + 1, {}, covered)
           \/ before = {} /\ built = MaxTx /\ BFinish(b) /\ UNCHANGED <<inputs, built>>

(* ON CONFLICT (tx_hash) DO NOTHING: a record that exists stays as it is.  *)
BatchRecord(b) ==
    LET t == batch[b].t
    IN  /\ BAt(b, "record")
        /\ BGoto(b, "send")
        /\ IF journal[t] = "none"
           THEN MarkState(t, "submitted") /\ latest' = t
           ELSE UNCHANGED <<journal, latest>>

BatchSend(b) ==
    /\ BAt(b, "send")
    /\ \/ Sent(batch[b].t) /\ BGoto(b, "wait")
       \/ SendRefused(batch[b].t) /\ BFinish(b)

-----------------------------------------------------------------------------
(* Settling, after a wait of either kind or a commit found by the resume.  *)
BatchWait(b) ==
    /\ BAt(b, "wait")
    /\ \/ node[batch[b].t] = "committed" /\ BGoto(b, "cas")
       \/ BFinish(b)    \* rejected, an RPC error, or the deadline

BatchCas_Flawed(b) ==    \* does not compare
    /\ BAt(b, "cas")
    /\ MarkState(batch[b].t, "committed")
    /\ BSet(b, "settle", batch[b].t, inputs[batch[b].t], {})

(* markOutgoingTxStateIf: one caller wins submitted -> committed.          *)
BatchCas(b) ==
    LET t == batch[b].t
    IN  /\ BAt(b, "cas")
        /\ IF journal[t] = "submitted"
           THEN MarkState(t, "committed") /\ BSet(b, "settle", t, inputs[t], {})
           ELSE UNCHANGED journal /\ BFinish(b)

BatchSettle(b) ==
    \/ MoveEach(b, "settle", "reclaimed")
    \/ LoopEnds(b, "settle") /\ BGoto(b, "release") /\ UNCHANGED row

BatchRelease_Flawed(b) ==    \* does not look at what the bucket holds
    LET freed == inputs[batch[b].t]
    IN  /\ BAt(b, "release")
        /\ BFinish(b)
        /\ released' = [m \in Messages |->
                          IF m \in freed THEN Counted(released[m]) ELSE released[m]]
        /\ reclaimable' = reclaimable - Cardinality(freed)

(* The released capacity and the burned fee are together what the cells    *)
(* held; the ledger refuses to go below zero.                              *)
BatchRelease(b) ==
    LET freed == inputs[batch[b].t]
    IN  /\ BAt(b, "release")
        /\ BFinish(b)
        /\ IF reclaimable >= Cardinality(freed)
           THEN /\ released' = [m \in Messages |->
                                  IF m \in freed THEN Counted(released[m]) ELSE released[m]]
                /\ reclaimable' = reclaimable - Cardinality(freed)
           ELSE UNCHANGED <<reclaimable, released>>

(* The steps by what they leave alone.                                     *)
BatchLocal(b) ==
    /\ \/ BatchFind(b) \/ BatchStatus(b) \/ BatchList(b) \/ BatchCheck(b)
       \/ BatchCovered(b) \/ BatchWait(b)
    /\ UNCHANGED <<nodeVars, row, journal, latest, built, reclaimable, released>>

BatchRows(b) ==
    /\ BatchRequeue(b) \/ BatchDead(b) \/ BatchMark(b) \/ BatchSettle(b)
    /\ UNCHANGED <<nodeVars, journal, latest, built, reclaimable, released>>

BatchJournal(b) ==
    /\ \/ (BatchAbandon(b) \/ BatchCas(b)) /\ UNCHANGED latest
       \/ BatchRecord(b)
    /\ UNCHANGED <<nodeVars, row, built, reclaimable, released>>

BatchNetwork(b) ==
    /\ BatchRebroadcast(b) \/ BatchSend(b)
    /\ UNCHANGED <<inputs, row, journal, latest, built, reclaimable, released>>

BatchMake(b) ==
    BatchBuild(b) /\ UNCHANGED <<node, wire, row, journal, latest, reclaimable, released>>

BatchFree(b) ==
    BatchRelease(b) /\ UNCHANGED <<nodeVars, row, journal, latest, built>>

BatchStep(b) ==
    /\ \/ BatchLocal(b) \/ BatchRows(b) \/ BatchJournal(b)
       \/ BatchNetwork(b) \/ BatchMake(b) \/ BatchFree(b)
    /\ UNCHANGED <<funded, ack, listed, faults>>

-----------------------------------------------------------------------------
(* The pending-transactions worker asks about each record that was         *)
(* submitted when it listed them and then marks the rejected ones, which   *)
(* may have been sent again meanwhile; for a committed one it calls        *)
(* executeReclaimBatch, which is one of Batches.                           *)
WorkerList(w) ==
    /\ listed[w] = NoList
    /\ listed' = [listed EXCEPT ![w].txs = {t \in TxIds : journal[t] = "submitted"}]
    /\ listed'[w] # NoList
    /\ UNCHANGED journal

WorkerAsk(w) ==
    /\ listed[w].rejected = NoTx
    /\ \E t \in listed[w].txs :
          listed' = [listed EXCEPT
                       ![w] = [txs |-> @.txs \ {t},
                               rejected |-> IF node[t] = "rejected" THEN t ELSE NoTx]]
    /\ UNCHANGED journal

WorkerMark(w) ==
    /\ listed[w].rejected # NoTx
    /\ MarkState(listed[w].rejected, "rejected")
    /\ listed' = [listed EXCEPT ![w].rejected = NoTx]

WorkerStep(w) ==
    /\ WorkerList(w) \/ WorkerAsk(w) \/ WorkerMark(w)
    /\ UNCHANGED <<nodeVars, row, latest, built, ledgerVars, batch, ack, faults>>

-----------------------------------------------------------------------------
(* A request fails, a signature is not given, or the node has no           *)
(* information about a cell, which is then left for the next round.        *)
CellUnknown(b) ==
    /\ BAt(b, "check")
    /\ \E m \in batch[b].todo : batch' = [batch EXCEPT ![b].todo = @ \ {m}]
    /\ UNCHANGED <<node, wire>>

BatchThrows(b) ==
    /\ BFinish(b)
    /\ \/ batch[b].at \in {"status", "check", "build"} /\ UNCHANGED <<node, wire>>
       \/ batch[b].at \in {"rebroadcast", "send"} /\ SendTimedOut(batch[b].t)

BatchFault(b) ==
    /\ faults < MaxFaults /\ faults' = faults + 1
    /\ CellUnknown(b) \/ BatchThrows(b)
    /\ UNCHANGED <<inputs, row, journal, latest, built, ledgerVars, ack, listed>>

(* Process death, or a lock: the database and the node are what remains.   *)
Crash ==
    /\ faults < MaxFaults /\ faults' = faults + 1
    /\ \E lost \in SUBSET {batch[b].t : b \in {c \in Batches : BAt(c, "send") \/ BAt(c, "rebroadcast")}} :
        /\ LateRequests \/ lost = {}
        /\ wire' = wire \cup lost
    /\ batch' = [b \in Batches |-> NoBatch]
    /\ ack' = [a \in Ackers |-> [at |-> "idle"]]
    /\ listed' = [w \in Workers |-> NoList]
    /\ UNCHANGED <<node, inputs, row, journal, latest, built, ledgerVars>>

Network ==
    /\ \E t \in TxIds : NodeStep(t)
    /\ UNCHANGED <<row, journal, latest, built, ledgerVars, batch, ack, listed, faults>>

Next ==
    \/ \E a \in Ackers : AckStep(a)
    \/ \E b \in Batches : BatchStep(b) \/ BatchFault(b)
    \/ \E w \in Workers : WorkerStep(w)
    \/ Crash
    \/ Network

(* The engine runs its workers again and again while the app is unlocked;  *)
(* and a transaction that keeps coming back to the pool is mined one day.  *)
Fairness ==
    /\ \A b \in Batches : WF_vars(BatchStep(b))
    /\ \A t \in TxIds : SF_vars(Commit(t) /\ Network)

Spec == Init /\ [][Next]_vars /\ Fairness

-----------------------------------------------------------------------------
(***************************************************************************)
(* Properties.                                                             *)
(***************************************************************************)
(* "Never mark irreversible state from one unverified answer" (review E4): *)
(* a row says reclaimed only if its cell was spent by a committed reclaim, *)
(* whichever call, resume or dead branch moved it there.                   *)
ReclaimedIsGone == \A m \in Messages : row[m] = "reclaimed" => Gone(m)

(* "Capacity is released only by the winner (no double-credit)" (review    *)
(* E5): however many calls, resumes and rebuilt transactions settle a      *)
(* message, its cell is released at most once, and only when it is spent.  *)
ReleasedOnce == \A m \in Messages : released[m] <= (IF Gone(m) THEN 1 ELSE 0)

(* A receipt that comes again, after a rescan or a crash, does not fund    *)
(* the reclaimable bucket a second time (review E3).                       *)
FundedOnce == \A m \in Messages : funded[m] <= 1

(* The winner of a commit moves every row of the reclaim to reclaimed, and *)
(* a refused move would end it before the release: while a reclaim is      *)
(* submitted, none of its rows is offered for another one (reviews E1 and  *)
(* E2: mark before the journal, abandon before the requeue).               *)
SubmittedIsMarked ==
    \A t \in TxIds :
        journal[t] = "submitted" => \A m \in inputs[t] : row[m] # "reclaim_queued"

(* A spent cell's row comes to its end, whoever died on the way there.     *)
GoneIsReclaimed ==
    \A m \in Messages :
        Gone(m) /\ row[m] \in {"reclaim_queued", "reclaim_pending"} ~> row[m] = "reclaimed"

(* "Exactly one concurrent caller wins submitted -> committed; capacity is *)
(* released only by the winner" (lifecycle.ts, review E5): a call that saw *)
(* the commit wins the journal's transition or finds that another has.     *)
SomeCallerWins ==
    \A b \in Batches : BAt(b, "cas") => journal[batch[b].t] \in {"submitted", "committed"}

(* JournaledAbandonedError is "NEVER thrown for a tx that merely hasn't    *)
(* committed yet" (monitor.ts).                                            *)
AbandonedIsOff ==
    [][\A t \in TxIds :
          journal[t] # "abandoned" /\ journal'[t] = "abandoned" => ~InPlay(t)]_vars
=============================================================================
