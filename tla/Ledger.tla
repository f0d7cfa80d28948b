------------------------------- MODULE Ledger -------------------------------
(***************************************************************************)
(* The capacity ledger: the row of wallet_balances (cemp-database/         *)
(* balances.ts) that the refresh fills from the chain (cemp-sync/          *)
(* workers.ts) and that three flows adjust after their transactions have   *)
(* committed: the publication of a message or of an attachment's chunks,   *)
(* the acknowledgement, the reclaim. Between a commit and the adjustment   *)
(* for it the process may die and a refresh may come.                      *)
(*                                                                         *)
(* Capacities are small numbers; every cell holds Cap, every transaction   *)
(* burns LedgerFee, and the profile binds ProfileCap.                      *)
(***************************************************************************)
EXTENDS Integers, FiniteSets, FiniteSetsExt

CONSTANTS Texting,         \* messages published, acknowledged and reclaimed
          Chunking,        \* chunk groups published and reclaimed
          Cap, LedgerFee, ProfileCap,
          Funds,           \* what the wallet holds at first
          MaxLedgerFaults  \* bound: deaths of the process, payments of others

(* A cell holds far more than the fee of its spend.                        *)
ASSUME LedgerAssumption ==
    /\ IsFiniteSet(Texting) /\ IsFiniteSet(Chunking)
    /\ Cap \in Nat /\ LedgerFee \in Nat /\ LedgerFee <= Cap
    /\ ProfileCap \in Nat /\ Funds \in Nat /\ MaxLedgerFaults \in Nat

VARIABLES ledger,   \* the row, and whether it exists
          chain,    \* what the indexer answers: spendable and bound capacity
          item,     \* item[i]: which adjustment for its cells is due
          refresh,  \* the balance worker: its snapshot, and what came between
          trusted,  \* every adjustment was made, and none came too late
          refused,  \* adjustments refused although the ledger was trusted
          ledgerFaults

capacityVars == <<ledger, chain, item, refresh, trusted, refused, ledgerFaults>>

Items == Texting \cup Chunking
Due == {"reserve", "mark", "release", "burn"}
BoundRange == 0..(ProfileCap + Cap * Cardinality(Items) + 2 * MaxLedgerFaults)
Most == Funds + 2 * MaxLedgerFaults

LedgerTypeOK ==
    /\ ledger \in [row : {"none", "torn", "open"}, total : Nat, available : Nat,
                   reserved : Nat, reclaimable : Nat]
    /\ chain \in [free : 0..Most, bound : BoundRange]
    /\ item \in [Items -> {"idle", "held", "acked", "done"} \cup Due]
    /\ refresh \in [at : {"idle", "store"}, free : 0..Most, bound : BoundRange, crossed : BOOLEAN]
    /\ trusted \in BOOLEAN /\ refused \in BOOLEAN
    /\ ledgerFaults \in 0..MaxLedgerFaults

EmptyRow == [row |-> "none", total |-> 0, available |-> 0, reserved |-> 0, reclaimable |-> 0]
IdleRefresh == [at |-> "idle", free |-> 0, bound |-> 0, crossed |-> FALSE]

(* A restored wallet: funds and a profile, nothing in the database yet.    *)
LedgerInit ==
    /\ ledger = EmptyRow
    /\ chain = [free |-> Funds, bound |-> ProfileCap]
    /\ item = [i \in Items |-> "idle"]
    /\ refresh = IdleRefresh
    /\ trusted = FALSE /\ refused = FALSE /\ ledgerFaults = 0

LedgerFault == ledgerFaults < MaxLedgerFaults /\ ledgerFaults' = ledgerFaults + 1

(* Committed, and not accounted for: a snapshot taken now says more than   *)
(* the ledger knows. An acknowledgement changes nothing on the chain.      *)
Unsettled == {i \in Items : item[i] \in Due \ (IF i \in Texting THEN {"mark"} ELSE {})}

(* Something happens between a snapshot and its storing.                   *)
Crossed == refresh' = [refresh EXCEPT !.crossed = (refresh.at = "store")]

-----------------------------------------------------------------------------
(* The first start: the wallet's row, then its balance. A wallet that has  *)
(* its row is not looked at again.                                         *)
EnsureWallet ==
    /\ ledger.row = "none"
    /\ \/ ledger' = [ledger EXCEPT !.row = "open"] /\ UNCHANGED ledgerFaults
       \/ ledger' = [ledger EXCEPT !.row = "torn"] /\ LedgerFault
    /\ UNCHANGED <<chain, item, refresh, trusted, refused>>

(* What is on the chain is split as the row has it, as far as that goes.   *)
Reconciled(bound) ==
    LET reclaimable == Min({ledger.reclaimable, bound})
    IN  IF ledger.reserved + ledger.reclaimable = bound
        THEN [reserved |-> ledger.reserved, reclaimable |-> ledger.reclaimable]
        ELSE [reserved |-> bound - reclaimable, reclaimable |-> reclaimable]

TakeSnapshot ==
    /\ refresh.at = "idle" /\ ledger.row # "none"
    /\ refresh' = [at |-> "store", free |-> chain.free, bound |-> chain.bound,
                   crossed |-> Unsettled # {}]
    /\ UNCHANGED <<ledger, chain, item, trusted, refused, ledgerFaults>>

(* One transaction of the database: the row is read and written in it.     *)
SetChainBalances ==
    /\ refresh.at = "store"
    /\ IF ledger.row = "open"
       THEN LET r == Reconciled(refresh.bound)
            IN  ledger' = [row |-> "open", total |-> refresh.free + refresh.bound,
                           available |-> refresh.free, reserved |-> r.reserved,
                           reclaimable |-> r.reclaimable]
       ELSE UNCHANGED ledger
    /\ trusted' = /\ ledger.row = "open" /\ ~refresh.crossed
                  /\ trusted \/ \A i \in Items : item[i] \in {"idle", "done"}
    /\ refresh' = IdleRefresh
    /\ UNCHANGED <<chain, item, refused, ledgerFaults>>

-----------------------------------------------------------------------------
(* The moves. A category never goes below zero: the move is refused and    *)
(* its caller ends with the error.                                         *)

Movable(from, amount) == ledger.row = "open" /\ ledger[from] >= amount

Moved(from, to, amount) ==
    [ledger EXCEPT ![from] = @ - amount, ![to] = @ + amount]

Move(i, from, to, amount, next, end) ==
    /\ IF Movable(from, amount)
       THEN /\ ledger' = Moved(from, to, amount)
            /\ item' = [item EXCEPT ![i] = next] /\ UNCHANGED refused
       ELSE /\ item' = [item EXCEPT ![i] = end]
            /\ refused' = (refused \/ trusted) /\ UNCHANGED ledger
    /\ UNCHANGED <<chain, trusted, ledgerFaults>>

(* The cell, or the chunks, have committed; the fee is gone. It may have   *)
(* spent what a reclaim has freed and not yet released in the ledger.      *)
PublicationCommits(i) ==
    /\ item[i] = "idle" /\ ledger.row # "none" /\ chain.free >= Cap + LedgerFee
    /\ chain' = [free |-> chain.free - Cap - LedgerFee, bound |-> chain.bound + Cap]
    /\ item' = [item EXCEPT ![i] = "reserve"]
    /\ trusted' = (trusted /\ \A j \in Unsettled : item[j] = "reserve")
    /\ Crossed
    /\ UNCHANGED <<ledger, refused, ledgerFaults>>

(* What has become of a cell that was never reserved: a message stays      *)
(* published, an upload ends before anybody is told of its chunks.         *)
Unreserved(i) == IF i \in Texting THEN "held" ELSE "done"

(* By the publisher, the upload, or the worker that found the transaction. *)
ReserveCapacity(i) ==
    /\ item[i] = "reserve" /\ Crossed
    /\ Move(i, "available", "reserved", Cap, "held", Unreserved(i))

(* The row is queued for reclaim first, the capacity is marked then. The   *)
(* receipt takes its way over the chain: the reservation was before it.    *)
AcknowledgeItem(i) ==
    /\ item[i] = "held" /\ i \in Texting
    /\ item' = [item EXCEPT ![i] = "mark"]
    /\ UNCHANGED <<ledger, chain, refresh, trusted, refused, ledgerFaults>>

(* For chunks this is a part of what follows their reclaim.                *)
MarkReclaimable(i) ==
    /\ item[i] = "mark"
    /\ IF i \in Texting
       THEN /\ Move(i, "reserved", "reclaimable", Cap, "acked", "acked")
            /\ UNCHANGED refresh
       ELSE Move(i, "reserved", "reclaimable", Cap, "release", "done") /\ Crossed

(* The cells are spent, their capacity less the fee is back.               *)
ReclaimCommits(i) ==
    /\ item[i] = IF i \in Texting THEN "acked" ELSE "held"
    /\ chain' = [free |-> chain.free + Cap - LedgerFee, bound |-> chain.bound - Cap]
    /\ item' = [item EXCEPT ![i] = IF i \in Texting THEN "release" ELSE "mark"]
    /\ Crossed
    /\ UNCHANGED <<ledger, trusted, refused, ledgerFaults>>

ReleaseReclaimedCapacity(i) ==
    /\ item[i] = "release" /\ Crossed
    /\ Move(i, "reclaimable", "available", Cap - LedgerFee, "burn", "done")

(* Written off, and never below zero.                                      *)
RecordFeeBurn(i) ==
    /\ item[i] = "burn" /\ Crossed
    /\ ledger' = [ledger EXCEPT !.reclaimable = Max({0, @ - LedgerFee})]
    /\ item' = [item EXCEPT ![i] = "done"]
    /\ UNCHANGED <<chain, trusted, refused, ledgerFaults>>

-----------------------------------------------------------------------------
(* Other flows of the wallet - a transfer, a profile, a code cell - change *)
(* the chain and leave the ledger to the next refresh; a payment of        *)
(* somebody else makes it say too little.                                  *)
OtherSpend ==
    /\ LedgerFault /\ chain.free >= 2
    /\ \E kept \in {0, 2} : chain' = [free |-> chain.free - 2, bound |-> chain.bound + kept]
    /\ UNCHANGED <<ledger, item, refresh, trusted, refused>>

Payment ==
    /\ LedgerFault
    /\ chain' = [chain EXCEPT !.free = @ + 2] /\ trusted' = FALSE /\ Crossed
    /\ UNCHANGED <<ledger, item, refused>>

(* The process dies: no flow makes up for an adjustment, for each advances *)
(* its row before it.                                                      *)
After(i) == CASE item[i] = "reserve" -> Unreserved(i)
              [] item[i] = "mark" -> IF i \in Texting THEN "acked" ELSE "done"
              [] item[i] \in {"release", "burn"} -> "done"
              [] OTHER -> item[i]

LedgerCrash ==
    /\ LedgerFault
    /\ item' = [i \in Items |-> After(i)]
    /\ refresh' = IdleRefresh
    /\ trusted' = (trusted /\ \A i \in Items : item[i] \notin Due)
    /\ UNCHANGED <<ledger, chain, refused>>

LedgerNext ==
    \/ EnsureWallet \/ TakeSnapshot \/ SetChainBalances
    \/ OtherSpend \/ Payment \/ LedgerCrash
    \/ \E i \in Items :
          \/ PublicationCommits(i) \/ ReserveCapacity(i) \/ AcknowledgeItem(i)
          \/ MarkReclaimable(i) \/ ReclaimCommits(i)
          \/ ReleaseReclaimedCapacity(i) \/ RecordFeeBurn(i)

LedgerSpec == LedgerInit /\ [][LedgerNext]_capacityVars

-----------------------------------------------------------------------------
(* However refreshes, flows and deaths interleave, the categories never    *)
(* claim more than the total of the last refresh (balances.ts:74-114,      *)
(* 136-176).                                                               *)
CategoriesFitTotal ==
    ledger.available + ledger.reserved + ledger.reclaimable <= ledger.total

(* No adjustment is refused for want of capacity unless one before it was  *)
(* lost, or something came between a commit and the adjustment for it: a   *)
(* refresh, or a publication after a reclaim (balances.ts:155-176,         *)
(* publisher.ts:436-444, lifecycle.ts:200-208).                            *)
FundedWhenDue == ~refused

(* Once every flow is accounted for, the ledger calls no less available    *)
(* than the wallet can spend (workers.ts:785-798).                         *)
SpendableIsShown ==
    trusted /\ Unsettled = {} => ledger.available >= chain.free

LedgerAddsUp == CategoriesFitTotal /\ FundedWhenDue /\ SpendableIsShown
=============================================================================
