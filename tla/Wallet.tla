------------------------------- MODULE Wallet -------------------------------
(***************************************************************************)
(* How a transaction of the wallet comes to be: the builders               *)
(* (cemp-ckb/builders.ts), coin selection over the indexer and the cache   *)
(* of the CCC client, the signer (signing.ts, cighash.ts), the broadcast   *)
(* (client.ts, wire.ts) and the note that keeps its inputs from being      *)
(* picked again (trackBroadcastSpend). Transactions are built by callers   *)
(* that know nothing of each other.                                        *)
(*                                                                         *)
(* Capacities are small numbers; one data size per kind of cell.           *)
(***************************************************************************)
EXTENDS Integers, Sequences, FiniteSets, FiniteSetsExt

CONSTANTS MaxSpends,       \* bound: transactions the node ever takes
          MaxWalletFaults  \* bound: lost answers, evictions, restarts of the app

ASSUME WalletAssumption == MaxSpends \in Nat /\ MaxWalletFaults \in Nat

VARIABLES cells,        \* every cell that was created: its kind and capacity
          spends,          \* what the node took: [kind, ins, outs, st]
          indexed,      \* the wallet's cells the indexer lists as live
          cache,        \* the CCC client: outputs it may use, inputs it may not
          build,        \* build[b]: where a caller is, and its transaction
          disturbed,    \* cache and node disagree: a lost answer, an eviction, a restart
          walletFaults

walletVars == <<cells, spends, indexed, cache, build, disturbed, walletFaults>>

(* The screens of the app and the workers of a sweep build transactions.   *)
Builds == {"app", "sweep"}

SweepFlows == {"respond", "reclaim"}
FlowKinds == SweepFlows \cup {"create", "rotate", "send", "transfer", "consolidate", "data"}
CellKinds == {"plain", "profile", "rotated", "message", "data", "foreign"}
Typed == {"profile", "rotated", "message"}
Fee == 1
CapacityMargin == 1

(* A rotated profile also names its predecessor: its data is longer.       *)
Occupied == [plain |-> 1, foreign |-> 1, profile |-> 2, rotated |-> 5,
             message |-> 2, data |-> 2]

Cell(kind, cap) == [kind |-> kind, cap |-> cap]

MaxCells == 3 + 3 * MaxSpends
CellIds == 1..MaxCells

WalletTypeOK ==
    /\ cells \in Seq([kind : CellKinds, cap : 1..30]) /\ Len(cells) <= MaxCells
    /\ spends \in Seq([kind : FlowKinds, ins : SUBSET CellIds, outs : SUBSET CellIds,
                    st : {"pool", "committed", "gone"}])
    /\ indexed \subseteq CellIds
    /\ cache \in [usable : SUBSET CellIds, unusable : SUBSET CellIds]
    /\ build \in [Builds -> [at : {"idle", "built", "signed", "track", "refused"},
                             kind : FlowKinds, ins : SUBSET CellIds,
                             outs : Seq([kind : CellKinds, cap : 1..30]), clean : BOOLEAN]]
    /\ disturbed \in BOOLEAN
    /\ walletFaults \in 0..MaxWalletFaults

IdleBuild == [at |-> "idle", kind |-> "send", ins |-> {}, outs |-> <<>>, clean |-> TRUE]
EmptyCache == [usable |-> {}, unusable |-> {}]

(* A funded wallet with a profile and one message out.                     *)
WalletInit ==
    /\ cells = <<Cell("plain", 12), Cell("profile", 3), Cell("message", 3)>>
    /\ spends = <<>>
    /\ indexed = 1..3 /\ cache = EmptyCache
    /\ build = [b \in Builds |-> IdleBuild]
    /\ disturbed = FALSE /\ walletFaults = 0

Worth(S) == MapThenSumSet(LAMBDA c : cells[c].cap, S)
Total(outs) == MapThenSumSet(LAMBDA k : outs[k].cap, DOMAIN outs)

-----------------------------------------------------------------------------
(* The node and its indexer.                                               *)

Txs(st) == {t \in DOMAIN spends : spends[t].st = st}
Outs(T) == UNION {spends[t].outs : t \in T}
Ins(T) == UNION {spends[t].ins : t \in T}

LiveCells == (1..3 \cup Outs(Txs("committed"))) \ Ins(Txs("committed"))
OwnLive == {c \in LiveCells : cells[c].kind # "foreign"}

(* Inputs must be live, or outputs of the pool, and spent by nobody else.  *)
TakenByNode(ins) ==
    /\ ins \subseteq LiveCells \cup Outs(Txs("pool"))
    /\ ins \cap Ins(Txs("pool")) = {}

CommitTx(t) ==
    /\ t \in Txs("pool") /\ spends[t].ins \subseteq LiveCells
    /\ spends' = [spends EXCEPT ![t].st = "committed"]
    /\ UNCHANGED <<cells, indexed, cache, build, disturbed, walletFaults>>

IndexerCatchesUp ==
    /\ indexed # OwnLive /\ indexed' = OwnLive
    /\ UNCHANGED <<cells, spends, cache, build, disturbed, walletFaults>>

WalletFault == walletFaults < MaxWalletFaults /\ walletFaults' = walletFaults + 1

(* The pool drops a transaction, and whatever spends its outputs.          *)
EvictTx(t) ==
    /\ WalletFault /\ t \in Txs("pool")
    /\ spends' = [u \in DOMAIN spends |->
                 IF spends[u].st = "pool" /\ (u = t \/ spends[u].ins \cap spends[t].outs # {})
                 THEN [spends[u] EXCEPT !.st = "gone"] ELSE spends[u]]
    /\ disturbed' = TRUE
    /\ UNCHANGED <<cells, indexed, cache, build>>

-----------------------------------------------------------------------------
(* Coin selection: own cells without type and data, the cache's first, and *)
(* never one the cache knows to be spent.                                  *)

Selectable ==
    {c \in (cache.usable \cup indexed) \ cache.unusable : cells[c].kind = "plain"}

(* completeInputsByCapacity and completeFeeBy: as many as are needed, the  *)
(* rest comes back as change. Without other outputs there must be change.  *)
Need(outs) == Total(outs) + Fee + (IF outs = <<>> THEN Occupied["plain"] ELSE 0)

Selections(given, outs) ==
    LET Enough(S) == Worth(given \cup S) >= Need(outs)
    IN  {S \in SUBSET (Selectable \ given) :
            Enough(S) /\ \A c \in S : ~Enough(S \ {c})}

Change(ins, outs) ==
    LET left == Worth(ins) - Total(outs) - Fee
    IN  IF left > 0 THEN <<Cell("plain", left)>> ELSE <<>>

Overlapping(b) == \E c \in Builds \ {b} : build[c].at = "track"

Complete(b, kind, given, outs) ==
    /\ build[b].at = "idle" /\ Len(spends) < MaxSpends
    /\ b = "sweep" <=> kind \in SweepFlows
    /\ \E S \in Selections(given, outs) :
          build' = [build EXCEPT ![b] =
                      [at |-> "built", kind |-> kind, ins |-> given \cup S,
                       outs |-> outs \o Change(given \cup S, outs),
                       clean |-> /\ ~disturbed /\ ~Overlapping(b)
                                 /\ given \cap cache.unusable = {}]]
    /\ UNCHANGED <<cells, spends, indexed, cache, disturbed, walletFaults>>

(* A created cell is its occupied size and a margin.                       *)
Sized(kind) == Cell(kind, Occupied[kind] + CapacityMargin)

BuildCreateProfileTx(b) == Complete(b, "create", {}, <<Sized("profile")>>)

(* The successor carries the old capacity, at least its own size.          *)
RotatedCell(old) ==
    Cell("rotated", Max({Occupied["rotated"], cells[old].cap}) + CapacityMargin)

(* Only the owner's own, live profile cell is rotated.                     *)
BuildRotateProfileTx(b) ==
    \E old \in OwnLive :
        /\ cells[old].kind \in {"profile", "rotated"}
        /\ Complete(b, "rotate", {old}, <<RotatedCell(old)>>)

BuildSendMessageTx(b) ==
    Complete(b, IF b = "app" THEN "send" ELSE "respond", {}, <<Sized("message")>>)

(* A code cell, and the chunks of an attachment.                           *)
BuildDeployDataCellTx(b) == Complete(b, "data", {}, <<Sized("data")>>)

BuildDataCellsTx(b) ==
    \E n \in 1..2 : Complete(b, "data", {}, [k \in 1..n |-> Sized("data")])

BuildTransferTx(b) ==
    \E amount \in {2} :
        /\ amount >= Occupied["foreign"]
        /\ Complete(b, "transfer", {}, <<Cell("foreign", amount)>>)

(* Own message cells, or the chunks of an attachment, found live before.   *)
BuildReclaimTx(b) ==
    \E given \in SUBSET {c \in OwnLive : cells[c].kind \in {"message", "data"}} :
        given # {} /\ Complete(b, "reclaim", given, <<>>)

(* Cells without a type; data is not looked at.                            *)
Consolidated == {c \in OwnLive : cells[c].kind \notin Typed}

BuildConsolidateTx(b) ==
    \E given \in SUBSET Consolidated :
        given # {} /\ Complete(b, "consolidate", given, <<>>)

-----------------------------------------------------------------------------
(* clientCellResolver: live on the node, or an unspent output in the cache. *)
Resolves(c) == c \in LiveCells \/ (c \notin cache.unusable /\ c \in cache.usable)

AssertAllInputsLockedBy(ins) == \A c \in ins : cells[c].kind # "foreign"

(* Every input resolved and under the signer's lock, then one signature.   *)
SignTransaction(b) ==
    /\ build[b].at = "built"
    /\ build' = [build EXCEPT ![b].at =
                   IF (\A c \in build[b].ins : Resolves(c))
                      /\ AssertAllInputsLockedBy(build[b].ins)
                   THEN "signed" ELSE "refused"]
    /\ UNCHANGED <<cells, spends, indexed, cache, disturbed, walletFaults>>

NewIds(outs) == {Len(cells) + k : k \in DOMAIN outs}

Taken(b) ==
    /\ cells' = cells \o build[b].outs
    /\ spends' = Append(spends, [kind |-> build[b].kind, ins |-> build[b].ins,
                           outs |-> NewIds(build[b].outs), st |-> "pool"])

(* Whoever selected before does not know of this spend.                    *)
Overtaken(bs) == [c \in Builds |-> IF bs[c].at \in {"built", "signed"}
                                   THEN [bs[c] EXCEPT !.clean = FALSE] ELSE bs[c]]

SendTransaction(b) ==
    /\ build[b].at = "signed"
    /\ IF TakenByNode(build[b].ins) /\ Len(spends) < MaxSpends
       THEN /\ Taken(b)
            /\ build' = Overtaken([build EXCEPT ![b].at = "track"])
       ELSE build' = [build EXCEPT ![b].at = "refused"] /\ UNCHANGED <<cells, spends>>
    /\ UNCHANGED <<indexed, cache, disturbed, walletFaults>>

(* The node takes it and the answer is lost: the spend goes unrecorded.    *)
SendAnswerLost(b) ==
    /\ WalletFault /\ build[b].at = "signed"
    /\ TakenByNode(build[b].ins) /\ Len(spends) < MaxSpends
    /\ Taken(b)
    /\ build' = Overtaken([build EXCEPT ![b] = IdleBuild])
    /\ disturbed' = TRUE
    /\ UNCHANGED <<indexed, cache>>

\* A plausible bug: a broadcast is left to the client's own cache, which never sees it.
Marked_Flawed(t) == cache

Marked(t) == [usable |-> (cache.usable \cup t.outs) \ t.ins,
              unusable |-> cache.unusable \cup t.ins]

TrackBroadcastSpend(b) ==
    /\ build[b].at = "track"
    /\ \E t \in DOMAIN spends : spends[t].ins = build[b].ins /\ spends[t].st # "gone"
                             /\ cache' = Marked(spends[t])
    /\ build' = [build EXCEPT ![b] = IdleBuild]
    /\ UNCHANGED <<cells, spends, indexed, disturbed, walletFaults>>

GiveUp(b) ==
    /\ build[b].at = "refused"
    /\ build' = [build EXCEPT ![b] = IdleBuild]
    /\ UNCHANGED <<cells, spends, indexed, cache, disturbed, walletFaults>>

(* A new process has an empty cache.                                       *)
RestartApp ==
    /\ WalletFault
    /\ cache' = EmptyCache
    /\ build' = [b \in Builds |-> IdleBuild]
    /\ disturbed' = (disturbed \/ Txs("pool") # {} \/ indexed # OwnLive)
    /\ UNCHANGED <<cells, spends, indexed>>

(* balanceCategories over all pages, which runBalanceRefresh stores for    *)
(* the wallet screen; a cell with a type or data is bound.                 *)
BalanceCategories ==
    LET bound == {c \in indexed : cells[c].kind # "plain"}
    IN  [total |-> Worth(indexed), available |-> Worth(indexed \ bound),
         reserved |-> Worth(bound)]

(* transferHistory: what a transaction did to the wallet's lock. A cell of *)
(* another lock does not count, and the source of an input is looked up.   *)
OwnCells(S) == {c \in S : cells[c].kind # "foreign"}

LockDelta(t) == Worth(OwnCells(spends[t].outs)) - Worth(OwnCells(spends[t].ins))

HistoryRecord(t) ==
    LET delta == LockDelta(t)
    IN  [tx |-> t, delta |-> delta,
         direction |-> CASE delta > 0 -> "received" [] delta < 0 -> "sent" [] OTHER -> "self"]

(* The indexer lists a transaction once for each own cell it spent and     *)
(* each it made; every such entry gets the whole transaction's record.     *)
HistoryEntries ==
    UNION {{[tx |-> t, io |-> "input", cell |-> c] : c \in OwnCells(spends[t].ins)}
           \cup {[tx |-> t, io |-> "output", cell |-> c] : c \in OwnCells(spends[t].outs)}
             : t \in Txs("committed")}

TransferHistory == [e \in HistoryEntries |-> HistoryRecord(e.tx)]

WalletNext ==
    \/ \E t \in DOMAIN spends : CommitTx(t) \/ EvictTx(t)
    \/ IndexerCatchesUp \/ RestartApp
    \/ \E b \in Builds :
          \/ BuildCreateProfileTx(b) \/ BuildRotateProfileTx(b) \/ BuildSendMessageTx(b)
          \/ BuildDeployDataCellTx(b) \/ BuildDataCellsTx(b) \/ BuildTransferTx(b)
          \/ BuildReclaimTx(b) \/ BuildConsolidateTx(b)
          \/ SignTransaction(b) \/ SendTransaction(b) \/ SendAnswerLost(b)
          \/ TrackBroadcastSpend(b) \/ GiveUp(b)

WalletSpec == WalletInit /\ [][WalletNext]_walletVars

-----------------------------------------------------------------------------
(* One send after the other is never refused, however far the indexer lags *)
(* and however many of them wait in the pool: only two that overlap, or a  *)
(* cache that lost touch with the node, can pick the same cell             *)
(* (signing.ts:70-98 and 413-439).                                         *)
BurstIsTaken == \A b \in Builds : build[b].at = "refused" => ~build[b].clean \/ disturbed

(* Whatever the node takes is balanced, covers the size of each new cell,  *)
(* and spends a profile only to rotate it, a message cell only to reclaim  *)
(* it (builders.ts:236-343 and 520-590, 652-710).                          *)
ProtocolCellsKeepTheirFlow ==
    \A t \in DOMAIN spends :
        /\ Worth(spends[t].ins) = Worth(spends[t].outs) + Fee
        /\ \A c \in spends[t].outs : cells[c].cap >= Occupied[cells[c].kind]
        /\ \A c \in spends[t].ins :
              /\ cells[c].kind # "foreign"
              /\ cells[c].kind \in {"profile", "rotated"} => spends[t].kind = "rotate"
              /\ cells[c].kind = "message" => spends[t].kind = "reclaim"

(* What the wallet screen calls available is what coin selection can use,  *)
(* once nothing is under way and the indexer has caught up: no cell stays  *)
(* marked as spent that is not, and none that is bound is offered          *)
(* (wallet.ts:119-171, signing.ts:413-439).                                *)
AvailableIsSpendable ==
    (/\ ~disturbed /\ Txs("pool") = {} /\ indexed = OwnLive
     /\ \A b \in Builds : build[b].at # "track")
        => Worth(Selectable) = BalanceCategories.available

(* The transfer history explains the balance: each transaction counted     *)
(* once, whatever number of entries repeat it, what came and went adds up  *)
(* to the cells the wallet has; none is missing, and a wallet that only    *)
(* spends never receives (wallet.ts:198-266, client.ts:224-250).           *)
HistoryExplainsBalance ==
    LET told == {TransferHistory[e] : e \in HistoryEntries}
    IN  /\ Worth(OwnLive) = Worth(1..3) + MapThenSumSet(LAMBDA r : r.delta, told)
        /\ \A r \in told : r.direction = "sent" /\ r.delta <= -Fee

(* What the node and the wallet's owner may rely on.                       *)
SpendsAreTaken ==
    BurstIsTaken /\ ProtocolCellsKeepTheirFlow /\ AvailableIsSpendable /\ HistoryExplainsBalance
=============================================================================
