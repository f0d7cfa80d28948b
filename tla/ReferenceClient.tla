--------------------------- MODULE ReferenceClient ---------------------------
(***************************************************************************)
(* The headless two-user client (apps/reference-client/src): one process   *)
(* per invocation runs one step on state it loads from shared.json,        *)
(* alice.json and bob.json, and `run` is the steps one after the other.    *)
(* Every transaction goes through broadcastAndCheckpoint (chain.ts); a     *)
(* save writes the three files one by one, each atomically (state.ts).     *)
(*                                                                         *)
(* Transactions of one label are numbered; while one of them is in the     *)
(* pool another selects the same inputs and is refused. Capacities are     *)
(* abstract amounts, every fee is 1. A journal file is written before      *)
(* every broadcast and read by nobody.                                     *)
(***************************************************************************)
EXTENDS Integers, Sequences, FiniteSets

CONSTANT MaxRunFaults   \* bound: deaths, lost answers, time-outs, dropped transactions

ASSUME ClientAssumption == MaxRunFaults \in Nat

VARIABLES disk,      \* the three files
          mem,       \* the context of the running process
          proc,      \* its step, its place in it, the file it writes next
          txs,       \* txs[label]: the transactions broadcast under a label
          accounted, \* a reconcile has passed
          runFaults

clientVars == <<disk, mem, proc, txs, accounted, runFaults>>

Labels == {"deploy-type", "profile.alice", "profile.bob", "send", "respond", "ack-reclaim",
           "rotate.alice"}
Steps == Labels \cup {"setup", "receive", "watch", "reconcile", "verify-rotation"}
Names == {"alice", "bob"}
Payer(label) == IF label \in {"profile.bob", "respond"} THEN "bob" ELSE "alice"
MaxTxs == 2   \* bound: broadcasts under one label

Idle == [step |-> "none", at |-> "none", file |-> "none"]

NewShared == [steps |-> {}, pending |-> [l \in Labels |-> 0], deployed |-> FALSE,
              profiles |-> {}, a2b |-> 0, b2a |-> 0, rotation |-> FALSE]
NewIdentity == [before |-> <<>>, fees |-> {}, profile |-> FALSE, own |-> "none",
                processed |-> {}, got |-> {}, remote |-> FALSE]

ClientTypeOK ==
    /\ \A state \in {disk, mem} :
          /\ state.shared.steps \subseteq Steps
          /\ state.shared.pending \in [Labels -> 0..MaxTxs]
          /\ \A n \in Names : state[n].own \in {"none", "published", "acknowledged", "reclaimed"}
    /\ proc.step \in Steps \cup {"none"}
    /\ txs \in [Labels -> Seq({"pool", "committed", "dropped"})]
    /\ \A l \in Labels : Len(txs[l]) <= MaxTxs
    /\ accounted \in BOOLEAN
    /\ runFaults \in 0..MaxRunFaults

ClientInit ==
    /\ disk = [shared |-> NewShared, alice |-> NewIdentity, bob |-> NewIdentity]
    /\ mem = disk
    /\ proc = Idle
    /\ txs = [l \in Labels |-> <<>>]
    /\ accounted = FALSE
    /\ runFaults = 0

-----------------------------------------------------------------------------
(* The chain.                                                              *)

Committed(label) == {i \in DOMAIN txs[label] : txs[label][i] = "committed"}
InPool(label) == \E i \in DOMAIN txs[label] : txs[label][i] = "pool"

(* The message cell that the mapping names.                                *)
OriginalLive(shared) ==
    shared.a2b \in Committed("send") /\ Committed("ack-reclaim") = {}

Capacity == [contract |-> 90, profile |-> 17, message |-> 10]
Made(label) == Cardinality(Committed(label))
FeesPaid(name) ==
    Cardinality({tx \in Labels \X (1..MaxTxs) : Payer(tx[1]) = name /\ tx[2] \in Committed(tx[1])})

(* The protocol cells of a lock; a rotated profile is under the new keys.  *)
ProtocolCells(name) ==
    IF name = "alice"
    THEN Capacity.contract * Made("deploy-type")
         + Capacity.profile * (Made("profile.alice") - Made("rotate.alice"))
         + Capacity.message * (Made("send") - Made("ack-reclaim"))
    ELSE Capacity.profile * Made("profile.bob") + Capacity.message * Made("respond")
MovedAway(name) == IF name = "alice" THEN Capacity.profile * Made("rotate.alice") ELSE 0

(* balanceSnapshot, relative to what the lock held at first.               *)
BalanceSnapshot(name) ==
    [total |-> -(FeesPaid(name) + MovedAway(name)),
     spendable |-> -(FeesPaid(name) + MovedAway(name) + ProtocolCells(name))]

TxLands ==
    /\ \E l \in Labels, i \in 1..MaxTxs :
          /\ i \in DOMAIN txs[l] /\ txs[l][i] = "pool"
          /\ txs' = [txs EXCEPT ![l][i] = "committed"]
    /\ UNCHANGED <<disk, mem, proc, accounted, runFaults>>

RunFault == runFaults < MaxRunFaults /\ runFaults' = runFaults + 1

TxDropped ==
    /\ RunFault
    /\ \E l \in Labels, i \in 1..MaxTxs :
          /\ i \in DOMAIN txs[l] /\ txs[l][i] = "pool"
          /\ txs' = [txs EXCEPT ![l][i] = "dropped"]
    /\ UNCHANGED <<disk, mem, proc, accounted>>

-----------------------------------------------------------------------------
(* The process.                                                            *)

RunAt(step, at) == proc.step = step /\ proc.at = at /\ proc.file = "none"
RunGoto(at) == proc' = [proc EXCEPT !.at = at]
Exit == proc' = Idle /\ mem' = disk

(* ctx.save, then on to the given place.                                   *)
SaveThen(at) == proc' = [proc EXCEPT !.at = at, !.file = "shared"]
SaveIdentityThen(name, at) == proc' = [proc EXCEPT !.at = at, !.file = name]

(* ORDERED_STEPS: `run` goes on to the next step when one is complete, and *)
(* reconcile leaves no checkpoint. A step invoked before its turn is not   *)
(* modelled.                                                               *)
OrderedSteps == <<"setup", "deploy-type", "profile.alice", "profile.bob", "send", "receive",
                  "respond", "ack-reclaim", "watch", "reconcile", "rotate.alice",
                  "verify-rotation">>
Reached(s) ==
    /\ s \notin disk.shared.steps
    /\ \E i \in DOMAIN OrderedSteps :
          /\ OrderedSteps[i] = s
          /\ \A j \in 1..(i - 1) : OrderedSteps[j] \in disk.shared.steps \cup {"reconcile"}

(* main and loadCtx: a fresh process has what the files hold.              *)
BeginStep ==
    /\ proc = Idle
    /\ \E s \in Steps : /\ Reached(s)
                        /\ proc' = [step |-> s, at |-> "start", file |-> "none"]
    /\ mem' = disk
    /\ UNCHANGED <<disk, txs, accounted, runFaults>>

(* A save ends after bob.json; saveIdentity and saveShared write one file. *)
OneFile == proc.step = "setup" \/ proc.at = "scanned"

WriteFile ==
    /\ proc.file # "none"
    /\ disk' = [disk EXCEPT ![proc.file] = mem[proc.file]]
    /\ proc' = IF OneFile \/ proc.file = "bob"
               THEN [proc EXCEPT !.file = "none"]
               ELSE [proc EXCEPT !.file = IF @ = "shared" THEN "alice" ELSE "bob"]
    /\ UNCHANGED <<mem, txs, accounted, runFaults>>

Done ==
    /\ proc.at = "done" /\ proc.file = "none"
    /\ Exit
    /\ UNCHANGED <<disk, txs, accounted, runFaults>>

-----------------------------------------------------------------------------
(* broadcastAndCheckpoint.                                                 *)

(* The broadcast that shared.json still waits for.                         *)
Resumable(label) == mem.shared.pending[label] # 0

(* A step that lacks what it requires throws; ack-reclaim asks later.      *)
CheckStep(label, ready) ==
    /\ RunAt(label, IF label = "ack-reclaim" THEN "acked" ELSE "start")
    /\ IF ~ready THEN Exit
       ELSE /\ RunGoto(IF Resumable(label) THEN "wait" ELSE "send")
            /\ UNCHANGED mem
    /\ UNCHANGED <<disk, txs, accounted, runFaults>>

(* Journal, sign, verify that the inputs are live, broadcast. The answer   *)
(* may be lost after the node took the transaction.                        *)
SendTx(label) ==
    /\ RunAt(label, "send") /\ Len(txs[label]) < MaxTxs
    /\ IF InPool(label) THEN Exit /\ UNCHANGED <<txs, runFaults>>
       ELSE /\ txs' = [txs EXCEPT ![label] = Append(@, "pool")]
            /\ \/ RunGoto("sent") /\ UNCHANGED <<mem, runFaults>>
               \/ Exit /\ RunFault
    /\ UNCHANGED <<disk, accounted>>

RecordPending(label) ==
    /\ RunAt(label, "sent")
    /\ mem' = [mem EXCEPT !.shared.pending[label] = Len(txs[label])]
    /\ SaveThen("wait")
    /\ UNCHANGED <<disk, txs, accounted, runFaults>>

(* waitForCommit throws at a rejection and at its deadline; the record of  *)
(* the broadcast stays.                                                    *)
WaitForCommit(label) ==
    /\ RunAt(label, "wait")
    /\ LET state == txs[label][mem.shared.pending[label]]
       IN  CASE state = "committed" -> RunGoto("finalize") /\ UNCHANGED <<mem, runFaults>>
             [] state = "dropped" -> Exit /\ UNCHANGED runFaults
             [] OTHER -> Exit /\ RunFault
    /\ UNCHANGED <<disk, txs, accounted>>

FinalizeTx(label, final) ==
    /\ RunAt(label, "finalize")
    /\ mem' = final
    /\ SaveThen("mark")
    /\ UNCHANGED <<disk, txs, accounted, runFaults>>

MarkStep(label) ==
    /\ RunAt(label, "mark")
    /\ mem' = [mem EXCEPT !.shared.steps = @ \cup {label}, !.shared.pending[label] = 0]
    /\ SaveThen("done")
    /\ UNCHANGED <<disk, txs, accounted, runFaults>>

BroadcastAndCheckpoint(label, ready, final) ==
    \/ CheckStep(label, ready) \/ SendTx(label) \/ RecordPending(label)
    \/ WaitForCommit(label) \/ FinalizeTx(label, final) \/ MarkStep(label)

-----------------------------------------------------------------------------
(* The steps with a transaction: what each requires of its state and of    *)
(* the chain before it builds or resumes anything, and what its finalize   *)
(* callback makes of the state.                                            *)

Paid(label) == [mem EXCEPT ![Payer(label)].fees = @ \cup {label}]

StepDeployType ==
    BroadcastAndCheckpoint("deploy-type", TRUE,
        [Paid("deploy-type") EXCEPT !.shared.deployed = TRUE])

CreateClientProfile(name, label) ==
    BroadcastAndCheckpoint(label, TRUE,
        [Paid(label) EXCEPT !.shared.profiles = @ \cup {name}, ![name].profile = TRUE])

StepProfiles ==
    CreateClientProfile("alice", "profile.alice") \/ CreateClientProfile("bob", "profile.bob")

StepSend ==
    BroadcastAndCheckpoint("send", mem.shared.profiles = Names /\ mem.shared.deployed,
        [Paid("send") EXCEPT !.shared.a2b = mem.shared.pending["send"],
                             !.alice.own = "published"])

StepRespond ==
    BroadcastAndCheckpoint("respond",
        mem.shared.profiles = Names /\ mem.shared.a2b \in mem.bob.got /\ mem.shared.deployed,
        [Paid("respond") EXCEPT !.shared.b2a = mem.shared.pending["respond"]])

(* The live cell is asked for before a pending broadcast is looked up.     *)
StepReclaim ==
    BroadcastAndCheckpoint("ack-reclaim", OriginalLive(mem.shared),
        [Paid("ack-reclaim") EXCEPT !.alice.own = "reclaimed"])

(* So is the live cell of the profile that is to be retired.               *)
StepRotate ==
    BroadcastAndCheckpoint("rotate.alice", Committed("rotate.alice") = {},
        [Paid("rotate.alice") EXCEPT !.shared.rotation = TRUE])

-----------------------------------------------------------------------------
(* The steps without a transaction.                                        *)

(* setup: once funded, a snapshot for each identity, then the checkpoint.  *)
Setup ==
    /\ \/ /\ RunAt("setup", "start")
          /\ mem' = [mem EXCEPT !.alice.before = <<BalanceSnapshot("alice")>>]
          /\ SaveIdentityThen("alice", "bob")
       \/ /\ RunAt("setup", "bob")
          /\ mem' = [mem EXCEPT !.bob.before = <<BalanceSnapshot("bob")>>]
          /\ SaveIdentityThen("bob", "mark")
       \/ /\ RunAt("setup", "mark")
          /\ mem' = [mem EXCEPT !.shared.steps = @ \cup {"setup"}]
          /\ SaveThen("done")
    /\ UNCHANGED <<disk, txs, accounted, runFaults>>

(* scanAndDecrypt for bob: every live cell not yet processed is recorded   *)
(* with its processing mark. The mapping's cell has to be among the cells  *)
(* of this very scan.                                                      *)
ScannedNew == IF Committed("ack-reclaim") = {} THEN Committed("send") \ mem.bob.processed
          ELSE Committed("send") \ (mem.bob.processed \cup {mem.shared.a2b})

Receive ==
    /\ \/ /\ RunAt("receive", "start")
          /\ IF mem.shared.a2b # 0 /\ "bob" \in mem.shared.profiles /\ ScannedNew # {}
             THEN /\ mem' = [mem EXCEPT !.bob.processed = @ \cup ScannedNew,
                                        !.bob.got = @ \cup ScannedNew]
                  /\ SaveIdentityThen("bob", IF mem.shared.a2b \in ScannedNew THEN "mark" ELSE "done")
             ELSE Exit
       \/ /\ RunAt("receive", "mark")
          /\ mem' = [mem EXCEPT !.shared.steps = @ \cup {"receive"}]
          /\ SaveThen("done")
    /\ UNCHANGED <<disk, txs, accounted, runFaults>>

(* The first half of ack-reclaim: alice's scan; the response of the        *)
(* mapping has to be among the cells of this very scan.                    *)
Answers == Committed("respond") \ mem.alice.processed

Acknowledge ==
    /\ \/ /\ RunAt("ack-reclaim", "start")
          /\ IF mem.alice.own \in {"acknowledged", "reclaimed"}
             THEN RunGoto("acked") /\ UNCHANGED mem
             ELSE /\ mem' = [mem EXCEPT !.alice.processed = @ \cup Answers,
                                        !.alice.got = @ \cup Answers]
                  /\ SaveIdentityThen("alice", IF mem.shared.b2a \in Answers THEN "scanned"
                                               ELSE "done")
       \/ /\ RunAt("ack-reclaim", "scanned")
          /\ mem' = [mem EXCEPT !.alice.own = "acknowledged"]
          /\ SaveThen("acked")
    /\ UNCHANGED <<disk, txs, accounted, runFaults>>

Watch ==
    /\ RunAt("watch", "start")
    /\ IF mem.shared.a2b # 0 /\ ~OriginalLive(mem.shared) /\ mem.shared.a2b \in mem.bob.got
       THEN /\ mem' = [mem EXCEPT !.bob.remote = TRUE, !.shared.steps = @ \cup {"watch"}]
            /\ SaveThen("done")
       ELSE Exit
    /\ UNCHANGED <<disk, txs, accounted, runFaults>>

(* verify-rotation: the link and the verdict are Rotation's subject.       *)
VerifyRotation ==
    /\ RunAt("verify-rotation", "start")
    /\ IF mem.shared.rotation
       THEN /\ mem' = [mem EXCEPT !.shared.steps = @ \cup {"verify-rotation"}]
            /\ SaveThen("done")
       ELSE Exit
    /\ UNCHANGED <<disk, txs, accounted, runFaults>>

-----------------------------------------------------------------------------
(* reconcile.                                                              *)

\* A plausible bug: only a surplus is drift.
CheckDelta_Flawed(expected, actual, margin) == actual - expected <= margin

CheckDelta(expected, actual, margin) ==
    LET drift == actual - expected IN -margin <= drift /\ drift <= margin

OneFeeMargin(fees) == IF fees = {} THEN 0 ELSE 1

(* What the state says is locked in protocol cells.                        *)
LockedCapacities(name) ==
    (IF name = "alice" THEN IF mem.shared.deployed THEN Capacity.contract ELSE 0
     ELSE Capacity.message)
    + (IF mem[name].profile THEN Capacity.profile ELSE 0)

ReconcileSide(name) ==
    LET me == mem[name]
        before == me.before[1]
        after == BalanceSnapshot(name)
        feeSum == Cardinality(me.fees)
        margin == OneFeeMargin(me.fees)
    IN  /\ CheckDelta(-(feeSum + LockedCapacities(name)),
                      after.spendable - before.spendable, margin)
        /\ CheckDelta(-feeSum, after.total - before.total, margin)

Reconcile ==
    /\ RunAt("reconcile", "start")
    /\ accounted' = \/ accounted
                    \/ /\ mem.shared.a2b # 0 /\ mem.shared.b2a # 0
                       /\ ~OriginalLive(mem.shared)
                       /\ mem.bob.remote /\ mem.shared.b2a \in mem.alice.got
                       /\ mem.alice.own = "reclaimed"
                       /\ \A n \in Names : mem[n].before # <<>> /\ ReconcileSide(n)
    /\ Exit
    /\ UNCHANGED <<disk, txs, runFaults>>

Die ==
    /\ proc # Idle /\ RunFault /\ Exit
    /\ UNCHANGED <<disk, txs, accounted>>

ClientNext ==
    \/ BeginStep \/ WriteFile \/ Done \/ Die
    \/ StepDeployType \/ StepProfiles \/ StepSend \/ StepRespond \/ StepReclaim \/ StepRotate
    \/ Setup \/ Receive \/ Acknowledge \/ Watch \/ VerifyRotation \/ Reconcile
    \/ TxLands \/ TxDropped

ClientSpec == ClientInit /\ [][ClientNext]_clientVars

-----------------------------------------------------------------------------
(* A reconcile that passes accounts for everything: every transaction of   *)
(* the exchange was committed exactly once since the snapshots, whatever   *)
(* was broadcast twice, lost, or recorded by a process that died. The      *)
(* margin hides one fee but never a cell (reconcile.ts:6-14,               *)
(* reconcile-math.ts:5-20).                                                *)
ReconcileIsSound ==
    accounted => \A l \in Labels \ {"rotate.alice"} : Made(l) = 1
=============================================================================
