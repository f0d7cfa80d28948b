-------------------------- MODULE PublicationProofs --------------------------
(***************************************************************************)
(* What is proved of Publication for every value of its constants: what a  *)
(* row, a record and a reservation may claim, that nothing but the latest  *)
(* record is in play, and that Publication implements OnceOnly.            *)
(*                                                                         *)
(* And what is proved of the screens that stand beside it (MCScreens): the *)
(* chat screen, for any number of texts, visits and taps; the bubble of an *)
(* image; and the own profile.                                             *)
(***************************************************************************)
EXTENDS MCScreens, MessageStatesProofs, FiniteSetTheorems, SequenceTheorems

USE NodeAssumption, PublicationAssumption

(* The states and labels an action names are in the sets TypeOK names.     *)
LEMMA Names ==
    /\ TxIds \in SUBSET Nat /\ NoTx \notin TxIds
    /\ \A t \in 1..MaxTx : t \in TxIds
    /\ {"queued", "encrypting", "building_transaction", "awaiting_signature",
        "submitting", "committed", "available_on_chain", "failed"} \subseteq OutgoingStates
BY DEF TxIds, NoTx, OutgoingStates

(* The node keeps its types whatever it does on its own.                   *)
LEMMA NodeTyped ==
    ASSUME NodeTypeOK, NEW t \in TxIds, NodeStep(t)
    PROVE  NodeTypeOK'
BY DEF NodeTypeOK, NodeStates, NodeStep, Commit, Reject, Forget, Deliver

(* The three ends of a sendTransaction keep the node's types.              *)
LEMMA SendTyped ==
    ASSUME NodeTypeOK, NEW t \in TxIds, UNCHANGED inputs,
           Sent(t) \/ SendRefused(t) \/ SendTimedOut(t)
    PROVE  NodeTypeOK'
BY DEF NodeTypeOK, NodeStates, Sent, SendRefused, SendTimedOut

-----------------------------------------------------------------------------
(***************************************************************************)
(* The inductive invariant.  First the part about which transaction is     *)
(* whose: a call past its build or its resume is at a transaction that     *)
(* carries its message, nothing is known of a transaction before it is     *)
(* built, and a journal names transactions of its own message.             *)
(***************************************************************************)
HasTx == {"status", "rebroadcast", "await", "awaitOwn", "abandon"}
           \cup JournalLabels \cup BroadcastLabels

CallsAreBound ==
    \A c \in Callers :
        /\ ~At(c, "idle") => call[c].m \in Messages
        /\ call[c].at \in HasTx =>
              call[c].t \in 1..built /\ owner[call[c].t] = call[c].m

BuiltHasOwner == \A t \in 1..built : owner[t] \in Messages

UnbuiltIsUnknown ==
    \A t \in TxIds : node[t] # "unknown" \/ t \in wire => t \in 1..built

LatestIsOwn ==
    \A m \in Messages :
        latest[m] # NoTx => latest[m] \in 1..built
                                 /\ owner[latest[m]] = m

Bound == TypeOK /\ CallsAreBound /\ BuiltHasOwner /\ UnbuiltIsUnknown /\ LatestIsOwn

(* The part about evidence: whoever is about to advance a row, or to count *)
(* its cell, knows of a committed transaction of that message.             *)
Settled == {"settle", "settleRef", "walkAvailable", "reserve"}

CallsHaveEvidence ==
    \A c \in Callers : call[c].at \in Settled => node[call[c].t] = "committed"

Unsettled == {"idle", "scan", "heal", "markRejected"}

RunsHaveEvidence ==
    \A w \in Workers :
        /\ run[w].at \notin Unsettled => run[w].m \in Messages /\ Cells(run[w].m) # {}
        /\ WAt(w, "markCommitted") => run[w].t \in TxIds /\ node[run[w].t] = "committed"

Evidence ==
    /\ JournalTruthful
    /\ CallsHaveEvidence
    /\ RunsHaveEvidence
    /\ SentIsOnChain
    /\ ReservedIsOnChain

(* The part about exclusion, for callers that do not overlap and requests  *)
(* that do not outlive their caller: a call that has adopted or recorded a *)
(* transaction is at the latest one; a call that builds afresh, or is      *)
(* about to abandon or to send again, has nothing of its message in play.  *)
OnLatest == HasTx \ {"submitting", "record"}
Fresh == BuildLabels \cup {"submitting", "record"}

CallersKeepApart ==
    \A c \in Callers :
        ~At(c, "idle") => \/ c \in Screens /\ call[c].m \in Texts
                          \/ c \in Sweeps /\ call[c].m \in Responses

CallsFollowJournal ==
    \A c \in Callers :
        /\ call[c].at \in OnLatest => call[c].t = latest[call[c].m]
        /\ call[c].at \in {"rebroadcast", "abandon"} => ~InPlay(call[c].t)
        /\ call[c].at \in Fresh => \A t \in CarriedBy(call[c].m) : ~InPlay(t)

Exclusive ==
    /\ wire = {}
    /\ CallersKeepApart
    /\ CallsFollowJournal
    /\ LiveIsLatest

-----------------------------------------------------------------------------
(* Shapes shared by the steps of a call.                                   *)

LEMMA TransitionTyped ==
    ASSUME row \in [Messages -> OutgoingStates], NEW m, NEW to \in OutgoingStates,
           Transition(m, to) \/ Refused(m, to)
    PROVE  row' \in [Messages -> OutgoingStates]
BY DEF Transition, Refused

LEMMA ReserveTyped ==
    ASSUME reserved \in [Messages -> 0..MaxReserved], NEW m, ReserveCapacity(m)
    PROVE  reserved' \in [Messages -> 0..MaxReserved]
<1>1. CASE m \in Messages
  BY <1>1 DEF ReserveCapacity, MaxReserved
<1>2. CASE m \notin Messages
  BY <1>2 DEF ReserveCapacity
<1> QED BY <1>1, <1>2

LEMMA SetTyped ==
    ASSUME call \in [Callers -> Calls], NEW c \in Callers, NEW l \in Labels,
           NEW m \in Messages \cup {NoMessage}, NEW t \in TxIds \cup {NoTx},
           NEW next \in 1..10, Set(c, l, m, t, next)
    PROVE  call' \in [Callers -> Calls]
BY DEF Set, Calls

LEMMA GotoTyped ==
    ASSUME call \in [Callers -> Calls], NEW c \in Callers, NEW l \in Labels, Goto(c, l)
    PROVE  call' \in [Callers -> Calls]
BY SetTyped DEF Goto, Calls

LEMMA GotoWithTyped ==
    ASSUME call \in [Callers -> Calls], NEW c \in Callers, NEW l \in Labels,
           NEW t \in TxIds \cup {NoTx}, GotoWith(c, l, t)
    PROVE  call' \in [Callers -> Calls]
BY SetTyped DEF GotoWith, Calls

LEMMA GotoWalkTyped ==
    ASSUME call \in [Callers -> Calls], NEW c \in Callers, NEW l \in Labels,
           NEW next \in 1..10, GotoWalk(c, l, next)
    PROVE  call' \in [Callers -> Calls]
BY SetTyped DEF GotoWalk, Calls

LEMMA FinishTyped ==
    ASSUME call \in [Callers -> Calls], NEW c \in Callers, Finish(c)
    PROVE  call' \in [Callers -> Calls]
BY DEF Finish, Calls, Idle, Labels

LEMMA PlanWalkTyped ==
    ASSUME call \in [Callers -> Calls], NEW c \in Callers, NEW l \in Labels, PlanWalk(c, l)
    PROVE  call' \in [Callers -> Calls]
<1> DEFINE here == PathIndex(row[call[c].m])
<1>1. here \in 0..9
  BY PathIndexRange
<1>2. (IF here = 0 THEN 2 ELSE here + 1) \in 1..10
  BY <1>1
<1>3. GotoWalk(c, l, IF here = 0 THEN 2 ELSE here + 1)
  BY DEF PlanWalk
<1> HIDE DEF here
<1> QED BY <1>2, <1>3, GotoWalkTyped

LEMMA StepToTyped ==
    ASSUME row \in [Messages -> OutgoingStates], call \in [Callers -> Calls],
           NEW c \in Callers, NEW to \in OutgoingStates, NEW l \in Labels, StepTo(c, to, l)
    PROVE  row' \in [Messages -> OutgoingStates] /\ call' \in [Callers -> Calls]
<1>1. "fail" \in Labels
  BY DEF Labels
<1> QED BY <1>1, TransitionTyped, GotoTyped DEF StepTo

LEMMA WalkTyped ==
    ASSUME row \in [Messages -> OutgoingStates], call \in [Callers -> Calls],
           NEW c \in Callers, NEW l \in Labels,
           NEW goal \in {"pending", "available_on_chain"},
           NEW after \in Labels, Walk(c, l, goal, after)
    PROVE  row' \in [Messages -> OutgoingStates] /\ call' \in [Callers -> Calls]
<1> DEFINE to == PublishPath[call[c].next]
<1>1. PathIndex(goal) \in 1..9 /\ call[c].next \in 1..10
  BY PathGoals DEF Calls
<1>2. CASE call[c].next > PathIndex(goal)
  BY <1>2, GotoTyped DEF Walk
<1>3. CASE ~(call[c].next > PathIndex(goal))
  <2>1. call[c].next \in 1..9 /\ call[c].next + 1 \in 1..10 /\ to \in OutgoingStates
    BY <1>1, <1>3, PathStates
  <2>2. \/ Transition(call[c].m, to) /\ GotoWalk(c, l, call[c].next + 1)
        \/ Refused(call[c].m, to) /\ Finish(c)
    BY <1>3 DEF Walk
  <2> HIDE DEF to
  <2> QED BY <2>1, <2>2, TransitionTyped, FinishTyped, GotoWalkTyped
<1> QED BY <1>2, <1>3

-----------------------------------------------------------------------------
(* Type correctness, step by step.  Only the bindings of the calls under   *)
(* way are needed: a step never indexes a table outside its domain.        *)
LEMMA CallStepTyped ==
    ASSUME TypeOK, NEW c \in Callers, NEW m \in Messages, CallStep(c, m)
    PROVE  TypeOK'
<1>1. row' \in [Messages -> OutgoingStates]
  BY TransitionTyped, Names DEF CallStep, Compose, Retry, SendResponse, TypeOK
<1>2. call' \in [Callers -> Calls]
  <2>1. "find" \in Labels
    BY DEF Labels
  <2>2. CASE Begin(c, m)
    BY <2>1, <2>2, SetTyped DEF Begin, TypeOK
  <2>3. CASE UNCHANGED call
    BY <2>3 DEF TypeOK
  <2> QED BY <2>2, <2>3 DEF CallStep, Compose, Retry, SendResponse
<1> QED BY <1>1, <1>2 DEF CallStep, TypeOK, NodeTypeOK, nodeVars, refVars, walletVars

LEMMA LocalStepTyped ==
    ASSUME TypeOK, CallsAreBound, NEW c \in Callers, LocalStep(c), UNCHANGED <<run, crashes>>
    PROVE  TypeOK'
<1>1. call' \in [Callers -> Calls]
  <2>1. call \in [Callers -> Calls]
    BY DEF TypeOK
  <2>2. CASE Find(c)
    <3>1. latest[call[c].m] \in TxIds \cup {NoTx}
      BY <2>2 DEF Find, At, CallsAreBound, TypeOK
    <3> QED BY <2>1, <2>2, <3>1, SetTyped DEF Find, Goto, GotoWith, Labels, ResumeLabels, BuildLabels, Calls
  <2>3. CASE Status(c)
    BY <2>1, <2>3, GotoTyped, PlanWalkTyped DEF Status, Labels, ResumeLabels, BroadcastLabels
  <2>4. CASE PreBroadcastError(c)
    BY <2>1, <2>4, GotoTyped DEF PreBroadcastError, Labels
  <2>5. CASE Monitor(c)
    BY <2>1, <2>5, GotoTyped, FinishTyped DEF Monitor, Labels, BroadcastLabels
  <2> QED BY <2>2, <2>3, <2>4, <2>5 DEF LocalStep
<1> QED BY <1>1 DEF LocalStep, TypeOK, NodeTypeOK, nodeVars, dbVars, refVars, walletVars

LEMMA RowStepTyped ==
    ASSUME TypeOK, NEW c \in Callers, RowStep(c), UNCHANGED <<run, crashes>>
    PROVE  TypeOK'
<1>1. row' \in [Messages -> OutgoingStates] /\ call' \in [Callers -> Calls]
  <2>1. row \in [Messages -> OutgoingStates] /\ call \in [Callers -> Calls]
    BY DEF TypeOK
  <2>2. CASE Encrypt(c) \/ Assemble(c) \/ Sign(c)
    BY <2>1, <2>2, StepToTyped, Names
       DEF Encrypt, Assemble, Sign, Labels, BuildLabels, JournalLabels
  <2>3. CASE MarkFailed(c)
    BY <2>1, <2>3, TransitionTyped, FinishTyped, Names DEF MarkFailed
  <2>4. CASE WalkPending(c) \/ WalkAvailable(c)
    BY <2>1, <2>4, WalkTyped DEF WalkPending, WalkAvailable, Labels, BroadcastLabels
  <2> QED BY <2>2, <2>3, <2>4 DEF RowStep
<1> QED BY <1>1 DEF RowStep, TypeOK, NodeTypeOK, nodeVars, refVars, walletVars

LEMMA RecordStepTyped ==
    ASSUME TypeOK, NEW c \in Callers, RecordStep(c), UNCHANGED <<run, crashes>>
    PROVE  TypeOK'
<1>1. call \in [Callers -> Calls] /\ call[c].t \in TxIds \cup {NoTx}
  BY DEF TypeOK, Calls
<1>2. call' \in [Callers -> Calls]
  <2>1. CASE Abandon(c) \/ Settle(c)
    BY <1>1, <2>1, GotoTyped, GotoWithTyped DEF Abandon, Settle, Labels, BuildLabels, BroadcastLabels
  <2>2. CASE Record(c) \/ SetChainRef(c) \/ SetEnvelope(c)
    BY <1>1, <2>2, GotoTyped DEF Record, SetChainRef, SetEnvelope, Labels, JournalLabels
  <2>3. CASE SettleRef(c)
    BY <1>1, <2>3, PlanWalkTyped DEF SettleRef, Labels, BroadcastLabels
  <2>4. CASE Reserve(c)
    BY <1>1, <2>4, FinishTyped DEF Reserve
  <2> QED BY <2>1, <2>2, <2>3, <2>4 DEF RecordStep
<1>3. journal' \in [TxIds -> JournalStates]
  BY DEF RecordStep, Abandon, Settle, Record, SetChainRef, SetEnvelope, SettleRef, Reserve,
         MarkState, JournalStates, TypeOK
<1>4. /\ latest' \in [Messages -> TxIds \cup {NoTx}]
      /\ chainRef' \in [Messages -> TxIds \cup {NoTx}]
      /\ envelope' \in [Messages -> TxIds \cup {NoTx}]
  BY <1>1 DEF RecordStep, Abandon, Settle, Record, SetChainRef, SetEnvelope, SettleRef,
         Reserve, refVars, TypeOK
<1>5. reserved' \in [Messages -> 0..MaxReserved]
  BY ReserveTyped DEF RecordStep, Abandon, Settle, Record, SetChainRef, SetEnvelope, SettleRef,
         Reserve, TypeOK
<1> QED BY <1>2, <1>3, <1>4, <1>5 DEF RecordStep, TypeOK, NodeTypeOK, nodeVars, walletVars

LEMMA NetworkStepTyped ==
    ASSUME TypeOK, CallsAreBound, NEW c \in Callers, NetworkStep(c), UNCHANGED <<run, crashes>>
    PROVE  TypeOK'
<1>1. call \in [Callers -> Calls] /\ NodeTypeOK
  BY DEF TypeOK
<1>2. call[c].t \in TxIds
  BY DEF NetworkStep, Rebroadcast, Await, Send, At, CallsAreBound, HasTx, JournalLabels,
         TypeOK, TxIds
<1>3. call' \in [Callers -> Calls]
  <2>0. /\ {"awaitOwn", "abandon", "fail", "walkPending"} \subseteq Labels
        /\ PathIndex("pending") \in 1..10
    BY PathGoals DEF Labels, ResumeLabels, BroadcastLabels
  <2>1. CASE Rebroadcast(c)
    BY <1>1, <2>0, <2>1, GotoTyped DEF Rebroadcast
  <2>2. CASE Await(c)
    BY <1>1, <2>0, <2>2, GotoTyped, PlanWalkTyped DEF Await
  <2>3. CASE Send(c)
    BY <1>1, <2>0, <2>3, GotoTyped, GotoWalkTyped DEF Send
  <2> QED BY <2>1, <2>2, <2>3 DEF NetworkStep
<1>4. NodeTypeOK'
  <2>1. CASE Rebroadcast(c) \/ Send(c)
    BY <1>1, <1>2, <2>1, SendTyped DEF NetworkStep, Rebroadcast, Send
  <2>2. CASE Await(c) /\ UNCHANGED <<node, wire>>
    BY <1>1, <2>2 DEF NetworkStep, NodeTypeOK
  <2> QED BY <2>1, <2>2 DEF NetworkStep
<1>5. tracked' \in SUBSET Coins
  BY <1>2 DEF NetworkStep, Rebroadcast, Await, Send, TypeOK, NodeTypeOK
<1> QED BY <1>3, <1>4, <1>5 DEF NetworkStep, TypeOK, dbVars, refVars

LEMMA BuildStepTyped ==
    ASSUME TypeOK, CallsAreBound, NEW c \in Callers, BuildStep(c), UNCHANGED <<run, crashes>>
    PROVE  TypeOK'
<1>1. built' \in 0..MaxTx /\ built + 1 \in TxIds
  BY DEF BuildStep, Build, TypeOK, TxIds
<1>2. call[c].m \in Messages
  BY DEF BuildStep, Build, At, CallsAreBound
<1>3. row' \in [Messages -> OutgoingStates]
  <2>1. "awaiting_signature" \in OutgoingStates
    BY DEF OutgoingStates
  <2> QED BY <2>1, TransitionTyped DEF BuildStep, Build, TypeOK
<1>4. call' \in [Callers -> Calls]
  <2>1. {"submitting", "fail"} \subseteq Labels
    BY DEF Labels, JournalLabels
  <2> QED BY <1>1, <2>1, GotoWithTyped DEF BuildStep, Build, TypeOK
<1>5. inputs' \in [TxIds -> SUBSET Coins]
  <2>1. PICK k \in Coins : inputs' = [inputs EXCEPT ![built + 1] = {k}]
    BY DEF BuildStep, Build, LiveCoins
  <2> QED BY <2>1 DEF TypeOK, NodeTypeOK
<1>6. owner' \in [TxIds -> Messages \cup {NoMessage}]
  BY <1>2 DEF BuildStep, Build, TypeOK
<1> QED BY <1>1, <1>3, <1>4, <1>5, <1>6 DEF BuildStep, TypeOK, NodeTypeOK, refVars

LEMMA WSetTyped ==
    ASSUME run \in [Workers -> Runs], NEW w \in Workers, NEW l \in RunLabels,
           NEW txs \in SUBSET TxIds, NEW picked \in SUBSET Listed,
           NEW m \in Messages \cup {NoMessage}, NEW t \in TxIds \cup {NoTx},
           WSet(w, l, txs, picked, m, t)
    PROVE  run' \in [Workers -> Runs]
BY DEF WSet, Runs

LEMMA WGotoTyped ==
    ASSUME run \in [Workers -> Runs], NEW w \in Workers, NEW l \in RunLabels, WGoto(w, l)
    PROVE  run' \in [Workers -> Runs]
BY WSetTyped DEF WGoto, Runs

LEMMA WFinishTyped ==
    ASSUME run \in [Workers -> Runs], NEW w \in Workers, WFinish(w)
    PROVE  run' \in [Workers -> Runs]
BY DEF WFinish, Runs, Asleep, RunLabels

LEMMA WorkerStepTyped ==
    ASSUME TypeOK, NEW w \in Workers, WorkerStep(w)
    PROVE  TypeOK'
<1>1. /\ run \in [Workers -> Runs] /\ row \in [Messages -> OutgoingStates]
      /\ journal \in [TxIds -> JournalStates] /\ reserved \in [Messages -> 0..MaxReserved]
      /\ owner \in [TxIds -> Messages \cup {NoMessage}]
      /\ run[w].txs \in SUBSET TxIds /\ run[w].rows \in SUBSET Listed
      /\ run[w].m \in Messages \cup {NoMessage}
  BY DEF TypeOK, Runs
<1>2. /\ RunLabels \ {"idle"} = {"scan", "markCommitted", "markRejected", "read", "commit",
             "avail", "reserve", "heal", "healCommit", "healAvail", "healReserve"}
      /\ {"committed", "available_on_chain"} \subseteq OutgoingStates
      /\ {"committed", "rejected"} \subseteq JournalStates
      /\ NoMessage \in Messages \cup {NoMessage} /\ NoTx \in TxIds \cup {NoTx}
  BY Names DEF RunLabels, JournalStates
<1>3. /\ run' \in [Workers -> Runs] /\ row' \in [Messages -> OutgoingStates]
      /\ journal' \in [TxIds -> JournalStates] /\ reserved' \in [Messages -> 0..MaxReserved]
  <2>1. CASE WorkerStart(w)
    BY <1>1, <1>2, <2>1, WSetTyped DEF WorkerStart
  <2>2. CASE WorkerAsk(w)
    <3>1. PICK t \in run[w].txs :
            \/ WSet(w, "markCommitted", run[w].txs \ {t}, {}, owner[t], t)
            \/ WSet(w, "markRejected", run[w].txs \ {t}, {}, NoMessage, t)
            \/ WSet(w, "scan", run[w].txs \ {t}, {}, NoMessage, NoTx)
      BY <2>2 DEF WorkerAsk
    <3>2. /\ owner[t] \in Messages \cup {NoMessage} /\ run[w].txs \ {t} \in SUBSET TxIds
          /\ t \in TxIds \cup {NoTx} /\ {} \in SUBSET Listed
      BY <1>1
    <3>3. run' \in [Workers -> Runs]
      BY <1>1, <1>2, <3>1, <3>2, WSetTyped
    <3> QED BY <1>1, <2>2, <3>3 DEF WorkerAsk
  <2>3. CASE WorkerRead(w)
    <3>1. PICK l \in {"commit", "scan"} : WGoto(w, l)
      BY <2>3 DEF WorkerRead
    <3> QED BY <1>1, <1>2, <2>3, <3>1, WGotoTyped DEF WorkerRead
  <2>9. CASE WorkerMark(w)
    <3>1. PICK l \in {"read", "scan"} : WGoto(w, l)
      BY <2>9 DEF WorkerMark
    <3>2. run' \in [Workers -> Runs]
      BY <1>1, <1>2, <3>1, WGotoTyped
    <3>3. journal' \in [TxIds -> JournalStates]
      BY <1>1, <1>2, <2>9 DEF WorkerMark, MarkState
    <3> QED BY <1>1, <2>9, <3>2, <3>3 DEF WorkerMark
  <2>10. CASE WorkerCommit(w)
    BY <1>1, <1>2, <2>10, WGotoTyped, WFinishTyped, TransitionTyped DEF WorkerCommit, Refused
  <2>4. CASE WorkerListStranded(w)
    <3>1. {s \in Listed : row[s[1]] = s[2]} \in SUBSET Listed
      OBVIOUS
    <3> QED BY <1>1, <1>2, <2>4, <3>1, WSetTyped DEF WorkerListStranded
  <2>5. CASE WorkerHeal(w)
    <3>1. PICK s \in run[w].rows : \E l \in {"heal", "healCommit", "healAvail"} :
            \E m \in {NoMessage, s[1]} : WSet(w, l, {}, run[w].rows \ {s}, m, NoTx)
      BY <2>5 DEF WorkerHeal
    <3>2. s[1] \in Messages /\ run[w].rows \ {s} \in SUBSET Listed
      BY <1>1 DEF Listed
    <3>3. run' \in [Workers -> Runs]
      BY <1>1, <1>2, <3>1, <3>2, WSetTyped
    <3> QED BY <1>1, <2>5, <3>3 DEF WorkerHeal
  <2>6. CASE WorkerAvail(w)
    BY <1>1, <1>2, <2>6, WGotoTyped, WFinishTyped, TransitionTyped DEF WorkerAvail
  <2>7. CASE WorkerReserve(w)
    <3>1. run' \in [Workers -> Runs]
      BY <1>1, <1>2, <2>7, WGotoTyped, WFinishTyped DEF WorkerReserve
    <3>2. reserved' \in [Messages -> 0..MaxReserved]
      BY <1>1, <2>7, ReserveTyped DEF WorkerReserve
    <3> QED BY <1>1, <2>7, <3>1, <3>2 DEF WorkerReserve
  <2>8. CASE WorkerDone(w)
    BY <1>1, <2>8, WFinishTyped DEF WorkerDone
  <2> QED BY <2>1, <2>2, <2>3, <2>4, <2>5, <2>6, <2>7, <2>8, <2>9, <2>10 DEF WorkerStep
<1> QED BY <1>3 DEF WorkerStep, TypeOK, NodeTypeOK, nodeVars, refVars, walletVars

LEMMA CrashTyped ==
    ASSUME TypeOK, CallsAreBound, Crash
    PROVE  TypeOK'
<1>1. crashes' \in 0..MaxCrashes
  BY DEF Crash, TypeOK
<1>2. wire' \in SUBSET TxIds
  <2>1. \A c \in Callers : At(c, "send") \/ At(c, "rebroadcast") => call[c].t \in TxIds
    BY DEF At, CallsAreBound, HasTx, JournalLabels, TypeOK, TxIds
  <2>2. PICK lost \in SUBSET {call[c].t : c \in {d \in Callers : At(d, "send") \/ At(d, "rebroadcast")}} :
            wire' = wire \cup lost
    BY DEF Crash
  <2>3. lost \in SUBSET TxIds
    BY <2>1
  <2> QED BY <2>2, <2>3 DEF TypeOK, NodeTypeOK
<1>3. call' \in [Callers -> Calls]
  BY DEF Crash, Idle, Calls, Labels
<1>4. run' \in [Workers -> Runs]
  BY DEF Crash, Asleep, Runs, RunLabels
<1>5. tracked' \in SUBSET Coins
  BY DEF Crash
<1> QED BY <1>1, <1>2, <1>3, <1>4, <1>5 DEF Crash, TypeOK, NodeTypeOK, dbVars, refVars

LEMMA WorkerErrorTyped ==
    ASSUME TypeOK, NEW w \in Workers, WorkerError(w)
    PROVE  TypeOK'
<1>1. run' \in [Workers -> Runs]
  BY WFinishTyped DEF WorkerError, TypeOK
<1>2. crashes' \in 0..MaxCrashes
  BY DEF WorkerError, TypeOK
<1> QED BY <1>1, <1>2 DEF WorkerError, TypeOK, NodeTypeOK, nodeVars, dbVars, refVars, walletVars

LEMMA NextTyped ==
    ASSUME TypeOK, CallsAreBound, [Next]_vars
    PROVE  TypeOK'
<1>1. CASE \E c \in Callers, m \in Messages : CallStep(c, m)
  BY <1>1, CallStepTyped
<1>2. CASE \E c \in Callers : PublishStep(c)
  BY <1>2, LocalStepTyped, RowStepTyped, RecordStepTyped, NetworkStepTyped, BuildStepTyped
     DEF PublishStep
<1>3. CASE \E w \in Workers : WorkerStep(w) \/ WorkerError(w)
  BY <1>3, WorkerStepTyped, WorkerErrorTyped
<1>4. CASE Crash
  BY <1>4, CrashTyped
<1>5. CASE Network
  BY <1>5, NodeTyped DEF Network, TypeOK, dbVars, refVars, walletVars
<1>6. CASE UNCHANGED vars
  BY <1>6 DEF vars, nodeVars, dbVars, refVars, walletVars, TypeOK, NodeTypeOK
<1> QED BY <1>1, <1>2, <1>3, <1>4, <1>5, <1>6 DEF Next

-----------------------------------------------------------------------------
(* The bindings, step by step.  A call that goes on keeps its message, and *)
(* its transaction is still one of that message; only Find and Build give  *)
(* it another.                                                             *)
LEMMA SetBound ==
    ASSUME TypeOK, CallsAreBound, UNCHANGED <<owner, built>>,
           NEW c \in Callers, NEW l, NEW m, NEW t, NEW next, Set(c, l, m, t, next),
           l # "idle" => m \in Messages,
           l \in HasTx => t \in 1..built /\ owner[t] = m
    PROVE  CallsAreBound'
BY DEF CallsAreBound, Set, At, TypeOK

LEMMA GotoBound ==
    ASSUME TypeOK, CallsAreBound, UNCHANGED <<owner, built>>,
           NEW c \in Callers, NEW l, NEW next, Goto(c, l) \/ GotoWalk(c, l, next),
           ~At(c, "idle"), l \in HasTx => call[c].at \in HasTx
    PROVE  CallsAreBound'
<1>1. /\ call[c].m \in Messages
      /\ l \in HasTx => call[c].t \in 1..built /\ owner[call[c].t] = call[c].m
  BY DEF CallsAreBound
<1> QED BY <1>1, SetBound DEF Goto, GotoWalk

LEMMA FinishBound ==
    ASSUME TypeOK, CallsAreBound, UNCHANGED <<owner, built>>, NEW c \in Callers, Finish(c)
    PROVE  CallsAreBound'
BY DEF CallsAreBound, Finish, Idle, At, TypeOK, HasTx, JournalLabels, BroadcastLabels

LEMMA PlanWalkBound ==
    ASSUME TypeOK, CallsAreBound, UNCHANGED <<owner, built>>,
           NEW c \in Callers, NEW l, PlanWalk(c, l), call[c].at \in HasTx
    PROVE  CallsAreBound'
<1>1. ~At(c, "idle")
  BY DEF At, HasTx, JournalLabels, BroadcastLabels
<1> QED BY <1>1, GotoBound DEF PlanWalk

(* The labels at which a call has a transaction, and those at which it has *)
(* none yet.                                                               *)
LEMMA LabelsWithTx ==
    /\ {"status", "rebroadcast", "await", "awaitOwn", "abandon", "submitting", "record",
        "chainRef", "envelope", "send", "walkPending", "monitor", "settle", "settleRef",
        "walkAvailable", "reserve"} = HasTx
    /\ {"idle", "find", "fail", "encrypting", "building_transaction",
        "awaiting_signature"} \cap HasTx = {}
BY DEF HasTx, JournalLabels, BroadcastLabels

(* What no step but a build, a record and the network can disturb.         *)
LEMMA OthersBound ==
    ASSUME BuiltHasOwner, UnbuiltIsUnknown, LatestIsOwn,
           UNCHANGED <<owner, built, node, wire, latest>>
    PROVE  BuiltHasOwner' /\ UnbuiltIsUnknown' /\ LatestIsOwn'
BY DEF BuiltHasOwner, UnbuiltIsUnknown, LatestIsOwn

LEMMA CallStepBound ==
    ASSUME Bound, NEW c \in Callers, NEW m \in Messages, CallStep(c, m)
    PROVE  Bound'
<1>1. CallsAreBound'
  <2>1. CASE Begin(c, m)
    BY <2>1, SetBound, LabelsWithTx DEF CallStep, Begin, walletVars, Bound
  <2>2. CASE UNCHANGED call
    BY <2>2 DEF CallStep, walletVars, Bound, CallsAreBound, At
  <2> QED BY <2>1, <2>2 DEF CallStep, Compose, Retry, SendResponse
<1> QED BY <1>1, CallStepTyped, OthersBound DEF CallStep, nodeVars, refVars, walletVars, Bound

LEMMA LocalStepBound ==
    ASSUME Bound, NEW c \in Callers, LocalStep(c), UNCHANGED <<run, crashes>>
    PROVE  Bound'
<1>1. TypeOK /\ CallsAreBound /\ UNCHANGED <<owner, built>>
  BY DEF LocalStep, walletVars, Bound
<1>2. CallsAreBound'
  <2>1. CASE Find(c)
    <3>1. ~At(c, "idle") /\ call[c].m \in Messages
      BY <1>1, <2>1 DEF Find, At, CallsAreBound
    <3>2. CASE latest[call[c].m] = NoTx
      BY <1>1, <2>1, <3>1, <3>2, GotoBound, LabelsWithTx DEF Find
    <3>3. CASE latest[call[c].m] # NoTx
      BY <1>1, <2>1, <3>1, <3>3, SetBound DEF Find, GotoWith, LatestIsOwn, Bound
    <3> QED BY <3>2, <3>3
  <2>2. CASE Status(c)
    BY <1>1, <2>2, GotoBound, PlanWalkBound, LabelsWithTx DEF Status, At
  <2>3. CASE PreBroadcastError(c)
    <3>1. ~At(c, "idle")
      BY <2>3 DEF PreBroadcastError, At, BuildLabels
    <3> QED BY <1>1, <2>3, <3>1, GotoBound, LabelsWithTx DEF PreBroadcastError
  <2>4. CASE Monitor(c)
    BY <1>1, <2>4, GotoBound, FinishBound, LabelsWithTx DEF Monitor, At
  <2> QED BY <2>1, <2>2, <2>3, <2>4 DEF LocalStep
<1> QED BY <1>2, LocalStepTyped, OthersBound
        DEF LocalStep, nodeVars, dbVars, refVars, walletVars, Bound

LEMMA RowStepBound ==
    ASSUME Bound, NEW c \in Callers, RowStep(c), UNCHANGED <<run, crashes>>
    PROVE  Bound'
<1>1. TypeOK /\ CallsAreBound /\ UNCHANGED <<owner, built>>
  BY DEF RowStep, walletVars, Bound
<1>2. CallsAreBound'
  <2>1. CASE Encrypt(c) \/ Assemble(c) \/ Sign(c)
    BY <1>1, <2>1, GotoBound, LabelsWithTx DEF Encrypt, Assemble, Sign, StepTo, At
  <2>2. CASE MarkFailed(c)
    BY <1>1, <2>2, FinishBound DEF MarkFailed
  <2>3. CASE WalkPending(c)
    BY <1>1, <2>3, GotoBound, FinishBound, LabelsWithTx DEF WalkPending, Walk, At
  <2>4. CASE WalkAvailable(c)
    BY <1>1, <2>4, GotoBound, FinishBound, LabelsWithTx DEF WalkAvailable, Walk, At
  <2> QED BY <2>1, <2>2, <2>3, <2>4 DEF RowStep
<1> QED BY <1>2, RowStepTyped, OthersBound DEF RowStep, nodeVars, refVars, walletVars, Bound

LEMMA RecordStepBound ==
    ASSUME Bound, NEW c \in Callers, RecordStep(c), UNCHANGED <<run, crashes>>
    PROVE  Bound'
<1>1. TypeOK /\ CallsAreBound /\ UNCHANGED <<owner, built, node, wire>>
  BY DEF RecordStep, nodeVars, walletVars, Bound
<1>2. CallsAreBound'
  <2>1. CASE Abandon(c)
    BY <1>1, <2>1, SetBound, LabelsWithTx DEF Abandon, GotoWith, At, CallsAreBound
  <2>2. CASE Settle(c)
    BY <1>1, <2>2, GotoBound, LabelsWithTx DEF Settle, At
  <2>3. CASE Record(c) \/ SetChainRef(c) \/ SetEnvelope(c)
    BY <1>1, <2>3, GotoBound, LabelsWithTx DEF Record, SetChainRef, SetEnvelope, At
  <2>4. CASE SettleRef(c)
    BY <1>1, <2>4, PlanWalkBound, LabelsWithTx DEF SettleRef, At
  <2>5. CASE Reserve(c)
    BY <1>1, <2>5, FinishBound DEF Reserve
  <2> QED BY <2>1, <2>2, <2>3, <2>4, <2>5 DEF RecordStep
<1>3. LatestIsOwn'
  <2>1. CASE Record(c)
    BY <1>1, <2>1, LabelsWithTx DEF Record, At, CallsAreBound, LatestIsOwn, TypeOK, Bound
  <2>2. CASE UNCHANGED latest
    BY <1>1, <2>2 DEF LatestIsOwn, Bound
  <2> QED BY <2>1, <2>2 DEF RecordStep, refVars
<1>4. BuiltHasOwner' /\ UnbuiltIsUnknown'
  BY <1>1 DEF BuiltHasOwner, UnbuiltIsUnknown, Bound
<1> QED BY <1>2, <1>3, <1>4, RecordStepTyped DEF Bound

LEMMA NetworkStepBound ==
    ASSUME Bound, NEW c \in Callers, NetworkStep(c), UNCHANGED <<run, crashes>>
    PROVE  Bound'
<1>1. TypeOK /\ CallsAreBound /\ UNCHANGED <<owner, built, latest>>
  BY DEF NetworkStep, dbVars, refVars, Bound
<1>2. call[c].at \in HasTx /\ ~At(c, "idle") /\ call[c].t \in 1..built
  BY <1>1, LabelsWithTx DEF NetworkStep, Rebroadcast, Await, Send, At, CallsAreBound
<1>3. CallsAreBound'
  <2>1. CASE Rebroadcast(c) \/ Send(c)
    BY <1>1, <1>2, <2>1, GotoBound DEF Rebroadcast, Send
  <2>2. CASE Await(c)
    BY <1>1, <1>2, <2>2, GotoBound, PlanWalkBound DEF Await
  <2> QED BY <2>1, <2>2 DEF NetworkStep
<1>4. UnbuiltIsUnknown'
  BY <1>1, <1>2 DEF NetworkStep, Rebroadcast, Await, Send, Sent, SendRefused, SendTimedOut,
         UnbuiltIsUnknown, Bound, TypeOK, NodeTypeOK
<1>5. BuiltHasOwner' /\ LatestIsOwn'
  BY <1>1 DEF BuiltHasOwner, LatestIsOwn, Bound
<1> QED BY <1>3, <1>4, <1>5, NetworkStepTyped DEF Bound

LEMMA BuildStepBound ==
    ASSUME Bound, NEW c \in Callers, BuildStep(c), UNCHANGED <<run, crashes>>
    PROVE  Bound'
<1> DEFINE t == built + 1
<1>1. /\ TypeOK /\ built \in Nat /\ t \in TxIds /\ t \in 1..t
      /\ 1..built \subseteq TxIds /\ 1..built \subseteq 1..t /\ t \notin 1..built
  BY DEF BuildStep, Build, TypeOK, TxIds, Bound
<1>2. built' = t /\ owner' = [owner EXCEPT ![t] = call[c].m] /\ call[c].m \in Messages
  BY DEF BuildStep, Build, At, CallsAreBound, Bound
<1>3. /\ \A u \in 1..built : owner'[u] = owner[u]
      /\ owner'[t] = call[c].m
  BY <1>1, <1>2 DEF TypeOK
<1>4. UNCHANGED <<node, wire, latest>>
  BY DEF BuildStep, refVars
<1>5. 1..built' = 1..built \cup {t}
  BY <1>1, <1>2
<1> HIDE DEF t
<1>6. GotoWith(c, "submitting", t) \/ GotoWith(c, "fail", t)
  BY DEF BuildStep, Build, t
<1>7. \A d \in Callers : d # c => call'[d] = call[d]
  BY <1>1, <1>6 DEF GotoWith, Set, TypeOK
<1>8. /\ call'[c].m = call[c].m /\ call'[c].t = t
      /\ call'[c].at \in {"submitting", "fail"}
  BY <1>1, <1>6 DEF GotoWith, Set, TypeOK
<1>9. CallsAreBound'
  <2> SUFFICES ASSUME NEW d \in Callers
               PROVE  /\ call'[d].at # "idle" => call'[d].m \in Messages
                      /\ call'[d].at \in HasTx =>
                            call'[d].t \in 1..built' /\ owner'[call'[d].t] = call'[d].m
    BY DEF CallsAreBound, At
  <2>1. CASE d = c
    BY <1>2, <1>3, <1>5, <1>8, <2>1
  <2>2. CASE d # c
    BY <1>3, <1>5, <1>7, <2>2 DEF CallsAreBound, At, Bound
  <2> QED BY <2>1, <2>2
<1>10. BuiltHasOwner'
  BY <1>2, <1>3, <1>5 DEF BuiltHasOwner, Bound
<1>11. UnbuiltIsUnknown'
  BY <1>4, <1>5 DEF UnbuiltIsUnknown, Bound
<1>12. LatestIsOwn'
  BY <1>3, <1>4, <1>5 DEF LatestIsOwn, Bound
<1> QED BY <1>9, <1>10, <1>11, <1>12, BuildStepTyped DEF Bound

LEMMA NextBound ==
    ASSUME Bound, [Next]_vars
    PROVE  Bound'
<1>1. CASE \E c \in Callers, m \in Messages : CallStep(c, m)
  BY <1>1, CallStepBound
<1>2. CASE \E c \in Callers : PublishStep(c)
  BY <1>2, LocalStepBound, RowStepBound, RecordStepBound, NetworkStepBound, BuildStepBound
     DEF PublishStep
<1>3. CASE \E w \in Workers : WorkerStep(w) \/ WorkerError(w)
  <2>1. UNCHANGED call /\ UNCHANGED <<owner, built, node, wire, latest>>
    BY <1>3 DEF WorkerStep, WorkerError, nodeVars, dbVars, refVars, walletVars
  <2>2. CallsAreBound'
    BY <2>1 DEF CallsAreBound, At, Bound
  <2> QED BY <1>3, <2>1, <2>2, WorkerStepTyped, WorkerErrorTyped, OthersBound DEF Bound
<1>4. CASE Crash
  <2>1. CallsAreBound'
    BY <1>4 DEF Crash, CallsAreBound, At, Idle, HasTx, JournalLabels, BroadcastLabels
  <2>2. PICK lost \in SUBSET {call[c].t : c \in {d \in Callers : At(d, "send") \/ At(d, "rebroadcast")}} :
            wire' = wire \cup lost
    BY <1>4 DEF Crash
  <2>3. lost \subseteq 1..built
    BY <2>2, LabelsWithTx DEF At, CallsAreBound, Bound
  <2>4. UnbuiltIsUnknown'
    BY <1>4, <2>2, <2>3 DEF Crash, UnbuiltIsUnknown, Bound
  <2>5. BuiltHasOwner' /\ LatestIsOwn'
    BY <1>4 DEF Crash, dbVars, refVars, BuiltHasOwner, LatestIsOwn, Bound
  <2> QED BY <1>4, <2>1, <2>4, <2>5, CrashTyped DEF Bound
<1>5. CASE Network
  <2>1. UNCHANGED <<call, owner, built, latest>>
    BY <1>5 DEF Network, dbVars, refVars, walletVars
  <2>2. CallsAreBound' /\ BuiltHasOwner' /\ LatestIsOwn'
    BY <2>1 DEF CallsAreBound, At, BuiltHasOwner, LatestIsOwn, Bound
  <2>3. UnbuiltIsUnknown'
    BY <1>5, <2>1 DEF Network, NodeStep, Commit, Reject, Forget, Deliver, UnbuiltIsUnknown,
           Bound, TypeOK, NodeTypeOK
  <2>4. TypeOK'
    BY <1>5, NextTyped DEF Next, Bound
  <2> QED BY <2>2, <2>3, <2>4 DEF Bound
<1>6. CASE UNCHANGED vars
  BY <1>6, NextTyped, OthersBound
     DEF vars, nodeVars, dbVars, refVars, walletVars, Bound, CallsAreBound, At
<1> QED BY <1>1, <1>2, <1>3, <1>4, <1>5, <1>6 DEF Next

LEMMA InitBound ==
    ASSUME Init
    PROVE  Bound
<1>1. TypeOK
  BY Names DEF Init, NodeInit, TypeOK, NodeTypeOK, NodeStates, JournalStates, Idle, Calls, Labels,
         Asleep, Runs, RunLabels, OutgoingStates, MaxReserved, TxIds
<1>2. CallsAreBound /\ BuiltHasOwner /\ UnbuiltIsUnknown /\ LatestIsOwn
  BY DEF Init, NodeInit, CallsAreBound, BuiltHasOwner, UnbuiltIsUnknown, LatestIsOwn, At, Idle,
         HasTx, JournalLabels, BroadcastLabels, NoTx
<1> QED BY <1>1, <1>2 DEF Bound

(* Every variable keeps its type: no interleaving, crash or late request   *)
(* drives a row, a journal record or a walk out of the states the tables   *)
(* are declared with, and every call past its build holds a transaction of *)
(* its own message.                                                        *)
THEOREM TypeCorrect == Spec => []TypeOK
<1>1. Init => Bound
  BY InitBound
<1>2. Bound /\ [Next]_vars => Bound'
  BY NextBound
<1>3. Bound => TypeOK
  BY DEF Bound
<1> QED BY <1>1, <1>2, <1>3, PTL DEF Spec

-----------------------------------------------------------------------------
(* The evidence.  A committed transaction stays committed and stays the    *)
(* one of its message, so what has a cell keeps it.                        *)
CommitsStay ==
    \A t \in TxIds : node[t] = "committed" => node'[t] = "committed" /\ owner'[t] = owner[t]

LEMMA CommitsStayNext ==
    ASSUME Bound, [Next]_vars
    PROVE  CommitsStay
<1>1. CASE \E c \in Callers : BuildStep(c)
  <2>1. PICK m : owner' = [owner EXCEPT ![built + 1] = m] /\ UNCHANGED node
    BY <1>1 DEF BuildStep, Build
  <2>2. built + 1 \notin 1..built
    BY DEF Bound, TypeOK
  <2> QED BY <2>1, <2>2 DEF CommitsStay, Bound, UnbuiltIsUnknown, TypeOK
<1>2. CASE \E c \in Callers : NetworkStep(c)
  BY <1>2 DEF NetworkStep, Rebroadcast, Await, Send, Sent, SendRefused, SendTimedOut,
         Accepted, InPlay, CommitsStay, Bound, TypeOK, NodeTypeOK
<1>3. CASE Network
  BY <1>3 DEF Network, walletVars, NodeStep, Commit, Reject, Forget, Deliver, Accepted, InPlay,
         CommitsStay, Bound, TypeOK, NodeTypeOK
<1>4. CASE UNCHANGED <<node, owner>>
  BY <1>4 DEF CommitsStay
<1>5. \/ \E c \in Callers : BuildStep(c) \/ NetworkStep(c)
      \/ Network
      \/ UNCHANGED <<node, owner>>
  BY DEF Next, CallStep, PublishStep, LocalStep, RowStep, RecordStep, WorkerStep, WorkerError,
         Crash, vars, nodeVars, walletVars
<1> QED BY <1>1, <1>2, <1>3, <1>4, <1>5

LEMMA CellsStay ==
    ASSUME CommitsStay
    PROVE  \A m : Cells(m) \subseteq Cells(m)'
BY DEF CommitsStay, Cells, CarriedBy

(* A move of one row is evident if it is not to a sent state, or if the    *)
(* message has a cell.                                                     *)
LEMMA MoveIsEvident ==
    ASSUME SentIsOnChain, CommitsStay, TypeOK, NEW m, NEW to,
           Transition(m, to) \/ UNCHANGED row,
           to \in {"committed", "available_on_chain"} => Cells(m) # {}
    PROVE  SentIsOnChain'
<1> SUFFICES ASSUME NEW n \in Messages, ShownAsSent(n)'
             PROVE  Cells(n) # {}
  BY CellsStay DEF SentIsOnChain
<1> QED BY DEF SentIsOnChain, ShownAsSent, Transition, TypeOK

LEMMA UnmovedIsEvident ==
    ASSUME SentIsOnChain, CommitsStay, UNCHANGED row
    PROVE  SentIsOnChain'
BY CellsStay DEF SentIsOnChain, ShownAsSent

LEMMA ReserveIsEvident ==
    ASSUME ReservedIsOnChain, CommitsStay, TypeOK, NEW m,
           \/ ReserveCapacity(m) /\ Cells(m) # {}
           \/ UNCHANGED reserved
    PROVE  ReservedIsOnChain'
<1> SUFFICES ASSUME NEW n \in Messages, reserved'[n] > 0
             PROVE  Cells(n) # {}
  BY CellsStay DEF ReservedIsOnChain
<1> QED BY DEF ReservedIsOnChain, ReserveCapacity, TypeOK

LEMMA MarkIsTruthful ==
    ASSUME JournalTruthful, CommitsStay, TypeOK, NEW t, NEW state,
           MarkState(t, state) \/ UNCHANGED journal,
           state = "committed" => node[t] = "committed"
    PROVE  JournalTruthful'
BY DEF JournalTruthful, CommitsStay, MarkState, TypeOK

LEMMA RunsKeepEvidence ==
    ASSUME RunsHaveEvidence, CommitsStay, UNCHANGED run
    PROVE  RunsHaveEvidence'
BY CellsStay DEF RunsHaveEvidence, CommitsStay, WAt

LEMMA CallsKeepEvidence ==
    ASSUME CallsHaveEvidence, CallsAreBound, CommitsStay, TypeOK, UNCHANGED call
    PROVE  CallsHaveEvidence'
<1>1. \A c \in Callers : call[c].at \in Settled => call[c].t \in TxIds
  BY LabelsWithTx DEF Settled, CallsAreBound, TypeOK, TxIds
<1> QED BY <1>1 DEF CallsHaveEvidence, CommitsStay

(* A call that moves on needs evidence for where it goes.                  *)
LEMMA SetHasEvidence ==
    ASSUME CallsHaveEvidence, CallsAreBound, CommitsStay, TypeOK, NEW c \in Callers,
           NEW l, NEW m, NEW t, NEW next, Set(c, l, m, t, next),
           l \in Settled => t \in TxIds /\ node[t] = "committed"
    PROVE  CallsHaveEvidence'
<1>1. \A d \in Callers : call[d].at \in Settled => call[d].t \in TxIds
  BY LabelsWithTx DEF Settled, CallsAreBound, TypeOK, TxIds
<1>2. \A d \in Callers : d # c => call'[d] = call[d]
  BY DEF Set, TypeOK
<1>3. call'[c].at = l /\ call'[c].t = t
  BY DEF Set, TypeOK
<1> QED BY <1>1, <1>2, <1>3 DEF CallsHaveEvidence, CommitsStay

LEMMA GotoHasEvidence ==
    ASSUME CallsHaveEvidence, CallsAreBound, CommitsStay, TypeOK, NEW c \in Callers,
           NEW l, NEW next, Goto(c, l) \/ GotoWalk(c, l, next),
           l \in Settled => call[c].at \in HasTx /\ node[call[c].t] = "committed"
    PROVE  CallsHaveEvidence'
<1>1. call[c].at \in HasTx => call[c].t \in TxIds
  BY DEF CallsAreBound, TypeOK, TxIds
<1> QED BY <1>1, SetHasEvidence DEF Goto, GotoWalk

LEMMA FinishHasEvidence ==
    ASSUME CallsHaveEvidence, CallsAreBound, CommitsStay, TypeOK, NEW c \in Callers, Finish(c)
    PROVE  CallsHaveEvidence'
BY SetHasEvidence DEF Finish, Set, Idle, Settled

(* The labels whose next step rests on a commit the call has seen.         *)
LEMMA SettledLabels ==
    /\ Settled = {"settle", "settleRef", "walkAvailable", "reserve"}
    /\ Settled \subseteq HasTx
BY LabelsWithTx DEF Settled

LEMMA CallEvidence ==
    ASSUME Bound, Evidence, NEW c \in Callers, call[c].at \in Settled
    PROVE  /\ call[c].at \in HasTx /\ call[c].t \in TxIds /\ node[call[c].t] = "committed"
           /\ Cells(call[c].m) # {}
<1>1. call[c].at \in HasTx /\ call[c].t \in TxIds /\ owner[call[c].t] = call[c].m
  BY SettledLabels DEF Bound, CallsAreBound, TypeOK, TxIds
<1>2. node[call[c].t] = "committed"
  BY DEF Evidence, CallsHaveEvidence
<1> QED BY <1>1, <1>2 DEF Cells, CarriedBy

LEMMA PublishStepEvident ==
    ASSUME Bound, Evidence, CommitsStay, NEW c \in Callers, PublishStep(c)
    PROVE  Evidence'
<1>1. /\ TypeOK /\ CallsAreBound /\ JournalTruthful /\ CallsHaveEvidence
      /\ RunsHaveEvidence /\ SentIsOnChain /\ ReservedIsOnChain
  BY DEF Bound, Evidence
<1>2. RunsHaveEvidence'
  BY <1>1, RunsKeepEvidence DEF PublishStep
<1>3. CASE LocalStep(c)
  <2>1. UNCHANGED <<row, journal, reserved>>
    BY <1>3 DEF LocalStep, dbVars
  <2>2. CASE Find(c) \/ PreBroadcastError(c)
    <3>1. CallsHaveEvidence'
      BY <1>1, <2>2, SetHasEvidence, GotoHasEvidence, SettledLabels
         DEF Find, GotoWith, PreBroadcastError
    <3> QED BY <1>1, <1>2, <2>1, <3>1, UnmovedIsEvident, ReserveIsEvident, MarkIsTruthful
            DEF Evidence
  <2>3. CASE Status(c)
    <3>1. CallsHaveEvidence'
      BY <1>1, <2>3, GotoHasEvidence, SettledLabels DEF Status, PlanWalk
    <3> QED BY <1>1, <1>2, <2>1, <3>1, UnmovedIsEvident, ReserveIsEvident, MarkIsTruthful
            DEF Evidence
  <2>4. CASE Monitor(c)
    <3>1. CallsHaveEvidence'
      BY <1>1, <2>4, GotoHasEvidence, FinishHasEvidence, LabelsWithTx DEF Monitor, At
    <3> QED BY <1>1, <1>2, <2>1, <3>1, UnmovedIsEvident, ReserveIsEvident, MarkIsTruthful
            DEF Evidence
  <2> QED BY <1>3, <2>2, <2>3, <2>4 DEF LocalStep
<1>4. CASE RowStep(c)
  <2>1. UNCHANGED <<journal, reserved>>
    BY <1>4 DEF RowStep
  <2>2. JournalTruthful' /\ ReservedIsOnChain'
    BY <1>1, <2>1, ReserveIsEvident, MarkIsTruthful
  <2>3. CASE Encrypt(c) \/ Assemble(c) \/ Sign(c)
    <3>1. CallsHaveEvidence'
      BY <1>1, <2>3, GotoHasEvidence, SettledLabels DEF Encrypt, Assemble, Sign, StepTo
    <3>2. SentIsOnChain'
      BY <1>1, <2>3, MoveIsEvident DEF Encrypt, Assemble, Sign, StepTo, Refused
    <3> QED BY <1>2, <2>2, <3>1, <3>2 DEF Evidence
  <2>4. CASE MarkFailed(c)
    <3>1. CallsHaveEvidence'
      BY <1>1, <2>4, FinishHasEvidence DEF MarkFailed
    <3>2. SentIsOnChain'
      BY <1>1, <2>4, MoveIsEvident DEF MarkFailed, Refused
    <3> QED BY <1>2, <2>2, <3>1, <3>2 DEF Evidence
  <2>5. CASE WalkPending(c)
    <3>1. CallsHaveEvidence'
      BY <1>1, <2>5, GotoHasEvidence, FinishHasEvidence, SettledLabels DEF WalkPending, Walk
    <3>2. CASE call[c].next > PathIndex("pending")
      BY <1>1, <1>2, <2>2, <2>5, <3>1, <3>2, UnmovedIsEvident DEF WalkPending, Walk, Evidence
    <3>3. CASE ~(call[c].next > PathIndex("pending"))
      <4>1. call[c].next \in 1..7
        BY <1>1, <3>3, PathGoals DEF TypeOK, Calls
      <4>2. PublishPath[call[c].next] \notin {"committed", "available_on_chain"}
        BY <4>1, PathStates
      <4>3. SentIsOnChain'
        BY <1>1, <2>5, <3>3, <4>2, MoveIsEvident DEF WalkPending, Walk, Refused
      <4> QED BY <1>2, <2>2, <3>1, <4>3 DEF Evidence
    <3> QED BY <3>2, <3>3
  <2>6. CASE WalkAvailable(c)
    <3>1. call[c].at \in Settled
      BY <2>6, SettledLabels DEF WalkAvailable, Walk, At
    <3>2. /\ call[c].at \in HasTx /\ node[call[c].t] = "committed"
          /\ Cells(call[c].m) # {}
      BY <3>1, CallEvidence
    <3>3. CallsHaveEvidence'
      BY <1>1, <2>6, <3>2, GotoHasEvidence, FinishHasEvidence DEF WalkAvailable, Walk
    <3>4. SentIsOnChain'
      BY <1>1, <2>6, <3>2, MoveIsEvident DEF WalkAvailable, Walk, Refused
    <3> QED BY <1>2, <2>2, <3>3, <3>4 DEF Evidence
  <2> QED BY <1>4, <2>3, <2>4, <2>5, <2>6 DEF RowStep
<1>5. CASE RecordStep(c)
  <2>1. SentIsOnChain'
    BY <1>1, <1>5, UnmovedIsEvident DEF RecordStep
  <2>2. CASE Abandon(c) \/ Record(c) \/ SetChainRef(c) \/ SetEnvelope(c)
    <3>1. CallsHaveEvidence'
      BY <1>1, <2>2, SetHasEvidence, GotoHasEvidence, SettledLabels
         DEF Abandon, GotoWith, Record, SetChainRef, SetEnvelope
    <3>2. JournalTruthful' /\ ReservedIsOnChain'
      BY <1>1, <1>5, <2>2, MarkIsTruthful, ReserveIsEvident
         DEF RecordStep, Abandon, Record, Settle, SetChainRef, SettleRef, SetEnvelope, Reserve, At
    <3> QED BY <1>2, <2>1, <3>1, <3>2 DEF Evidence
  <2>3. CASE Settle(c) \/ SettleRef(c) \/ Reserve(c)
    <3>1. call[c].at \in Settled
      BY <2>3, SettledLabels DEF Settle, SettleRef, Reserve, At
    <3>2. /\ call[c].at \in HasTx /\ node[call[c].t] = "committed"
          /\ Cells(call[c].m) # {}
      BY <3>1, CallEvidence
    <3>3. CallsHaveEvidence'
      BY <1>1, <2>3, <3>2, GotoHasEvidence, FinishHasEvidence
         DEF Settle, SettleRef, PlanWalk, Reserve
    <3>4. JournalTruthful'
      BY <1>1, <1>5, <2>3, <3>2, MarkIsTruthful
         DEF RecordStep, Abandon, Record, Settle, SetChainRef, SettleRef, SetEnvelope, Reserve, At
    <3>5. ReservedIsOnChain'
      BY <1>1, <1>5, <2>3, <3>2, ReserveIsEvident
         DEF RecordStep, Abandon, Record, Settle, SetChainRef, SettleRef, SetEnvelope, Reserve, At
    <3> QED BY <1>2, <2>1, <3>3, <3>4, <3>5 DEF Evidence
  <2> QED BY <1>5, <2>2, <2>3 DEF RecordStep
<1>6. CASE NetworkStep(c)
  <2>1. UNCHANGED <<row, journal, reserved>>
    BY <1>6 DEF NetworkStep, dbVars
  <2>2. CallsHaveEvidence'
    BY <1>1, <1>6, GotoHasEvidence, SettledLabels
       DEF NetworkStep, Rebroadcast, Await, Send, PlanWalk
  <2> QED BY <1>1, <1>2, <2>1, <2>2, UnmovedIsEvident, ReserveIsEvident, MarkIsTruthful
          DEF Evidence
<1>7. CASE BuildStep(c)
  <2>1. UNCHANGED <<journal, reserved>>
    BY <1>7 DEF BuildStep
  <2>2. CallsHaveEvidence'
    BY <1>1, <1>7, SetHasEvidence, SettledLabels DEF BuildStep, Build, GotoWith
  <2>3. SentIsOnChain'
    BY <1>1, <1>7, MoveIsEvident DEF BuildStep, Build, Refused
  <2> QED BY <1>1, <1>2, <2>1, <2>2, <2>3, ReserveIsEvident, MarkIsTruthful DEF Evidence
<1> QED BY <1>3, <1>4, <1>5, <1>6, <1>7 DEF PublishStep

(* The worker: the record it settles is one it has just seen committed,    *)
(* the row it heals one whose latest record the journal calls committed.   *)
LEMMA WSetHasEvidence ==
    ASSUME RunsHaveEvidence, CommitsStay, TypeOK, NEW w \in Workers,
           NEW l, NEW txs, NEW picked, NEW m, NEW t, WSet(w, l, txs, picked, m, t),
           \/ l \in Unsettled
           \/ m \in Messages /\ Cells(m) # {},
           l = "markCommitted" => t \in TxIds /\ node[t] = "committed"
    PROVE  RunsHaveEvidence'
<1>1. \A v \in Workers : v # w => run'[v] = run[v]
  BY DEF WSet, TypeOK
<1>2. run'[w].at = l /\ run'[w].m = m /\ run'[w].t = t
  BY DEF WSet, TypeOK
<1> QED BY <1>1, <1>2, CellsStay DEF RunsHaveEvidence, CommitsStay, WAt

LEMMA WGotoHasEvidence ==
    ASSUME RunsHaveEvidence, CommitsStay, TypeOK, NEW w \in Workers, NEW l,
           WGoto(w, l) \/ WFinish(w), l # "markCommitted",
           l \in Unsettled \/ run[w].at \notin Unsettled
    PROVE  RunsHaveEvidence'
<1>1. CASE WGoto(w, l)
  BY <1>1, WSetHasEvidence DEF WGoto, RunsHaveEvidence
<1>2. CASE WFinish(w)
  <2>1. WSet(w, "idle", {}, {}, NoMessage, NoTx)
    BY <1>2 DEF WFinish, WSet, Asleep
  <2> QED BY <2>1, WSetHasEvidence DEF Unsettled
<1> QED BY <1>1, <1>2

(* A record the heal may act on is a cell of its message.                  *)
LEMMA LatestIsACell ==
    ASSUME TypeOK, LatestIsOwn, JournalTruthful, NEW m \in Messages, JournalCommitted(m)
    PROVE  Cells(m) # {}
<1>1. latest[m] \in TxIds /\ owner[latest[m]] = m
  BY DEF JournalCommitted, LatestIsOwn, TypeOK, TxIds
<1> QED BY <1>1 DEF JournalCommitted, JournalTruthful, Cells, CarriedBy

LEMMA WorkerStepEvident ==
    ASSUME Bound, Evidence, CommitsStay, NEW w \in Workers, WorkerStep(w)
    PROVE  Evidence'
<1>1. /\ TypeOK /\ CallsAreBound /\ JournalTruthful /\ CallsHaveEvidence
      /\ RunsHaveEvidence /\ SentIsOnChain /\ ReservedIsOnChain
      /\ run[w].txs \in SUBSET TxIds /\ run[w].rows \in SUBSET Listed
  BY DEF Bound, Evidence, TypeOK, Runs
<1>2. CallsHaveEvidence'
  BY <1>1, CallsKeepEvidence DEF WorkerStep
<1>3. run[w].at \notin Unsettled => run[w].m \in Messages /\ Cells(run[w].m) # {}
  BY <1>1 DEF RunsHaveEvidence
<1>4. CASE UNCHANGED <<row, journal, reserved>> /\ RunsHaveEvidence'
  BY <1>1, <1>2, <1>4, UnmovedIsEvident, ReserveIsEvident, MarkIsTruthful DEF Evidence
<1>5. CASE WorkerStart(w)
  BY <1>1, <1>4, <1>5, WSetHasEvidence DEF WorkerStart, Unsettled
<1>6. CASE WorkerListStranded(w)
  BY <1>1, <1>4, <1>6, WSetHasEvidence DEF WorkerListStranded, Unsettled
<1>7. CASE WorkerDone(w)
  BY <1>1, <1>4, <1>7, WGotoHasEvidence DEF WorkerDone, WAt, Unsettled
<1>8. CASE WorkerAsk(w)
  <2>1. PICK t \in run[w].txs :
          \/ /\ node[t] = "committed"
             /\ WSet(w, "markCommitted", run[w].txs \ {t}, {}, owner[t], t)
          \/ WSet(w, "markRejected", run[w].txs \ {t}, {}, NoMessage, t)
          \/ WSet(w, "scan", run[w].txs \ {t}, {}, NoMessage, NoTx)
    BY <1>8 DEF WorkerAsk
  <2>2. t \in TxIds
    BY <1>1
  <2>4. node[t] = "committed" => owner[t] \in Messages /\ Cells(owner[t]) # {}
    BY <2>2 DEF Bound, UnbuiltIsUnknown, BuiltHasOwner, Cells, CarriedBy
  <2>5. RunsHaveEvidence'
    BY <1>1, <2>1, <2>2, <2>4, WSetHasEvidence DEF Unsettled
  <2> QED BY <1>4, <1>8, <2>5 DEF WorkerAsk
<1>13. CASE WorkerMark(w)
  <2>1. JournalTruthful'
    BY <1>1, <1>13, MarkIsTruthful DEF WorkerMark, RunsHaveEvidence
  <2>2. CASE WAt(w, "markCommitted")
    <3>1. WGoto(w, "read") /\ run[w].at \notin Unsettled
      BY <1>13, <2>2 DEF WorkerMark, WAt, Unsettled
    <3> QED BY <1>1, <1>2, <1>13, <2>1, <3>1, WGotoHasEvidence, UnmovedIsEvident, ReserveIsEvident
            DEF WorkerMark, Evidence
  <2>3. CASE WAt(w, "markRejected")
    <3>1. WGoto(w, "scan") /\ "scan" \in Unsettled
      BY <1>13, <2>3 DEF WorkerMark, WAt, Unsettled
    <3> QED BY <1>1, <1>2, <1>13, <2>1, <3>1, WGotoHasEvidence, UnmovedIsEvident, ReserveIsEvident
            DEF WorkerMark, Evidence
  <2> QED BY <1>13, <2>2, <2>3 DEF WorkerMark
<1>9. CASE WorkerRead(w)
  <2>1. PICK l \in {"commit", "scan"} : WGoto(w, l)
    BY <1>9 DEF WorkerRead
  <2>2. run[w].at \notin Unsettled
    BY <1>9 DEF WorkerRead, WAt, Unsettled
  <2> QED BY <1>1, <1>4, <1>9, <2>1, <2>2, WGotoHasEvidence DEF WorkerRead
<1>10. CASE WorkerHeal(w)
  <2>1. PICK s \in run[w].rows :
          \/ WSet(w, "heal", {}, run[w].rows \ {s}, NoMessage, NoTx)
          \/ /\ JournalCommitted(s[1])
             /\ \E l \in {"healCommit", "healAvail"} :
                   WSet(w, l, {}, run[w].rows \ {s}, s[1], NoTx)
    BY <1>10 DEF WorkerHeal
  <2>2. s[1] \in Messages
    BY <1>1 DEF Listed
  <2>3. JournalCommitted(s[1]) => Cells(s[1]) # {}
    BY <1>1, <2>2, LatestIsACell DEF Bound
  <2>5. RunsHaveEvidence'
    BY <1>1, <2>1, <2>2, <2>3, WSetHasEvidence DEF Unsettled
  <2> QED BY <1>4, <1>10, <2>5 DEF WorkerHeal
<1>14. CASE WorkerCommit(w)
  <2>1. run[w].at \notin Unsettled
    BY <1>14 DEF WorkerCommit, WAt, Unsettled
  <2>2. SentIsOnChain'
    BY <1>1, <1>3, <1>14, <2>1, MoveIsEvident, UnmovedIsEvident DEF WorkerCommit, Refused
  <2>3. RunsHaveEvidence'
    BY <1>1, <1>14, <2>1, WGotoHasEvidence DEF WorkerCommit
  <2> QED BY <1>1, <1>2, <1>14, <2>2, <2>3, ReserveIsEvident, MarkIsTruthful
          DEF WorkerCommit, Evidence
<1>11. CASE WorkerAvail(w)
  <2>1. run[w].at \notin Unsettled
    BY <1>11 DEF WorkerAvail, WAt, Unsettled
  <2>2. SentIsOnChain'
    BY <1>1, <1>3, <1>11, <2>1, MoveIsEvident, UnmovedIsEvident DEF WorkerAvail, Refused
  <2>3. RunsHaveEvidence'
    BY <1>1, <1>11, <2>1, WGotoHasEvidence DEF WorkerAvail
  <2> QED BY <1>1, <1>2, <1>11, <2>2, <2>3, ReserveIsEvident, MarkIsTruthful
          DEF WorkerAvail, Evidence
<1>12. CASE WorkerReserve(w)
  <2>1. run[w].at \notin Unsettled
    BY <1>12 DEF WorkerReserve, WAt, Unsettled
  <2>2. ReservedIsOnChain'
    BY <1>1, <1>3, <1>12, <2>1, ReserveIsEvident DEF WorkerReserve
  <2>3. RunsHaveEvidence'
    BY <1>1, <1>12, <2>1, WGotoHasEvidence DEF WorkerReserve
  <2> QED BY <1>1, <1>2, <1>12, <2>2, <2>3, UnmovedIsEvident, MarkIsTruthful
          DEF WorkerReserve, Evidence
<1> QED BY <1>5, <1>6, <1>7, <1>8, <1>9, <1>10, <1>11, <1>12, <1>13, <1>14
        DEF WorkerStep

LEMMA NextEvident ==
    ASSUME Bound, Evidence, [Next]_vars
    PROVE  Evidence'
<1>1. CommitsStay
  BY CommitsStayNext
<1>2. /\ TypeOK /\ CallsAreBound /\ JournalTruthful /\ CallsHaveEvidence
      /\ RunsHaveEvidence /\ SentIsOnChain /\ ReservedIsOnChain
  BY DEF Bound, Evidence
<1>3. CASE \E c \in Callers, m \in Messages : CallStep(c, m)
  <2>1. PICK c \in Callers, m \in Messages : CallStep(c, m)
    BY <1>3
  <2>2. CallsHaveEvidence'
    <3>1. CASE Begin(c, m)
      BY <1>1, <1>2, <2>1, <3>1, SetHasEvidence, SettledLabels DEF Begin
    <3>2. CASE UNCHANGED call
      BY <1>2, <2>1, <3>2 DEF CallStep, nodeVars, CallsHaveEvidence
    <3> QED BY <2>1, <3>1, <3>2 DEF CallStep, Compose, Retry, SendResponse
  <2>3. SentIsOnChain'
    BY <1>1, <1>2, <2>1, MoveIsEvident DEF CallStep, Compose, Retry, SendResponse
  <2> QED BY <1>1, <1>2, <2>1, <2>2, <2>3, RunsKeepEvidence, ReserveIsEvident, MarkIsTruthful
          DEF CallStep, Evidence
<1>4. CASE \E c \in Callers : PublishStep(c)
  BY <1>1, <1>4, PublishStepEvident
<1>5. CASE \E w \in Workers : WorkerStep(w) \/ WorkerError(w)
  <2>1. PICK w \in Workers : WorkerStep(w) \/ WorkerError(w)
    BY <1>5
  <2>2. CASE WorkerStep(w)
    BY <1>1, <2>2, WorkerStepEvident
  <2>3. CASE WorkerError(w)
    <3>1. UNCHANGED <<row, journal, reserved, call>>
      BY <2>3 DEF WorkerError, dbVars
    <3>2. RunsHaveEvidence'
      BY <1>1, <1>2, <2>3, WGotoHasEvidence DEF WorkerError, WAt, Unsettled
    <3> QED BY <1>1, <1>2, <3>1, <3>2, UnmovedIsEvident, ReserveIsEvident, MarkIsTruthful,
               CallsKeepEvidence DEF Evidence
  <2> QED BY <2>1, <2>2, <2>3
<1>6. CASE Crash
  <2>1. CallsHaveEvidence' /\ RunsHaveEvidence'
    BY <1>6, SettledLabels DEF Crash, CallsHaveEvidence, RunsHaveEvidence, Idle, Asleep, WAt, Unsettled
  <2> QED BY <1>1, <1>2, <1>6, <2>1, UnmovedIsEvident, ReserveIsEvident, MarkIsTruthful
          DEF Crash, dbVars, Evidence
<1>7. CASE Network \/ UNCHANGED vars
  <2>1. UNCHANGED <<row, journal, reserved, call, run>>
    BY <1>7 DEF Network, vars, dbVars
  <2> QED BY <1>1, <1>2, <2>1, UnmovedIsEvident, ReserveIsEvident, MarkIsTruthful,
             CallsKeepEvidence, RunsKeepEvidence DEF Evidence
<1> QED BY <1>3, <1>4, <1>5, <1>6, <1>7 DEF Next

LEMMA InitEvident ==
    ASSUME Init
    PROVE  Evidence
BY SettledLabels DEF Init, Evidence, JournalTruthful, CallsHaveEvidence, RunsHaveEvidence, SentIsOnChain,
       ShownAsSent, ReservedIsOnChain, Idle, Asleep, WAt, Unsettled

LEMMA EvidenceHolds == Spec => []Evidence
<1>1. Init => Bound /\ Evidence
  BY InitBound, InitEvident
<1>2. (Bound /\ Evidence) /\ [Next]_vars => (Bound /\ Evidence)'
  BY NextBound, NextEvident
<1> QED BY <1>1, <1>2, PTL DEF Spec

(* However many sweeps, screens and worker runs overlap, and whatever      *)
(* requests arrive late: no row is shown as sent without a committed       *)
(* transaction of that message.                                            *)
THEOREM SentRowsAreOnChain == Spec => []SentIsOnChain
<1>1. Evidence => SentIsOnChain
  BY DEF Evidence
<1> QED BY <1>1, EvidenceHolds, PTL

(* ... the journal calls no transaction committed that is not ...          *)
THEOREM JournalIsTruthful == Spec => []JournalTruthful
<1>1. Evidence => JournalTruthful
  BY DEF Evidence
<1> QED BY <1>1, EvidenceHolds, PTL

(* ... and no capacity is reserved for a cell that does not exist.         *)
THEOREM ReservesAreOnChain == Spec => []ReservedIsOnChain
<1>1. Evidence => ReservedIsOnChain
  BY DEF Evidence
<1> QED BY <1>1, EvidenceHolds, PTL

-----------------------------------------------------------------------------
(***************************************************************************)
(* Exclusion.  The code keeps one transaction of a message in play only    *)
(* because its callers do not overlap (one screen with publishBusy, one    *)
(* response sender under its lease) and because a request dies with its    *)
(* caller.  Without either the runs refute it; with both it is proved.     *)
(***************************************************************************)
OneOfEach ==
    /\ ~LateRequests
    /\ \A c, d \in Screens : c = d
    /\ \A c, d \in Sweeps : c = d

LEMMA Apart ==
    ASSUME OneOfEach, CallersKeepApart, NEW c \in Callers, NEW d \in Callers, c # d,
           ~At(c, "idle"), ~At(d, "idle")
    PROVE  call[c].m # call[d].m
BY DEF OneOfEach, CallersKeepApart, Callers

LEMMA ExclusiveLabels ==
    /\ OnLatest = HasTx \ {"submitting", "record"}
    /\ Fresh = {"encrypting", "building_transaction", "awaiting_signature", "submitting",
                "record"}
    /\ "idle" \notin HasTx \cup Fresh
BY LabelsWithTx DEF OnLatest, Fresh, BuildLabels

(* A call moves on while the network and the records stand still.          *)
LEMMA SetExclusive ==
    ASSUME Bound, Exclusive, UNCHANGED <<node, owner, latest, wire>>,
           NEW c \in Callers, NEW l, NEW m, NEW t, NEW next, Set(c, l, m, t, next),
           l # "idle" => (c \in Screens /\ m \in Texts) \/ (c \in Sweeps /\ m \in Responses),
           l \in OnLatest => t = latest[m],
           l \in {"rebroadcast", "abandon"} => ~InPlay(t),
           l \in Fresh => \A u \in CarriedBy(m) : ~InPlay(u)
    PROVE  Exclusive'
<1>1. \A d \in Callers : d # c => call'[d] = call[d]
  BY DEF Set, Bound, TypeOK
<1>2. call'[c].at = l /\ call'[c].m = m /\ call'[c].t = t
  BY DEF Set, Bound, TypeOK
<1>3. \A u : InPlay(u)' <=> InPlay(u)
  BY DEF InPlay
<1>4. \A n : CarriedBy(n)' = CarriedBy(n)
  BY DEF CarriedBy
<1>5. CallersKeepApart'
  BY <1>1, <1>2 DEF CallersKeepApart, Exclusive, At
<1>6. CallsFollowJournal'
  <2> SUFFICES ASSUME NEW d \in Callers
               PROVE  /\ call'[d].at \in OnLatest => call'[d].t = latest[call'[d].m]
                      /\ call'[d].at \in {"rebroadcast", "abandon"} => ~InPlay(call'[d].t)
                      /\ call'[d].at \in Fresh =>
                            \A u \in CarriedBy(call'[d].m) : ~InPlay(u)
    BY <1>3, <1>4 DEF CallsFollowJournal
  <2>1. CASE d = c
    BY <1>2, <2>1
  <2>2. CASE d # c
    BY <1>1, <2>2 DEF CallsFollowJournal, Exclusive
  <2> QED BY <2>1, <2>2
<1>7. LiveIsLatest'
  BY <1>3, <1>4 DEF LiveIsLatest, Exclusive
<1> QED BY <1>5, <1>6, <1>7 DEF Exclusive

LEMMA GotoExclusive ==
    ASSUME Bound, Exclusive, UNCHANGED <<node, owner, latest, wire>>,
           NEW c \in Callers, NEW l, NEW next, Goto(c, l) \/ GotoWalk(c, l, next),
           ~At(c, "idle"),
           l \in OnLatest => call[c].at \in OnLatest,
           l \in {"rebroadcast", "abandon"} => ~InPlay(call[c].t),
           l \in Fresh => call[c].at \in Fresh
    PROVE  Exclusive'
<1>1. (c \in Screens /\ call[c].m \in Texts) \/ (c \in Sweeps /\ call[c].m \in Responses)
  BY DEF Exclusive, CallersKeepApart
<1>2. /\ l \in OnLatest => call[c].t = latest[call[c].m]
      /\ l \in Fresh => \A u \in CarriedBy(call[c].m) : ~InPlay(u)
  BY DEF Exclusive, CallsFollowJournal
<1>3. PICK n : Set(c, l, call[c].m, call[c].t, n)
  BY DEF Goto, GotoWalk
<1> QED BY <1>1, <1>2, <1>3, SetExclusive

LEMMA FinishExclusive ==
    ASSUME Bound, Exclusive, UNCHANGED <<node, owner, latest, wire>>, NEW c \in Callers,
           Finish(c)
    PROVE  Exclusive'
<1>1. Set(c, "idle", NoMessage, NoTx, 1)
  BY DEF Finish, Set, Idle
<1>2. "idle" \notin OnLatest \cup Fresh \cup {"rebroadcast", "abandon"}
  BY ExclusiveLabels
<1> QED BY <1>1, <1>2, SetExclusive

(* Nothing a message carries is in play when its latest record is not, or  *)
(* when it has none.                                                       *)
LEMMA NoneInPlay ==
    ASSUME LiveIsLatest, NEW m \in Messages,
           latest[m] = NoTx \/ ~InPlay(latest[m])
    PROVE  \A t \in CarriedBy(m) : ~InPlay(t)
BY Names DEF LiveIsLatest, CarriedBy

(* The transaction of a call at the network goes into the pool: it is the  *)
(* latest of its message, and no other call is at that message.            *)
LEMMA SentExclusive ==
    ASSUME OneOfEach, Bound, Exclusive, UNCHANGED <<owner, latest, wire>>, NEW c \in Callers,
           NEW t, NEW l, t = call[c].t, Sent(t), call[c].at \in OnLatest,
           NEW next, Goto(c, l) \/ GotoWalk(c, l, next),
           l \in {"fail"} \cup (OnLatest \ {"rebroadcast", "abandon"})
    PROVE  Exclusive'
<1> DEFINE Held(u) == node'[u] \in {"pending", "committed"}   \* InPlay(u)', for a fixed u
<1>1. /\ ~At(c, "idle") /\ call[c].at \in HasTx /\ l \notin Fresh /\ l # "idle"
      /\ l \notin {"rebroadcast", "abandon"}
  BY ExclusiveLabels, LabelsWithTx DEF At
<1>2. t \in TxIds /\ owner[t] = call[c].m /\ latest[call[c].m] = t
  BY <1>1 DEF Bound, CallsAreBound, TypeOK, TxIds, Exclusive, CallsFollowJournal
<1>3. \A u \in TxIds : u # t => (Held(u) <=> InPlay(u))
  BY <1>2 DEF Sent, InPlay, Bound, TypeOK, NodeTypeOK
<1>4. \A n : CarriedBy(n)' = CarriedBy(n) /\ CarriedBy(n) \subseteq TxIds
  BY DEF CarriedBy
<1>5. \A d \in Callers : d # c => call'[d] = call[d]
  BY DEF Goto, GotoWalk, Set, Bound, TypeOK
<1>6. call'[c].at = l /\ call'[c].m = call[c].m /\ call'[c].t = t
  BY DEF Goto, GotoWalk, Set, Bound, TypeOK
<1>7. CallersKeepApart'
  BY <1>1, <1>5, <1>6 DEF CallersKeepApart, Exclusive, At
<1>8. CallsFollowJournal'
  <2> SUFFICES ASSUME NEW d \in Callers
               PROVE  /\ call'[d].at \in OnLatest => call'[d].t = latest[call'[d].m]
                      /\ call'[d].at \in {"rebroadcast", "abandon"} => ~Held(call'[d].t)
                      /\ call'[d].at \in Fresh =>
                            \A u \in CarriedBy(call'[d].m) : ~Held(u)
    BY <1>4 DEF CallsFollowJournal, InPlay
  <2>1. CASE d = c
    BY <1>1, <1>2, <1>6, <2>1
  <2>2. CASE d # c
    <3>1. /\ call[d].at \in OnLatest => call[d].t = latest[call[d].m]
          /\ call[d].at \in {"rebroadcast", "abandon"} => ~InPlay(call[d].t)
          /\ call[d].at \in Fresh => \A u \in CarriedBy(call[d].m) : ~InPlay(u)
      BY DEF Exclusive, CallsFollowJournal
    <3>2. ~At(d, "idle") => call[d].m # owner[t]
      BY <1>1, <1>2, <2>2, Apart DEF Exclusive
    <3>3. call[d].at \in {"rebroadcast", "abandon"} =>
              call[d].t \in TxIds /\ owner[call[d].t] = call[d].m /\ ~At(d, "idle")
      BY LabelsWithTx DEF Bound, CallsAreBound, TypeOK, TxIds, At
    <3>4. call[d].at \in Fresh => ~At(d, "idle")
      BY ExclusiveLabels DEF At
    <3>5. call[d].at \in Fresh => \A u \in CarriedBy(call[d].m) : u \in TxIds /\ u # t
      BY <3>2, <3>4 DEF CarriedBy
    <3>6. call[d].at \in {"rebroadcast", "abandon"} => ~Held(call[d].t)
      BY <1>3, <3>1, <3>2, <3>3
    <3>7. call[d].at \in Fresh => \A u \in CarriedBy(call[d].m) : ~Held(u)
      BY <1>3, <3>1, <3>5
    <3> QED BY <1>5, <2>2, <3>1, <3>6, <3>7
  <2> QED BY <2>1, <2>2
<1>9. LiveIsLatest'
  <2> SUFFICES ASSUME NEW m \in Messages, NEW u \in CarriedBy(m), Held(u)
               PROVE  latest[m] = u
    BY <1>4 DEF LiveIsLatest, InPlay
  <2>1. CASE u = t
    BY <1>2, <2>1 DEF CarriedBy
  <2>2. CASE u # t
    BY <1>3, <2>2 DEF LiveIsLatest, Exclusive, CarriedBy
  <2> QED BY <2>1, <2>2
<1> QED BY <1>7, <1>8, <1>9 DEF Exclusive

LEMMA CallStepExclusive ==
    ASSUME Bound, Exclusive, NEW c \in Callers, NEW m \in Messages, CallStep(c, m)
    PROVE  Exclusive'
<1>1. UNCHANGED <<node, owner, latest, wire>>
  BY DEF CallStep, nodeVars, refVars, walletVars
<1>2. (c \in Screens /\ m \in Texts) \/ (c \in Sweeps /\ m \in Responses)
  BY DEF CallStep, Compose, Retry, SendResponse
<1>3. "find" \notin OnLatest \cup Fresh \cup {"rebroadcast", "abandon"}
  BY ExclusiveLabels, LabelsWithTx
<1>4. CASE Begin(c, m)
  BY <1>1, <1>2, <1>3, <1>4, SetExclusive DEF Begin
<1>5. CASE UNCHANGED call
  BY <1>1, <1>5
     DEF Exclusive, CallersKeepApart, CallsFollowJournal, LiveIsLatest, At, InPlay,
         CarriedBy
<1> QED BY <1>4, <1>5 DEF CallStep, Compose, Retry, SendResponse

LEMMA LocalStepExclusive ==
    ASSUME Bound, Exclusive, NEW c \in Callers, LocalStep(c)
    PROVE  Exclusive'
<1>1. UNCHANGED <<node, owner, latest, wire>>
  BY DEF LocalStep, nodeVars, dbVars, refVars, walletVars
<1>2. CASE Find(c)
  <2>1. ~At(c, "idle") /\ call[c].m \in Messages
    BY <1>2 DEF Find, At, Bound, CallsAreBound
  <2>2. (c \in Screens /\ call[c].m \in Texts) \/ (c \in Sweeps /\ call[c].m \in Responses)
    BY <2>1 DEF Exclusive, CallersKeepApart
  <2>3. CASE latest[call[c].m] = NoTx
    <3>1. \A t \in CarriedBy(call[c].m) : ~InPlay(t)
      BY <2>1, <2>3, NoneInPlay DEF Exclusive
    <3>2. Set(c, "encrypting", call[c].m, call[c].t, call[c].next)
      BY <1>2, <2>3 DEF Find, Goto
    <3>3. "encrypting" \notin OnLatest
      BY ExclusiveLabels, LabelsWithTx
    <3> QED BY <1>1, <2>2, <3>1, <3>2, <3>3, SetExclusive
  <2>4. CASE latest[call[c].m] # NoTx
    <3>1. Set(c, "status", call[c].m, latest[call[c].m], call[c].next)
      BY <1>2, <2>4 DEF Find, GotoWith
    <3>2. "status" \notin Fresh
      BY ExclusiveLabels
    <3> QED BY <1>1, <2>2, <3>1, <3>2, SetExclusive
  <2> QED BY <2>3, <2>4
<1>3. CASE Status(c)
  <2>1. ~At(c, "idle") /\ call[c].at \in OnLatest
    BY <1>3, ExclusiveLabels, LabelsWithTx DEF Status, At
  <2>2. {"walkPending", "abandon", "await", "rebroadcast"} \cap Fresh = {}
    BY ExclusiveLabels
  <2>3. node[call[c].t] \in {"rejected", "unknown"} => ~InPlay(call[c].t)
    BY DEF InPlay
  <2> QED BY <1>1, <1>3, <2>1, <2>2, <2>3, GotoExclusive DEF Status, PlanWalk
<1>4. CASE PreBroadcastError(c)
  <2>1. ~At(c, "idle") /\ "fail" \notin OnLatest \cup Fresh
    BY <1>4, ExclusiveLabels, LabelsWithTx DEF PreBroadcastError, At, BuildLabels
  <2> QED BY <1>1, <1>4, <2>1, GotoExclusive DEF PreBroadcastError
<1>5. CASE Monitor(c)
  <2>1. ~At(c, "idle") /\ call[c].at \in OnLatest /\ "settle" \notin Fresh
    BY <1>5, ExclusiveLabels, LabelsWithTx DEF Monitor, At
  <2> QED BY <1>1, <1>5, <2>1, GotoExclusive, FinishExclusive DEF Monitor
<1> QED BY <1>2, <1>3, <1>4, <1>5 DEF LocalStep

LEMMA RowStepExclusive ==
    ASSUME Bound, Exclusive, NEW c \in Callers, RowStep(c)
    PROVE  Exclusive'
<1>1. UNCHANGED <<node, owner, latest, wire>>
  BY DEF RowStep, nodeVars, refVars, walletVars
<1>2. CASE Encrypt(c) \/ Assemble(c) \/ Sign(c)
  <2>1. ~At(c, "idle") /\ call[c].at \in Fresh
    BY <1>2, ExclusiveLabels DEF Encrypt, Assemble, Sign, At
  <2>2. /\ {"building_transaction", "awaiting_signature", "record", "fail"} \cap OnLatest = {}
        /\ "fail" \notin Fresh
    BY ExclusiveLabels, LabelsWithTx
  <2> QED BY <1>1, <1>2, <2>1, <2>2, GotoExclusive DEF Encrypt, Assemble, Sign, StepTo
<1>3. CASE MarkFailed(c)
  BY <1>1, <1>3, FinishExclusive DEF MarkFailed
<1>4. CASE WalkPending(c) \/ WalkAvailable(c)
  <2>1. ~At(c, "idle") /\ call[c].at \in OnLatest
    BY <1>4, ExclusiveLabels, LabelsWithTx DEF WalkPending, WalkAvailable, Walk, At
  <2>2. {"walkPending", "monitor", "walkAvailable", "reserve"} \cap Fresh = {}
    BY ExclusiveLabels
  <2> QED BY <1>1, <1>4, <2>1, <2>2, GotoExclusive, FinishExclusive
          DEF WalkPending, WalkAvailable, Walk
<1> QED BY <1>2, <1>3, <1>4 DEF RowStep

(* Recording a transaction makes it the latest; nothing of its message was *)
(* in play, so nothing is now.                                             *)
LEMMA RecordExclusive ==
    ASSUME OneOfEach, Bound, Exclusive, NEW c \in Callers, Record(c),
           UNCHANGED <<node, owner, wire>>
    PROVE  Exclusive'
<1> DEFINE m == call[c].m
<1>1. /\ ~At(c, "idle") /\ call[c].at \in Fresh /\ "chainRef" \notin Fresh \cup {"idle"}
  BY ExclusiveLabels DEF Record, At
<1>2. m \in Messages /\ \A u \in CarriedBy(m) : ~InPlay(u)
  BY <1>1 DEF Bound, CallsAreBound, Exclusive, CallsFollowJournal
<1>3. latest'[m] = call[c].t /\ \A n \in Messages : n # m => latest'[n] = latest[n]
  BY <1>2 DEF Record, Bound, TypeOK
<1>4. \A d \in Callers : d # c => call'[d] = call[d]
  BY DEF Record, Goto, Set, Bound, TypeOK
<1>5. call'[c].at = "chainRef" /\ call'[c].m = m /\ call'[c].t = call[c].t
  BY DEF Record, Goto, Set, Bound, TypeOK
<1>6. \A u : InPlay(u)' <=> InPlay(u)
  BY DEF InPlay
<1>7. \A n : CarriedBy(n)' = CarriedBy(n)
  BY DEF CarriedBy
<1>8. \A d \in Callers : d # c /\ ~At(d, "idle") => call[d].m # m /\ call[d].m \in Messages
  BY <1>1, Apart DEF Exclusive, Bound, CallsAreBound
<1> HIDE DEF m
<1>9. CallersKeepApart'
  <2>1. (c \in Screens /\ m \in Texts) \/ (c \in Sweeps /\ m \in Responses)
    BY <1>1 DEF CallersKeepApart, Exclusive, m
  <2> QED BY <1>4, <1>5, <2>1 DEF CallersKeepApart, Exclusive, At
<1>10. CallsFollowJournal'
  <2> SUFFICES ASSUME NEW d \in Callers
               PROVE  /\ call'[d].at \in OnLatest => call'[d].t = latest'[call'[d].m]
                      /\ call'[d].at \in {"rebroadcast", "abandon"} => ~InPlay(call'[d].t)
                      /\ call'[d].at \in Fresh =>
                            \A u \in CarriedBy(call'[d].m) : ~InPlay(u)
    BY <1>6, <1>7 DEF CallsFollowJournal
  <2>1. CASE d = c
    BY <1>1, <1>3, <1>5, <2>1
  <2>2. CASE d # c
    <3>1. call[d].at \in OnLatest => ~At(d, "idle")
      BY ExclusiveLabels DEF At
    <3>2. call[d].at \in OnLatest => call[d].t = latest'[call[d].m]
      BY <1>3, <1>8, <2>2, <3>1 DEF CallsFollowJournal, Exclusive
    <3> QED BY <1>4, <2>2, <3>2 DEF CallsFollowJournal, Exclusive
  <2> QED BY <2>1, <2>2
<1>11. LiveIsLatest'
  BY <1>2, <1>3, <1>6, <1>7 DEF LiveIsLatest, Exclusive
<1> QED BY <1>9, <1>10, <1>11 DEF Exclusive

LEMMA RecordStepExclusive ==
    ASSUME OneOfEach, Bound, Exclusive, NEW c \in Callers, RecordStep(c)
    PROVE  Exclusive'
<1>1. UNCHANGED <<node, owner, wire>>
  BY DEF RecordStep, nodeVars, walletVars
<1>2. CASE Record(c)
  BY <1>1, <1>2, RecordExclusive
<1>3. CASE Abandon(c)
  <2>1. ~At(c, "idle") /\ call[c].at \in OnLatest
    BY <1>3, ExclusiveLabels, LabelsWithTx DEF Abandon, At
  <2>2. (c \in Screens /\ call[c].m \in Texts) \/ (c \in Sweeps /\ call[c].m \in Responses)
    BY <2>1 DEF Exclusive, CallersKeepApart
  <2>3. call[c].m \in Messages /\ ~InPlay(latest[call[c].m])
    BY <1>3, <2>1 DEF Abandon, At, Bound, CallsAreBound, Exclusive, CallsFollowJournal
  <2>4. \A t \in CarriedBy(call[c].m) : ~InPlay(t)
    BY <2>3, NoneInPlay DEF Exclusive
  <2>5. UNCHANGED latest /\ Set(c, "encrypting", call[c].m, NoTx, call[c].next)
    BY <1>3 DEF RecordStep, Abandon, GotoWith, Settle, Record, SetChainRef, SettleRef,
           SetEnvelope, Reserve, At, refVars
  <2>6. "encrypting" \notin OnLatest
    BY ExclusiveLabels, LabelsWithTx
  <2> QED BY <1>1, <2>2, <2>4, <2>5, <2>6, SetExclusive
<1>4. CASE Settle(c) \/ SetChainRef(c) \/ SettleRef(c) \/ SetEnvelope(c) \/ Reserve(c)
  <2>1. ~At(c, "idle") /\ call[c].at \in OnLatest /\ UNCHANGED latest
    BY <1>4, ExclusiveLabels, LabelsWithTx
       DEF RecordStep, Abandon, Settle, Record, SetChainRef, SettleRef, SetEnvelope, Reserve,
           At, refVars
  <2>2. {"settleRef", "walkAvailable", "envelope", "send"} \cap Fresh = {}
    BY ExclusiveLabels
  <2> QED BY <1>1, <1>4, <2>1, <2>2, GotoExclusive, FinishExclusive
          DEF Settle, SetChainRef, SettleRef, PlanWalk, SetEnvelope, Reserve
<1> QED BY <1>2, <1>3, <1>4 DEF RecordStep

LEMMA NetworkStepExclusive ==
    ASSUME OneOfEach, Bound, Exclusive, NEW c \in Callers, NetworkStep(c)
    PROVE  Exclusive'
<1>1. UNCHANGED <<owner, latest>>
  BY DEF NetworkStep, dbVars, refVars
<1>2. ~At(c, "idle") /\ call[c].at \in OnLatest
  BY ExclusiveLabels, LabelsWithTx DEF NetworkStep, Rebroadcast, Await, Send, At
<1>3. /\ {"awaitOwn", "abandon", "fail", "walkPending"} \cap Fresh = {}
      /\ {"awaitOwn", "walkPending"} \subseteq OnLatest \ {"rebroadcast", "abandon"}
      /\ "fail" \notin OnLatest
  BY ExclusiveLabels, LabelsWithTx
<1>4. UNCHANGED wire
  BY DEF NetworkStep, Rebroadcast, Await, Send, Sent, SendRefused, SendTimedOut, OneOfEach
<1>5. CASE Sent(call[c].t)
  <2>1. PICK l, next :
          /\ l \in {"awaitOwn", "fail", "walkPending"}
          /\ Goto(c, l) \/ GotoWalk(c, l, next)
    <3>1. CASE Rebroadcast(c)
      <4>1. UNCHANGED node => FALSE
        BY <1>2, <1>5 DEF Sent, Accepted, InPlay, OnLatest, Bound, CallsAreBound, TypeOK,
               NodeTypeOK, TxIds
      <4> QED BY <3>1, <4>1 DEF Rebroadcast, SendRefused
    <3>2. CASE Send(c)
      BY <3>2 DEF Send
    <3>3. CASE Await(c) /\ UNCHANGED node
      <4>1. UNCHANGED node => FALSE
        BY <1>2, <1>5 DEF Sent, Accepted, InPlay, OnLatest, Bound, CallsAreBound, TypeOK,
               NodeTypeOK, TxIds
      <4> QED BY <3>3, <4>1
    <3> QED BY <3>1, <3>2, <3>3 DEF NetworkStep
  <2> QED BY <1>1, <1>2, <1>3, <1>4, <1>5, <2>1, SentExclusive
<1>6. CASE ~Sent(call[c].t)
  <2>1. UNCHANGED node
    BY <1>6 DEF NetworkStep, Rebroadcast, Send, SendRefused, SendTimedOut, OneOfEach
  <2>2. CASE Rebroadcast(c)
    <3>1. ~InPlay(call[c].t)
      BY <2>2 DEF Rebroadcast, At, Exclusive, CallsFollowJournal
    <3> QED BY <1>1, <1>2, <1>3, <1>4, <1>6, <2>1, <2>2, <3>1, GotoExclusive DEF Rebroadcast
  <2>3. CASE Await(c)
    BY <1>1, <1>2, <1>3, <1>4, <2>1, <2>3, GotoExclusive DEF Await, PlanWalk
  <2>4. CASE Send(c)
    BY <1>1, <1>2, <1>3, <1>4, <1>6, <2>1, <2>4, GotoExclusive DEF Send
  <2> QED BY <2>2, <2>3, <2>4 DEF NetworkStep
<1> QED BY <1>5, <1>6

(* A transaction just built is in nobody's pool.                           *)
LEMMA BuildStepExclusive ==
    ASSUME OneOfEach, Bound, Exclusive, NEW c \in Callers, BuildStep(c)
    PROVE  Exclusive'
<1> DEFINE t == built + 1
           m == call[c].m
<1>1. /\ ~At(c, "idle") /\ call[c].at \in Fresh
      /\ {"submitting", "fail"} \cap (OnLatest \cup {"idle"}) = {}
  BY ExclusiveLabels, LabelsWithTx DEF BuildStep, Build, At
<1>2. t \in TxIds /\ t \notin 1..built /\ ~InPlay(t)
  <2>1. t \in TxIds /\ t \notin 1..built
    BY DEF BuildStep, Build, Bound, TypeOK, TxIds
  <2> QED BY <2>1 DEF InPlay, Bound, UnbuiltIsUnknown
<1>3. UNCHANGED <<node, latest, wire>>
  BY DEF BuildStep, refVars
<1>4. /\ \A d \in Callers : d # c => call'[d] = call[d]
      /\ call'[c].at \in {"submitting", "fail"} /\ call'[c].m = m
  <2>1. \/ Set(c, "submitting", call[c].m, t, call[c].next)
        \/ Set(c, "fail", call[c].m, t, call[c].next)
    BY DEF BuildStep, Build, GotoWith
  <2> HIDE DEF t
  <2> QED BY <2>1 DEF Set, Bound, TypeOK
<1>5. \A u : InPlay(u)' <=> InPlay(u)
  BY <1>3 DEF InPlay
<1>6. owner' = [owner EXCEPT ![t] = m]
  BY DEF BuildStep, Build
<1> HIDE DEF t, m
<1>7. \A n, u : u \in CarriedBy(n)' => u \in CarriedBy(n) \/ u = t
  BY <1>2, <1>6 DEF CarriedBy, Bound, TypeOK
<1>8. CallersKeepApart'
  <2>1. (c \in Screens /\ m \in Texts) \/ (c \in Sweeps /\ m \in Responses)
    BY <1>1 DEF CallersKeepApart, Exclusive, m
  <2> QED BY <1>4, <2>1 DEF CallersKeepApart, Exclusive, At
<1>9. CallsFollowJournal'
  <2> SUFFICES ASSUME NEW d \in Callers
               PROVE  /\ call'[d].at \in OnLatest => call'[d].t = latest[call'[d].m]
                      /\ call'[d].at \in {"rebroadcast", "abandon"} => ~InPlay(call'[d].t)
                      /\ call'[d].at \in Fresh =>
                            \A u \in TxIds : owner'[u] = call'[d].m => ~InPlay(u)
    BY <1>3, <1>5 DEF CallsFollowJournal, CarriedBy
  <2>1. CASE d = c
    <3>1. \A u \in TxIds : owner'[u] = m => ~InPlay(u)
      <4>1. \A u \in CarriedBy(m) : ~InPlay(u)
        BY <1>1 DEF CallsFollowJournal, Exclusive, m
      <4> QED BY <1>2, <1>6, <4>1 DEF CarriedBy, Bound, TypeOK
    <3> QED BY <1>1, <1>4, <2>1, <3>1
  <2>2. CASE d # c
    <3>1. \A u \in TxIds : call[d].at \in Fresh /\ owner'[u] = call[d].m => ~InPlay(u)
      <4>1. call[d].at \in Fresh => \A u \in CarriedBy(call[d].m) : ~InPlay(u)
        BY DEF CallsFollowJournal, Exclusive
      <4> QED BY <1>2, <1>6, <4>1 DEF CarriedBy, Bound, TypeOK
    <3> QED BY <1>4, <2>2, <3>1 DEF CallsFollowJournal, Exclusive
  <2> QED BY <2>1, <2>2
<1>10. LiveIsLatest'
  <2> SUFFICES ASSUME NEW n \in Messages, NEW u \in CarriedBy(n)', InPlay(u)
               PROVE  latest[n] = u
    BY <1>3, <1>5 DEF LiveIsLatest
  <2> QED BY <1>2, <1>7 DEF LiveIsLatest, Exclusive
<1> QED BY <1>3, <1>8, <1>9, <1>10 DEF Exclusive

(* The network only takes out of play, as nothing is left on the wire.     *)
LEMMA NetworkExclusive ==
    ASSUME Bound, Exclusive, Network
    PROVE  Exclusive'
<1>1. UNCHANGED <<owner, latest, call>>
  BY DEF Network, dbVars, refVars, walletVars
<1>2. /\ UNCHANGED wire
      /\ \A u \in TxIds : node'[u] \in {"pending", "committed"} => InPlay(u)
  BY DEF Network, NodeStep, Commit, Reject, Forget, Deliver, InPlay, Exclusive, Bound, TypeOK,
         NodeTypeOK
<1>3. \A n : CarriedBy(n)' = CarriedBy(n) /\ CarriedBy(n) \subseteq TxIds
  BY <1>1 DEF CarriedBy
<1>4. \A c \in Callers : call[c].at \in {"rebroadcast", "abandon"} => call[c].t \in TxIds
  BY LabelsWithTx DEF Bound, CallsAreBound, TypeOK, TxIds
<1>5. CallsFollowJournal'
  BY <1>1, <1>2, <1>3, <1>4 DEF CallsFollowJournal, Exclusive, InPlay
<1>6. CallersKeepApart' /\ LiveIsLatest'
  BY <1>1, <1>2, <1>3 DEF CallersKeepApart, At, LiveIsLatest, Exclusive, InPlay
<1> QED BY <1>2, <1>5, <1>6 DEF Exclusive

LEMMA NextExclusive ==
    ASSUME OneOfEach, Bound, Exclusive, [Next]_vars
    PROVE  Exclusive'
<1>1. CASE \E c \in Callers, m \in Messages : CallStep(c, m)
  BY <1>1, CallStepExclusive
<1>2. CASE \E c \in Callers : PublishStep(c)
  BY <1>2, LocalStepExclusive, RowStepExclusive, RecordStepExclusive, NetworkStepExclusive,
     BuildStepExclusive DEF PublishStep
<1>3. CASE (\E w \in Workers : WorkerStep(w) \/ WorkerError(w)) \/ UNCHANGED vars
  <2>1. UNCHANGED <<node, owner, latest, wire, call>>
    BY <1>3 DEF WorkerStep, WorkerError, vars, nodeVars, dbVars, refVars, walletVars
  <2> QED BY <2>1 DEF Exclusive, CallersKeepApart, CallsFollowJournal, LiveIsLatest,
          At, CarriedBy, InPlay
<1>4. CASE Crash
  <2>1. UNCHANGED <<node, owner, latest, wire>>
    BY <1>4 DEF Crash, dbVars, refVars, OneOfEach
  <2>2. \A c \in Callers : call'[c].at = "idle"
    BY <1>4 DEF Crash, Idle
  <2>3. "idle" \notin OnLatest \cup Fresh
    BY ExclusiveLabels
  <2>4. CallersKeepApart' /\ CallsFollowJournal'
    BY <2>2, <2>3 DEF CallersKeepApart, CallsFollowJournal, At
  <2> QED BY <2>1, <2>4 DEF Exclusive, LiveIsLatest, CarriedBy, InPlay
<1>5. CASE Network
  BY <1>5, NetworkExclusive
<1> QED BY <1>1, <1>2, <1>3, <1>4, <1>5 DEF Next

LEMMA InitExclusive ==
    ASSUME Init
    PROVE  Exclusive
BY ExclusiveLabels
   DEF Init, NodeInit, Exclusive, CallersKeepApart, CallsFollowJournal, LiveIsLatest,
       At, Idle, InPlay, CarriedBy

(* A step of a call sets that call, and leaves it its message.             *)
LEMMA OneCallMoves ==
    ASSUME NEW c \in Callers, PublishStep(c)
    PROVE  Finish(c) \/ \E l, t, next : Set(c, l, call[c].m, t, next)
<1>1. CASE LocalStep(c)
  BY <1>1 DEF LocalStep, Find, Status, PreBroadcastError, Monitor, PlanWalk, Goto, GotoWith,
         GotoWalk
<1>2. CASE RowStep(c)
  BY <1>2 DEF RowStep, Encrypt, Assemble, Sign, StepTo, MarkFailed, WalkPending,
         WalkAvailable, Walk, Goto, GotoWalk
<1>3. CASE RecordStep(c)
  BY <1>3 DEF RecordStep, Abandon, Settle, Record, SetChainRef, SettleRef, SetEnvelope,
         Reserve, PlanWalk, Goto, GotoWith, GotoWalk
<1>4. CASE NetworkStep(c)
  BY <1>4 DEF NetworkStep, Rebroadcast, Await, Send, PlanWalk, Goto, GotoWalk
<1>5. CASE BuildStep(c)
  BY <1>5 DEF BuildStep, Build, GotoWith
<1> QED BY <1>1, <1>2, <1>3, <1>4, <1>5 DEF PublishStep

(* The part about what the worker writes off: in the same circumstances a  *)
(* rejection is final.  A call that is about to send knows its transaction *)
(* to be unknown to the node, so a rejected one is never sent again, and   *)
(* an answer "rejected" is never outdated.                                 *)
Unsent == {"submitting", "record", "chainRef", "envelope", "send", "rebroadcast"}

NotWrittenOff ==
    /\ \A t \in TxIds : journal[t] = "rejected" => node[t] = "rejected"
    /\ \A w \in Workers :
          WAt(w, "markRejected") => run[w].t \in TxIds /\ node[run[w].t] = "rejected"
    /\ \A c \in Callers : call[c].at \in Unsent => node[call[c].t] = "unknown"

LEMMA UnsentHaveTx ==
    /\ Unsent \subseteq HasTx /\ "idle" \notin Unsent
    /\ Unsent \cap ({"find", "fail", "status", "await", "awaitOwn", "abandon"} \cup BuildLabels
                        \cup BroadcastLabels) = {}
BY LabelsWithTx DEF Unsent, BuildLabels, BroadcastLabels

(* Only the call that sends it moves a transaction that is not in the pool. *)
LEMMA NodeMoves ==
    ASSUME OneOfEach, Bound, Exclusive, [Next]_vars
    PROVE  \/ UNCHANGED node
           \/ \E t \in TxIds, a \in NodeStates :
                 node[t] = "pending" /\ node' = [node EXCEPT ![t] = a] /\ UNCHANGED call
           \/ \E c \in Callers :
                 /\ At(c, "send") \/ At(c, "rebroadcast")
                 /\ Sent(call[c].t) /\ PublishStep(c)
<1>1. CASE Network
  <2>1. PICK t \in TxIds : NodeStep(t)
    BY <1>1 DEF Network
  <2>2. Commit(t) \/ Reject(t) \/ Forget(t)
    BY <2>1 DEF NodeStep, Deliver, Exclusive
  <2> QED BY <1>1, <2>2 DEF Network, Commit, Reject, Forget, NodeStates
<1>2. CASE \E c \in Callers : PublishStep(c)
  <2>1. PICK c \in Callers : PublishStep(c)
    BY <1>2
  <2>2. CASE UNCHANGED node
    BY <2>2
  <2>3. CASE NetworkStep(c)
    BY <2>1, <2>3 DEF NetworkStep, Rebroadcast, Await, Send, SendRefused, SendTimedOut, At
  <2> QED BY <2>1, <2>2, <2>3 DEF PublishStep, LocalStep, RowStep, RecordStep, BuildStep, nodeVars
<1>3. CASE ~Network /\ ~(\E c \in Callers : PublishStep(c))
  BY <1>3 DEF Next, CallStep, WorkerStep, WorkerError, Crash, vars, nodeVars
<1> QED BY <1>1, <1>2, <1>3

(* A call comes to send only what it has just built, or what the node has  *)
(* just not known.                                                         *)
LEMMA CallComesToSend ==
    ASSUME Bound, NEW c \in Callers, PublishStep(c), call'[c].at \in Unsent
    PROVE  \/ call[c].at \in Unsent /\ call'[c].t = call[c].t
           \/ node[call'[c].t] = "unknown"
<1>1. \A l, m, t, n : Set(c, l, m, t, n) => call'[c].at = l /\ call'[c].t = t
  BY DEF Set, Bound, TypeOK
<1>2. \A l : Goto(c, l) => call'[c].at = l /\ call'[c].t = call[c].t
  BY <1>1 DEF Goto
<1>3. \A l, t : GotoWith(c, l, t) => call'[c].at = l /\ call'[c].t = t
  BY <1>1 DEF GotoWith
<1>4. \A l, n : GotoWalk(c, l, n) => call'[c].at = l /\ call'[c].t = call[c].t
  BY <1>1 DEF GotoWalk
<1>5. \A l : PlanWalk(c, l) => call'[c].at = l
  BY <1>4 DEF PlanWalk
<1>6. ~Finish(c)
  BY UnsentHaveTx DEF Finish, Idle, Bound, TypeOK
<1>7. /\ "walkPending" \notin Unsent /\ "walkAvailable" \notin Unsent /\ "fail" \notin Unsent
      /\ {"encrypting", "building_transaction", "awaiting_signature"} \cap Unsent = {}
      /\ {"status", "abandon", "await", "awaitOwn", "monitor", "settle", "settleRef", "reserve"}
            \cap Unsent = {}
  BY DEF Unsent
<1>8. CASE LocalStep(c)
  <2>1. CASE Status(c)
    BY <1>2, <1>5, <1>7, <2>1 DEF Status
  <2> QED BY <1>2, <1>3, <1>6, <1>7, <1>8, <2>1 DEF LocalStep, Find, PreBroadcastError, Monitor
<1>9. CASE RowStep(c)
  <2>1. CASE Sign(c)
    <3>1. call[c].at \in Unsent
      BY <2>1 DEF Sign, At, Unsent
    <3> QED BY <1>2, <2>1, <3>1 DEF Sign, StepTo
  <2>2. CASE Encrypt(c) \/ Assemble(c) \/ MarkFailed(c)
    BY <1>2, <1>6, <1>7, <2>2 DEF Encrypt, Assemble, StepTo, MarkFailed
  <2>3. CASE WalkPending(c) \/ WalkAvailable(c)
    BY <1>2, <1>4, <1>6, <1>7, <2>3 DEF WalkPending, WalkAvailable, Walk
  <2> QED BY <1>9, <2>1, <2>2, <2>3 DEF RowStep
<1>10. CASE RecordStep(c)
  <2>1. CASE Record(c) \/ SetChainRef(c) \/ SetEnvelope(c)
    BY <1>2, <2>1 DEF Record, SetChainRef, SetEnvelope, At, Unsent
  <2>2. CASE Abandon(c) \/ Settle(c) \/ SettleRef(c) \/ Reserve(c)
    BY <1>2, <1>3, <1>5, <1>6, <1>7, <2>2 DEF Abandon, Settle, SettleRef, Reserve
  <2> QED BY <1>10, <2>1, <2>2 DEF RecordStep
<1>11. CASE NetworkStep(c)
  BY <1>2, <1>4, <1>5, <1>7, <1>11 DEF NetworkStep, Rebroadcast, Await, Send
<1>12. CASE BuildStep(c)
  <2>1. built + 1 \in TxIds /\ built + 1 \notin 1..built
    BY <1>12, NodeAssumption DEF BuildStep, Build, Bound, TypeOK, TxIds
  <2>2. call'[c].t = built + 1
    BY <1>3, <1>12 DEF BuildStep, Build
  <2> QED BY <2>1, <2>2 DEF Bound, UnbuiltIsUnknown
<1> QED BY <1>8, <1>9, <1>10, <1>11, <1>12 DEF PublishStep

(* A call that has sent is past sending.                                   *)
LEMMA SentIsPast ==
    ASSUME Bound, NEW c \in Callers, PublishStep(c), At(c, "send") \/ At(c, "rebroadcast"),
           Sent(call[c].t)
    PROVE  call'[c].at \notin Unsent
<1>1. \A l : Goto(c, l) => call'[c].at = l
  BY DEF Goto, Set, Bound, TypeOK
<1>2. \A l, n : GotoWalk(c, l, n) => call'[c].at = l
  BY DEF GotoWalk, Set, Bound, TypeOK
<1>3. NetworkStep(c)
  BY DEF PublishStep, LocalStep, RowStep, RecordStep, BuildStep, Find, Status, PreBroadcastError,
         Monitor, Encrypt, Assemble, Sign, MarkFailed, WalkPending, WalkAvailable, Walk, Abandon,
         Settle, Record, SetChainRef, SettleRef, SetEnvelope, Reserve, Build, BuildLabels, At
<1> QED BY <1>1, <1>2, <1>3 DEF NetworkStep, Rebroadcast, Await, Send, At, Unsent

LEMMA UnsentStays ==
    ASSUME OneOfEach, Bound, Exclusive, NotWrittenOff, [Next]_vars, NEW d \in Callers,
           call'[d].at \in Unsent
    PROVE  node'[call'[d].t] = "unknown"
<1>1. CASE \E c \in Callers : PublishStep(c)
  <2>1. PICK c \in Callers : PublishStep(c)
    BY <1>1
  <2>2. CASE d = c
    <3>1. node[call'[d].t] = "unknown"
      BY <2>1, <2>2, CallComesToSend DEF NotWrittenOff
    <3>2. UNCHANGED node
      <4>1. CASE NetworkStep(c)
        <5>1. At(c, "send") \/ At(c, "rebroadcast") \/ UNCHANGED node
          BY <4>1 DEF NetworkStep, Rebroadcast, Await, Send
        <5>2. ~Sent(call[c].t) \/ ~(At(c, "send") \/ At(c, "rebroadcast"))
          BY <2>1, <2>2, SentIsPast
        <5> QED BY <4>1, <5>1, <5>2
                DEF NetworkStep, Rebroadcast, Await, Send, SendRefused, SendTimedOut, At
      <4> QED BY <2>1, <4>1 DEF PublishStep, LocalStep, RowStep, RecordStep, BuildStep, nodeVars
    <3> QED BY <3>1, <3>2
  <2>3. CASE d # c
    <3>1. call'[d] = call[d]
      BY <2>1, <2>3, OneCallMoves DEF Finish, Set, Bound, TypeOK
    <3>2. /\ node[call[d].t] = "unknown" /\ call[d].t \in 1..built
          /\ owner[call[d].t] = call[d].m /\ ~At(d, "idle")
      BY <3>1, UnsentHaveTx DEF NotWrittenOff, Bound, CallsAreBound, At
    <3>3. CASE UNCHANGED node
      BY <3>1, <3>2, <3>3
    <3>4. CASE NetworkStep(c) /\ (At(c, "send") \/ At(c, "rebroadcast"))
      <4>1. /\ call[c].t \in 1..built /\ owner[call[c].t] = call[c].m /\ ~At(c, "idle")
        BY <3>4, LabelsWithTx DEF Bound, CallsAreBound, At, HasTx, JournalLabels
      <4>2. call[c].t # call[d].t
        BY <2>3, <3>2, <4>1, Apart DEF Exclusive
      <4>3. Sent(call[c].t) \/ UNCHANGED node
        BY <3>4 DEF NetworkStep, Rebroadcast, Await, Send, SendRefused, SendTimedOut
      <4>4. call[d].t \in TxIds /\ call[c].t \in TxIds
        BY <3>2, <4>1 DEF Bound, TypeOK, TxIds
      <4> QED BY <3>1, <3>2, <4>2, <4>3, <4>4 DEF Sent, Bound, TypeOK, NodeTypeOK
    <3> QED BY <2>1, <3>3, <3>4
            DEF PublishStep, LocalStep, RowStep, RecordStep, BuildStep, nodeVars, NetworkStep,
                Rebroadcast, Await, Send
  <2> QED BY <2>2, <2>3
<1>2. CASE Network
  <2>1. PICK t \in TxIds : NodeStep(t)
    BY <1>2 DEF Network
  <2>2. /\ node[t] = "pending" /\ \E a \in NodeStates : node' = [node EXCEPT ![t] = a]
    BY <2>1 DEF NodeStep, Deliver, Exclusive, Commit, Reject, Forget, NodeStates
  <2>3. UNCHANGED call /\ node[call[d].t] = "unknown"
    BY <1>2 DEF Network, NotWrittenOff
  <2> QED BY <2>2, <2>3 DEF Bound, TypeOK, NodeTypeOK
<1>3. CASE \E c \in Callers, m \in Messages : CallStep(c, m)
  <2>1. PICK c \in Callers, m \in Messages : CallStep(c, m)
    BY <1>3
  <2>2. UNCHANGED node /\ (UNCHANGED call \/ Begin(c, m))
    BY <2>1 DEF CallStep, Compose, Retry, SendResponse, nodeVars
  <2>3. Begin(c, m) => d # c
    BY UnsentHaveTx DEF Begin, Set, Bound, TypeOK
  <2>4. Begin(c, m) /\ d # c => call'[d] = call[d]
    BY DEF Begin, Set, Bound, TypeOK
  <2> QED BY <2>2, <2>3, <2>4 DEF NotWrittenOff
<1>4. CASE \E w \in Workers : WorkerStep(w) \/ WorkerError(w)
  BY <1>4 DEF WorkerStep, WorkerError, nodeVars, NotWrittenOff
<1>5. CASE Crash
  BY <1>5, UnsentHaveTx DEF Crash, Idle
<1>6. CASE UNCHANGED vars
  BY <1>6 DEF vars, nodeVars, NotWrittenOff
<1> QED BY <1>1, <1>2, <1>3, <1>4, <1>5, <1>6 DEF Next

LEMMA NextNotWrittenOff ==
    ASSUME OneOfEach, Bound, Exclusive, NotWrittenOff, [Next]_vars
    PROVE  NotWrittenOff'
<1>1. \A t \in TxIds : node[t] = "rejected" => node'[t] = "rejected"
  <2>1. CASE \E c \in Callers :
               (At(c, "send") \/ At(c, "rebroadcast")) /\ Sent(call[c].t) /\ PublishStep(c)
    <3>1. PICK c \in Callers : (At(c, "send") \/ At(c, "rebroadcast")) /\ Sent(call[c].t)
      BY <2>1
    <3>2. node[call[c].t] = "unknown"
      BY <3>1 DEF At, Unsent, NotWrittenOff
    <3> QED BY <3>1, <3>2 DEF Sent, Bound, TypeOK, NodeTypeOK
  <2> QED BY <2>1, NodeMoves DEF Bound, TypeOK, NodeTypeOK
<1>2. \A t \in TxIds : journal'[t] = "rejected" => node[t] = "rejected"
  <2>1. CASE UNCHANGED journal
    BY <2>1 DEF NotWrittenOff
  <2>2. ASSUME NEW t, NEW state, MarkState(t, state), state = "rejected" => node[t] = "rejected"
        PROVE  \A u \in TxIds : journal'[u] = "rejected" => node[u] = "rejected"
    BY <2>2 DEF MarkState, NotWrittenOff, Bound, TypeOK
  <2>3. CASE \E c \in Callers : PublishStep(c)
    <3>1. PICK c \in Callers : PublishStep(c)
      BY <2>3
    <3>2. UNCHANGED journal \/ \E state \in {"abandoned", "committed", "submitted"} :
                                  MarkState(call[c].t, state)
      BY <3>1 DEF PublishStep, LocalStep, RowStep, RecordStep, NetworkStep, BuildStep, Abandon,
                  Settle, Record, dbVars
    <3> QED BY <2>1, <2>2, <3>2
  <2>4. CASE \E w \in Workers : WorkerMark(w)
    BY <2>2, <2>4 DEF WorkerMark, NotWrittenOff
  <2> QED BY <2>1, <2>3, <2>4
          DEF Next, CallStep, WorkerStep, WorkerError, WorkerStart, WorkerAsk, WorkerRead,
              WorkerCommit, WorkerListStranded, WorkerHeal, WorkerDone, WorkerAvail,
              WorkerReserve, Crash, Network, vars, dbVars
<1>3. \A w \in Workers :
        WAt(w, "markRejected")' => run'[w].t \in TxIds /\ node[run'[w].t] = "rejected"
  <2> SUFFICES ASSUME NEW w \in Workers, WAt(w, "markRejected")'
               PROVE  run'[w].t \in TxIds /\ node[run'[w].t] = "rejected"
    OBVIOUS
  <2>1. CASE run'[w] = run[w]
    BY <2>1 DEF NotWrittenOff, WAt
  <2>2. CASE Crash
    BY <2>2 DEF Crash, Asleep, WAt
  <2>3. CASE WorkerError(w)
    BY <2>3 DEF WorkerError, WFinish, Asleep, WAt, Bound, TypeOK
  <2>4. CASE WorkerStep(w)
    <3>1. \A l, x, r, m, t : WSet(w, l, x, r, m, t) => run'[w].at = l /\ run'[w].t = t
      BY DEF WSet, Bound, TypeOK
    <3>2. \A l : WGoto(w, l) => run'[w].at = l
      BY <3>1 DEF WGoto
    <3>3. ~WFinish(w)
      BY DEF WFinish, Asleep, WAt, Bound, TypeOK
    <3>5. run'[w].at = "markRejected"
      BY DEF WAt
    <3>6. ~WorkerStart(w) /\ ~WorkerListStranded(w)
      BY <3>1, <3>5 DEF WorkerStart, WorkerListStranded
    <3>7. ~WorkerMark(w) /\ ~WorkerRead(w)
      BY <3>2, <3>5 DEF WorkerMark, WorkerRead
    <3>8. ~WorkerCommit(w) /\ ~WorkerAvail(w) /\ ~WorkerReserve(w) /\ ~WorkerDone(w)
      BY <3>2, <3>3, <3>5 DEF WorkerCommit, WorkerAvail, WorkerReserve, WorkerDone
    <3>9. ~WorkerHeal(w)
      <4>1. WorkerHeal(w) => \E l \in {"heal", "healCommit", "healAvail"} : \E r, m :
                               WSet(w, l, {}, r, m, NoTx)
        BY DEF WorkerHeal
      <4> QED BY <3>1, <3>5, <4>1
    <3>4. WorkerAsk(w)
      BY <2>4, <3>6, <3>7, <3>8, <3>9 DEF WorkerStep
    <3> QED BY <3>1, <3>4 DEF WorkerAsk, WAt, Bound, TypeOK, Runs
  <2>5. CASE \E v \in Workers : v # w /\ (WorkerStep(v) \/ WorkerError(v))
    <3>1. PICK v \in Workers : v # w /\ (WorkerStep(v) \/ WorkerError(v))
      BY <2>5
    <3>2. \E r : run' = [run EXCEPT ![v] = r]
      BY <3>1 DEF WorkerStep, WorkerError, WorkerStart, WorkerAsk, WorkerMark, WorkerRead,
                  WorkerCommit, WorkerListStranded, WorkerHeal, WorkerDone, WorkerAvail,
                  WorkerReserve, WGoto, WFinish, WSet
    <3> QED BY <2>1, <3>1, <3>2 DEF Bound, TypeOK
  <2> QED BY <2>1, <2>2, <2>3, <2>4, <2>5 DEF Next, CallStep, PublishStep, Network, vars
<1>4. \A c \in Callers : call'[c].at \in Unsent => node'[call'[c].t] = "unknown"
  BY UnsentStays
<1> QED BY <1>1, <1>2, <1>3, <1>4 DEF NotWrittenOff, WAt

LEMMA InitNotWrittenOff ==
    ASSUME Init
    PROVE  NotWrittenOff
BY UnsentHaveTx DEF Init, NodeInit, NotWrittenOff, WAt, Asleep, Idle

(* With one screen, one response sender and no request outliving its       *)
(* caller, the journal's latest record is the only transaction of its      *)
(* message the network ever holds, through every crash, rejection and      *)
(* retry: which is what the resume relies on.                              *)
THEOREM OnlyLatestInPlay == OneOfEach => (Spec => []NetworkHoldsOnlyLatest)
<1> SUFFICES ASSUME OneOfEach
             PROVE  Spec => []NetworkHoldsOnlyLatest
  OBVIOUS
<1>1. Init => Bound /\ Exclusive /\ NotWrittenOff
  BY InitBound, InitExclusive, InitNotWrittenOff
<1>2. (Bound /\ Exclusive /\ NotWrittenOff) /\ [Next]_vars => (Bound /\ Exclusive /\ NotWrittenOff)'
  BY NextBound, NextExclusive, NextNotWrittenOff
<1>3. Exclusive /\ NotWrittenOff => NetworkHoldsOnlyLatest
  BY DEF Exclusive, NotWrittenOff, NetworkHoldsOnlyLatest, InPlay
<1> QED BY <1>1, <1>2, <1>3, PTL DEF Spec

(* ... so a message never has two cells.                                   *)
THEOREM NeverTwoCells == OneOfEach => (Spec => []AtMostOneCell)
<1> SUFFICES ASSUME OneOfEach
             PROVE  Spec => []AtMostOneCell
  OBVIOUS
<1>1. NetworkHoldsOnlyLatest => AtMostOneCell
  BY DEF NetworkHoldsOnlyLatest, LiveIsLatest, AtMostOneCell, Cells, InPlay
<1>2. Spec => []NetworkHoldsOnlyLatest
  BY OnlyLatestInPlay
<1> QED BY <1>1, <1>2, PTL

-----------------------------------------------------------------------------
(***************************************************************************)
(* What the user of a publication is promised: a row shown as sent names   *)
(* the one cell the recipient reads, and Publication implements OnceOnly.  *)
(* Both rest on the invariants above and on two more, about the row a call *)
(* works on and about the ids it has written.                              *)
(***************************************************************************)

(* Up to its broadcast a call works on a row that is not yet waiting for   *)
(* its commit, and it writes its journal record under `submitting`.        *)
EarlyStates == OutgoingStates \ {"pending", "committed", "available_on_chain"}
EarlyLabels == Labels \ ({"idle"} \cup BroadcastLabels)

RowsFollowCalls ==
    \A c \in Callers :
        /\ call[c].at \in EarlyLabels => row[call[c].m] \in EarlyStates
        /\ At(c, "record") => row[call[c].m] = "submitting"

(* The chain ref and the envelope id of a message are those of its latest  *)
(* record, unless the call that made that record has yet to write them, or *)
(* died before it did: then the row stays at `submitting`, where nothing   *)
(* takes it up again, and nothing of the message ever reached the network. *)
Named(m) == chainRef[m] = latest[m] /\ envelope[m] = latest[m]

Unfinished(m) ==
    /\ row[m] = "submitting"
    /\ \A t \in CarriedBy(m) : ~InPlay(t)
    /\ \A c \in Callers :
          ~At(c, "idle") /\ call[c].m = m =>
              \/ At(c, "chainRef")
              \/ At(c, "envelope") /\ chainRef[m] = latest[m]

Naming == \A m \in Messages : Named(m) \/ Unfinished(m)

Promising == Bound /\ Evidence /\ Exclusive /\ RowsFollowCalls /\ Naming

-----------------------------------------------------------------------------
(* The labels by their place in a call.                                    *)
LEMMA EarlyOnes ==
    /\ EarlyLabels = {"find", "fail", "status", "rebroadcast", "await", "awaitOwn", "abandon",
                      "encrypting", "building_transaction", "awaiting_signature", "submitting",
                      "record", "chainRef", "envelope", "send"}
    /\ {"draft", "queued", "encrypting", "building_transaction", "awaiting_signature",
        "submitting", "failed"} \subseteq EarlyStates
    /\ {"pending", "committed", "available_on_chain"} \cap EarlyStates = {}
BY DEF EarlyLabels, EarlyStates, Labels, ResumeLabels, BuildLabels, JournalLabels,
       BroadcastLabels, OutgoingStates

(* Whose message a call may be at; no other call is at it.                 *)
Fits(c, m) == (c \in Screens /\ m \in Texts) \/ (c \in Sweeps /\ m \in Responses)

LEMMA Alone ==
    ASSUME OneOfEach, CallersKeepApart, NEW c \in Callers, NEW m, Fits(c, m)
    PROVE  \A d \in Callers : d # c /\ ~At(d, "idle") => call[d].m # m
BY DEF OneOfEach, CallersKeepApart, Callers, Fits

(* What a step may do to the rows: it moves at most one, as the state      *)
(* machine allows; the worker moves only rows whose message has a cell.    *)
OneRowMoves == UNCHANGED row \/ \E m \in Messages, to \in OutgoingStates : Transition(m, to)

LEMMA RowStepMoves ==
    ASSUME Bound, NEW c \in Callers, PublishStep(c)
    PROVE  UNCHANGED row \/ \E to \in OutgoingStates : Transition(call[c].m, to)
<1>1. CASE Encrypt(c) \/ Assemble(c) \/ Sign(c) \/ MarkFailed(c) \/ Build(c)
  BY <1>1, Names DEF Encrypt, Assemble, Sign, MarkFailed, Build, StepTo, Refused
<1>2. CASE WalkPending(c) \/ WalkAvailable(c)
  <2>1. PICK goal \in {"pending", "available_on_chain"} :
          \/ UNCHANGED row
          \/ /\ ~(call[c].next > PathIndex(goal))
             /\ Transition(call[c].m, PublishPath[call[c].next])
    BY <1>2 DEF WalkPending, WalkAvailable, Walk, Refused
  <2>2. ~(call[c].next > PathIndex(goal)) => PublishPath[call[c].next] \in OutgoingStates
    <3>1. call[c].next \in 1..10 /\ PathIndex(goal) \in 1..9
      BY PathGoals DEF Bound, TypeOK, Calls
    <3> QED BY <3>1, PathStates
  <2> QED BY <2>1, <2>2
<1>3. CASE UNCHANGED row
  BY <1>3
<1> QED BY <1>1, <1>2, <1>3 DEF PublishStep, LocalStep, RowStep, RecordStep, NetworkStep,
           BuildStep, dbVars

LEMMA WorkerMoves ==
    ASSUME Bound, Evidence, NEW w \in Workers, WorkerStep(w)
    PROVE  \/ UNCHANGED row
           \/ \E m \in Messages, to \in {"committed", "available_on_chain"} :
                 Transition(m, to) /\ Cells(m) # {}
<1>1. run[w].at \notin Unsettled => run[w].m \in Messages /\ Cells(run[w].m) # {}
  BY DEF Evidence, RunsHaveEvidence
<1>2. CASE WorkerCommit(w)
  <2>1. run[w].at \notin Unsettled
    BY <1>2 DEF WorkerCommit, WAt, Unsettled
  <2> QED BY <1>1, <1>2, <2>1 DEF WorkerCommit, Refused
<1>3. CASE WorkerAvail(w)
  <2>1. run[w].at \notin Unsettled
    BY <1>3 DEF WorkerAvail, WAt, Unsettled
  <2> QED BY <1>1, <1>3, <2>1 DEF WorkerAvail, Refused
<1>4. CASE UNCHANGED row
  BY <1>4
<1> QED BY <1>2, <1>3, <1>4 DEF WorkerStep, WorkerStart, WorkerAsk, WorkerMark, WorkerRead,
           WorkerListStranded, WorkerHeal, WorkerReserve, WorkerDone

-----------------------------------------------------------------------------
(* The row of a call.  A call that moves on needs its own row where its    *)
(* label says; the rows of the other calls stand still.                    *)
LEMMA SetFollows ==
    ASSUME OneOfEach, Bound, CallersKeepApart, RowsFollowCalls,
           NEW c \in Callers, NEW m \in Messages, Fits(c, m),
           UNCHANGED row \/ \E to : Transition(m, to),
           NEW l, NEW n, NEW t, NEW next, Set(c, l, n, t, next),
           l \in EarlyLabels => n = m /\ row'[m] \in EarlyStates,
           l = "record" => n = m /\ row'[m] = "submitting"
    PROVE  RowsFollowCalls'
<1>1. \A d \in Callers : d # c => call'[d] = call[d]
  BY DEF Set, Bound, TypeOK
<1>2. call'[c].at = l /\ call'[c].m = n
  BY DEF Set, Bound, TypeOK
<1>3. \A d \in Callers : d # c /\ ~At(d, "idle") => row'[call[d].m] = row[call[d].m]
  BY Alone DEF Transition, Bound, TypeOK, CallsAreBound
<1>4. \A d \in Callers : call[d].at \in EarlyLabels \/ At(d, "record") => ~At(d, "idle")
  BY EarlyOnes DEF At
<1> QED BY <1>1, <1>2, <1>3, <1>4 DEF RowsFollowCalls, At

LEMMA CallStepFollows ==
    ASSUME OneOfEach, Promising, NEW c \in Callers, NEW m \in Messages, CallStep(c, m)
    PROVE  RowsFollowCalls'
<1>1. Fits(c, m) /\ Bound /\ CallersKeepApart /\ RowsFollowCalls
  BY DEF CallStep, Compose, Retry, SendResponse, Fits, Promising, Exclusive
<1>2. UNCHANGED row \/ Transition(m, "queued")
  BY DEF CallStep, Compose, Retry, SendResponse
<1>3. row'[m] = "queued"
  BY DEF CallStep, Compose, Retry, SendResponse, Transition, Promising, Bound, TypeOK
<1>4. CASE Begin(c, m)
  <2>1. Set(c, "find", m, NoTx, 1)
    BY <1>4 DEF Begin
  <2> QED BY <1>1, <1>2, <1>3, <2>1, SetFollows, EarlyOnes
<1>5. CASE UNCHANGED call
  <2>1. \A d \in Callers : ~At(d, "idle") /\ d # c => row'[call[d].m] = row[call[d].m]
    BY <1>1, <1>2, Alone DEF Transition, Bound, TypeOK, CallsAreBound
  <2>2. At(c, "idle") \/ Begin(c, m)
    BY <1>5 DEF CallStep, Compose, Retry, SendResponse, Begin
  <2>3. \A d \in Callers : call[d].at \in EarlyLabels \/ At(d, "record") => ~At(d, "idle")
    BY EarlyOnes DEF At
  <2>4. CASE At(c, "idle")
    BY <1>1, <1>5, <2>1, <2>3, <2>4 DEF RowsFollowCalls, At
  <2> QED BY <1>4, <2>2, <2>4
<1> QED BY <1>4, <1>5 DEF CallStep, Compose, Retry, SendResponse

(* A call that stays with its message and leaves its row alone.            *)
LEMMA GotoFollows ==
    ASSUME OneOfEach, Promising, NEW c \in Callers, ~At(c, "idle"),
           UNCHANGED row \/ \E to : Transition(call[c].m, to),
           NEW l, NEW t, NEW next, Set(c, l, call[c].m, t, next),
           l \in EarlyLabels => row'[call[c].m] \in EarlyStates,
           l = "record" => row'[call[c].m] = "submitting"
    PROVE  RowsFollowCalls'
<1>1. call[c].m \in Messages /\ Fits(c, call[c].m)
  BY DEF Promising, Bound, CallsAreBound, Exclusive, CallersKeepApart, Fits
<1> QED BY <1>1, SetFollows DEF Promising, Exclusive

LEMMA FinishFollows ==
    ASSUME OneOfEach, Promising, NEW c \in Callers, ~At(c, "idle"), Finish(c),
           UNCHANGED row \/ \E to : Transition(call[c].m, to)
    PROVE  RowsFollowCalls'
<1>1. call[c].m \in Messages /\ Fits(c, call[c].m)
  BY DEF Promising, Bound, CallsAreBound, Exclusive, CallersKeepApart, Fits
<1>2. Set(c, "idle", NoMessage, NoTx, 1)
  BY DEF Finish, Set, Idle
<1>3. "idle" \notin EarlyLabels
  BY EarlyOnes
<1> QED BY <1>1, <1>2, <1>3, SetFollows DEF Promising, Exclusive

(* A call at a label before its broadcast is at an early row; a step that  *)
(* leaves the row alone keeps it so.                                       *)
LEMMA StayFollows ==
    ASSUME OneOfEach, Promising, NEW c \in Callers, ~At(c, "idle"), UNCHANGED row,
           NEW l, NEW t, NEW next, Set(c, l, call[c].m, t, next),
           l # "record", l \in EarlyLabels => call[c].at \in EarlyLabels
    PROVE  RowsFollowCalls'
<1>1. call[c].at \in EarlyLabels => row[call[c].m] \in EarlyStates
  BY DEF Promising, RowsFollowCalls
<1> QED BY <1>1, GotoFollows

LEMMA LocalStepFollows ==
    ASSUME OneOfEach, Promising, NEW c \in Callers, LocalStep(c)
    PROVE  RowsFollowCalls'
<1>1. UNCHANGED row
  BY DEF LocalStep, dbVars
<1>2. CASE Find(c)
  <2>1. PICK l, t : l \in {"encrypting", "status"} /\ Set(c, l, call[c].m, t, call[c].next)
    BY <1>2 DEF Find, Goto, GotoWith
  <2> QED BY <1>1, <1>2, <2>1, StayFollows, EarlyOnes DEF Find, At
<1>3. CASE Status(c)
  <2>1. PICK l, next : /\ l \in {"walkPending", "abandon", "await", "rebroadcast"}
                       /\ Set(c, l, call[c].m, call[c].t, next)
    BY <1>3 DEF Status, PlanWalk, Goto, GotoWalk
  <2> QED BY <1>1, <1>3, <2>1, StayFollows, EarlyOnes DEF Status, At
<1>4. CASE PreBroadcastError(c)
  <2>1. Set(c, "fail", call[c].m, call[c].t, call[c].next)
    BY <1>4 DEF PreBroadcastError, Goto
  <2> QED BY <1>1, <1>4, <2>1, StayFollows, EarlyOnes DEF PreBroadcastError, At, BuildLabels
<1>5. CASE Monitor(c)
  <2>1. ~At(c, "idle")
    BY <1>5 DEF Monitor, At
  <2>2. CASE Goto(c, "settle")
    BY <1>1, <2>1, <2>2, StayFollows, EarlyOnes DEF Goto
  <2> QED BY <1>1, <1>5, <2>1, <2>2, FinishFollows DEF Monitor
<1> QED BY <1>2, <1>3, <1>4, <1>5 DEF LocalStep

LEMMA RowStepFollows ==
    ASSUME OneOfEach, Promising, NEW c \in Callers, RowStep(c), PublishStep(c)
    PROVE  RowsFollowCalls'
<1>1. UNCHANGED row \/ \E to : Transition(call[c].m, to)
  BY RowStepMoves DEF Promising
<1>2. CASE Encrypt(c) \/ Assemble(c) \/ Sign(c)
  <2>1. /\ ~At(c, "idle") /\ call[c].at \in EarlyLabels /\ call[c].m \in Messages
        /\ row[call[c].m] \in EarlyStates
    BY <1>2, EarlyOnes
       DEF Encrypt, Assemble, Sign, At, Promising, RowsFollowCalls, Bound, CallsAreBound
  <2>2. PICK to, l :
          /\ Set(c, l, call[c].m, call[c].t, call[c].next)
          /\ \/ /\ Transition(call[c].m, to)
                /\ to \in {"encrypting", "building_transaction", "submitting"}
                /\ l = "record" => to = "submitting"
             \/ UNCHANGED row /\ l = "fail"
    BY <1>2 DEF Encrypt, Assemble, Sign, StepTo, Refused, Goto
  <2>3. /\ row'[call[c].m] \in EarlyStates
        /\ l = "record" => row'[call[c].m] = "submitting"
    BY <2>1, <2>2, EarlyOnes DEF Transition, Promising, Bound, TypeOK
  <2> QED BY <1>1, <2>1, <2>2, <2>3, GotoFollows
<1>3. CASE MarkFailed(c)
  BY <1>1, <1>3, FinishFollows DEF MarkFailed, At
<1>4. CASE WalkPending(c) \/ WalkAvailable(c)
  <2>1. ~At(c, "idle")
    BY <1>4 DEF WalkPending, WalkAvailable, Walk, At
  <2>2. CASE Finish(c)
    BY <1>1, <2>1, <2>2, FinishFollows
  <2>3. CASE ~Finish(c)
    <3>1. PICK l, next : /\ l \in {"walkPending", "monitor", "walkAvailable", "reserve"}
                         /\ Set(c, l, call[c].m, call[c].t, next)
      BY <1>4, <2>3 DEF WalkPending, WalkAvailable, Walk, Goto, GotoWalk
    <3> QED BY <1>1, <2>1, <3>1, GotoFollows, EarlyOnes
  <2> QED BY <2>2, <2>3
<1> QED BY <1>2, <1>3, <1>4 DEF RowStep

LEMMA RecordStepFollows ==
    ASSUME OneOfEach, Promising, NEW c \in Callers, RecordStep(c)
    PROVE  RowsFollowCalls'
<1>1. UNCHANGED row
  BY DEF RecordStep
<1>2. CASE Reserve(c)
  BY <1>1, <1>2, FinishFollows DEF Reserve, At
<1>3. CASE Abandon(c) \/ Record(c) \/ SetChainRef(c) \/ SetEnvelope(c)
  <2>1. PICK l, t : /\ l \in {"encrypting", "chainRef", "envelope", "send"}
                    /\ Set(c, l, call[c].m, t, call[c].next)
    BY <1>3 DEF Abandon, Record, SetChainRef, SetEnvelope, Goto, GotoWith
  <2> QED BY <1>1, <1>3, <2>1, StayFollows, EarlyOnes
          DEF Abandon, Record, SetChainRef, SetEnvelope, At
<1>4. CASE Settle(c) \/ SettleRef(c)
  <2>1. PICK l, next : /\ l \in {"settleRef", "walkAvailable"}
                       /\ Set(c, l, call[c].m, call[c].t, next)
    BY <1>4 DEF Settle, SettleRef, PlanWalk, Goto, GotoWalk
  <2> QED BY <1>1, <1>4, <2>1, StayFollows, EarlyOnes DEF Settle, SettleRef, At
<1> QED BY <1>2, <1>3, <1>4 DEF RecordStep

LEMMA NetworkStepFollows ==
    ASSUME OneOfEach, Promising, NEW c \in Callers, NetworkStep(c)
    PROVE  RowsFollowCalls'
<1>1. UNCHANGED row
  BY DEF NetworkStep, dbVars
<1>2. call[c].at \in EarlyLabels /\ ~At(c, "idle")
  BY EarlyOnes DEF NetworkStep, Rebroadcast, Await, Send, At
<1>3. PICK l, next : /\ l \in {"awaitOwn", "abandon", "fail", "walkPending"}
                     /\ Set(c, l, call[c].m, call[c].t, next)
  BY DEF NetworkStep, Rebroadcast, Await, Send, PlanWalk, Goto, GotoWalk
<1> QED BY <1>1, <1>2, <1>3, StayFollows, EarlyOnes

LEMMA BuildStepFollows ==
    ASSUME OneOfEach, Promising, NEW c \in Callers, BuildStep(c), PublishStep(c)
    PROVE  RowsFollowCalls'
<1>1. UNCHANGED row \/ \E to : Transition(call[c].m, to)
  BY RowStepMoves DEF Promising
<1>2. /\ ~At(c, "idle") /\ call[c].at \in EarlyLabels /\ call[c].m \in Messages
      /\ row[call[c].m] \in EarlyStates
  BY EarlyOnes DEF BuildStep, Build, At, Promising, RowsFollowCalls, Bound, CallsAreBound
<1>3. PICK l, t :
        /\ Set(c, l, call[c].m, t, call[c].next)
        /\ l \in {"submitting", "fail"}
        /\ Transition(call[c].m, "awaiting_signature") \/ UNCHANGED row
  BY DEF BuildStep, Build, Refused, GotoWith
<1>4. row'[call[c].m] \in EarlyStates
  BY <1>2, <1>3, EarlyOnes DEF Transition, Promising, Bound, TypeOK
<1> QED BY <1>1, <1>2, <1>3, <1>4, GotoFollows

(* The worker leaves an early row alone.                                   *)
LEMMA WorkerSpares ==
    ASSUME Promising, NEW w \in Workers, WorkerStep(w) \/ WorkerError(w)
    PROVE  \A m \in Messages : row'[m] # row[m] => Cells(m) # {} /\ row[m] \notin EarlyStates
<1>1. CASE UNCHANGED row
  BY <1>1
<1>2. CASE \E m \in Messages, to \in {"committed", "available_on_chain"} :
              Transition(m, to) /\ Cells(m) # {}
  <2>1. PICK m \in Messages, to \in {"committed", "available_on_chain"} :
          Transition(m, to) /\ Cells(m) # {}
    BY <1>2
  <2>2. row[m] \in OutgoingStates /\ \A n \in Messages : n # m => row'[n] = row[n]
    BY <2>1 DEF Transition, Promising, Bound, TypeOK
  <2>3. row[m] \in {"pending", "committed", "available_on_chain"}
    BY <2>1, <2>2, SentIsReachedInOrder DEF Transition
  <2> QED BY <2>1, <2>2, <2>3, EarlyOnes
<1> QED BY <1>1, <1>2, WorkerMoves DEF WorkerError, dbVars, Promising

LEMMA NextFollows ==
    ASSUME OneOfEach, Promising, [Next]_vars
    PROVE  RowsFollowCalls'
<1>1. CASE \E c \in Callers, m \in Messages : CallStep(c, m)
  BY <1>1, CallStepFollows
<1>2. CASE \E c \in Callers : PublishStep(c)
  BY <1>2, LocalStepFollows, RowStepFollows, RecordStepFollows, NetworkStepFollows,
     BuildStepFollows DEF PublishStep
<1>3. CASE \E w \in Workers : WorkerStep(w) \/ WorkerError(w)
  <2>1. UNCHANGED call
    BY <1>3 DEF WorkerStep, WorkerError
  <2>2. \A c \in Callers : call[c].at \in EarlyLabels => call[c].m \in Messages
    BY EarlyOnes DEF Promising, Bound, CallsAreBound, At
  <2>3. \A c \in Callers : call[c].at \in EarlyLabels => row'[call[c].m] = row[call[c].m]
    BY <1>3, <2>2, WorkerSpares DEF Promising, RowsFollowCalls
  <2> QED BY <2>1, <2>3, EarlyOnes DEF Promising, RowsFollowCalls, At
<1>4. CASE Crash
  <2>1. \A c \in Callers : call'[c].at = "idle"
    BY <1>4 DEF Crash, Idle
  <2> QED BY <2>1, EarlyOnes DEF RowsFollowCalls, At
<1>5. CASE Network \/ UNCHANGED vars
  <2>1. UNCHANGED <<call, row>>
    BY <1>5 DEF Network, vars, dbVars
  <2> QED BY <2>1 DEF Promising, RowsFollowCalls, At
<1> QED BY <1>1, <1>2, <1>3, <1>4, <1>5 DEF Next

-----------------------------------------------------------------------------
(* The ids.  A step of one call touches the ids, the row and the           *)
(* transactions of its own message only, so the others stay as they were;  *)
(* what is left to show of each step is its own message.                   *)
LEMMA NamingOf ==
    ASSUME OneOfEach, Promising, NEW c \in Callers, NEW m \in Messages, Fits(c, m),
           \A n \in Messages : n # m =>
               /\ row'[n] = row[n] /\ latest'[n] = latest[n]
               /\ chainRef'[n] = chainRef[n] /\ envelope'[n] = envelope[n],
           \A d \in Callers : d # c => call'[d] = call[d],
           call'[c].at = "idle" \/ call'[c].m = m,
           \A t \in TxIds : owner'[t] = m \/ (owner'[t] = owner[t] /\ node'[t] = node[t]),
           Named(m)' \/ Unfinished(m)'
    PROVE  Naming'
<1> SUFFICES ASSUME NEW n \in Messages, n # m
             PROVE  Named(n)' \/ Unfinished(n)'
  BY DEF Naming
<1>1. CASE Named(n)
  BY <1>1 DEF Named
<1>2. CASE Unfinished(n)
  <2>1. \A t \in CarriedBy(n)' : ~(node'[t] \in {"pending", "committed"})
    BY <1>2 DEF Unfinished, CarriedBy, InPlay
  <2>2. \A d \in Callers :
          call'[d].at # "idle" /\ call'[d].m = n =>
              \/ call'[d].at = "chainRef"
              \/ call'[d].at = "envelope" /\ chainRef'[n] = latest'[n]
    BY <1>2 DEF Unfinished, At
  <2> QED BY <1>2, <2>1, <2>2 DEF Unfinished, At, InPlay
<1> QED BY <1>1, <1>2 DEF Promising, Naming

(* A call anywhere but between its record and its envelope id finds the    *)
(* ids of its message in order.                                            *)
LEMMA InOrder ==
    ASSUME Promising, NEW c \in Callers, call[c].at \notin {"idle", "chainRef", "envelope"}
    PROVE  /\ call[c].m \in Messages
           /\ Named(call[c].m)
BY DEF Promising, Bound, CallsAreBound, Naming, Unfinished, At

LEMMA CallStepNames ==
    ASSUME OneOfEach, Promising, NEW c \in Callers, NEW m \in Messages, CallStep(c, m)
    PROVE  Naming'
<1>1. Fits(c, m) /\ row[m] # "submitting"
  BY DEF CallStep, Compose, Retry, SendResponse, Fits
<1>2. Named(m)'
  BY <1>1 DEF Promising, Naming, Unfinished, Named, CallStep, refVars
<1>3. UNCHANGED row \/ Transition(m, "queued")
  BY DEF CallStep, Compose, Retry, SendResponse
<1>4. UNCHANGED <<latest, chainRef, envelope, owner, node>>
  BY DEF CallStep, refVars, walletVars, nodeVars
<1>5. \A n \in Messages : n # m => row'[n] = row[n]
  BY <1>3 DEF Transition, Promising, Bound, TypeOK
<1>6. CASE Begin(c, m)
  <2>1. (\A d \in Callers : d # c => call'[d] = call[d]) /\ call'[c].m = m
    BY <1>6 DEF Begin, Set, Promising, Bound, TypeOK
  <2> QED BY <1>1, <1>2, <1>4, <1>5, <2>1, NamingOf
<1>7. CASE UNCHANGED call /\ At(c, "idle")
  BY <1>1, <1>2, <1>4, <1>5, <1>7, NamingOf DEF At
<1> QED BY <1>6, <1>7 DEF CallStep, Compose, Retry, SendResponse, Begin

(* What a step of a call leaves of the others.                             *)
LEMMA PublishStepFrame ==
    ASSUME Promising, NEW c \in Callers, PublishStep(c)
    PROVE  /\ call[c].m \in Messages /\ Fits(c, call[c].m) /\ ~At(c, "idle")
           /\ \A d \in Callers : d # c => call'[d] = call[d]
           /\ call'[c].at = "idle" \/ call'[c].m = call[c].m
<1>1. ~At(c, "idle")
  BY DEF PublishStep, LocalStep, Find, Status, PreBroadcastError, Monitor, RowStep, Encrypt,
         Assemble, Sign, MarkFailed, WalkPending, WalkAvailable, Walk, RecordStep, Abandon,
         Settle, Record, SetChainRef, SettleRef, SetEnvelope, Reserve, NetworkStep,
         Rebroadcast, Await, Send, BuildStep, Build, BuildLabels, At
<1>2. call[c].m \in Messages /\ Fits(c, call[c].m)
  BY <1>1 DEF Promising, Bound, CallsAreBound, Exclusive, CallersKeepApart, Fits
<1>3. Finish(c) \/ \E l, t, next : Set(c, l, call[c].m, t, next)
  BY OneCallMoves
<1>4. CASE Finish(c)
  BY <1>1, <1>2, <1>4 DEF Finish, Idle, Promising, Bound, TypeOK
<1>5. CASE \E l, t, next : Set(c, l, call[c].m, t, next)
  BY <1>1, <1>2, <1>5 DEF Set, Promising, Bound, TypeOK
<1> QED BY <1>3, <1>4, <1>5

(* So a step of a call is judged by what it leaves of its own message.     *)
LEMMA NamedStep ==
    ASSUME OneOfEach, Promising, NEW c \in Callers, PublishStep(c),
           NEW m \in Messages, m = call[c].m,
           \A n \in Messages : n # m =>
               /\ latest'[n] = latest[n] /\ chainRef'[n] = chainRef[n]
               /\ envelope'[n] = envelope[n],
           \A t \in TxIds : owner'[t] = m \/ (owner'[t] = owner[t] /\ node'[t] = node[t]),
           Named(m)' \/ Unfinished(m)'
    PROVE  Naming'
<1>1. \A n \in Messages : n # m => row'[n] = row[n]
  BY RowStepMoves DEF Transition, Promising, Bound, TypeOK
<1>2. Fits(c, m) /\ (call'[c].at = "idle" \/ call'[c].m = m)
      /\ \A d \in Callers : d # c => call'[d] = call[d]
  BY PublishStepFrame
<1> QED BY <1>1, <1>2, NamingOf

(* A journal record makes a transaction the latest one of its message; the *)
(* row is at `submitting`, and nothing of the message is at the network.   *)
LEMMA RecordNames ==
    ASSUME OneOfEach, Promising, NEW c \in Callers, PublishStep(c), RecordStep(c), Record(c)
    PROVE  Naming'
<1>1. PICK m \in Messages : m = call[c].m
  BY PublishStepFrame
<1>2. UNCHANGED <<row, node, owner, chainRef, envelope>>
  BY DEF RecordStep, nodeVars, walletVars, Record, Abandon, Settle, SetChainRef, SettleRef,
         SetEnvelope, Reserve, At, refVars
<1>3. \A n \in Messages : n # m => latest'[n] = latest[n]
  BY <1>1 DEF Record, Promising, Bound, TypeOK
<1>4. row[m] = "submitting"
  BY <1>1 DEF Record, Promising, RowsFollowCalls
<1>5. \A t \in CarriedBy(m) : ~InPlay(t)
  BY <1>1, ExclusiveLabels DEF Record, At, Promising, Exclusive, CallsFollowJournal
<1>6. \A d \in Callers : d # c /\ ~At(d, "idle") => call[d].m # m
  BY <1>1, PublishStepFrame, Alone DEF Promising, Exclusive
<1>7. call'[c].at = "chainRef" /\ \A d \in Callers : d # c => call'[d] = call[d]
  BY DEF Record, Goto, Set, Promising, Bound, TypeOK
<1>8. Unfinished(m)'
  BY <1>2, <1>4, <1>5, <1>6, <1>7 DEF Unfinished, CarriedBy, InPlay, At
<1> QED BY <1>1, <1>2, <1>3, <1>8, NamedStep

(* The chain ref and the envelope id follow, in that order.                *)
LEMMA RefNames ==
    ASSUME OneOfEach, Promising, NEW c \in Callers, PublishStep(c), RecordStep(c),
           SetChainRef(c) \/ SettleRef(c) \/ SetEnvelope(c)
    PROVE  Naming'
<1>1. PICK m \in Messages : m = call[c].m
  BY PublishStepFrame
<1>2. UNCHANGED <<row, node, owner, latest>>
  BY DEF RecordStep, nodeVars, walletVars, Record, Abandon, Settle, SetChainRef, SettleRef,
         SetEnvelope, Reserve, At, refVars
<1>3. call[c].t = latest[m]
  BY <1>1, ExclusiveLabels, LabelsWithTx
     DEF SetChainRef, SettleRef, SetEnvelope, At, Promising, Exclusive, CallsFollowJournal
<1>4. Named(m) \/ Unfinished(m)
  BY DEF Promising, Naming
<1>5. \A d \in Callers : d # c /\ ~At(d, "idle") => call[d].m # m
  BY <1>1, PublishStepFrame, Alone DEF Promising, Exclusive
<1>6. CASE SetChainRef(c) \/ SettleRef(c)
  <2>1. UNCHANGED envelope /\ chainRef' = [chainRef EXCEPT ![m] = latest[m]]
    BY <1>1, <1>3, <1>6
       DEF RecordStep, Record, Abandon, Settle, SetChainRef, SettleRef, SetEnvelope, Reserve,
           At, refVars
  <2>2. chainRef'[m] = latest[m] /\ \A n \in Messages : n # m => chainRef'[n] = chainRef[n]
    BY <2>1 DEF Promising, Bound, TypeOK
  <2>3. CASE Named(m)
    <3>1. Named(m)'
      BY <1>2, <2>1, <2>2, <2>3 DEF Named
    <3> QED BY <1>1, <1>2, <2>1, <2>2, <3>1, NamedStep
  <2>4. CASE Unfinished(m)
    <3>1. SetChainRef(c)
      BY <1>1, <1>6, <2>4 DEF SettleRef, At, Unfinished
    <3>2. call'[c].at = "envelope" /\ \A d \in Callers : d # c => call'[d] = call[d]
      BY <3>1 DEF SetChainRef, Goto, Set, Promising, Bound, TypeOK
    <3>3. Unfinished(m)'
      BY <1>2, <1>5, <2>2, <2>4, <3>2 DEF Unfinished, CarriedBy, InPlay, At
    <3> QED BY <1>1, <1>2, <2>1, <2>2, <3>3, NamedStep
  <2> QED BY <1>4, <2>3, <2>4
<1>7. CASE SetEnvelope(c)
  <2>1. UNCHANGED chainRef /\ envelope' = [envelope EXCEPT ![m] = latest[m]]
    BY <1>1, <1>3, <1>7
       DEF RecordStep, Record, Abandon, Settle, SetChainRef, SettleRef, SetEnvelope, Reserve,
           At, refVars
  <2>2. envelope'[m] = latest[m] /\ \A n \in Messages : n # m => envelope'[n] = envelope[n]
    BY <2>1 DEF Promising, Bound, TypeOK
  <2>3. chainRef[m] = latest[m]
    BY <1>1, <1>4, <1>7 DEF SetEnvelope, At, Named, Unfinished
  <2>4. Named(m)'
    BY <1>2, <2>1, <2>2, <2>3 DEF Named
  <2> QED BY <1>1, <1>2, <2>1, <2>2, <2>4, NamedStep
<1> QED BY <1>6, <1>7

(* Every other step of a call leaves the ids, which are in order.          *)
LEMMA OtherStepNames ==
    ASSUME OneOfEach, Promising, NEW c \in Callers, PublishStep(c), UNCHANGED refVars
    PROVE  Naming'
<1>1. PICK m \in Messages : m = call[c].m
  BY PublishStepFrame
<1>2. UNCHANGED <<latest, chainRef, envelope>>
  BY DEF refVars
<1>3. CASE Named(m)
  <2>1. Named(m)'
    BY <1>2, <1>3 DEF Named
  <2>2. \A t \in TxIds : owner'[t] = m \/ (owner'[t] = owner[t] /\ node'[t] = node[t])
    <3>1. CASE BuildStep(c)
      <4>1. owner' = [owner EXCEPT ![built + 1] = m] /\ UNCHANGED node
        BY <1>1, <3>1 DEF BuildStep, Build
      <4> QED BY <4>1 DEF Promising, Bound, TypeOK
    <3>2. CASE NetworkStep(c)
      <4>1. UNCHANGED owner /\ (UNCHANGED node \/ node' = [node EXCEPT ![call[c].t] = "pending"])
        BY <3>2 DEF NetworkStep, Rebroadcast, Await, Send, Sent, SendRefused, SendTimedOut
      <4>2. owner[call[c].t] = m
        BY <1>1, <3>2, LabelsWithTx
           DEF NetworkStep, Rebroadcast, Await, Send, At, Promising, Bound, CallsAreBound
      <4> QED BY <4>1, <4>2 DEF Promising, Bound, TypeOK, NodeTypeOK
    <3>3. CASE LocalStep(c) \/ RowStep(c) \/ RecordStep(c)
      BY <3>3 DEF LocalStep, RowStep, RecordStep, nodeVars, walletVars
    <3> QED BY <3>1, <3>2, <3>3 DEF PublishStep
  <2> QED BY <1>1, <1>2, <2>1, <2>2, NamedStep
<1>4. CASE ~Named(m)
  <2>1. At(c, "chainRef") \/ At(c, "envelope")
    BY <1>1, <1>4, InOrder, PublishStepFrame DEF At
  <2>2. SetChainRef(c) \/ SetEnvelope(c)
    BY <2>1
       DEF PublishStep, LocalStep, Find, Status, PreBroadcastError, Monitor, RowStep, Encrypt,
           Assemble, Sign, MarkFailed, WalkPending, WalkAvailable, Walk, RecordStep, Abandon,
           Settle, Record, SettleRef, Reserve, NetworkStep, Rebroadcast, Await, Send,
           BuildStep, Build, BuildLabels, At
  <2>3. RecordStep(c)
    BY <2>2
       DEF PublishStep, LocalStep, Find, Status, PreBroadcastError, Monitor, RowStep, Encrypt,
           Assemble, Sign, MarkFailed, WalkPending, WalkAvailable, Walk, SetChainRef,
           SetEnvelope, NetworkStep, Rebroadcast, Await, Send, BuildStep, Build, BuildLabels,
           At
  <2> QED BY <2>2, <2>3, RefNames
<1> QED BY <1>3, <1>4

LEMMA NextNames ==
    ASSUME OneOfEach, Promising, [Next]_vars
    PROVE  Naming'
<1>1. CASE \E c \in Callers, m \in Messages : CallStep(c, m)
  BY <1>1, CallStepNames
<1>2. CASE \E c \in Callers : PublishStep(c)
  <2>1. PICK c \in Callers : PublishStep(c)
    BY <1>2
  <2>2. \/ RecordStep(c) /\ Record(c)
        \/ RecordStep(c) /\ (SetChainRef(c) \/ SettleRef(c) \/ SetEnvelope(c))
        \/ UNCHANGED refVars
    BY <2>1 DEF PublishStep, LocalStep, RowStep, RecordStep, NetworkStep, BuildStep, dbVars
  <2> QED BY <2>1, <2>2, RecordNames, RefNames, OtherStepNames
<1>3. CASE \E w \in Workers : WorkerStep(w) \/ WorkerError(w)
  <2>1. UNCHANGED <<latest, chainRef, envelope, node, owner, call>>
    BY <1>3 DEF WorkerStep, WorkerError, refVars, dbVars, walletVars, nodeVars
  <2>2. \A m \in Messages : Unfinished(m) => row'[m] = row[m]
    <3>1. \A m \in Messages : Unfinished(m) => Cells(m) = {}
      BY DEF Unfinished, Cells, InPlay
    <3> QED BY <1>3, <3>1, WorkerSpares
  <2> QED BY <2>1, <2>2 DEF Promising, Naming, Named, Unfinished, CarriedBy, InPlay, At
<1>4. CASE Crash
  <2>1. UNCHANGED <<row, latest, chainRef, envelope, node, owner>>
    BY <1>4 DEF Crash, dbVars, refVars
  <2>2. \A c \in Callers : call'[c].at = "idle"
    BY <1>4 DEF Crash, Idle
  <2> QED BY <2>1, <2>2 DEF Promising, Naming, Named, Unfinished, CarriedBy, InPlay, At
<1>5. CASE Network
  <2>1. UNCHANGED <<row, latest, chainRef, envelope, owner, call>>
    BY <1>5 DEF Network, dbVars, refVars, walletVars
  <2>2. \A u \in TxIds : node'[u] \in {"pending", "committed"} => InPlay(u)
    BY <1>5 DEF Network, NodeStep, Commit, Reject, Forget, Deliver, InPlay, Promising,
           Exclusive, Bound, TypeOK, NodeTypeOK
  <2> QED BY <2>1, <2>2 DEF Promising, Naming, Named, Unfinished, CarriedBy, InPlay, At
<1>6. CASE UNCHANGED vars
  BY <1>6 DEF vars, nodeVars, dbVars, refVars, walletVars, Promising, Naming, Named, Unfinished,
         CarriedBy, InPlay, At
<1> QED BY <1>1, <1>2, <1>3, <1>4, <1>5, <1>6 DEF Next

LEMMA PromisingHolds == OneOfEach => (Spec => []Promising)
<1> SUFFICES ASSUME OneOfEach
             PROVE  Spec => []Promising
  OBVIOUS
<1>1. Init => Promising
  <2> SUFFICES ASSUME Init
               PROVE  RowsFollowCalls /\ Naming
    BY InitBound, InitEvident, InitExclusive DEF Promising
  <2>1. RowsFollowCalls
    BY EarlyOnes DEF Init, RowsFollowCalls, Idle, At
  <2>2. Naming
    BY DEF Init, Naming, Named
  <2> QED BY <2>1, <2>2
<1>2. Promising /\ [Next]_vars => Promising'
  <2> SUFFICES ASSUME Promising, [Next]_vars
               PROVE  Promising'
    OBVIOUS
  <2>1. Bound' /\ Evidence' /\ Exclusive'
    BY NextBound, NextEvident, NextExclusive DEF Promising
  <2> QED BY <2>1, NextFollows, NextNames DEF Promising
<1> QED BY <1>1, <1>2, PTL DEF Spec

(* With one screen, one response sender and no request outliving its       *)
(* caller: a row shown as sent carries the envelope id and the chain ref   *)
(* of a committed cell of its message, and they are the same one, after    *)
(* any number of crashes, abandoned builds and retries.                    *)
THEOREM SentRowsNameTheirCell == OneOfEach => (Spec => []SentNamesItsCell)
<1> SUFFICES ASSUME OneOfEach
             PROVE  Spec => []SentNamesItsCell
  OBVIOUS
<1>1. Promising => SentNamesItsCell
  <2> SUFFICES ASSUME Promising, NEW m \in Messages, ShownAsSent(m)
               PROVE  envelope[m] \in Cells(m) /\ chainRef[m] = envelope[m]
    BY DEF SentNamesItsCell
  <2>1. PICK t : t \in Cells(m)
    BY DEF Promising, Evidence, SentIsOnChain
  <2>2. latest[m] = t
    BY <2>1 DEF Promising, Exclusive, LiveIsLatest, Cells, InPlay
  <2>3. Named(m)
    BY DEF Promising, Naming, Unfinished, ShownAsSent
  <2> QED BY <2>1, <2>2, <2>3 DEF Named
<1> QED BY <1>1, PromisingHolds, PTL

-----------------------------------------------------------------------------
(***************************************************************************)
(* Publication implements OnceOnly.  A step of the code is a step of the   *)
(* promise: the commit of a transaction lands its message, a move of a row *)
(* to a sent state tells the user, and everything else is a stutter.       *)
(***************************************************************************)

(* Nothing lands but by a commit, of one transaction at a time.            *)
LEMMA Lands ==
    ASSUME Promising, [Next]_vars
    PROVE  \/ \A m \in Messages : Cells(m)' = Cells(m)
           \/ /\ UNCHANGED <<row, owner>>
              /\ \E t \in TxIds : node[t] = "pending" /\ node' = [node EXCEPT ![t] = "committed"]
<1>1. CASE \E c \in Callers : BuildStep(c)
  <2>1. PICK c \in Callers : BuildStep(c)
    BY <1>1
  <2>2. UNCHANGED node /\ owner' = [owner EXCEPT ![built + 1] = call[c].m]
    BY <2>1 DEF BuildStep, Build
  <2>3. built + 1 \notin 1..built
    BY DEF Promising, Bound, TypeOK
  <2> QED BY <2>2, <2>3 DEF Cells, CarriedBy, Promising, Bound, UnbuiltIsUnknown, TypeOK
<1>2. CASE \E c \in Callers : NetworkStep(c)
  <2>1. UNCHANGED owner
    BY <1>2 DEF NetworkStep
  <2>2. \A t \in TxIds : node'[t] = "committed" <=> node[t] = "committed"
    BY <1>2 DEF NetworkStep, Rebroadcast, Await, Send, Sent, SendRefused, SendTimedOut,
           Accepted, InPlay, Promising, Bound, TypeOK, NodeTypeOK
  <2> QED BY <2>1, <2>2 DEF Cells, CarriedBy
<1>3. CASE Network
  <2>1. UNCHANGED <<row, owner>>
    BY <1>3 DEF Network, dbVars, walletVars
  <2>2. PICK t \in TxIds : NodeStep(t)
    BY <1>3 DEF Network
  <2>3. CASE Commit(t)
    BY <2>1, <2>3 DEF Commit
  <2>4. CASE Reject(t) \/ Forget(t) \/ Deliver(t)
    <3>1. \A u \in TxIds : node'[u] = "committed" <=> node[u] = "committed"
      BY <2>4 DEF Reject, Forget, Deliver, Accepted, InPlay, Promising, Bound, TypeOK,
             NodeTypeOK
    <3> QED BY <2>1, <3>1 DEF Cells, CarriedBy
  <2> QED BY <2>2, <2>3, <2>4 DEF NodeStep
<1>4. CASE UNCHANGED <<node, owner>>
  BY <1>4 DEF Cells, CarriedBy
<1>5. \/ \E c \in Callers : BuildStep(c) \/ NetworkStep(c)
      \/ Network
      \/ UNCHANGED <<node, owner>>
  BY DEF Next, CallStep, PublishStep, LocalStep, RowStep, RecordStep, WorkerStep, WorkerError,
         Crash, vars, nodeVars, walletVars
<1> QED BY <1>1, <1>2, <1>3, <1>4, <1>5

(* One row moves at a time, and none shown as sent is called failed.       *)
LEMMA Tells ==
    ASSUME OneOfEach, Promising, [Next]_vars
    PROVE  UNCHANGED row \/ \E m \in Messages :
              /\ \A n \in Messages : n # m => row'[n] = row[n]
              /\ ShownAsSent(m) => row'[m] \in {"committed", "available_on_chain"}
<1>1. ASSUME NEW m \in Messages, NEW to \in OutgoingStates, Transition(m, to),
             ShownAsSent(m) => to \notin {"failed", "downloaded_by_recipient"}
      PROVE  \E n \in Messages :
                /\ \A k \in Messages : k # n => row'[k] = row[k]
                /\ ShownAsSent(n) => row'[n] \in {"committed", "available_on_chain"}
  <2>1. /\ \A k \in Messages : k # m => row'[k] = row[k]
        /\ row'[m] = to /\ Accepts(row[m], to) /\ row[m] \in OutgoingStates
    BY <1>1 DEF Transition, Promising, Bound, TypeOK
  <2> QED BY <1>1, <2>1, SentIsReachedInOrder DEF ShownAsSent
<1>2. CASE \E c \in Callers, m \in Messages : CallStep(c, m)
  BY <1>1, <1>2, Names DEF CallStep, Compose, Retry, SendResponse
<1>3. CASE \E c \in Callers : PublishStep(c)
  <2>1. PICK c \in Callers : PublishStep(c)
    BY <1>3
  <2>2. call[c].m \in Messages
    BY <2>1, PublishStepFrame
  <2>3. CASE call[c].at \in EarlyLabels
    <3>1. ~ShownAsSent(call[c].m)
      BY <2>3, EarlyOnes DEF Promising, RowsFollowCalls, ShownAsSent
    <3> QED BY <1>1, <2>1, <2>2, <3>1, RowStepMoves DEF Promising
  <2>4. CASE call[c].at \notin EarlyLabels
    <3>1. UNCHANGED row \/ WalkPending(c) \/ WalkAvailable(c)
      BY <2>1, <2>4, EarlyOnes
         DEF PublishStep, LocalStep, RowStep, Encrypt, Assemble, Sign, MarkFailed, RecordStep,
             NetworkStep, BuildStep, Build, At, dbVars
    <3>2. CASE WalkPending(c) \/ WalkAvailable(c)
      <4>1. PICK goal \in {"pending", "available_on_chain"} :
              \/ UNCHANGED row
              \/ /\ ~(call[c].next > PathIndex(goal))
                 /\ Transition(call[c].m, PublishPath[call[c].next])
        BY <3>2 DEF WalkPending, WalkAvailable, Walk, Refused
      <4>2. ~(call[c].next > PathIndex(goal)) => call[c].next \in 1..9
        BY PathGoals DEF Promising, Bound, TypeOK, Calls
      <4>3. \A i \in 1..9 : /\ PublishPath[i] \in OutgoingStates
                            /\ PublishPath[i] \notin {"failed", "downloaded_by_recipient"}
        BY DEF PublishPath, OutgoingStates
      <4> QED BY <1>1, <2>2, <4>1, <4>2, <4>3
    <3> QED BY <3>1, <3>2
  <2> QED BY <2>3, <2>4
<1>4. CASE \E w \in Workers : WorkerStep(w)
  BY <1>1, <1>4, WorkerMoves, Names DEF Promising
<1>5. CASE UNCHANGED row
  BY <1>5
<1>6. \/ \E c \in Callers, m \in Messages : CallStep(c, m)
      \/ \E c \in Callers : PublishStep(c)
      \/ \E w \in Workers : WorkerStep(w)
      \/ UNCHANGED row
  BY DEF Next, WorkerError, Crash, Network, vars, dbVars
<1> QED BY <1>2, <1>3, <1>4, <1>5, <1>6

(* The promise with its cells and its telling read off this state.         *)
LEMMA StepIsPromised ==
    ASSUME OneOfEach, Promising, Promising', [Next]_vars
    PROVE  [Promise!Next]_<<[m \in Messages |-> Cells(m)], [m \in Messages |-> ShownAsSent(m)]>>
<1>1. CASE \A m \in Messages : Cells(m)' = Cells(m)
  <2>1. [m \in Messages |-> Cells(m)]' = [m \in Messages |-> Cells(m)]
    BY <1>1
  <2>2. CASE \A m \in Messages : ShownAsSent(m)' = ShownAsSent(m)
    BY <2>1, <2>2
  <2>3. CASE \E m \in Messages : ShownAsSent(m)' # ShownAsSent(m)
    <3>1. PICK m \in Messages :
            /\ \A n \in Messages : n # m => row'[n] = row[n]
            /\ ShownAsSent(m) => row'[m] \in {"committed", "available_on_chain"}
      BY <2>3, Tells DEF ShownAsSent
    <3>2. \A n \in Messages : n # m => ShownAsSent(n)' = ShownAsSent(n)
      BY <3>1 DEF ShownAsSent
    <3>3. ~ShownAsSent(m) /\ ShownAsSent(m)'
      BY <2>3, <3>1, <3>2 DEF ShownAsSent
    <3>4. Cells(m) # {}
      BY <1>1, <3>3 DEF Promising, Evidence, SentIsOnChain
    <3>5. [n \in Messages |-> ShownAsSent(n)]'
            = [[n \in Messages |-> ShownAsSent(n)] EXCEPT ![m] = TRUE]
      BY <3>2, <3>3 DEF ShownAsSent
    <3>6. Promise!Tell(m)
      BY <2>1, <3>4, <3>5 DEF Promise!Tell
    <3> QED BY <3>6 DEF Promise!Next
  <2> QED BY <2>2, <2>3
<1>2. CASE /\ UNCHANGED <<row, owner>>
           /\ \E t \in TxIds : node[t] = "pending" /\ node' = [node EXCEPT ![t] = "committed"]
  <2>1. PICK t \in TxIds : node[t] = "pending" /\ node' = [node EXCEPT ![t] = "committed"]
    BY <1>2
  <2>2. PICK m \in Messages : m = owner[t]
    BY <2>1 DEF Promising, Bound, UnbuiltIsUnknown, BuiltHasOwner
  <2>3. latest[m] = t /\ Cells(m) = {}
    <3>1. InPlay(t) /\ t \in CarriedBy(m)
      BY <2>1, <2>2 DEF InPlay, CarriedBy
    <3>2. \A u \in Cells(m) : u \in CarriedBy(m) /\ InPlay(u) /\ u # t
      BY <2>1 DEF Cells, InPlay
    <3> QED BY <3>1, <3>2 DEF Promising, Exclusive, LiveIsLatest
  <2>4. Cells(m)' = {t}
    BY <1>2, <2>1, <2>2, <2>3 DEF Cells, CarriedBy, Promising, Bound, TypeOK, NodeTypeOK
  <2>5. \A n \in Messages : n # m => Cells(n)' = Cells(n)
    BY <1>2, <2>1, <2>2 DEF Cells, CarriedBy, Promising, Bound, TypeOK, NodeTypeOK
  <2>6. [n \in Messages |-> Cells(n)]' = [[n \in Messages |-> Cells(n)] EXCEPT ![m] = {t}]
    BY <2>4, <2>5
  <2>7. [n \in Messages |-> ShownAsSent(n)]' = [n \in Messages |-> ShownAsSent(n)]
    BY <1>2 DEF ShownAsSent
  <2>8. Promise!Land(m)
    BY <2>3, <2>6, <2>7 DEF Promise!Land
  <2> QED BY <2>8 DEF Promise!Next
<1> QED BY <1>1, <1>2, Lands

(* With one screen, one response sender and no request outliving its       *)
(* caller, publication does what OnceOnly promises: a message lands at     *)
(* most once, the user is told of it only after it landed, and is never    *)
(* told otherwise later.                                                   *)
THEOREM PublicationKeepsItsPromise == OneOfEach => (Spec => LandsOnce)
<1> SUFFICES ASSUME OneOfEach
             PROVE  Spec => LandsOnce
  OBVIOUS
<1>1. Init => Promise!Init
  <2> SUFFICES ASSUME Init
               PROVE  Promise!Init
    OBVIOUS
  <2>1. \A m \in Messages : Cells(m) = {}
    BY DEF Init, NodeInit, Cells, CarriedBy
  <2>2. \A m \in Messages : row[m] \notin {"committed", "available_on_chain"}
    BY DEF Init
  <2>3. \A m \in Messages : ShownAsSent(m) = FALSE
    BY <2>2 DEF ShownAsSent
  <2> QED BY <2>1, <2>3 DEF Promise!Init
<1>2. Promising /\ Promising' /\ [Next]_vars =>
        [Promise!Next]_<<[m \in Messages |-> Cells(m)], [m \in Messages |-> ShownAsSent(m)]>>
  BY StepIsPromised
<1>3. Spec => []Promising
  BY PromisingHolds
<1> QED BY <1>1, <1>2, <1>3, PTL DEF Spec, LandsOnce, Promise!Spec

-----------------------------------------------------------------------------
(* A set whose members are all the same one has at most one.               *)
LEMMA AtMostOne ==
    ASSUME NEW S, \A x, y \in S : x = y
    PROVE  Cardinality(S) <= 1
<1>1. CASE S = {}
  BY <1>1, FS_EmptySet
<1>2. CASE S # {}
  <2>1. PICK x \in S : TRUE
    BY <1>2
  <2>2. S = {x}
    BY <2>1
  <2>. QED  BY <2>2, FS_Singleton
<1>. QED  BY <1>1, <1>2

-----------------------------------------------------------------------------
(* The bubble of an incoming image (ImageBubble).                          *)

(* A screen has at most one download under way.                            *)
BubbleInv ==
    /\ BubbleTypeOK
    /\ visible => visit # 0
    /\ \A f \in fetches : f \in [visit : Nat, n : Nat]
    /\ \A f, g \in fetches : f.visit = g.visit => f = g
    /\ BubbleIsTruthful

LEMMA BubbleStarts == BubbleInit => BubbleInv
<1>. SUFFICES ASSUME BubbleInit PROVE BubbleInv
  OBVIOUS
<1>1. MaxVisits \in Nat /\ MaxFetches \in Nat /\ MaxLoadFaults \in Nat
  BY BubbleAssumption
<1>2. BubbleTypeOK
  <2>1. /\ visit = 0 /\ downloads = 0 /\ loadFaults = 0 /\ visible = FALSE /\ unseen = FALSE
        /\ bubble = "idle" /\ drawnAs = "idle" /\ chunks = "live" /\ fetches = {}
    BY DEF BubbleInit
  <2>2. {bubble, drawnAs} \subseteq DownloadStates
    BY <2>1 DEF DownloadStates
  <2>3. visit \in 0..MaxVisits /\ downloads \in 0..MaxFetches /\ loadFaults \in 0..MaxLoadFaults
    BY <1>1, <2>1
  <2>. QED  BY <2>1, <2>2, <2>3 DEF BubbleTypeOK
<1>. QED  BY <1>2 DEF BubbleInit, BubbleInv, BubbleIsTruthful

LEMMA BubbleStep == BubbleInv /\ [BubbleNext]_bubbleVars => BubbleInv'
<1>. SUFFICES ASSUME BubbleInv, [BubbleNext]_bubbleVars PROVE BubbleInv'
  OBVIOUS
<1>. USE BubbleAssumption DEF BubbleInv, BubbleTypeOK, BubbleIsTruthful
<1>1. /\ visit \in Nat /\ downloads \in Nat /\ loadFaults \in Nat
      /\ MaxVisits \in Nat /\ MaxFetches \in Nat /\ MaxLoadFaults \in Nat
  OBVIOUS
<1>2. CASE Visit
  <2>1. \A f \in fetches : f.visit # visit + 1
    BY <1>1
  <2>. QED  BY <1>1, <1>2, <2>1 DEF Visit, DownloadStates
<1>3. CASE GoBack
  BY <1>3 DEF GoBack
<1>4. CASE Draw
  BY <1>4 DEF Draw
<1>5. CASE LoadFull
  <2>. DEFINE new == [visit |-> visit, n |-> downloads + 1]
  <2>1. /\ visible /\ ~InFlight(visit) /\ downloads < MaxFetches
        /\ downloads' = downloads + 1 /\ fetches' = fetches \cup {new} /\ bubble' = "loading"
        /\ UNCHANGED <<visit, visible, drawnAs, chunks, unseen, loadFaults>>
    BY <1>5 DEF LoadFull
  <2>2. visit \in 1..visit
    BY <1>1, <2>1
  <2>3. new.visit = visit /\ new.n = downloads + 1 /\ new \in [visit : Nat, n : Nat]
    BY <1>1
  <2>. HIDE DEF new
  <2>4. \A f \in fetches' : f.visit \in 1..visit /\ f.n \in 1..downloads' /\ f \in [visit : Nat, n : Nat]
    BY <1>1, <2>1, <2>2, <2>3
  <2>5. \A f, g \in fetches' : f.visit = g.visit => f = g
    BY <2>1, <2>3 DEF InFlight
  <2>6. \E f \in fetches' : f.visit = visit
    BY <2>1, <2>3
  <2>. QED  BY <1>1, <2>1, <2>4, <2>5, <2>6 DEF DownloadStates
<1>6. CASE ChunksGo
  BY <1>6 DEF ChunksGo
<1>7. ASSUME NEW f \in fetches, LoadEnds(f) PROVE BubbleInv'
  <2>1. /\ fetches' = fetches \ {f} /\ UNCHANGED <<visit, visible, drawnAs, downloads, chunks>>
        /\ loadFaults' \in 0..MaxLoadFaults /\ unseen' \in BOOLEAN
    <3>1. /\ fetches' = fetches \ {f} /\ UNCHANGED <<visit, visible, drawnAs, downloads, chunks>>
          /\ unseen' = unseen \/ unseen' \in BOOLEAN
          /\ loadFaults' = loadFaults \/ (loadFaults < MaxLoadFaults /\ loadFaults' = loadFaults + 1)
      BY <1>7 DEF LoadEnds
    <3>. QED  BY <1>1, <3>1
  <2>2. PICK state \in {"loaded", "error", "unavailable"} :
          /\ SetDownload(f.visit, state)
          /\ state = "unavailable" => chunks = "gone" \/ unseen'
          /\ unseen => unseen'
    BY <1>7 DEF LoadEnds, Classify
  <2>3. bubble' = IF visible /\ f.visit = visit THEN state ELSE bubble
    BY <2>2 DEF SetDownload
  <2>4. \A g \in fetches' : g.visit # f.visit
    BY <2>1
  <2>5. visible => (bubble' = "loading" <=> \E g \in fetches' : g.visit = visit)
    <3>1. CASE f.visit = visit
      BY <2>1, <2>2, <2>3, <2>4, <3>1
    <3>2. CASE f.visit # visit
      BY <2>1, <2>3, <3>2
    <3>. QED  BY <3>1, <3>2
  <2>6. bubble' = "unavailable" => chunks = "gone" \/ unseen'
    BY <2>2, <2>3
  <2>7. bubble' \in DownloadStates
    BY <2>3 DEF DownloadStates
  <2>. QED  BY <2>1, <2>5, <2>6, <2>7
<1>8. CASE UNCHANGED bubbleVars
  BY <1>8 DEF bubbleVars
<1>. QED  BY <1>2, <1>3, <1>4, <1>5, <1>6, <1>7, <1>8 DEF BubbleNext

-----------------------------------------------------------------------------
(* The own profile (OwnProfile).                                           *)

USE OwnAssumption

Sending == {"record", "send", "wait", "mark", "create"}

(* A call past its check found no profile, and none comes to be while it   *)
(* is alive; a call of a session gone by has its transaction counted among *)
(* those cut short.                                                        *)
CallSound(c, live) ==
    /\ c.at \in Sending => c.tx \in 1..Len(creating)
    /\ c.at \notin Sending => c.tx = None
    /\ c.at \in {"record", "send"} => creating[c.tx] = "signed"
    /\ c.at = "wait" => creating[c.tx] # "signed"
    /\ c.at \in {"mark", "create"} => creating[c.tx] = "committed"
    /\ c.of <= session.count
    /\ live /\ c.at # "idle" => settings.busy
    /\ live /\ c.at \in Sending \cup {"build"} => rows = <<>>
    /\ ~live /\ c.at \in Sending => c.tx \in cut

(* The button is off while a call of the session is under way.             *)
OneLiveCall ==
    \A p, q \in Publications :
       /\ p # q /\ Live(p) /\ Live(q) => OwnAt(p, "idle") \/ OwnAt(q, "idle")
       /\ p # q /\ ownCall[p].tx # None => ownCall[p].tx # ownCall[q].tx

(* A transaction that may be on the chain is in the row, being recorded by *)
(* a live call, or was cut short.                                          *)
Creates(t) == \E p \in Publications : Live(p) /\ ownCall[p].at \in Sending /\ ownCall[p].tx = t

CellsAreKnown ==
    \A t \in 1..Len(creating) :
       creating[t] # "rejected" /\ t \notin cut =>
          (rows # <<>> /\ t = ActiveProfile) \/ Creates(t)

RowIsCommitted ==
    /\ Len(rows) <= 1
    /\ rows # <<>> => ActiveProfile \in 1..Len(creating) /\ creating[ActiveProfile] = "committed"

CallsInv ==
    /\ \A p \in Publications : CallSound(ownCall[p], Live(p))
    /\ OneLiveCall /\ CellsAreKnown /\ RowIsCommitted

(* What the card shows, and what contacts were told, is the row's.         *)
CardsInv ==
    /\ card.at # "closed" => session.open
    /\ card.at \in {"print", "shown"} => rows # <<>> /\ card.id = ActiveProfile
    /\ card.at = "shown" => card.print = card.id
    /\ \A id \in handed : rows # <<>> /\ id = ActiveProfile

OwnInv == OwnTypeOK /\ CallsInv /\ CardsInv

(* The types as the provers need them.                                     *)
LEMMA OwnTypes ==
    ASSUME OwnTypeOK
    PROVE  /\ Len(rows) \in Nat /\ Len(creating) \in Nat
           /\ session.count \in Nat /\ session.open \in BOOLEAN
           /\ rows # <<>> => ActiveProfile \in Ids
           /\ rows = <<>> => ActiveProfile = None
           /\ \A id \in Ids : id # None
           /\ \A p \in Publications : /\ ownCall[p].at \in CallLabels
                                      /\ ownCall[p].tx \in {None} \cup Ids
                                      /\ ownCall[p].of \in Nat
           /\ \A t \in 1..Len(creating) : t \in Ids
<1>1. rows \in Seq(Ids) /\ creating \in Seq({"signed", "pool", "committed", "rejected"})
      /\ Len(creating) <= MaxProfiles /\ MaxProfiles \in Nat
  BY DEF OwnTypeOK
<1>2. ASSUME rows # <<>> PROVE ActiveProfile \in Ids
  <2>1. Len(rows) \in 1..Len(rows)
    BY <1>1, <1>2, EmptySeq
  <2>. QED  BY <1>1, <1>2, <2>1 DEF ActiveProfile
<1>3. \A t \in 1..Len(creating) : t \in Ids
  BY <1>1 DEF Ids
<1>4. \A id \in Ids : id # None
  BY DEF Ids, None
<1>5. \A p \in Publications : ownCall[p] \in [at : CallLabels, tx : {None} \cup Ids, of : 0..MaxSessions]
  BY DEF OwnTypeOK
<1>6. session.count \in Nat /\ session.open \in BOOLEAN
  BY DEF OwnTypeOK
<1>. QED  BY <1>1, <1>2, <1>3, <1>4, <1>5, <1>6 DEF ActiveProfile

LEMMA OwnStarts == OwnInit => OwnInv
<1>. SUFFICES ASSUME OwnInit PROVE OwnInv
  OBVIOUS
<1>1. MaxProfiles \in Nat /\ MaxSessions \in Nat /\ MaxOwnFaults \in Nat
  OBVIOUS
<1>2. /\ rows = <<>> /\ creating = <<>> /\ handed = {} /\ cut = {} /\ ownFaults = 0
      /\ ownCall = [p \in Publications |-> IdleCall]
      /\ session = [count |-> 0, open |-> FALSE] /\ settings = FreshSettings /\ card = ClosedCard
  BY DEF OwnInit
<1>3. OwnTypeOK
  <2>1. ownCall \in [Publications -> [at : CallLabels, tx : {None} \cup Ids, of : 0..MaxSessions]]
    BY <1>1, <1>2 DEF IdleCall, CallLabels
  <2>2. session \in [count : 0..MaxSessions, open : BOOLEAN]
    BY <1>1, <1>2
  <2>3. settings \in [shown : {None} \cup Ids, busy : BOOLEAN, loaded : BOOLEAN]
    BY <1>2 DEF FreshSettings
  <2>4. card \in [at : {"closed", "id", "print", "shown"}, id : {None} \cup Ids, print : {None} \cup Ids]
    BY <1>2 DEF ClosedCard
  <2>5. rows \in Seq(Ids) /\ creating \in Seq({"signed", "pool", "committed", "rejected"})
        /\ Len(creating) = 0
    BY <1>2
  <2>. QED  BY <1>1, <1>2, <2>1, <2>2, <2>3, <2>4, <2>5 DEF OwnTypeOK
<1>4. \A p \in Publications : ownCall[p] = IdleCall
  BY <1>2
<1>5. CallsInv
  <2>1. Len(rows) = 0 /\ Len(creating) = 0 /\ session.count = 0 /\ session.open = FALSE
    BY <1>2
  <2>2. \A p \in Publications : ownCall[p].at = "idle" /\ ownCall[p].tx = None /\ ownCall[p].of = 0
    BY <1>4 DEF IdleCall
  <2>3. OneLiveCall
    BY <2>2 DEF OneLiveCall, OwnAt
  <2>4. \A p \in Publications : CallSound(ownCall[p], Live(p))
    BY <2>1, <2>2 DEF CallSound, Sending
  <2>5. CellsAreKnown /\ RowIsCommitted
    BY <2>1, <1>2 DEF CellsAreKnown, RowIsCommitted
  <2>. QED  BY <2>3, <2>4, <2>5 DEF CallsInv
<1>6. CardsInv
  BY <1>2 DEF CardsInv, ClosedCard
<1>. QED  BY <1>3, <1>5, <1>6 DEF OwnInv

(* The calls are left alone.                                               *)
LEMMA CallsRest ==
    ASSUME CallsInv, UNCHANGED <<rows, creating, ownCall, session, cut>>,
           settings.busy => settings'.busy
    PROVE  CallsInv'
<1>1. \A p \in Publications : (CallSound(ownCall[p], Live(p)))'
  BY DEF CallsInv, CallSound, Live
<1>2. OneLiveCall' /\ CellsAreKnown' /\ RowIsCommitted'
  BY DEF CallsInv, OneLiveCall, CellsAreKnown, RowIsCommitted, Live, OwnAt, Creates, ActiveProfile
<1>. QED  BY <1>1, <1>2 DEF CallsInv

LEMMA ScreensLook ==
    ASSUME OwnInv,
           \/ LoadMyProfile \/ SendAsMyself \/ OpenCard \/ ReadCardId
           \/ ReadFingerprint \/ ShareCard \/ CloseCard
    PROVE  OwnInv'
<1>1. OwnTypeOK /\ CallsInv /\ CardsInv
  BY DEF OwnInv
<1>2. /\ rows = <<>> => ActiveProfile = None
      /\ rows # <<>> => ActiveProfile \in Ids /\ ActiveProfile # None
      /\ ActiveProfile \in {None} \cup Ids
  BY <1>1, OwnTypes
<1>3. /\ settings \in [shown : {None} \cup Ids, busy : BOOLEAN, loaded : BOOLEAN]
      /\ card \in [at : {"closed", "id", "print", "shown"}, id : {None} \cup Ids,
                   print : {None} \cup Ids]
      /\ handed \subseteq Ids /\ ownFaults \in 0..MaxOwnFaults /\ MaxOwnFaults \in Nat
  BY <1>1 DEF OwnTypeOK
<1>4. CASE LoadMyProfile
  <2>1. /\ UNCHANGED <<rows, creating, ownCall, session, card, handed, cut>>
        /\ settings' \in [shown : {None} \cup Ids, busy : BOOLEAN, loaded : BOOLEAN]
        /\ settings'.busy = settings.busy /\ ownFaults' \in 0..MaxOwnFaults
    <3>1. settings' = [settings EXCEPT !.loaded = TRUE, !.shown = ActiveProfile]
          \/ settings' = [settings EXCEPT !.loaded = TRUE]
      BY <1>4 DEF LoadMyProfile
    <3>2. ownFaults' = ownFaults \/ (ownFaults < MaxOwnFaults /\ ownFaults' = ownFaults + 1)
      BY <1>4 DEF LoadMyProfile, OwnFault
    <3>3. ownFaults' \in 0..MaxOwnFaults
      BY <1>3, <3>2
    <3>4. settings' \in [shown : {None} \cup Ids, busy : BOOLEAN, loaded : BOOLEAN]
          /\ settings'.busy = settings.busy
      BY <1>2, <1>3, <3>1
    <3>. QED  BY <1>4, <3>3, <3>4 DEF LoadMyProfile
  <2>2. CallsInv'
    BY <1>1, <2>1, CallsRest
  <2>. QED  BY <1>1, <2>1, <2>2 DEF OwnInv, OwnTypeOK, CardsInv, ActiveProfile
<1>5. CASE SendAsMyself
  <2>1. CallsInv'
    BY <1>1, <1>5, CallsRest DEF SendAsMyself
  <2>. QED  BY <1>1, <1>2, <1>5, <2>1 DEF OwnInv, OwnTypeOK, CardsInv, ActiveProfile, SendAsMyself
<1>6. CASE OpenCard
  <2>1. CallsInv'
    BY <1>1, <1>6, CallsRest DEF OpenCard
  <2>2. card' \in [at : {"closed", "id", "print", "shown"}, id : {None} \cup Ids, print : {None} \cup Ids]
        /\ card'.at = "id" /\ session.open
    BY <1>3, <1>6 DEF OpenCard
  <2>. QED  BY <1>1, <1>6, <2>1, <2>2 DEF OwnInv, OwnTypeOK, CardsInv, ActiveProfile, OpenCard
<1>7. CASE ReadCardId
  <2>1. CallsInv'
    BY <1>1, <1>7, CallsRest DEF ReadCardId
  <2>2. UNCHANGED <<rows, creating, ownCall, session, settings, handed, cut, ownFaults>> /\ session.open
    BY <1>1, <1>7 DEF ReadCardId, CardsInv
  <2>3. CASE ActiveProfile = None
    <3>1. card' = ClosedCard
      BY <1>7, <2>3 DEF ReadCardId
    <3>. QED  BY <1>1, <2>1, <2>2, <3>1 DEF OwnInv, OwnTypeOK, CardsInv, ActiveProfile, ClosedCard
  <2>4. CASE ActiveProfile # None
    <3>1. card' = [card EXCEPT !.at = "print", !.id = ActiveProfile]
      BY <1>7, <2>4 DEF ReadCardId
    <3>2. card' \in [at : {"closed", "id", "print", "shown"}, id : {None} \cup Ids, print : {None} \cup Ids]
          /\ card'.at = "print" /\ card'.id = ActiveProfile
      BY <1>2, <1>3, <3>1
    <3>. QED  BY <1>1, <1>2, <2>1, <2>2, <2>4, <3>2 DEF OwnInv, OwnTypeOK, CardsInv, ActiveProfile
  <2>. QED  BY <2>3, <2>4
<1>8. CASE ReadFingerprint
  <2>1. CallsInv'
    BY <1>1, <1>8, CallsRest DEF ReadFingerprint
  <2>2. UNCHANGED <<rows, creating, ownCall, session, settings, handed, cut, ownFaults>>
        /\ card.at = "print" /\ card' = [card EXCEPT !.at = "shown", !.print = ActiveProfile]
    BY <1>8 DEF ReadFingerprint
  <2>3. card' \in [at : {"closed", "id", "print", "shown"}, id : {None} \cup Ids, print : {None} \cup Ids]
        /\ card'.at = "shown" /\ card'.print = ActiveProfile /\ card'.id = card.id
    BY <1>2, <1>3, <2>2
  <2>. QED  BY <1>1, <2>1, <2>2, <2>3 DEF OwnInv, OwnTypeOK, CardsInv, ActiveProfile
<1>9. CASE ShareCard
  <2>1. CallsInv'
    BY <1>1, <1>9, CallsRest DEF ShareCard
  <2>2. card.id = ActiveProfile /\ rows # <<>> /\ handed' = handed \cup {card.id}
    BY <1>1, <1>9 DEF ShareCard, CardsInv
  <2>. QED  BY <1>1, <1>2, <1>9, <2>1, <2>2 DEF OwnInv, OwnTypeOK, CardsInv, ActiveProfile, ShareCard
<1>10. CASE CloseCard
  <2>1. CallsInv'
    BY <1>1, <1>10, CallsRest DEF CloseCard
  <2>. QED  BY <1>1, <1>10, <2>1 DEF OwnInv, OwnTypeOK, CardsInv, ActiveProfile, CloseCard, ClosedCard
<1>. QED  BY <1>4, <1>5, <1>6, <1>7, <1>8, <1>9, <1>10

(* No call of an earlier session is alive in a later one.                  *)
LEMMA UnlockKeeps == ASSUME OwnInv, Unlock PROVE OwnInv'
<1>1. /\ OwnTypeOK /\ CallsInv /\ CardsInv /\ ~session.open /\ session.count < MaxSessions
      /\ session' = [count |-> session.count + 1, open |-> TRUE]
      /\ UNCHANGED <<rows, creating, ownCall, settings, card, handed, cut, ownFaults>>
  BY DEF OwnInv, Unlock
<1>2. session.count \in Nat /\ MaxSessions \in Nat /\ \A p \in Publications : ownCall[p].of \in Nat
  BY <1>1, OwnTypes
<1>3. session'.count = session.count + 1 /\ session'.open = TRUE
      /\ session' \in [count : 0..MaxSessions, open : BOOLEAN]
  BY <1>1, <1>2
<1>4. \A p \in Publications : ~Live(p) /\ ~Live(p)' /\ ownCall[p].of <= session.count
  BY <1>1, <1>2, <1>3 DEF Live, CallsInv, CallSound
<1>5. \A p \in Publications : (CallSound(ownCall[p], Live(p)))'
  BY <1>1, <1>2, <1>3, <1>4 DEF CallsInv, CallSound
<1>6. OneLiveCall' /\ CellsAreKnown' /\ RowIsCommitted'
  BY <1>1, <1>4 DEF CallsInv, OneLiveCall, CellsAreKnown, RowIsCommitted, Creates, ActiveProfile
<1>7. OwnTypeOK' /\ CardsInv'
  BY <1>1, <1>3 DEF OwnTypeOK, CardsInv, ActiveProfile
<1>. QED  BY <1>5, <1>6, <1>7 DEF OwnInv, CallsInv

LEMMA SessionCloses ==
    ASSUME NEW N \in Nat, NEW s \in [count : 0..N, open : BOOLEAN]
    PROVE  LET closed == [s EXCEPT !.open = FALSE]
           IN  /\ closed.count = s.count /\ closed.open = FALSE /\ s.count \in Nat
               /\ closed \in [count : 0..N, open : BOOLEAN]
<1>. DEFINE closed == [s EXCEPT !.open = FALSE]
<1>1. closed.count = s.count
  OBVIOUS
<1>2. closed.open = FALSE
  OBVIOUS
<1>3. s.count \in Nat
  OBVIOUS
<1>4. closed \in [count : 0..N, open : BOOLEAN]
  OBVIOUS
<1>. QED  BY <1>1, <1>2, <1>3, <1>4

(* Locked or killed: every transaction under way counts as cut short.      *)
LEMMA LeavingKeeps ==
    ASSUME OwnInv, session' = [session EXCEPT !.open = FALSE], cut' = cut \cup UnderWay, LeaveScreens,
           ownCall' \in {ownCall, [p \in Publications |-> IdleCall]},
           ownFaults' \in 0..MaxOwnFaults, UNCHANGED <<rows, creating, handed>>
    PROVE  OwnInv'
<1>1. OwnTypeOK /\ CallsInv /\ CardsInv
  BY DEF OwnInv
<1>2. session'.count = session.count /\ session'.open = FALSE /\ session.count \in Nat
      /\ session' \in [count : 0..MaxSessions, open : BOOLEAN]
  <2>1. session \in [count : 0..MaxSessions, open : BOOLEAN] /\ MaxSessions \in Nat
    BY <1>1 DEF OwnTypeOK
  <2>. QED  BY <2>1, SessionCloses
<1>3. \A p \in Publications : ~Live(p)'
  BY <1>2 DEF Live
<1>4. \A p \in Publications : ownCall'[p] \in {ownCall[p], IdleCall}
  OBVIOUS
<1>5. \A p \in Publications : ownCall[p].at \in Sending => ownCall[p].tx \in UnderWay
  <2>1. \A p \in Publications : ownCall[p].at \in Sending => ownCall[p].tx \in Ids
    BY <1>1, OwnTypes DEF CallsInv, CallSound
  <2>. QED  BY <1>1, <2>1, OwnTypes DEF UnderWay, Sending
<1>6. UnderWay \subseteq Ids
  BY <1>1, OwnTypes DEF UnderWay
<1>7. ownCall' \in [Publications -> [at : CallLabels, tx : {None} \cup Ids, of : 0..MaxSessions]]
  <2>1. IdleCall \in [at : CallLabels, tx : {None} \cup Ids, of : 0..MaxSessions]
    BY DEF IdleCall, CallLabels
  <2>. QED  BY <1>1, <2>1 DEF OwnTypeOK
<1>8. settings' \in [shown : {None} \cup Ids, busy : BOOLEAN, loaded : BOOLEAN]
      /\ card' \in [at : {"closed", "id", "print", "shown"}, id : {None} \cup Ids, print : {None} \cup Ids]
      /\ card'.at = "closed"
  BY DEF LeaveScreens, FreshSettings, ClosedCard
<1>9. OwnTypeOK'
  BY <1>1, <1>2, <1>6, <1>7, <1>8 DEF OwnTypeOK
<1>10. CardsInv'
  BY <1>1, <1>8 DEF CardsInv, ActiveProfile
<1>11. ASSUME NEW p \in Publications PROVE (CallSound(ownCall[p], Live(p)))'
  <2>1. CASE ownCall'[p] = ownCall[p]
    BY <1>1, <1>2, <1>3, <1>5, <2>1 DEF CallsInv, CallSound
  <2>2. CASE ownCall'[p] = IdleCall
    BY <1>2, <1>3, <2>2 DEF CallSound, IdleCall, Sending
  <2>. QED  BY <1>4, <2>1, <2>2
<1>12. OneLiveCall'
  <2>1. ASSUME NEW p \in Publications, NEW q \in Publications, p # q, ownCall'[p].tx # None
        PROVE  ownCall'[p].tx # ownCall'[q].tx
    <3>1. ownCall'[p] = ownCall[p]
      BY <1>4, <2>1 DEF IdleCall
    <3>2. CASE ownCall'[q] = ownCall[q]
      BY <1>1, <2>1, <3>1, <3>2 DEF CallsInv, OneLiveCall
    <3>3. CASE ownCall'[q] = IdleCall
      BY <2>1, <3>3 DEF IdleCall
    <3>. QED  BY <1>4, <3>2, <3>3
  <2>. QED  BY <1>3, <2>1 DEF OneLiveCall
<1>13. CellsAreKnown' /\ RowIsCommitted'
  <2>1. RowIsCommitted'
    BY <1>1 DEF CallsInv, RowIsCommitted, ActiveProfile
  <2>2. ASSUME NEW t \in 1..Len(creating), creating[t] # "rejected", t \notin cut'
        PROVE  rows # <<>> /\ t = ActiveProfile
    <3>1. ~Creates(t)
      BY <1>5, <2>2 DEF Creates
    <3>. QED  BY <1>1, <2>2, <3>1 DEF CallsInv, CellsAreKnown
  <2>. QED  BY <2>1, <2>2 DEF CellsAreKnown, ActiveProfile
<1>. QED  BY <1>9, <1>10, <1>11, <1>12, <1>13 DEF OwnInv, CallsInv

LEMMA LockKeeps == ASSUME OwnInv, LockOwn PROVE OwnInv'
<1>1. ownFaults \in 0..MaxOwnFaults
  BY DEF OwnInv, OwnTypeOK
<1>. QED  BY <1>1, LeavingKeeps DEF LockOwn

LEMMA KillKeeps == ASSUME OwnInv, KillOwn PROVE OwnInv'
<1>1. ownFaults' \in 0..MaxOwnFaults
  BY DEF OwnInv, OwnTypeOK, KillOwn, OwnFault
<1>. QED  BY <1>1, LeavingKeeps DEF KillOwn

LEMMA ResetKeeps == ASSUME OwnInv, ResetLocalData PROVE OwnInv'
<1>1. /\ OwnTypeOK /\ CallsInv /\ CardsInv /\ ~session.open
      /\ rows' = <<>> /\ handed' = {} /\ cut' = cut \cup Range(rows)
      /\ UNCHANGED <<creating, ownCall, session, settings, card>>
      /\ ownFaults' \in 0..MaxOwnFaults
  BY DEF OwnInv, ResetLocalData, OwnFault, OwnTypeOK
<1>2. rows \in Seq(Ids) /\ Range(rows) \subseteq Ids /\ Len(rows') = 0 /\ rows' \in Seq(Ids)
  BY <1>1 DEF OwnTypeOK, Range
<1>3. OwnTypeOK'
  BY <1>1, <1>2 DEF OwnTypeOK
<1>4. CardsInv'
  BY <1>1 DEF CardsInv
<1>5. rows # <<>> => ActiveProfile \in Range(rows)
  <2>1. rows # <<>> => Len(rows) \in DOMAIN rows
    BY <1>2, EmptySeq
  <2>. QED  BY <2>1 DEF Range, ActiveProfile
<1>6. \A p \in Publications : Live(p)' = Live(p) /\ ~Live(p)
  BY <1>1 DEF Live
<1>7. \A p \in Publications : (CallSound(ownCall[p], Live(p)))'
  BY <1>1, <1>6 DEF CallsInv, CallSound
<1>8. OneLiveCall' /\ CellsAreKnown' /\ RowIsCommitted'
  BY <1>1, <1>2, <1>5, <1>6 DEF CallsInv, OneLiveCall, OwnAt, CellsAreKnown, Creates, RowIsCommitted
<1>. QED  BY <1>3, <1>4, <1>7, <1>8 DEF OwnInv, CallsInv

LEMMA VerdictKeeps ==
    ASSUME OwnInv, NEW t \in 1..Len(creating), NodeDecides(t)
    PROVE  OwnInv'
<1>1. /\ OwnTypeOK /\ CallsInv /\ CardsInv /\ creating[t] = "pool"
      /\ UNCHANGED <<rows, ownCall, session, settings, card, handed, cut, ownFaults>>
  BY DEF OwnInv, NodeDecides
<1>2. PICK verdict \in {"committed", "rejected"} : creating' = [creating EXCEPT ![t] = verdict]
  BY DEF NodeDecides
<1>3. /\ creating' \in Seq({"signed", "pool", "committed", "rejected"}) /\ Len(creating') = Len(creating)
      /\ \A u \in 1..Len(creating) : creating'[u] = IF u = t THEN verdict ELSE creating[u]
  BY <1>1, <1>2 DEF OwnTypeOK
<1>4. OwnTypeOK' /\ CardsInv'
  BY <1>1, <1>3 DEF OwnTypeOK, CardsInv, ActiveProfile
<1>5. \A p \in Publications : (CallSound(ownCall[p], Live(p)))'
  <2>1. \A p \in Publications : CallSound(ownCall[p], Live(p)) /\ Live(p)' = Live(p)
    BY <1>1 DEF CallsInv, Live
  <2>. QED  BY <1>1, <1>3, <2>1 DEF CallSound, Sending
<1>6. OneLiveCall' /\ RowIsCommitted'
  BY <1>1, <1>3 DEF CallsInv, OneLiveCall, OwnAt, Live, RowIsCommitted, ActiveProfile
<1>7. CellsAreKnown'
  <2>1. \A u : Creates(u)' = Creates(u)
    BY <1>1 DEF Creates, Live
  <2>2. \A u \in 1..Len(creating) : creating'[u] # "rejected" => creating[u] # "rejected"
    BY <1>1, <1>3
  <2>. QED  BY <1>1, <1>3, <2>1, <2>2 DEF CallsInv, CellsAreKnown, ActiveProfile
<1>. QED  BY <1>4, <1>5, <1>6, <1>7 DEF OwnInv, CallsInv

(* What a step of the call p may do to the transactions: nothing, or it    *)
(* broadcasts its own.                                                     *)
OwnTxMoves(p) ==
    /\ creating' \in Seq({"signed", "pool", "committed", "rejected"}) /\ Len(creating') = Len(creating)
    /\ \A u \in 1..Len(creating) : u # ownCall[p].tx => creating'[u] = creating[u]
    /\ ownCall[p].at = "send" \/ creating' = creating

(* The others, and the row, do not depend on what the call p broadcasts.   *)
LEMMA OthersStay ==
    ASSUME OwnInv, NEW p \in Publications, OwnTxMoves(p),
           UNCHANGED <<rows, session>>, cut \subseteq cut',
           \A q \in Publications \ {p} : ownCall'[q] = ownCall[q],
           ownCall'[p].tx \in {ownCall[p].tx, None},
           ownCall'[p].at = "idle" \/ ownCall'[p].of = ownCall[p].of,
           \A q \in Publications \ {p} : Live(p) \/ settings' = settings,
           ~OwnAt(p, "idle")
    PROVE  /\ \A q \in Publications \ {p} : (CallSound(ownCall[q], Live(q)))'
           /\ OneLiveCall' /\ RowIsCommitted'
<1>1. OwnTypeOK /\ CallsInv
  BY DEF OwnInv
<1>2. ASSUME NEW q \in Publications \ {p} PROVE (CallSound(ownCall[q], Live(q)))'
  <2>1. CallSound(ownCall[q], Live(q)) /\ ownCall'[q] = ownCall[q]
    BY <1>1 DEF CallsInv
  <2>2. Live(q)' = Live(q)
    BY <2>1 DEF Live
  <2>3. ownCall[q].at \in Sending => ownCall[q].tx \in 1..Len(creating) /\ ownCall[q].tx # None
    BY <1>1, <2>1, OwnTypes DEF CallSound
  <2>4. ownCall[q].at \in Sending => creating'[ownCall[q].tx] = creating[ownCall[q].tx]
    <3>1. ownCall[q].at \in Sending => ownCall[q].tx # ownCall[p].tx
      BY <1>1, <2>3 DEF CallsInv, OneLiveCall
    <3>. QED  BY <2>3, <3>1 DEF OwnTxMoves
  <2>5. Live(q) /\ ownCall[q].at # "idle" => settings'.busy
    <3>1. Live(q) /\ ownCall[q].at # "idle" => ~Live(p)
      BY <1>1 DEF CallsInv, OneLiveCall, OwnAt
    <3>. QED  BY <2>1, <3>1 DEF CallSound
  <2>. QED  BY <2>1, <2>2, <2>3, <2>4, <2>5 DEF CallSound, OwnTxMoves, Sending
<1>3. \A q \in Publications \ {p} : Live(q)' = Live(q)
  BY DEF Live
<1>4. OneLiveCall'
  <2>1. ASSUME NEW q \in Publications, NEW r \in Publications, q # r, Live(q)', Live(r)'
        PROVE  OwnAt(q, "idle")' \/ OwnAt(r, "idle")'
    <3>1. CASE q # p /\ r # p
      BY <1>1, <1>3, <2>1, <3>1 DEF CallsInv, OneLiveCall, OwnAt
    <3>2. CASE q = p
      <4>1. CASE Live(p)
        BY <1>1, <1>3, <2>1, <3>2, <4>1 DEF CallsInv, OneLiveCall, OwnAt
      <4>2. CASE ~Live(p)
        BY <2>1, <3>2, <4>2, <1>1, <1>3 DEF CallsInv, OneLiveCall, OwnAt, Live
      <4>. QED  BY <4>1, <4>2
    <3>3. CASE r = p
      <4>1. CASE Live(p)
        BY <1>1, <1>3, <2>1, <3>3, <4>1 DEF CallsInv, OneLiveCall, OwnAt
      <4>2. CASE ~Live(p)
        BY <2>1, <3>3, <4>2, <1>1, <1>3 DEF CallsInv, OneLiveCall, OwnAt, Live
      <4>. QED  BY <4>1, <4>2
    <3>. QED  BY <3>1, <3>2, <3>3
  <2>2. ASSUME NEW q \in Publications, NEW r \in Publications, q # r, ownCall'[q].tx # None
        PROVE  ownCall'[q].tx # ownCall'[r].tx
    <3>1. \A u \in Publications : ownCall'[u].tx \in {ownCall[u].tx, None}
      OBVIOUS
    <3>2. ownCall'[q].tx = ownCall[q].tx /\ ownCall[q].tx # None
      BY <2>2, <3>1
    <3>. QED  BY <1>1, <2>2, <3>1, <3>2 DEF CallsInv, OneLiveCall
  <2>. QED  BY <2>1, <2>2 DEF OneLiveCall
<1>5. RowIsCommitted'
  <2>1. RowIsCommitted /\ ActiveProfile' = ActiveProfile
    BY <1>1 DEF CallsInv, ActiveProfile
  <2>2. CASE ownCall[p].at = "send"
    <3>1. creating[ownCall[p].tx] = "signed"
      BY <1>1, <2>2 DEF CallsInv, CallSound
    <3>. QED  BY <2>1, <3>1 DEF RowIsCommitted, OwnTxMoves
  <2>3. CASE creating' = creating
    BY <2>1, <2>3 DEF RowIsCommitted
  <2>. QED  BY <2>2, <2>3 DEF OwnTxMoves
<1>. QED  BY <1>2, <1>4, <1>5

(* The call goes on to its next label.                                     *)
LEMMA ACallGoesOn ==
    ASSUME OwnInv, NEW p \in Publications, NEW label \in CallLabels,
           ~OwnAt(p, "idle"), ownCall[p].at \in Sending <=> label \in Sending,
           OwnTxMoves(p), OwnGoto(p, label),
           UNCHANGED <<rows, session, card, handed, settings, cut, ownFaults>>,
           label # "idle",
           label \in {"record", "send"} => creating'[ownCall[p].tx] = "signed",
           label = "wait" => creating'[ownCall[p].tx] # "signed",
           label \in {"mark", "create"} => creating'[ownCall[p].tx] = "committed",
           ownCall[p].at \notin Sending \cup {"build"} /\ Live(p) => rows = <<>>
    PROVE  OwnInv'
<1>1. OwnTypeOK /\ CallsInv /\ CardsInv
  BY DEF OwnInv
<1>2. /\ ownCall' \in [Publications -> [at : CallLabels, tx : {None} \cup Ids, of : 0..MaxSessions]]
      /\ ownCall'[p].at = label /\ ownCall'[p].tx = ownCall[p].tx /\ ownCall'[p].of = ownCall[p].of
      /\ \A q \in Publications \ {p} : ownCall'[q] = ownCall[q]
  BY <1>1 DEF OwnTypeOK, OwnGoto
<1>3. OwnTypeOK' /\ CardsInv'
  BY <1>1, <1>2 DEF OwnTypeOK, CardsInv, ActiveProfile, OwnTxMoves
<1>4. /\ \A q \in Publications \ {p} : (CallSound(ownCall[q], Live(q)))'
      /\ OneLiveCall' /\ RowIsCommitted'
  BY <1>2, OthersStay
<1>5. \A q \in Publications : Live(q)' = Live(q)
  BY <1>2 DEF Live
<1>6. (CallSound(ownCall[p], Live(p)))'
  <2>1. CallSound(ownCall[p], Live(p))
    BY <1>1 DEF CallsInv
  <2>2. Live(p) => rows = <<>>
    BY <2>1 DEF CallSound
  <2>. QED  BY <1>2, <1>5, <2>1, <2>2 DEF CallSound, OwnTxMoves, OwnAt, Sending
<1>7. CellsAreKnown'
  <2>1. \A t : Creates(t)' = Creates(t)
    BY <1>2, <1>5 DEF Creates
  <2>2. ASSUME NEW t \in 1..Len(creating), creating'[t] # "rejected", t \notin cut
        PROVE  (rows # <<>> /\ t = ActiveProfile) \/ Creates(t)
    <3>1. CASE creating'[t] = creating[t]
      BY <1>1, <2>2, <3>1 DEF CallsInv, CellsAreKnown
    <3>2. CASE creating'[t] # creating[t]
      <4>1. t = ownCall[p].tx /\ ownCall[p].at = "send"
        BY <2>2, <3>2 DEF OwnTxMoves
      <4>2. Live(p)
        BY <1>1, <2>2, <4>1 DEF CallsInv, CallSound, Sending
      <4>. QED  BY <4>1, <4>2 DEF Creates, Sending
    <3>. QED  BY <3>1, <3>2
  <2>. QED  BY <2>1, <2>2 DEF CellsAreKnown, OwnTxMoves, ActiveProfile
<1>. QED  BY <1>3, <1>4, <1>6, <1>7 DEF OwnInv, CallsInv

(* The call returns: what it began is cut short, or was refused.           *)
LEMMA ACallEnds ==
    ASSUME OwnInv, NEW p \in Publications, NEW id \in {None} \cup Ids,
           ~OwnAt(p, "idle"), Return(p, id), OwnTxMoves(p),
           UNCHANGED <<rows, session, card, handed>>,
           cut \subseteq cut', cut' \subseteq Ids, ownFaults' \in 0..MaxOwnFaults,
           ownCall[p].at \in Sending => ownCall[p].tx \in cut'
    PROVE  OwnInv'
<1>1. OwnTypeOK /\ CallsInv /\ CardsInv
  BY DEF OwnInv
<1>2. /\ ownCall' \in [Publications -> [at : CallLabels, tx : {None} \cup Ids, of : 0..MaxSessions]]
      /\ ownCall'[p] = IdleCall
      /\ \A q \in Publications \ {p} : ownCall'[q] = ownCall[q]
  <2>1. IdleCall \in [at : CallLabels, tx : {None} \cup Ids, of : 0..MaxSessions]
    BY <1>1 DEF IdleCall, CallLabels, OwnTypeOK
  <2>. QED  BY <1>1, <2>1 DEF OwnTypeOK, Return
<1>3. settings' \in [shown : {None} \cup Ids, busy : BOOLEAN, loaded : BOOLEAN]
      /\ (Live(p) \/ settings' = settings)
  <2>1. settings \in [shown : {None} \cup Ids, busy : BOOLEAN, loaded : BOOLEAN]
    BY <1>1 DEF OwnTypeOK
  <2>2. CASE ~Live(p)
    BY <2>1, <2>2 DEF Return
  <2>3. CASE Live(p)
    <3>1. PICK shown1 \in {None} \cup Ids : settings' = [settings EXCEPT !.busy = FALSE, !.shown = shown1]
      BY <2>1, <2>3 DEF Return
    <3>. QED  BY <2>1, <2>3, <3>1
  <2>. QED  BY <2>2, <2>3
<1>4. OwnTypeOK' /\ CardsInv'
  BY <1>1, <1>2, <1>3 DEF OwnTypeOK, CardsInv, ActiveProfile, OwnTxMoves
<1>5. IdleCall.at = "idle" /\ IdleCall.tx = None /\ IdleCall.of = 0
  BY DEF IdleCall
<1>6. /\ \A q \in Publications \ {p} : (CallSound(ownCall[q], Live(q)))'
      /\ OneLiveCall' /\ RowIsCommitted'
  BY <1>2, <1>3, <1>5, OthersStay
<1>7. \A q \in Publications \ {p} : Live(q)' = Live(q)
  BY <1>2 DEF Live
<1>8. (CallSound(ownCall[p], Live(p)))'
  <2>1. session.count \in Nat /\ session' = session
    BY <1>1, OwnTypes
  <2>. QED  BY <1>2, <1>5, <2>1 DEF CallSound, Sending
<1>9. CellsAreKnown'
  <2>1. ASSUME NEW t \in 1..Len(creating), creating'[t] # "rejected", t \notin cut'
        PROVE  (rows # <<>> /\ t = ActiveProfile) \/ Creates(t)'
    <3>1. ~(ownCall[p].at \in Sending /\ ownCall[p].tx = t)
      BY <2>1
    <3>2. creating'[t] = creating[t]
      BY <2>1, <3>1 DEF OwnTxMoves, Sending
    <3>3. (rows # <<>> /\ t = ActiveProfile) \/ Creates(t)
      BY <1>1, <2>1, <3>2 DEF CallsInv, CellsAreKnown
    <3>4. Creates(t) => Creates(t)'
      BY <1>2, <1>7, <3>1 DEF Creates
    <3>. QED  BY <3>3, <3>4
  <2>. QED  BY <2>1 DEF CellsAreKnown, OwnTxMoves, ActiveProfile
<1>. QED  BY <1>4, <1>6, <1>8, <1>9 DEF OwnInv, CallsInv

(* A call that fails: nothing is told of what became of its transaction.   *)
LEMMA AFailingCall ==
    ASSUME OwnInv, NEW p \in Publications, ~OwnAt(p, "idle"), Fails(p), OwnTxMoves(p),
           UNCHANGED <<rows, session, card, handed>>, ownFaults' \in 0..MaxOwnFaults
    PROVE  OwnInv'
<1>1. OwnTypeOK /\ CallsInv
  BY DEF OwnInv
<1>2. ownCall[p].tx \in {None} \cup Ids /\ cut \subseteq Ids
  BY <1>1, OwnTypes DEF OwnTypeOK
<1>3. cut' = cut \cup ({ownCall[p].tx} \ {None}) /\ Return(p, None)
  BY DEF Fails
<1>4. ownCall[p].at \in Sending => ownCall[p].tx # None
  BY <1>1, OwnTypes DEF CallsInv, CallSound
<1>. QED  BY <1>2, <1>3, <1>4, ACallEnds

LEMMA NoTxMoves ==
    ASSUME OwnInv, NEW p \in Publications, creating' = creating
    PROVE  OwnTxMoves(p) /\ ownFaults \in 0..MaxOwnFaults
BY DEF OwnInv, OwnTypeOK, OwnTxMoves

LEMMA TapPublishKeeps == ASSUME OwnInv, NEW p \in Publications, TapPublish(p) PROVE OwnInv'
<1>1. OwnTypeOK /\ CallsInv /\ CardsInv
  BY DEF OwnInv
<1>. DEFINE c == [at |-> "existing", tx |-> None, of |-> session.count]
<1>2. /\ session.open /\ ~settings.busy /\ OwnAt(p, "idle")
      /\ settings' = [settings EXCEPT !.busy = TRUE]
      /\ ownCall' = [ownCall EXCEPT ![p] = c]
      /\ UNCHANGED <<rows, creating, session, card, handed, cut, ownFaults>>
  BY DEF TapPublish, OwnAt
<1>3. settings' \in [shown : {None} \cup Ids, busy : BOOLEAN, loaded : BOOLEAN] /\ settings'.busy
  BY <1>1, <1>2 DEF OwnTypeOK
<1>4. session.count \in 0..MaxSessions /\ session.count \in Nat
  BY <1>1 DEF OwnTypeOK
<1>5. c \in [at : CallLabels, tx : {None} \cup Ids, of : 0..MaxSessions]
      /\ c.at = "existing" /\ c.tx = None /\ c.of = session.count
  BY <1>4 DEF CallLabels
<1>. HIDE DEF c
<1>6. /\ ownCall' \in [Publications -> [at : CallLabels, tx : {None} \cup Ids, of : 0..MaxSessions]]
      /\ ownCall'[p] = c /\ \A q \in Publications \ {p} : ownCall'[q] = ownCall[q]
  BY <1>1, <1>2, <1>5 DEF OwnTypeOK
<1>7. OwnTypeOK' /\ CardsInv'
  BY <1>1, <1>2, <1>3, <1>6 DEF OwnTypeOK, CardsInv, ActiveProfile
<1>8. \A q \in Publications \ {p} : Live(q)' = Live(q)
  BY <1>2, <1>6 DEF Live
<1>9. \A q \in Publications : Live(q) => OwnAt(q, "idle")
  BY <1>1, <1>2 DEF CallsInv, CallSound, OwnAt
<1>10. ASSUME NEW q \in Publications PROVE (CallSound(ownCall[q], Live(q)))'
  <2>1. CASE q = p
    BY <1>2, <1>3, <1>4, <1>5, <1>6, <2>1 DEF CallSound, Sending
  <2>2. CASE q # p
    BY <1>1, <1>2, <1>3, <1>6, <1>8, <2>2 DEF CallsInv, CallSound
  <2>. QED  BY <2>1, <2>2
<1>11. OneLiveCall'
  <2>1. ASSUME NEW q \in Publications, NEW r \in Publications, q # r, Live(q)', Live(r)'
        PROVE  OwnAt(q, "idle")' \/ OwnAt(r, "idle")'
    BY <1>6, <1>8, <1>9, <2>1 DEF OwnAt
  <2>2. ASSUME NEW q \in Publications, NEW r \in Publications, q # r, ownCall'[q].tx # None
        PROVE  ownCall'[q].tx # ownCall'[r].tx
    <3>1. q # p /\ ownCall'[q] = ownCall[q]
      BY <1>5, <1>6, <2>2
    <3>2. CASE r = p
      BY <1>5, <1>6, <2>2, <3>2
    <3>3. CASE r # p
      BY <1>1, <1>6, <2>2, <3>1, <3>3 DEF CallsInv, OneLiveCall
    <3>. QED  BY <3>2, <3>3
  <2>. QED  BY <2>1, <2>2 DEF OneLiveCall
<1>12. CellsAreKnown' /\ RowIsCommitted'
  <2>1. \A t : Creates(t) => Creates(t)'
    BY <1>2, <1>6, <1>8 DEF Creates, OwnAt, Sending
  <2>. QED  BY <1>1, <1>2, <2>1 DEF CallsInv, CellsAreKnown, RowIsCommitted, ActiveProfile
<1>. QED  BY <1>7, <1>10, <1>11, <1>12 DEF OwnInv, CallsInv

LEMMA CheckKeeps == ASSUME OwnInv, NEW p \in Publications, CheckExisting(p) PROVE OwnInv'
<1>1. OwnTypeOK /\ OwnAt(p, "existing") /\ ~OwnAt(p, "idle")
      /\ UNCHANGED <<rows, creating, session, card, handed, ownFaults>>
  BY DEF OwnInv, CheckExisting, OwnAt
<1>2. OwnTxMoves(p) /\ ownFaults' \in 0..MaxOwnFaults
  BY <1>1, NoTxMoves
<1>3. ownCall[p].at \notin Sending /\ cut \subseteq Ids
  BY <1>1 DEF OwnAt, Sending, OwnTypeOK
<1>4. CASE ~Live(p)
  BY <1>1, <1>2, <1>4, AFailingCall DEF CheckExisting
<1>5. CASE Live(p) /\ ActiveProfile = None
  <2>1. OwnGoto(p, "build") /\ UNCHANGED <<settings, cut>>
    BY <1>5 DEF CheckExisting
  <2>2. rows = <<>>
    BY <1>1, <1>5, OwnTypes
  <2>3. "build" \in CallLabels /\ "build" \notin Sending
    BY DEF CallLabels, Sending
  <2>. QED  BY <1>1, <1>2, <1>3, <2>1, <2>2, <2>3, ACallGoesOn
<1>6. CASE Live(p) /\ ActiveProfile # None
  <2>1. Return(p, ActiveProfile) /\ UNCHANGED cut
    BY <1>6 DEF CheckExisting
  <2>2. ActiveProfile \in {None} \cup Ids
    BY <1>1, OwnTypes
  <2>. QED  BY <1>1, <1>2, <1>3, <2>1, <2>2, ACallEnds
<1>. QED  BY <1>4, <1>5, <1>6

LEMMA BuildKeeps == ASSUME OwnInv, NEW p \in Publications, BuildAndSign(p) PROVE OwnInv'
<1>1. OwnTypeOK /\ CallsInv /\ CardsInv /\ OwnAt(p, "build") /\ ~OwnAt(p, "idle")
      /\ UNCHANGED <<rows, session, card, handed, ownFaults>>
  BY DEF OwnInv, BuildAndSign, OwnAt
<1>2. CASE Fails(p) /\ UNCHANGED creating
  <2>1. OwnTxMoves(p) /\ ownFaults' \in 0..MaxOwnFaults
    BY <1>1, <1>2, NoTxMoves
  <2>. QED  BY <1>1, <1>2, <2>1, AFailingCall
<1>3. CASE /\ Live(p) /\ Len(creating) < MaxProfiles
           /\ creating' = Append(creating, "signed")
           /\ ownCall' = [ownCall EXCEPT ![p].at = "record", ![p].tx = Len(creating) + 1]
           /\ UNCHANGED <<settings, cut>>
  <2>0. PICK new : new = Len(creating) + 1
    OBVIOUS
  <2>1. Len(creating) \in Nat /\ MaxProfiles \in Nat /\ new \in Ids /\ new # None
    BY <1>1, <1>3, <2>0, OwnTypes DEF Ids, None
  <2>2. /\ creating' \in Seq({"signed", "pool", "committed", "rejected"}) /\ Len(creating') = new
        /\ \A t \in 1..Len(creating) : creating'[t] = creating[t]
        /\ creating'[new] = "signed"
    BY <1>1, <1>3, <2>0 DEF OwnTypeOK
  <2>3. ownCall \in [Publications -> [at : CallLabels, tx : {None} \cup Ids, of : 0..MaxSessions]]
    BY <1>1 DEF OwnTypeOK
  <2>4. PICK c \in [at : CallLabels, tx : {None} \cup Ids, of : 0..MaxSessions] :
          /\ ownCall' = [ownCall EXCEPT ![p] = c]
          /\ c.at = "record" /\ c.tx = new /\ c.of = ownCall[p].of
    <3>. DEFINE c == [ownCall[p] EXCEPT !.at = "record", !.tx = new]
    <3>1. c \in [at : CallLabels, tx : {None} \cup Ids, of : 0..MaxSessions]
          /\ c.at = "record" /\ c.tx = new /\ c.of = ownCall[p].of
      BY <2>1, <2>3 DEF CallLabels
    <3>2. ownCall' = [ownCall EXCEPT ![p] = c]
      BY <1>3, <2>0, <2>3
    <3>. HIDE DEF c
    <3>. QED  BY <3>1, <3>2
  <2>5. /\ ownCall' \in [Publications -> [at : CallLabels, tx : {None} \cup Ids, of : 0..MaxSessions]]
        /\ ownCall'[p] = c /\ \A q \in Publications \ {p} : ownCall'[q] = ownCall[q]
    BY <2>3, <2>4
  <2>6. OwnTypeOK' /\ CardsInv'
    BY <1>1, <1>3, <2>1, <2>2, <2>5 DEF OwnTypeOK, CardsInv, ActiveProfile
  <2>7. \A q \in Publications : Live(q)' = Live(q)
    BY <1>1, <2>4, <2>5 DEF Live
  <2>8. \A q \in Publications : ownCall[q].at \in Sending => ownCall[q].tx \in 1..Len(creating)
    BY <1>1 DEF CallsInv, CallSound
  <2>9. ASSUME NEW q \in Publications PROVE (CallSound(ownCall[q], Live(q)))'
    <3>1. CallSound(ownCall[q], Live(q)) /\ CallSound(ownCall[p], Live(p))
      BY <1>1 DEF CallsInv
    <3>2. \A t \in 1..Len(creating) : t \in 1..new
      BY <2>0, <2>1
    <3>3. CASE q = p
      <4>1. settings.busy /\ rows = <<>> /\ ownCall[p].of <= session.count
        BY <1>1, <1>3, <3>1 DEF CallSound, OwnAt
      <4>2. new \in 1..new
        BY <2>0, <2>1
      <4>. QED  BY <1>1, <1>3, <2>2, <2>4, <2>5, <2>7, <3>3, <4>1, <4>2 DEF CallSound, Sending
    <3>4. CASE q # p
      <4>1. ownCall'[q] = ownCall[q] /\ Live(q)' = Live(q)
        BY <2>5, <2>7, <3>4
      <4>2. ownCall[q].at \in Sending =>
              /\ ownCall[q].tx \in 1..Len(creating')
              /\ creating'[ownCall[q].tx] = creating[ownCall[q].tx]
        BY <2>2, <2>8, <3>2
      <4>3. UNCHANGED <<rows, session, settings, cut>>
        BY <1>1, <1>3
      <4>. QED  BY <3>1, <4>1, <4>2, <4>3 DEF CallSound, Sending
    <3>. QED  BY <3>3, <3>4
  <2>10. OneLiveCall'
    <3>1. \A q \in Publications : OwnAt(q, "idle")' <=> OwnAt(q, "idle")
      BY <1>1, <2>4, <2>5 DEF OwnAt
    <3>2. \A q \in Publications : ownCall[q].tx # None => ownCall[q].tx \in 1..Len(creating)
      BY <1>1 DEF CallsInv, CallSound
    <3>3. \A q \in Publications \ {p} : ownCall'[q].tx # new /\ ownCall'[q].tx = ownCall[q].tx
      BY <2>0, <2>1, <2>5, <3>2
    <3>4. ASSUME NEW q \in Publications, NEW r \in Publications, q # r, ownCall'[q].tx # None
          PROVE  ownCall'[q].tx # ownCall'[r].tx
      <4>1. CASE q = p
        BY <2>4, <2>5, <3>3, <3>4, <4>1
      <4>2. CASE r = p
        BY <2>4, <2>5, <3>3, <3>4, <4>2
      <4>3. CASE q # p /\ r # p
        BY <1>1, <3>3, <3>4, <4>3 DEF CallsInv, OneLiveCall
      <4>. QED  BY <4>1, <4>2, <4>3
    <3>. QED  BY <1>1, <2>7, <3>1, <3>4 DEF CallsInv, OneLiveCall
  <2>11. CellsAreKnown'
    <3>1. ASSUME NEW t \in 1..Len(creating), Creates(t) PROVE Creates(t)'
      <4>1. PICK q \in Publications : Live(q) /\ ownCall[q].at \in Sending /\ ownCall[q].tx = t
        BY <3>1 DEF Creates
      <4>2. q # p
        BY <1>1, <4>1 DEF OwnAt, Sending
      <4>. QED  BY <2>5, <2>7, <4>1, <4>2 DEF Creates
    <3>2. Creates(new)'
      <4>1. Live(p)' /\ ownCall'[p].at \in Sending /\ ownCall'[p].tx = new
        BY <1>3, <2>4, <2>5, <2>7 DEF Sending
      <4>. QED  BY <4>1 DEF Creates
    <3>3. \A t \in 1..new : t \in 1..Len(creating) \/ t = new
      BY <2>0, <2>1
    <3>4. ASSUME NEW t \in 1..new, creating'[t] # "rejected", t \notin cut
          PROVE  (rows # <<>> /\ t = ActiveProfile) \/ Creates(t)'
      <4>1. CASE t = new
        BY <3>2, <4>1
      <4>2. CASE t # new
        <5>1. t \in 1..Len(creating) /\ creating[t] # "rejected"
          BY <2>2, <3>3, <3>4, <4>2
        <5>2. (rows # <<>> /\ t = ActiveProfile) \/ Creates(t)
          BY <1>1, <3>4, <5>1 DEF CallsInv, CellsAreKnown
        <5>. QED  BY <3>1, <5>1, <5>2
      <4>. QED  BY <4>1, <4>2
    <3>5. ActiveProfile' = ActiveProfile /\ rows' = rows /\ cut' = cut /\ Len(creating') = new
      BY <1>1, <1>3, <2>2 DEF ActiveProfile
    <3>. QED  BY <3>4, <3>5 DEF CellsAreKnown
  <2>12. RowIsCommitted'
    <3>1. \A t \in 1..Len(creating) : t \in 1..new
      BY <2>0, <2>1
    <3>. QED  BY <1>1, <2>2, <3>1 DEF CallsInv, RowIsCommitted, ActiveProfile
  <2>. QED  BY <2>6, <2>9, <2>10, <2>11, <2>12 DEF OwnInv, CallsInv
<1>. QED  BY <1>2, <1>3 DEF BuildAndSign

(* The journal record and its mark: a live call goes on, another one finds *)
(* the database closed.                                                    *)
LEMMA RecordKeeps == ASSUME OwnInv, NEW p \in Publications, RecordOwn(p) PROVE OwnInv'
<1>1. OwnAt(p, "record") /\ ~OwnAt(p, "idle") /\ ownCall[p].at \in Sending
      /\ UNCHANGED <<rows, creating, session, card, handed, ownFaults>>
  BY DEF RecordOwn, OwnAt, Sending
<1>2. OwnTxMoves(p) /\ ownFaults' \in 0..MaxOwnFaults
  BY <1>1, NoTxMoves
<1>3. CASE Live(p)
  <2>1. OwnGoto(p, "send") /\ UNCHANGED <<settings, cut>>
    BY <1>3 DEF RecordOwn
  <2>2. creating[ownCall[p].tx] = "signed"
    BY <1>1 DEF OwnInv, CallsInv, CallSound, OwnAt
  <2>3. "send" \in CallLabels /\ "send" \in Sending
    BY DEF CallLabels, Sending
  <2>. QED  BY <1>1, <1>2, <2>1, <2>2, <2>3, ACallGoesOn
<1>4. CASE ~Live(p)
  BY <1>1, <1>2, <1>4, AFailingCall DEF RecordOwn
<1>. QED  BY <1>3, <1>4

LEMMA MarkKeeps == ASSUME OwnInv, NEW p \in Publications, MarkOwn(p) PROVE OwnInv'
<1>1. OwnAt(p, "mark") /\ ~OwnAt(p, "idle") /\ ownCall[p].at \in Sending
      /\ UNCHANGED <<rows, creating, session, card, handed, ownFaults>>
  BY DEF MarkOwn, OwnAt, Sending
<1>2. OwnTxMoves(p) /\ ownFaults' \in 0..MaxOwnFaults
  BY <1>1, NoTxMoves
<1>3. CASE Live(p)
  <2>1. OwnGoto(p, "create") /\ UNCHANGED <<settings, cut>>
    BY <1>3 DEF MarkOwn
  <2>2. creating[ownCall[p].tx] = "committed"
    BY <1>1 DEF OwnInv, CallsInv, CallSound, OwnAt
  <2>3. "create" \in CallLabels /\ "create" \in Sending
    BY DEF CallLabels, Sending
  <2>. QED  BY <1>1, <1>2, <2>1, <2>2, <2>3, ACallGoesOn
<1>4. CASE ~Live(p)
  BY <1>1, <1>2, <1>4, AFailingCall DEF MarkOwn
<1>. QED  BY <1>3, <1>4

LEMMA OwnFaultCounts == ASSUME OwnInv, OwnFault PROVE ownFaults' \in 0..MaxOwnFaults
<1>1. ownFaults \in 0..MaxOwnFaults /\ MaxOwnFaults \in Nat
  BY DEF OwnInv, OwnTypeOK
<1>. QED  BY <1>1 DEF OwnFault

LEMMA BroadcastKeeps == ASSUME OwnInv, NEW p \in Publications, BroadcastOwn(p) PROVE OwnInv'
<1>1. OwnAt(p, "send") /\ ~OwnAt(p, "idle") /\ ownCall[p].at \in Sending
      /\ UNCHANGED <<rows, session, card, handed>>
  BY DEF BroadcastOwn, OwnAt, Sending
<1>2. PICK taken \in BOOLEAN, answered \in BOOLEAN :
        /\ creating' = [creating EXCEPT ![ownCall[p].tx] = IF taken THEN "pool" ELSE "rejected"]
        /\ IF taken /\ answered
           THEN OwnGoto(p, "wait") /\ UNCHANGED <<settings, cut, ownFaults>>
           ELSE Fails(p) /\ OwnFault
  BY DEF BroadcastOwn
<1>3. creating \in Seq({"signed", "pool", "committed", "rejected"}) /\ ownCall[p].tx \in 1..Len(creating)
  BY <1>1 DEF OwnInv, OwnTypeOK, CallsInv, CallSound
<1>4. OwnTxMoves(p) /\ creating'[ownCall[p].tx] # "signed"
  BY <1>1, <1>2, <1>3 DEF OwnTxMoves, OwnAt
<1>5. CASE taken /\ answered
  <2>1. "wait" \in CallLabels /\ "wait" \in Sending
    BY DEF CallLabels, Sending
  <2>. QED  BY <1>1, <1>2, <1>4, <1>5, <2>1, ACallGoesOn
<1>6. CASE ~(taken /\ answered)
  BY <1>1, <1>2, <1>4, <1>6, AFailingCall, OwnFaultCounts
<1>. QED  BY <1>5, <1>6

LEMMA AwaitKeeps == ASSUME OwnInv, NEW p \in Publications, AwaitOwn(p) PROVE OwnInv'
<1>1. OwnAt(p, "wait") /\ ~OwnAt(p, "idle") /\ ownCall[p].at \in Sending
      /\ UNCHANGED <<rows, creating, session, card, handed>>
  BY DEF AwaitOwn, OwnAt, Sending
<1>2. OwnTxMoves(p) /\ ownFaults \in 0..MaxOwnFaults
  BY <1>1, NoTxMoves
<1>3. CASE creating[ownCall[p].tx] = "committed" /\ OwnGoto(p, "mark") /\ UNCHANGED <<settings, cut, ownFaults>>
  <2>1. "mark" \in CallLabels /\ "mark" \in Sending
    BY DEF CallLabels, Sending
  <2>. QED  BY <1>1, <1>2, <1>3, <2>1, ACallGoesOn
<1>4. CASE Fails(p) /\ UNCHANGED ownFaults
  BY <1>1, <1>2, <1>4, AFailingCall
<1>5. CASE Fails(p) /\ OwnFault
  BY <1>1, <1>2, <1>5, AFailingCall, OwnFaultCounts
<1>. QED  BY <1>3, <1>4, <1>5 DEF AwaitOwn

(* The row is written by a live call only, and then there was none.        *)
LEMMA CreateKeeps == ASSUME OwnInv, NEW p \in Publications, CreateRow(p) PROVE OwnInv'
<1>1. /\ OwnTypeOK /\ CallsInv /\ CardsInv
      /\ OwnAt(p, "create") /\ ~OwnAt(p, "idle") /\ ownCall[p].at \in Sending
      /\ UNCHANGED <<creating, session, card, handed, ownFaults>>
  BY DEF OwnInv, CreateRow, OwnAt, Sending
<1>2. OwnTxMoves(p) /\ ownFaults' \in 0..MaxOwnFaults
  BY <1>1, NoTxMoves
<1>3. CASE ~Live(p)
  BY <1>1, <1>2, <1>3, AFailingCall DEF CreateRow
<1>4. CASE Live(p)
  <2>. DEFINE t == ownCall[p].tx
  <2>1. rows' = Append(rows, t) /\ Return(p, t) /\ cut' = cut
    BY <1>4 DEF CreateRow
  <2>2. rows = <<>> /\ t \in 1..Len(creating) /\ creating[t] = "committed"
    BY <1>1, <1>4 DEF CallsInv, CallSound, OwnAt
  <2>3. t \in Ids /\ t # None
    BY <1>1, <2>2, OwnTypes
  <2>4. rows' \in Seq(Ids) /\ Len(rows') = 1 /\ rows'[1] = t
    BY <2>1, <2>2, <2>3
  <2>5. ActiveProfile' = t /\ rows' # <<>>
    <3>. DEFINE now == rows'
    <3>1. Len(now) = 1 /\ now[1] = t
      BY <2>4
    <3>. HIDE DEF now, t
    <3>2. now # <<>>
      BY <3>1, Len(<<>>) = 0
    <3>3. rows' # <<>> /\ rows'[1] = t /\ Len(rows') = 1
      BY <3>1, <3>2 DEF now
    <3>. QED  BY <3>3 DEF ActiveProfile
  <2>6. handed = {} /\ card.at \notin {"print", "shown"}
    BY <1>1, <2>2 DEF CardsInv
  <2>7. /\ ownCall' \in [Publications -> [at : CallLabels, tx : {None} \cup Ids, of : 0..MaxSessions]]
        /\ ownCall'[p] = IdleCall
        /\ \A q \in Publications \ {p} : ownCall'[q] = ownCall[q]
    <3>1. IdleCall \in [at : CallLabels, tx : {None} \cup Ids, of : 0..MaxSessions]
      BY <1>1 DEF IdleCall, CallLabels, OwnTypeOK
    <3>. QED  BY <1>1, <2>1, <3>1 DEF OwnTypeOK, Return
  <2>8. settings' \in [shown : {None} \cup Ids, busy : BOOLEAN, loaded : BOOLEAN]
    <3>1. settings \in [shown : {None} \cup Ids, busy : BOOLEAN, loaded : BOOLEAN]
      BY <1>1 DEF OwnTypeOK
    <3>2. settings' = [settings EXCEPT !.busy = FALSE, !.shown = t]
      BY <1>4, <2>1, <2>3 DEF Return
    <3>. QED  BY <2>3, <3>1, <3>2
  <2>. HIDE DEF t
  <2>9. OwnTypeOK'
    BY <1>1, <1>2, <2>1, <2>4, <2>7, <2>8 DEF OwnTypeOK
  <2>10. CardsInv'
    BY <1>1, <2>6 DEF CardsInv
  <2>11. \A q \in Publications \ {p} : Live(q)' = Live(q) /\ (Live(q) => OwnAt(q, "idle"))
    BY <1>1, <1>4, <2>7 DEF Live, CallsInv, OneLiveCall
  <2>12. IdleCall.at = "idle" /\ IdleCall.tx = None /\ IdleCall.of = 0 /\ session.count \in Nat
    BY <1>1, OwnTypes DEF IdleCall
  <2>13. ASSUME NEW q \in Publications PROVE (CallSound(ownCall[q], Live(q)))'
    <3>1. CASE q = p
      BY <1>1, <2>7, <2>12, <3>1 DEF CallSound, Sending
    <3>2. CASE q # p
      BY <1>1, <2>1, <2>7, <2>11, <3>2 DEF CallsInv, CallSound, Sending, OwnAt
    <3>. QED  BY <3>1, <3>2
  <2>14. OneLiveCall'
    <3>1. \A q, r \in Publications : q # r /\ Live(q)' /\ Live(r)' => OwnAt(q, "idle")' \/ OwnAt(r, "idle")'
      BY <2>7, <2>11, <2>12 DEF OwnAt
    <3>2. ASSUME NEW q \in Publications, NEW r \in Publications, q # r, ownCall'[q].tx # None
          PROVE  ownCall'[q].tx # ownCall'[r].tx
      <4>1. q # p /\ ownCall'[q] = ownCall[q]
        BY <2>7, <2>12, <3>2
      <4>2. CASE r = p
        BY <2>7, <2>12, <3>2, <4>2
      <4>3. CASE r # p
        BY <1>1, <2>7, <3>2, <4>1, <4>3 DEF CallsInv, OneLiveCall
      <4>. QED  BY <4>2, <4>3
    <3>. QED  BY <3>1, <3>2 DEF OneLiveCall
  <2>15. CellsAreKnown'
    <3>1. ASSUME NEW u \in 1..Len(creating), creating[u] # "rejected", u \notin cut PROVE u = t
      <4>1. PICK q \in Publications : Live(q) /\ ownCall[q].at \in Sending /\ ownCall[q].tx = u
        BY <1>1, <2>2, <3>1 DEF CallsInv, CellsAreKnown, Creates
      <4>2. q = p
        BY <2>11, <4>1 DEF OwnAt, Sending
      <4>. QED  BY <4>1, <4>2 DEF t
    <3>. QED  BY <1>1, <2>1, <2>5, <3>1 DEF CellsAreKnown
  <2>16. RowIsCommitted'
    BY <1>1, <2>2, <2>4, <2>5 DEF RowIsCommitted
  <2>. QED  BY <2>9, <2>10, <2>13, <2>14, <2>15, <2>16 DEF OwnInv, CallsInv
<1>. QED  BY <1>3, <1>4

LEMMA OwnStutters == ASSUME OwnInv, UNCHANGED ownVars PROVE OwnInv'
<1>1. OwnTypeOK /\ CallsInv /\ CardsInv
      /\ UNCHANGED <<rows, creating, ownCall, session, settings, card, handed, cut, ownFaults>>
  BY DEF OwnInv, ownVars
<1>2. CallsInv'
  BY <1>1, CallsRest
<1>. QED  BY <1>1, <1>2 DEF OwnInv, OwnTypeOK, CardsInv, ActiveProfile

LEMMA OwnStep == OwnInv /\ [OwnNext]_ownVars => OwnInv'
<1>. SUFFICES ASSUME OwnInv, [OwnNext]_ownVars PROVE OwnInv'
  OBVIOUS
<1>1. CASE Unlock
  BY <1>1, UnlockKeeps
<1>2. CASE LockOwn
  BY <1>2, LockKeeps
<1>3. CASE KillOwn
  BY <1>3, KillKeeps
<1>4. CASE ResetLocalData
  BY <1>4, ResetKeeps
<1>5. CASE \/ LoadMyProfile \/ SendAsMyself \/ OpenCard \/ ReadCardId
           \/ ReadFingerprint \/ ShareCard \/ CloseCard
  BY <1>5, ScreensLook
<1>6. ASSUME NEW t \in DOMAIN creating, NodeDecides(t) PROVE OwnInv'
  <2>1. DOMAIN creating = 1..Len(creating)
    BY DEF OwnInv, OwnTypeOK
  <2>. QED  BY <1>6, <2>1, VerdictKeeps
<1>7. ASSUME NEW p \in Publications,
             \/ TapPublish(p) \/ CheckExisting(p) \/ BuildAndSign(p) \/ RecordOwn(p)
             \/ BroadcastOwn(p) \/ AwaitOwn(p) \/ MarkOwn(p) \/ CreateRow(p)
      PROVE  OwnInv'
  BY <1>7, TapPublishKeeps, CheckKeeps, BuildKeeps, RecordKeeps, BroadcastKeeps, AwaitKeeps, MarkKeeps,
     CreateKeeps
<1>8. CASE UNCHANGED ownVars
  BY <1>8, OwnStutters
<1>. QED  BY <1>1, <1>2, <1>3, <1>4, <1>5, <1>6, <1>7, <1>8 DEF OwnNext

LEMMA OwnInvImplies == OwnInv => OwnTypeOK /\ ProfileIsOne
<1>. SUFFICES ASSUME OwnInv PROVE ProfileIsOne
  BY DEF OwnInv
<1>1. OwnTypeOK /\ CallsInv /\ CardsInv
  BY DEF OwnInv
<1>2. Committed = {t \in 1..Len(creating) : creating[t] = "committed"}
  BY <1>1 DEF OwnTypeOK, Committed
<1>3. CardsAreHeard
  BY <1>1, <1>2 DEF CardsAreHeard, CardsInv, CallsInv, RowIsCommitted
<1>4. ASSUME NEW t \in Committed \ cut, NEW u \in Committed \ cut PROVE t = u
  <2>1. /\ (rows # <<>> /\ t = ActiveProfile) \/ Creates(t)
        /\ (rows # <<>> /\ u = ActiveProfile) \/ Creates(u)
    BY <1>1, <1>2 DEF CallsInv, CellsAreKnown
  <2>2. \A v : Creates(v) => rows = <<>>
    BY <1>1 DEF CallsInv, CallSound, Creates
  <2>3. Creates(t) /\ Creates(u) => t = u
    <3>1. SUFFICES ASSUME NEW p \in Publications, NEW q \in Publications, Live(p), Live(q),
                          ownCall[p].at \in Sending, ownCall[q].at \in Sending
                   PROVE  p = q
      BY DEF Creates
    <3>. QED  BY <1>1, <3>1 DEF CallsInv, OneLiveCall, OwnAt, Sending
  <2>. QED  BY <2>1, <2>2, <2>3
<1>5. OneCellUnlessCut
  BY <1>4, AtMostOne DEF OneCellUnlessCut
<1>. QED  BY <1>3, <1>5 DEF ProfileIsOne

-----------------------------------------------------------------------------
(* The chat screen (ChatScreen).                                           *)

ChatRow == [of : Inputs \cup {Photo}, state : OutgoingStates, accepted : BOOLEAN]

TapLabels == {"idle", "pick", "check", "insert", "queue", "unqueue", "requeue",
              "publish", "building", "sent", "raised"}

ChatTap == [at : TapLabels, by : {"send", "attach", "retry"},
            of : Inputs \cup {Photo, NoText}, row : Nat, broadcast : BOOLEAN]

(* A tap has a row from its insert on, a retry from its beginning.         *)
TapIsMade(w) ==
    \/ w = IdleTap
    \/ /\ w.at # "idle"
       /\ w.by = "send" => w.of \in Inputs
       /\ w.by = "attach" => w.of = Photo
       /\ w.at \in {"pick", "check"} => w.by # "send"
       /\ w.at \in {"insert", "queue"} => w.by # "retry"
       /\ w.at = "unqueue" => w.by = "attach"
       /\ w.at = "requeue" => w.by = "retry"
       /\ w.broadcast => w.at = "raised"
       /\ w.row = 0 <=> w.by # "retry" /\ w.at \in {"pick", "check", "insert"}

InDraft(s) == s.state = "draft"

ChatTyped ==
    /\ sends \in Seq(ChatRow) /\ Len(sends) + mount <= MaxScope
    /\ drawn \subseteq DOMAIN sends /\ UNION reloads \subseteq DOMAIN sends
    /\ box \in Inputs \cup {NoText} /\ typed \subseteq Inputs
    /\ mount \in 0..MaxScope /\ open \in BOOLEAN
    /\ open => mount # 0
    /\ tap \in [Mounts -> ChatTap]
    /\ \A k \in Mounts : tap[k].row \in 0..Len(sends)
    /\ UNION {contested, undone, left} \subseteq DOMAIN sends
    /\ screenFaults \in 0..MaxScreenFaults

TapsAreMade ==
    \A k \in Mounts :
       /\ TapIsMade(tap[k])
       /\ tap[k].row # 0 => /\ sends[tap[k].row].of = tap[k].of
                            /\ InDraft(sends[tap[k].row]) <=> tap[k].at \in {"queue", "unqueue"}

OnScreen == drawn \cup UNION reloads

(* Nothing goes back to being a draft, and no bubble offers to send one.   *)
DraftsAreOut == \A i \in contested \cup OnScreen : ~InDraft(sends[i])

StateFits(w, state) ==
    /\ w.at \in {"pick", "check", "requeue"} => state = "failed"
    /\ w.at = "publish" => state = "queued"
    /\ w.at = "building" => state = "submitting"
    /\ w.at = "sent" \/ (w.at = "raised" /\ w.broadcast) => state \in {"pending", "available_on_chain"}
    /\ w.at = "raised" /\ ~w.broadcast => state \in {"failed", "queued"}

(* A row that is not contested is worked on by one screen, which knows it. *)
OneWorks ==
    \A k \in Mounts : tap[k].row # 0 /\ tap[k].row \notin contested =>
       /\ StateFits(tap[k], StateOf(k))
       /\ \A j \in Mounts : tap[j].row = tap[k].row => j = k

Sends(k, t) == tap[k].at \in {"insert", "queue"} /\ tap[k].of = t

(* A text is in the input, or in the hands of one screen, or sent.         *)
TextIsOnce(t) ==
    /\ box = t => open
    /\ RowsOf(t) # {} \/ box = t \/ (\E k \in Mounts : Sends(k, t)) => t \in typed
    /\ (\E i \in RowsOf(t) : ~InDraft(sends[i])) => box # t /\ \A k \in Mounts : ~Sends(k, t)
    /\ \A j, k \in Mounts : Sends(j, t) /\ Sends(k, t) => j = k
    /\ \A k \in Mounts : Sends(k, t) /\ box = t => k = mount
    /\ \A i, j \in RowsOf(t) : ~InDraft(sends[i]) /\ ~InDraft(sends[j]) => i = j

ChatInv ==
    /\ ChatTyped /\ TapsAreMade /\ DraftsAreOut /\ OneWorks
    /\ undone = {} /\ NoStrandedPhoto
    /\ \A t \in Inputs : TextIsOnce(t)

(* A row that is marked failed while it waits or is built takes it.        *)
LEMMA FailureIsTaken ==
    \A s \in {"queued", "submitting", "failed", "draft"} : Accepts(s, "failed")
<1>1. \A s \in {"queued", "submitting", "draft"} : <<s, "failed">> \in OutgoingTransitions
  <2>1. \A s \in {"queued", "submitting", "draft"} : s \in OutgoingStates \ (TerminalStates \cup {"failed"})
    BY DEF OutgoingStates, TerminalStates
  <2>. QED  BY <2>1 DEF OutgoingTransitions
<1>. QED  BY <1>1 DEF Accepts, CanTransition

LEMMA IdleIsMade == IdleTap \in ChatTap /\ TapIsMade(IdleTap) /\ IdleTap.row = 0 /\ IdleTap.at = "idle"
BY DEF IdleTap, ChatTap, TapLabels, TapIsMade

LEMMA ListsOfNone ==
    /\ UNION {} = {}
    /\ \A S : UNION {S} = S
    /\ \A R, S : UNION (R \cup {S}) = (UNION R) \cup S
OBVIOUS

LEMMA ChatStarts == ChatInit => ChatInv
<1>. SUFFICES ASSUME ChatInit PROVE ChatInv
  OBVIOUS
<1>0. MaxScope \in Nat /\ MaxScreenFaults \in Nat
  BY ChatAssumption
<1>1. /\ sends = <<>> /\ drawn = {} /\ reloads = {} /\ box = NoText /\ typed = {} /\ mount = 0
      /\ open = FALSE /\ contested = {} /\ undone = {} /\ left = {} /\ screenFaults = 0
      /\ \A k \in Mounts : tap[k] = IdleTap
  BY DEF ChatInit
<1>2. DOMAIN sends = {} /\ Len(sends) = 0 /\ sends \in Seq(ChatRow)
  BY <1>1
<1>3. ChatTyped
  <2>1. tap \in [Mounts -> ChatTap]
    BY IdleIsMade DEF ChatInit
  <2>2. \A k \in Mounts : tap[k].row \in 0..Len(sends)
    BY <1>1, <1>2, IdleIsMade
  <2>3. mount \in 0..MaxScope /\ screenFaults \in 0..MaxScreenFaults /\ Len(sends) + mount <= MaxScope
    BY <1>0, <1>1, <1>2
  <2>. QED  BY <1>1, <1>2, <2>1, <2>2, <2>3 DEF ChatTyped
<1>4. TapsAreMade
  BY <1>1, IdleIsMade DEF TapsAreMade
<1>5. OneWorks
  BY <1>1, IdleIsMade DEF OneWorks
<1>6. DraftsAreOut
  BY <1>1, ListsOfNone DEF DraftsAreOut, OnScreen
<1>7. NoStrandedPhoto /\ \A t \in Inputs : RowsOf(t) = {}
  BY <1>2 DEF NoStrandedPhoto, RowsOf
<1>8. ASSUME NEW t \in Inputs PROVE TextIsOnce(t)
  <2>1. box # t
    BY <1>1, ChatAssumption
  <2>2. \A k \in Mounts : ~Sends(k, t)
    BY <1>1, IdleIsMade DEF Sends
  <2>. QED  BY <1>7, <2>1, <2>2 DEF TextIsOnce
<1>. QED  BY <1>1, <1>3, <1>4, <1>5, <1>6, <1>7, <1>8 DEF ChatInv

(* What is read and drawn is what was, or the failed rows of now.          *)
ListsFollow == OnScreen' \subseteq OnScreen \cup Snapshot

(* Rows stay what they are of, and never go back to being a draft.         *)
RowsFollow ==
    /\ sends' \in Seq(ChatRow) /\ Len(sends') = Len(sends)
    /\ \A i \in DOMAIN sends : /\ sends'[i].of = sends[i].of
                               /\ InDraft(sends'[i]) => InDraft(sends[i])

LEMMA DraftsKeep ==
    ASSUME ChatInv, ListsFollow, RowsFollow, contested' \subseteq contested \cup drawn
    PROVE  /\ DraftsAreOut' /\ DOMAIN sends' = DOMAIN sends
           /\ drawn' \subseteq DOMAIN sends' /\ UNION reloads' \subseteq DOMAIN sends'
           /\ contested' \subseteq DOMAIN sends'
<1>1. /\ sends \in Seq(ChatRow) /\ sends' \in Seq(ChatRow)
      /\ drawn \subseteq DOMAIN sends /\ UNION reloads \subseteq DOMAIN sends
      /\ contested \subseteq DOMAIN sends
  BY DEF ChatInv, ChatTyped, RowsFollow
<1>2. DOMAIN sends' = DOMAIN sends
  BY <1>1 DEF RowsFollow
<1>3. Snapshot \subseteq DOMAIN sends /\ \A i \in Snapshot : ~InDraft(sends[i])
  BY DEF Snapshot, InDraft
<1>4. \A i \in contested' \cup OnScreen' : i \in DOMAIN sends /\ ~InDraft(sends[i])
  <2>1. \A i \in contested \cup OnScreen : i \in DOMAIN sends /\ ~InDraft(sends[i])
    BY <1>1 DEF ChatInv, DraftsAreOut, OnScreen
  <2>2. drawn \subseteq OnScreen
    BY DEF OnScreen
  <2>. QED  BY <1>3, <2>1, <2>2 DEF ListsFollow
<1>5. DraftsAreOut'
  BY <1>4 DEF DraftsAreOut, RowsFollow
<1>6. drawn' \subseteq OnScreen' /\ UNION reloads' \subseteq OnScreen'
  BY DEF OnScreen
<1>. QED  BY <1>2, <1>4, <1>5, <1>6

(* Whoever moves, a text is where it was, or in the input no longer.       *)
LEMMA TextsKeep ==
    ASSUME ChatInv, RowsFollow,
           \A i \in DOMAIN sends : sends[i].of # Photo => (InDraft(sends'[i]) <=> InDraft(sends[i])),
           \A k \in Mounts : \A t \in Inputs : Sends(k, t)' => Sends(k, t),
           box' = NoText \/ UNCHANGED <<box, open, mount>>, typed' = typed
    PROVE  \A t \in Inputs : TextIsOnce(t)'
<1>. SUFFICES ASSUME NEW t \in Inputs PROVE TextIsOnce(t)'
  OBVIOUS
<1>1. TextIsOnce(t) /\ t # NoText /\ t # Photo
  BY ChatAssumption DEF ChatInv
<1>2. DOMAIN sends' = DOMAIN sends
  BY DEF RowsFollow, ChatInv, ChatTyped
<1>3. RowsOf(t)' = RowsOf(t) /\ \A i \in RowsOf(t) : InDraft(sends'[i]) <=> InDraft(sends[i])
  BY <1>1, <1>2 DEF RowsOf, RowsFollow
<1>4. \A k \in Mounts : Sends(k, t)' => Sends(k, t)
  OBVIOUS
<1>5. box' = t => UNCHANGED <<box, open, mount>>
  BY <1>1
<1>. QED  BY <1>1, <1>3, <1>4, <1>5 DEF TextIsOnce

-----------------------------------------------------------------------------
(* The tap of a screen that has its row goes on to w, and moves the row    *)
(* alone.                                                                  *)
TapGoesOn(k, w) ==
    /\ tap[k].row # 0
    /\ tap' = [tap EXCEPT ![k] = w]
    /\ w \in ChatTap /\ TapIsMade(w)
    /\ w = IdleTap \/ (w.row = tap[k].row /\ w.of = tap[k].of)
    /\ w # IdleTap => (InDraft(sends'[tap[k].row]) <=> w.at \in {"queue", "unqueue"})
    /\ w # IdleTap /\ tap[k].row \notin contested => StateFits(w, sends'[tap[k].row].state)
    /\ RowsFollow
    /\ \A i \in DOMAIN sends : i # tap[k].row => sends'[i] = sends[i]

(* It gives up no image that is not sent, unless it could not say so.      *)
PhotoIsKept(k) ==
    sends[tap[k].row].of = Photo /\ tap[k].row \notin contested /\ tap'[k] = IdleTap =>
       tap[k].row \in left' \/ sends'[tap[k].row].state \notin {"draft", "queued", "submitting"}

TheRestStays(k) ==
    /\ ListsFollow /\ UNCHANGED <<typed, mount, open, contested, undone>>
    /\ box' \in {box, NoText}
    /\ left \subseteq left' /\ left' \subseteq left \cup {tap[k].row}
    /\ screenFaults' \in 0..MaxScreenFaults

LEMMA RowsInHand ==
    ASSUME ChatInv, NEW k \in Mounts
    PROVE  /\ tap[k] \in ChatTap /\ tap[k].row \in 0..Len(sends) /\ TapIsMade(tap[k])
           /\ sends \in Seq(ChatRow)
           /\ tap[k].row # 0 => /\ tap[k].row \in DOMAIN sends
                                /\ sends[tap[k].row] \in ChatRow
                                /\ sends[tap[k].row].of = tap[k].of
                                /\ InDraft(sends[tap[k].row]) <=> tap[k].at \in {"queue", "unqueue"}
<1>1. /\ tap[k] \in ChatTap /\ tap[k].row \in 0..Len(sends) /\ TapIsMade(tap[k])
      /\ sends \in Seq(ChatRow)
  BY DEF ChatInv, ChatTyped, TapsAreMade
<1>2. tap[k].row # 0 => tap[k].row \in 1..Len(sends)
  BY <1>1
<1>3. tap[k].row # 0 => tap[k].row \in DOMAIN sends /\ sends[tap[k].row] \in ChatRow
  BY <1>1, <1>2
<1>. QED  BY <1>1, <1>3 DEF ChatInv, TapsAreMade

LEMMA TapKeeps ==
    ASSUME ChatInv, NEW k \in Mounts, NEW w, TapGoesOn(k, w), PhotoIsKept(k), TheRestStays(k),
           \A t \in Inputs : TextIsOnce(t)'
    PROVE  ChatInv'
<1>. DEFINE i == tap[k].row
<1>1. /\ ChatTyped /\ TapsAreMade /\ OneWorks /\ NoStrandedPhoto /\ tap \in [Mounts -> ChatTap]
      /\ RowsFollow /\ ListsFollow /\ UNCHANGED <<typed, mount, open, contested, undone>>
  BY DEF ChatInv, ChatTyped, TapGoesOn, TheRestStays
<1>2. /\ DraftsAreOut' /\ DOMAIN sends' = DOMAIN sends /\ drawn' \subseteq DOMAIN sends'
      /\ UNION reloads' \subseteq DOMAIN sends' /\ contested' \subseteq DOMAIN sends'
  BY <1>1, DraftsKeep
<1>3. /\ i # 0 /\ i \in DOMAIN sends /\ sends[i].of = tap[k].of /\ i \in 0..Len(sends)
  BY RowsInHand DEF TapGoesOn
<1>4. /\ tap' \in [Mounts -> ChatTap] /\ tap'[k] = w
      /\ \A j \in Mounts \ {k} : tap'[j] = tap[j]
  BY <1>1 DEF TapGoesOn
<1>5. w = IdleTap \/ (w.row = i /\ w.of = tap[k].of)
  BY DEF TapGoesOn
<1>6. w.row \in {0, i}
  BY <1>5, IdleIsMade
<1>7. ChatTyped'
  <2>1. \A j \in Mounts : tap'[j].row \in 0..Len(sends')
    <3>1. Len(sends') = Len(sends) /\ \A j \in Mounts : tap[j].row \in 0..Len(sends)
      BY <1>1 DEF RowsFollow, ChatTyped
    <3>. QED  BY <1>3, <1>4, <1>6, <3>1
  <2>2. left' \subseteq DOMAIN sends' /\ undone' \subseteq DOMAIN sends'
    BY <1>1, <1>2, <1>3 DEF TheRestStays, ChatTyped
  <2>3. sends' \in Seq(ChatRow) /\ Len(sends') + mount' <= MaxScope
    BY <1>1 DEF RowsFollow, ChatTyped
  <2>4. box' \in Inputs \cup {NoText} /\ screenFaults' \in 0..MaxScreenFaults
    BY <1>1 DEF TheRestStays, ChatTyped
  <2>. QED  BY <1>1, <1>2, <1>4, <2>1, <2>2, <2>3, <2>4 DEF ChatTyped
<1>8. TapsAreMade'
  <2>1. ASSUME NEW j \in Mounts
        PROVE  /\ TapIsMade(tap'[j])
               /\ tap'[j].row # 0 => /\ sends'[tap'[j].row].of = tap'[j].of
                                     /\ InDraft(sends'[tap'[j].row]) <=> tap'[j].at \in {"queue", "unqueue"}
    <3>1. CASE j = k
      <4>1. TapIsMade(w) /\ (w # IdleTap => (InDraft(sends'[i]) <=> w.at \in {"queue", "unqueue"}))
        BY DEF TapGoesOn
      <4>2. sends'[i].of = sends[i].of
        BY <1>1, <1>3 DEF RowsFollow
      <4>. QED  BY <1>3, <1>4, <1>5, <3>1, <4>1, <4>2, IdleIsMade
    <3>2. CASE j # k
      <4>. DEFINE r == tap[j].row
      <4>1. TapIsMade(tap[j]) /\ tap'[j] = tap[j]
        BY <1>1, <1>4, <3>2 DEF TapsAreMade
      <4>2. CASE r # 0 /\ r # i
        <5>1. r \in DOMAIN sends /\ sends[r].of = tap[j].of /\ (InDraft(sends[r]) <=> tap[j].at \in {"queue", "unqueue"})
          BY <4>2, RowsInHand
        <5>2. sends'[r] = sends[r]
          BY <4>2, <5>1 DEF TapGoesOn
        <5>3. InDraft(sends'[r]) <=> InDraft(sends[r])
          BY <5>2 DEF InDraft
        <5>. QED  BY <4>1, <5>1, <5>2, <5>3
      <4>3. CASE r # 0 /\ r = i
        <5>1. sends[i].of = tap[j].of /\ (InDraft(sends[i]) <=> tap[j].at \in {"queue", "unqueue"})
          BY <4>3, RowsInHand
        <5>2. ~InDraft(sends[i])
          <6>1. CASE i \in contested
            BY <6>1 DEF ChatInv, DraftsAreOut
          <6>2. CASE i \notin contested
            <7>1. j = k
              BY <1>1, <1>3, <4>3, <6>2 DEF OneWorks
            <7>. QED  BY <3>2, <7>1
          <6>. QED  BY <6>1, <6>2
        <5>3. ~InDraft(sends'[i]) /\ sends'[i].of = sends[i].of
          BY <1>1, <1>3, <5>2 DEF RowsFollow
        <5>. QED  BY <4>1, <4>3, <5>1, <5>2, <5>3
      <4>. QED  BY <4>1, <4>2, <4>3
    <3>. QED  BY <3>1, <3>2
  <2>. QED  BY <2>1 DEF TapsAreMade
<1>9. OneWorks'
  <2>1. SUFFICES ASSUME NEW j \in Mounts, tap'[j].row # 0, tap'[j].row \notin contested
        PROVE  /\ StateFits(tap'[j], sends'[tap'[j].row].state)
               /\ \A l \in Mounts : tap'[l].row = tap'[j].row => l = j
    BY <1>1 DEF OneWorks, StateOf
  <2>2. \A l \in Mounts : tap'[l].row # 0 => tap'[l].row = tap[l].row
    BY <1>4, <1>6
  <2>3. \A l \in Mounts : tap'[l].row = tap'[j].row => l = j
    BY <1>1, <2>1, <2>2 DEF OneWorks
  <2>4. CASE j = k
    <3>1. w # IdleTap /\ w.row = i
      BY <1>4, <1>5, <2>1, <2>4, IdleIsMade
    <3>. QED  BY <1>4, <2>1, <2>3, <2>4, <3>1 DEF TapGoesOn
  <2>5. CASE j # k
    <3>1. tap'[j] = tap[j] /\ tap[j].row # i
      <4>1. tap'[j] = tap[j]
        BY <1>4, <2>5
      <4>2. tap[j].row = tap[k].row => k = j
        BY <1>1, <2>1, <4>1 DEF OneWorks
      <4>. QED  BY <2>5, <4>1, <4>2
    <3>2. tap[j].row \in DOMAIN sends
      BY <2>1, <3>1, RowsInHand
    <3>3. sends'[tap[j].row] = sends[tap[j].row]
      BY <3>1, <3>2 DEF TapGoesOn
    <3>4. StateFits(tap[j], sends[tap[j].row].state)
      BY <1>1, <2>1, <3>1 DEF OneWorks, StateOf
    <3>. QED  BY <2>3, <3>1, <3>3, <3>4
  <2>. QED  BY <2>4, <2>5
<1>10. NoStrandedPhoto'
  <2>1. SUFFICES ASSUME NEW r \in DOMAIN sends', sends'[r].of = Photo, r \notin left', r \notin contested',
                        sends'[r].state \in {"draft", "queued", "submitting"}
        PROVE  \E j \in Mounts : tap'[j].at # "idle" /\ tap'[j].row = r
    BY DEF NoStrandedPhoto, RowsOf, Working, TapAt
  <2>2. r \in DOMAIN sends /\ sends[r].of = Photo /\ r \notin left /\ r \notin contested
    BY <1>1, <1>2, <2>1 DEF RowsFollow, TheRestStays
  <2>3. CASE r = i
    <3>1. w # IdleTap
      BY <1>4, <2>1, <2>2, <2>3 DEF PhotoIsKept
    <3>2. w.row = i /\ w.at # "idle"
      BY <1>5, <3>1 DEF TapGoesOn, TapIsMade
    <3>. QED  BY <1>4, <2>3, <3>2
  <2>4. CASE r # i
    <3>1. sends'[r] = sends[r]
      BY <2>2, <2>4 DEF TapGoesOn
    <3>2. PICK j \in Mounts : tap[j].at # "idle" /\ tap[j].row = r
      BY <1>1, <2>1, <2>2, <3>1 DEF NoStrandedPhoto, RowsOf, Working, TapAt
    <3>. QED  BY <1>4, <2>4, <3>2
  <2>. QED  BY <2>3, <2>4
<1>. QED  BY <1>1, <1>2, <1>7, <1>8, <1>9, <1>10 DEF ChatInv

-----------------------------------------------------------------------------
(* Coming, going, typing, reading.                                         *)

LEMMA RowsStay ==
    ASSUME ChatInv, UNCHANGED sends
    PROVE  RowsFollow /\ DOMAIN sends' = DOMAIN sends
BY DEF RowsFollow, ChatInv, ChatTyped

(* Who neither taps nor moves a row disturbs the lists and the input only. *)
LEMMA LooksKeep ==
    ASSUME ChatInv, UNCHANGED <<sends, tap, ghostVars, screenFaults>>, ListsFollow,
           box' \in Inputs \cup {NoText}, typed' \subseteq Inputs,
           mount' \in 0..MaxScope, open' \in BOOLEAN, open' => mount' # 0,
           Len(sends) + mount' <= MaxScope,
           \A t \in Inputs : TextIsOnce(t)'
    PROVE  ChatInv'
<1>1. /\ ChatTyped /\ TapsAreMade /\ OneWorks /\ NoStrandedPhoto /\ undone = {}
      /\ UNCHANGED <<sends, tap, contested, undone, left, screenFaults>>
  BY DEF ChatInv, ghostVars
<1>2. RowsFollow
  BY <1>1, RowsStay
<1>3. /\ DraftsAreOut' /\ DOMAIN sends' = DOMAIN sends
      /\ drawn' \subseteq DOMAIN sends' /\ UNION reloads' \subseteq DOMAIN sends'
  BY <1>1, <1>2, DraftsKeep
<1>4. ChatTyped'
  BY <1>1, <1>3 DEF ChatTyped
<1>5. TapsAreMade'
  BY <1>1 DEF TapsAreMade
<1>6. OneWorks'
  BY <1>1 DEF OneWorks, StateOf
<1>7. NoStrandedPhoto'
  BY <1>1 DEF NoStrandedPhoto, RowsOf, Working, TapAt
<1>. QED  BY <1>1, <1>3, <1>4, <1>5, <1>6, <1>7 DEF ChatInv

LEMMA ChatStutters == ASSUME ChatInv, UNCHANGED screenVars PROVE ChatInv'
<1>1. UNCHANGED <<sends, drawn, reloads, box, typed, mount, open, tap, contested, undone, left, screenFaults>>
  BY DEF screenVars, listVars, boxVars, ghostVars
<1>2. ChatTyped /\ TapsAreMade /\ DraftsAreOut /\ OneWorks /\ undone = {} /\ NoStrandedPhoto
  BY DEF ChatInv
<1>3. ChatTyped' /\ TapsAreMade' /\ DraftsAreOut' /\ OneWorks'
  BY <1>1, <1>2 DEF ChatTyped, TapsAreMade, DraftsAreOut, OnScreen, OneWorks, StateOf
<1>4. NoStrandedPhoto'
  BY <1>1, <1>2 DEF NoStrandedPhoto, RowsOf, Working, TapAt
<1>5. \A t \in Inputs : TextIsOnce(t)'
  BY <1>1 DEF ChatInv, TextIsOnce, RowsOf, Sends
<1>. QED  BY <1>1, <1>2, <1>3, <1>4, <1>5 DEF ChatInv

LEMMA EnterKeeps == ASSUME ChatInv, Enter PROVE ChatInv'
<1>1. /\ Len(sends) + mount < MaxScope /\ mount' = mount + 1 /\ open' = TRUE
      /\ reloads' = {Snapshot} /\ drawn' = {} /\ box' = NoText /\ typed' = typed
      /\ UNCHANGED <<sends, tap, ghostVars, screenFaults>>
  BY DEF Enter
<1>2. /\ mount \in 0..MaxScope /\ MaxScope \in Nat /\ sends \in Seq(ChatRow) /\ typed \subseteq Inputs
  BY ChatAssumption DEF ChatInv, ChatTyped
<1>3. /\ mount' \in 0..MaxScope /\ mount' # 0 /\ Len(sends) + mount' <= MaxScope
  <2>1. Len(sends) \in Nat
    BY <1>2
  <2>. QED  BY <1>1, <1>2, <2>1
<1>4. ListsFollow
  BY <1>1, ListsOfNone DEF ListsFollow, OnScreen
<1>5. \A t \in Inputs : TextIsOnce(t)'
  <2>1. RowsFollow /\ \A i \in DOMAIN sends : sends'[i] = sends[i]
    BY <1>1, RowsStay
  <2>2. \A k \in Mounts : \A t \in Inputs : Sends(k, t)' => Sends(k, t)
    BY <1>1 DEF Sends
  <2>. QED  BY <1>1, <2>1, <2>2, TextsKeep
<1>. QED  BY <1>1, <1>2, <1>3, <1>4, <1>5, LooksKeep

LEMMA LeaveKeeps == ASSUME ChatInv, LeaveScreen PROVE ChatInv'
<1>1. /\ open' = FALSE /\ mount' = mount
      /\ reloads' = {} /\ drawn' = {} /\ box' = NoText /\ typed' = typed
      /\ UNCHANGED <<sends, tap, ghostVars, screenFaults>>
  BY DEF LeaveScreen
<1>2. /\ mount \in 0..MaxScope /\ Len(sends) + mount <= MaxScope /\ typed \subseteq Inputs
  BY DEF ChatInv, ChatTyped
<1>4. ListsFollow
  BY <1>1, ListsOfNone DEF ListsFollow, OnScreen
<1>5. \A t \in Inputs : TextIsOnce(t)'
  <2>1. RowsFollow /\ \A i \in DOMAIN sends : sends'[i] = sends[i]
    BY <1>1, RowsStay
  <2>2. \A k \in Mounts : \A t \in Inputs : Sends(k, t)' => Sends(k, t)
    BY <1>1 DEF Sends
  <2>. QED  BY <1>1, <2>1, <2>2, TextsKeep
<1>. QED  BY <1>1, <1>2, <1>4, <1>5, LooksKeep

(* What is typed is new, and nobody has it in hand.                        *)
LEMMA TypeKeeps == ASSUME ChatInv, NEW t \in Inputs, Type(t) PROVE ChatInv'
<1>1. /\ open /\ box = NoText /\ t \notin typed /\ box' = t /\ typed' = typed \cup {t}
      /\ UNCHANGED <<sends, listVars, mount, open, tap, ghostVars, screenFaults>>
  BY DEF Type
<1>2. /\ mount \in 0..MaxScope /\ Len(sends) + mount <= MaxScope /\ typed \subseteq Inputs
      /\ open \in BOOLEAN /\ (open => mount # 0)
  BY DEF ChatInv, ChatTyped
<1>4. ListsFollow
  BY <1>1 DEF ListsFollow, OnScreen, listVars
<1>5. ASSUME NEW u \in Inputs PROVE TextIsOnce(u)'
  <2>1. TextIsOnce(u)
    BY DEF ChatInv
  <2>2. UNCHANGED <<sends, tap, mount, open>> /\ RowsOf(u)' = RowsOf(u)
    BY <1>1 DEF RowsOf
  <2>3. \A k \in Mounts : Sends(k, u)' <=> Sends(k, u)
    BY <2>2 DEF Sends
  <2>4. CASE u = t
    <3>1. RowsOf(u) = {} /\ \A k \in Mounts : ~Sends(k, u)
      BY <1>1, <2>1, <2>4 DEF TextIsOnce
    <3>. QED  BY <1>1, <2>2, <2>3, <2>4, <3>1 DEF TextIsOnce
  <2>5. CASE u # t
    BY <1>1, <2>1, <2>2, <2>3, <2>5 DEF TextIsOnce
  <2>. QED  BY <2>4, <2>5
<1>. QED  BY <1>1, <1>2, <1>4, <1>5, LooksKeep

LEMMA ListKeeps == ASSUME ChatInv, ReadList \/ DrawList PROVE ChatInv'
<1>1. UNCHANGED <<sends, boxVars, mount, open, tap, ghostVars, screenFaults>>
  BY DEF ReadList, DrawList
<1>2. ListsFollow
  <2>1. CASE ReadList
    <3>1. drawn' = drawn /\ reloads' = reloads \cup {Snapshot}
      BY <2>1 DEF ReadList
    <3>2. UNION reloads' = (UNION reloads) \cup Snapshot
      BY <3>1, ListsOfNone
    <3>. QED  BY <3>1, <3>2 DEF ListsFollow, OnScreen
  <2>2. CASE DrawList
    <3>1. PICK list \in reloads : drawn' = list /\ reloads' = reloads \ {list}
      BY <2>2 DEF DrawList
    <3>. QED  BY <3>1 DEF ListsFollow, OnScreen
  <2>. QED  BY <2>1, <2>2
<1>3. /\ mount \in 0..MaxScope /\ Len(sends) + mount <= MaxScope /\ typed \subseteq Inputs
      /\ open \in BOOLEAN /\ (open => mount # 0) /\ box \in Inputs \cup {NoText}
  BY DEF ChatInv, ChatTyped
<1>4. \A t \in Inputs : TextIsOnce(t)'
  BY <1>1 DEF ChatInv, TextIsOnce, RowsOf, Sends, boxVars
<1>5. UNCHANGED <<box, typed>>
  BY <1>1 DEF boxVars
<1>. QED  BY <1>1, <1>2, <1>3, <1>4, <1>5, LooksKeep

-----------------------------------------------------------------------------
(* The taps.                                                               *)

(* A tap on a row of its own is all that changes.                          *)
LEMMA TapStarts ==
    ASSUME ChatInv, MayPublish, NEW w \in ChatTap, w.at # "idle", TapIsMade(w),
           tap' = [tap EXCEPT ![mount] = w],
           UNCHANGED <<sends, listVars, boxVars, mount, open, undone, left, screenFaults>>,
           contested \subseteq contested', contested' \subseteq contested \cup drawn,
           w.row \in 0..Len(sends),
           w.row # 0 => /\ w.row \in DOMAIN sends /\ sends[w.row].of = w.of
                        /\ ~InDraft(sends[w.row]) /\ w.at \notin {"queue", "unqueue"}
                        /\ w.row \notin contested' => /\ StateFits(w, sends[w.row].state)
                                                      /\ \A j \in Mounts : tap[j].row # w.row,
           \A t \in Inputs : TextIsOnce(t)'
    PROVE  ChatInv'
<1>1. /\ ChatTyped /\ TapsAreMade /\ OneWorks /\ NoStrandedPhoto /\ undone = {}
      /\ mount \in Mounts /\ tap[mount].at = "idle" /\ tap[mount] = IdleTap
      /\ tap \in [Mounts -> ChatTap]
  <2>1. ChatTyped /\ TapsAreMade /\ OneWorks /\ NoStrandedPhoto /\ undone = {}
    BY DEF ChatInv
  <2>2. mount \in Mounts /\ tap[mount].at = "idle"
    BY <2>1 DEF ChatTyped, MayPublish, TapAt, Mounts
  <2>. QED  BY <2>1, <2>2 DEF TapsAreMade, TapIsMade, ChatTyped
<1>2. UNCHANGED <<sends, drawn, reloads, box, typed, mount, open, undone, left, screenFaults>>
  BY DEF listVars, boxVars
<1>3. RowsFollow /\ ListsFollow
  BY <1>2, RowsStay DEF ListsFollow, OnScreen
<1>4. /\ DraftsAreOut' /\ DOMAIN sends' = DOMAIN sends
      /\ drawn' \subseteq DOMAIN sends' /\ UNION reloads' \subseteq DOMAIN sends'
      /\ contested' \subseteq DOMAIN sends'
  BY <1>3, DraftsKeep
<1>5. tap' \in [Mounts -> ChatTap] /\ tap'[mount] = w /\ \A j \in Mounts \ {mount} : tap'[j] = tap[j]
  BY <1>1
<1>6. ChatTyped'
  <2>1. \A j \in Mounts : tap'[j].row \in 0..Len(sends')
    BY <1>1, <1>2, <1>5 DEF ChatTyped
  <2>2. undone' \subseteq DOMAIN sends' /\ left' \subseteq DOMAIN sends'
    BY <1>1, <1>2 DEF ChatTyped
  <2>. QED  BY <1>1, <1>2, <1>4, <1>5, <2>1, <2>2 DEF ChatTyped
<1>7. TapsAreMade'
  <2>1. ASSUME NEW j \in Mounts
        PROVE  /\ TapIsMade(tap'[j])
               /\ tap'[j].row # 0 => /\ sends'[tap'[j].row].of = tap'[j].of
                                     /\ InDraft(sends'[tap'[j].row]) <=> tap'[j].at \in {"queue", "unqueue"}
    <3>1. CASE j = mount
      BY <1>2, <1>5, <3>1
    <3>2. CASE j # mount
      BY <1>1, <1>2, <1>5, <3>2 DEF TapsAreMade
    <3>. QED  BY <3>1, <3>2
  <2>. QED  BY <2>1 DEF TapsAreMade
<1>8. OneWorks'
  <2>1. SUFFICES ASSUME NEW j \in Mounts, tap'[j].row # 0, tap'[j].row \notin contested'
        PROVE  /\ StateFits(tap'[j], sends[tap'[j].row].state)
               /\ \A l \in Mounts : tap'[l].row = tap'[j].row => l = j
    BY <1>2 DEF OneWorks, StateOf
  <2>2. CASE j = mount
    BY <1>5, <2>1, <2>2
  <2>3. CASE j # mount
    <3>1. /\ tap'[j] = tap[j] /\ tap[j].row \notin contested
          /\ StateFits(tap[j], sends[tap[j].row].state)
          /\ \A l \in Mounts : tap[l].row = tap[j].row => l = j
      BY <1>1, <1>5, <2>1, <2>3 DEF OneWorks, StateOf
    <3>2. w.row # tap[j].row
      BY <1>2, <2>1, <3>1
    <3>. QED  BY <1>5, <3>1, <3>2
  <2>. QED  BY <2>2, <2>3
<1>9. NoStrandedPhoto'
  <2>1. SUFFICES ASSUME NEW r \in DOMAIN sends, sends[r].of = Photo, r \notin left, r \notin contested',
                        sends[r].state \in {"draft", "queued", "submitting"}
        PROVE  \E j \in Mounts : tap'[j].at # "idle" /\ tap'[j].row = r
    BY <1>2 DEF NoStrandedPhoto, RowsOf, Working, TapAt
  <2>2. PICK j \in Mounts : tap[j].at # "idle" /\ tap[j].row = r
    BY <1>1, <2>1 DEF NoStrandedPhoto, RowsOf, Working, TapAt
  <2>. QED  BY <1>1, <1>5, <2>2
<1>. QED  BY <1>1, <1>2, <1>4, <1>6, <1>7, <1>8, <1>9 DEF ChatInv

TapHas(w, label, who, what, i) ==
    /\ w \in ChatTap /\ w.at = label /\ w.by = who /\ w.of = what /\ w.row = i
    /\ ~w.broadcast

TapAtIs(w, x) == [w EXCEPT !.at = x]
TapByIs(w, x) == [w EXCEPT !.by = x]
TapOfIs(w, x) == [w EXCEPT !.of = x]
TapRowIs(w, x) == [w EXCEPT !.row = x]

LEMMA AFieldIsSet ==
    ASSUME NEW w, NEW label, NEW who, NEW what, NEW i, TapHas(w, label, who, what, i)
    PROVE  /\ \A x \in TapLabels : TapHas(TapAtIs(w, x), x, who, what, i)
           /\ \A x \in {"send", "attach", "retry"} : TapHas(TapByIs(w, x), label, x, what, i)
           /\ \A x \in Inputs \cup {Photo, NoText} : TapHas(TapOfIs(w, x), label, who, x, i)
           /\ \A x \in Nat : TapHas(TapRowIs(w, x), label, who, what, x)
<1>1. \A x \in TapLabels : TapHas(TapAtIs(w, x), x, who, what, i)
  BY DEF ChatTap, TapHas, TapAtIs
<1>2. \A x \in {"send", "attach", "retry"} : TapHas(TapByIs(w, x), label, x, what, i)
  BY DEF ChatTap, TapHas, TapByIs
<1>3. \A x \in Inputs \cup {Photo, NoText} : TapHas(TapOfIs(w, x), label, who, x, i)
  BY DEF ChatTap, TapHas, TapOfIs
<1>4. \A x \in Nat : TapHas(TapRowIs(w, x), label, who, what, x)
  BY DEF ChatTap, TapHas, TapRowIs
<1>. QED  BY <1>1, <1>2, <1>3, <1>4

(* The taps as they begin.                                                 *)
LEMMA FirstTaps ==
    ASSUME NEW what \in Inputs \cup {Photo, NoText}, NEW label \in TapLabels, NEW i \in Nat
    PROVE  /\ TapHas([IdleTap EXCEPT !.at = label, !.of = what], label, "send", what, 0)
           /\ TapHas([IdleTap EXCEPT !.at = label, !.by = "attach", !.of = what], label, "attach", what, 0)
           /\ TapHas([IdleTap EXCEPT !.at = label, !.by = "retry", !.of = what, !.row = i],
                     label, "retry", what, i)
<1>1. TapHas(IdleTap, "idle", "send", NoText, 0)
  BY IdleIsMade DEF TapHas, IdleTap
<1>. DEFINE a == TapAtIs(IdleTap, label)
            b == TapOfIs(TapByIs(a, "attach"), what)
            c == TapOfIs(TapByIs(a, "retry"), what)
<1>2. TapHas(a, label, "send", NoText, 0)
  BY <1>1, AFieldIsSet
<1>3. TapHas(TapOfIs(a, what), label, "send", what, 0)
  BY <1>2, AFieldIsSet
<1>4. TapHas(TapByIs(a, "attach"), label, "attach", NoText, 0) /\ TapHas(TapByIs(a, "retry"), label, "retry", NoText, 0)
  BY <1>2, AFieldIsSet
<1>5. TapHas(b, label, "attach", what, 0) /\ TapHas(c, label, "retry", what, 0)
  BY <1>4, AFieldIsSet
<1>6. TapHas(TapRowIs(c, i), label, "retry", what, i)
  BY <1>5, AFieldIsSet
<1>7. [IdleTap EXCEPT !.at = label, !.of = what] = TapOfIs(a, what)
  BY DEF TapOfIs, TapAtIs
<1>8. [IdleTap EXCEPT !.at = label, !.by = "attach", !.of = what] = b
  BY DEF TapOfIs, TapAtIs, TapByIs
<1>9. [IdleTap EXCEPT !.at = label, !.by = "retry", !.of = what, !.row = i] = TapRowIs(c, i)
  BY DEF TapOfIs, TapAtIs, TapByIs, TapRowIs
<1>. QED  BY <1>3, <1>5, <1>6, <1>7, <1>8, <1>9

LEMMA TapSendKeeps == ASSUME ChatInv, TapSend PROVE ChatInv'
<1>. DEFINE w == [IdleTap EXCEPT !.at = "insert", !.of = box]
<1>1. /\ MayPublish /\ box # NoText /\ tap' = [tap EXCEPT ![mount] = w]
      /\ UNCHANGED <<sends, listVars, boxVars, mount, open, undone, left, screenFaults>>
      /\ contested' = contested
  BY DEF TapSend, ghostVars
<1>2. box \in Inputs /\ tap \in [Mounts -> ChatTap] /\ mount \in Mounts /\ Len(sends) \in Nat
  BY <1>1 DEF ChatInv, ChatTyped, MayPublish, Mounts
<1>3. TapHas(w, "insert", "send", box, 0)
  BY <1>2, FirstTaps DEF TapLabels
<1>. HIDE DEF w
<1>4. w \in ChatTap /\ w.at # "idle" /\ TapIsMade(w) /\ w.row = 0
  BY <1>2, <1>3 DEF TapHas, TapIsMade
<1>5. ASSUME NEW t \in Inputs PROVE TextIsOnce(t)'
  <2>1. TextIsOnce(t) /\ UNCHANGED <<sends, box, typed, open, mount>> /\ RowsOf(t)' = RowsOf(t)
    BY <1>1 DEF ChatInv, boxVars, RowsOf
  <2>2. \A k \in Mounts : Sends(k, t)' <=> Sends(k, t) \/ (k = mount /\ t = box)
    <3>1. ~Sends(mount, t)
      BY <1>1 DEF Sends, MayPublish, TapAt
    <3>2. tap'[mount] = w /\ \A k \in Mounts \ {mount} : tap'[k] = tap[k]
      BY <1>1, <1>2
    <3>. QED  BY <1>3, <3>1, <3>2 DEF Sends, TapHas
  <2>3. CASE t = box
    BY <2>1, <2>2, <2>3, <1>1 DEF TextIsOnce
  <2>4. CASE t # box
    BY <2>1, <2>2, <2>4 DEF TextIsOnce
  <2>. QED  BY <2>3, <2>4
<1>6. contested \subseteq contested' /\ contested' \subseteq contested \cup drawn
  BY <1>1
<1>7. w.row \in 0..Len(sends)
  BY <1>2, <1>4
<1>. QED  BY <1>1, <1>4, <1>5, <1>6, <1>7, TapStarts

LEMMA TapAttachKeeps == ASSUME ChatInv, TapAttach PROVE ChatInv'
<1>. DEFINE w == [IdleTap EXCEPT !.at = "pick", !.by = "attach", !.of = Photo]
<1>1. /\ MayPublish /\ tap' = [tap EXCEPT ![mount] = w]
      /\ UNCHANGED <<sends, listVars, boxVars, mount, open, undone, left, screenFaults>>
      /\ contested' = contested
  BY DEF TapAttach, ghostVars
<1>2. tap \in [Mounts -> ChatTap] /\ mount \in Mounts /\ Len(sends) \in Nat
  BY <1>1 DEF ChatInv, ChatTyped, MayPublish, Mounts
<1>3. TapHas(w, "pick", "attach", Photo, 0)
  BY FirstTaps DEF TapLabels
<1>. HIDE DEF w
<1>4. w \in ChatTap /\ w.at # "idle" /\ TapIsMade(w) /\ w.row = 0
  BY <1>2, <1>3 DEF TapHas, TapIsMade
<1>5. \A t \in Inputs : TextIsOnce(t)'
  <2>1. \A k \in Mounts : \A t \in Inputs : Sends(k, t)' => Sends(k, t)
    <3>1. tap'[mount] = w /\ \A k \in Mounts \ {mount} : tap'[k] = tap[k]
      BY <1>1, <1>2
    <3>. QED  BY <1>3, <3>1 DEF Sends, TapHas
  <2>2. RowsFollow /\ \A i \in DOMAIN sends : sends'[i] = sends[i]
    BY <1>1, RowsStay
  <2>3. UNCHANGED <<box, open, mount>> /\ typed' = typed
    BY <1>1 DEF boxVars
  <2>. QED  BY <2>1, <2>2, <2>3, TextsKeep
<1>6. contested \subseteq contested' /\ contested' \subseteq contested \cup drawn
  BY <1>1
<1>7. w.row \in 0..Len(sends)
  BY <1>2, <1>4
<1>. QED  BY <1>1, <1>4, <1>5, <1>6, <1>7, TapStarts

LEMMA TapRetryKeeps == ASSUME ChatInv, NEW i \in DOMAIN sends, TapRetry(i) PROVE ChatInv'
<1>. DEFINE w == [IdleTap EXCEPT !.at = IF sends[i].of = Photo THEN "pick" ELSE "check",
                                 !.by = "retry", !.of = sends[i].of, !.row = i]
            label == IF sends[i].of = Photo THEN "pick" ELSE "check"
<1>1. /\ MayPublish /\ i \in drawn /\ tap' = [tap EXCEPT ![mount] = w]
      /\ UNCHANGED <<sends, listVars, boxVars, mount, open, undone, left, screenFaults>>
      /\ contested' = IF sends[i].state # "failed" \/ Working(i) # {}
                      THEN contested \cup {i} ELSE contested
  BY DEF TapRetry
<1>2. /\ tap \in [Mounts -> ChatTap] /\ mount \in Mounts /\ sends \in Seq(ChatRow)
      /\ i \in Nat \ {0} /\ i \in 0..Len(sends) /\ sends[i] \in ChatRow
  <2>1. tap \in [Mounts -> ChatTap] /\ mount \in Mounts /\ sends \in Seq(ChatRow)
    BY <1>1 DEF ChatInv, ChatTyped, MayPublish, Mounts
  <2>. QED  BY <2>1
<1>3. label \in {"pick", "check"}
  OBVIOUS
<1>3a. w = [IdleTap EXCEPT !.at = label, !.by = "retry", !.of = sends[i].of, !.row = i]
  OBVIOUS
<1>. HIDE DEF w, label
<1>3b. TapHas(w, label, "retry", sends[i].of, i)
  <2>1. sends[i].of \in Inputs \cup {Photo, NoText} /\ label \in TapLabels /\ i \in Nat
    BY <1>2, <1>3 DEF TapLabels, ChatRow
  <2>2. TapHas([IdleTap EXCEPT !.at = label, !.by = "retry", !.of = sends[i].of, !.row = i],
               label, "retry", sends[i].of, i)
    BY <2>1, FirstTaps
  <2>. QED  BY <1>3a, <2>2
<1>4. /\ w \in ChatTap /\ w.at # "idle" /\ TapIsMade(w) /\ w.row = i /\ w.of = sends[i].of
      /\ w.at \in {"pick", "check"}
  BY <1>2, <1>3, <1>3b DEF TapHas, TapIsMade, ChatRow
<1>5. \A t \in Inputs : TextIsOnce(t)'
  <2>1. \A k \in Mounts : \A t \in Inputs : Sends(k, t)' => Sends(k, t)
    <3>1. tap'[mount] = w /\ \A k \in Mounts \ {mount} : tap'[k] = tap[k]
      BY <1>1, <1>2
    <3>. QED  BY <1>4, <3>1 DEF Sends
  <2>2. RowsFollow /\ \A j \in DOMAIN sends : sends'[j] = sends[j]
    BY <1>1, RowsStay
  <2>3. UNCHANGED <<box, open, mount>> /\ typed' = typed
    BY <1>1 DEF boxVars
  <2>. QED  BY <2>1, <2>2, <2>3, TextsKeep
<1>6. ~InDraft(sends[i])
  BY <1>1 DEF ChatInv, DraftsAreOut, OnScreen
<1>7. i \notin contested' => /\ StateFits(w, sends[i].state)
                             /\ \A j \in Mounts : tap[j].row # i
  <2>1. SUFFICES ASSUME i \notin contested' PROVE StateFits(w, sends[i].state) /\ \A j \in Mounts : tap[j].row # i
    OBVIOUS
  <2>2. sends[i].state = "failed" /\ Working(i) = {}
    BY <1>1, <2>1
  <2>3. StateFits(w, sends[i].state)
    BY <1>4, <2>2 DEF StateFits
  <2>4. ASSUME NEW j \in Mounts, tap[j].row = i PROVE FALSE
    <3>1. tap[j].at # "idle"
      BY <1>2, <2>4, RowsInHand, IdleIsMade DEF TapIsMade
    <3>. QED  BY <2>2, <2>4, <3>1 DEF Working, TapAt
  <2>. QED  BY <2>3, <2>4
<1>8. contested \subseteq contested' /\ contested' \subseteq contested \cup drawn
  BY <1>1
<1>9. w.row # 0 => /\ w.row \in DOMAIN sends /\ sends[w.row].of = w.of
                   /\ ~InDraft(sends[w.row]) /\ w.at \notin {"queue", "unqueue"}
                   /\ w.row \notin contested' => /\ StateFits(w, sends[w.row].state)
                                                 /\ \A j \in Mounts : tap[j].row # w.row
  BY <1>4, <1>6, <1>7
<1>10. w.row \in 0..Len(sends)
  BY <1>2, <1>4
<1>. QED  BY <1>1, <1>4, <1>5, <1>8, <1>9, <1>10, TapStarts

-----------------------------------------------------------------------------
(* A tap under way.                                                        *)

LEMMA TapGoes ==
    ASSUME ChatInv, NEW k \in Mounts, NEW label \in TapLabels, TapGoto(k, label), ~tap[k].broadcast
    PROVE  \E w : /\ TapHas(w, label, tap[k].by, tap[k].of, tap[k].row)
                  /\ tap' = [tap EXCEPT ![k] = w]
<1>. DEFINE w == TapAtIs(tap[k], label)
<1>1. TapHas(tap[k], tap[k].at, tap[k].by, tap[k].of, tap[k].row)
  BY RowsInHand DEF TapHas
<1>2. TapHas(w, label, tap[k].by, tap[k].of, tap[k].row)
  BY <1>1, AFieldIsSet
<1>3. tap' = [tap EXCEPT ![k] = w]
  BY DEF TapGoto, TapAtIs
<1>. QED  BY <1>2, <1>3

(* Row i alone moves, to s.                                                *)
RowGoesTo(i, s) ==
    /\ sends' \in Seq(ChatRow) /\ Len(sends') = Len(sends)
    /\ \A j \in DOMAIN sends : sends'[j].of = sends[j].of /\ (j # i => sends'[j] = sends[j])
    /\ sends'[i].state = s

LEMMA StateIsSet ==
    ASSUME ChatInv, NEW i \in DOMAIN sends, NEW s \in OutgoingStates, SetState(i, s)
    PROVE  RowGoesTo(i, s)
<1>1. sends \in Seq(ChatRow) /\ sends[i] \in ChatRow
  BY DEF ChatInv, ChatTyped
<1>2. PICK made : made = [sends[i] EXCEPT !.state = s]
  OBVIOUS
<1>3. made \in ChatRow /\ made.of = sends[i].of /\ made.state = s
  BY <1>1, <1>2 DEF ChatRow
<1>4. sends' = [sends EXCEPT ![i] = made]
  BY <1>2 DEF SetState
<1>. QED  BY <1>1, <1>3, <1>4 DEF RowGoesTo

LEMMA StateIsLeft ==
    ASSUME ChatInv, NEW i \in DOMAIN sends, UNCHANGED sends
    PROVE  RowGoesTo(i, sends[i].state)
BY DEF RowGoesTo, ChatInv, ChatTyped

(* The tap of screen k goes on to w and leaves its row at s.               *)
TapMoves(k, w, s) ==
    /\ tap[k].row # 0 /\ RowGoesTo(tap[k].row, s)
    /\ tap' = [tap EXCEPT ![k] = w]
    /\ w \in ChatTap /\ TapIsMade(w)
    /\ w = IdleTap \/ (w.row = tap[k].row /\ w.of = tap[k].of)
    /\ s = "draft" => StateOf(k) = "draft"
    /\ w # IdleTap => (s = "draft" <=> w.at \in {"queue", "unqueue"})
    /\ w # IdleTap /\ tap[k].row \notin contested => StateFits(w, s)
    /\ w = IdleTap /\ tap[k].of = Photo /\ tap[k].row \notin contested =>
          tap[k].row \in left' \/ s \notin {"draft", "queued", "submitting"}

LEMMA MovesAreSteps ==
    ASSUME ChatInv, NEW k \in Mounts, NEW w, NEW s, TapMoves(k, w, s), TheRestStays(k),
           \A t \in Inputs : TextIsOnce(t)'
    PROVE  ChatInv'
<1>. DEFINE i == tap[k].row
<1>1. /\ i # 0 /\ i \in DOMAIN sends /\ sends[i] \in ChatRow /\ sends[i].of = tap[k].of
      /\ sends \in Seq(ChatRow)
  BY RowsInHand DEF TapMoves
<1>2. /\ RowGoesTo(i, s) /\ sends'[i].state = s /\ (s = "draft" => sends[i].state = "draft")
      /\ \A j \in DOMAIN sends : sends'[j].of = sends[j].of /\ (j # i => sends'[j] = sends[j])
  BY DEF TapMoves, StateOf, RowGoesTo
<1>3. RowsFollow
  <2>1. ASSUME NEW j \in DOMAIN sends PROVE InDraft(sends'[j]) => InDraft(sends[j])
    BY <1>2 DEF InDraft
  <2>. QED  BY <1>2, <2>1 DEF RowsFollow, RowGoesTo
<1>4. InDraft(sends'[i]) <=> s = "draft"
  BY <1>2 DEF InDraft
<1>. HIDE DEF i
<1>5. TapGoesOn(k, w)
  BY <1>2, <1>3, <1>4 DEF TapMoves, TapGoesOn, i
<1>6. PhotoIsKept(k)
  <2>1. tap'[k] = w
    BY DEF TapMoves, ChatInv, ChatTyped
  <2>. QED  BY <1>1, <1>2, <2>1 DEF PhotoIsKept, TapMoves, i
<1>. QED  BY <1>5, <1>6, TapKeeps

(* But for the composer's queueing, texts stay where they are.             *)
LEMMA TapMovesKeep ==
    ASSUME ChatInv, NEW k \in Mounts, NEW w, NEW s, TapMoves(k, w, s), TheRestStays(k),
           w.at \notin {"insert", "queue"} \/ w.of = Photo,
           tap[k].of # Photo /\ StateOf(k) = "draft" => s = "draft"
    PROVE  ChatInv'
<1>. DEFINE i == tap[k].row
<1>1. /\ i # 0 /\ i \in DOMAIN sends /\ sends[i].of = tap[k].of
  BY RowsInHand DEF TapMoves
<1>2. /\ RowGoesTo(i, s) /\ sends'[i].state = s /\ (s = "draft" => sends[i].state = "draft")
      /\ \A j \in DOMAIN sends : sends'[j].of = sends[j].of /\ (j # i => sends'[j] = sends[j])
      /\ tap[k].of # Photo /\ sends[i].state = "draft" => s = "draft"
  BY DEF TapMoves, StateOf, RowGoesTo
<1>. HIDE DEF i
<1>3. RowsFollow
  <2>1. ASSUME NEW j \in DOMAIN sends PROVE InDraft(sends'[j]) => InDraft(sends[j])
    BY <1>2 DEF InDraft
  <2>. QED  BY <1>2, <2>1 DEF RowsFollow, RowGoesTo
<1>4. ASSUME NEW j \in DOMAIN sends, sends[j].of # Photo
      PROVE  InDraft(sends'[j]) <=> InDraft(sends[j])
  BY <1>1, <1>2, <1>4 DEF InDraft
<1>5. ASSUME NEW j \in Mounts, NEW t \in Inputs, Sends(j, t)' PROVE Sends(j, t)
  <2>1. tap' = [tap EXCEPT ![k] = w] /\ tap \in [Mounts -> ChatTap]
    BY DEF TapMoves, ChatInv, ChatTyped
  <2>2. CASE j = k
    BY <1>5, <2>1, <2>2, ChatAssumption DEF Sends
  <2>3. CASE j # k
    BY <1>5, <2>1, <2>3 DEF Sends
  <2>. QED  BY <2>2, <2>3
<1>6. (box' = NoText \/ UNCHANGED <<box, open, mount>>) /\ typed' = typed
  BY DEF TheRestStays
<1>7. \A t \in Inputs : TextIsOnce(t)'
  BY <1>3, <1>4, <1>5, <1>6, TextsKeep
<1>. QED  BY <1>7, MovesAreSteps

(* A tap without a row.                                                    *)
LEMMA TapWithoutRowKeeps ==
    ASSUME ChatInv, NEW k \in Mounts, NEW w, tap[k].row = 0, tap' = [tap EXCEPT ![k] = w],
           w \in ChatTap, TapIsMade(w), w.row = 0, UNCHANGED <<sends, contested, undone, left>>,
           UNCHANGED <<boxVars, mount, open>>, ListsFollow, screenFaults' \in 0..MaxScreenFaults,
           w.at \notin {"insert", "queue"} \/ w.of = Photo
    PROVE  ChatInv'
<1>1. /\ ChatTyped /\ TapsAreMade /\ OneWorks /\ NoStrandedPhoto /\ undone = {}
      /\ tap \in [Mounts -> ChatTap] /\ UNCHANGED <<box, typed>>
  BY DEF ChatInv, ChatTyped, boxVars
<1>2. tap'[k] = w /\ \A j \in Mounts \ {k} : tap'[j] = tap[j]
  BY <1>1
<1>3. RowsFollow /\ contested' \subseteq contested \cup drawn
  BY RowsStay
<1>4. /\ DraftsAreOut' /\ DOMAIN sends' = DOMAIN sends
      /\ drawn' \subseteq DOMAIN sends' /\ UNION reloads' \subseteq DOMAIN sends'
      /\ contested' \subseteq DOMAIN sends'
  BY <1>3, DraftsKeep
<1>5. ChatTyped'
  <2>1. tap' \in [Mounts -> ChatTap]
    BY <1>1
  <2>2. \A j \in Mounts : tap'[j].row \in 0..Len(sends')
    BY <1>1, <1>2 DEF ChatTyped
  <2>. QED  BY <1>1, <1>4, <2>1, <2>2 DEF ChatTyped
<1>6. TapsAreMade'
  BY <1>1, <1>2 DEF TapsAreMade
<1>7. OneWorks'
  BY <1>1, <1>2 DEF OneWorks, StateOf
<1>8. NoStrandedPhoto'
  <2>1. SUFFICES ASSUME NEW r \in DOMAIN sends, sends[r].of = Photo, r \notin left, r \notin contested,
                        sends[r].state \in {"draft", "queued", "submitting"}
        PROVE  \E j \in Mounts : tap'[j].at # "idle" /\ tap'[j].row = r
    BY DEF NoStrandedPhoto, RowsOf, Working, TapAt
  <2>2. PICK j \in Mounts : tap[j].at # "idle" /\ tap[j].row = r
    BY <1>1, <2>1 DEF NoStrandedPhoto, RowsOf, Working, TapAt
  <2>3. j # k
    BY <1>1, <2>1, <2>2 DEF ChatTyped
  <2>. QED  BY <1>2, <2>2, <2>3
<1>9. \A t \in Inputs : TextIsOnce(t)'
  <2>1. ASSUME NEW j \in Mounts, NEW t \in Inputs, Sends(j, t)' PROVE Sends(j, t)
    <3>1. CASE j = k
      BY <1>2, <2>1, <3>1, ChatAssumption DEF Sends
    <3>2. CASE j # k
      BY <1>2, <2>1, <3>2 DEF Sends
    <3>. QED  BY <3>1, <3>2
  <2>2. \A i \in DOMAIN sends : sends'[i] = sends[i]
    OBVIOUS
  <2>. QED  BY <1>1, <1>3, <2>1, <2>2, TextsKeep
<1>. QED  BY <1>1, <1>4, <1>5, <1>6, <1>7, <1>8, <1>9 DEF ChatInv

-----------------------------------------------------------------------------
(* The steps of a tap.                                                     *)

(* After a call the list is read again, or is not.                         *)
LEMMA ReadAfter ==
    ASSUME NEW k, ReloadAfter(k) \/ UNCHANGED listVars
    PROVE  ListsFollow
<1>1. CASE reloads' = reloads \cup {Snapshot} /\ drawn' = drawn
  BY <1>1, ListsOfNone DEF ListsFollow, OnScreen
<1>2. CASE reloads' = reloads /\ drawn' = drawn
  BY <1>2 DEF ListsFollow, OnScreen
<1>. QED  BY <1>1, <1>2 DEF ReloadAfter, listVars

LEMMA FaultsCount ==
    ASSUME ChatInv, StatementThrows \/ UNCHANGED screenFaults
    PROVE  screenFaults' \in 0..MaxScreenFaults
BY ChatAssumption DEF ChatInv, ChatTyped, StatementThrows

(* What is known of a screen that has a row in hand.                       *)
LEMMA TapInHand ==
    ASSUME ChatInv, NEW k \in Mounts, tap[k].row # 0
    PROVE  /\ tap[k].row \in DOMAIN sends /\ tap[k] \in ChatTap /\ TapIsMade(tap[k])
           /\ tap[k] # IdleTap /\ tap[k].at # "idle"
           /\ StateOf(k) \in OutgoingStates
           /\ StateOf(k) = "draft" <=> tap[k].at \in {"queue", "unqueue"}
           /\ tap[k].row \notin contested => StateFits(tap[k], StateOf(k))
           /\ RowsOf(Photo) \subseteq DOMAIN sends
<1>1. /\ tap[k].row \in DOMAIN sends /\ tap[k] \in ChatTap /\ TapIsMade(tap[k])
      /\ sends[tap[k].row] \in ChatRow
      /\ InDraft(sends[tap[k].row]) <=> tap[k].at \in {"queue", "unqueue"}
  BY RowsInHand
<1>2. tap[k] # IdleTap /\ tap[k].at # "idle"
  BY <1>1, IdleIsMade DEF TapIsMade
<1>3. StateOf(k) \in OutgoingStates
  BY <1>1 DEF StateOf, ChatRow
<1>4. StateOf(k) = "draft" <=> tap[k].at \in {"queue", "unqueue"}
  BY <1>1 DEF StateOf, InDraft
<1>5. tap[k].row \notin contested => StateFits(tap[k], StateOf(k))
  BY DEF ChatInv, OneWorks
<1>. QED  BY <1>1, <1>2, <1>3, <1>4, <1>5 DEF RowsOf

(* The tap ends and leaves the row as it is.                               *)
LEMMA TapEndsKeeps ==
    ASSUME ChatInv, NEW k \in Mounts, TapEnds(k), UNCHANGED <<sends, typed, box, mount, open, contested, undone>>,
           ListsFollow, screenFaults' \in 0..MaxScreenFaults,
           left \subseteq left', left' \subseteq left \cup ({tap[k].row} \ {0}),
           tap[k].row = 0 => left' = left,
           tap[k].row # 0 /\ tap[k].of = Photo /\ tap[k].row \notin contested =>
             tap[k].row \in left' \/ StateOf(k) \notin {"draft", "queued", "submitting"}
    PROVE  ChatInv'
<1>1. IdleTap \in ChatTap /\ TapIsMade(IdleTap) /\ IdleTap.row = 0 /\ IdleTap.at = "idle"
  BY IdleIsMade
<1>2. tap' = [tap EXCEPT ![k] = IdleTap]
  BY DEF TapEnds
<1>3. CASE tap[k].row = 0
  <2>1. UNCHANGED <<sends, contested, undone, left>> /\ UNCHANGED <<boxVars, mount, open>>
    BY <1>3 DEF boxVars
  <2>. QED  BY <1>1, <1>2, <1>3, <2>1, TapWithoutRowKeeps
<1>4. CASE tap[k].row # 0
  <2>. DEFINE s == StateOf(k)
  <2>1. RowGoesTo(tap[k].row, s)
    BY <1>4, TapInHand, StateIsLeft DEF StateOf
  <2>2. TapMoves(k, IdleTap, s)
    BY <1>1, <1>2, <1>4, <2>1 DEF TapMoves
  <2>3. TheRestStays(k)
    BY DEF TheRestStays
  <2>. QED  BY <1>1, <2>2, <2>3, TapMovesKeep
<1>. QED  BY <1>3, <1>4

(* The tap goes on, and leaves the row as it is.                           *)
LEMMA TapGoesKeeps ==
    ASSUME ChatInv, NEW k \in Mounts, NEW label \in TapLabels, TapGoto(k, label),
           ~tap[k].broadcast, tap[k].at # "idle", label # "idle",
           UNCHANGED <<sends, typed, box, mount, open, contested, undone, left>>, ListsFollow,
           screenFaults' \in 0..MaxScreenFaults,
           label \in {"insert", "queue"} => tap[k].by = "attach",
           label = "unqueue" => tap[k].by = "attach",
           label = "requeue" => tap[k].by = "retry",
           label = "check" => tap[k].by # "send",
           tap[k].row = 0 <=> tap[k].by # "retry" /\ label \in {"pick", "check", "insert"},
           label # "pick",
           tap[k].row # 0 => /\ StateOf(k) = "draft" <=> label \in {"queue", "unqueue"}
                             /\ tap[k].row \notin contested =>
                                  \A w : w.at = label /\ ~w.broadcast => StateFits(w, StateOf(k))
    PROVE  ChatInv'
<1>1. PICK w : TapHas(w, label, tap[k].by, tap[k].of, tap[k].row) /\ tap' = [tap EXCEPT ![k] = w]
  BY TapGoes
<1>2. tap[k] \in ChatTap /\ TapIsMade(tap[k])
  BY RowsInHand
<1>3. /\ w \in ChatTap /\ w.at = label /\ w.by = tap[k].by /\ w.of = tap[k].of
      /\ w.row = tap[k].row /\ ~w.broadcast
  BY <1>1 DEF TapHas
<1>4. /\ tap[k].by = "send" => tap[k].of \in Inputs
      /\ tap[k].by = "attach" => tap[k].of = Photo
      /\ tap[k].by \in {"send", "attach", "retry"}
  BY <1>2, IdleIsMade DEF TapIsMade, ChatTap
<1>5. TapIsMade(w)
  <2>1. label \in {"insert", "queue"} => w.by # "retry"
    BY <1>3
  <2>. QED  BY <1>3, <1>4, <2>1 DEF TapIsMade
<1>6. w.at \notin {"insert", "queue"} \/ w.of = Photo
  BY <1>3, <1>4
<1>7. CASE tap[k].row = 0
  <2>1. UNCHANGED <<sends, contested, undone, left>> /\ UNCHANGED <<boxVars, mount, open>>
    BY DEF boxVars
  <2>. QED  BY <1>1, <1>3, <1>5, <1>6, <1>7, <2>1, TapWithoutRowKeeps
<1>8. CASE tap[k].row # 0
  <2>. DEFINE s == StateOf(k)
  <2>1. RowGoesTo(tap[k].row, s)
    BY <1>8, TapInHand, StateIsLeft DEF StateOf
  <2>2. w # IdleTap
    BY <1>3, IdleIsMade
  <2>3. TapMoves(k, w, s)
    BY <1>1, <1>3, <1>5, <1>8, <2>1, <2>2 DEF TapMoves
  <2>4. TheRestStays(k)
    BY DEF TheRestStays
  <2>. QED  BY <1>6, <2>3, <2>4, TapMovesKeep
<1>. QED  BY <1>7, <1>8

LEMMA PickKeeps == ASSUME ChatInv, NEW k \in Mounts, Pick(k) PROVE ChatInv'
<1>1. /\ tap[k].at = "pick" /\ (TapGoto(k, "check") \/ TapEnds(k))
      /\ UNCHANGED <<sends, listVars, typed, box, mount, open, contested, undone, left, screenFaults>>
  BY DEF Pick, TapAt, boxVars, ghostVars
<1>2. /\ tap[k] \in ChatTap /\ TapIsMade(tap[k]) /\ tap[k] # IdleTap
      /\ tap[k].by # "send" /\ ~tap[k].broadcast
      /\ tap[k].row = 0 <=> tap[k].by # "retry"
  BY <1>1, RowsInHand, IdleIsMade DEF TapIsMade
<1>3. tap[k].row # 0 => /\ StateOf(k) # "draft"
                        /\ tap[k].row \notin contested => StateOf(k) = "failed"
  BY <1>1, TapInHand DEF StateFits
<1>4. ListsFollow /\ screenFaults' \in 0..MaxScreenFaults
  BY <1>1, ReadAfter, FaultsCount
<1>5. CASE TapEnds(k)
  BY <1>1, <1>3, <1>4, <1>5, TapEndsKeeps
<1>6. CASE TapGoto(k, "check")
  <2>1. "check" \in TapLabels
    BY DEF TapLabels
  <2>2. tap[k].row # 0 =>
           /\ StateOf(k) = "draft" <=> "check" \in {"queue", "unqueue"}
           /\ tap[k].row \notin contested => \A w : w.at = "check" /\ ~w.broadcast => StateFits(w, StateOf(k))
    BY <1>3 DEF StateFits
  <2>. QED  BY <1>1, <1>2, <1>4, <1>6, <2>1, <2>2, TapGoesKeeps
<1>. QED  BY <1>1, <1>5, <1>6

LEMMA CheckReachableKeeps == ASSUME ChatInv, NEW k \in Mounts, CheckReachable(k) PROVE ChatInv'
<1>. DEFINE label == IF tap[k].by = "attach" THEN "insert" ELSE "requeue"
<1>1. /\ tap[k].at = "check" /\ (TapGoto(k, label) \/ TapEnds(k))
      /\ UNCHANGED <<sends, listVars, typed, box, mount, open, contested, undone, left, screenFaults>>
  BY DEF CheckReachable, TapAt, boxVars, ghostVars
<1>2. /\ tap[k] \in ChatTap /\ TapIsMade(tap[k]) /\ tap[k] # IdleTap
      /\ tap[k].by \in {"attach", "retry"} /\ ~tap[k].broadcast
      /\ tap[k].row = 0 <=> tap[k].by # "retry"
  BY <1>1, RowsInHand, IdleIsMade DEF TapIsMade, ChatTap
<1>3. tap[k].row # 0 => /\ StateOf(k) # "draft"
                        /\ tap[k].row \notin contested => StateOf(k) = "failed"
  BY <1>1, TapInHand DEF StateFits
<1>4. ListsFollow /\ screenFaults' \in 0..MaxScreenFaults
  BY <1>1, ReadAfter, FaultsCount
<1>5. CASE TapEnds(k)
  BY <1>1, <1>3, <1>4, <1>5, TapEndsKeeps
<1>6. CASE TapGoto(k, label)
  <2>1. /\ label \in {"insert", "requeue"}
        /\ label = "insert" <=> tap[k].by = "attach"
        /\ label = "requeue" <=> tap[k].by = "retry"
    BY <1>2
  <2>. HIDE DEF label
  <2>2. label \in TapLabels
    BY <2>1 DEF TapLabels
  <2>3. tap[k].row # 0 => label = "requeue"
    BY <1>2, <2>1
  <2>4. tap[k].row # 0 =>
           /\ StateOf(k) = "draft" <=> label \in {"queue", "unqueue"}
           /\ tap[k].row \notin contested => \A w : w.at = label /\ ~w.broadcast => StateFits(w, StateOf(k))
    BY <1>3, <2>3 DEF StateFits
  <2>5. tap[k].row = 0 <=> tap[k].by # "retry" /\ label \in {"pick", "check", "insert"}
    BY <1>2, <2>1
  <2>6. /\ tap[k].at # "idle" /\ label # "idle" /\ label # "pick" /\ label # "check" /\ label # "unqueue"
        /\ label \in {"insert", "queue"} => tap[k].by = "attach"
        /\ label = "requeue" => tap[k].by = "retry"
    BY <1>1, <2>1
  <2>. QED  BY <1>1, <1>2, <1>4, <1>6, <2>2, <2>4, <2>5, <2>6, TapGoesKeeps
<1>. QED  BY <1>1, <1>5, <1>6

(* Where the tap and the row both move.                                    *)
LEMMA TapAndRowMove ==
    ASSUME ChatInv, NEW k \in Mounts, NEW label \in TapLabels, NEW s \in OutgoingStates,
           TapGoto(k, label), RowGoesTo(tap[k].row, s), ~tap[k].broadcast, tap[k].row # 0,
           UNCHANGED <<typed, mount, open, contested, undone, left>>, box' \in {box, NoText},
           ListsFollow, screenFaults' \in 0..MaxScreenFaults, s # "draft",
           label \in {"publish", "building", "sent", "raised"},
           tap[k].row \notin contested => \A w : w.at = label /\ ~w.broadcast => StateFits(w, s)
    PROVE  /\ \E w : TapMoves(k, w, s) /\ TheRestStays(k) /\ w.at \notin {"insert", "queue"}
           /\ ~(tap[k].of # Photo /\ StateOf(k) = "draft") => ChatInv'
<1>1. PICK w : TapHas(w, label, tap[k].by, tap[k].of, tap[k].row) /\ tap' = [tap EXCEPT ![k] = w]
  BY TapGoes
<1>2. tap[k] \in ChatTap /\ TapIsMade(tap[k]) /\ tap[k] # IdleTap
  BY TapInHand
<1>3. /\ w \in ChatTap /\ w.at = label /\ w.by = tap[k].by /\ w.of = tap[k].of
      /\ w.row = tap[k].row /\ ~w.broadcast
  BY <1>1 DEF TapHas
<1>4. TapIsMade(w)
  BY <1>2, <1>3 DEF TapIsMade
<1>5. w # IdleTap
  BY <1>3, IdleIsMade
<1>6. TapMoves(k, w, s)
  BY <1>1, <1>3, <1>4, <1>5 DEF TapMoves
<1>7. TheRestStays(k)
  BY DEF TheRestStays
<1>8. w.at \notin {"insert", "queue"}
  BY <1>3
<1>9. ~(tap[k].of # Photo /\ StateOf(k) = "draft") => ChatInv'
  BY <1>6, <1>7, <1>8, TapMovesKeep
<1>. QED  BY <1>6, <1>7, <1>8, <1>9

LEMMA RequeueKeeps == ASSUME ChatInv, NEW k \in Mounts, Requeue(k) PROVE ChatInv'
<1>1. /\ tap[k].at = "requeue"
      /\ UNCHANGED <<listVars, typed, box, mount, open, contested, undone, left>>
  BY DEF Requeue, TapAt, boxVars, ghostVars
<1>2. TapIsMade(tap[k]) /\ tap[k].by = "retry" /\ tap[k].row # 0 /\ ~tap[k].broadcast
  BY <1>1, RowsInHand, IdleIsMade DEF TapIsMade
<1>3. /\ StateOf(k) # "draft" /\ StateOf(k) \in OutgoingStates /\ tap[k].row \in DOMAIN sends
      /\ tap[k].row \notin contested => StateOf(k) = "failed"
  BY <1>1, <1>2, TapInHand DEF StateFits
<1>4. ListsFollow /\ screenFaults' \in 0..MaxScreenFaults
  <2>1. StatementThrows \/ UNCHANGED screenFaults
    BY DEF Requeue
  <2>. QED  BY <1>1, <2>1, ReadAfter, FaultsCount
<1>5. CASE SetState(tap[k].row, "queued") /\ TapGoto(k, "publish")
  <2>1. "queued" \in OutgoingStates /\ "publish" \in TapLabels
    BY DEF OutgoingStates, TapLabels
  <2>2. RowGoesTo(tap[k].row, "queued")
    BY <1>3, <1>5, <2>1, StateIsSet
  <2>3. \A w : w.at = "publish" => StateFits(w, "queued")
    BY DEF StateFits
  <2>. QED  BY <1>1, <1>2, <1>3, <1>4, <1>5, <2>1, <2>2, <2>3, TapAndRowMove
<1>6. CASE TapGoto(k, "raised") /\ UNCHANGED sends
  <2>1. "raised" \in TapLabels
    BY DEF TapLabels
  <2>2. RowGoesTo(tap[k].row, StateOf(k))
    BY <1>3, <1>6, StateIsLeft DEF StateOf
  <2>3. tap[k].row \notin contested => \A w : w.at = "raised" /\ ~w.broadcast => StateFits(w, StateOf(k))
    BY <1>3 DEF StateFits
  <2>. QED  BY <1>1, <1>2, <1>3, <1>4, <1>6, <2>1, <2>2, <2>3, TapAndRowMove
<1>. QED  BY <1>5, <1>6 DEF Requeue

LEMMA PublishGoesOnKeeps == ASSUME ChatInv, NEW k \in Mounts, PublishGoesOn(k) PROVE ChatInv'
<1>1. /\ tap[k].at \in {"publish", "building"}
      /\ UNCHANGED <<listVars, typed, box, mount, open, contested, undone, left, screenFaults>>
  BY DEF PublishGoesOn, TapAt, boxVars, ghostVars
<1>2. TapIsMade(tap[k]) /\ tap[k].row # 0 /\ ~tap[k].broadcast
  BY <1>1, RowsInHand, IdleIsMade DEF TapIsMade
<1>3. StateOf(k) # "draft" /\ tap[k].row \in DOMAIN sends
  BY <1>1, <1>2, TapInHand
<1>4. ListsFollow /\ screenFaults' \in 0..MaxScreenFaults
  BY <1>1, ReadAfter, FaultsCount
<1>5. {"submitting", "pending"} \subseteq OutgoingStates /\ {"building", "sent"} \subseteq TapLabels
  BY DEF OutgoingStates, TapLabels
<1>6. CASE SetState(tap[k].row, "submitting") /\ TapGoto(k, "building")
  <2>1. RowGoesTo(tap[k].row, "submitting")
    BY <1>3, <1>5, <1>6, StateIsSet
  <2>2. \A w : w.at = "building" => StateFits(w, "submitting")
    BY DEF StateFits
  <2>. QED  BY <1>1, <1>2, <1>3, <1>4, <1>5, <1>6, <2>1, <2>2, TapAndRowMove
<1>7. CASE RowGoesTo(tap[k].row, "pending") /\ TapGoto(k, "sent")
  <2>1. \A w : w.at = "sent" => StateFits(w, "pending")
    BY DEF StateFits
  <2>. QED  BY <1>1, <1>2, <1>3, <1>4, <1>5, <1>7, <2>1, TapAndRowMove
<1>8. CASE SetState(tap[k].row, "pending") /\ TapGoto(k, "sent")
  BY <1>3, <1>5, <1>7, <1>8, StateIsSet
<1>9. CASE /\ sends' = [sends EXCEPT ![tap[k].row].state = "pending", ![tap[k].row].accepted = TRUE]
           /\ TapGoto(k, "sent")
  <2>1. sends \in Seq(ChatRow) /\ sends[tap[k].row] \in ChatRow
    BY <1>2, RowsInHand
  <2>2. PICK pending : pending = [sends[tap[k].row] EXCEPT !.state = "pending"]
    OBVIOUS
  <2>3. pending \in ChatRow /\ pending.of = sends[tap[k].row].of /\ pending.state = "pending"
    BY <1>5, <2>1, <2>2 DEF ChatRow
  <2>4. PICK made : made = [pending EXCEPT !.accepted = TRUE]
    OBVIOUS
  <2>5. made \in ChatRow
    BY <2>3, <2>4 DEF ChatRow
  <2>6. made.of = sends[tap[k].row].of /\ made.state = "pending"
    BY <2>3, <2>4 DEF ChatRow
  <2>7. sends' = [sends EXCEPT ![tap[k].row] = made]
    BY <1>3, <1>9, <2>1, <2>2, <2>4
  <2>8. RowGoesTo(tap[k].row, "pending")
    BY <1>3, <2>1, <2>5, <2>6, <2>7 DEF RowGoesTo
  <2>. QED  BY <1>7, <1>9, <2>8
<1>. QED  BY <1>6, <1>8, <1>9 DEF PublishGoesOn

LEMMA PublishFailsKeeps == ASSUME ChatInv, NEW k \in Mounts, PublishFails(k) PROVE ChatInv'
<1>1. /\ tap[k].at \in {"publish", "building"} /\ TapGoto(k, "raised")
      /\ UNCHANGED <<listVars, typed, box, mount, open, contested, undone, left, screenFaults>>
  BY DEF PublishFails, TapAt, boxVars, ghostVars
<1>2. TapIsMade(tap[k]) /\ tap[k].row # 0 /\ ~tap[k].broadcast
  BY <1>1, RowsInHand, IdleIsMade DEF TapIsMade
<1>3. /\ StateOf(k) # "draft" /\ StateOf(k) \in OutgoingStates /\ tap[k].row \in DOMAIN sends
      /\ tap[k].row \notin contested => StateOf(k) = (IF tap[k].at = "publish" THEN "queued" ELSE "submitting")
  BY <1>1, <1>2, TapInHand DEF StateFits
<1>4. ListsFollow /\ screenFaults' \in 0..MaxScreenFaults
  BY <1>1, ReadAfter, FaultsCount
<1>5. "failed" \in OutgoingStates /\ "raised" \in TapLabels
  BY DEF OutgoingStates, TapLabels
<1>6. CASE SetState(tap[k].row, "failed")
  <2>1. RowGoesTo(tap[k].row, "failed")
    BY <1>3, <1>5, <1>6, StateIsSet
  <2>2. \A w : w.at = "raised" /\ ~w.broadcast => StateFits(w, "failed")
    BY DEF StateFits
  <2>. QED  BY <1>1, <1>2, <1>3, <1>4, <1>5, <2>1, <2>2, TapAndRowMove
<1>7. CASE UNCHANGED sends /\ (tap[k].row \notin contested => StateOf(k) = "queued")
  <2>1. RowGoesTo(tap[k].row, StateOf(k))
    BY <1>3, <1>7, StateIsLeft DEF StateOf
  <2>2. tap[k].row \notin contested => \A w : w.at = "raised" /\ ~w.broadcast => StateFits(w, StateOf(k))
    BY <1>7 DEF StateFits
  <2>. QED  BY <1>1, <1>2, <1>3, <1>4, <1>5, <2>1, <2>2, TapAndRowMove
<1>8. CASE tap[k].of = Photo /\ TapAt(k, "publish") /\ UNCHANGED sends
  BY <1>3, <1>7, <1>8 DEF TapAt
<1>9. CASE (~Accepts(StateOf(k), "failed") \/ StateOf(k) \in OnItsWay) /\ UNCHANGED sends
  <2>1. tap[k].row \in contested
    <3>1. \A s \in {"queued", "submitting"} : Accepts(s, "failed") /\ s \notin OnItsWay
      BY FailureIsTaken DEF OnItsWay
    <3>. QED  BY <1>3, <1>9, <3>1
  <2>. QED  BY <1>7, <1>9, <2>1
<1>. QED  BY <1>6, <1>8, <1>9 DEF PublishFails

LEMMA PublishEndsKeeps == ASSUME ChatInv, NEW k \in Mounts, PublishEnds(k) PROVE ChatInv'
<1>1. /\ tap[k].at = "sent"
      /\ UNCHANGED <<typed, box, mount, open, contested, undone, left, screenFaults>>
  BY DEF PublishEnds, TapAt, boxVars, ghostVars
<1>2. TapIsMade(tap[k]) /\ tap[k].row # 0 /\ ~tap[k].broadcast /\ tap[k] \in ChatTap
  BY <1>1, RowsInHand, IdleIsMade DEF TapIsMade
<1>3. /\ StateOf(k) # "draft" /\ tap[k].row \in DOMAIN sends
      /\ tap[k].row \notin contested => StateOf(k) \in {"pending", "available_on_chain"}
  BY <1>1, <1>2, TapInHand DEF StateFits
<1>4. screenFaults' \in 0..MaxScreenFaults
  BY <1>1, FaultsCount
<1>5. CASE SetState(tap[k].row, "available_on_chain") /\ TapEnds(k) /\ ReloadAfter(k)
  <2>1. ListsFollow
    BY <1>5, ReadAfter
  <2>2. "available_on_chain" \in OutgoingStates
    BY DEF OutgoingStates
  <2>3. RowGoesTo(tap[k].row, "available_on_chain")
    BY <1>3, <1>5, <2>2, StateIsSet
  <2>4. TapMoves(k, IdleTap, "available_on_chain")
    BY <1>2, <1>5, <2>3, IdleIsMade DEF TapMoves, TapEnds
  <2>5. TheRestStays(k)
    BY <1>1, <1>4, <2>1 DEF TheRestStays
  <2>. QED  BY <1>3, <2>4, <2>5, IdleIsMade, TapMovesKeep
<1>6. CASE /\ tap' = [tap EXCEPT ![k].at = "raised", ![k].broadcast = TRUE]
           /\ UNCHANGED <<sends, listVars>>
  <2>. DEFINE raised == TapAtIs(tap[k], "raised")
              w == [raised EXCEPT !.broadcast = TRUE]
              s == StateOf(k)
  <2>1. TapHas(raised, "raised", tap[k].by, tap[k].of, tap[k].row)
    <3>1. "raised" \in TapLabels
      BY DEF TapLabels
    <3>2. TapHas(tap[k], tap[k].at, tap[k].by, tap[k].of, tap[k].row)
      BY <1>2 DEF TapHas
    <3>. QED  BY <3>1, <3>2, AFieldIsSet
  <2>2. tap' = [tap EXCEPT ![k] = w]
    <3>1. tap \in [Mounts -> ChatTap]
      BY DEF ChatInv, ChatTyped
    <3>. QED  BY <1>6, <3>1 DEF TapAtIs
  <2>3. raised \in ChatTap
    BY <2>1 DEF TapHas
  <2>. HIDE DEF raised
  <2>4. w \in ChatTap
    BY <2>3 DEF ChatTap
  <2>5. w.at = raised.at /\ w.by = raised.by /\ w.of = raised.of /\ w.row = raised.row
    BY <2>3 DEF ChatTap
  <2>6. w.broadcast
    BY <2>3 DEF ChatTap
  <2>. HIDE DEF w
  <2>7. w.at = "raised" /\ w.by = tap[k].by /\ w.of = tap[k].of /\ w.row = tap[k].row
    BY <2>1, <2>5 DEF TapHas
  <2>8. TapIsMade(w) /\ w # IdleTap
    BY <1>1, <1>2, <2>7, IdleIsMade DEF TapIsMade
  <2>9. RowGoesTo(tap[k].row, s)
    BY <1>3, <1>6, StateIsLeft DEF StateOf
  <2>10. tap[k].row \notin contested => StateFits(w, s)
    BY <1>3, <2>6, <2>7 DEF StateFits
  <2>11. TapMoves(k, w, s)
    BY <1>2, <1>3, <2>2, <2>4, <2>7, <2>8, <2>9, <2>10 DEF TapMoves
  <2>12. TheRestStays(k)
    BY <1>1, <1>4, <1>6, ReadAfter DEF TheRestStays
  <2>. QED  BY <2>7, <2>11, <2>12, TapMovesKeep
<1>. QED  BY <1>5, <1>6 DEF PublishEnds

LEMMA UnqueueKeeps == ASSUME ChatInv, NEW k \in Mounts, Unqueue(k) PROVE ChatInv'
<1>1. /\ tap[k].at = "unqueue" /\ TapEnds(k)
      /\ UNCHANGED <<typed, box, mount, open, contested, undone>>
  BY DEF Unqueue, TapAt, boxVars
<1>2. TapIsMade(tap[k]) /\ tap[k].row # 0 /\ tap[k].of = Photo
  BY <1>1, RowsInHand, IdleIsMade DEF TapIsMade
<1>3. tap[k].row \in DOMAIN sends
  BY <1>2, TapInHand
<1>4. ListsFollow
  BY ReadAfter DEF Unqueue
<1>5. screenFaults' \in 0..MaxScreenFaults
  <2>1. StatementThrows \/ UNCHANGED screenFaults
    BY DEF Unqueue
  <2>. QED  BY <2>1, FaultsCount
<1>6. CASE SetState(tap[k].row, "failed") /\ left' = left
  <2>1. "failed" \in OutgoingStates
    BY DEF OutgoingStates
  <2>2. RowGoesTo(tap[k].row, "failed")
    BY <1>3, <1>6, <2>1, StateIsSet
  <2>3. TapMoves(k, IdleTap, "failed")
    BY <1>1, <1>2, <2>2, IdleIsMade DEF TapMoves, TapEnds
  <2>4. TheRestStays(k)
    BY <1>1, <1>4, <1>5, <1>6 DEF TheRestStays
  <2>. QED  BY <1>2, <2>3, <2>4, IdleIsMade, TapMovesKeep
<1>7. CASE left' = left \cup {tap[k].row} /\ UNCHANGED sends
  BY <1>1, <1>2, <1>4, <1>5, <1>7, TapEndsKeeps
<1>. QED  BY <1>6, <1>7 DEF Unqueue

LEMMA CatchKeeps == ASSUME ChatInv, NEW k \in Mounts, Catch(k) PROVE ChatInv'
<1>1. /\ tap[k].at = "raised" /\ TapEnds(k)
      /\ UNCHANGED <<typed, box, mount, open, contested>>
  BY DEF Catch, TapAt, boxVars
<1>2. /\ TapIsMade(tap[k]) /\ tap[k].row # 0
      /\ tap[k].by = "send" => tap[k].of \in Inputs
  BY <1>1, RowsInHand, IdleIsMade DEF TapIsMade
<1>3. /\ StateOf(k) # "draft" /\ tap[k].row \in DOMAIN sends
      /\ tap[k].row \notin contested =>
            /\ tap[k].broadcast => StateOf(k) \in {"pending", "available_on_chain"}
            /\ ~tap[k].broadcast => StateOf(k) \in {"failed", "queued"}
  BY <1>1, <1>2, TapInHand DEF StateFits
<1>4. ListsFollow
  <2>1. ReloadAfter(k) \/ UNCHANGED listVars
    BY DEF Catch
  <2>. QED  BY <2>1, ReadAfter
<1>5. screenFaults' \in 0..MaxScreenFaults
  <2>1. StatementThrows \/ UNCHANGED screenFaults
    BY DEF Catch
  <2>. QED  BY <2>1, FaultsCount
<1>6. CASE ~Marks(k) /\ UNCHANGED <<sends, undone, left, screenFaults>>
  <2>1. tap[k].row # 0 /\ tap[k].of = Photo /\ tap[k].row \notin contested =>
          StateOf(k) \notin {"draft", "queued", "submitting"}
    BY <1>2, <1>3, <1>6, ChatAssumption DEF Marks
  <2>. QED  BY <1>1, <1>2, <1>4, <1>5, <1>6, <2>1, TapEndsKeeps
<1>7. CASE /\ Marks(k) /\ SetState(tap[k].row, "failed") /\ UNCHANGED left
           /\ undone' = IF StateOf(k) \in OnItsWay THEN undone \cup ({tap[k].row} \ contested)
                        ELSE undone
  <2>1. "failed" \in OutgoingStates
    BY DEF OutgoingStates
  <2>2. RowGoesTo(tap[k].row, "failed")
    BY <1>3, <1>7, <2>1, StateIsSet
  <2>3. TapMoves(k, IdleTap, "failed")
    BY <1>1, <1>2, <2>2, IdleIsMade DEF TapMoves, TapEnds
  <2>4. undone' = undone
    BY <1>3, <1>7 DEF Marks, OnItsWay
  <2>5. TheRestStays(k)
    BY <1>1, <1>4, <1>5, <1>7, <2>4 DEF TheRestStays
  <2>. QED  BY <1>3, <2>3, <2>5, IdleIsMade, TapMovesKeep
<1>8. CASE Marks(k) /\ ~Accepts(StateOf(k), "failed") /\ UNCHANGED <<sends, undone, left>>
  <2>1. tap[k].row \in contested
    BY <1>3, <1>8, FailureIsTaken DEF Marks
  <2>. QED  BY <1>1, <1>2, <1>4, <1>5, <1>8, <2>1, TapEndsKeeps
<1>9. CASE Marks(k) /\ left' = left \cup {tap[k].row} /\ UNCHANGED <<sends, undone>>
  BY <1>1, <1>2, <1>4, <1>5, <1>9, TapEndsKeeps
<1>. QED  BY <1>6, <1>7, <1>8, <1>9 DEF Catch

(* The row is made before the screen lets go of the text.                  *)
LEMMA InsertKeeps == ASSUME ChatInv, NEW k \in Mounts, Insert(k) PROVE ChatInv'
<1>1. tap[k].at = "insert" /\ UNCHANGED <<typed, box, mount, open, contested, undone, left>>
  BY DEF Insert, TapAt, boxVars, ghostVars
<1>2. /\ TapIsMade(tap[k]) /\ tap[k].row = 0 /\ tap[k] \in ChatTap /\ tap[k].by \in {"send", "attach"}
      /\ ~tap[k].broadcast /\ tap[k].of \in Inputs \cup {Photo}
      /\ tap[k].by = "send" => tap[k].of \in Inputs
      /\ tap[k].by = "attach" => tap[k].of = Photo
  BY <1>1, RowsInHand, IdleIsMade DEF TapIsMade, ChatTap
<1>3. CASE StatementThrows /\ TapEnds(k) /\ UNCHANGED sends
  <2>1. ListsFollow
    <3>1. ReloadAfter(k) \/ UNCHANGED listVars
      BY <1>1, <1>3, IdleIsMade DEF Insert, TapEnds, ChatInv, ChatTyped
    <3>. QED  BY <3>1, ReadAfter
  <2>2. screenFaults' \in 0..MaxScreenFaults
    BY <1>3, FaultsCount
  <2>. QED  BY <1>1, <1>2, <1>3, <2>1, <2>2, TapEndsKeeps
<1>4. CASE /\ Len(sends) + mount < MaxScope
           /\ sends' = Append(sends, [of |-> tap[k].of, state |-> "draft", accepted |-> FALSE])
           /\ tap' = [tap EXCEPT ![k].at = "queue", ![k].row = Len(sends) + 1]
           /\ UNCHANGED <<screenFaults, listVars>>
  <2>. DEFINE n == Len(sends) + 1
              w == TapRowIs(TapAtIs(tap[k], "queue"), n)
  <2>1. /\ ChatTyped /\ TapsAreMade /\ DraftsAreOut /\ OneWorks /\ NoStrandedPhoto /\ undone = {}
        /\ tap \in [Mounts -> ChatTap] /\ sends \in Seq(ChatRow) /\ UNCHANGED <<drawn, reloads>>
    BY <1>4 DEF ChatInv, ChatTyped, listVars
  <2>2. n \in Nat \ {0} /\ n \notin DOMAIN sends /\ DOMAIN sends = 1..Len(sends) /\ Len(sends) \in Nat
    BY <2>1
  <2>3. TapHas(w, "queue", tap[k].by, tap[k].of, n)
    <3>1. TapHas(tap[k], "insert", tap[k].by, tap[k].of, 0)
      BY <1>1, <1>2 DEF TapHas
    <3>2. TapHas(TapAtIs(tap[k], "queue"), "queue", tap[k].by, tap[k].of, 0)
      BY <3>1, AFieldIsSet DEF TapLabels
    <3>. QED  BY <2>2, <3>2, AFieldIsSet
  <2>4. tap' = [tap EXCEPT ![k] = w]
    BY <1>4, <2>1 DEF TapRowIs, TapAtIs
  <2>. HIDE DEF w
  <2>5. /\ w \in ChatTap /\ w.at = "queue" /\ w.by = tap[k].by /\ w.of = tap[k].of /\ w.row = n
        /\ ~w.broadcast
    BY <2>3 DEF TapHas
  <2>6. TapIsMade(w)
    BY <1>2, <2>2, <2>5 DEF TapIsMade
  <2>7. tap'[k] = w /\ tap' \in [Mounts -> ChatTap] /\ \A j \in Mounts \ {k} : tap'[j] = tap[j]
    BY <2>1, <2>4, <2>5
  <2>8. PICK made : made = [of |-> tap[k].of, state |-> "draft", accepted |-> FALSE]
    OBVIOUS
  <2>9. made \in ChatRow /\ made.of = tap[k].of /\ made.state = "draft"
    BY <1>2, <2>8 DEF ChatRow, OutgoingStates
  <2>10. /\ sends' \in Seq(ChatRow) /\ Len(sends') = n /\ DOMAIN sends' = DOMAIN sends \cup {n}
         /\ \A j \in DOMAIN sends : sends'[j] = sends[j]
         /\ sends'[n] = made
    <3>1. sends' = Append(sends, made)
      BY <1>4, <2>8
    <3>2. sends' \in Seq(ChatRow) /\ Len(sends') = n /\ sends'[n] = made
      BY <2>1, <2>9, <3>1
    <3>3. DOMAIN sends' = 1..n
      BY <3>2
    <3>4. \A j \in DOMAIN sends : sends'[j] = sends[j]
      BY <2>1, <2>9, <3>1
    <3>. QED  BY <2>2, <3>2, <3>3, <3>4
  <2>. HIDE DEF n
  <2>11. ChatTyped'
    <3>1. \A j \in Mounts : tap'[j].row \in 0..Len(sends')
      <4>1. \A j \in Mounts : tap[j].row \in 0..Len(sends)
        BY <2>1 DEF ChatTyped
      <4>2. 0..Len(sends) \subseteq 0..n /\ n \in 0..n
        BY <2>2 DEF n
      <4>. QED  BY <2>5, <2>7, <2>10, <4>1, <4>2
    <3>2. Len(sends') + mount' <= MaxScope
      <4>1. mount \in Nat /\ MaxScope \in Nat
        BY <2>1, ChatAssumption DEF ChatTyped
      <4>. QED  BY <1>1, <1>4, <2>2, <2>10, <4>1 DEF n
    <3>3. /\ drawn' \subseteq DOMAIN sends' /\ UNION reloads' \subseteq DOMAIN sends'
          /\ UNION {contested', undone', left'} \subseteq DOMAIN sends'
      BY <1>1, <2>1, <2>10 DEF ChatTyped
    <3>. QED  BY <1>1, <1>4, <2>1, <2>7, <2>10, <3>1, <3>2, <3>3 DEF ChatTyped
  <2>12. \A j \in Mounts : tap[j].row # 0 => tap[j].row \in DOMAIN sends
    BY RowsInHand
  <2>13. TapsAreMade'
    <3>1. ASSUME NEW j \in Mounts
          PROVE  /\ TapIsMade(tap'[j])
                 /\ tap'[j].row # 0 => /\ sends'[tap'[j].row].of = tap'[j].of
                                       /\ InDraft(sends'[tap'[j].row]) <=> tap'[j].at \in {"queue", "unqueue"}
      <4>1. CASE j = k
        BY <2>5, <2>6, <2>7, <2>9, <2>10, <4>1 DEF InDraft
      <4>2. CASE j # k
        BY <2>1, <2>7, <2>10, <2>12, <4>2 DEF TapsAreMade
      <4>. QED  BY <4>1, <4>2
    <3>. QED  BY <3>1 DEF TapsAreMade
  <2>14. DraftsAreOut'
    <3>1. OnScreen' = OnScreen /\ \A j \in contested \cup OnScreen : j \in DOMAIN sends /\ ~InDraft(sends[j])
      BY <2>1 DEF OnScreen, DraftsAreOut, ChatTyped
    <3>. QED  BY <1>1, <2>10, <3>1 DEF DraftsAreOut
  <2>15. OneWorks'
    <3>1. SUFFICES ASSUME NEW j \in Mounts, tap'[j].row # 0, tap'[j].row \notin contested
          PROVE  /\ StateFits(tap'[j], sends'[tap'[j].row].state)
                 /\ \A l \in Mounts : tap'[l].row = tap'[j].row => l = j
      BY <1>1 DEF OneWorks, StateOf
    <3>2. CASE j = k
      <4>1. StateFits(w, "draft")
        BY <2>5 DEF StateFits
      <4>2. \A l \in Mounts \ {k} : tap[l].row # n
        BY <2>2, <2>12 DEF n
      <4>. QED  BY <2>5, <2>7, <2>9, <2>10, <3>2, <4>1, <4>2
    <3>3. CASE j # k
      <4>1. tap'[j] = tap[j] /\ tap[j].row \in DOMAIN sends /\ tap[j].row # n
        BY <2>2, <2>7, <2>12, <3>1, <3>3 DEF n
      <4>2. /\ StateFits(tap[j], sends[tap[j].row].state)
            /\ \A l \in Mounts : tap[l].row = tap[j].row => l = j
        BY <2>1, <3>1, <4>1 DEF OneWorks, StateOf
      <4>. QED  BY <2>5, <2>7, <2>10, <4>1, <4>2
    <3>. QED  BY <3>2, <3>3
  <2>16. NoStrandedPhoto'
    <3>1. SUFFICES ASSUME NEW r \in DOMAIN sends', sends'[r].of = Photo, r \notin left, r \notin contested,
                          sends'[r].state \in {"draft", "queued", "submitting"}
          PROVE  \E j \in Mounts : tap'[j].at # "idle" /\ tap'[j].row = r
      BY <1>1 DEF NoStrandedPhoto, RowsOf, Working, TapAt
    <3>2. CASE r = n
      BY <2>5, <2>7, <3>2
    <3>3. CASE r # n
      <4>1. r \in DOMAIN sends /\ sends'[r] = sends[r]
        BY <2>10, <3>1, <3>3
      <4>2. PICK j \in Mounts : tap[j].at # "idle" /\ tap[j].row = r
        BY <2>1, <3>1, <4>1 DEF NoStrandedPhoto, RowsOf, Working, TapAt
      <4>3. j # k
        BY <1>2, <2>2, <4>1, <4>2
      <4>. QED  BY <2>7, <4>2, <4>3
    <3>. QED  BY <3>2, <3>3
  <2>17. ASSUME NEW t \in Inputs PROVE TextIsOnce(t)'
    <3>1. TextIsOnce(t)
      BY DEF ChatInv
    <3>2. \A j \in Mounts : Sends(j, t)' <=> Sends(j, t)
      <4>1. Sends(k, t)' <=> Sends(k, t)
        BY <1>1, <2>5, <2>7 DEF Sends
      <4>. QED  BY <2>7, <4>1 DEF Sends
    <3>3. RowsOf(t)' = IF tap[k].of = t THEN RowsOf(t) \cup {n} ELSE RowsOf(t)
      BY <2>9, <2>10 DEF RowsOf
    <3>4. tap[k].of = t => t \in typed
      BY <1>1, <3>1 DEF TextIsOnce, Sends
    <3>5. \A i \in RowsOf(t)' : ~InDraft(sends'[i]) <=> i \in RowsOf(t) /\ ~InDraft(sends[i])
      <4>1. InDraft(sends'[n])
        BY <2>9, <2>10 DEF InDraft
      <4>2. RowsOf(t) \subseteq DOMAIN sends
        BY DEF RowsOf
      <4>. QED  BY <2>2, <2>10, <3>3, <4>1, <4>2 DEF n
    <3>. QED  BY <1>1, <3>1, <3>2, <3>3, <3>4, <3>5 DEF TextIsOnce
  <2>. QED  BY <1>1, <2>1, <2>11, <2>13, <2>14, <2>15, <2>16, <2>17 DEF ChatInv
<1>. QED  BY <1>3, <1>4 DEF Insert

LEMMA QueueKeeps == ASSUME ChatInv, NEW k \in Mounts, Queue(k) PROVE ChatInv'
<1>1. tap[k].at = "queue" /\ UNCHANGED <<typed, mount, open, contested, undone, left>>
  BY DEF Queue, TapAt, ghostVars
<1>2. /\ TapIsMade(tap[k]) /\ tap[k].row # 0 /\ tap[k].by \in {"send", "attach"} /\ ~tap[k].broadcast
      /\ tap[k].by = "send" => tap[k].of \in Inputs
      /\ tap[k].by = "attach" => tap[k].of = Photo
  BY <1>1, RowsInHand, IdleIsMade DEF TapIsMade, ChatTap
<1>3. StateOf(k) = "draft" /\ tap[k].row \in DOMAIN sends /\ sends[tap[k].row].of = tap[k].of
  BY <1>1, <1>2, TapInHand, RowsInHand
<1>4. ListsFollow
  <2>1. ReloadAfter(k) \/ UNCHANGED listVars
    BY DEF Queue
  <2>. QED  BY <2>1, ReadAfter
<1>5. screenFaults' \in 0..MaxScreenFaults
  <2>1. StatementThrows \/ UNCHANGED screenFaults
    BY DEF Queue
  <2>. QED  BY <2>1, FaultsCount
<1>6. CASE /\ SetState(tap[k].row, "queued") /\ box' = Cleared(k)
           /\ TapGoto(k, "publish") \/ (tap[k].by = "send" /\ TapEnds(k))
  <2>1. RowGoesTo(tap[k].row, "queued")
    BY <1>3, <1>6, StateIsSet DEF OutgoingStates
  <2>2. box' \in {box, NoText} /\ (tap[k].by = "send" /\ k = mount => box' = NoText)
    BY <1>6 DEF Cleared
  <2>3. TheRestStays(k)
    BY <1>1, <1>4, <1>5, <2>2 DEF TheRestStays
  <2>4. PICK w : /\ tap' = [tap EXCEPT ![k] = w] /\ w \in ChatTap /\ TapIsMade(w)
                 /\ w.at \in {"publish", "idle"}
                 /\ w = IdleTap \/ (w.row = tap[k].row /\ w.of = tap[k].of)
                 /\ w = IdleTap => tap[k].of # Photo
                 /\ w # IdleTap => w.at = "publish"
    <3>1. CASE TapGoto(k, "publish")
      <4>1. PICK w : TapHas(w, "publish", tap[k].by, tap[k].of, tap[k].row) /\ tap' = [tap EXCEPT ![k] = w]
        BY <1>2, <3>1, TapGoes DEF TapLabels
      <4>2. /\ w \in ChatTap /\ w.at = "publish" /\ w.by = tap[k].by /\ w.of = tap[k].of
            /\ w.row = tap[k].row /\ ~w.broadcast
        BY <4>1 DEF TapHas
      <4>3. TapIsMade(w) /\ w # IdleTap
        BY <1>2, <4>2, IdleIsMade DEF TapIsMade
      <4>. QED  BY <4>1, <4>2, <4>3
    <3>2. CASE tap[k].by = "send" /\ TapEnds(k)
      BY <1>2, <3>2, IdleIsMade, ChatAssumption DEF TapEnds
    <3>. QED  BY <1>6, <3>1, <3>2
  <2>5. TapMoves(k, w, "queued")
    BY <1>2, <2>1, <2>4 DEF TapMoves, StateFits
  <2>6. tap \in [Mounts -> ChatTap] /\ sends \in Seq(ChatRow) /\ DOMAIN sends' = DOMAIN sends
    BY <2>1 DEF ChatInv, ChatTyped, RowGoesTo
  <2>7. ASSUME NEW t \in Inputs PROVE TextIsOnce(t)'
    <3>1. TextIsOnce(t) /\ t # NoText /\ t # Photo
      BY ChatAssumption DEF ChatInv
    <3>2. RowsOf(t)' = RowsOf(t) /\ RowsOf(t) \subseteq DOMAIN sends
      BY <2>1, <2>6 DEF RowsOf, RowGoesTo
    <3>3. \A j \in Mounts : Sends(j, t)' <=> Sends(j, t) /\ j # k
      BY <2>4, <2>6 DEF Sends
    <3>4. box' = t => box = t
      BY <2>2, <3>1
    <3>5. CASE t = tap[k].of
      <4>1. Sends(k, t)
        BY <1>1, <3>5 DEF Sends
      <4>2. \A i \in RowsOf(t) : InDraft(sends[i])
        BY <3>1, <4>1 DEF TextIsOnce
      <4>3. \A j \in Mounts : ~Sends(j, t)'
        BY <3>1, <3>3, <4>1 DEF TextIsOnce
      <4>4. box' # t
        <5>1. tap[k].by = "send"
          BY <1>2, <3>1, <3>5
        <5>. QED  BY <2>2, <3>1, <3>4, <4>1, <5>1 DEF TextIsOnce
      <4>5. \A i \in RowsOf(t) : i # tap[k].row => InDraft(sends'[i])
        BY <2>1, <3>2, <4>2 DEF RowGoesTo
      <4>6. t \in typed
        BY <3>1, <4>1 DEF TextIsOnce
      <4>. QED  BY <1>1, <3>2, <4>3, <4>4, <4>5, <4>6 DEF TextIsOnce
    <3>6. CASE t # tap[k].of
      <4>1. tap[k].row \notin RowsOf(t)
        BY <1>3, <3>6 DEF RowsOf
      <4>2. \A i \in RowsOf(t) : sends'[i] = sends[i]
        BY <2>1, <3>2, <4>1 DEF RowGoesTo
      <4>. QED  BY <1>1, <3>1, <3>2, <3>3, <3>4, <4>2 DEF TextIsOnce
    <3>. QED  BY <3>5, <3>6
  <2>. QED  BY <2>3, <2>5, <2>7, MovesAreSteps
<1>7. CASE tap[k].by = "attach" /\ TapGoto(k, "unqueue") /\ UNCHANGED <<sends, box>>
  <2>1. "unqueue" \in TapLabels
    BY DEF TapLabels
  <2>2. \A w : w.at = "unqueue" => StateFits(w, StateOf(k))
    BY DEF StateFits
  <2>. QED  BY <1>1, <1>2, <1>3, <1>4, <1>5, <1>7, <2>1, <2>2, TapGoesKeeps
<1>8. CASE tap[k].by # "attach" /\ TapEnds(k) /\ UNCHANGED <<sends, box>>
  <2>1. tap[k].of # Photo
    BY <1>2, <1>8, ChatAssumption
  <2>. QED  BY <1>1, <1>2, <1>4, <1>5, <1>8, <2>1, TapEndsKeeps
<1>. QED  BY <1>6, <1>7, <1>8 DEF Queue

LEMMA WorkerHealsKeeps == ASSUME ChatInv, NEW i \in DOMAIN sends, WorkerHeals(i) PROVE ChatInv'
<1>1. /\ ChatTyped /\ TapsAreMade /\ OneWorks /\ NoStrandedPhoto /\ undone = {}
      /\ sends[i].state = "pending" /\ SetState(i, "available_on_chain")
      /\ UNCHANGED <<drawn, reloads, box, typed, mount, open, tap, contested, undone, left, screenFaults>>
  BY DEF ChatInv, WorkerHeals, listVars, boxVars, ghostVars
<1>2. RowGoesTo(i, "available_on_chain")
  BY <1>1, StateIsSet DEF OutgoingStates
<1>3. /\ DOMAIN sends' = DOMAIN sends /\ sends' \in Seq(ChatRow) /\ Len(sends') = Len(sends)
      /\ \A j \in DOMAIN sends : sends'[j].of = sends[j].of /\ (j # i => sends'[j] = sends[j])
      /\ sends'[i].state = "available_on_chain"
  BY <1>1, <1>2 DEF RowGoesTo, ChatTyped
<1>4. \A j \in DOMAIN sends : InDraft(sends'[j]) <=> InDraft(sends[j])
  BY <1>1, <1>3 DEF InDraft
<1>5. RowsFollow /\ ListsFollow /\ contested' \subseteq contested \cup drawn
  BY <1>1, <1>3, <1>4 DEF RowsFollow, ListsFollow, OnScreen
<1>6. /\ DraftsAreOut' /\ drawn' \subseteq DOMAIN sends' /\ UNION reloads' \subseteq DOMAIN sends'
      /\ contested' \subseteq DOMAIN sends'
  BY <1>5, DraftsKeep
<1>7. ChatTyped'
  BY <1>1, <1>3, <1>6 DEF ChatTyped
<1>8. \A j \in Mounts : tap[j].row # 0 => tap[j].row \in DOMAIN sends
  BY RowsInHand
<1>9. TapsAreMade'
  BY <1>1, <1>3, <1>4, <1>8 DEF TapsAreMade
<1>10. OneWorks'
  <2>1. SUFFICES ASSUME NEW j \in Mounts, tap[j].row # 0, tap[j].row \notin contested
        PROVE  StateFits(tap[j], sends'[tap[j].row].state)
    BY <1>1 DEF OneWorks, StateOf
  <2>2. StateFits(tap[j], sends[tap[j].row].state) /\ tap[j].row \in DOMAIN sends
    BY <1>1, <1>8, <2>1 DEF OneWorks, StateOf
  <2>3. CASE tap[j].row = i
    BY <1>1, <1>3, <2>2, <2>3 DEF StateFits
  <2>4. CASE tap[j].row # i
    BY <1>3, <2>2, <2>4
  <2>. QED  BY <2>3, <2>4
<1>11. NoStrandedPhoto'
  <2>1. SUFFICES ASSUME NEW r \in DOMAIN sends, sends'[r].of = Photo, r \notin left, r \notin contested,
                        sends'[r].state \in {"draft", "queued", "submitting"}
        PROVE  \E j \in Mounts : tap[j].at # "idle" /\ tap[j].row = r
    BY <1>1, <1>3 DEF NoStrandedPhoto, RowsOf, Working, TapAt
  <2>2. sends'[r] = sends[r]
    BY <1>3, <2>1
  <2>. QED  BY <1>1, <2>1, <2>2 DEF NoStrandedPhoto, RowsOf, Working, TapAt
<1>12. \A t \in Inputs : TextIsOnce(t)'
  <2>1. \A k \in Mounts : \A t \in Inputs : Sends(k, t)' => Sends(k, t)
    BY <1>1 DEF Sends
  <2>. QED  BY <1>1, <1>4, <1>5, <2>1, TextsKeep
<1>. QED  BY <1>1, <1>6, <1>7, <1>9, <1>10, <1>11, <1>12 DEF ChatInv

LEMMA ScreenDiesKeeps == ASSUME ChatInv, ScreenDies PROVE ChatInv'
<1>1. /\ ChatTyped /\ undone = {} /\ NoStrandedPhoto /\ StatementThrows
      /\ left' = left \cup {i \in DOMAIN sends : Working(i) # {}}
      /\ tap' = [k \in Mounts |-> IdleTap]
      /\ open' = FALSE /\ box' = NoText /\ drawn' = {} /\ reloads' = {}
      /\ UNCHANGED <<sends, typed, mount, contested, undone>>
  BY DEF ScreenDies, ChatInv
<1>2. IdleTap \in ChatTap /\ TapIsMade(IdleTap) /\ IdleTap.row = 0 /\ IdleTap.at = "idle"
  BY IdleIsMade
<1>3. \A k \in Mounts : tap'[k] = IdleTap
  BY <1>1
<1>4. RowsFollow /\ ListsFollow /\ contested' \subseteq contested \cup drawn
  BY <1>1, RowsStay, ListsOfNone DEF ListsFollow, OnScreen
<1>5. /\ DraftsAreOut' /\ drawn' \subseteq DOMAIN sends' /\ UNION reloads' \subseteq DOMAIN sends'
      /\ contested' \subseteq DOMAIN sends'
  BY <1>4, DraftsKeep
<1>6. ChatTyped'
  <2>1. tap' \in [Mounts -> ChatTap]
    BY <1>1, <1>2
  <2>2. \A k \in Mounts : tap'[k].row \in 0..Len(sends')
    <3>1. sends \in Seq(ChatRow)
      BY <1>1 DEF ChatTyped
    <3>2. 0 \in 0..Len(sends)
      BY <3>1
    <3>. QED  BY <1>1, <1>2, <1>3, <3>2
  <2>3. screenFaults' \in 0..MaxScreenFaults
    BY <1>1, FaultsCount
  <2>4. UNION {contested', undone', left'} \subseteq DOMAIN sends'
    BY <1>1 DEF ChatTyped
  <2>. QED  BY <1>1, <1>5, <2>1, <2>2, <2>3, <2>4 DEF ChatTyped
<1>7. TapsAreMade' /\ OneWorks'
  BY <1>2, <1>3 DEF TapsAreMade, OneWorks
<1>8. NoStrandedPhoto'
  <2>1. SUFFICES ASSUME NEW r \in DOMAIN sends, sends[r].of = Photo, r \notin left', r \notin contested,
                        sends[r].state \in {"draft", "queued", "submitting"}
        PROVE  FALSE
    BY <1>1 DEF NoStrandedPhoto, RowsOf
  <2>2. Working(r) # {}
    BY <1>1, <2>1 DEF NoStrandedPhoto, RowsOf
  <2>. QED  BY <1>1, <2>1, <2>2
<1>9. \A t \in Inputs : TextIsOnce(t)'
  <2>1. \A k \in Mounts : \A t \in Inputs : Sends(k, t)' => Sends(k, t)
    BY <1>2, <1>3 DEF Sends
  <2>2. \A i \in DOMAIN sends : sends'[i] = sends[i]
    BY <1>1
  <2>. QED  BY <1>1, <1>4, <2>1, <2>2, TextsKeep
<1>. QED  BY <1>1, <1>5, <1>6, <1>7, <1>8, <1>9 DEF ChatInv

LEMMA ChatStep == ChatInv /\ [ChatNext]_screenVars => ChatInv'
<1>. SUFFICES ASSUME ChatInv, [ChatNext]_screenVars PROVE ChatInv'
  OBVIOUS
<1>1. CASE UNCHANGED screenVars
  BY <1>1, ChatStutters
<1>2. CASE Enter \/ LeaveScreen \/ ReadList \/ DrawList \/ TapSend \/ TapAttach \/ ScreenDies
  BY <1>2, EnterKeeps, LeaveKeeps, ListKeeps, TapSendKeeps, TapAttachKeeps, ScreenDiesKeeps
<1>3. CASE \E t \in Inputs : Type(t)
  BY <1>3, TypeKeeps
<1>4. CASE \E i \in DOMAIN sends : TapRetry(i) \/ WorkerHeals(i)
  BY <1>4, TapRetryKeeps, WorkerHealsKeeps
<1>5. ASSUME NEW k \in Mounts,
             \/ Pick(k) \/ CheckReachable(k) \/ Insert(k) \/ Queue(k) \/ Unqueue(k) \/ Requeue(k)
             \/ PublishGoesOn(k) \/ PublishFails(k) \/ PublishEnds(k) \/ Catch(k)
      PROVE  ChatInv'
  BY <1>5, PickKeeps, CheckReachableKeeps, InsertKeeps, QueueKeeps, UnqueueKeeps, RequeueKeeps,
     PublishGoesOnKeeps, PublishFailsKeeps, PublishEndsKeeps, CatchKeeps
<1>. QED  BY <1>1, <1>2, <1>3, <1>4, <1>5 DEF ChatNext

LEMMA ChatInvImplies == ChatInv => ChatTypeOK /\ ChatKeepsItsWord
<1>. SUFFICES ASSUME ChatInv PROVE ChatTypeOK /\ ChatKeepsItsWord
  OBVIOUS
<1>1. ChatTyped /\ undone = {} /\ NoStrandedPhoto
  BY DEF ChatInv
<1>2. ChatTypeOK
  <2>1. \A i \in DOMAIN sends : sends[i] \in ChatRow
    BY <1>1 DEF ChatTyped
  <2>2. \A i \in DOMAIN sends : /\ sends[i].of \in Inputs \cup {Photo}
                                /\ sends[i].state \in OutgoingStates
                                /\ sends[i].accepted \in BOOLEAN
    BY <2>1 DEF ChatRow
  <2>3. \A k \in Mounts : tap[k] \in ChatTap /\ tap[k].row \in 0..Len(sends)
    BY <1>1 DEF ChatTyped
  <2>4. \A k \in Mounts :
          tap[k].at \in {"idle", "pick", "check", "insert", "queue", "unqueue", "requeue",
                         "publish", "building", "sent", "raised"}
    BY <2>3 DEF ChatTap, TapLabels
  <2>. QED  BY <1>1, <2>2, <2>3, <2>4 DEF ChatTypeOK, ChatTyped
<1>3. SentOnce
  <2>1. SUFFICES ASSUME NEW t \in Inputs
                 PROVE  Cardinality({i \in RowsOf(t) : sends[i].state # "draft"}) <= 1
    BY DEF SentOnce
  <2>2. \A i, j \in {i \in RowsOf(t) : sends[i].state # "draft"} : i = j
    BY DEF ChatInv, TextIsOnce, InDraft
  <2>. QED  BY <2>2, AtMostOne
<1>. QED  BY <1>1, <1>2, <1>3 DEF ChatKeepsItsWord, OnlyOutdatedTapsUndo

-----------------------------------------------------------------------------
(* Side by side: a behaviour moves one of the four, the others rest.       *)

LEMMA OneIsShown ==
    [ScreensNext]_screensVars => /\ [Next]_vars /\ [ChatNext]_screenVars
                                 /\ [BubbleNext]_bubbleVars /\ [OwnNext]_ownVars
BY DEF ScreensNext, Moves, Rests, screensVars

(* The conversation's screen keeps what its drawings and buttons promise   *)
(* (chat-screen.tsx:243-323): a message on its way is called failed only   *)
(* by a tap on an outdated bubble, no image is left at sending with nobody *)
(* sending it, and a text typed once is sent once; an image is called gone *)
(* only when the node said so (image-bubble.ts:1-13); and the card that is *)
(* shown is one this device listens to (messaging.ts:315-431). For any     *)
(* number of texts, screens, taps, downloads, sessions and profiles.       *)
THEOREM ScreensAreTruthful == ScreensSpec => []ScreensTellTheTruth
<1>1. ScreensInit => ChatInv /\ BubbleInv /\ OwnInv
  BY ChatStarts, BubbleStarts, OwnStarts DEF ScreensInit
<1>2. ChatInv /\ BubbleInv /\ OwnInv /\ [ScreensNext]_screensVars => ChatInv' /\ BubbleInv' /\ OwnInv'
  BY ChatStep, BubbleStep, OwnStep, OneIsShown
<1>3. ChatInv => ChatTypeOK /\ ChatKeepsItsWord
  BY ChatInvImplies
<1>4. BubbleInv => BubbleTypeOK /\ BubbleIsTruthful
  BY DEF BubbleInv
<1>5. OwnInv => OwnTypeOK /\ ProfileIsOne
  BY OwnInvImplies
<1>. QED  BY <1>1, <1>2, <1>3, <1>4, <1>5, PTL DEF ScreensSpec, ScreensTellTheTruth
=============================================================================
