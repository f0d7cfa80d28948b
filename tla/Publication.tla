----------------------------- MODULE Publication -----------------------------
(***************************************************************************)
(* Publishing outgoing messages: MessagePublisher.publishText with its     *)
(* journal resume, the callers that drive it (the chat screen and the      *)
(* response-sender worker), and the pending-transactions worker that       *)
(* advances rows behind the publisher's back.  One step per awaited call,  *)
(* so everything two activities can do between two awaits of a third is    *)
(* here.  A crash (or a lock, which closes the database) ends every        *)
(* activity at once and keeps only the database and the node.              *)
(*                                                                         *)
(* A definition named ..._Flawed is the one after it with a plausible      *)
(* mistake; nothing uses it.                                               *)
(***************************************************************************)
EXTENDS MessageStates, CkbNode

CONSTANTS Texts,       \* messages the user composes
          Responses,   \* acknowledgement rows queued by the receive pipeline
          Screens,     \* chat screens, each with its own publishBusy
          Sweeps,      \* runs of the response-sender worker that may overlap
          Workers,     \* runs of the pending-transactions worker that may overlap
          MaxCrashes   \* bound: crashes, locks and failed worker runs in one behaviour

Messages == Texts \cup Responses
Callers == Screens \cup Sweeps
NoTx == 0
NoMessage == "none"
MaxReserved == 2   \* bound: reservations of one cell are counted up to here

ASSUME PublicationAssumption ==
    /\ MaxCrashes \in Nat
    /\ Texts \cap Responses = {}
    /\ Screens \cap Sweeps = {}
    /\ NoMessage \notin Messages

VARIABLES
    row,        \* messages.state
    journal,    \* outgoing_transactions.state, by transaction
    latest,     \* the newest journal record of each message's purpose
    chainRef,   \* message_chain_refs.tx_hash
    envelope,   \* messages.envelope_message_id_hex, named by its transaction
    reserved,   \* times the message cell's capacity was moved to reserved
    owner,      \* the message a transaction carries
    built,      \* how many transactions were ever built
    tracked,    \* coins the in-memory selector knows to be spent
    call,       \* each publishText call: label, message, transaction, walk cursor
    run,        \* each pending-transactions run
    crashes

refVars == <<latest, chainRef, envelope>>
dbVars == <<row, journal, refVars, reserved>>
walletVars == <<owner, built, tracked>>
vars == <<nodeVars, dbVars, walletVars, call, run, crashes>>

JournalStates == {"none", "submitted", "committed", "rejected", "abandoned"}

(* A label names the await a call is about to perform; those named after   *)
(* row states are about to make that transition.                           *)
ResumeLabels == {"status", "rebroadcast", "await", "awaitOwn", "abandon"}
BuildLabels == {"encrypting", "building_transaction", "awaiting_signature"}
JournalLabels == {"submitting", "record", "chainRef", "envelope", "send"}
BroadcastLabels ==
    {"walkPending", "monitor", "settle", "settleRef", "walkAvailable", "reserve"}
Labels == {"idle", "find", "fail"} \cup ResumeLabels \cup BuildLabels
            \cup JournalLabels \cup BroadcastLabels

RunLabels == {"idle", "scan", "markCommitted", "markRejected", "read", "commit", "avail",
              "reserve", "heal", "healCommit", "healAvail", "healReserve"}
Listed == Messages \X {"pending", "committed"}   \* a row and the state it was listed in

Calls == [at : Labels, m : Messages \cup {NoMessage}, t : TxIds \cup {NoTx}, next : 1..10]
Idle == [at |-> "idle", m |-> NoMessage, t |-> NoTx, next |-> 1]
Runs == [at : RunLabels, txs : SUBSET TxIds, rows : SUBSET Listed,
         m : Messages \cup {NoMessage}, t : TxIds \cup {NoTx}]
Asleep == [at |-> "idle", txs |-> {}, rows |-> {}, m |-> NoMessage, t |-> NoTx]

TypeOK ==
    /\ NodeTypeOK
    /\ row \in [Messages -> OutgoingStates]
    /\ journal \in [TxIds -> JournalStates]
    /\ latest \in [Messages -> TxIds \cup {NoTx}]
    /\ chainRef \in [Messages -> TxIds \cup {NoTx}]
    /\ envelope \in [Messages -> TxIds \cup {NoTx}]
    /\ reserved \in [Messages -> 0..MaxReserved]
    /\ owner \in [TxIds -> Messages \cup {NoMessage}]
    /\ built \in 0..MaxTx
    /\ tracked \in SUBSET Coins
    /\ call \in [Callers -> Calls]
    /\ run \in [Workers -> Runs]
    /\ crashes \in 0..MaxCrashes

(* A response row is queued by the receive pipeline before a sweep runs.   *)
Init ==
    /\ NodeInit
    /\ row = [m \in Messages |-> IF m \in Texts THEN "draft" ELSE "queued"]
    /\ journal = [t \in TxIds |-> "none"]
    /\ latest = [m \in Messages |-> NoTx]
    /\ chainRef = [m \in Messages |-> NoTx]
    /\ envelope = [m \in Messages |-> NoTx]
    /\ reserved = [m \in Messages |-> 0]
    /\ owner = [t \in TxIds |-> NoMessage]
    /\ built = 0 /\ tracked = {}
    /\ call = [c \in Callers |-> Idle]
    /\ run = [w \in Workers |-> Asleep]
    /\ crashes = 0

-----------------------------------------------------------------------------
(* What every activity uses.                                               *)
At(c, label) == call[c].at = label
Set(c, label, m, t, next) ==
    call' = [call EXCEPT ![c] = [at |-> label, m |-> m, t |-> t, next |-> next]]
Goto(c, label) == Set(c, label, call[c].m, call[c].t, call[c].next)
GotoWith(c, label, t) == Set(c, label, call[c].m, t, call[c].next)
GotoWalk(c, label, next) == Set(c, label, call[c].m, call[c].t, next)
Finish(c) == call' = [call EXCEPT ![c] = Idle]    \* returned, or threw

(* transitionMessage, when it succeeds and when it throws.                 *)
Transition(m, to) == Accepts(row[m], to) /\ row' = [row EXCEPT ![m] = to]
Refused(m, to) == ~Accepts(row[m], to) /\ UNCHANGED row

MarkState(t, state) == journal' = [journal EXCEPT ![t] = state]

(* reserveCapacity for the cell of m: the move is made again if asked again. *)
ReserveCapacity(m) ==
    reserved' = [reserved EXCEPT ![m] = IF @ < MaxReserved THEN @ + 1 ELSE @]

-----------------------------------------------------------------------------
(* Who calls publishText, and for which rows.                              *)
Begin(c, m) ==
    At(c, "idle") /\ Set(c, "find", m, NoTx, 1)

(* The composer inserts and queues the row, then the screen publishes it,  *)
(* unless messaging is not ready or the contact has no profile.            *)
Compose(c, m) ==
    /\ c \in Screens /\ m \in Texts /\ row[m] = "draft"
    /\ Transition(m, "queued")
    /\ Begin(c, m) \/ (At(c, "idle") /\ UNCHANGED call)

(* "tap retry" on a failed bubble.  (The list the bubble is taken from is  *)
(* assumed to be fresh.)                                                   *)
Retry(c, m) ==
    c \in Screens /\ m \in Texts /\ row[m] = "failed"
      /\ Begin(c, m) /\ Transition(m, "queued")

(* The response sender takes each queued response row it lists.            *)
SendResponse(c, m) ==
    c \in Sweeps /\ m \in Responses /\ row[m] = "queued"
      /\ Begin(c, m) /\ UNCHANGED row

-----------------------------------------------------------------------------
(* publishText, resuming: the latest record, of ANY state, is adopted.     *)
Find_Flawed(c) ==    \* does not look for a journal record
    At(c, "find") /\ Goto(c, "encrypting")

Find(c) ==
    LET found == latest[call[c].m]
    IN  /\ At(c, "find")
        /\ IF found = NoTx THEN Goto(c, "encrypting") ELSE GotoWith(c, "status", found)

(* #walkToState reads the row once and plans its transitions from there.   *)
PlanWalk(c, label) ==
    LET here == PathIndex(row[call[c].m])
    IN  GotoWalk(c, label, IF here = 0 THEN 2 ELSE here + 1)

Status(c) ==
    /\ At(c, "status")
    /\ \/ node[call[c].t] = "committed" /\ PlanWalk(c, "walkPending")
       \/ node[call[c].t] = "rejected" /\ Goto(c, "abandon")
       \/ node[call[c].t] = "pending" /\ Goto(c, "await")
       \/ node[call[c].t] = "unknown" /\ Goto(c, "rebroadcast")

Rebroadcast_Flawed(c) ==    \* abandons on any error, a timeout included
    /\ At(c, "rebroadcast")
    /\ \/ Sent(call[c].t) /\ Goto(c, "awaitOwn")
       \/ /\ SendRefused(call[c].t) \/ SendTimedOut(call[c].t)
          /\ Goto(c, "abandon")

(* A refusal matches the spent pattern (so does an "already exists"); any  *)
(* other error is rethrown for a later pass.                               *)
Rebroadcast(c) ==
    /\ At(c, "rebroadcast")
    /\ \/ Sent(call[c].t) /\ Goto(c, "awaitOwn")
       \/ SendRefused(call[c].t) /\ Goto(c, "abandon")
       \/ SendTimedOut(call[c].t) /\ Goto(c, "fail")

(* waitForTransactionCommit inside the resume: a commit gets past it; a    *)
(* rejection, an RPC error or the deadline throws.  The spend of a         *)
(* rebroadcast is told to the coin selector only after the wait.           *)
Await(c) ==
    /\ At(c, "await") \/ At(c, "awaitOwn")
    /\ \/ /\ node[call[c].t] = "committed"
          /\ PlanWalk(c, "walkPending")
          /\ tracked' = IF At(c, "awaitOwn") THEN tracked \cup inputs[call[c].t]
                                             ELSE tracked
       \/ Goto(c, "fail") /\ UNCHANGED tracked

Abandon_Flawed(c) ==    \* a state of the row, not of the journal
    /\ At(c, "abandon")
    /\ MarkState(call[c].t, "failed")
    /\ GotoWith(c, "encrypting", NoTx)

Abandon(c) ==
    /\ At(c, "abandon")
    /\ MarkState(call[c].t, "abandoned")
    /\ GotoWith(c, "encrypting", NoTx)

-----------------------------------------------------------------------------
(* publishText, building afresh.  What precedes a move may throw (no live  *)
(* profile, no capacity, no signature), and so may the move.               *)
StepTo(c, to, label) ==
    \/ Transition(call[c].m, to) /\ Goto(c, label)
    \/ Refused(call[c].m, to) /\ Goto(c, "fail")

Encrypt(c) == At(c, "encrypting") /\ StepTo(c, "encrypting", "building_transaction")

Assemble(c) ==
    At(c, "building_transaction") /\ StepTo(c, "building_transaction", "awaiting_signature")

(* Coin selection takes a cell the indexer lists and the cache does not    *)
(* know to be spent.                                                       *)
Build(c) ==
    LET t == built + 1
    IN  /\ At(c, "awaiting_signature")
        /\ built < MaxTx
        /\ built' = t
        /\ \E k \in LiveCoins \ tracked : inputs' = [inputs EXCEPT ![t] = {k}]
        /\ owner' = [owner EXCEPT ![t] = call[c].m]
        /\ \/ Transition(call[c].m, "awaiting_signature") /\ GotoWith(c, "submitting", t)
           \/ Refused(call[c].m, "awaiting_signature") /\ GotoWith(c, "fail", t)

Sign(c) == At(c, "submitting") /\ StepTo(c, "submitting", "record")

PreBroadcastError(c) ==
    /\ call[c].at \in BuildLabels \cup {"status", "submitting"}
    /\ Goto(c, "fail")

(* The journal record, the chain ref and the envelope id, then the network. *)
Record(c) ==
    /\ At(c, "record")
    /\ MarkState(call[c].t, "submitted")
    /\ latest' = [latest EXCEPT ![call[c].m] = call[c].t]
    /\ Goto(c, "chainRef")

SetChainRef(c) ==
    /\ At(c, "chainRef")
    /\ chainRef' = [chainRef EXCEPT ![call[c].m] = call[c].t]
    /\ Goto(c, "envelope")

SetEnvelope_Flawed(c) ==    \* keeps the id of an earlier build
    /\ At(c, "envelope")
    /\ envelope' = [envelope EXCEPT ![call[c].m] = IF @ = NoTx THEN call[c].t ELSE @]
    /\ Goto(c, "send")

SetEnvelope(c) ==
    /\ At(c, "envelope")
    /\ envelope' = [envelope EXCEPT ![call[c].m] = call[c].t]
    /\ Goto(c, "send")

(* Accepted: the spend is tracked and the step to `pending` comes next.    *)
(* Any error at all is a pre-broadcast failure to this call.               *)
Send(c) ==
    /\ At(c, "send")
    /\ \/ /\ Sent(call[c].t)
          /\ tracked' = tracked \cup inputs[call[c].t]
          /\ GotoWalk(c, "walkPending", PathIndex("pending"))
       \/ /\ SendRefused(call[c].t) \/ SendTimedOut(call[c].t)
          /\ Goto(c, "fail") /\ UNCHANGED tracked

(* The catch block: a failure before broadcast marks the row, if it may.   *)
(* (The retry handler's own catch asks for `failed` once more: a no-op.)   *)
MarkFailed(c) ==
    /\ At(c, "fail")
    /\ Transition(call[c].m, "failed") \/ Refused(call[c].m, "failed")
    /\ Finish(c)

-----------------------------------------------------------------------------
(* publishText, after broadcast: a throw leaves the row where it is.       *)
Walk(c, label, goal, after) ==
    LET to == PublishPath[call[c].next]
    IN  /\ At(c, label)
        /\ IF call[c].next > PathIndex(goal)
           THEN Goto(c, after) /\ UNCHANGED row
           ELSE \/ Transition(call[c].m, to) /\ GotoWalk(c, label, call[c].next + 1)
                \/ Refused(call[c].m, to) /\ Finish(c)

WalkPending_Flawed(c) ==    \* walks one state too far
    Walk(c, "walkPending", "committed", "monitor")

WalkPending(c) == Walk(c, "walkPending", "pending", "monitor")
WalkAvailable(c) == Walk(c, "walkAvailable", "available_on_chain", "reserve")

Monitor_Flawed(c) ==    \* returns at the deadline instead of throwing
    At(c, "monitor") /\ Goto(c, "settle")

(* waitForTransactionCommit: until the commit is seen, or it throws.       *)
Monitor(c) ==
    /\ At(c, "monitor")
    /\ \/ node[call[c].t] = "committed" /\ Goto(c, "settle")
       \/ Finish(c)

Settle(c) ==
    At(c, "settle") /\ MarkState(call[c].t, "committed") /\ Goto(c, "settleRef")

SettleRef(c) ==
    /\ At(c, "settleRef")
    /\ chainRef' = [chainRef EXCEPT ![call[c].m] = call[c].t]
    /\ PlanWalk(c, "walkAvailable")

(* The ledger refuses a move it cannot fund: the call throws.              *)
Reserve(c) ==
    /\ At(c, "reserve")
    /\ ReserveCapacity(call[c].m) \/ UNCHANGED reserved
    /\ Finish(c)

(* The steps by what they leave alone.                                     *)
LocalStep(c) ==
    /\ Find(c) \/ Status(c) \/ PreBroadcastError(c) \/ Monitor(c)
    /\ UNCHANGED <<nodeVars, dbVars, walletVars>>

RowStep(c) ==
    /\ \/ Encrypt(c) \/ Assemble(c) \/ Sign(c) \/ MarkFailed(c)
       \/ WalkPending(c) \/ WalkAvailable(c)
    /\ UNCHANGED <<nodeVars, journal, refVars, reserved, walletVars>>

RecordStep(c) ==
    /\ \/ (Abandon(c) \/ Settle(c)) /\ UNCHANGED <<refVars, reserved>>
       \/ Record(c) /\ UNCHANGED <<chainRef, envelope, reserved>>
       \/ (SetChainRef(c) \/ SettleRef(c)) /\ UNCHANGED <<journal, latest, envelope, reserved>>
       \/ SetEnvelope(c) /\ UNCHANGED <<journal, latest, chainRef, reserved>>
       \/ Reserve(c) /\ UNCHANGED <<journal, refVars>>
    /\ UNCHANGED <<nodeVars, row, walletVars>>

NetworkStep(c) ==
    /\ \/ Rebroadcast(c) /\ UNCHANGED tracked
       \/ Await(c) /\ UNCHANGED <<node, wire>>
       \/ Send(c)
    /\ UNCHANGED <<inputs, dbVars, owner, built>>

BuildStep(c) == Build(c) /\ UNCHANGED <<node, wire, journal, refVars, reserved, tracked>>

PublishStep(c) ==
    /\ LocalStep(c) \/ RowStep(c) \/ RecordStep(c) \/ NetworkStep(c) \/ BuildStep(c)
    /\ UNCHANGED <<run, crashes>>

CallStep(c, m) ==
    /\ Compose(c, m) \/ Retry(c, m) \/ SendResponse(c, m)
    /\ UNCHANGED <<nodeVars, journal, refVars, reserved, walletVars, run, crashes>>

-----------------------------------------------------------------------------
(* The pending-transactions worker: first every record that was submitted  *)
(* when it listed them, then the rows stranded behind a committed record.  *)
(* A refused move throws out of the run; the engine runs it again.         *)
WAt(w, label) == run[w].at = label
WSet(w, label, txs, rows, m, t) ==
    run' = [run EXCEPT ![w] =
              [at |-> label, txs |-> txs, rows |-> rows, m |-> m, t |-> t]]
WGoto(w, label) == WSet(w, label, run[w].txs, run[w].rows, run[w].m, NoTx)
WFinish(w) == run' = [run EXCEPT ![w] = Asleep]

WorkerStart(w) ==
    /\ WAt(w, "idle")
    /\ WSet(w, "scan", {t \in TxIds : journal[t] = "submitted"}, {}, NoMessage, NoTx)
    /\ UNCHANGED <<row, journal, reserved>>

(* The status is asked now, of a record listed a while ago ...             *)
WorkerAsk(w) ==
    /\ WAt(w, "scan")
    /\ \E t \in run[w].txs :
        LET Then(label, m, u) == WSet(w, label, run[w].txs \ {t}, {}, m, u)
        IN  \/ node[t] = "committed" /\ Then("markCommitted", owner[t], t)
            \/ node[t] = "rejected" /\ Then("markRejected", NoMessage, t)
            \/ node[t] \notin {"committed", "rejected"} /\ Then("scan", NoMessage, NoTx)
    /\ UNCHANGED <<row, journal, reserved>>

(* ... and what it said is written an await later: markState does not look *)
(* at what became of the record, or of the transaction, meanwhile.         *)
WorkerMark(w) ==
    /\ \/ /\ WAt(w, "markCommitted")
          /\ MarkState(run[w].t, "committed") /\ WGoto(w, "read")
       \/ /\ WAt(w, "markRejected")
          /\ MarkState(run[w].t, "rejected") /\ WGoto(w, "scan")
    /\ UNCHANGED <<row, reserved>>

WorkerRead(w) ==
    /\ WAt(w, "read")
    /\ WGoto(w, IF row[run[w].m] = "pending" THEN "commit" ELSE "scan")
    /\ UNCHANGED <<row, journal, reserved>>

(* The row read a moment ago: it may have moved on, and refuse.            *)
WorkerCommit(w) ==
    /\ WAt(w, "commit") \/ WAt(w, "healCommit")
    /\ \/ /\ Transition(run[w].m, "committed")
          /\ WGoto(w, IF WAt(w, "commit") THEN "avail" ELSE "healAvail")
       \/ Refused(run[w].m, "committed") /\ WFinish(w)
    /\ UNCHANGED <<journal, reserved>>

WorkerListStranded_Flawed(w) ==    \* forgets the rows left at `committed`
    /\ WAt(w, "scan") /\ run[w].txs = {}
    /\ WSet(w, "heal", {}, {s \in Listed : row[s[1]] = s[2] /\ s[2] = "pending"}, NoMessage, NoTx)
    /\ UNCHANGED <<row, journal, reserved>>

WorkerListStranded(w) ==
    /\ WAt(w, "scan") /\ run[w].txs = {}
    /\ WSet(w, "heal", {}, {s \in Listed : row[s[1]] = s[2]}, NoMessage, NoTx)
    /\ UNCHANGED <<row, journal, reserved>>

JournalCommitted_Flawed(m) ==    \* takes any record for a commit
    latest[m] # NoTx /\ journal[latest[m]] \in {"submitted", "committed"}

JournalCommitted(m) == latest[m] # NoTx /\ journal[latest[m]] = "committed"

(* s is a row with the state it was listed in; the journal is read now,    *)
(* and the row is moved after that await.                                  *)
WorkerHeal(w) ==
    /\ WAt(w, "heal")
    /\ \E s \in run[w].rows :
        LET Then(label, m) == WSet(w, label, {}, run[w].rows \ {s}, m, NoTx)
        IN  \/ ~JournalCommitted(s[1]) /\ Then("heal", NoMessage)
            \/ /\ JournalCommitted(s[1])
               /\ Then(IF s[2] = "pending" THEN "healCommit" ELSE "healAvail", s[1])
    /\ UNCHANGED <<row, journal, reserved>>

(* Both loops end alike: the row becomes available, its cell reserved.     *)
WorkerAvail(w) ==
    /\ WAt(w, "avail") \/ WAt(w, "healAvail")
    /\ \/ /\ Transition(run[w].m, "available_on_chain")
          /\ WGoto(w, IF WAt(w, "avail") THEN "reserve" ELSE "healReserve")
       \/ Refused(run[w].m, "available_on_chain") /\ WFinish(w)
    /\ UNCHANGED <<journal, reserved>>

WorkerReserve(w) ==
    /\ WAt(w, "reserve") \/ WAt(w, "healReserve")
    /\ \/ /\ ReserveCapacity(run[w].m)
          /\ WGoto(w, IF WAt(w, "reserve") THEN "scan" ELSE "heal")
       \/ UNCHANGED reserved /\ WFinish(w)
    /\ UNCHANGED <<row, journal>>

WorkerDone(w) ==
    /\ WAt(w, "heal") /\ run[w].rows = {}
    /\ WFinish(w)
    /\ UNCHANGED <<row, journal, reserved>>

WorkerStep(w) ==
    /\ \/ WorkerStart(w) \/ WorkerAsk(w) \/ WorkerMark(w) \/ WorkerRead(w)
       \/ WorkerListStranded(w) \/ WorkerHeal(w) \/ WorkerDone(w)
       \/ WorkerCommit(w) \/ WorkerAvail(w) \/ WorkerReserve(w)
    /\ UNCHANGED <<nodeVars, refVars, walletVars, call, crashes>>

(* The node does not answer, or not what it should: the run throws.        *)
WorkerError(w) ==
    /\ WAt(w, "scan") /\ run[w].txs # {}
    /\ crashes < MaxCrashes
    /\ crashes' = crashes + 1
    /\ WFinish(w)
    /\ UNCHANGED <<nodeVars, dbVars, walletVars, call>>

-----------------------------------------------------------------------------
(* Process death, or a lock: the database and the node are what remains,   *)
(* and perhaps a request that had just been written to the socket.         *)
Crash ==
    /\ crashes < MaxCrashes
    /\ crashes' = crashes + 1
    /\ \E lost \in SUBSET {call[c].t : c \in {d \in Callers : At(d, "send") \/ At(d, "rebroadcast")}} :
        /\ LateRequests \/ lost = {}
        /\ wire' = wire \cup lost
    /\ tracked' = {}
    /\ call' = [c \in Callers |-> Idle]
    /\ run' = [w \in Workers |-> Asleep]
    /\ UNCHANGED <<node, inputs, dbVars, owner, built>>

Network ==
    /\ \E t \in TxIds : NodeStep(t)
    /\ UNCHANGED <<dbVars, walletVars, call, run, crashes>>

Next ==
    \/ \E c \in Callers, m \in Messages : CallStep(c, m)
    \/ \E c \in Callers : PublishStep(c)
    \/ \E w \in Workers : WorkerStep(w) \/ WorkerError(w)
    \/ Crash
    \/ Network

(* While the app is unlocked the engine runs its workers again and again,  *)
(* and a publishText call goes on to its end: every RPC has a timeout and  *)
(* every wait a deadline.                                                  *)
Fairness ==
    /\ \A w \in Workers : WF_vars(WorkerStep(w))
    /\ \A c \in Callers : WF_vars(PublishStep(c))
    /\ \A c \in Sweeps : WF_vars(\E m \in Responses : CallStep(c, m))

Spec == Init /\ [][Next]_vars /\ Fairness

-----------------------------------------------------------------------------
(***************************************************************************)
(* Properties.                                                             *)
(***************************************************************************)
CarriedBy(m) == {t \in TxIds : owner[t] = m}
Cells(m) == {t \in CarriedBy(m) : node[t] = "committed"}
ShownAsSent(m) == row[m] \in {"committed", "available_on_chain"}

(* Recovery starts from the latest journal record of a message, so that    *)
(* record must be the one the network holds: any other transaction of the  *)
(* message is out of play.  (publisher.ts: journal before broadcast,       *)
(* resume, abandon.)  Two cells for one message need two in play.  Nor is  *)
(* that record one that a worker wrote off as rejected (workers.ts:699):   *)
(* the worker would not look at it again.                                  *)
LiveIsLatest ==
    \A m \in Messages : \A t \in CarriedBy(m) : InPlay(t) => latest[m] = t

NetworkHoldsOnlyLatest ==
    LiveIsLatest /\ \A t \in TxIds : InPlay(t) => journal[t] # "rejected"

(* A retry "never [makes] a duplicate logical message" (publisher.ts), and *)
(* "duplicate workers do not produce duplicate responses" (ckd.txt).       *)
AtMostOneCell ==
    \A m \in Messages : \A t, u \in Cells(m) : t = u

(* Publication implements its promise: every step lands one message for    *)
(* the first time, tells the user of one that landed, or does neither.     *)
Promise == INSTANCE OnceOnly
             WITH cells <- [m \in Messages |-> Cells(m)],
                  sent <- [m \in Messages |-> ShownAsSent(m)]
LandsOnce == Promise!Spec

(* No bubble says "sent" unless a transaction of the message is on the     *)
(* chain: neither the publisher, nor either half of the worker, nor a      *)
(* crash between the two may advance a row on someone else's evidence.     *)
SentIsOnChain == \A m \in Messages : ShownAsSent(m) => Cells(m) # {}

(* The journal calls a transaction committed only when it is.  (markState  *)
(* takes any state, three activities call it, and the worker marks on an   *)
(* answer that may be outdated.)  Nothing more is said here: with late     *)
(* requests a committed record may be abandoned, or marked rejected, by    *)
(* whoever read its status before it was sent again.                       *)
JournalTruthful == \A t \in TxIds : journal[t] = "committed" => node[t] = "committed"

(* Capacity is reserved for cells that exist, whoever reserves it.         *)
ReservedIsOnChain == \A m \in Messages : reserved[m] > 0 => Cells(m) # {}

(* "The publish monitor that would have reserved ... never ran" (workers): *)
(* the cell of a message is moved to reserved once.                        *)
ReservedOnce == \A m \in Messages : reserved[m] <= 1

(* "Once the tx is broadcast, failures (e.g. commit timeout) must NOT mark *)
(* the message failed" (publisher.ts): when the catch block marks a row    *)
(* failed, no transaction of that message is in play.                      *)
FailedIsOffNetwork ==
    [][\A m \in Messages :
          row[m] # "failed" /\ row'[m] = "failed"
            => \A t \in CarriedBy(m) : ~InPlay(t)]_vars

(* A receipt is matched by the envelope id the row carries, and reclaim    *)
(* spends the cell its chain ref names: when the user is told that a       *)
(* message was sent, both must be those of the cell the recipient reads,   *)
(* after any number of abandoned builds.                                   *)
SentNamesItsCell ==
    \A m \in Messages :
        ShownAsSent(m) => /\ envelope[m] \in Cells(m)
                          /\ chainRef[m] = envelope[m]

(* "The logical id is unchanged, so the envelope message id every receipt  *)
(* and reply references is stable" (publisher.ts, of a rebuild).           *)
EnvelopeIsStable ==
    [][\A m \in Messages : envelope[m] # NoTx => envelope'[m] = envelope[m]]_vars

(* A row waiting for a commit that has happened, under a journal record    *)
(* the worker can see, becomes available: whoever died in between.  Except *)
(* that a worker may still hold an outdated answer: the transaction was    *)
(* rejected, then sent again and committed, and markState writes rejected  *)
(* over whatever the record says by then; no pass returns to it.           *)
HoldsOutdatedAnswer(t) == \E w \in Workers : WAt(w, "markRejected") /\ run[w].t = t

CommitIsSurfaced ==
    \A m \in Messages :
        (/\ row[m] \in {"pending", "committed"}
         /\ \E t \in Cells(m) : /\ latest[m] = t
                                 /\ journal[t] \in {"submitted", "committed"}
                                 /\ ~HoldsOutdatedAnswer(t))
          ~> row[m] = "available_on_chain"

(* "The row stays queued locally and the workers retry otherwise"          *)
(* (chat-screen.tsx): a queued text is taken up.                           *)
QueuedTextIsTaken == \A m \in Texts : row[m] = "queued" ~> row[m] # "queued"
=============================================================================
