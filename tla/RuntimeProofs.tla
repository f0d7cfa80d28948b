---------------------------- MODULE RuntimeProofs ----------------------------
(***************************************************************************)
(* What is proved of the app's runtime for every value of the constants:   *)
(* who holds the database connection (Database), who sweeps when           *)
(* (SweepLoop), what a locked tick announces (LockedProbe), what becomes   *)
(* of calls of the native modules (Bridges), and that a vault file is      *)
(* never replaced by another wallet's and nothing of another wallet is     *)
(* left beside it (Session). The headless client, one process per step,    *)
(* comes last: what its reconcile accounts for (ReferenceClient).          *)
(***************************************************************************)
EXTENDS Database, SweepLoop, LockedProbe, Bridges, Session, ReferenceClient,
        SequenceTheorems, FiniteSetTheorems, WellFoundedInduction, TLAPS

(* The mutex's queue holds every caller at work or waiting, each once; only *)
(* its head is at work, and only a unit of work at work has a transaction  *)
(* open, on an open handle.                                                *)
InLine == {"waiting", "body", "failed", "leaving"}

QueuedOnce == \A i, j \in 1..Len(queue) : queue[i] = queue[j] => i = j

QueueIsWholeLine ==
    \A c \in Callers : unit[c] \in InLine <=> \E i \in 1..Len(queue) : queue[i] = c

OnlyHeadAtWork ==
    \A c \in Callers : unit[c] \in {"body", "failed", "leaving"} => queue[1] = c

TransactionIsHeads ==
    \A c \in Units : inTxn = c <=> unit[c] \in {"body", "failed"}

WorkNeedsHandle ==
    \A c \in Callers : unit[c] \in {"body", "failed"} => c \in Units /\ handleOpen

Line == /\ DatabaseTypeOK
        /\ QueuedOnce /\ QueueIsWholeLine /\ OnlyHeadAtWork
        /\ TransactionIsHeads /\ WorkNeedsHandle

LEMMA InitLine ==
    ASSUME DatabaseInit
    PROVE  Line
<1>1. DatabaseTypeOK
  BY EmptySeq DEF DatabaseInit, DatabaseTypeOK, UnitLabels
<1>2. 1..Len(queue) = {}
  BY EmptySeq DEF DatabaseInit
<1>3. \A c \in Callers : unit[c] = "idle"
  BY DEF DatabaseInit
<1>4. QueuedOnce /\ QueueIsWholeLine /\ OnlyHeadAtWork /\ WorkNeedsHandle
  BY <1>2, <1>3 DEF QueuedOnce, QueueIsWholeLine, OnlyHeadAtWork, WorkNeedsHandle, InLine
<1>5. TransactionIsHeads
  BY <1>3, DatabaseAssumption DEF TransactionIsHeads, DatabaseInit, Callers
<1> QED BY <1>1, <1>4, <1>5 DEF Line

(* Whoever is at work or has its turn is the one head of a queue.          *)
LEMMA HeadOfLine ==
    ASSUME Line, NEW c \in Callers,
           unit[c] \in {"body", "failed", "leaving"} \/ (unit[c] = "waiting" /\ HasTurn(c))
    PROVE  /\ Len(queue) \in Nat \ {0} /\ queue # <<>> /\ queue[1] = c
           /\ \A d \in Callers : d # c => unit[d] \notin {"body", "failed", "leaving"}
<1>1. Len(queue) \in Nat \ {0} /\ queue # <<>>
  <2>1. \E i \in 1..Len(queue) : queue[i] = c
    BY DEF Line, QueueIsWholeLine, InLine
  <2>2. Len(queue) \in Nat
    BY LenProperties DEF Line, DatabaseTypeOK
  <2> QED BY <2>1, <2>2, EmptySeq
<1>2. queue[1] = c
  BY <1>1 DEF Line, OnlyHeadAtWork, HasTurn
<1> QED BY <1>1, <1>2 DEF Line, OnlyHeadAtWork

LEMMA CallKeepsLine ==
    ASSUME Line, NEW c \in Callers, Call(c)
    PROVE  Line'
<1>1. queue \in Seq(Callers) /\ unit \in [Callers -> UnitLabels]
  BY DEF Line, DatabaseTypeOK
<1>2. CASE closed
  <2>1. /\ unit[c] = "idle" /\ unit' = [unit EXCEPT ![c] = "done"]
        /\ UNCHANGED <<queue, inTxn, handleOpen, closed, loose>>
    BY <1>2 DEF Call, GotoUnit
  <2>2. DatabaseTypeOK' /\ QueuedOnce'
    BY <2>1 DEF Line, DatabaseTypeOK, UnitLabels, QueuedOnce
  <2>3. QueueIsWholeLine' /\ OnlyHeadAtWork'
    BY <1>1, <2>1 DEF Line, QueueIsWholeLine, OnlyHeadAtWork, InLine
  <2>4. TransactionIsHeads' /\ WorkNeedsHandle'
    BY <1>1, <2>1 DEF Line, TransactionIsHeads, WorkNeedsHandle, Callers
  <2> QED BY <2>2, <2>3, <2>4 DEF Line
<1>3. CASE ~closed
  <2>1. /\ queue' = Append(queue, c) /\ unit' = [unit EXCEPT ![c] = "waiting"]
        /\ unit[c] = "idle" /\ UNCHANGED <<inTxn, handleOpen, closed, loose>>
    BY <1>3 DEF Call, GotoUnit
  <2>2. /\ queue' \in Seq(Callers) /\ Len(queue) \in Nat /\ Len(queue') = Len(queue) + 1
        /\ \A i \in 1..Len(queue) : queue'[i] = queue[i]
        /\ queue'[Len(queue) + 1] = c
    BY <1>1, <2>1, AppendProperties, LenProperties
  <2>3. \A i \in 1..Len(queue) : queue[i] # c
    BY <2>1 DEF Line, QueueIsWholeLine, InLine
  <2>4. DatabaseTypeOK'
    BY <2>1, <2>2 DEF Line, DatabaseTypeOK, UnitLabels
  <2>5. QueuedOnce'
    BY <2>2, <2>3 DEF Line, QueuedOnce
  <2>6. QueueIsWholeLine'
    BY <1>1, <2>1, <2>2 DEF Line, QueueIsWholeLine, InLine
  <2>7. OnlyHeadAtWork'
    <3> SUFFICES ASSUME NEW d \in Callers, unit'[d] \in {"body", "failed", "leaving"}
                 PROVE  queue'[1] = d
      BY DEF OnlyHeadAtWork
    <3>1. unit[d] \in {"body", "failed", "leaving"}
      BY <1>1, <2>1
    <3> QED BY <2>2, <3>1, HeadOfLine
  <2>8. TransactionIsHeads' /\ WorkNeedsHandle'
    BY <1>1, <2>1 DEF Line, TransactionIsHeads, WorkNeedsHandle, Callers
  <2> QED BY <2>4, <2>5, <2>6, <2>7, <2>8 DEF Line
<1> QED BY <1>2, <1>3

(* A step of the head that leaves it in the line.                          *)
LEMMA WorkKeepsLine ==
    ASSUME Line, NEW c \in Callers, BeginUnit(c) \/ Body(c) \/ Rollback(c) \/ Close(c)
    PROVE  Line'
<1>1. unit \in [Callers -> UnitLabels]
  BY DEF Line, DatabaseTypeOK
<1>2. /\ queue[1] = c /\ unit[c] \in InLine
      /\ \A d \in Callers : d # c => unit[d] \notin {"body", "failed", "leaving"}
  BY HeadOfLine DEF BeginUnit, Body, Rollback, Close, InLine
<1>3. PICK at \in {"body", "failed", "leaving"} : unit' = [unit EXCEPT ![c] = at]
  BY DEF BeginUnit, Body, Rollback, Close, GotoUnit
<1>4. UNCHANGED queue
  BY DEF BeginUnit, Body, Rollback, Close
<1>5. DatabaseTypeOK'
  BY <1>1, <1>3, <1>4 DEF Line, DatabaseTypeOK, UnitLabels, BeginUnit, Body, Rollback, Close
<1>6. QueuedOnce' /\ QueueIsWholeLine' /\ OnlyHeadAtWork'
  BY <1>1, <1>2, <1>3, <1>4 DEF Line, QueuedOnce, QueueIsWholeLine, OnlyHeadAtWork, InLine
<1>7. TransactionIsHeads' /\ WorkNeedsHandle'
  <2>1. \A d \in Callers : d # c => unit'[d] = unit[d] /\ unit[d] \notin {"body", "failed"}
    BY <1>1, <1>2, <1>3
  <2>2. inTxn \in Units => inTxn = c
    BY <1>2 DEF Line, TransactionIsHeads, Callers
  <2>3. \A d \in Units : d \in Callers /\ d # "none"
    BY DatabaseAssumption DEF Callers
  <2>4. CASE BeginUnit(c)
    BY <1>1, <2>1, <2>2, <2>3, <2>4
       DEF Line, TransactionIsHeads, WorkNeedsHandle, BeginUnit, GotoUnit
  <2>5. CASE Body(c)
    BY <1>1, <2>1, <2>2, <2>3, <2>5
       DEF Line, TransactionIsHeads, WorkNeedsHandle, Body, GotoUnit
  <2>6. CASE Rollback(c)
    BY <1>1, <2>1, <2>2, <2>3, <2>6
       DEF Line, TransactionIsHeads, WorkNeedsHandle, Rollback, GotoUnit
  <2>7. CASE Close(c)
    BY <1>1, <2>1, <2>2, <2>3, <2>7
       DEF Line, TransactionIsHeads, WorkNeedsHandle, Close, GotoUnit
  <2> QED BY <2>4, <2>5, <2>6, <2>7
<1> QED BY <1>5, <1>6, <1>7 DEF Line

LEMMA LeaveKeepsLine ==
    ASSUME Line, NEW c \in Callers, Leave(c)
    PROVE  Line'
<1>1. /\ queue \in Seq(Callers) /\ unit \in [Callers -> UnitLabels]
      /\ unit[c] = "leaving" /\ unit' = [unit EXCEPT ![c] = "done"] /\ queue' = Tail(queue)
      /\ UNCHANGED <<inTxn, handleOpen, closed, loose>>
  BY DEF Line, DatabaseTypeOK, Leave, Released, GotoUnit
<1>2. /\ Len(queue) \in Nat \ {0} /\ queue # <<>> /\ queue[1] = c
      /\ \A d \in Callers : d # c => unit[d] \notin {"body", "failed", "leaving"}
  BY <1>1, HeadOfLine
<1>3. /\ queue' \in Seq(Callers) /\ Len(queue') = Len(queue) - 1
      /\ \A i \in 1..Len(queue') : queue'[i] = queue[i + 1]
  BY <1>1, <1>2, HeadTailProperties
<1>4. DatabaseTypeOK'
  BY <1>1, <1>3 DEF Line, DatabaseTypeOK, UnitLabels
<1>5. QueuedOnce'
  <2> SUFFICES ASSUME NEW i \in 1..Len(queue'), NEW j \in 1..Len(queue'), queue'[i] = queue'[j]
               PROVE  i = j
    BY DEF QueuedOnce
  <2>1. i + 1 \in 1..Len(queue) /\ j + 1 \in 1..Len(queue) /\ queue[i + 1] = queue[j + 1]
    BY <1>2, <1>3
  <2> QED BY <1>2, <2>1 DEF Line, QueuedOnce
<1>6. QueueIsWholeLine'
  <2> SUFFICES ASSUME NEW d \in Callers
               PROVE  unit'[d] \in InLine <=> \E i \in 1..Len(queue') : queue'[i] = d
    BY DEF QueueIsWholeLine
  <2>1. unit[d] \in InLine <=> \E i \in 1..Len(queue) : queue[i] = d
    BY DEF Line, QueueIsWholeLine
  <2>2. CASE d = c
    <3>1. \A i \in 1..Len(queue') : queue[i + 1] # c
      <4>1. \A i \in 1..Len(queue') : i + 1 \in 1..Len(queue) /\ 1 \in 1..Len(queue) /\ i + 1 # 1
        BY <1>2, <1>3
      <4> QED BY <1>2, <4>1 DEF Line, QueuedOnce
    <3> QED BY <1>1, <1>3, <2>2, <3>1 DEF InLine
  <2>3. CASE d # c
    <3>1. ASSUME NEW i \in 1..Len(queue), queue[i] = d
          PROVE  i - 1 \in 1..Len(queue') /\ queue'[i - 1] = d
      BY <1>2, <1>3, <2>3, <3>1
    <3>2. ASSUME NEW i \in 1..Len(queue'), queue'[i] = d
          PROVE  i + 1 \in 1..Len(queue) /\ queue[i + 1] = d
      BY <1>2, <1>3, <3>2
    <3> QED BY <1>1, <2>1, <2>3, <3>1, <3>2
  <2> QED BY <2>2, <2>3
<1>7. OnlyHeadAtWork' /\ TransactionIsHeads' /\ WorkNeedsHandle'
  BY <1>1, <1>2 DEF Line, OnlyHeadAtWork, TransactionIsHeads, WorkNeedsHandle, Callers
<1> QED BY <1>4, <1>5, <1>6, <1>7 DEF Line

(* Units of work never share the connection, and no close() cuts one off,  *)
(* however many callers queue and however they fail.                       *)
THEOREM UnitsNeverMeet == DatabaseSpec => []UnitsAreExclusive
<1>1. Line /\ [DatabaseNext]_dbVars => Line'
  <2> SUFFICES ASSUME Line, [DatabaseNext]_dbVars
               PROVE  Line'
    OBVIOUS
  <2>1. CASE LooseStatement \/ UNCHANGED dbVars
    BY <2>1 DEF LooseStatement, dbVars, Line, DatabaseTypeOK, QueuedOnce, QueueIsWholeLine,
       OnlyHeadAtWork, TransactionIsHeads, WorkNeedsHandle
  <2>2. ASSUME NEW c \in Callers, Call(c) \/ UnitStep(c)
        PROVE  Line'
    BY <2>2, CallKeepsLine, WorkKeepsLine, LeaveKeepsLine DEF UnitStep
  <2> QED BY <2>1, <2>2 DEF DatabaseNext
<1>2. Line => UnitsAreExclusive
  BY DEF Line, UnitsAreExclusive, TransactionIsHeads, WorkNeedsHandle, Callers
<1> QED BY <1>1, <1>2, InitLine, PTL DEF DatabaseSpec

-----------------------------------------------------------------------------
(***************************************************************************)
(* The foreground loop.  Its inFlight flag must tell the truth about the   *)
(* sweeps: a slot is marked with who launched it for as long as it is      *)
(* busy, a loop has one sweep of its own exactly while the flag is up, and *)
(* of the two slots of a session a tick takes at most one, so that a loop  *)
(* that may run finds a free one.                                          *)
(***************************************************************************)
LoopRecords == [started : BOOLEAN, paused : BOOLEAN, inFlight : BOOLEAN,
                timer : {"off"} \cup Cadences, cadence : Cadences]
RunRecords == [at : {"idle", "acquire", "work", "release"}, by : {"none", "loop", "tick"}]

SlotsAreMarked ==
    \A i \in SessionIds, k \in Slots : run[i][k].at = "idle" <=> run[i][k].by = "none"

FlagIsTrue ==
    \A i \in SessionIds : loop[i].inFlight <=> \E k \in Slots : run[i][k].by = "loop"

OneTick ==
    \A i \in SessionIds, j, k \in Slots :
        run[i][j].by = "tick" /\ run[i][k].by = "tick" => j = k

Sweeping ==
    /\ LoopTypeOK /\ run \in [SessionIds -> [Slots -> RunRecords]]
    /\ open => current \in SessionIds
    /\ SlotsAreMarked /\ FlagIsTrue /\ OneTick
    /\ SweepsFollowOn

(* The loop l is in a state LoopKeepsGoing allows, when it may not run.    *)
TimerIsSound(l) ==
    l.timer # "off" =>
        /\ l.started /\ ~l.paused
        /\ l.timer = "idle" /\ ~l.inFlight => l.cadence = "idle"

LEMMA InitSweeping ==
    ASSUME LoopInit
    PROVE  Sweeping
<1>1. run \in [SessionIds -> [Slots -> RunRecords]]
  BY DEF LoopInit, IdleRun, RunRecords
<1>2. loop \in [SessionIds -> LoopRecords]
  BY DEF LoopInit, FreshLoop, LoopRecords, Cadences
<1>3. LoopTypeOK
  <2>1. \A i \in SessionIds, k \in Slots : run[i][k] \in RunRecords
    BY <1>1
  <2>2. lease \in [owner : 0..MaxSessions, expired : BOOLEAN]
    BY LoopAssumption DEF LoopInit, NoLease
  <2>3. current \in 0..MaxSessions /\ faults \in 0..MaxFaults
    BY LoopAssumption DEF LoopInit
  <2>4. open \in BOOLEAN /\ swept \in [SessionIds -> BOOLEAN]
    BY DEF LoopInit
  <2> QED BY <1>2, <2>1, <2>2, <2>3, <2>4 DEF LoopTypeOK, LoopRecords, RunRecords
<1>4. SlotsAreMarked /\ FlagIsTrue /\ OneTick /\ SweepsFollowOn
  BY DEF LoopInit, SlotsAreMarked, FlagIsTrue, OneTick, SweepsFollowOn, OneSweepPerLoop,
     LoopKeepsGoing, IdleRun, FreshLoop
<1>5. ~open
  BY DEF LoopInit
<1> QED BY <1>1, <1>3, <1>4, <1>5 DEF Sweeping

(* Launching takes a free slot for whoever asks.                           *)
LEMMA LaunchTakes ==
    ASSUME Sweeping, NEW i \in SessionIds, NEW by \in {"loop", "tick"}, FreeSlot(i), Launch(i, by)
    PROVE  \E k \in Slots, r \in RunRecords :
              /\ run[i][k].at = "idle"
              /\ r.at = "acquire" /\ r.by = by
              /\ run' = [run EXCEPT ![i][k] = r]
<1> DEFINE k == CHOOSE k \in Slots : run[i][k].at = "idle"
           r == [IdleRun EXCEPT !.at = "acquire", !.by = by]
<1>1. k \in Slots /\ run[i][k].at = "idle"
  BY DEF FreeSlot
<1>2. r \in RunRecords /\ r.at = "acquire" /\ r.by = by
  BY DEF IdleRun, RunRecords
<1>3. run' = [run EXCEPT ![i][k] = r]
  BY DEF Launch
<1> QED BY <1>1, <1>2, <1>3

(* A loop without a sweep in flight has a free slot: a tick takes one only. *)
LEMMA LoopFindsSlot ==
    ASSUME Sweeping, NEW i \in SessionIds, ~loop[i].inFlight
    PROVE  FreeSlot(i)
<1>1. \A k \in Slots : run[i][k].by \in {"none", "tick"}
  BY DEF Sweeping, FlagIsTrue, RunRecords
<1>2. "x" \in Slots /\ "y" \in Slots /\ "x" # "y"
  BY DEF Slots
<1>3. run[i]["x"].by = "none" \/ run[i]["y"].by = "none"
  BY <1>1, <1>2 DEF Sweeping, OneTick
<1> QED BY <1>2, <1>3 DEF Sweeping, SlotsAreMarked, FreeSlot

(* What follows of the sweeps, loops and slots, when one slot is launched. *)
LEMMA RunLoopKeeps ==
    ASSUME Sweeping, NEW i \in SessionIds, NEW l \in LoopRecords,
           l.inFlight = loop[i].inFlight, TimerIsSound(l), RunLoop(i, l)
    PROVE  /\ loop' \in [SessionIds -> LoopRecords]
           /\ run' \in [SessionIds -> [Slots -> RunRecords]]
           /\ SlotsAreMarked' /\ FlagIsTrue' /\ OneTick' /\ SweepsFollowOn'
<1>1. loop \in [SessionIds -> LoopRecords] /\ run \in [SessionIds -> [Slots -> RunRecords]]
  BY DEF Sweeping, LoopTypeOK, LoopRecords
<1>2. CASE MayRun(l)
  <2>1. ~loop[i].inFlight
    BY <1>2 DEF MayRun
  <2>2. PICK k \in Slots, r \in RunRecords :
          /\ run[i][k].at = "idle" /\ r.at = "acquire" /\ r.by = "loop"
          /\ run' = [run EXCEPT ![i][k] = r]
    BY <1>2, <2>1, LoopFindsSlot, LaunchTakes DEF RunLoop
  <2>3. loop' = [loop EXCEPT ![i] = [l EXCEPT !.inFlight = TRUE]]
    BY <1>2 DEF RunLoop
  <2>4. /\ loop' \in [SessionIds -> LoopRecords]
        /\ \A j \in SessionIds : j # i => loop'[j] = loop[j]
        /\ loop'[i].inFlight /\ loop'[i].started = l.started /\ loop'[i].paused = l.paused
        /\ loop'[i].timer = l.timer
    BY <1>1, <2>3 DEF LoopRecords
  <2>5. /\ run' \in [SessionIds -> [Slots -> RunRecords]]
        /\ \A j \in SessionIds, h \in Slots : ~(j = i /\ h = k) => run'[j][h] = run[j][h]
        /\ run'[i][k].at = "acquire" /\ run'[i][k].by = "loop"
    BY <1>1, <2>2 DEF RunRecords
  <2>6. \A h \in Slots : run[i][h].by # "loop"
    BY <2>1 DEF Sweeping, FlagIsTrue
  <2>7. /\ SlotsAreMarked'
        /\ FlagIsTrue'
        /\ OneTick'
    <3>1. SlotsAreMarked'
      BY <2>5 DEF Sweeping, SlotsAreMarked
    <3>2. FlagIsTrue'
      BY <2>4, <2>5 DEF Sweeping, FlagIsTrue
    <3>3. OneTick'
      BY <2>5 DEF Sweeping, OneTick
    <3> QED BY <3>1, <3>2, <3>3
  <2>8. OneSweepPerLoop'
    BY <2>5, <2>6 DEF Sweeping, SweepsFollowOn, OneSweepPerLoop
  <2>9. LoopKeepsGoing'
    BY <2>4 DEF Sweeping, SweepsFollowOn, LoopKeepsGoing, TimerIsSound
  <2> QED BY <2>4, <2>5, <2>7, <2>8, <2>9 DEF SweepsFollowOn
<1>3. CASE ~MayRun(l)
  <2>1. loop' = [loop EXCEPT ![i] = l] /\ UNCHANGED run
    BY <1>3 DEF RunLoop
  <2>2. /\ loop' \in [SessionIds -> LoopRecords] /\ loop'[i] = l
        /\ \A j \in SessionIds : j # i => loop'[j] = loop[j]
    BY <1>1, <2>1
  <2>3. SlotsAreMarked' /\ FlagIsTrue' /\ OneTick' /\ OneSweepPerLoop'
    BY <2>1, <2>2 DEF Sweeping, SlotsAreMarked, FlagIsTrue, OneTick, SweepsFollowOn,
       OneSweepPerLoop
  <2>4. LoopKeepsGoing'
    BY <1>3, <2>2 DEF Sweeping, SweepsFollowOn, LoopKeepsGoing, TimerIsSound, MayRun
  <2> QED BY <1>1, <2>1, <2>2, <2>3, <2>4 DEF SweepsFollowOn
<1> QED BY <1>2, <1>3

(* A step that only touches the loop of one session and its timer.         *)
LEMMA LoopStepKeeps ==
    ASSUME Sweeping, NEW i \in SessionIds, NEW l \in LoopRecords,
           l.inFlight = loop[i].inFlight, TimerIsSound(l),
           l.started /\ ~l.paused => l.inFlight \/ l.timer # "off",
           loop' = [loop EXCEPT ![i] = l], UNCHANGED run
    PROVE  /\ loop' \in [SessionIds -> LoopRecords]
           /\ run' \in [SessionIds -> [Slots -> RunRecords]]
           /\ SlotsAreMarked' /\ FlagIsTrue' /\ OneTick' /\ SweepsFollowOn'
<1>1. loop \in [SessionIds -> LoopRecords] /\ run \in [SessionIds -> [Slots -> RunRecords]]
  BY DEF Sweeping, LoopTypeOK, LoopRecords
<1>2. /\ loop' \in [SessionIds -> LoopRecords] /\ loop'[i] = l
      /\ \A j \in SessionIds : j # i => loop'[j] = loop[j]
  BY <1>1
<1>3. SlotsAreMarked' /\ FlagIsTrue' /\ OneTick' /\ OneSweepPerLoop'
  BY <1>2 DEF Sweeping, SlotsAreMarked, FlagIsTrue, OneTick, SweepsFollowOn, OneSweepPerLoop
<1>4. LoopKeepsGoing'
  BY <1>2 DEF Sweeping, SweepsFollowOn, LoopKeepsGoing, TimerIsSound
<1> QED BY <1>1, <1>2, <1>3, <1>4 DEF SweepsFollowOn

(* The end of a sweep lowers the flag of the loop that launched it.        *)
LEMMA EndSweepKeeps ==
    ASSUME Sweeping, NEW i \in SessionIds, NEW k \in Slots, NEW failed,
           run[i][k].at # "idle", EndSweep(i, k, failed)
    PROVE  /\ loop' \in [SessionIds -> LoopRecords]
           /\ run' \in [SessionIds -> [Slots -> RunRecords]]
           /\ SlotsAreMarked' /\ FlagIsTrue' /\ OneTick' /\ SweepsFollowOn'
<1>1. loop \in [SessionIds -> LoopRecords] /\ run \in [SessionIds -> [Slots -> RunRecords]]
  BY DEF Sweeping, LoopTypeOK, LoopRecords
<1>2. /\ run' \in [SessionIds -> [Slots -> RunRecords]]
      /\ \A j \in SessionIds, h \in Slots : ~(j = i /\ h = k) => run'[j][h] = run[j][h]
      /\ run'[i][k].at = "idle" /\ run'[i][k].by = "none"
  BY <1>1 DEF EndSweep, IdleRun, RunRecords
<1>3. SlotsAreMarked' /\ OneTick' /\ OneSweepPerLoop'
  <2>1. SlotsAreMarked'
    BY <1>2 DEF Sweeping, SlotsAreMarked
  <2>2. OneTick'
    BY <1>2 DEF Sweeping, OneTick
  <2>3. OneSweepPerLoop'
    BY <1>2 DEF Sweeping, SweepsFollowOn, OneSweepPerLoop
  <2> QED BY <2>1, <2>2, <2>3
<1>4. CASE run[i][k].by = "loop"
  <2> DEFINE l == AfterSweep(loop[i], failed)
  <2>1. loop' = [loop EXCEPT ![i] = l]
    BY <1>4 DEF EndSweep
  <2>2. /\ l \in LoopRecords /\ ~l.inFlight /\ l.started = loop[i].started
        /\ l.paused = loop[i].paused /\ l.cadence = loop[i].cadence
        /\ l.timer = IF l.started /\ ~l.paused THEN l.cadence ELSE loop[i].timer
    BY <1>1 DEF AfterSweep, LoopRecords
  <2> HIDE DEF l
  <2>3. /\ loop' \in [SessionIds -> LoopRecords] /\ loop'[i] = l
        /\ \A j \in SessionIds : j # i => loop'[j] = loop[j]
    BY <1>1, <2>1, <2>2
  <2>4. \A h \in Slots : h # k => run[i][h].by # "loop"
    BY <1>4 DEF Sweeping, SweepsFollowOn, OneSweepPerLoop
  <2>5. FlagIsTrue'
    BY <1>2, <2>2, <2>3, <2>4 DEF Sweeping, FlagIsTrue
  <2>6. l.cadence \in Cadences /\ "off" \notin Cadences
    BY <2>2 DEF LoopRecords, Cadences
  <2>7. LoopKeepsGoing'
    BY <2>2, <2>3, <2>6 DEF Sweeping, SweepsFollowOn, LoopKeepsGoing
  <2> QED BY <1>2, <1>3, <2>3, <2>5, <2>7 DEF SweepsFollowOn
<1>5. CASE run[i][k].by # "loop"
  <2>1. UNCHANGED loop
    BY <1>5 DEF EndSweep
  <2>2. FlagIsTrue'
    BY <1>2, <1>5, <2>1 DEF Sweeping, FlagIsTrue
  <2>3. LoopKeepsGoing'
    BY <2>1 DEF Sweeping, SweepsFollowOn, LoopKeepsGoing
  <2> QED BY <1>1, <1>2, <1>3, <2>1, <2>2, <2>3 DEF SweepsFollowOn
<1> QED BY <1>4, <1>5

(* A sweep that goes on stays marked as it was.                            *)
LEMMA GotoRunKeeps ==
    ASSUME Sweeping, NEW i \in SessionIds, NEW k \in Slots, NEW at \in {"work", "release"},
           run[i][k].at # "idle", GotoRun(i, k, at), UNCHANGED loop
    PROVE  /\ loop' \in [SessionIds -> LoopRecords]
           /\ run' \in [SessionIds -> [Slots -> RunRecords]]
           /\ SlotsAreMarked' /\ FlagIsTrue' /\ OneTick' /\ SweepsFollowOn'
<1>1. loop \in [SessionIds -> LoopRecords] /\ run \in [SessionIds -> [Slots -> RunRecords]]
  BY DEF Sweeping, LoopTypeOK, LoopRecords
<1>2. /\ run' \in [SessionIds -> [Slots -> RunRecords]]
      /\ \A j \in SessionIds, h \in Slots : run'[j][h].by = run[j][h].by
      /\ \A j \in SessionIds, h \in Slots : ~(j = i /\ h = k) => run'[j][h] = run[j][h]
      /\ run'[i][k].at # "idle"
  BY <1>1 DEF GotoRun, RunRecords
<1>3. SlotsAreMarked'
  BY <1>2 DEF Sweeping, SlotsAreMarked
<1>4. FlagIsTrue' /\ OneTick'
  <2>1. FlagIsTrue'
    BY <1>2 DEF Sweeping, FlagIsTrue
  <2>2. OneTick'
    BY <1>2 DEF Sweeping, OneTick
  <2> QED BY <2>1, <2>2
<1>5. SweepsFollowOn'
  BY <1>2 DEF Sweeping, SweepsFollowOn, OneSweepPerLoop, LoopKeepsGoing
<1> QED BY <1>1, <1>2, <1>3, <1>4, <1>5

(* The variables beside the loops and the sweeps.                          *)
RestTypeOK ==
    /\ current \in 0..MaxSessions /\ open \in BOOLEAN
    /\ open => current \in SessionIds
    /\ lease \in [owner : 0..MaxSessions, expired : BOOLEAN]
    /\ faults \in 0..MaxFaults /\ swept \in [SessionIds -> BOOLEAN]

LEMMA SweepingParts ==
    /\ Sweeping => RestTypeOK
    /\ /\ RestTypeOK' /\ loop' \in [SessionIds -> LoopRecords]
       /\ run' \in [SessionIds -> [Slots -> RunRecords]]
       /\ SlotsAreMarked' /\ FlagIsTrue' /\ OneTick' /\ SweepsFollowOn'
       => Sweeping'
<1>1. Sweeping => RestTypeOK
  BY DEF Sweeping, LoopTypeOK, RestTypeOK
<1>2. ASSUME RestTypeOK', loop' \in [SessionIds -> LoopRecords],
             run' \in [SessionIds -> [Slots -> RunRecords]]
      PROVE  LoopTypeOK'
  <2>1. \A i \in SessionIds, k \in Slots : run'[i][k] \in RunRecords
    BY <1>2
  <2> QED BY <1>2, <2>1 DEF LoopTypeOK, RestTypeOK, LoopRecords, RunRecords
<1>3. RestTypeOK' => (open' => current' \in SessionIds)
  BY DEF RestTypeOK
<1> QED BY <1>1, <1>2, <1>3 DEF Sweeping

(* What the screens, the timer and the app's state do to a loop.           *)
LEMMA LoopOperationKeeps ==
    ASSUME Sweeping, NEW i \in SessionIds,
           \/ TimerFires(i) \/ RunNow(i) \/ Pause(i) \/ Resume(i)
           \/ \E cadence \in Cadences : SetCadence(i, cadence)
    PROVE  Sweeping'
<1>1. /\ loop[i] \in LoopRecords /\ TimerIsSound(loop[i]) /\ "off" \notin Cadences
      /\ loop[i].started /\ ~loop[i].paused => loop[i].inFlight \/ loop[i].timer # "off"
  BY DEF Sweeping, LoopTypeOK, LoopRecords, SweepsFollowOn, LoopKeepsGoing, TimerIsSound, Cadences
<1>2. RestTypeOK'
  <2>1. RestTypeOK /\ UNCHANGED <<current, open, lease, faults>>
    BY SweepingParts DEF TimerFires, RunNow, Pause, Resume, SetCadence
  <2>2. swept' \in [SessionIds -> BOOLEAN]
    BY <2>1 DEF RestTypeOK, TimerFires, RunNow, Pause, Resume, SetCadence
  <2> QED BY <2>1, <2>2 DEF RestTypeOK
<1>3. CASE TimerFires(i)
  <2> DEFINE l == [loop[i] EXCEPT !.timer = "off"]
  <2>1. l \in LoopRecords /\ l.inFlight = loop[i].inFlight /\ TimerIsSound(l)
    BY <1>1 DEF LoopRecords, TimerIsSound
  <2> QED BY <1>2, <1>3, <2>1, RunLoopKeeps, SweepingParts DEF TimerFires
<1>4. CASE RunNow(i)
  BY <1>1, <1>2, <1>4, RunLoopKeeps, SweepingParts DEF RunNow
<1>5. CASE Pause(i)
  <2> DEFINE l == Paused(loop[i])
  <2>1. l \in LoopRecords /\ l.inFlight = loop[i].inFlight /\ TimerIsSound(l) /\ l.paused
    BY <1>1 DEF LoopRecords, TimerIsSound, Paused
  <2> QED BY <1>2, <1>5, <2>1, LoopStepKeeps, SweepingParts DEF Pause
<1>6. CASE Resume(i)
  <2> DEFINE l == Resumed(loop[i])
  <2>1. loop[i].timer = "off"
    BY <1>1, <1>6 DEF Resume, TimerIsSound
  <2>2. l \in LoopRecords /\ l.inFlight = loop[i].inFlight /\ TimerIsSound(l)
    BY <1>1, <2>1 DEF LoopRecords, TimerIsSound, Resumed
  <2> QED BY <1>2, <1>6, <2>2, RunLoopKeeps, SweepingParts DEF Resume
<1>7. ASSUME NEW cadence \in Cadences, SetCadence(i, cadence)
      PROVE  Sweeping'
  <2> DEFINE l == WithCadence(loop[i], cadence)
  <2>1. /\ l \in LoopRecords /\ l.inFlight = loop[i].inFlight
        /\ l.started = loop[i].started /\ l.paused = loop[i].paused /\ l.cadence = cadence
        /\ l.timer = IF cadence = "chat" /\ loop[i].cadence = "idle" /\ MayRun(loop[i])
                     THEN cadence ELSE loop[i].timer
    BY <1>1 DEF LoopRecords, WithCadence
  <2>2. cadence # loop[i].cadence /\ Cadences = {"idle", "chat"}
    BY <1>7 DEF SetCadence, Cadences
  <2>3. loop[i].cadence \in Cadences
    BY <1>1 DEF LoopRecords
  <2> HIDE DEF l
  <2>4. TimerIsSound(l) /\ (l.started /\ ~l.paused => l.inFlight \/ l.timer # "off")
    BY <1>1, <2>1, <2>2, <2>3 DEF TimerIsSound, MayRun
  <2>5. loop' = [loop EXCEPT ![i] = l] /\ UNCHANGED run
    BY <1>7 DEF SetCadence, l
  <2> QED BY <1>2, <2>1, <2>4, <2>5, LoopStepKeeps, SweepingParts
<1> QED BY <1>3, <1>4, <1>5, <1>6, <1>7

LEMMA SessionStepKeeps ==
    ASSUME Sweeping, Unlock \/ Lock \/ Tick \/ LeaseExpires \/ PruneLease
    PROVE  Sweeping'
<1>1. /\ loop \in [SessionIds -> LoopRecords] /\ run \in [SessionIds -> [Slots -> RunRecords]]
      /\ \A i \in SessionIds : TimerIsSound(loop[i])
      /\ current \in 0..MaxSessions /\ RestTypeOK
  BY SweepingParts DEF Sweeping, LoopTypeOK, LoopRecords, SweepsFollowOn, LoopKeepsGoing,
     TimerIsSound
<1>2. CASE Unlock
  <2> DEFINE i == current + 1
             l == Started(loop[i])
  <2>1. i \in SessionIds
    BY <1>1, <1>2, LoopAssumption DEF Unlock, SessionIds
  <2>2. l \in LoopRecords /\ l.inFlight = loop[i].inFlight /\ TimerIsSound(l)
    BY <1>1, <2>1 DEF LoopRecords, TimerIsSound, Started, Cadences
  <2>3. RestTypeOK'
    <3>1. current' = i /\ open' /\ UNCHANGED <<lease, faults, swept>>
      BY <1>2 DEF Unlock
    <3>2. i \in 0..MaxSessions /\ open' \in BOOLEAN
      BY <1>2, <2>1, LoopAssumption DEF Unlock, SessionIds
    <3> QED BY <1>1, <2>1, <3>1, <3>2 DEF RestTypeOK
  <2>4. RunLoop(i, l)
    BY <1>2 DEF Unlock
  <2> HIDE DEF i, l
  <2> QED BY <2>1, <2>2, <2>3, <2>4, RunLoopKeeps, SweepingParts
<1>3. CASE Lock
  <2> DEFINE l == Stopped(loop[current])
  <2>1. current \in SessionIds
    BY <1>1, <1>3 DEF Lock, RestTypeOK
  <2>2. l \in LoopRecords /\ l.inFlight = loop[current].inFlight /\ ~l.started /\ l.timer = "off"
    BY <1>1, <2>1 DEF LoopRecords, Stopped, Cadences
  <2>3. RestTypeOK'
    BY <1>1, <1>3 DEF Lock, RestTypeOK
  <2>4. loop' = [loop EXCEPT ![current] = l] /\ UNCHANGED run
    BY <1>3 DEF Lock
  <2> HIDE DEF l
  <2> QED BY <2>1, <2>2, <2>3, <2>4, LoopStepKeeps, SweepingParts DEF TimerIsSound
<1>5. CASE Tick
  <2>1. current \in SessionIds /\ FreeSlot(current) /\ Launch(current, "tick")
    BY <1>1, <1>5 DEF Tick, RestTypeOK
  <2>2. PICK k \in Slots, r \in RunRecords :
          /\ run[current][k].at = "idle" /\ r.at = "acquire" /\ r.by = "tick"
          /\ run' = [run EXCEPT ![current][k] = r]
    BY <2>1, LaunchTakes
  <2>3. /\ run' \in [SessionIds -> [Slots -> RunRecords]]
        /\ \A j \in SessionIds, h \in Slots : ~(j = current /\ h = k) => run'[j][h] = run[j][h]
        /\ run'[current][k].at = "acquire" /\ run'[current][k].by = "tick"
    BY <1>1, <2>1, <2>2
  <2>4. UNCHANGED loop /\ ~TickBusy
    BY <1>5 DEF Tick
  <2>5. SlotsAreMarked'
    BY <2>3 DEF Sweeping, SlotsAreMarked
  <2>6. run[current][k].by = "none"
    BY <2>1, <2>2 DEF Sweeping, SlotsAreMarked
  <2>7. FlagIsTrue'
    BY <2>3, <2>4, <2>6 DEF Sweeping, FlagIsTrue
  <2>8. OneTick'
    BY <2>3, <2>4 DEF OneTick, TickBusy
  <2>9. SweepsFollowOn'
    BY <2>3, <2>4 DEF Sweeping, SweepsFollowOn, OneSweepPerLoop, LoopKeepsGoing
  <2>10. RestTypeOK'
    BY <1>1, <1>5 DEF Tick, RestTypeOK
  <2> QED BY <1>1, <2>3, <2>4, <2>5, <2>7, <2>8, <2>9, <2>10, SweepingParts
<1>6. CASE LeaseExpires \/ PruneLease
  <2>1. UNCHANGED <<loop, run>>
    BY <1>6 DEF LeaseExpires, PruneLease
  <2>2. RestTypeOK'
    <3>1. NoLease \in [owner : 0..MaxSessions, expired : BOOLEAN]
      BY LoopAssumption DEF NoLease
    <3>2. lease' \in [owner : 0..MaxSessions, expired : BOOLEAN]
      BY <1>1, <1>6, <3>1 DEF LeaseExpires, PruneLease, RestTypeOK
    <3> QED BY <1>1, <1>6, <3>2 DEF LeaseExpires, PruneLease, RestTypeOK
  <2> QED BY <1>1, <2>1, <2>2, SweepingParts DEF Sweeping, SlotsAreMarked, FlagIsTrue, OneTick,
          SweepsFollowOn, OneSweepPerLoop, LoopKeepsGoing
<1> QED BY <1>2, <1>3, <1>5, <1>6

LEMMA RunStepKeeps ==
    ASSUME Sweeping, NEW i \in SessionIds, NEW k \in Slots, RunStep(i, k)
    PROVE  Sweeping'
<1>1. RestTypeOK
  BY SweepingParts
<1>2. CASE Abandon(i, k)
  <2>1. RestTypeOK'
    BY <1>1, <1>2 DEF Abandon, RestTypeOK
  <2> QED BY <1>2, <2>1, EndSweepKeeps, SweepingParts DEF Abandon
<1>3. CASE LeaseFails(i, k)
  <2>1. RestTypeOK'
    BY <1>1, <1>3, LoopAssumption DEF LeaseFails, RestTypeOK
  <2>2. run[i][k].at # "idle"
    BY <1>3 DEF LeaseFails
  <2> QED BY <1>3, <2>1, <2>2, EndSweepKeeps, SweepingParts DEF LeaseFails
<1>4. CASE Acquire(i, k)
  <2>1. run[i][k].at # "idle"
    BY <1>4 DEF Acquire
  <2>2. [owner |-> i, expired |-> FALSE] \in [owner : 0..MaxSessions, expired : BOOLEAN]
    BY LoopAssumption DEF SessionIds
  <2>3. RestTypeOK'
    BY <1>1, <1>4, <2>2 DEF Acquire, RestTypeOK
  <2>4. CASE Obtainable(i)
    BY <1>4, <2>1, <2>3, <2>4, GotoRunKeeps, SweepingParts DEF Acquire
  <2>5. CASE ~Obtainable(i)
    BY <1>4, <2>1, <2>3, <2>5, EndSweepKeeps, SweepingParts DEF Acquire
  <2> QED BY <2>4, <2>5
<1>5. CASE WorkerRuns(i, k)
  <2>1. RestTypeOK'
    BY <1>1, <1>5 DEF WorkerRuns, RestTypeOK
  <2>2. run[i][k].at # "idle"
    BY <1>5 DEF WorkerRuns
  <2> QED BY <1>5, <2>1, <2>2, GotoRunKeeps, SweepingParts DEF WorkerRuns
<1>6. CASE Release(i, k)
  <2>1. NoLease \in [owner : 0..MaxSessions, expired : BOOLEAN]
    BY LoopAssumption DEF NoLease
  <2>2. RestTypeOK'
    BY <1>1, <1>6, <2>1 DEF Release, RestTypeOK
  <2>3. run[i][k].at # "idle"
    BY <1>6 DEF Release
  <2> QED BY <1>6, <2>2, <2>3, EndSweepKeeps, SweepingParts DEF Release
<1> QED BY <1>2, <1>3, <1>4, <1>5, <1>6 DEF RunStep

(* However a screen, the timer, the app's state, the background tick, the  *)
(* lock and the failures of sweeps interleave, no loop has two sweeps of   *)
(* its own in flight, and none that should go on has nothing coming.       *)
THEOREM LoopsNeitherDoubleNorStall == LoopSpec => []SweepsFollowOn
<1>1. Sweeping /\ [LoopNext]_loopVars => Sweeping'
  <2> SUFFICES ASSUME Sweeping, [LoopNext]_loopVars
               PROVE  Sweeping'
    OBVIOUS
  <2>1. CASE LoopNext
    BY <2>1, LoopOperationKeeps, SessionStepKeeps, RunStepKeeps DEF LoopNext
  <2>2. CASE UNCHANGED loopVars
    BY <2>2 DEF loopVars, Sweeping, LoopTypeOK, SlotsAreMarked, FlagIsTrue, OneTick,
       SweepsFollowOn, OneSweepPerLoop, LoopKeepsGoing
  <2> QED BY <2>1, <2>2
<1>2. Sweeping => SweepsFollowOn
  BY DEF Sweeping
<1> QED BY <1>1, <1>2, InitSweeping, PTL DEF LoopSpec
-----------------------------------------------------------------------------
(* The locked probe.  At these labels a tick holds what it read of the     *)
(* cache and what the indexer answered.                                    *)
Asking == {"ask", "notify", "write"}

OfAnEpoch(tags) == tags = {} \/ \E e \in 1..epoch : tags = TagsAt(e)

TickRecs == [at : {"idle", "read"} \cup Asking, asking : SUBSET Tags, answered : SUBSET Tags,
             found : SUBSET Cells, tags : SUBSET Tags, seen : SUBSET Cells]
RefreshRecs == [at : {"idle", "read", "write"}, seen : SUBSET Cells]

ProbeTyped ==
    /\ tagOf \in [Cells -> Tags] /\ told \in [Cells -> 0..2]
    /\ epoch \in 1..MaxEpoch /\ disturbed \in Nat /\ onChain \subseteq Cells
    /\ cache \in [tags : SUBSET Tags, lastSeen : SUBSET Cells]
    /\ tick \in TickRecs /\ refresh \in RefreshRecs
    /\ OfAnEpoch(cache.tags) /\ OfAnEpoch(tick.tags)
    /\ ~cached => cache = EmptyCache

Rung == {c \in Cells : told[c] > 0}

(* Whatever may become a record of what was seen was told.                 *)
ToldFirst ==
    /\ cache.lastSeen \subseteq Rung /\ tick.seen \subseteq Rung /\ refresh.seen \subseteq Rung
    /\ tick.at = "write" => tick.found \subseteq Rung

(* An answer finds every cell under its tag that was told before it.       *)
AnswersAreWhole ==
    /\ tick.at \in Asking => tick.answered \cup tick.asking \subseteq tick.tags
    /\ \A c \in tick.found : tagOf[c] \in tick.answered
    /\ \A c \in Rung \cap onChain : tagOf[c] \in tick.answered => c \in tick.found

NotBelow(c, tags) == \E t \in tags : t <= tagOf[c]
NotAbove(c, tags) == \E t \in tags : tagOf[c] <= t

(* While nothing was cut short and no two writers met: a tick works on the *)
(* cache as it is; whoever was told stays recorded while its cell is on    *)
(* the chain under a tag that is still asked for, and tags only grow; so a *)
(* cell that is found and was told is one the tick has seen.               *)
NothingLost ==
    /\ tick.at = "idle" \/ refresh.at = "idle"
    /\ refresh.at # "idle" => unlocked
    /\ refresh.at = "write" => refresh.seen = cache.lastSeen
    /\ tick.at \in Asking => tick.tags = cache.tags /\ tick.seen = cache.lastSeen
    /\ \A c \in Rung : NotAbove(c, cache.tags)
    /\ \A c \in Rung \cap onChain : NotBelow(c, cache.tags) =>
          c \in cache.lastSeen \/ (tick.at = "write" /\ c \in tick.found)
    /\ tick.at \in {"ask", "notify"} => tick.found \cap Rung \subseteq tick.seen
    /\ \A c \in Cells : told[c] < 2

Undisturbed == disturbed = 0 => NothingLost

ProbeInv == ProbeTyped /\ ToldFirst /\ AnswersAreWhole /\ Undisturbed

USE ProbeAssumption

LEMMA TagsAtFits == ProbeTyped => TagsAt(epoch) \subseteq Tags /\ OfAnEpoch(TagsAt(epoch))
BY DEF ProbeTyped, TagsAt, Tags, OfAnEpoch

(* The tags of later epochs begin no lower and end no lower.               *)
LEMMA TagsGrow ==
    ASSUME ProbeTyped, NEW c \in Cells
    PROVE  /\ NotBelow(c, TagsAt(epoch)) /\ NotAbove(c, cache.tags) => NotBelow(c, cache.tags)
           /\ NotAbove(c, cache.tags) => NotAbove(c, TagsAt(epoch))
           /\ NotBelow(c, cache.tags) /\ NotAbove(c, cache.tags) => tagOf[c] \in cache.tags
<1>1. tagOf[c] \in Nat /\ epoch \in Nat /\ epoch \in 1..MaxEpoch
  BY DEF ProbeTyped, Tags
<1>2. cache.tags = {} \/ \E e \in 1..epoch : cache.tags = TagsAt(e)
  BY DEF ProbeTyped, OfAnEpoch
<1>3. \A e \in 1..epoch : TagsAt(e) = {e, e + 1}
  BY DEF TagsAt
<1>4. NotAbove(c, cache.tags) => \E e \in 1..epoch : cache.tags = {e, e + 1}
  BY <1>2, <1>3 DEF NotAbove
<1>5. NotBelow(c, TagsAt(epoch)) /\ NotAbove(c, cache.tags) => NotBelow(c, cache.tags)
  BY <1>1, <1>3, <1>4 DEF NotBelow
<1>6. NotAbove(c, cache.tags) => NotAbove(c, TagsAt(epoch))
  BY <1>1, <1>3, <1>4 DEF NotAbove
<1>7. NotBelow(c, cache.tags) /\ NotAbove(c, cache.tags) => tagOf[c] \in cache.tags
  BY <1>1, <1>4 DEF NotBelow, NotAbove
<1> QED BY <1>5, <1>6, <1>7

(* What most steps of a tick leave as it is.                               *)
TickOnly == UNCHANGED <<tagOf, epoch, onChain, cached, cache, refresh, unlocked, told>>

(* A tick that starts, ends early or dies holds nothing.                   *)
LEMMA RestKeeps ==
    ASSUME ProbeInv, TickOnly, disturbed' \in Nat, disturbed' >= disturbed,
           tick.at # "write" \/ disturbed' > 0,
           tick' = IdleTick \/ (tick' = [IdleTick EXCEPT !.at = "read"] /\ ~unlocked)
    PROVE  ProbeInv'
<1>1. /\ tick'.found = {} /\ tick'.seen = {} /\ tick'.tags = {}
      /\ tick'.asking = {} /\ tick'.answered = {} /\ tick' \in TickRecs
      /\ tick'.at = "idle" \/ (tick'.at = "read" /\ ~unlocked)
  BY DEF IdleTick, TickRecs
<1>2. ProbeTyped'
  BY <1>1 DEF ProbeInv, TickOnly, ProbeTyped, OfAnEpoch, TagsAt, EmptyCache, Tags
<1>3. ToldFirst' /\ AnswersAreWhole'
  BY <1>1 DEF ProbeInv, TickOnly, ToldFirst, Rung, AnswersAreWhole, Asking
<1>4. ASSUME disturbed' = 0 PROVE NothingLost'
  <2>1. NothingLost /\ tick.at # "write"
    BY <1>4 DEF ProbeInv, ProbeTyped, Undisturbed
  <2> QED BY <1>1, <2>1 DEF TickOnly, NothingLost, Asking, Rung, NotAbove, NotBelow
<1> QED BY <1>2, <1>3, <1>4 DEF ProbeInv, Undisturbed

LEMMA ReadKeeps ==
    ASSUME ProbeInv, ReadCache
    PROVE  ProbeInv'
<1>1. TickOnly /\ disturbed' = disturbed /\ tick.at = "read"
  BY DEF ReadCache, TickOnly
<1>2. CASE tick' = IdleTick
  BY <1>1, <1>2, RestKeeps DEF ProbeInv, ProbeTyped
<1>3. CASE tick' # IdleTick
  <2>1. /\ tick'.at = "ask" /\ tick'.asking = cache.tags /\ tick'.tags = cache.tags
        /\ tick'.seen = cache.lastSeen /\ tick'.found = {} /\ tick'.answered = {}
        /\ tick' \in TickRecs
    BY <1>3 DEF ReadCache, IdleTick, TickRecs, Asking, ProbeInv, ProbeTyped
  <2>2. ProbeTyped'
    BY <1>1, <2>1 DEF ProbeInv, TickOnly, ProbeTyped, OfAnEpoch, TagsAt, EmptyCache, Tags
  <2>3. ToldFirst' /\ AnswersAreWhole'
    BY <1>1, <2>1 DEF ProbeInv, TickOnly, ToldFirst, Rung, AnswersAreWhole, Asking
  <2>4. ASSUME disturbed' = 0 PROVE NothingLost'
    <3>1. NothingLost
      BY <1>1, <2>4 DEF ProbeInv, Undisturbed
    <3> QED BY <1>1, <2>1, <3>1 DEF TickOnly, NothingLost, Asking, Rung, NotAbove, NotBelow
  <2> QED BY <2>2, <2>3, <2>4 DEF ProbeInv, Undisturbed
<1> QED BY <1>2, <1>3

(* An answer, or a refusal, of the indexer.                                *)
LEMMA AskKeeps ==
    ASSUME ProbeInv, NEW t \in Tags, Answer(t) \/ Refuse(t)
    PROVE  ProbeInv'
<1>1. TickOnly /\ disturbed' = disturbed /\ tick.at = "ask" /\ t \in tick.asking
  BY DEF Answer, Refuse, TickOnly
<1>2. tick \in TickRecs /\ onChain \subseteq Cells /\ t \in tick.tags
  BY <1>1 DEF ProbeInv, ProbeTyped, AnswersAreWhole, Asking
<1>3. /\ tick'.at = "ask" /\ tick'.asking = tick.asking \ {t} /\ tick'.tags = tick.tags
      /\ tick'.seen = tick.seen
      /\ \/ /\ tick'.answered = tick.answered \cup {t}
            /\ tick'.found = tick.found \cup {c \in onChain : tagOf[c] = t}
         \/ tick'.answered = tick.answered /\ tick'.found = tick.found
      /\ tick' \in TickRecs
  <2>1. CASE Answer(t)
    BY <1>2, <2>1 DEF Answer, TickRecs, Asking
  <2>2. CASE Refuse(t)
    BY <1>2, <2>2 DEF Refuse, TickRecs, Asking
  <2> QED BY <2>1, <2>2
<1>4. ProbeTyped'
  BY <1>1, <1>3 DEF ProbeInv, TickOnly, ProbeTyped, OfAnEpoch, TagsAt, EmptyCache, Tags
<1>5. ToldFirst' /\ AnswersAreWhole'
  BY <1>1, <1>2, <1>3 DEF ProbeInv, TickOnly, ToldFirst, Rung, AnswersAreWhole, Asking
<1>6. ASSUME disturbed' = 0 PROVE NothingLost'
  <2>1. NothingLost /\ tick.tags = cache.tags /\ tick.seen = cache.lastSeen
    BY <1>1, <1>6 DEF ProbeInv, Undisturbed, NothingLost, Asking
  <2>2. \A c \in Rung \cap onChain : tagOf[c] = t => c \in cache.lastSeen
    <3> TAKE c \in Rung \cap onChain
    <3>1. tagOf[c] = t => NotBelow(c, cache.tags)
      BY <1>2, <2>1 DEF NotBelow, Tags
    <3> QED BY <1>1, <2>1, <3>1 DEF NothingLost
  <2>3. tick'.found \cap Rung' \subseteq tick'.seen
    BY <1>1, <1>3, <2>1, <2>2 DEF TickOnly, NothingLost, Rung
  <2> QED BY <1>1, <1>3, <2>1, <2>3 DEF TickOnly, NothingLost, Asking, Rung, NotAbove, NotBelow
<1> QED BY <1>4, <1>5, <1>6 DEF ProbeInv, Undisturbed

LEMMA CompareKeeps ==
    ASSUME ProbeInv, Compare
    PROVE  ProbeInv'
<1>1. TickOnly /\ disturbed' = disturbed /\ tick.at = "ask" /\ tick \in TickRecs
  BY DEF Compare, TickOnly, ProbeInv, ProbeTyped
<1>2. CASE tick' = IdleTick
  BY <1>1, <1>2, RestKeeps DEF ProbeInv, ProbeTyped
<1>3. CASE tick' # IdleTick
  <2>1. /\ tick'.at \in {"notify", "write"} /\ tick'.asking = tick.asking /\ tick'.tags = tick.tags
        /\ tick'.seen = tick.seen /\ tick'.found = tick.found /\ tick'.answered = tick.answered
        /\ tick' \in TickRecs
        /\ tick'.at = "write" => tick.found \subseteq tick.seen
    BY <1>1, <1>3 DEF Compare, Unseen, TickRecs, Asking
  <2>2. ProbeTyped'
    BY <1>1, <2>1 DEF ProbeInv, TickOnly, ProbeTyped, OfAnEpoch, TagsAt, EmptyCache, Tags
  <2>3. ToldFirst' /\ AnswersAreWhole'
    BY <1>1, <2>1 DEF ProbeInv, TickOnly, ToldFirst, Rung, AnswersAreWhole, Asking
  <2>4. ASSUME disturbed' = 0 PROVE NothingLost'
    <3>1. NothingLost
      BY <1>1, <2>4 DEF ProbeInv, Undisturbed
    <3> QED BY <1>1, <2>1, <3>1 DEF TickOnly, NothingLost, Asking, Rung, NotAbove, NotBelow
  <2> QED BY <2>2, <2>3, <2>4 DEF ProbeInv, Undisturbed
<1> QED BY <1>2, <1>3

(* The notification: what is told is found, and was not told before unless *)
(* something was disturbed.                                                *)
LEMMA TellKeeps ==
    ASSUME ProbeInv, TellWaiting
    PROVE  ProbeInv'
<1>1. /\ tick.at = "notify" /\ tick \in TickRecs
      /\ UNCHANGED <<tagOf, epoch, onChain, cached, cache, refresh, unlocked, disturbed>>
  BY DEF TellWaiting, ProbeInv, ProbeTyped
<1>2. /\ tick'.at = "write" /\ tick'.asking = tick.asking /\ tick'.tags = tick.tags
      /\ tick'.seen = tick.seen /\ tick'.found = tick.found /\ tick'.answered = tick.answered
      /\ tick' \in TickRecs
  BY <1>1 DEF TellWaiting, TickRecs, Asking
<1>3. /\ told' \in [Cells -> 0..2]
      /\ \A c \in Cells : c \in Unseen /\ told[c] < 2 => told'[c] = told[c] + 1
      /\ \A c \in Cells : ~(c \in Unseen /\ told[c] < 2) => told'[c] = told[c]
  BY DEF TellWaiting, ProbeInv, ProbeTyped
<1>4. /\ Rung \subseteq Rung' /\ Rung' \subseteq Rung \cup tick.found
      /\ tick.found \subseteq Rung' \cup tick.seen
  BY <1>1, <1>3 DEF Rung, Unseen, ProbeInv, ProbeTyped, TickRecs
<1>5. tick.found \subseteq Rung'
  BY <1>4 DEF ProbeInv, ToldFirst
<1>6. ProbeTyped'
  BY <1>1, <1>2, <1>3 DEF ProbeInv, ProbeTyped, OfAnEpoch, TagsAt, EmptyCache, Tags
<1>7. ToldFirst' /\ AnswersAreWhole'
  BY <1>1, <1>2, <1>4, <1>5 DEF ProbeInv, ToldFirst, AnswersAreWhole, Asking
<1>8. ASSUME disturbed' = 0 PROVE NothingLost'
  <2>1. NothingLost /\ tick.tags = cache.tags
    BY <1>1, <1>8 DEF ProbeInv, Undisturbed, NothingLost, Asking
  <2>2. \A c \in tick.found : tagOf[c] \in cache.tags /\ tagOf[c] \in Nat
    BY <1>1, <2>1 DEF ProbeInv, ProbeTyped, AnswersAreWhole, Asking, Tags, TickRecs
  <2>3. \A c \in Rung' : NotAbove(c, cache.tags)
    BY <1>4, <2>1, <2>2 DEF NothingLost, NotAbove
  <2>4. \A c \in Rung' \cap onChain : NotBelow(c, cache.tags) => c \in cache.lastSeen \/ c \in tick.found
    BY <1>1, <1>4, <2>1 DEF NothingLost
  <2>5. \A c \in Cells : told'[c] < 2
    <3> TAKE c \in Cells
    <3>1. CASE c \in Unseen
      <4>1. c \notin Rung /\ told[c] \in 0..2
        BY <1>1, <2>1, <3>1 DEF Unseen, NothingLost, ProbeInv, ProbeTyped
      <4> QED BY <1>3, <3>1, <4>1 DEF Rung
    <3>2. CASE c \notin Unseen
      BY <1>3, <2>1, <3>2 DEF NothingLost
    <3> QED BY <3>1, <3>2
  <2> QED BY <1>1, <1>2, <2>1, <2>3, <2>4, <2>5 DEF NothingLost, Asking, NotAbove, NotBelow
<1> QED BY <1>6, <1>7, <1>8 DEF ProbeInv, Undisturbed

LEMMA WriteKeeps ==
    ASSUME ProbeInv, WriteCache
    PROVE  ProbeInv'
<1>1. /\ tick.at = "write" /\ tick \in TickRecs /\ cached' = TRUE /\ tick' = IdleTick
      /\ cache'.tags = tick.tags /\ cache'.lastSeen = Recorded
      /\ UNCHANGED <<tagOf, epoch, onChain, refresh, unlocked, told, disturbed>>
  BY DEF WriteCache, ProbeInv, ProbeTyped
<1>2. /\ tick'.found = {} /\ tick'.seen = {} /\ tick'.tags = {} /\ tick'.at = "idle"
      /\ tick'.asking = {} /\ tick'.answered = {} /\ tick' \in TickRecs
  BY <1>1 DEF IdleTick, TickRecs
<1>3. /\ tick.found \subseteq Recorded /\ Recorded \subseteq tick.seen \cup tick.found
      /\ tick.answered # tick.tags => tick.seen \subseteq Recorded
  BY DEF Recorded
<1>4. cache' \in [tags : SUBSET Tags, lastSeen : SUBSET Cells]
  BY <1>1, <1>3 DEF WriteCache, TickRecs
<1>5. ProbeTyped'
  BY <1>1, <1>2, <1>4 DEF ProbeInv, ProbeTyped, OfAnEpoch, TagsAt, Tags
<1>6. ToldFirst' /\ AnswersAreWhole'
  BY <1>1, <1>2, <1>3 DEF ProbeInv, ToldFirst, Rung, AnswersAreWhole, Asking
<1>7. ASSUME disturbed' = 0 PROVE NothingLost'
  <2>1. NothingLost /\ tick.tags = cache.tags /\ tick.seen = cache.lastSeen
    BY <1>1, <1>7 DEF ProbeInv, Undisturbed, NothingLost, Asking
  <2>2. \A c \in Rung \cap onChain : NotBelow(c, cache.tags) => c \in Recorded
    <3> SUFFICES ASSUME NEW c \in Rung \cap onChain, NotBelow(c, cache.tags)
                 PROVE  c \in Recorded
      OBVIOUS
    <3>1. c \in Cells /\ NotAbove(c, cache.tags)
      BY <2>1 DEF Rung, NothingLost
    <3>2. c \in tick.seen \/ c \in tick.found
      BY <2>1 DEF NothingLost
    <3>3. tagOf[c] \in tick.tags
      BY <2>1, <3>1, TagsGrow DEF ProbeInv
    <3> QED BY <1>3, <3>2, <3>3 DEF ProbeInv, AnswersAreWhole
  <2> QED BY <1>1, <1>2, <2>1, <2>2 DEF NothingLost, Asking, Rung, NotAbove, NotBelow
<1> QED BY <1>5, <1>6, <1>7 DEF ProbeInv, Undisturbed

(* The other writers of the cache run undisturbed only beside no tick.     *)
LEMMA RefreshKeeps ==
    ASSUME ProbeInv, StartRefresh \/ ReadForRefresh \/ WriteTags \/ RelockProbe
    PROVE  ProbeInv'
<1>1. /\ refresh \in RefreshRecs /\ disturbed \in Nat /\ tick \in TickRecs
      /\ cache \in [tags : SUBSET Tags, lastSeen : SUBSET Cells]
  BY DEF ProbeInv, ProbeTyped
<1>2. /\ UNCHANGED <<tagOf, epoch, onChain, tick, told>>
      /\ disturbed' \in Nat /\ disturbed' >= disturbed
      /\ ~WriteTags => UNCHANGED <<cached, cache>>
  BY <1>1 DEF StartRefresh, ReadForRefresh, WriteTags, RelockProbe
<1>3. refresh' \in RefreshRecs /\ refresh'.seen \subseteq refresh.seen \cup cache.lastSeen
  BY <1>1 DEF StartRefresh, ReadForRefresh, WriteTags, RelockProbe, RefreshRecs, IdleRefresh
<1>4. CASE ~WriteTags
  <2>1. ProbeTyped'
    BY <1>2, <1>3, <1>4 DEF ProbeInv, ProbeTyped, OfAnEpoch, TagsAt, EmptyCache, Tags
  <2>2. ToldFirst' /\ AnswersAreWhole'
    BY <1>2, <1>3, <1>4 DEF ProbeInv, ToldFirst, Rung, AnswersAreWhole, Asking
  <2>3. ASSUME disturbed' = 0 PROVE NothingLost'
    <3>1. NothingLost
      BY <1>1, <1>2, <2>3 DEF ProbeInv, Undisturbed
    <3>2. /\ tick.at = "idle" \/ refresh'.at = "idle"
          /\ refresh'.at # "idle" => unlocked'
          /\ refresh'.at = "write" => refresh'.seen = cache.lastSeen
      <4>1. CASE StartRefresh
        BY <1>1, <2>3, <4>1 DEF StartRefresh, IdleRefresh
      <4>2. CASE ReadForRefresh
        BY <3>1, <4>2 DEF ReadForRefresh, NothingLost, ProbeInv, ProbeTyped, EmptyCache
      <4>3. CASE RelockProbe
        BY <3>1, <4>3 DEF RelockProbe, NothingLost
      <4> QED BY <1>4, <4>1, <4>2, <4>3
    <3> QED BY <1>2, <1>4, <3>1, <3>2 DEF NothingLost, Asking, Rung, NotAbove, NotBelow
  <2> QED BY <2>1, <2>2, <2>3 DEF ProbeInv, Undisturbed
<1>5. CASE WriteTags
  <2>1. /\ refresh.at = "write" /\ cached' = TRUE /\ refresh'.at = "idle"
        /\ cache'.tags = TagsAt(epoch) /\ cache'.lastSeen = refresh.seen
        /\ cache' \in [tags : SUBSET Tags, lastSeen : SUBSET Cells]
        /\ UNCHANGED <<unlocked, disturbed>>
    BY <1>1, <1>5, TagsAtFits DEF WriteTags, IdleRefresh, RefreshRecs, ProbeInv
  <2>2. ProbeTyped'
    BY <1>2, <1>3, <2>1, TagsAtFits DEF ProbeInv, ProbeTyped, OfAnEpoch, TagsAt, EmptyCache, Tags
  <2>3. ToldFirst' /\ AnswersAreWhole'
    BY <1>2, <1>3, <2>1 DEF ProbeInv, ToldFirst, Rung, AnswersAreWhole, Asking
  <2>4. ASSUME disturbed' = 0 PROVE NothingLost'
    <3>1. NothingLost /\ refresh.seen = cache.lastSeen /\ tick.at = "idle"
      BY <2>1, <2>4 DEF ProbeInv, Undisturbed, NothingLost
    <3>2. \A c \in Rung : NotAbove(c, TagsAt(epoch))
      BY <3>1, TagsGrow DEF ProbeInv, NothingLost, Rung
    <3>3. \A c \in Rung \cap onChain : NotBelow(c, TagsAt(epoch)) => c \in cache.lastSeen
      <4> SUFFICES ASSUME NEW c \in Rung \cap onChain, NotBelow(c, TagsAt(epoch))
                   PROVE  c \in cache.lastSeen
        OBVIOUS
      <4>1. c \in Cells /\ NotAbove(c, cache.tags)
        BY <3>1 DEF Rung, NothingLost
      <4>2. NotBelow(c, cache.tags)
        BY <4>1, TagsGrow DEF ProbeInv
      <4> QED BY <3>1, <4>2 DEF NothingLost
    <3>4. \A c \in Cells : /\ NotAbove(c, TagsAt(epoch)) <=> NotAbove(c, cache.tags)'
                           /\ NotBelow(c, TagsAt(epoch)) <=> NotBelow(c, cache.tags)'
      BY <1>2, <2>1 DEF NotAbove, NotBelow
    <3>5. Rung' = Rung /\ Rung \subseteq Cells
      BY <1>2 DEF Rung
    <3> QED BY <1>2, <2>1, <3>1, <3>2, <3>3, <3>4, <3>5 DEF NothingLost, Asking
  <2> QED BY <2>2, <2>3, <2>4 DEF ProbeInv, Undisturbed
<1> QED BY <1>4, <1>5

(* The wallet's wipe, the clock and the chain.                             *)
LEMMA OutsideKeeps ==
    ASSUME ProbeInv, ClearCache \/ EpochTurns \/ CellArrives \/ CellConsumed
    PROVE  ProbeInv'
<1>1. UNCHANGED <<tagOf, tick, refresh, unlocked, told>> /\ epoch \in 1..MaxEpoch
  BY DEF ClearCache, EpochTurns, CellArrives, CellConsumed, ProbeInv, ProbeTyped
<1>2. CASE ClearCache
  <2>1. /\ cache' = EmptyCache /\ disturbed' \in Nat /\ disturbed' # 0
        /\ UNCHANGED <<epoch, onChain>>
    BY <1>2 DEF ClearCache, ProbeInv, ProbeTyped
  <2>2. cache'.tags = {} /\ cache'.lastSeen = {}
        /\ cache' \in [tags : SUBSET Tags, lastSeen : SUBSET Cells]
    BY <2>1 DEF EmptyCache
  <2>3. ProbeTyped'
    BY <1>1, <2>1, <2>2 DEF ProbeInv, ProbeTyped, OfAnEpoch, TagsAt, EmptyCache, Tags
  <2>4. ToldFirst' /\ AnswersAreWhole'
    BY <1>1, <2>1, <2>2 DEF ProbeInv, ToldFirst, Rung, AnswersAreWhole, Asking
  <2> QED BY <2>1, <2>3, <2>4 DEF ProbeInv, Undisturbed
<1>3. CASE EpochTurns
  <2>1. /\ epoch' = epoch + 1 /\ epoch' \in 1..MaxEpoch
        /\ UNCHANGED <<onChain, cached, cache, disturbed>>
    BY <1>1, <1>3 DEF EpochTurns
  <2>2. OfAnEpoch(cache.tags)' /\ OfAnEpoch(tick.tags)'
    BY <1>1, <2>1 DEF ProbeInv, ProbeTyped, OfAnEpoch, TagsAt
  <2>3. ProbeTyped'
    BY <1>1, <2>1, <2>2 DEF ProbeInv, ProbeTyped, EmptyCache, Tags
  <2>4. ToldFirst' /\ AnswersAreWhole' /\ Undisturbed'
    BY <1>1, <2>1 DEF ProbeInv, ToldFirst, Rung, AnswersAreWhole, Asking, Undisturbed, NothingLost,
       NotAbove, NotBelow
  <2> QED BY <2>3, <2>4 DEF ProbeInv
<1>4. CASE CellArrives \/ CellConsumed
  <2>1. UNCHANGED <<epoch, cached, cache, disturbed>> /\ onChain' \subseteq Cells
        /\ Rung \cap onChain' \subseteq onChain
    BY <1>4 DEF CellArrives, CellConsumed, ProbeInv, ProbeTyped, Rung
  <2>2. ProbeTyped'
    BY <1>1, <2>1 DEF ProbeInv, ProbeTyped, OfAnEpoch, TagsAt, EmptyCache, Tags
  <2>3. ToldFirst' /\ AnswersAreWhole'
    BY <1>1, <2>1 DEF ProbeInv, ToldFirst, Rung, AnswersAreWhole, Asking
  <2>4. Undisturbed'
    BY <1>1, <2>1 DEF ProbeInv, Undisturbed, NothingLost, Rung, Asking, NotAbove, NotBelow
  <2> QED BY <2>2, <2>3, <2>4 DEF ProbeInv
<1> QED BY <1>2, <1>3, <1>4

LEMMA ProbeNextInv ==
    ASSUME ProbeInv, [ProbeNext]_probeVars
    PROVE  ProbeInv'
<1>1. CASE StartTick \/ PostFails \/ TickDies
  <2>1. TickOnly /\ disturbed \in Nat
    BY <1>1 DEF StartTick, PostFails, TickDies, TickOnly, ProbeInv, ProbeTyped
  <2>2. /\ disturbed' \in Nat /\ disturbed' >= disturbed
        /\ tick.at # "write" \/ disturbed' > 0
        /\ tick' = IdleTick \/ (tick' = [IdleTick EXCEPT !.at = "read"] /\ ~unlocked)
    BY <1>1, <2>1 DEF StartTick, PostFails, AfterRefusedPost, TickDies
  <2> QED BY <2>1, <2>2, RestKeeps
<1>2. CASE TickStep
  BY <1>2, ReadKeeps, CompareKeeps, WriteKeeps DEF TickStep
<1>3. CASE TellWaiting
  BY <1>3, TellKeeps
<1>4. CASE \E t \in Tags : Answer(t) \/ Refuse(t)
  BY <1>4, AskKeeps
<1>5. CASE StartRefresh \/ ReadForRefresh \/ WriteTags \/ RelockProbe
  BY <1>5, RefreshKeeps
<1>6. CASE ClearCache \/ EpochTurns \/ CellArrives \/ CellConsumed
  BY <1>6, OutsideKeeps
<1>7. CASE UNCHANGED probeVars
  <2>1. UNCHANGED <<tagOf, epoch, onChain, cached, cache, tick, refresh, unlocked, told, disturbed>>
    BY <1>7 DEF probeVars
  <2>2. ProbeTyped'
    BY <2>1 DEF ProbeInv, ProbeTyped, OfAnEpoch, TagsAt, EmptyCache, Tags
  <2>3. ToldFirst' /\ AnswersAreWhole' /\ Undisturbed'
    BY <2>1 DEF ProbeInv, ToldFirst, Rung, AnswersAreWhole, Asking, Undisturbed, NothingLost,
       NotAbove, NotBelow
  <2> QED BY <2>2, <2>3 DEF ProbeInv
<1> QED BY <1>1, <1>2, <1>3, <1>4, <1>5, <1>6, <1>7 DEF ProbeNext

LEMMA ProbeInitInv == ProbeInit => ProbeInv
<1> SUFFICES ASSUME ProbeInit PROVE ProbeInv
  OBVIOUS
<1>1. /\ tick.at = "idle" /\ tick.asking = {} /\ tick.answered = {} /\ tick.found = {}
      /\ tick.tags = {} /\ tick.seen = {} /\ tick \in TickRecs
      /\ refresh.at = "idle" /\ refresh.seen = {} /\ refresh \in RefreshRecs
      /\ cache.tags = {} /\ cache.lastSeen = {}
      /\ cache \in [tags : SUBSET Tags, lastSeen : SUBSET Cells]
  BY DEF ProbeInit, IdleTick, IdleRefresh, EmptyCache, TickRecs, RefreshRecs
<1>2. ProbeTyped
  BY <1>1 DEF ProbeInit, ProbeTyped, OfAnEpoch
<1>3. ToldFirst /\ AnswersAreWhole
  BY <1>1 DEF ProbeInit, ToldFirst, Rung, AnswersAreWhole, Asking
<1>4. NothingLost
  BY <1>1 DEF ProbeInit, NothingLost, Rung, Asking
<1> QED BY <1>2, <1>3, <1>4 DEF ProbeInv, Undisturbed

(* Nothing is recorded as seen that was not told of, whoever writes the    *)
(* cache when; and nobody is told of a message twice unless a tick was cut *)
(* short or ran beside another writer.                                     *)
THEOREM EachIsAnnouncedOnce == ProbeSpec => []AnnouncedOnce
<1>1. ProbeInv /\ [ProbeNext]_probeVars => ProbeInv'
  BY ProbeNextInv
<1>2. ProbeInv => AnnouncedOnce
  BY DEF ProbeInv, ToldFirst, Rung, ProbeTyped, Undisturbed, NothingLost, AnnouncedOnce, SeenWasTold,
     NoRepeat
<1> QED BY <1>1, <1>2, ProbeInitInv, PTL DEF ProbeSpec

-----------------------------------------------------------------------------
(* Bridges.                                                                *)

(* The request code of a scan is its counter, masked to eight bits: what   *)
(* tells two scans apart holds for the first 255 of a process.             *)
CodesAreDistinct == MaxCalls < 256

LEMMA LeastOfNat == ASSUME NEW S \in SUBSET Nat, S # {}
                    PROVE  \E n \in S : \A m \in S : n <= m
<1>1. PICK n \in S : \A m \in S : ~ (<<m, n>> \in OpToRel(<, Nat))
  BY NatLessThanWellFounded, WFMin
<1>2. \A m, k \in Nat : <<m, k>> \in OpToRel(<, Nat) <=> m < k
  BY DEF OpToRel
<1>3. ASSUME NEW m \in S PROVE n <= m
  <2>1. m \in Nat /\ n \in Nat
    OBVIOUS
  <2>2. ~ (m < n)
    BY <1>2, <1>1, <2>1
  <2>. QED  BY <2>1, <2>2
<1>. QED  BY <1>3

LEMMA LeastIs == ASSUME NEW S \in SUBSET Nat, S # {} PROVE Least(S) \in S
BY LeastOfNat DEF Least

(* Calls and activities.                                                   *)
CallsOrNone == 0..MaxCalls
Endings == {"nothing", "superseded", "failed", "closed", "denied", "value", "cancel"}
Replies == [CallIds -> [at : {"unused", "open", "settled"}, gives : Endings, from : CallsOrNone]]
Activities ==
    [CallIds -> [at : {"none", "asking", "scanning", "found", "finished", "delivered"},
                 gives : Endings]]

CallsTyped ==
    /\ answer \in Replies /\ activity \in Activities
    /\ results \in Seq(CallIds)
    /\ pending \in CallsOrNone /\ launching \in CallsOrNone
    /\ swapping \in [of : CallsOrNone, call : CallsOrNone]
    /\ reading \subseteq CallIds \X CallIds

(* What a result is about to be given to is what its code asks for; the    *)
(* scanner reads no images.                                                *)
ResultsAreTaken ==
    /\ swapping # NoSwap => /\ swapping.of # 0 /\ swapping.call # 0
                            /\ RequestCode(swapping.call) = RequestCode(swapping.of)
    /\ reading # {} => bridge = Picker

AnswersAreOwn ==
    bridge = Scanner => \A n \in CallIds : answer[n].from # 0 => answer[n].from = n

OpenIsUnderway == \A n \in CallIds : answer[n].at = "open" => Underway(n)

CallsInv == CallsTyped /\ ResultsAreTaken /\ AnswersAreOwn /\ OpenIsUnderway

LEMMA CallsAre == CallIds \subseteq Nat /\ CallsOrNone = CallIds \cup {0} /\ 0 \notin CallIds
BY BridgeAssumption DEF CallIds, CallsOrNone

LEMMA CodesTellApart ==
    ASSUME CodesAreDistinct, NEW m \in CallIds, NEW n \in CallIds,
           RequestCode(m) = RequestCode(n)
    PROVE  m = n
BY BridgeAssumption DEF CodesAreDistinct, CallIds, RequestCode

(* A promise is settled once, and only the one that is named.              *)
LEMMA SettledIs ==
    ASSUME NEW answers \in Replies, NEW n \in CallsOrNone, NEW gives \in Endings, NEW from \in CallsOrNone
    PROVE  /\ Settled(answers, n, gives, from) \in Replies
           /\ \A m \in CallIds :
                 /\ Settled(answers, n, gives, from)[m].at = "open" =>
                       answers[m].at = "open" /\ m # n
                 /\ \/ Settled(answers, n, gives, from)[m].from = answers[m].from
                    \/ m = n /\ Settled(answers, n, gives, from)[m].from = from
<1>. DEFINE new == Settled(answers, n, gives, from)
            r == [at |-> "settled", gives |-> gives, from |-> from]
<1>1. r \in [at : {"unused", "open", "settled"}, gives : Endings, from : CallsOrNone]
  OBVIOUS
<1>2. r.at = "settled" /\ r.from = from
  OBVIOUS
<1>3. CASE n # 0 /\ answers[n].at = "open"
  <2>1. new = [answers EXCEPT ![n] = r]
    BY <1>3 DEF Settled
  <2>2. n \in CallIds
    BY <1>3, CallsAre
  <2>. HIDE DEF new, r
  <2>3. new \in Replies
    BY <1>1, <2>1 DEF Replies
  <2>4. new[n] = r /\ \A m \in CallIds : m # n => new[m] = answers[m]
    BY <2>1, <2>2 DEF Replies
  <2>. QED  BY <1>2, <2>3, <2>4 DEF new
<1>4. CASE ~(n # 0 /\ answers[n].at = "open")
  <2>1. new = answers
    BY <1>4 DEF Settled
  <2>. HIDE DEF new
  <2>2. \A m \in CallIds : answers[m].at = "open" => m # n
    BY <1>4, CallsAre
  <2>. QED  BY <2>1, <2>2 DEF new
<1>. QED  BY <1>3, <1>4

LEMMA UnusedIs ==
    ASSUME CallsInv, Unused # {}, NEW n, n = Least(Unused)
    PROVE  /\ n \in CallIds /\ Opened(n) \in Replies
           /\ \A m \in CallIds : /\ Opened(n)[m].at = "open" => m = n \/ answer[m].at = "open"
                                 /\ Opened(n)[m].from = answer[m].from
<1>1. n \in CallIds
  BY LeastIs, CallsAre DEF Unused
<1>2. answer \in Replies /\ Opened(n) = [answer EXCEPT ![n].at = "open"]
  BY DEF CallsInv, CallsTyped, Opened
<1>3. Opened(n) = [answer EXCEPT ![n] = [answer[n] EXCEPT !.at = "open"]]
  BY <1>1, <1>2
<1>4. /\ [answer[n] EXCEPT !.at = "open"]
            \in [at : {"unused", "open", "settled"}, gives : Endings, from : CallsOrNone]
      /\ [answer[n] EXCEPT !.at = "open"].from = answer[n].from
  BY <1>1, <1>2 DEF Replies
<1>5. Opened(n) \in Replies
  BY <1>1, <1>2, <1>3, <1>4 DEF Replies
<1>6. \A m \in CallIds : /\ Opened(n)[m].at = "open" => m = n \/ answer[m].at = "open"
                         /\ Opened(n)[m].from = answer[m].from
  BY <1>1, <1>2, <1>3, <1>4 DEF Replies
<1>. QED  BY <1>1, <1>5, <1>6

(* What an activity shows, or a record of it that finished.                *)
LEMMA ActivityIs ==
    ASSUME CallsTyped, NEW n \in CallIds, NEW r \in [at : {"none", "asking", "scanning", "found",
                                                        "finished", "delivered"},
                                                  gives : Endings],
           activity' = [activity EXCEPT ![n] = r]
    PROVE  /\ activity' \in Activities /\ activity'[n] = r
           /\ \A m \in CallIds : m # n => activity'[m] = activity[m]
BY DEF CallsTyped, Activities

-----------------------------------------------------------------------------
LEMMA CallStays ==
    ASSUME CallsInv, UNCHANGED <<bridge, answer, activity, results, pending, launching>>,
           UNCHANGED <<swapping, reading>>
    PROVE  CallsInv'
BY DEF CallsInv, CallsTyped, ResultsAreTaken, AnswersAreOwn, OpenIsUnderway, Underway

LEMMA InstallKeeps == ASSUME CallsInv, Install PROVE CallsInv'
<1>. DEFINE n == Least(Unused)
<1>1. /\ Unused # {} /\ pending' = n /\ launching' = n
      /\ answer' = Settled(Opened(n), pending, "superseded", 0)
      /\ UNCHANGED <<bridge, activity, results>> /\ UNCHANGED <<swapping, reading>>
  BY DEF Install
<1>2. /\ n \in CallIds /\ Opened(n) \in Replies
      /\ \A m \in CallIds : /\ Opened(n)[m].at = "open" => m = n \/ answer[m].at = "open"
                            /\ Opened(n)[m].from = answer[m].from
  BY <1>1, UnusedIs
<1>. HIDE DEF n
<1>3. pending \in CallsOrNone /\ "superseded" \in Endings /\ 0 \in CallsOrNone
  BY CallsAre DEF CallsInv, CallsTyped, Endings
<1>4. /\ answer' \in Replies
      /\ \A m \in CallIds : /\ answer'[m].at = "open" =>
                                  m # pending /\ (m = n \/ answer[m].at = "open")
                            /\ answer'[m].from \in {0, answer[m].from}
  BY <1>1, <1>2, <1>3, SettledIs
<1>5. CallsTyped'
  BY <1>1, <1>2, <1>4, CallsAre DEF CallsInv, CallsTyped
<1>6. ResultsAreTaken' /\ AnswersAreOwn'
  BY <1>1, <1>4 DEF CallsInv, ResultsAreTaken, AnswersAreOwn
<1>7. OpenIsUnderway'
  BY <1>1, <1>4 DEF CallsInv, OpenIsUnderway, Underway
<1>. QED  BY <1>5, <1>6, <1>7 DEF CallsInv

LEMMA NoActivityKeeps == ASSUME CallsInv, NoActivity PROVE CallsInv'
<1>. DEFINE n == Least(Unused)
<1>1. /\ Unused # {} /\ answer' = Settled(Opened(n), n, "failed", 0)
      /\ UNCHANGED <<bridge, activity, results, pending, launching>>
      /\ UNCHANGED <<swapping, reading>>
  BY DEF NoActivity
<1>2. /\ n \in CallIds /\ Opened(n) \in Replies
      /\ \A m \in CallIds : /\ Opened(n)[m].at = "open" => m = n \/ answer[m].at = "open"
                            /\ Opened(n)[m].from = answer[m].from
  BY <1>1, UnusedIs
<1>. HIDE DEF n
<1>3. n \in CallsOrNone /\ "failed" \in Endings /\ 0 \in CallsOrNone
  BY <1>2, CallsAre DEF Endings
<1>4. /\ answer' \in Replies
      /\ \A m \in CallIds : /\ answer'[m].at = "open" => answer[m].at = "open"
                            /\ answer'[m].from \in {0, answer[m].from}
  BY <1>1, <1>2, <1>3, SettledIs
<1>5. CallsTyped'
  BY <1>1, <1>4 DEF CallsInv, CallsTyped
<1>6. ResultsAreTaken' /\ AnswersAreOwn'
  BY <1>1, <1>4 DEF CallsInv, ResultsAreTaken, AnswersAreOwn
<1>7. OpenIsUnderway'
  BY <1>1, <1>4 DEF CallsInv, OpenIsUnderway, Underway
<1>. QED  BY <1>5, <1>6, <1>7 DEF CallsInv

LEMMA LaunchKeeps == ASSUME CallsInv, LaunchActivity \/ LaunchFails PROVE CallsInv'
<1>. USE DEF CallsInv
<1>0. launching # 0 /\ launching \in CallIds
  BY CallsAre DEF LaunchActivity, LaunchFails, CallsTyped
<1>1. CASE LaunchActivity
  <2>. DEFINE r == [activity[launching] EXCEPT !.at = IF bridge = Scanner THEN "asking" ELSE "scanning"]
  <2>1. /\ launching' = 0 /\ UNCHANGED <<bridge, answer, results, pending>>
        /\ UNCHANGED <<swapping, reading>>
        /\ activity' = [activity EXCEPT ![launching] = r]
    BY <1>0, <1>1 DEF LaunchActivity, CallsTyped, Activities
  <2>2. /\ r \in [at : {"none", "asking", "scanning", "found", "finished", "delivered"},
                  gives : Endings]
        /\ r.at \in {"asking", "scanning"}
    BY <1>0 DEF CallsTyped, Activities
  <2>. HIDE DEF r
  <2>3. /\ activity' \in Activities /\ activity'[launching] = r
        /\ \A m \in CallIds : m # launching => activity'[m] = activity[m]
    BY <1>0, <2>1, <2>2, ActivityIs
  <2>4. CallsTyped'
    BY <2>1, <2>3, CallsAre DEF CallsTyped
  <2>5. ResultsAreTaken' /\ AnswersAreOwn'
    BY <2>1 DEF ResultsAreTaken, AnswersAreOwn
  <2>6. OpenIsUnderway'
    BY <2>1, <2>2, <2>3 DEF OpenIsUnderway, Underway
  <2>. QED  BY <2>4, <2>5, <2>6
<1>2. CASE LaunchFails
  <2>1. /\ launching' = 0 /\ pending' = (IF pending = launching THEN 0 ELSE pending)
        /\ answer' = Settled(answer, launching, "failed", 0)
        /\ UNCHANGED <<bridge, activity, results>> /\ UNCHANGED <<swapping, reading>>
    BY <1>2 DEF LaunchFails
  <2>2. launching \in CallsOrNone /\ "failed" \in Endings /\ 0 \in CallsOrNone /\ answer \in Replies
    BY CallsAre DEF CallsTyped, Endings
  <2>3. /\ answer' \in Replies
        /\ \A m \in CallIds : /\ answer'[m].at = "open" => answer[m].at = "open" /\ m # launching
                              /\ answer'[m].from \in {0, answer[m].from}
    BY <2>1, <2>2, SettledIs
  <2>4. CallsTyped'
    BY <2>1, <2>2, <2>3 DEF CallsTyped
  <2>5. ResultsAreTaken' /\ AnswersAreOwn'
    BY <2>1, <2>3 DEF ResultsAreTaken, AnswersAreOwn
  <2>6. OpenIsUnderway'
    BY <2>1, <2>3 DEF OpenIsUnderway, Underway
  <2>. QED  BY <2>4, <2>5, <2>6
<1>. QED  BY <1>1, <1>2

LEMMA ActivityKeeps == ASSUME CallsInv, NEW n \in CallIds, ActivityStep(n) PROVE CallsInv'
<1>. USE DEF CallsInv
<1>1. /\ UNCHANGED <<bridge, answer, pending, launching>> /\ UNCHANGED <<swapping, reading>>
      /\ activity[n].at \in {"asking", "scanning", "found"}
      /\ \/ \E at \in {"scanning", "found"} : Shows(n, at)
         \/ \E gives \in Endings : Finish(n, gives)
  BY DEF ActivityStep, PermissionAnswered, FrameDecodes, FinishWith, Cancelled, Picked, Endings
<1>2. activity \in Activities /\ results \in Seq(CallIds)
  BY DEF CallsTyped
<1>3. PICK r \in [at : {"none", "asking", "scanning", "found", "finished", "delivered"},
                  gives : Endings] :
         /\ activity' = [activity EXCEPT ![n] = r]
         /\ r.at \in {"scanning", "found", "finished"}
  <2>1. ASSUME NEW at \in {"scanning", "found"}, Shows(n, at)
        PROVE  \E r \in [at : {"none", "asking", "scanning", "found", "finished", "delivered"},
                         gives : Endings] :
                  /\ activity' = [activity EXCEPT ![n] = r]
                  /\ r.at \in {"scanning", "found", "finished"}
    <3>. DEFINE r == [activity[n] EXCEPT !.at = at]
    <3>1. activity' = [activity EXCEPT ![n] = r]
      BY <1>2, <2>1 DEF Shows, Activities
    <3>2. /\ r \in [at : {"none", "asking", "scanning", "found", "finished", "delivered"},
                    gives : Endings]
          /\ r.at = at
      BY <1>2 DEF Activities
    <3>. QED  BY <3>1, <3>2
  <2>2. ASSUME NEW gives \in Endings, Finish(n, gives)
        PROVE  \E r \in [at : {"none", "asking", "scanning", "found", "finished", "delivered"},
                         gives : Endings] :
                  /\ activity' = [activity EXCEPT ![n] = r]
                  /\ r.at \in {"scanning", "found", "finished"}
    <3>. DEFINE r == [at |-> "finished", gives |-> gives]
    <3>1. activity' = [activity EXCEPT ![n] = r]
      BY <2>2 DEF Finish
    <3>2. /\ r \in [at : {"none", "asking", "scanning", "found", "finished", "delivered"},
                    gives : Endings]
          /\ r.at = "finished"
      OBVIOUS
    <3>. QED  BY <3>1, <3>2
  <2>. QED  BY <1>1, <2>1, <2>2
<1>4. results' \in Seq(CallIds)
  BY <1>1, <1>2, AppendProperties DEF Shows, Finish
<1>5. /\ activity' \in Activities /\ activity'[n] = r
      /\ \A m \in CallIds : m # n => activity'[m] = activity[m]
  BY <1>3, ActivityIs
<1>6. CallsTyped'
  BY <1>1, <1>4, <1>5 DEF CallsTyped
<1>7. ResultsAreTaken' /\ AnswersAreOwn'
  BY <1>1 DEF ResultsAreTaken, AnswersAreOwn
<1>8. OpenIsUnderway'
  BY <1>1, <1>3, <1>5 DEF OpenIsUnderway, Underway
<1>. QED  BY <1>6, <1>7, <1>8

(* The results, one after another on the main thread.                      *)

LEMMA HeadIs ==
    ASSUME CallsTyped, results # <<>>, NEW n, n = Head(results)
    PROVE  /\ n \in CallIds /\ Tail(results) \in Seq(CallIds)
           /\ [activity[n] EXCEPT !.at = "delivered"]
                 \in [at : {"none", "asking", "scanning", "found", "finished", "delivered"},
                      gives : Endings]
           /\ Delivered(n) = [activity EXCEPT ![n] = [activity[n] EXCEPT !.at = "delivered"]]
<1>1. n \in CallIds /\ Tail(results) \in Seq(CallIds)
  BY HeadTailProperties DEF CallsTyped
<1>2. activity \in Activities
  BY DEF CallsTyped
<1>3. Delivered(n) = [activity EXCEPT ![n] = [activity[n] EXCEPT !.at = "delivered"]]
  BY <1>1, <1>2 DEF Activities, Delivered
<1>4. [activity[n] EXCEPT !.at = "delivered"]
         \in [at : {"none", "asking", "scanning", "found", "finished", "delivered"},
             gives : Endings]
  BY <1>1, <1>2 DEF Activities
<1>. QED  BY <1>1, <1>3, <1>4

LEMMA ReadPendingKeeps == ASSUME CallsInv, ReadPending PROVE CallsInv'
<1>. USE DEF CallsInv
<1>. DEFINE n == Head(results)
<1>1. /\ results # <<>> /\ results' = Tail(results) /\ activity' = Delivered(n)
      /\ UNCHANGED <<bridge, answer, pending, launching, reading>> /\ swapping = NoSwap
      /\ swapping' = IF TakesResult(pending, n) THEN [of |-> n, call |-> pending] ELSE NoSwap
  BY DEF ReadPending
<1>. HIDE DEF n
<1>2. /\ n \in CallIds /\ results' \in Seq(CallIds) /\ activity' \in Activities
      /\ \A m \in CallIds : m # n => activity'[m] = activity[m]
  <2>. DEFINE r == [activity[n] EXCEPT !.at = "delivered"]
  <2>1. /\ n \in CallIds /\ results' \in Seq(CallIds)
        /\ r \in [at : {"none", "asking", "scanning", "found", "finished", "delivered"},
                 gives : Endings]
        /\ activity' = [activity EXCEPT ![n] = r]
    BY <1>1, HeadIs DEF n
  <2>. HIDE DEF r
  <2>. QED  BY <2>1, ActivityIs
<1>3. /\ n \in CallsOrNone /\ n # 0 /\ pending \in CallsOrNone
  BY <1>2, CallsAre DEF CallsTyped
<1>4. NoSwap \in [of : CallsOrNone, call : CallsOrNone] /\ NoSwap.call = 0
  BY CallsAre DEF NoSwap
<1>5. swapping' \in [of : CallsOrNone, call : CallsOrNone]
  BY <1>1, <1>3, <1>4
<1>6. /\ TakesResult(pending, n) => /\ swapping'.of = n /\ swapping'.call = pending
                                    /\ pending # 0 /\ RequestCode(pending) = RequestCode(n)
      /\ ~TakesResult(pending, n) => swapping' = NoSwap
      /\ pending = n => TakesResult(pending, n)
  BY <1>1, <1>3 DEF TakesResult
<1>7. CallsTyped'
  BY <1>1, <1>2, <1>5 DEF CallsTyped
<1>8. ResultsAreTaken' /\ AnswersAreOwn'
  BY <1>1, <1>3, <1>6 DEF ResultsAreTaken, AnswersAreOwn
<1>9. OpenIsUnderway'
  <2>. SUFFICES ASSUME NEW m \in CallIds, answer[m].at = "open", Underway(m) PROVE Underway(m)'
    BY <1>1 DEF OpenIsUnderway
  <2>1. swapping.call # m
    BY <1>1, <1>4, CallsAre
  <2>. QED  BY <1>1, <1>2, <1>6, <2>1 DEF Underway
<1>. QED  BY <1>7, <1>8, <1>9

LEMMA SwapKeeps == ASSUME CallsInv, CodesAreDistinct, SwapAndSettle PROVE CallsInv'
<1>. USE DEF CallsInv
<1>1. /\ swapping # NoSwap /\ swapping' = NoSwap
      /\ UNCHANGED <<bridge, activity, results, launching, reading>>
      /\ \/ /\ pending = swapping.call /\ pending' = 0
            /\ answer' = Settled(answer, swapping.call, activity[swapping.of].gives, swapping.of)
         \/ pending # swapping.call /\ UNCHANGED <<pending, answer>>
  BY DEF SwapAndSettle
<1>2. /\ swapping.of \in CallIds /\ swapping.call \in CallIds /\ swapping.of = swapping.call
  <2>1. swapping.of \in CallIds /\ swapping.call \in CallIds
    BY <1>1, CallsAre DEF CallsTyped, ResultsAreTaken
  <2>. QED  BY <1>1, <2>1, CodesTellApart DEF ResultsAreTaken
<1>3. /\ answer \in Replies /\ activity[swapping.of].gives \in Endings
      /\ swapping.of \in CallsOrNone /\ swapping.call \in CallsOrNone
  BY <1>2, CallsAre DEF CallsTyped, Activities
<1>4. /\ answer' \in Replies
      /\ \A m \in CallIds : /\ answer'[m].at = "open" => answer[m].at = "open"
                            /\ pending = swapping.call => (answer'[m].at = "open" => m # pending)
                            /\ answer'[m].from = answer[m].from \/ answer'[m].from = m
  <2>1. CASE pending = swapping.call
    BY <1>1, <1>2, <1>3, <2>1, SettledIs
  <2>2. CASE pending # swapping.call
    BY <1>1, <1>3, <2>2
  <2>. QED  BY <2>1, <2>2
<1>5. NoSwap \in [of : CallsOrNone, call : CallsOrNone] /\ pending' \in CallsOrNone
  BY <1>1, CallsAre DEF NoSwap, CallsTyped
<1>6. CallsTyped'
  BY <1>1, <1>4, <1>5 DEF CallsTyped
<1>7. ResultsAreTaken' /\ AnswersAreOwn'
  BY <1>1, <1>4 DEF ResultsAreTaken, AnswersAreOwn
<1>8. OpenIsUnderway'
  <2>. SUFFICES ASSUME NEW m \in CallIds, answer'[m].at = "open" PROVE Underway(m)'
    BY DEF OpenIsUnderway
  <2>1. Underway(m)
    BY <1>4 DEF OpenIsUnderway
  <2>. QED  BY <1>1, <1>4, <2>1 DEF Underway
<1>. QED  BY <1>6, <1>7, <1>8

LEMMA TakePickedKeeps == ASSUME CallsInv, TakePicked PROVE CallsInv'
<1>. USE DEF CallsInv
<1>. DEFINE n == Head(results)
<1>1. /\ results # <<>> /\ results' = Tail(results) /\ activity' = Delivered(n)
      /\ pending' = 0 /\ bridge = Picker
      /\ UNCHANGED <<bridge, launching, swapping>>
      /\ \/ pending # 0 /\ reading' = reading \cup {<<pending, n>>} /\ answer' = answer
         \/ answer' = Settled(answer, pending, "cancel", n) /\ reading' = reading
  BY DEF TakePicked
<1>. HIDE DEF n
<1>2. /\ n \in CallIds /\ results' \in Seq(CallIds) /\ activity' \in Activities
  BY <1>1, HeadIs, ActivityIs DEF n
<1>3. /\ answer \in Replies /\ pending \in CallsOrNone /\ "cancel" \in Endings
      /\ n \in CallsOrNone /\ 0 \in CallsOrNone
  BY <1>2, CallsAre DEF CallsTyped, Endings
<1>4. /\ answer' \in Replies
      /\ \A m \in CallIds :
            answer'[m].at = "open" => answer[m].at = "open" /\ (m # pending \/ <<m, n>> \in reading')
  BY <1>1, <1>3, SettledIs
<1>5. reading \subseteq reading' /\ reading' \subseteq CallIds \X CallIds
  BY <1>1, <1>2, <1>3, CallsAre DEF CallsTyped
<1>6. CallsTyped'
  BY <1>1, <1>2, <1>3, <1>4, <1>5 DEF CallsTyped
<1>7. ResultsAreTaken' /\ AnswersAreOwn'
  BY <1>1 DEF ResultsAreTaken, AnswersAreOwn, Picker, Scanner
<1>8. OpenIsUnderway'
  <2>. SUFFICES ASSUME NEW m \in CallIds, answer'[m].at = "open" PROVE Underway(m)'
    BY DEF OpenIsUnderway
  <2>1. Underway(m)
    BY <1>4 DEF OpenIsUnderway
  <2>2. \E r \in reading' : r[1] = m
    BY <1>4, <1>5, <2>1 DEF Underway
  <2>. QED  BY <2>2 DEF Underway
<1>. QED  BY <1>6, <1>7, <1>8

LEMMA ReadBytesKeeps == ASSUME CallsInv, ReadAllBytes PROVE CallsInv'
<1>. USE DEF CallsInv
<1>1. PICK r \in reading, gives \in {"value", "failed"} :
         /\ answer' = Settled(answer, r[1], gives, r[2]) /\ reading' = reading \ {r}
         /\ UNCHANGED <<bridge, activity, results, pending, launching>> /\ UNCHANGED swapping
  BY DEF ReadAllBytes
<1>2. /\ r[1] \in CallsOrNone /\ r[2] \in CallsOrNone /\ gives \in Endings /\ answer \in Replies
  BY CallsAre DEF CallsTyped, Endings
<1>3. /\ answer' \in Replies
      /\ \A m \in CallIds : answer'[m].at = "open" => answer[m].at = "open" /\ m # r[1]
  BY <1>1, <1>2, SettledIs
<1>4. CallsTyped'
  BY <1>1, <1>3 DEF CallsTyped
<1>5. ResultsAreTaken' /\ AnswersAreOwn'
  BY <1>1 DEF ResultsAreTaken, AnswersAreOwn, Picker, Scanner
<1>6. OpenIsUnderway'
  BY <1>1, <1>3 DEF OpenIsUnderway, Underway
<1>. QED  BY <1>4, <1>5, <1>6

LEMMA InvalidateKeeps == ASSUME CallsInv, Invalidate PROVE CallsInv'
<1>. USE DEF CallsInv
<1>1. /\ answer' = Settled(answer, pending, "closed", 0) /\ pending' = 0
      /\ UNCHANGED <<bridge, activity, results, launching>> /\ UNCHANGED <<swapping, reading>>
  BY DEF Invalidate
<1>2. /\ answer \in Replies /\ pending \in CallsOrNone /\ "closed" \in Endings /\ 0 \in CallsOrNone
  BY CallsAre DEF CallsTyped, Endings
<1>3. /\ answer' \in Replies
      /\ \A m \in CallIds : /\ answer'[m].at = "open" => answer[m].at = "open" /\ m # pending
                            /\ answer'[m].from \in {0, answer[m].from}
  BY <1>1, <1>2, SettledIs
<1>4. CallsTyped'
  BY <1>1, <1>2, <1>3 DEF CallsTyped
<1>5. ResultsAreTaken' /\ AnswersAreOwn'
  BY <1>1, <1>3 DEF ResultsAreTaken, AnswersAreOwn
<1>6. OpenIsUnderway'
  BY <1>1, <1>3 DEF OpenIsUnderway, Underway
<1>. QED  BY <1>4, <1>5, <1>6

-----------------------------------------------------------------------------
(* The codec: a handle names the bitmap that was made for it, so that no   *)
(* recycled bitmap has a name; the pipeline tracks every handle it made.   *)
BitmapsInv ==
    /\ job.made \in Nat /\ job.tracked \subseteq Nat /\ badRelease \in Nat
    /\ job = [at |-> job.at, step |-> job.step, made |-> job.made, small |-> job.small,
              fits |-> job.fits, tracked |-> job.tracked]
    /\ \A h \in DOMAIN bitmaps : bitmaps[h] = h
    /\ recycled = {}
    /\ job.tracked \subseteq DOMAIN bitmaps
    /\ badRelease = 0 => DOMAIN bitmaps = job.tracked
    /\ job.at \in {"idle", "decode", "done"} => job.tracked = {}

LEMMA BitmapsStay ==
    ASSUME BitmapsInv, UNCHANGED <<bitmaps, recycled, job, badRelease>>
    PROVE  BitmapsInv'
BY DEF BitmapsInv

(* A step of the pipeline that makes no bitmap.                            *)
LEMMA JobMoves ==
    ASSUME BitmapsInv, UNCHANGED <<bitmaps, recycled, badRelease>>,
           job' = [at |-> job'.at, step |-> job'.step, made |-> job'.made, small |-> job'.small,
                   fits |-> job'.fits, tracked |-> job'.tracked],
           job'.made = job.made, job'.tracked = job.tracked,
           job'.at \in {"idle", "decode", "done"} => job.tracked = {}
    PROVE  BitmapsInv'
BY DEF BitmapsInv

(* One that makes one.                                                     *)
LEMMA JobStores ==
    ASSUME BitmapsInv, Store(NewHandle), UNCHANGED <<recycled, badRelease>>,
           job' = [at |-> job'.at, step |-> job'.step, made |-> job'.made, small |-> job'.small,
                   fits |-> job'.fits, tracked |-> job'.tracked],
           job'.made = job.made + 1, job'.tracked = job.tracked \cup {NewHandle},
           job'.at \notin {"idle", "decode", "done"}
    PROVE  BitmapsInv'
BY DEF BitmapsInv, Store, NewHandle

LEMMA JobKeeps == ASSUME BitmapsInv, JobStep PROVE BitmapsInv'
<1>. DEFINE Whole(j) == j = [at |-> j.at, step |-> j.step, made |-> j.made, small |-> j.small,
                             fits |-> j.fits, tracked |-> j.tracked]
<1>0. UNCHANGED <<recycled, badRelease>> /\ Whole(job)
  BY DEF JobStep, BitmapsInv
<1>1. ASSUME NEW at, Goto(at), UNCHANGED bitmaps,
             at \in {"idle", "decode", "done"} => job.tracked = {}
      PROVE  BitmapsInv'
  <2>1. job' = [job EXCEPT !.at = at]
    BY <1>1 DEF Goto
  <2>2. Whole(job') /\ job'.made = job.made /\ job'.tracked = job.tracked /\ job'.at = at
    BY <1>0, <2>1
  <2>. QED  BY <1>0, <1>1, <2>2, JobMoves
<1>2. CASE StartJob
  BY <1>1, <1>2 DEF StartJob, BitmapsInv
<1>3. CASE Decode
  BY <1>0, <1>1, <1>3, JobStores DEF Decode, Fails, Tracked
<1>4. CASE Resize
  BY <1>0, <1>1, <1>4, JobStores DEF Resize, Fails, Tracked, Scaled
<1>5. CASE Encode
  BY <1>0, <1>1, <1>5, JobMoves DEF Encode
<1>6. CASE Thumbnail
  BY <1>0, <1>1, <1>6, JobStores DEF Thumbnail, Fails, Tracked, Scaled
<1>7. CASE EncodeThumbnail
  BY <1>1, <1>7 DEF EncodeThumbnail
<1>. QED  BY <1>2, <1>3, <1>4, <1>5, <1>6, <1>7 DEF JobStep

LEMMA ReleaseKeeps == ASSUME BitmapsInv, ReleaseHandle \/ AllReleased PROVE BitmapsInv'
<1>1. CASE ReleaseHandle
  <2>. DEFINE h == Least(job.tracked)
  <2>1. /\ job.at = "release" /\ job.tracked # {}
        /\ job' = [job EXCEPT !.tracked = job.tracked \ {h}]
        /\ \/ /\ bitmaps' = Without(h)
              /\ recycled' = StillNamed(recycled \cup {bitmaps[h]}, Without(h))
              /\ badRelease' = badRelease
           \/ badRelease' = badRelease + 1 /\ UNCHANGED <<bitmaps, recycled>>
    BY <1>1 DEF ReleaseHandle
  <2>2. h \in job.tracked
    BY <2>1, LeastIs DEF BitmapsInv
  <2>. HIDE DEF h
  <2>3. /\ job'.made = job.made /\ job'.tracked = job.tracked \ {h} /\ job'.at = "release"
        /\ job' = [at |-> job'.at, step |-> job'.step, made |-> job'.made, small |-> job'.small,
                   fits |-> job'.fits, tracked |-> job'.tracked]
    BY <2>1 DEF BitmapsInv
  <2>4. CASE badRelease' = badRelease + 1 /\ UNCHANGED <<bitmaps, recycled>>
    BY <2>3, <2>4 DEF BitmapsInv
  <2>5. CASE /\ bitmaps' = Without(h) /\ badRelease' = badRelease
             /\ recycled' = StillNamed(recycled \cup {bitmaps[h]}, Without(h))
    <3>1. /\ DOMAIN Without(h) = DOMAIN bitmaps \ {h}
          /\ \A g \in DOMAIN bitmaps \ {h} : Without(h)[g] = g
      BY DEF Without, BitmapsInv
    <3>2. recycled = {} /\ bitmaps[h] = h
      BY <2>2 DEF BitmapsInv
    <3>3. recycled' = {}
      BY <2>5, <3>1, <3>2 DEF StillNamed
    <3>. QED  BY <2>3, <2>5, <3>1, <3>3 DEF BitmapsInv
  <2>. QED  BY <2>1, <2>4, <2>5
<1>2. CASE AllReleased
  <2>1. /\ job' = [job EXCEPT !.at = "done"] /\ job.tracked = {}
        /\ UNCHANGED <<bitmaps, recycled, badRelease>>
    BY <1>2 DEF AllReleased, Goto
  <2>2. /\ job'.made = job.made /\ job'.tracked = job.tracked
        /\ job' = [at |-> job'.at, step |-> job'.step, made |-> job'.made, small |-> job'.small,
                   fits |-> job'.fits, tracked |-> job'.tracked]
    BY <2>1 DEF BitmapsInv
  <2>. QED  BY <2>1, <2>2, JobMoves
<1>. QED  BY <1>1, <1>2

-----------------------------------------------------------------------------
BridgeInv == CallsInv /\ BitmapsInv

LEMMA BridgeStarts == BridgeInit => BridgeInv
<1>. SUFFICES ASSUME BridgeInit PROVE BridgeInv
  OBVIOUS
<1>. USE DEF BridgeInit
<1>1. CallsTyped
  BY CallsAre, EmptySeq DEF CallsTyped, Replies, Activities, Endings, Closed, NoSwap
<1>2. ResultsAreTaken /\ AnswersAreOwn /\ OpenIsUnderway
  BY DEF ResultsAreTaken, AnswersAreOwn, OpenIsUnderway
<1>3. BitmapsInv
  BY DEF BitmapsInv, IdleJob
<1>. QED  BY <1>1, <1>2, <1>3 DEF BridgeInv, CallsInv

LEMMA BridgeNextKeeps ==
    ASSUME CodesAreDistinct, BridgeInv, [BridgeNext]_bridgeVars
    PROVE  BridgeInv'
<1>. USE DEF BridgeInv
<1>1. ASSUME UNCHANGED <<bridge, activityVars>> PROVE CallsInv'
  <2>1. /\ UNCHANGED <<bridge, answer, activity, results, pending, launching>>
        /\ UNCHANGED <<swapping, reading>>
    BY <1>1 DEF activityVars
  <2>. QED  BY <2>1, CallStays
<1>2. ASSUME UNCHANGED codecVars PROVE BitmapsInv'
  BY <1>2, BitmapsStay DEF codecVars
<1>3. CASE UNCHANGED bridgeVars
  BY <1>1, <1>2, <1>3 DEF bridgeVars
<1>4. CASE Install
  BY <1>2, <1>4, InstallKeeps DEF Install
<1>5. CASE NoActivity
  BY <1>2, <1>5, NoActivityKeeps DEF NoActivity
<1>6. CASE LaunchActivity \/ LaunchFails
  BY <1>2, <1>6, LaunchKeeps DEF LaunchActivity, LaunchFails
<1>7. ASSUME NEW n \in CallIds, ActivityStep(n) PROVE BridgeInv'
  BY <1>2, <1>7, ActivityKeeps DEF ActivityStep
<1>8. CASE ReadPending
  BY <1>2, <1>8, ReadPendingKeeps DEF ReadPending
<1>9. CASE SwapAndSettle
  BY <1>2, <1>9, SwapKeeps DEF SwapAndSettle
<1>10. CASE TakePicked
  BY <1>2, <1>10, TakePickedKeeps DEF TakePicked
<1>11. CASE ReadAllBytes
  BY <1>2, <1>11, ReadBytesKeeps DEF ReadAllBytes
<1>12. CASE Invalidate
  BY <1>2, <1>12, InvalidateKeeps DEF Invalidate
<1>13. CASE JobStep
  BY <1>1, <1>13, JobKeeps DEF JobStep
<1>14. CASE ReleaseHandle \/ AllReleased
  BY <1>1, <1>14, ReleaseKeeps DEF ReleaseHandle, AllReleased
<1>. QED  BY <1>3, <1>4, <1>5, <1>6, <1>7, <1>8, <1>9, <1>10, <1>11, <1>12, <1>13, <1>14
          DEF BridgeNext

(* A scan is answered with what its own activity saw, no promise is left   *)
(* that nobody will settle, and a handle never names a recycled bitmap;    *)
(* scans that are 256 apart share a request code, so this is for a process *)
(* that makes fewer (CempQrScannerModule.kt:33-41, 97-159;                 *)
(* CempImagePickerModule.kt:47-60; CempImageCodecModule.kt:75-85).         *)
THEOREM PromisesAreKept ==
    ASSUME CodesAreDistinct
    PROVE  BridgeSpec => []BridgesKeepTheirPromises
<1>1. BridgeInv /\ [BridgeNext]_bridgeVars => BridgeInv'
  BY BridgeNextKeeps
<1>2. BridgeInv => BridgesKeepTheirPromises
  BY DEF BridgeInv, CallsInv, AnswersAreOwn, OpenIsUnderway, BitmapsInv, BridgesKeepTheirPromises
<1>. QED  BY <1>1, <1>2, BridgeStarts, PTL DEF BridgeSpec

-----------------------------------------------------------------------------
(* The session.                                                            *)

USE SessionAssumption

Wiping == {"delfile", "delkey", "delkeystore"}

FlowOps == {"none", "create", "password", "biometric", "reset", "wipe"}
FlowRecs == [op : FlowOps, at : FlowLabels, read : 0..MaxWallets]
ToggleRecs == [at : {"idle", "readfile", "prompt"}, on : BOOLEAN,
               read : 0..MaxWallets, blob : 0..MaxWallets]

Amounts ==
    /\ vaultFile \in 0..MaxWallets /\ bioSlot \in 0..MaxWallets /\ live \in 0..MaxWallets
    /\ dbFile \in Keys /\ dbKey \in Keys /\ handle \in Keys
    /\ wallets \in 0..MaxWallets

Typed == Amounts /\ flow \in FlowRecs /\ toggle \in ToggleRecs

(* A live key is the stored wallet's, and only an unlocked vault has one.  *)
KeyIsLive ==
    /\ live \in {0, vaultFile}
    /\ vaultState # "unlocked" => live = 0 /\ dbKey = 0

(* What the flow has made sure of before it is at its label.               *)
FlowKnows ==
    /\ flow.at \in {"exists", "wrap", "writefile"} => wallets < MaxWallets
    /\ flow.at \in {"wrap", "writefile"} => vaultFile = 0
    /\ flow.at = "kdf" => flow.read = vaultFile
    /\ flow.at = "destroy" => handle = 0
    /\ flow.at \in Wiping => live = 0 /\ dbKey = 0 /\ handle = 0 /\ dbFile = 0

(* The slot behind an open prompt wraps the key of the file that was read. *)
PromptKnows == toggle.at = "prompt" => toggle.read # 0 /\ toggle.blob \in {0, toggle.read}

(* The vault lends its key out once and zeroes it: a second open under the *)
(* zeroed buffer is possible only after the data was reset.  Until then a  *)
(* handle was opened under the stored wallet's key.                        *)
HandleIsWallets ==
    /\ ~wasReset => handle \in {0, vaultFile}
    /\ flow.at = "open" /\ handle = 0 /\ dbKey # 0 => wasReset
    /\ appState = "uninitialized" /\ dbKey # 0 => handle # 0
    /\ closing => dbKey = 0 /\ (handle = 0 => flow.at = "destroy")

Whole == /\ Typed /\ KeyIsLive /\ FlowKnows /\ PromptKnows /\ HandleIsWallets
         /\ BiometricOpensItsWallet /\ DatabaseIsTheWallets

-----------------------------------------------------------------------------
LEMMA LabelsAre == {"idle", "exists", "wrap", "writefile", "writekey", "readfile", "kdf", "decrypt",
                 "open", "migrate", "init", "destroy", "delfile", "delkey", "delkeystore"}
                  = FlowLabels
BY DEF FlowLabels

(* What the ways to move a flow leave.                                     *)
LEMMA FlowShapes ==
    ASSUME flow \in FlowRecs
    PROVE  /\ IdleToggle \in ToggleRecs
           /\ FlowDone => flow' \in FlowRecs
           /\ \A label \in FlowLabels : FlowGoto(label) => flow' \in FlowRecs
           /\ \A op \in FlowOps : \A label \in FlowLabels : Begin(op, label) => flow' \in FlowRecs
<1>1. IdleFlow \in FlowRecs
  BY LabelsAre DEF IdleFlow, FlowRecs, FlowOps
<1>2. \A label \in FlowLabels : [flow EXCEPT !.at = label] \in FlowRecs
  BY DEF FlowRecs
<1>3. \A op \in FlowOps : \A label \in FlowLabels :
        [IdleFlow EXCEPT !.op = op, !.at = label] \in FlowRecs
  BY <1>1 DEF FlowRecs
<1>4. IdleToggle \in ToggleRecs
  BY DEF IdleToggle, ToggleRecs
<1> QED BY <1>1, <1>2, <1>3, <1>4 DEF FlowDone, FlowGoto, Begin

(* Nothing is stored when a flow starts.                                   *)
LEMMA StartKeeps ==
    ASSUME Whole, NEW op \in {"password", "biometric"},
           StartCreate \/ StartOpen \/ StartUnlock(op) \/ StartReset \/ StartWipe
    PROVE  Whole'
<1>1. CASE StartCreate
  <2>1. Amounts'
    BY <1>1 DEF StartCreate, Begin, FlowAt, IdleFlow, stored, vault, container, history,
       Whole, Typed, Amounts, Keys, ZeroKey, FlowRecs, ToggleRecs, FlowKnows
  <2>2. flow' \in FlowRecs /\ toggle' \in ToggleRecs
    BY <1>1, FlowShapes, LabelsAre DEF StartCreate, FlowAt, IdleFlow, stored, vault, container,
       history, Whole, Typed, FlowOps
  <2>3. KeyIsLive' /\ BiometricOpensItsWallet'
    BY <1>1 DEF StartCreate, Begin, FlowAt, IdleFlow, stored, vault, container, history,
       Whole, KeyIsLive, BiometricOpensItsWallet, FlowKnows, PromptKnows, Wiping
  <2>4. FlowKnows' /\ PromptKnows'
    BY <1>1 DEF StartCreate, Begin, FlowAt, IdleFlow, stored, vault, container, history,
       Whole, Typed, FlowRecs, ToggleRecs, FlowKnows, PromptKnows, Wiping, KeyIsLive
  <2>5. HandleIsWallets' /\ DatabaseIsTheWallets'
    BY <1>1 DEF StartCreate, Begin, FlowAt, IdleFlow, stored, vault, container, history,
       Whole, Typed, FlowRecs, HandleIsWallets, DatabaseIsTheWallets, FlowKnows, KeyIsLive,
       PromptKnows, Wiping
  <2> QED BY <2>1, <2>2, <2>3, <2>4, <2>5 DEF Whole, Typed
<1>2. CASE StartOpen
  <2>1. Amounts'
    BY <1>2 DEF StartOpen, Begin, FlowAt, IdleFlow, stored, vault, container, history,
       Whole, Typed, Amounts, Keys, ZeroKey, FlowRecs, ToggleRecs, FlowKnows
  <2>2. flow' \in FlowRecs /\ toggle' \in ToggleRecs
    BY <1>2, FlowShapes, LabelsAre DEF StartOpen, FlowAt, IdleFlow, stored, vault, container,
       history, Whole, Typed, FlowOps
  <2>3. KeyIsLive' /\ BiometricOpensItsWallet'
    BY <1>2 DEF StartOpen, Begin, FlowAt, IdleFlow, stored, vault, container, history,
       Whole, KeyIsLive, BiometricOpensItsWallet, FlowKnows, PromptKnows, Wiping
  <2>4. FlowKnows' /\ PromptKnows'
    BY <1>2 DEF StartOpen, Begin, FlowAt, IdleFlow, stored, vault, container, history,
       Whole, Typed, FlowRecs, ToggleRecs, FlowKnows, PromptKnows, Wiping, KeyIsLive
  <2>5. HandleIsWallets' /\ DatabaseIsTheWallets'
    BY <1>2 DEF StartOpen, Begin, FlowAt, IdleFlow, stored, vault, container, history,
       Whole, Typed, FlowRecs, HandleIsWallets, DatabaseIsTheWallets, FlowKnows, KeyIsLive,
       PromptKnows, Wiping
  <2> QED BY <2>1, <2>2, <2>3, <2>4, <2>5 DEF Whole, Typed
<1>3. CASE StartUnlock(op)
  <2>1. Amounts'
    BY <1>3 DEF StartUnlock, Begin, FlowAt, IdleFlow, stored, vault, container, history,
       Whole, Typed, Amounts, Keys, ZeroKey, FlowRecs, ToggleRecs, FlowKnows
  <2>2. flow' \in FlowRecs /\ toggle' \in ToggleRecs
    BY <1>3, FlowShapes, LabelsAre DEF StartUnlock, FlowAt, IdleFlow, stored, vault, container,
       history, Whole, Typed, FlowOps
  <2>3. KeyIsLive' /\ BiometricOpensItsWallet'
    BY <1>3 DEF StartUnlock, Begin, FlowAt, IdleFlow, stored, vault, container, history,
       Whole, KeyIsLive, BiometricOpensItsWallet, FlowKnows, PromptKnows, Wiping
  <2>4. FlowKnows' /\ PromptKnows'
    BY <1>3 DEF StartUnlock, Begin, FlowAt, IdleFlow, stored, vault, container, history,
       Whole, Typed, FlowRecs, ToggleRecs, FlowKnows, PromptKnows, Wiping, KeyIsLive
  <2>5. HandleIsWallets' /\ DatabaseIsTheWallets'
    BY <1>3 DEF StartUnlock, Begin, FlowAt, IdleFlow, stored, vault, container, history,
       Whole, Typed, FlowRecs, HandleIsWallets, DatabaseIsTheWallets, FlowKnows, KeyIsLive,
       PromptKnows, Wiping
  <2> QED BY <2>1, <2>2, <2>3, <2>4, <2>5 DEF Whole, Typed
<1>4. CASE StartReset
  <2>1. Amounts'
    BY <1>4 DEF StartReset, Begin, FlowAt, IdleFlow, DropDatabase, stored, vault, history,
       Whole, Typed, Amounts, Keys, ZeroKey, FlowRecs, ToggleRecs, FlowKnows
  <2>2. flow' \in FlowRecs /\ toggle' \in ToggleRecs
    BY <1>4, FlowShapes, LabelsAre DEF StartReset, FlowAt, IdleFlow, DropDatabase, stored,
       vault, history, Whole, Typed, FlowOps
  <2>3. KeyIsLive' /\ BiometricOpensItsWallet'
    BY <1>4 DEF StartReset, Begin, FlowAt, IdleFlow, DropDatabase, stored, vault, history,
       Whole, KeyIsLive, BiometricOpensItsWallet, FlowKnows, PromptKnows, Wiping
  <2>4. FlowKnows' /\ PromptKnows'
    BY <1>4 DEF StartReset, Begin, FlowAt, IdleFlow, DropDatabase, stored, vault, history,
       Whole, Typed, FlowRecs, ToggleRecs, FlowKnows, PromptKnows, Wiping, KeyIsLive
  <2>5. HandleIsWallets' /\ DatabaseIsTheWallets'
    BY <1>4 DEF StartReset, Begin, FlowAt, IdleFlow, DropDatabase, stored, vault, history,
       Whole, Typed, FlowRecs, HandleIsWallets, DatabaseIsTheWallets, FlowKnows, KeyIsLive,
       PromptKnows, Wiping
  <2> QED BY <2>1, <2>2, <2>3, <2>4, <2>5 DEF Whole, Typed
<1>5. CASE StartWipe
  <2>1. Amounts'
    BY <1>5 DEF StartWipe, Begin, FlowAt, IdleFlow, DropDatabase, stored, vault, history,
       Whole, Typed, Amounts, Keys, ZeroKey, FlowRecs, ToggleRecs, FlowKnows
  <2>2. flow' \in FlowRecs /\ toggle' \in ToggleRecs
    BY <1>5, FlowShapes, LabelsAre DEF StartWipe, FlowAt, IdleFlow, DropDatabase, stored,
       vault, history, Whole, Typed, FlowOps
  <2>3. KeyIsLive' /\ BiometricOpensItsWallet'
    BY <1>5 DEF StartWipe, Begin, FlowAt, IdleFlow, DropDatabase, stored, vault, history,
       Whole, KeyIsLive, BiometricOpensItsWallet, FlowKnows, PromptKnows, Wiping
  <2>4. FlowKnows' /\ PromptKnows'
    BY <1>5 DEF StartWipe, Begin, FlowAt, IdleFlow, DropDatabase, stored, vault, history,
       Whole, Typed, FlowRecs, ToggleRecs, FlowKnows, PromptKnows, Wiping, KeyIsLive
  <2>5. HandleIsWallets' /\ DatabaseIsTheWallets'
    BY <1>5 DEF StartWipe, Begin, FlowAt, IdleFlow, DropDatabase, stored, vault, history,
       Whole, Typed, FlowRecs, HandleIsWallets, DatabaseIsTheWallets, FlowKnows, KeyIsLive,
       PromptKnows, Wiping
  <2> QED BY <2>1, <2>2, <2>3, <2>4, <2>5 DEF Whole, Typed
<1> QED BY <1>1, <1>2, <1>3, <1>4, <1>5

(* A wallet is created where none is stored.                               *)
LEMMA CreateKeeps ==
    ASSUME Whole,
           CheckCreate \/ WrapKey \/ WriteVaultFile \/ WriteKeyBlob
    PROVE  Whole'
<1>1. CASE CheckCreate
  <2>1. Amounts'
    BY <1>1 DEF CheckCreate, FlowAt, FlowDone, IdleFlow, FlowGoto, stored, vault, container,
       history, Whole, Typed, Amounts, Keys, ZeroKey, FlowRecs, ToggleRecs, FlowKnows
  <2>2. flow' \in FlowRecs /\ toggle' \in ToggleRecs
    BY <1>1, FlowShapes, LabelsAre DEF CheckCreate, FlowAt, IdleFlow, stored, vault, container,
       history, Whole, Typed
  <2>3. KeyIsLive' /\ BiometricOpensItsWallet'
    BY <1>1 DEF CheckCreate, FlowAt, FlowDone, IdleFlow, FlowGoto, stored, vault, container,
       history, Whole, KeyIsLive, BiometricOpensItsWallet, FlowKnows, PromptKnows, Wiping
  <2>4. FlowKnows' /\ PromptKnows'
    BY <1>1 DEF CheckCreate, FlowAt, FlowDone, IdleFlow, FlowGoto, stored, vault, container,
       history, Whole, Typed, FlowRecs, ToggleRecs, FlowKnows, PromptKnows, Wiping,
       KeyIsLive
  <2>5. HandleIsWallets' /\ DatabaseIsTheWallets'
    BY <1>1 DEF CheckCreate, FlowAt, FlowDone, IdleFlow, FlowGoto, stored, vault, container,
       history, Whole, Typed, FlowRecs, HandleIsWallets, DatabaseIsTheWallets, FlowKnows,
       KeyIsLive, PromptKnows, Wiping
  <2> QED BY <2>1, <2>2, <2>3, <2>4, <2>5 DEF Whole, Typed
<1>2. CASE WrapKey
  <2>1. Amounts'
    BY <1>2 DEF WrapKey, FlowAt, FlowGoto, FlowDone, IdleFlow, stored, vault, container,
       history, Whole, Typed, Amounts, Keys, ZeroKey, FlowRecs, ToggleRecs, FlowKnows
  <2>2. flow' \in FlowRecs /\ toggle' \in ToggleRecs
    BY <1>2, FlowShapes, LabelsAre DEF WrapKey, FlowAt, IdleFlow, stored, vault, container,
       history, Whole, Typed
  <2>3. KeyIsLive' /\ BiometricOpensItsWallet'
    BY <1>2 DEF WrapKey, FlowAt, FlowGoto, FlowDone, IdleFlow, stored, vault, container,
       history, Whole, KeyIsLive, BiometricOpensItsWallet, FlowKnows, PromptKnows, Wiping
  <2>4. FlowKnows' /\ PromptKnows'
    BY <1>2 DEF WrapKey, FlowAt, FlowGoto, FlowDone, IdleFlow, stored, vault, container,
       history, Whole, Typed, FlowRecs, ToggleRecs, FlowKnows, PromptKnows, Wiping,
       KeyIsLive
  <2>5. HandleIsWallets' /\ DatabaseIsTheWallets'
    BY <1>2 DEF WrapKey, FlowAt, FlowGoto, FlowDone, IdleFlow, stored, vault, container,
       history, Whole, Typed, FlowRecs, HandleIsWallets, DatabaseIsTheWallets, FlowKnows,
       KeyIsLive, PromptKnows, Wiping
  <2> QED BY <2>1, <2>2, <2>3, <2>4, <2>5 DEF Whole, Typed
<1>3. CASE WriteVaultFile
  <2>1. Amounts'
    BY <1>3 DEF WriteVaultFile, FlowAt, FlowGoto, vault, container, Whole, Typed, Amounts,
       Keys, ZeroKey, FlowRecs, ToggleRecs, FlowKnows
  <2>2. flow' \in FlowRecs /\ toggle' \in ToggleRecs
    BY <1>3, FlowShapes, LabelsAre DEF WriteVaultFile, FlowAt, vault, container, Whole, Typed
  <2>3. KeyIsLive' /\ BiometricOpensItsWallet'
    BY <1>3 DEF WriteVaultFile, FlowAt, FlowGoto, vault, container, Whole, KeyIsLive,
       BiometricOpensItsWallet, FlowKnows, PromptKnows, Wiping
  <2>4. FlowKnows' /\ PromptKnows'
    BY <1>3 DEF WriteVaultFile, FlowAt, FlowGoto, vault, container, Whole, Typed, FlowRecs,
       ToggleRecs, FlowKnows, PromptKnows, Wiping, KeyIsLive
  <2>5. HandleIsWallets' /\ DatabaseIsTheWallets'
    BY <1>3 DEF WriteVaultFile, FlowAt, FlowGoto, vault, container, Whole, Typed, FlowRecs,
       HandleIsWallets, DatabaseIsTheWallets, FlowKnows, KeyIsLive, PromptKnows, Wiping
  <2> QED BY <2>1, <2>2, <2>3, <2>4, <2>5 DEF Whole, Typed
<1>4. CASE WriteKeyBlob
  <2>1. Amounts'
    BY <1>4 DEF WriteKeyBlob, FlowAt, SetUnlocked, FlowDone, IdleFlow, container, history,
       Whole, Typed, Amounts, Keys, ZeroKey, FlowRecs, ToggleRecs, FlowKnows
  <2>2. flow' \in FlowRecs /\ toggle' \in ToggleRecs
    BY <1>4, FlowShapes, LabelsAre DEF WriteKeyBlob, FlowAt, SetUnlocked, IdleFlow, container,
       history, Whole, Typed
  <2>3. KeyIsLive' /\ BiometricOpensItsWallet'
    BY <1>4 DEF WriteKeyBlob, FlowAt, SetUnlocked, FlowDone, IdleFlow, container, history,
       Whole, KeyIsLive, BiometricOpensItsWallet, FlowKnows, PromptKnows, Wiping
  <2>4. FlowKnows' /\ PromptKnows'
    BY <1>4 DEF WriteKeyBlob, FlowAt, SetUnlocked, FlowDone, IdleFlow, container, history,
       Whole, Typed, FlowRecs, ToggleRecs, FlowKnows, PromptKnows, Wiping, KeyIsLive
  <2>5. HandleIsWallets' /\ DatabaseIsTheWallets'
    BY <1>4 DEF WriteKeyBlob, FlowAt, SetUnlocked, FlowDone, IdleFlow, container, history,
       Whole, Typed, FlowRecs, HandleIsWallets, DatabaseIsTheWallets, FlowKnows, KeyIsLive,
       PromptKnows, Wiping
  <2> QED BY <2>1, <2>2, <2>3, <2>4, <2>5 DEF Whole, Typed
<1> QED BY <1>1, <1>2, <1>3, <1>4

(* An unlock opens what it read, and the database under its key.           *)
LEMMA UnlockKeeps ==
    ASSUME Whole,
           ReadVaultFile \/ FinishUnlock \/ OpenDatabase \/ NoDatabaseKey \/ Migrate \/ InitMessaging
    PROVE  Whole'
<1>1. CASE ReadVaultFile
  <2>1. \/ FlowDone
        \/ /\ flow' = [flow EXCEPT !.at = "kdf", !.read = vaultFile]
           /\ flow'.at = "kdf" /\ flow'.read = vaultFile /\ flow' \in FlowRecs
    BY <1>1, LabelsAre DEF ReadVaultFile, Whole, Typed, Amounts, FlowRecs
  <2>2. UNCHANGED <<stored, vault, container, toggle, broken, history>>
    BY <1>1 DEF ReadVaultFile
  <2>3. /\ flow' \in FlowRecs
        /\ flow'.at = "idle" \/ (flow'.at = "kdf" /\ flow'.read = vaultFile)
    BY <2>1, FlowShapes DEF FlowDone, IdleFlow, Whole, Typed
  <2>4. Typed' /\ KeyIsLive' /\ BiometricOpensItsWallet' /\ DatabaseIsTheWallets'
    BY <2>2, <2>3 DEF stored, vault, container, history, Whole, Typed, Amounts, KeyIsLive,
       BiometricOpensItsWallet, DatabaseIsTheWallets
  <2>5. FlowKnows' /\ PromptKnows'
    BY <2>2, <2>3 DEF stored, vault, container, history, Whole, FlowKnows, PromptKnows, Wiping
  <2>6. flow.at = "readfile"
    BY <1>1 DEF ReadVaultFile, FlowAt
  <2>7. HandleIsWallets'
    BY <2>2, <2>3, <2>6 DEF stored, vault, container, history, Whole, HandleIsWallets
  <2> QED BY <2>4, <2>5, <2>7 DEF Whole
<1>2. CASE FinishUnlock
  <2>1. Amounts'
    BY <1>2 DEF FinishUnlock, FlowAt, FlowDone, IdleFlow, vault, SetUnlocked, FlowGoto,
       stored, container, history, Whole, Typed, Amounts, Keys, ZeroKey, FlowRecs,
       ToggleRecs, FlowKnows
  <2>2. flow' \in FlowRecs /\ toggle' \in ToggleRecs
    BY <1>2, FlowShapes, LabelsAre DEF FinishUnlock, FlowAt, IdleFlow, vault, SetUnlocked,
       stored, container, history, Whole, Typed
  <2>3. KeyIsLive' /\ BiometricOpensItsWallet'
    BY <1>2 DEF FinishUnlock, FlowAt, FlowDone, IdleFlow, vault, SetUnlocked, FlowGoto,
       stored, container, history, Whole, KeyIsLive, BiometricOpensItsWallet, FlowKnows,
       PromptKnows, Wiping
  <2>4. FlowKnows' /\ PromptKnows'
    BY <1>2 DEF FinishUnlock, FlowAt, FlowDone, IdleFlow, vault, SetUnlocked, FlowGoto,
       stored, container, history, Whole, Typed, FlowRecs, ToggleRecs, FlowKnows,
       PromptKnows, Wiping, KeyIsLive
  <2>5. HandleIsWallets' /\ DatabaseIsTheWallets'
    BY <1>2 DEF FinishUnlock, FlowAt, FlowDone, IdleFlow, vault, SetUnlocked, FlowGoto,
       stored, container, history, Whole, Typed, FlowRecs, HandleIsWallets,
       DatabaseIsTheWallets, FlowKnows, KeyIsLive, PromptKnows, Wiping
  <2> QED BY <2>1, <2>2, <2>3, <2>4, <2>5 DEF Whole, Typed
<1>3. CASE OpenDatabase
  <2>1. Amounts'
    BY <1>3 DEF OpenDatabase, FlowAt, FlowDone, IdleFlow, DatabaseKey, FlowGoto, stored,
       history, Whole, Typed, Amounts, Keys, ZeroKey, FlowRecs, ToggleRecs, FlowKnows
  <2>2. flow' \in FlowRecs /\ toggle' \in ToggleRecs
    BY <1>3, FlowShapes, LabelsAre DEF OpenDatabase, FlowAt, IdleFlow, DatabaseKey, stored,
       history, Whole, Typed
  <2>3. KeyIsLive' /\ BiometricOpensItsWallet'
    BY <1>3 DEF OpenDatabase, FlowAt, FlowDone, IdleFlow, DatabaseKey, FlowGoto, stored,
       history, Whole, KeyIsLive, BiometricOpensItsWallet, FlowKnows, PromptKnows, Wiping
  <2>4. FlowKnows' /\ PromptKnows'
    BY <1>3 DEF OpenDatabase, FlowAt, FlowDone, IdleFlow, DatabaseKey, FlowGoto, stored,
       history, Whole, Typed, FlowRecs, ToggleRecs, FlowKnows, PromptKnows, Wiping,
       KeyIsLive
  <2>5. HandleIsWallets' /\ DatabaseIsTheWallets'
    BY <1>3 DEF OpenDatabase, FlowAt, FlowDone, IdleFlow, DatabaseKey, FlowGoto, stored,
       history, Whole, Typed, FlowRecs, HandleIsWallets, DatabaseIsTheWallets, FlowKnows,
       KeyIsLive, PromptKnows, Wiping
  <2> QED BY <2>1, <2>2, <2>3, <2>4, <2>5 DEF Whole, Typed
<1>4. CASE NoDatabaseKey
  <2>1. Amounts'
    BY <1>4 DEF NoDatabaseKey, FlowAt, DatabaseKey, Report, FlowDone, IdleFlow, stored,
       vault, container, history, Whole, Typed, Amounts, Keys, ZeroKey, FlowRecs,
       ToggleRecs, FlowKnows
  <2>2. flow' \in FlowRecs /\ toggle' \in ToggleRecs
    BY <1>4, FlowShapes, LabelsAre DEF NoDatabaseKey, FlowAt, DatabaseKey, IdleFlow, stored,
       vault, container, history, Report, Whole, Typed
  <2>3. KeyIsLive' /\ BiometricOpensItsWallet'
    BY <1>4 DEF NoDatabaseKey, FlowAt, DatabaseKey, Report, FlowDone, IdleFlow, stored,
       vault, container, history, Whole, KeyIsLive, BiometricOpensItsWallet, FlowKnows,
       PromptKnows, Wiping
  <2>4. FlowKnows' /\ PromptKnows'
    BY <1>4 DEF NoDatabaseKey, FlowAt, DatabaseKey, Report, FlowDone, IdleFlow, stored,
       vault, container, history, Whole, Typed, FlowRecs, ToggleRecs, FlowKnows,
       PromptKnows, Wiping, KeyIsLive
  <2>5. HandleIsWallets' /\ DatabaseIsTheWallets'
    BY <1>4 DEF NoDatabaseKey, FlowAt, DatabaseKey, Report, FlowDone, IdleFlow, stored,
       vault, container, history, Whole, Typed, FlowRecs, HandleIsWallets,
       DatabaseIsTheWallets, FlowKnows, KeyIsLive, PromptKnows, Wiping
  <2> QED BY <2>1, <2>2, <2>3, <2>4, <2>5 DEF Whole, Typed
<1>5. CASE Migrate
  <2>1. Amounts'
    BY <1>5 DEF Migrate, FlowAt, FlowGoto, Report, FlowDone, IdleFlow, vault, history,
       Whole, Typed, Amounts, Keys, ZeroKey, FlowRecs, ToggleRecs, FlowKnows
  <2>2. flow' \in FlowRecs /\ toggle' \in ToggleRecs
    BY <1>5, FlowShapes, LabelsAre DEF Migrate, FlowAt, IdleFlow, vault, history, Report,
       Whole, Typed
  <2>3. KeyIsLive' /\ BiometricOpensItsWallet'
    BY <1>5 DEF Migrate, FlowAt, FlowGoto, Report, FlowDone, IdleFlow, vault, history,
       Whole, KeyIsLive, BiometricOpensItsWallet, FlowKnows, PromptKnows, Wiping
  <2>4. FlowKnows' /\ PromptKnows'
    BY <1>5 DEF Migrate, FlowAt, FlowGoto, Report, FlowDone, IdleFlow, vault, history,
       Whole, Typed, FlowRecs, ToggleRecs, FlowKnows, PromptKnows, Wiping, KeyIsLive
  <2>5. HandleIsWallets' /\ DatabaseIsTheWallets'
    BY <1>5 DEF Migrate, FlowAt, FlowGoto, Report, FlowDone, IdleFlow, vault, history,
       Whole, Typed, FlowRecs, HandleIsWallets, DatabaseIsTheWallets, FlowKnows, KeyIsLive,
       PromptKnows, Wiping
  <2> QED BY <2>1, <2>2, <2>3, <2>4, <2>5 DEF Whole, Typed
<1>6. CASE InitMessaging
  <2>1. Amounts'
    BY <1>6 DEF InitMessaging, FlowAt, BecomeReady, FlowDone, IdleFlow, Report, stored,
       vault, history, Whole, Typed, Amounts, Keys, ZeroKey, FlowRecs, ToggleRecs, FlowKnows
  <2>2. flow' \in FlowRecs /\ toggle' \in ToggleRecs
    BY <1>6, FlowShapes, LabelsAre DEF InitMessaging, FlowAt, BecomeReady, IdleFlow, stored,
       vault, history, Report, Whole, Typed
  <2>3. KeyIsLive' /\ BiometricOpensItsWallet'
    BY <1>6 DEF InitMessaging, FlowAt, BecomeReady, FlowDone, IdleFlow, Report, stored,
       vault, history, Whole, KeyIsLive, BiometricOpensItsWallet, FlowKnows, PromptKnows,
       Wiping
  <2>4. FlowKnows' /\ PromptKnows'
    BY <1>6 DEF InitMessaging, FlowAt, BecomeReady, FlowDone, IdleFlow, Report, stored,
       vault, history, Whole, Typed, FlowRecs, ToggleRecs, FlowKnows, PromptKnows, Wiping,
       KeyIsLive
  <2>5. HandleIsWallets' /\ DatabaseIsTheWallets'
    BY <1>6 DEF InitMessaging, FlowAt, BecomeReady, FlowDone, IdleFlow, Report, stored,
       vault, history, Whole, Typed, FlowRecs, HandleIsWallets, DatabaseIsTheWallets,
       FlowKnows, KeyIsLive, PromptKnows, Wiping
  <2> QED BY <2>1, <2>2, <2>3, <2>4, <2>5 DEF Whole, Typed
<1> QED BY <1>1, <1>2, <1>3, <1>4, <1>5, <1>6

(* The database goes first, then the vault file, then the key.             *)
LEMMA EraseKeeps ==
    ASSUME Whole,
           Destroy \/ DeleteVaultFile \/ DeleteKeyBlob \/ DeleteKeystoreKey
    PROVE  Whole'
<1>1. CASE Destroy
  <2>1. Amounts'
    BY <1>1 DEF Destroy, FlowAt, EraseDatabase, ClearLiveState, FlowGoto, FlowDone,
       IdleFlow, container, Whole, Typed, Amounts, Keys, ZeroKey, FlowRecs, ToggleRecs,
       FlowKnows
  <2>2. flow' \in FlowRecs /\ toggle' \in ToggleRecs
    BY <1>1, FlowShapes, LabelsAre DEF Destroy, FlowAt, EraseDatabase, ClearLiveState,
       IdleFlow, container, Whole, Typed
  <2>3. KeyIsLive' /\ BiometricOpensItsWallet'
    BY <1>1 DEF Destroy, FlowAt, EraseDatabase, ClearLiveState, FlowGoto, FlowDone,
       IdleFlow, container, Whole, KeyIsLive, BiometricOpensItsWallet, FlowKnows,
       PromptKnows, Wiping
  <2>4. FlowKnows' /\ PromptKnows'
    BY <1>1 DEF Destroy, FlowAt, EraseDatabase, ClearLiveState, FlowGoto, FlowDone,
       IdleFlow, container, Whole, Typed, FlowRecs, ToggleRecs, FlowKnows, PromptKnows,
       Wiping, KeyIsLive
  <2>5. HandleIsWallets' /\ DatabaseIsTheWallets'
    BY <1>1 DEF Destroy, FlowAt, EraseDatabase, ClearLiveState, FlowGoto, FlowDone,
       IdleFlow, container, Whole, Typed, FlowRecs, HandleIsWallets, DatabaseIsTheWallets,
       FlowKnows, KeyIsLive, PromptKnows, Wiping
  <2> QED BY <2>1, <2>2, <2>3, <2>4, <2>5 DEF Whole, Typed
<1>2. CASE DeleteVaultFile
  <2>1. Amounts'
    BY <1>2 DEF DeleteVaultFile, FlowAt, FlowGoto, vault, container, history, Whole, Typed,
       Amounts, Keys, ZeroKey, FlowRecs, ToggleRecs, FlowKnows
  <2>2. flow' \in FlowRecs /\ toggle' \in ToggleRecs
    BY <1>2, FlowShapes, LabelsAre DEF DeleteVaultFile, FlowAt, vault, container, history,
       Whole, Typed
  <2>3. KeyIsLive' /\ BiometricOpensItsWallet'
    BY <1>2 DEF DeleteVaultFile, FlowAt, FlowGoto, vault, container, history, Whole,
       KeyIsLive, BiometricOpensItsWallet, FlowKnows, PromptKnows, Wiping
  <2>4. FlowKnows' /\ PromptKnows'
    BY <1>2 DEF DeleteVaultFile, FlowAt, FlowGoto, vault, container, history, Whole, Typed,
       FlowRecs, ToggleRecs, FlowKnows, PromptKnows, Wiping, KeyIsLive
  <2>5. HandleIsWallets' /\ DatabaseIsTheWallets'
    BY <1>2 DEF DeleteVaultFile, FlowAt, FlowGoto, vault, container, history, Whole, Typed,
       FlowRecs, HandleIsWallets, DatabaseIsTheWallets, FlowKnows, KeyIsLive, PromptKnows,
       Wiping
  <2> QED BY <2>1, <2>2, <2>3, <2>4, <2>5 DEF Whole, Typed
<1>3. CASE DeleteKeyBlob
  <2>1. Amounts'
    BY <1>3 DEF DeleteKeyBlob, FlowAt, FlowGoto, vault, container, history, Whole, Typed,
       Amounts, Keys, ZeroKey, FlowRecs, ToggleRecs, FlowKnows
  <2>2. flow' \in FlowRecs /\ toggle' \in ToggleRecs
    BY <1>3, FlowShapes, LabelsAre DEF DeleteKeyBlob, FlowAt, vault, container, history, Whole,
       Typed
  <2>3. KeyIsLive' /\ BiometricOpensItsWallet'
    BY <1>3 DEF DeleteKeyBlob, FlowAt, FlowGoto, vault, container, history, Whole,
       KeyIsLive, BiometricOpensItsWallet, FlowKnows, PromptKnows, Wiping
  <2>4. FlowKnows' /\ PromptKnows'
    BY <1>3 DEF DeleteKeyBlob, FlowAt, FlowGoto, vault, container, history, Whole, Typed,
       FlowRecs, ToggleRecs, FlowKnows, PromptKnows, Wiping, KeyIsLive
  <2>5. HandleIsWallets' /\ DatabaseIsTheWallets'
    BY <1>3 DEF DeleteKeyBlob, FlowAt, FlowGoto, vault, container, history, Whole, Typed,
       FlowRecs, HandleIsWallets, DatabaseIsTheWallets, FlowKnows, KeyIsLive, PromptKnows,
       Wiping
  <2> QED BY <2>1, <2>2, <2>3, <2>4, <2>5 DEF Whole, Typed
<1>4. CASE DeleteKeystoreKey
  <2>1. Amounts'
    BY <1>4 DEF DeleteKeystoreKey, FlowAt, FlowDone, IdleFlow, stored, history, Whole,
       Typed, Amounts, Keys, ZeroKey, FlowRecs, ToggleRecs, FlowKnows
  <2>2. flow' \in FlowRecs /\ toggle' \in ToggleRecs
    BY <1>4, FlowShapes, LabelsAre DEF DeleteKeystoreKey, FlowAt, IdleFlow, stored, history,
       Whole, Typed
  <2>3. KeyIsLive' /\ BiometricOpensItsWallet'
    BY <1>4 DEF DeleteKeystoreKey, FlowAt, FlowDone, IdleFlow, stored, history, Whole,
       KeyIsLive, BiometricOpensItsWallet, FlowKnows, PromptKnows, Wiping
  <2>4. FlowKnows' /\ PromptKnows'
    BY <1>4 DEF DeleteKeystoreKey, FlowAt, FlowDone, IdleFlow, stored, history, Whole,
       Typed, FlowRecs, ToggleRecs, FlowKnows, PromptKnows, Wiping, KeyIsLive
  <2>5. HandleIsWallets' /\ DatabaseIsTheWallets'
    BY <1>4 DEF DeleteKeystoreKey, FlowAt, FlowDone, IdleFlow, stored, history, Whole,
       Typed, FlowRecs, HandleIsWallets, DatabaseIsTheWallets, FlowKnows, KeyIsLive,
       PromptKnows, Wiping
  <2> QED BY <2>1, <2>2, <2>3, <2>4, <2>5 DEF Whole, Typed
<1> QED BY <1>1, <1>2, <1>3, <1>4

(* The biometric switch rewrites the file it has read, under its own key.  *)
LEMMA SwitchKeeps ==
    ASSUME Whole, NEW on \in BOOLEAN,
           StartToggle(on) \/ ToggleRead \/ TogglePrompt
    PROVE  Whole'
<1>1. CASE StartToggle(on)
  <2>1. Amounts'
    BY <1>1 DEF StartToggle, IdleToggle, stored, vault, container, history, Whole, Typed,
       Amounts, Keys, ZeroKey, FlowRecs, ToggleRecs, FlowKnows
  <2>2. flow' \in FlowRecs /\ toggle' \in ToggleRecs
    BY <1>1, FlowShapes, LabelsAre DEF StartToggle, IdleToggle, stored, vault, container,
       history, Whole, Typed, ToggleRecs
  <2>3. KeyIsLive' /\ BiometricOpensItsWallet'
    BY <1>1 DEF StartToggle, IdleToggle, stored, vault, container, history, Whole,
       KeyIsLive, BiometricOpensItsWallet, FlowKnows, PromptKnows, Wiping
  <2>4. FlowKnows' /\ PromptKnows'
    BY <1>1 DEF StartToggle, IdleToggle, stored, vault, container, history, Whole, Typed,
       FlowRecs, ToggleRecs, FlowKnows, PromptKnows, Wiping, KeyIsLive
  <2>5. HandleIsWallets' /\ DatabaseIsTheWallets'
    BY <1>1 DEF StartToggle, IdleToggle, stored, vault, container, history, Whole, Typed,
       FlowRecs, HandleIsWallets, DatabaseIsTheWallets, FlowKnows, KeyIsLive, PromptKnows,
       Wiping
  <2> QED BY <2>1, <2>2, <2>3, <2>4, <2>5 DEF Whole, Typed
<1>2. CASE ToggleRead
  <2>1. Amounts'
    BY <1>2 DEF ToggleRead, SlotKey, IdleToggle, WriteSlots, RewriteAllowed, vault,
       container, history, Whole, Typed, Amounts, Keys, ZeroKey, FlowRecs, ToggleRecs,
       FlowKnows
  <2>2. flow' \in FlowRecs /\ toggle' \in ToggleRecs
    <3>1. \/ toggle' = IdleToggle
          \/ toggle' = [toggle EXCEPT !.at = "prompt", !.read = vaultFile, !.blob = live]
      BY <1>2 DEF ToggleRead, SlotKey
    <3>2. [toggle EXCEPT !.at = "prompt", !.read = vaultFile, !.blob = live] \in ToggleRecs
      BY DEF Whole, Typed, Amounts, ToggleRecs
    <3> QED BY <1>2, <3>1, <3>2, FlowShapes DEF ToggleRead, Whole, Typed
  <2>3. KeyIsLive' /\ BiometricOpensItsWallet'
    BY <1>2 DEF ToggleRead, SlotKey, IdleToggle, WriteSlots, RewriteAllowed, vault,
       container, history, Whole, KeyIsLive, BiometricOpensItsWallet, FlowKnows,
       PromptKnows, Wiping
  <2>4. FlowKnows' /\ PromptKnows'
    BY <1>2 DEF ToggleRead, SlotKey, IdleToggle, WriteSlots, RewriteAllowed, vault,
       container, history, Whole, Typed, FlowRecs, ToggleRecs, FlowKnows, PromptKnows,
       Wiping, KeyIsLive
  <2>5. HandleIsWallets' /\ DatabaseIsTheWallets'
    BY <1>2 DEF ToggleRead, SlotKey, IdleToggle, WriteSlots, RewriteAllowed, vault,
       container, history, Whole, Typed, FlowRecs, HandleIsWallets, DatabaseIsTheWallets,
       FlowKnows, KeyIsLive, PromptKnows, Wiping
  <2> QED BY <2>1, <2>2, <2>3, <2>4, <2>5 DEF Whole, Typed
<1>3. CASE TogglePrompt
  <2>1. Amounts'
    BY <1>3 DEF TogglePrompt, IdleToggle, WriteSlots, RewriteAllowed, vault, container,
       history, Whole, Typed, Amounts, Keys, ZeroKey, FlowRecs, ToggleRecs, FlowKnows
  <2>2. flow' \in FlowRecs /\ toggle' \in ToggleRecs
    BY <1>3, FlowShapes, LabelsAre DEF TogglePrompt, IdleToggle, WriteSlots, RewriteAllowed,
       vault, container, history, Whole, Typed
  <2>3. KeyIsLive' /\ BiometricOpensItsWallet'
    BY <1>3 DEF TogglePrompt, IdleToggle, WriteSlots, RewriteAllowed, vault, container,
       history, Whole, KeyIsLive, BiometricOpensItsWallet, FlowKnows, PromptKnows, Wiping
  <2>4. FlowKnows' /\ PromptKnows'
    BY <1>3 DEF TogglePrompt, IdleToggle, WriteSlots, RewriteAllowed, vault, container,
       history, Whole, Typed, FlowRecs, ToggleRecs, FlowKnows, PromptKnows, Wiping,
       KeyIsLive
  <2>5. HandleIsWallets' /\ DatabaseIsTheWallets'
    BY <1>3 DEF TogglePrompt, IdleToggle, WriteSlots, RewriteAllowed, vault, container,
       history, Whole, Typed, FlowRecs, HandleIsWallets, DatabaseIsTheWallets, FlowKnows,
       KeyIsLive, PromptKnows, Wiping
  <2> QED BY <2>1, <2>2, <2>3, <2>4, <2>5 DEF Whole, Typed
<1> QED BY <1>1, <1>2, <1>3

(* A lock and a close take keys and handles away.                          *)
LEMMA TeardownKeeps ==
    ASSUME Whole,
           AutoLock \/ LockNow \/ PollFires \/ FinishClose \/ SessionCrash
    PROVE  Whole'
<1>1. CASE AutoLock
  <2>1. Amounts'
    BY <1>1 DEF AutoLock, LockVault, ClearLiveState, stored, container, history, Whole,
       Typed, Amounts, Keys, ZeroKey, FlowRecs, ToggleRecs, FlowKnows
  <2>2. flow' \in FlowRecs /\ toggle' \in ToggleRecs
    BY <1>1, FlowShapes, LabelsAre DEF AutoLock, LockVault, ClearLiveState, stored, container,
       history, Whole, Typed
  <2>3. KeyIsLive' /\ BiometricOpensItsWallet'
    BY <1>1 DEF AutoLock, LockVault, ClearLiveState, stored, container, history, Whole,
       KeyIsLive, BiometricOpensItsWallet, FlowKnows, PromptKnows, Wiping
  <2>4. FlowKnows' /\ PromptKnows'
    BY <1>1 DEF AutoLock, LockVault, ClearLiveState, stored, container, history, Whole,
       Typed, FlowRecs, ToggleRecs, FlowKnows, PromptKnows, Wiping, KeyIsLive
  <2>5. HandleIsWallets' /\ DatabaseIsTheWallets'
    BY <1>1 DEF AutoLock, LockVault, ClearLiveState, stored, container, history, Whole,
       Typed, FlowRecs, HandleIsWallets, DatabaseIsTheWallets, FlowKnows, KeyIsLive,
       PromptKnows, Wiping
  <2> QED BY <2>1, <2>2, <2>3, <2>4, <2>5 DEF Whole, Typed
<1>2. CASE LockNow
  <2>1. Amounts'
    BY <1>2 DEF LockNow, FlowAt, LockVault, ClearLiveState, BeginClose, stored, history,
       Whole, Typed, Amounts, Keys, ZeroKey, FlowRecs, ToggleRecs, FlowKnows
  <2>2. flow' \in FlowRecs /\ toggle' \in ToggleRecs
    BY <1>2, FlowShapes, LabelsAre DEF LockNow, FlowAt, LockVault, ClearLiveState, BeginClose,
       stored, history, Whole, Typed
  <2>3. KeyIsLive' /\ BiometricOpensItsWallet'
    BY <1>2 DEF LockNow, FlowAt, LockVault, ClearLiveState, BeginClose, stored, history,
       Whole, KeyIsLive, BiometricOpensItsWallet, FlowKnows, PromptKnows, Wiping
  <2>4. FlowKnows' /\ PromptKnows'
    BY <1>2 DEF LockNow, FlowAt, LockVault, ClearLiveState, BeginClose, stored, history,
       Whole, Typed, FlowRecs, ToggleRecs, FlowKnows, PromptKnows, Wiping, KeyIsLive
  <2>5. HandleIsWallets' /\ DatabaseIsTheWallets'
    BY <1>2 DEF LockNow, FlowAt, LockVault, ClearLiveState, BeginClose, stored, history,
       Whole, Typed, FlowRecs, HandleIsWallets, DatabaseIsTheWallets, FlowKnows, KeyIsLive,
       PromptKnows, Wiping
  <2> QED BY <2>1, <2>2, <2>3, <2>4, <2>5 DEF Whole, Typed
<1>3. CASE PollFires
  <2>1. Amounts'
    BY <1>3 DEF PollFires, BeginClose, stored, vault, history, Whole, Typed, Amounts, Keys,
       ZeroKey, FlowRecs, ToggleRecs, FlowKnows
  <2>2. flow' \in FlowRecs /\ toggle' \in ToggleRecs
    BY <1>3, FlowShapes, LabelsAre DEF PollFires, BeginClose, stored, vault, history, Whole,
       Typed
  <2>3. KeyIsLive' /\ BiometricOpensItsWallet'
    BY <1>3 DEF PollFires, BeginClose, stored, vault, history, Whole, KeyIsLive,
       BiometricOpensItsWallet, FlowKnows, PromptKnows, Wiping
  <2>4. FlowKnows' /\ PromptKnows'
    BY <1>3 DEF PollFires, BeginClose, stored, vault, history, Whole, Typed, FlowRecs,
       ToggleRecs, FlowKnows, PromptKnows, Wiping, KeyIsLive
  <2>5. HandleIsWallets' /\ DatabaseIsTheWallets'
    BY <1>3 DEF PollFires, BeginClose, stored, vault, history, Whole, Typed, FlowRecs,
       HandleIsWallets, DatabaseIsTheWallets, FlowKnows, KeyIsLive, PromptKnows, Wiping
  <2> QED BY <2>1, <2>2, <2>3, <2>4, <2>5 DEF Whole, Typed
<1>4. CASE FinishClose
  <2>1. Amounts'
    BY <1>4 DEF FinishClose, stored, vault, history, Whole, Typed, Amounts, Keys, ZeroKey,
       FlowRecs, ToggleRecs, FlowKnows
  <2>2. flow' \in FlowRecs /\ toggle' \in ToggleRecs
    BY <1>4, FlowShapes, LabelsAre DEF FinishClose, stored, vault, history, Whole, Typed
  <2>3. KeyIsLive' /\ BiometricOpensItsWallet'
    BY <1>4 DEF FinishClose, stored, vault, history, Whole, KeyIsLive,
       BiometricOpensItsWallet, FlowKnows, PromptKnows, Wiping
  <2>4. FlowKnows' /\ PromptKnows'
    BY <1>4 DEF FinishClose, stored, vault, history, Whole, Typed, FlowRecs, ToggleRecs,
       FlowKnows, PromptKnows, Wiping, KeyIsLive
  <2>5. HandleIsWallets' /\ DatabaseIsTheWallets'
    BY <1>4 DEF FinishClose, stored, vault, history, Whole, Typed, FlowRecs,
       HandleIsWallets, DatabaseIsTheWallets, FlowKnows, KeyIsLive, PromptKnows, Wiping
  <2> QED BY <2>1, <2>2, <2>3, <2>4, <2>5 DEF Whole, Typed
<1>5. CASE SessionCrash
  <2>1. Amounts'
    BY <1>5 DEF SessionCrash, ClearLiveState, DropDatabase, FlowDone, IdleFlow, IdleToggle,
       stored, Whole, Typed, Amounts, Keys, ZeroKey, FlowRecs, ToggleRecs, FlowKnows
  <2>2. flow' \in FlowRecs /\ toggle' \in ToggleRecs
    BY <1>5, FlowShapes, LabelsAre DEF SessionCrash, ClearLiveState, DropDatabase, IdleFlow,
       IdleToggle, stored, Whole, Typed
  <2>3. KeyIsLive' /\ BiometricOpensItsWallet'
    BY <1>5 DEF SessionCrash, ClearLiveState, DropDatabase, FlowDone, IdleFlow, IdleToggle,
       stored, Whole, KeyIsLive, BiometricOpensItsWallet, FlowKnows, PromptKnows, Wiping
  <2>4. FlowKnows' /\ PromptKnows'
    BY <1>5 DEF SessionCrash, ClearLiveState, DropDatabase, FlowDone, IdleFlow, IdleToggle,
       stored, Whole, Typed, FlowRecs, ToggleRecs, FlowKnows, PromptKnows, Wiping, KeyIsLive
  <2>5. HandleIsWallets' /\ DatabaseIsTheWallets'
    BY <1>5 DEF SessionCrash, ClearLiveState, DropDatabase, FlowDone, IdleFlow, IdleToggle,
       stored, Whole, Typed, FlowRecs, HandleIsWallets, DatabaseIsTheWallets, FlowKnows,
       KeyIsLive, PromptKnows, Wiping
  <2> QED BY <2>1, <2>2, <2>3, <2>4, <2>5 DEF Whole, Typed
<1> QED BY <1>1, <1>2, <1>3, <1>4, <1>5


-----------------------------------------------------------------------------
LEMMA NextWhole ==
    ASSUME Whole, [SessionNext]_sessionVars
    PROVE  Whole'
<1>1. CASE SessionNext
  <2>1. CASE \/ StartCreate \/ StartOpen \/ StartReset \/ StartWipe
             \/ \E op \in {"password", "biometric"} : StartUnlock(op)
    BY <2>1, StartKeeps
  <2>2. CASE FlowStep
    BY <2>2, CreateKeeps, UnlockKeeps, EraseKeeps DEF FlowStep
  <2>3. CASE ToggleRead \/ TogglePrompt \/ \E on \in BOOLEAN : StartToggle(on)
    BY <2>3, SwitchKeeps
  <2>4. CASE AutoLock \/ LockNow \/ PollFires \/ FinishClose \/ SessionCrash
    BY <2>4, TeardownKeeps
  <2> QED BY <1>1, <2>1, <2>2, <2>3, <2>4 DEF SessionNext
<1>2. CASE UNCHANGED sessionVars
  BY <1>2 DEF sessionVars, stored, vault, container, history, Whole, Typed, Amounts, KeyIsLive,
     FlowKnows, PromptKnows, HandleIsWallets, BiometricOpensItsWallet, DatabaseIsTheWallets
<1> QED BY <1>1, <1>2

LEMMA InitWhole == SessionInit => Whole
<1> SUFFICES ASSUME SessionInit PROVE Whole
  OBVIOUS
<1>1. flow.at = "idle" /\ toggle.at = "idle"
  BY DEF SessionInit, IdleFlow, IdleToggle
<1>2. flow \in FlowRecs /\ toggle \in ToggleRecs
  BY LabelsAre DEF SessionInit, IdleFlow, IdleToggle, FlowRecs, ToggleRecs, FlowOps
<1>3. Amounts
  BY DEF SessionInit, Amounts, Keys, ZeroKey
<1>4. /\ KeyIsLive /\ FlowKnows /\ PromptKnows /\ HandleIsWallets
      /\ BiometricOpensItsWallet /\ DatabaseIsTheWallets
  BY <1>1 DEF SessionInit, KeyIsLive, FlowKnows, PromptKnows, HandleIsWallets, Wiping,
     BiometricOpensItsWallet, DatabaseIsTheWallets
<1> QED BY <1>2, <1>3, <1>4 DEF Whole, Typed

(* The vault file is written by a creation that found none and by the      *)
(* biometric switch, which writes back what it read under the live key.    *)
LEMMA FileIsNotReplaced ==
    ASSUME Whole, [SessionNext]_sessionVars, vaultFile # 0
    PROVE  vaultFile' \in {vaultFile, 0}
<1>1. CASE WriteVaultFile
  BY <1>1 DEF WriteVaultFile, FlowAt, Whole, FlowKnows
<1>2. CASE ToggleRead
  BY <1>2 DEF ToggleRead, WriteSlots
<1>3. CASE TogglePrompt
  BY <1>3 DEF TogglePrompt, WriteSlots, RewriteAllowed, Whole, KeyIsLive, PromptKnows
<1>4. CASE DeleteVaultFile
  BY <1>4 DEF DeleteVaultFile
<1>5. CASE UNCHANGED vaultFile
  BY <1>5
<1>6. [SessionNext]_sessionVars /\ ~(WriteVaultFile \/ ToggleRead \/ TogglePrompt \/ DeleteVaultFile)
        => UNCHANGED vaultFile
  BY DEF SessionNext, sessionVars, stored, FlowStep, StartCreate, StartOpen, StartReset, StartWipe,
     StartUnlock, CheckCreate, WrapKey, WriteKeyBlob, ReadVaultFile, FinishUnlock, OpenDatabase,
     NoDatabaseKey, Migrate, InitMessaging, Destroy, DeleteKeyBlob, DeleteKeystoreKey, StartToggle,
     AutoLock, LockNow, PollFires, FinishClose, SessionCrash
<1> QED BY <1>1, <1>2, <1>3, <1>4, <1>5, <1>6

(* Whatever the flows, the switch, the timers and the deaths of the        *)
(* process interleave, the biometric slot wraps the stored wallet's key    *)
(* and, until the user resets the local data, the database is its own.     *)
THEOREM NothingOfAnotherWallet == SessionSpec => []WalletIsWhole
<1>1. Whole /\ [SessionNext]_sessionVars => Whole'
  BY NextWhole
<1>2. Whole => WalletIsWhole
  BY DEF Whole, WalletIsWhole
<1> QED BY <1>1, <1>2, InitWhole, PTL DEF SessionSpec

(* A stored wallet is deleted or stays; it is never overwritten by another. *)
THEOREM WalletsSurvive == SessionSpec => StoredWalletSurvives
<1>1. Whole /\ [SessionNext]_sessionVars => Whole'
  BY NextWhole
<1>2. Whole /\ [SessionNext]_sessionVars
        => [vaultFile # 0 => vaultFile' \in {vaultFile, 0}]_sessionVars
  BY FileIsNotReplaced
<1> QED BY <1>1, <1>2, InitWhole, PTL DEF SessionSpec, StoredWalletSurvives

-----------------------------------------------------------------------------
(* The reference client.                                                   *)

USE ClientAssumption

(* What the files may hold, and the process be doing.                      *)
NoMoney == [total |-> 0, spendable |-> 0]
Snapshots == {<<>>, <<NoMoney>>}

SharedKind == [steps : SUBSET Steps, pending : [Labels -> Nat], deployed : BOOLEAN,
               profiles : SUBSET Names, a2b : Nat, b2a : Nat, rotation : BOOLEAN]
IdentityKind == [before : Snapshots, fees : SUBSET Labels, profile : BOOLEAN,
                 own : {"none", "published", "acknowledged", "reclaimed"},
                 processed : SUBSET Nat, got : SUBSET Nat, remote : BOOLEAN]
Files == [shared : SharedKind, alice : IdentityKind, bob : IdentityKind]

Places == {"none", "start", "send", "sent", "wait", "finalize", "mark", "done", "bob", "scanned", "acked"}
Procs == [step : Steps \cup {"none"}, at : Places, file : {"none", "shared", "alice", "bob"}]

ClientTyped ==
    /\ disk \in Files /\ mem \in Files /\ proc \in Procs
    /\ txs \in [Labels -> Seq({"pool", "committed", "dropped"})]
    /\ \A l \in Labels : Len(txs[l]) <= MaxTxs
    /\ accounted \in BOOLEAN /\ runFaults \in 0..MaxRunFaults

(* What an identity's file records of a transaction that is finalized.     *)
OnFile(s, l) ==
    /\ l \in s[Payer(l)].fees
    /\ l = "profile.alice" => s.alice.profile
    /\ l = "profile.bob" => s.bob.profile

FilesAreSound(s) ==
    /\ \A n \in Names : \A l \in s[n].fees : Payer(l) = n /\ Committed(l) # {}
    /\ \A l \in Labels : s.shared.pending[l] <= Len(txs[l])
    /\ "deploy-type" \in s.shared.steps => s.shared.deployed

StepsAreRecorded ==
    /\ disk.shared.steps \subseteq mem.shared.steps
    /\ \A l \in Labels : l \in mem.shared.steps => OnFile(mem, l) /\ OnFile(disk, l)

(* What is not on disk is in the files still to be written.                *)
RestIsSaved ==
    /\ proc.file # "shared" => mem.shared = disk.shared
    /\ proc.file \in {"none", "bob"} => mem.alice = disk.alice
    /\ proc.file = "none" => mem.bob = disk.bob
    /\ OneFile => /\ proc.file # "alice" => mem.alice = disk.alice
                  /\ proc.file # "bob" => mem.bob = disk.bob

NothingBeforeSetup ==
    /\ "setup" \notin disk.shared.steps => \A l \in Labels : txs[l] = <<>>
    /\ proc.step \in Labels => "setup" \in disk.shared.steps
    /\ proc.step = "setup" /\ proc.at # "done" =>
          "setup" \notin disk.shared.steps /\ proc.file # "shared"
    
ProcKnows ==
    /\ proc.step \in Labels =>
          /\ proc.at = "sent" => txs[proc.step] # <<>>
          /\ proc.at = "wait" => mem.shared.pending[proc.step] # 0
          /\ proc.at = "finalize" => Committed(proc.step) # {}
          /\ proc.at = "mark" => /\ OnFile(mem, proc.step)
                                 /\ proc.step = "deploy-type" => mem.shared.deployed
    /\ proc.step = "reconcile" => Labels \ {"rotate.alice"} \subseteq mem.shared.steps

AccountedFor == accounted => \A l \in Labels \ {"rotate.alice"} : Made(l) = 1

ClientInv ==
    /\ ClientTyped /\ FilesAreSound(disk) /\ FilesAreSound(mem) /\ StepsAreRecorded
    /\ RestIsSaved /\ NothingBeforeSetup /\ ProcKnows
(* Only the last transaction of a label may still be in the pool, and a    *)
(* recorded broadcast is the last one.                                     *)
LastIsOpen(state) ==
    \A l \in Labels : state.shared.pending[l] # 0 => state.shared.pending[l] = Len(txs[l])

Under(places) == IF proc.at \in places THEN {proc.step} \cap Labels ELSE {}

ClientSettled ==
    /\ \A l \in Labels : \A i \in DOMAIN txs[l] : txs[l][i] = "pool" => i = Len(txs[l])
    /\ LastIsOpen(disk) /\ LastIsOpen(mem)
    /\ \A l \in Labels : l \in mem.shared.steps \/ l \in Under({"finalize", "mark"}) => ~InPool(l)
    /\ \A l \in Labels : proc.step = l /\ proc.at # "done" => l \notin mem.shared.steps
    /\ \A l \in Under({"send", "sent"}) : mem.shared.pending[l] = 0

Exchange == Labels \ {"rotate.alice"}
ClientAccounted ==
    accounted => /\ Exchange \subseteq disk.shared.steps
                 /\ \A l \in Exchange : Made(l) = 1
LEMMA NamesAndLabels ==
    /\ Labels \subseteq Steps /\ Names = {"alice", "bob"}
    /\ \A l \in Labels : Payer(l) \in Names
BY DEF Labels, Steps, Names, Payer

LEMMA ClientStarts == ClientInit => ClientInv
<1> SUFFICES ASSUME ClientInit PROVE ClientInv
  OBVIOUS
<1>1. NewShared \in SharedKind /\ NewShared.steps = {}
      /\ \A l \in Labels : NewShared.pending[l] = 0
  BY DEF NewShared, SharedKind
<1>2. NewIdentity \in IdentityKind /\ NewIdentity.fees = {}
  BY DEF NewIdentity, IdentityKind, Snapshots
<1>3. /\ disk \in Files /\ mem = disk /\ disk.shared = NewShared /\ disk.alice = NewIdentity
      /\ disk.bob = NewIdentity
  BY <1>1, <1>2 DEF ClientInit, Files
<1>4. \A l \in Labels : txs[l] = <<>> /\ Len(txs[l]) = 0
  BY EmptySeq DEF ClientInit
<1>5. txs \in [Labels -> Seq({"pool", "committed", "dropped"})]
  BY EmptySeq DEF ClientInit
<1>6. ClientTyped
  <2>1. Idle \in Procs /\ 0 \in 0..MaxRunFaults
    BY DEF Procs, Places, Idle
  <2>2. proc = Idle /\ accounted = FALSE /\ runFaults = 0
    BY DEF ClientInit
  <2>3. \A l \in Labels : Len(txs[l]) <= MaxTxs
    BY <1>4 DEF MaxTxs
  <2> QED BY <1>3, <1>5, <2>1, <2>2, <2>3 DEF ClientTyped
<1>7. FilesAreSound(disk) /\ FilesAreSound(mem)
  <2>1. disk["alice"].fees = {} /\ disk["bob"].fees = {}
    BY <1>2, <1>3
  <2> QED BY <1>1, <1>3, <1>4, <2>1 DEF FilesAreSound, Names
<1>8. StepsAreRecorded /\ RestIsSaved /\ NothingBeforeSetup /\ ProcKnows
  BY <1>1, <1>3, <1>4 DEF ClientInit, Idle, StepsAreRecorded, RestIsSaved, NothingBeforeSetup,
     ProcKnows, OneFile, Labels
<1> QED BY <1>6, <1>7, <1>8 DEF ClientInv

(* The process is gone, whatever it was doing.                             *)
LEMMA ExitKeeps ==
    ASSUME ClientInv, Exit, UNCHANGED <<disk, txs>>, accounted' \in BOOLEAN,
           runFaults' \in 0..MaxRunFaults
    PROVE  ClientInv'
<1>1. /\ mem' = disk /\ disk' = disk /\ txs' = txs /\ proc' = Idle
      /\ proc'.step = "none" /\ proc'.at = "none" /\ proc'.file = "none"
  BY DEF Exit, Idle
<1>2. ClientTyped'
  <2>1. Idle \in Procs
    BY DEF Idle, Procs, Places
  <2> QED BY <1>1, <2>1 DEF ClientInv, ClientTyped
<1>3. FilesAreSound(disk)' /\ FilesAreSound(mem)'
  BY <1>1 DEF ClientInv, FilesAreSound, Committed
<1>4. StepsAreRecorded'
  BY <1>1 DEF ClientInv, StepsAreRecorded, OnFile
<1>5. RestIsSaved'
  BY <1>1 DEF RestIsSaved
<1>6. NothingBeforeSetup'
  BY <1>1 DEF ClientInv, NothingBeforeSetup, Labels
<1>7. ProcKnows'
  BY <1>1 DEF ProcKnows, Labels
<1> QED BY <1>2, <1>3, <1>4, <1>5, <1>6, <1>7 DEF ClientInv

LEMMA RunFaultIs == ClientInv /\ RunFault => runFaults' \in 0..MaxRunFaults
BY DEF ClientInv, ClientTyped, RunFault

(* The process goes on to another place, its files as they are.            *)
Here == proc.file = "none" /\ mem.shared = disk.shared /\ mem.alice = disk.alice
        /\ mem.bob = disk.bob

LEMMA HereIs == ASSUME ClientInv, NEW step, NEW at, RunAt(step, at)
                PROVE  Here /\ proc.step = step /\ proc.at = at
BY DEF ClientInv, RestIsSaved, RunAt, Here

LEMMA GotoKeeps ==
    ASSUME ClientInv, Here, NEW at \in Places, RunGoto(at), UNCHANGED <<mem, disk, txs, accounted>>,
           runFaults' \in 0..MaxRunFaults, proc.step \in Labels,
           at = "sent" => txs[proc.step] # <<>>,
           at = "wait" => mem.shared.pending[proc.step] # 0,
           at = "finalize" => Committed(proc.step) # {},
           at # "mark"
    PROVE  ClientInv'
<1>1. /\ proc' = [proc EXCEPT !.at = at] /\ proc' \in Procs
      /\ proc'.step = proc.step /\ proc'.file = "none" /\ proc'.at = at
  BY DEF RunGoto, ClientInv, ClientTyped, Procs, Here
<1>2. ClientTyped'
  BY <1>1 DEF ClientInv, ClientTyped
<1>3. FilesAreSound(disk)' /\ FilesAreSound(mem)'
  BY DEF ClientInv, FilesAreSound, Committed
<1>4. StepsAreRecorded'
  BY DEF ClientInv, StepsAreRecorded, OnFile
<1>5. RestIsSaved'
  BY <1>1 DEF RestIsSaved, Here
<1>6. NothingBeforeSetup'
  BY <1>1 DEF ClientInv, NothingBeforeSetup, Labels
<1>7. ProcKnows'
  BY <1>1 DEF ProcKnows, Labels, Committed
<1> QED BY <1>2, <1>3, <1>4, <1>5, <1>6, <1>7 DEF ClientInv

LEMMA BeginKeeps ==
    ASSUME ClientInv, BeginStep
    PROVE  ClientInv'
<1>1. PICK s \in Steps : Reached(s) /\ proc' = [step |-> s, at |-> "start", file |-> "none"]
  BY DEF BeginStep
<1>2. /\ mem' = disk /\ disk' = disk /\ txs' = txs /\ UNCHANGED <<accounted, runFaults>>
      /\ proc'.step = s /\ proc'.at = "start" /\ proc'.file = "none"
  BY <1>1 DEF BeginStep
<1>3. ClientTyped'
  <2>1. proc' \in Procs
    BY <1>1 DEF Procs, Places
  <2> QED BY <1>2, <2>1 DEF ClientInv, ClientTyped
<1>4. FilesAreSound(disk)' /\ FilesAreSound(mem)'
  BY <1>2 DEF ClientInv, FilesAreSound, Committed
<1>5. StepsAreRecorded'
  BY <1>2 DEF ClientInv, StepsAreRecorded, OnFile
<1>6. RestIsSaved'
  BY <1>2 DEF RestIsSaved
<1> DEFINE o == OrderedSteps
<1>7. /\ DOMAIN o = 1..12
      /\ o[1] = "setup" /\ o[2] = "deploy-type" /\ o[3] = "profile.alice"
      /\ o[4] = "profile.bob" /\ o[5] = "send" /\ o[6] = "receive" /\ o[7] = "respond"
      /\ o[8] = "ack-reclaim" /\ o[9] = "watch" /\ o[10] = "reconcile"
      /\ o[11] = "rotate.alice" /\ o[12] = "verify-rotation"
  BY DEF OrderedSteps
<1>8. PICK i \in 1..12 : o[i] = s /\ \A j \in 1..(i - 1) : o[j] \in disk.shared.steps \cup {"reconcile"}
  BY <1>1, <1>7 DEF Reached
<1>9. s # "setup" => "setup" \in disk.shared.steps
  <2> SUFFICES ASSUME s # "setup" PROVE "setup" \in disk.shared.steps
    OBVIOUS
  <2>1. i # 1
    BY <1>7, <1>8
  <2>2. 1 \in 1..(i - 1)
    BY <2>1
  <2> QED BY <1>7, <1>8, <2>2
<1>10. s = "reconcile" => Labels \ {"rotate.alice"} \subseteq disk.shared.steps
  <2> SUFFICES ASSUME s = "reconcile" PROVE Labels \ {"rotate.alice"} \subseteq disk.shared.steps
    OBVIOUS
  <2> HIDE DEF o
  <2>1. i = 10
    BY <1>7, <1>8
  <2>2. \A j \in 1..9 : o[j] \in disk.shared.steps \cup {"reconcile"}
    BY <1>8, <2>1
  <2>3. /\ o[2] \in disk.shared.steps \cup {"reconcile"} /\ o[3] \in disk.shared.steps \cup {"reconcile"}
        /\ o[4] \in disk.shared.steps \cup {"reconcile"} /\ o[5] \in disk.shared.steps \cup {"reconcile"}
        /\ o[7] \in disk.shared.steps \cup {"reconcile"} /\ o[8] \in disk.shared.steps \cup {"reconcile"}
    BY <2>2
  <2> QED BY <1>7, <2>3 DEF Labels
<1>11. NothingBeforeSetup'
  <2>1. "setup" \notin Labels
    BY DEF Labels
  <2> QED BY <1>1, <1>2, <1>9, <2>1 DEF ClientInv, NothingBeforeSetup, Reached
<1>12. ProcKnows'
  BY <1>2, <1>10 DEF ProcKnows
<1> QED BY <1>3, <1>4, <1>5, <1>6, <1>11, <1>12 DEF ClientInv

(* A file is renamed into place.                                           *)
LEMMA WriteFileKeeps ==
    ASSUME ClientInv, WriteFile
    PROVE  ClientInv'
<1>1. /\ mem' = mem /\ txs' = txs /\ UNCHANGED <<accounted, runFaults>>
      /\ proc.file \in {"shared", "alice", "bob"} /\ proc \in Procs
      /\ disk \in Files /\ mem \in Files
  BY DEF WriteFile, ClientInv, ClientTyped, Procs
<1>2. /\ disk' \in Files
      /\ disk'.shared = IF proc.file = "shared" THEN mem.shared ELSE disk.shared
      /\ disk'.alice = IF proc.file = "alice" THEN mem.alice ELSE disk.alice
      /\ disk'.bob = IF proc.file = "bob" THEN mem.bob ELSE disk.bob
  <2>1. CASE proc.file = "shared"
    BY <1>1, <2>1 DEF WriteFile, Files
  <2>2. CASE proc.file = "alice"
    BY <1>1, <2>2 DEF WriteFile, Files
  <2>3. CASE proc.file = "bob"
    BY <1>1, <2>3 DEF WriteFile, Files
  <2> QED BY <1>1, <2>1, <2>2, <2>3
<1>3. /\ proc' \in Procs /\ proc'.step = proc.step /\ proc'.at = proc.at
      /\ OneFile \/ proc.file = "bob" => proc'.file = "none"
      /\ ~OneFile /\ proc.file = "shared" => proc'.file = "alice"
      /\ ~OneFile /\ proc.file = "alice" => proc'.file = "bob"
  BY <1>1 DEF WriteFile, Procs
<1>4. OneFile' <=> OneFile
  BY <1>3 DEF OneFile
<1>5. ClientTyped'
  BY <1>1, <1>2, <1>3 DEF ClientInv, ClientTyped
<1>6. FilesAreSound(mem)'
  BY <1>1 DEF ClientInv, FilesAreSound, Committed
<1>7. FilesAreSound(disk)'
  <2>1. \A n \in Names : disk'[n] = disk[n] \/ disk'[n] = mem[n]
    BY <1>2 DEF Names
  <2>2. disk'.shared = disk.shared \/ disk'.shared = mem.shared
    BY <1>2
  <2> QED BY <1>1, <2>1, <2>2 DEF ClientInv, FilesAreSound, Committed
<1>8. StepsAreRecorded'
  <2>1. \A l \in Labels : OnFile(mem, l) /\ OnFile(disk, l) => OnFile(disk', l)
    <3>1. \A l \in Labels : disk'[Payer(l)] = disk[Payer(l)] \/ disk'[Payer(l)] = mem[Payer(l)]
      BY <1>2 DEF Payer
    <3> QED BY <1>2, <3>1 DEF OnFile
  <2>2. \A l \in Labels : OnFile(mem, l)' <=> OnFile(mem, l)
    BY <1>1 DEF OnFile
  <2>3. \A l \in Labels : OnFile(disk, l)' <=> OnFile(disk', l)
    BY DEF OnFile
  <2>4. disk'.shared.steps \subseteq mem.shared.steps
    BY <1>2 DEF ClientInv, StepsAreRecorded
  <2> QED BY <1>1, <2>1, <2>2, <2>3, <2>4 DEF ClientInv, StepsAreRecorded
<1>9. RestIsSaved'
  BY <1>1, <1>2, <1>3, <1>4 DEF ClientInv, RestIsSaved
<1>10. NothingBeforeSetup'
  <2>1. "setup" \in disk.shared.steps => "setup" \in disk'.shared.steps
    BY <1>2 DEF ClientInv, StepsAreRecorded
  <2>2. proc.file # "shared" => disk'.shared = disk.shared
    BY <1>2
  <2>3. proc.file # "shared" => proc'.file # "shared"
    BY <1>1, <1>3
  <2> QED BY <1>1, <1>3, <2>1, <2>2, <2>3 DEF ClientInv, NothingBeforeSetup
<1>11. ProcKnows'
  BY <1>1, <1>3 DEF ClientInv, ProcKnows, OnFile, Committed
<1> QED BY <1>5, <1>6, <1>7, <1>8, <1>9, <1>10, <1>11 DEF ClientInv

(* The chain moves on: what is committed stays, and no record is lost.     *)
LEMMA ChainKeeps ==
    ASSUME ClientInv, UNCHANGED <<disk, mem>>, accounted' = accounted,
           runFaults' \in 0..MaxRunFaults,
           txs' \in [Labels -> Seq({"pool", "committed", "dropped"})],
           \A l \in Labels : Len(txs'[l]) <= MaxTxs /\ Len(txs'[l]) >= Len(txs[l]),
           \A l \in Labels : Committed(l) \subseteq Committed(l)',
           "setup" \notin disk.shared.steps => txs' = txs,
           proc' = proc
    PROVE  ClientInv'
<1>1. ClientTyped'
  BY DEF ClientInv, ClientTyped
<1>2. /\ txs \in [Labels -> Seq({"pool", "committed", "dropped"})]
      /\ disk \in Files /\ mem \in Files
  BY DEF ClientInv, ClientTyped
<1>3. \A l \in Labels : Len(txs[l]) \in Nat /\ Len(txs'[l]) \in Nat
  BY <1>2
<1>4. \A n \in Names : disk[n].fees \subseteq Labels /\ mem[n].fees \subseteq Labels
  BY <1>2 DEF Names, Files, IdentityKind
<1>5. \A l \in Labels : disk.shared.pending[l] \in Nat /\ mem.shared.pending[l] \in Nat
  BY <1>2 DEF Files, SharedKind
<1>6. FilesAreSound(disk)'
  BY <1>3, <1>4, <1>5 DEF ClientInv, FilesAreSound
<1>7. FilesAreSound(mem)'
  BY <1>3, <1>4, <1>5 DEF ClientInv, FilesAreSound
<1>8. StepsAreRecorded'
  BY DEF ClientInv, StepsAreRecorded, OnFile
<1>9. RestIsSaved'
  BY DEF ClientInv, RestIsSaved, OneFile
<1>10. NothingBeforeSetup'
  BY DEF ClientInv, NothingBeforeSetup
<1>11. \A l \in Labels : txs[l] # <<>> => txs'[l] # <<>>
  BY <1>2, <1>3, EmptySeq
<1>12. ProcKnows'
  BY <1>11 DEF ClientInv, ProcKnows, OnFile
<1> QED BY <1>1, <1>6, <1>7, <1>8, <1>9, <1>10, <1>12 DEF ClientInv

LEMMA LandsKeeps ==
    ASSUME ClientInv, TxLands \/ TxDropped
    PROVE  ClientInv'
<1>1. PICK l \in Labels, i \in 1..MaxTxs, to \in {"committed", "dropped"} :
         i \in DOMAIN txs[l] /\ txs[l][i] = "pool" /\ txs' = [txs EXCEPT ![l][i] = to]
  BY DEF TxLands, TxDropped
<1>2. UNCHANGED <<disk, mem, proc, accounted>> /\ runFaults' \in 0..MaxRunFaults
  BY RunFaultIs DEF TxLands, TxDropped, ClientInv, ClientTyped
<1>3. /\ txs \in [Labels -> Seq({"pool", "committed", "dropped"})]
      /\ txs[l] \in Seq({"pool", "committed", "dropped"})
      /\ \A k \in Labels : Len(txs[k]) <= MaxTxs
  BY DEF ClientInv, ClientTyped
<1>4. PICK s : s = [txs[l] EXCEPT ![i] = to]
  OBVIOUS
<1>5. s \in Seq({"pool", "committed", "dropped"}) /\ Len(s) = Len(txs[l])
      /\ \A k \in 1..Len(txs[l]) : s[k] = IF k = i THEN to ELSE txs[l][k]
  <2>1. i \in 1..Len(txs[l])
    BY <1>1, <1>3
  <2> QED BY <1>3, <1>4, <2>1, ExceptSeq
<1>6. txs' = [txs EXCEPT ![l] = s]
  BY <1>1, <1>4
<1>7. txs' \in [Labels -> Seq({"pool", "committed", "dropped"})]
  BY <1>3, <1>5, <1>6
<1>8. \A k \in Labels : Len(txs'[k]) = Len(txs[k]) /\ Len(txs[k]) \in Nat
  BY <1>3, <1>5, <1>6
<1>9. \A k \in Labels : Committed(k) \subseteq Committed(k)'
  <2>1. TAKE k \in Labels
  <2>2. CASE k = l
    <3>1. DOMAIN txs'[k] = 1..Len(txs[l]) /\ DOMAIN txs[k] = 1..Len(txs[l])
      BY <1>3, <1>5, <1>6, <2>2
    <3>2. \A j \in 1..Len(txs[l]) : txs[k][j] = "committed" => txs'[k][j] = "committed"
      BY <1>1, <1>3, <1>5, <1>6, <2>2
    <3> QED BY <3>1, <3>2 DEF Committed
  <2>3. CASE k # l
    BY <1>3, <1>6, <2>3 DEF Committed
  <2> QED BY <2>2, <2>3
<1>10. "setup" \in disk.shared.steps
  <2>1. txs[l] # <<>>
    BY <1>1
  <2> QED BY <2>1 DEF ClientInv, NothingBeforeSetup
<1> QED BY <1>2, <1>3, <1>7, <1>8, <1>9, <1>10, ChainKeeps

LEMMA DoneKeeps == ASSUME ClientInv, Done PROVE ClientInv'
BY ExitKeeps DEF Done, ClientInv, ClientTyped

LEMMA DieKeeps == ASSUME ClientInv, Die PROVE ClientInv'
BY ExitKeeps, RunFaultIs DEF Die, ClientInv, ClientTyped

LEMMA CheckKeeps ==
    ASSUME ClientInv, NEW label \in Labels, NEW ready, CheckStep(label, ready)
    PROVE  ClientInv'
<1>1. Here /\ proc.step = label
  BY HereIs DEF CheckStep
<1>2. UNCHANGED <<disk, txs, accounted, runFaults>> /\ accounted \in BOOLEAN
      /\ runFaults \in 0..MaxRunFaults
  BY DEF CheckStep, ClientInv, ClientTyped
<1>3. CASE Exit
  BY <1>2, <1>3, ExitKeeps
<1>4. CASE ~Exit
  <2>1. RunGoto(IF Resumable(label) THEN "wait" ELSE "send") /\ mem' = mem
    BY <1>4 DEF CheckStep
  <2>2. CASE Resumable(label)
    <3>1. RunGoto("wait") /\ mem.shared.pending[proc.step] # 0 /\ "wait" \in Places
      BY <1>1, <2>1, <2>2 DEF Resumable, Places
    <3> QED BY <1>1, <1>2, <2>1, <3>1, GotoKeeps
  <2>3. CASE ~Resumable(label)
    <3>1. RunGoto("send") /\ "send" \in Places
      BY <2>1, <2>3 DEF Places
    <3> QED BY <1>1, <1>2, <2>1, <3>1, GotoKeeps
  <2> QED BY <2>2, <2>3
<1> QED BY <1>3, <1>4

LEMMA WaitKeeps ==
    ASSUME ClientInv, NEW label \in Labels, WaitForCommit(label)
    PROVE  ClientInv'
<1>1. Here /\ proc.step = label /\ proc.at = "wait"
  BY HereIs DEF WaitForCommit
<1>2. UNCHANGED <<disk, txs, accounted>> /\ accounted \in BOOLEAN
  BY DEF WaitForCommit, ClientInv, ClientTyped
<1>3. PICK state : state = txs[label][mem.shared.pending[label]]
  OBVIOUS
<1>4. CASE state = "committed"
  <2>1. RunGoto("finalize") /\ UNCHANGED <<mem, runFaults>> /\ "finalize" \in Places
    BY <1>3, <1>4 DEF WaitForCommit, Places
  <2>2. mem.shared.pending[label] \in DOMAIN txs[label]
    <3>1. /\ mem.shared.pending[label] \in Nat /\ mem.shared.pending[label] <= Len(txs[label])
          /\ txs[label] \in Seq({"pool", "committed", "dropped"})
      BY DEF ClientInv, ClientTyped, FilesAreSound, Files, SharedKind
    <3>2. mem.shared.pending[label] # 0
      BY <1>1 DEF ClientInv, ProcKnows
    <3> QED BY <3>1, <3>2
  <2>3. Committed(proc.step) # {}
    BY <1>1, <1>3, <1>4, <2>2 DEF Committed
  <2>4. runFaults' \in 0..MaxRunFaults
    BY <2>1 DEF ClientInv, ClientTyped
  <2> QED BY <1>1, <1>2, <2>1, <2>3, <2>4, GotoKeeps
<1>5. CASE state # "committed"
  <2>1. Exit /\ (RunFault \/ runFaults' = runFaults)
    BY <1>3, <1>5 DEF WaitForCommit
  <2>2. runFaults' \in 0..MaxRunFaults
    BY <2>1, RunFaultIs DEF ClientInv, ClientTyped
  <2> QED BY <1>2, <2>1, <2>2, ExitKeeps
<1> QED BY <1>4, <1>5

(* What the process sets down in memory and begins to save.                *)
SaveFrom(file, at) == proc' = [proc EXCEPT !.at = at, !.file = file]

LEMMA SaveIs ==
    ASSUME ClientInv, NEW file \in {"shared", "alice", "bob"}, NEW at \in Places,
           SaveFrom(file, at)
    PROVE  /\ proc' \in Procs /\ proc'.step = proc.step /\ proc'.at = at
           /\ proc'.file = file
BY DEF SaveFrom, ClientInv, ClientTyped, Procs

(* A step that has its process write down more than is recorded.           *)
LEMMA MoreKeeps ==
    ASSUME ClientInv, Here, UNCHANGED <<disk, txs, accounted, runFaults>>,
           NEW file \in {"shared", "alice", "bob"}, NEW at \in Places, SaveFrom(file, at),
           mem' \in Files, FilesAreSound(mem'),
           file # "shared" => mem'.shared = mem.shared,
           file = "bob" => mem'.alice = mem.alice,
           OneFile' => /\ file # "alice" => mem'.alice = mem.alice
                       /\ file # "bob" => mem'.bob = mem.bob,
           mem.shared.steps \subseteq mem'.shared.steps,
           \A l \in Labels : OnFile(mem, l) => OnFile(mem', l),
           \A l \in Labels : l \in mem'.shared.steps => l \in mem.shared.steps \/ OnFile(mem, l),
           proc.at # "done", proc.step = "setup" => at = "done" \/ file # "shared",
           at \notin {"sent", "finalize"},
           proc.step \in Labels => /\ at = "wait" => mem'.shared.pending[proc.step] # 0
                                   /\ at = "mark" => /\ OnFile(mem', proc.step)
                                                     /\ proc.step = "deploy-type" => mem'.shared.deployed,
           proc.step # "reconcile"
    PROVE  ClientInv'
<1>1. /\ proc' \in Procs /\ proc'.step = proc.step /\ proc'.at = at
      /\ proc'.file = file
  BY SaveIs
<1>2. ClientTyped'
  BY <1>1 DEF ClientInv, ClientTyped
<1>3. FilesAreSound(mem)' /\ FilesAreSound(disk)'
  BY DEF ClientInv, FilesAreSound, Committed
<1>4. StepsAreRecorded'
  <2>1. \A l \in Labels : OnFile(mem, l) <=> OnFile(disk, l)
    <3>1. \A l \in Labels : mem[Payer(l)] = disk[Payer(l)]
      BY DEF Here, Payer
    <3> QED BY <3>1 DEF OnFile, Here
  <2>2. \A l \in Labels : (OnFile(mem, l)' <=> OnFile(mem', l))
                          /\ (OnFile(disk, l)' <=> OnFile(disk, l))
    BY DEF OnFile
  <2> QED BY <2>1, <2>2 DEF ClientInv, StepsAreRecorded
<1>5. RestIsSaved'
  BY <1>1 DEF RestIsSaved, Here
<1>6. NothingBeforeSetup'
  BY <1>1 DEF ClientInv, NothingBeforeSetup
<1>7. ProcKnows'
  <2>1. proc.step \in Labels => (OnFile(mem, proc.step)' <=> OnFile(mem', proc.step))
    BY <1>1 DEF OnFile
  <2> QED BY <1>1, <2>1 DEF ProcKnows, OnFile
<1> QED BY <1>2, <1>3, <1>4, <1>5, <1>6, <1>7 DEF ClientInv

(* A transaction in the pool, whether the answer comes or not.             *)
LEMMA SendKeeps ==
    ASSUME ClientInv, NEW label \in Labels, SendTx(label)
    PROVE  ClientInv'
<1>1. Here /\ proc.step = label /\ proc.at = "send"
  BY HereIs DEF SendTx
<1>2. UNCHANGED <<disk, accounted>> /\ accounted \in BOOLEAN /\ Len(txs[label]) < MaxTxs
  BY DEF SendTx, ClientInv, ClientTyped
<1>3. CASE InPool(label)
  <2>1. Exit /\ UNCHANGED <<txs, runFaults>>
    BY <1>3 DEF SendTx
  <2> QED BY <1>2, <2>1, ExitKeeps DEF ClientInv, ClientTyped
<1>4. CASE ~InPool(label)
  <2>1. /\ txs' = [txs EXCEPT ![label] = Append(@, "pool")]
        /\ \/ RunGoto("sent") /\ UNCHANGED <<mem, runFaults>>
           \/ Exit /\ RunFault
    BY <1>4 DEF SendTx
  <2>2. /\ txs \in [Labels -> Seq({"pool", "committed", "dropped"})]
        /\ txs[label] \in Seq({"pool", "committed", "dropped"})
        /\ \A k \in Labels : Len(txs[k]) <= MaxTxs
    BY DEF ClientInv, ClientTyped
  <2>3. PICK s : s = Append(txs[label], "pool")
    OBVIOUS
  <2>4. /\ s \in Seq({"pool", "committed", "dropped"}) /\ Len(s) = Len(txs[label]) + 1
        /\ \A k \in 1..Len(txs[label]) : s[k] = txs[label][k]
    BY <2>2, <2>3, AppendProperties
  <2>5. txs' = [txs EXCEPT ![label] = s]
    BY <2>1, <2>3
  <2>6. txs' \in [Labels -> Seq({"pool", "committed", "dropped"})]
    BY <2>2, <2>4, <2>5
  <2>7. \A k \in Labels : Len(txs'[k]) <= MaxTxs /\ Len(txs'[k]) >= Len(txs[k])
    BY <1>2, <2>2, <2>4, <2>5 DEF MaxTxs
  <2>8. \A k \in Labels : Committed(k) \subseteq Committed(k)'
    <3>1. TAKE k \in Labels
    <3>2. CASE k = label
      BY <2>2, <2>4, <2>5, <3>2 DEF Committed
    <3>3. CASE k # label
      BY <2>2, <2>5, <3>3 DEF Committed
    <3> QED BY <3>2, <3>3
  <2>9. "setup" \in disk.shared.steps /\ txs'[label] # <<>>
    BY <1>1, <2>2, <2>4, <2>5, EmptySeq DEF ClientInv, NothingBeforeSetup
  (* Seen as two steps: the chain's, and the process's.                    *)
  <2>10. /\ FilesAreSound(disk)' /\ ClientTyped'
         /\ mem' = mem => FilesAreSound(mem)'
         /\ mem' = disk => FilesAreSound(mem)'
    <3>1. \A k \in Labels : Len(txs[k]) \in Nat /\ Len(txs'[k]) \in Nat
      BY <2>2, <2>6
    <3>2. disk \in Files /\ mem \in Files
      BY DEF ClientInv, ClientTyped
    <3>3. \A n \in Names : disk[n].fees \subseteq Labels /\ mem[n].fees \subseteq Labels
      BY <3>2 DEF Names, Files, IdentityKind
    <3>4. \A l \in Labels : disk.shared.pending[l] \in Nat /\ mem.shared.pending[l] \in Nat
      BY <3>2 DEF Files, SharedKind
    <3>5. FilesAreSound(disk)'
      BY <1>2, <2>7, <2>8, <3>1, <3>3, <3>4 DEF ClientInv, FilesAreSound
    <3>6. mem' = mem => FilesAreSound(mem)'
      BY <1>2, <2>7, <2>8, <3>1, <3>3, <3>4 DEF ClientInv, FilesAreSound
    <3>7. mem' = disk => FilesAreSound(mem)'
      BY <1>2, <3>5 DEF FilesAreSound
    <3>8. ClientTyped'
      <4>1. proc' \in Procs
        <5>1. proc \in Procs /\ "sent" \in Places /\ Idle \in Procs
          BY DEF ClientInv, ClientTyped, Procs, Places, Idle
        <5>2. proc' = Idle \/ proc' = [proc EXCEPT !.at = "sent"]
          BY <2>1 DEF RunGoto, Exit
        <5> QED BY <5>1, <5>2 DEF Procs
      <4>2. mem' \in Files /\ runFaults' \in 0..MaxRunFaults
        BY <2>1, <3>2, RunFaultIs DEF Exit, ClientInv, ClientTyped
      <4> QED BY <1>2, <2>6, <2>7, <3>2, <4>1, <4>2 DEF ClientTyped
    <3> QED BY <3>5, <3>6, <3>7, <3>8
  <2>11. CASE RunGoto("sent") /\ mem' = mem
    <3>1. proc'.step = label /\ proc'.at = "sent" /\ proc'.file = "none"
      BY <1>1, <2>11 DEF RunGoto, Here, ClientInv, ClientTyped, Procs
    <3>2. StepsAreRecorded' /\ RestIsSaved'
      BY <1>1, <1>2, <2>11, <3>1 DEF ClientInv, StepsAreRecorded, OnFile, RestIsSaved, Here
    <3>3. NothingBeforeSetup'
      BY <1>1, <1>2, <2>9, <3>1 DEF NothingBeforeSetup, Labels
    <3>4. ProcKnows'
      BY <2>9, <3>1 DEF ProcKnows, Labels
    <3> QED BY <2>10, <2>11, <3>2, <3>3, <3>4 DEF ClientInv
  <2>12. CASE Exit
    <3>1. mem' = disk /\ proc'.step = "none" /\ proc'.file = "none" /\ proc'.at = "none"
      BY <2>12 DEF Exit, Idle
    <3>2. StepsAreRecorded' /\ RestIsSaved'
      BY <1>2, <3>1 DEF ClientInv, StepsAreRecorded, OnFile, RestIsSaved
    <3>3. NothingBeforeSetup' /\ ProcKnows'
      BY <1>2, <2>9, <3>1 DEF NothingBeforeSetup, ProcKnows, Labels
    <3> QED BY <2>10, <3>1, <3>2, <3>3 DEF ClientInv
  <2> QED BY <2>1, <2>11, <2>12
<1> QED BY <1>3, <1>4

LEMMA SavesAre ==
    /\ \A at : SaveThen(at) <=> SaveFrom("shared", at)
    /\ \A at, n : SaveIdentityThen(n, at) <=> SaveFrom(n, at)
BY DEF SaveThen, SaveIdentityThen, SaveFrom

LEMMA RecordPendingKeeps ==
    ASSUME ClientInv, NEW label \in Labels, RecordPending(label)
    PROVE  ClientInv'
<1>1. Here /\ proc.step = label /\ proc.at = "sent"
  BY HereIs DEF RecordPending
<1>2. UNCHANGED <<disk, txs, accounted, runFaults>>
  BY DEF RecordPending
<1>3. SaveFrom("shared", "wait") /\ "wait" \in Places
  BY SavesAre DEF RecordPending, Places
<1>4. PICK n : n = Len(txs[label])
  OBVIOUS
<1>5. n \in Nat /\ n # 0
  BY <1>1, <1>4, EmptySeq DEF ClientInv, ClientTyped, ProcKnows
<1>6. mem \in Files /\ mem' = [mem EXCEPT !.shared.pending[label] = n]
  BY <1>4 DEF RecordPending, ClientInv, ClientTyped
<1>7. /\ mem' \in Files /\ mem'.alice = mem.alice /\ mem'.bob = mem.bob
      /\ mem'.shared.steps = mem.shared.steps /\ mem'.shared.deployed = mem.shared.deployed
      /\ mem'.shared.pending = [mem.shared.pending EXCEPT ![label] = n]
  <2>1. mem.shared \in SharedKind /\ mem.shared.pending \in [Labels -> Nat]
    BY <1>6 DEF Files, SharedKind
  <2>2. [mem.shared.pending EXCEPT ![label] = n] \in [Labels -> Nat]
    BY <1>5, <2>1
  <2>3. PICK q : q = [mem.shared.pending EXCEPT ![label] = n]
    OBVIOUS
  <2>4. mem' = [mem EXCEPT !.shared = [mem.shared EXCEPT !.pending = q]]
    BY <1>6, <2>3
  <2>5. PICK sh : sh = [mem.shared EXCEPT !.pending = q]
    OBVIOUS
  <2>6. sh \in SharedKind /\ sh.steps = mem.shared.steps /\ sh.deployed = mem.shared.deployed
        /\ sh.pending = q
    BY <2>1, <2>2, <2>3, <2>5 DEF SharedKind
  <2>7. mem' = [mem EXCEPT !.shared = sh]
    BY <2>4, <2>5
  <2> QED BY <1>6, <2>3, <2>6, <2>7 DEF Files
<1>8. FilesAreSound(mem')
  <2>1. \A m \in Names : mem'[m] = mem[m]
    BY <1>7 DEF Names
  <2>2. \A l \in Labels : mem'.shared.pending[l] <= Len(txs[l])
    <3>1. TAKE l \in Labels
    <3>2. mem.shared.pending \in [Labels -> Nat]
      BY <1>6 DEF Files, SharedKind
    <3>3. mem.shared.pending[l] <= Len(txs[l])
      BY DEF ClientInv, FilesAreSound
    <3>4. CASE l = label
      <4>1. mem'.shared.pending[l] = n
        BY <1>7, <3>2, <3>4
      <4> QED BY <1>4, <1>5, <3>4, <4>1
    <3>5. CASE l # label
      BY <1>7, <3>2, <3>3, <3>5
    <3> QED BY <3>4, <3>5
  <2> QED BY <1>7, <2>1, <2>2 DEF ClientInv, FilesAreSound
<1>9. \A l \in Labels : OnFile(mem, l) => OnFile(mem', l)
  BY <1>7 DEF OnFile, Payer
<1>10. mem'.shared.pending[label] # 0
  BY <1>5, <1>6, <1>7 DEF Files, SharedKind
<1>11. label # "setup" /\ label # "reconcile"
  BY DEF Labels
<1> QED BY <1>1, <1>2, <1>3, <1>7, <1>8, <1>9, <1>10, <1>11, MoreKeeps

(* What the finalize callback makes of the files.                          *)
Finalizes(label, final) ==
    /\ final \in Files /\ FilesAreSound(final)
    /\ final.shared.steps = mem.shared.steps /\ final.shared.pending = mem.shared.pending
    /\ OnFile(final, label) /\ \A l \in Labels : OnFile(mem, l) => OnFile(final, l)
    /\ label = "deploy-type" => final.shared.deployed

LEMMA FinalizeKeeps ==
    ASSUME ClientInv, NEW label \in Labels, NEW final, FinalizeTx(label, final),
           Committed(label) # {} => Finalizes(label, final)
    PROVE  ClientInv'
<1>1. Here /\ proc.step = label /\ proc.at = "finalize"
  BY HereIs DEF FinalizeTx
<1>2. Finalizes(label, final)
  BY <1>1 DEF ClientInv, ProcKnows
<1>3. UNCHANGED <<disk, txs, accounted, runFaults>> /\ mem' = final
  BY DEF FinalizeTx
<1>4. SaveFrom("shared", "mark") /\ "mark" \in Places
  BY SavesAre DEF FinalizeTx, Places
<1>5. \A l \in Labels : OnFile(mem, l) => OnFile(mem', l)
  BY <1>2, <1>3 DEF Finalizes
<1>6. OnFile(mem', label) /\ (label = "deploy-type" => mem'.shared.deployed)
      /\ mem' \in Files /\ FilesAreSound(mem') /\ mem'.shared.steps = mem.shared.steps
  BY <1>2, <1>3 DEF Finalizes
<1>7. label # "setup" /\ label # "reconcile"
  BY DEF Labels
<1>8. ~OneFile'
  BY <1>1, <1>4, <1>7, SaveIs DEF OneFile
<1> QED BY <1>1, <1>3, <1>4, <1>5, <1>6, <1>7, <1>8, MoreKeeps

LEMMA MarkKeeps ==
    ASSUME ClientInv, NEW label \in Labels, MarkStep(label)
    PROVE  ClientInv'
<1>1. Here /\ proc.step = label /\ proc.at = "mark"
  BY HereIs DEF MarkStep
<1>2. UNCHANGED <<disk, txs, accounted, runFaults>>
  BY DEF MarkStep
<1>3. SaveFrom("shared", "done") /\ "done" \in Places
  BY SavesAre DEF MarkStep, Places
<1>4. mem \in Files /\ mem.shared \in SharedKind /\ mem.shared.pending \in [Labels -> Nat]
      /\ mem.shared.steps \in SUBSET Steps
  BY DEF ClientInv, ClientTyped, Files, SharedKind
<1>5. PICK q : q = [mem.shared.pending EXCEPT ![label] = 0]
  OBVIOUS
<1>6. q \in [Labels -> Nat] /\ \A l \in Labels : q[l] = mem.shared.pending[l] \/ q[l] = 0
  BY <1>4, <1>5
<1>7. PICK more : more = mem.shared.steps \cup {label}
  OBVIOUS
<1>8. PICK sh : sh = [mem.shared EXCEPT !.steps = more, !.pending = q]
  OBVIOUS
<1>9. /\ sh \in SharedKind /\ sh.steps = more /\ sh.deployed = mem.shared.deployed
      /\ sh.pending = q
  BY <1>4, <1>6, <1>7, <1>8, NamesAndLabels DEF SharedKind
<1>10. mem' = [mem EXCEPT !.shared = sh]
  BY <1>4, <1>5, <1>7, <1>8 DEF MarkStep, Files, SharedKind
<1>11. /\ mem' \in Files /\ mem'.alice = mem.alice /\ mem'.bob = mem.bob /\ mem'.shared = sh
  BY <1>4, <1>9, <1>10 DEF Files
<1>12. OnFile(mem, label) /\ (label = "deploy-type" => mem.shared.deployed)
  BY <1>1 DEF ClientInv, ProcKnows
<1>13. FilesAreSound(mem')
  <2>1. \A m \in Names : mem'[m] = mem[m]
    BY <1>11 DEF Names
  <2>2. \A l \in Labels : sh.pending[l] <= Len(txs[l])
    <3>1. \A l \in Labels : Len(txs[l]) \in Nat
      BY DEF ClientInv, ClientTyped
    <3> QED BY <1>6, <1>9, <3>1 DEF ClientInv, FilesAreSound
  <2>3. "deploy-type" \in sh.steps => sh.deployed
    BY <1>7, <1>9, <1>12 DEF ClientInv, FilesAreSound
  <2> QED BY <1>11, <2>1, <2>2, <2>3 DEF ClientInv, FilesAreSound
<1>14. \A l \in Labels : OnFile(mem, l) => OnFile(mem', l)
  BY <1>11 DEF OnFile, Payer
<1>15. \A l \in Labels : l \in mem'.shared.steps => l \in mem.shared.steps \/ OnFile(mem, l)
  BY <1>7, <1>9, <1>11, <1>12
<1>16. mem.shared.steps \subseteq mem'.shared.steps
  BY <1>7, <1>9, <1>11
<1>17. label # "setup" /\ label # "reconcile"
  BY DEF Labels
<1> QED BY <1>1, <1>2, <1>3, <1>11, <1>13, <1>14, <1>15, <1>16, <1>17, MoreKeeps

LEMMA FinalIs ==
    ASSUME ClientInv, NEW label \in Labels, Committed(label) # {},
           NEW final \in Files, final.shared.steps = mem.shared.steps,
           final.shared.pending = mem.shared.pending,
           mem.shared.deployed \/ label = "deploy-type" => final.shared.deployed,
           final.alice.fees = mem.alice.fees \cup (IF Payer(label) = "alice" THEN {label} ELSE {}),
           final.bob.fees = mem.bob.fees \cup (IF Payer(label) = "bob" THEN {label} ELSE {}),
           mem.alice.profile \/ label = "profile.alice" => final.alice.profile,
           mem.bob.profile \/ label = "profile.bob" => final.bob.profile
    PROVE  Finalizes(label, final)
<1>1. FilesAreSound(mem) /\ mem \in Files
  BY DEF ClientInv, ClientTyped
<1>2. FilesAreSound(final)
  <2>1. \A n \in Names : \A l \in final[n].fees : Payer(l) = n /\ Committed(l) # {}
    <3>1. \A l \in final.alice.fees : Payer(l) = "alice" /\ Committed(l) # {}
      BY <1>1 DEF FilesAreSound, Names
    <3>2. \A l \in final.bob.fees : Payer(l) = "bob" /\ Committed(l) # {}
      BY <1>1 DEF FilesAreSound, Names
    <3> QED BY <3>1, <3>2 DEF Names
  <2>2. \A l \in Labels : final.shared.pending[l] <= Len(txs[l])
    BY <1>1 DEF FilesAreSound
  <2>3. "deploy-type" \in final.shared.steps => final.shared.deployed
    BY <1>1 DEF FilesAreSound
  <2> QED BY <2>1, <2>2, <2>3 DEF FilesAreSound
<1>3. OnFile(final, label)
  BY DEF OnFile, Payer
<1>4. \A l \in Labels : OnFile(mem, l) => OnFile(final, l)
  BY DEF OnFile, Payer
<1> QED BY <1>2, <1>3, <1>4 DEF Finalizes

LEMMA PaidIs ==
    ASSUME ClientInv, NEW label \in Labels
    PROVE  /\ Paid(label) \in Files /\ Paid(label).shared = mem.shared
           /\ Paid(label).alice.fees
                  = mem.alice.fees \cup (IF Payer(label) = "alice" THEN {label} ELSE {})
           /\ Paid(label).bob.fees
                  = mem.bob.fees \cup (IF Payer(label) = "bob" THEN {label} ELSE {})
           /\ Paid(label).alice.profile = mem.alice.profile
           /\ Paid(label).bob.profile = mem.bob.profile
<1>1. mem \in Files /\ mem.alice \in IdentityKind /\ mem.bob \in IdentityKind
  BY DEF ClientInv, ClientTyped, Files
<1>2. CASE Payer(label) = "alice"
  <2>1. PICK fees : fees = mem.alice.fees \cup {label}
    OBVIOUS
  <2>2. PICK me : me = [mem.alice EXCEPT !.fees = fees]
    OBVIOUS
  <2>3. me \in IdentityKind /\ me.fees = fees /\ me.profile = mem.alice.profile
    BY <1>1, <2>1, <2>2 DEF IdentityKind
  <2>4. Paid(label) = [mem EXCEPT !.alice = me]
    BY <1>1, <1>2, <2>1, <2>2 DEF Paid, Files
  <2> QED BY <1>1, <1>2, <2>1, <2>3, <2>4 DEF Files
<1>3. CASE Payer(label) = "bob"
  <2>1. PICK fees : fees = mem.bob.fees \cup {label}
    OBVIOUS
  <2>2. PICK me : me = [mem.bob EXCEPT !.fees = fees]
    OBVIOUS
  <2>3. me \in IdentityKind /\ me.fees = fees /\ me.profile = mem.bob.profile
    BY <1>1, <2>1, <2>2 DEF IdentityKind
  <2>4. Paid(label) = [mem EXCEPT !.bob = me]
    BY <1>1, <1>3, <2>1, <2>2 DEF Paid, Files
  <2> QED BY <1>1, <1>3, <2>1, <2>3, <2>4 DEF Files
<1> QED BY <1>2, <1>3, NamesAndLabels

(* No transaction of a label is sent while another may still come.         *)
LEMMA LenIsNat == ASSUME ClientInv, NEW l \in Labels PROVE Len(txs[l]) \in Nat
BY DEF ClientInv, ClientTyped

LEMMA QuietSettles ==
    ASSUME ClientSettled, UNCHANGED txs, LastIsOpen(disk'), LastIsOpen(mem'),
           \A l \in Labels : l \in mem'.shared.steps => l \in mem.shared.steps \/ ~InPool(l),
           \A l \in Under({"finalize", "mark"})' : ~InPool(l),
           \A l \in Labels : proc'.step = l /\ proc'.at # "done" => l \notin mem'.shared.steps,
           \A l \in Under({"send", "sent"})' : mem'.shared.pending[l] = 0
    PROVE  ClientSettled'
<1>1. \A l \in Labels : InPool(l)' <=> InPool(l)
  BY DEF InPool
<1>2. LastIsOpen(disk)' /\ LastIsOpen(mem)'
  BY DEF LastIsOpen
<1>3. \A l \in Labels : l \in mem'.shared.steps \/ l \in Under({"finalize", "mark"})' => ~InPool(l)
  BY DEF ClientSettled
<1> QED BY <1>1, <1>2, <1>3 DEF ClientSettled

LEMMA ExitSettles ==
    ASSUME ClientInv, ClientSettled, Exit, UNCHANGED <<disk, txs>>
    PROVE  ClientSettled'
<1>1. mem' = disk /\ proc'.step = "none" /\ proc'.at = "none"
  BY DEF Exit, Idle
<1>2. \A l \in Labels : l \in disk.shared.steps => l \in mem.shared.steps
  BY DEF ClientInv, StepsAreRecorded
<1>3. LastIsOpen(disk) /\ \A l \in Labels : l # "none"
  BY DEF ClientSettled, Labels
<1>4. Under({"finalize", "mark"})' = {} /\ Under({"send", "sent"})' = {}
  BY <1>1 DEF Under
<1> QED BY <1>1, <1>2, <1>3, <1>4, QuietSettles

LEMMA GotoSettles ==
    ASSUME ClientInv, ClientSettled, UNCHANGED <<disk, mem, txs>>, NEW at \in Places, RunGoto(at),
           proc.at # "done", at \in {"send", "sent"} => mem.shared.pending[proc.step] = 0,
           at \in {"finalize", "mark"} => proc.step \in Labels /\ ~InPool(proc.step)
    PROVE  ClientSettled'
<1>1. proc'.step = proc.step /\ proc'.at = at
  BY DEF RunGoto, ClientInv, ClientTyped, Procs
<1>2. LastIsOpen(disk) /\ LastIsOpen(mem)
      /\ \A l \in Labels : proc.step = l => l \notin mem.shared.steps
  BY DEF ClientSettled
<1>3. /\ \A l \in Under({"finalize", "mark"})' : ~InPool(l)
      /\ \A l \in Under({"send", "sent"})' : mem'.shared.pending[l] = 0
  BY <1>1 DEF Under
<1> QED BY <1>1, <1>2, <1>3, QuietSettles

LEMMA SaveSettles ==
    ASSUME ClientInv, ClientSettled, UNCHANGED <<disk, txs>>,
           NEW file \in {"shared", "alice", "bob"}, NEW at \in Places, SaveFrom(file, at),
           at \notin {"send", "sent", "finalize"}, proc.at # "done",
           at = "mark" => proc.at = "finalize" \/ proc.step \notin Labels,
           LastIsOpen(mem'),
           \A l \in Labels : l \in mem'.shared.steps
                               => l \in mem.shared.steps
                                  \/ (l = proc.step /\ proc.at = "mark" /\ at = "done")
    PROVE  ClientSettled'
<1>1. proc'.step = proc.step /\ proc'.at = at
  BY SaveIs
<1>2. /\ LastIsOpen(disk)
      /\ \A l \in Labels : proc.step = l => l \notin mem.shared.steps
      /\ \A l \in Under({"finalize", "mark"}) : ~InPool(l)
  BY DEF ClientSettled, Under
<1>3. \A l \in Labels : l \in mem'.shared.steps => l \in mem.shared.steps \/ ~InPool(l)
  BY <1>2 DEF Under
<1>4. /\ \A l \in Under({"finalize", "mark"})' : ~InPool(l)
      /\ \A l \in Under({"send", "sent"})' : mem'.shared.pending[l] = 0
  BY <1>1, <1>2 DEF Under
<1> QED BY <1>1, <1>2, <1>3, <1>4, QuietSettles

LEMMA BeginSettles == ASSUME ClientInv, ClientSettled, BeginStep PROVE ClientSettled'
<1>1. PICK s \in Steps : Reached(s) /\ proc' = [step |-> s, at |-> "start", file |-> "none"]
  BY DEF BeginStep
<1>2. /\ mem' = disk /\ disk' = disk /\ txs' = txs /\ proc'.step = s /\ proc'.at = "start"
  BY <1>1 DEF BeginStep
<1>3. \A l \in Labels : l \in disk.shared.steps => l \in mem.shared.steps
  BY DEF ClientInv, StepsAreRecorded
<1>4. LastIsOpen(disk) /\ s \notin disk.shared.steps
  BY <1>1 DEF ClientSettled, Reached
<1>5. Under({"finalize", "mark"})' = {} /\ Under({"send", "sent"})' = {}
  BY <1>2 DEF Under
<1> QED BY <1>2, <1>3, <1>4, <1>5, QuietSettles

LEMMA WriteSettles == ASSUME ClientInv, ClientSettled, WriteFile PROVE ClientSettled'
<1>1. /\ mem' = mem /\ txs' = txs /\ proc \in Procs /\ disk \in Files /\ mem \in Files
      /\ proc.file \in {"shared", "alice", "bob"}
  BY DEF WriteFile, ClientInv, ClientTyped, Procs
<1>2. proc'.step = proc.step /\ proc'.at = proc.at
  BY <1>1 DEF WriteFile, Procs
<1>3. disk'.shared = disk.shared \/ disk'.shared = mem.shared
  <2>1. CASE proc.file = "shared"
    BY <1>1, <2>1 DEF WriteFile, Files
  <2>2. CASE proc.file = "alice"
    BY <1>1, <2>2 DEF WriteFile, Files
  <2>3. CASE proc.file = "bob"
    BY <1>1, <2>3 DEF WriteFile, Files
  <2> QED BY <1>1, <2>1, <2>2, <2>3
<1>4. LastIsOpen(disk') /\ LastIsOpen(mem')
  BY <1>1, <1>3 DEF ClientSettled, LastIsOpen
<1>5. /\ \A l \in Under({"finalize", "mark"})' : ~InPool(l)
      /\ \A l \in Under({"send", "sent"})' : mem'.shared.pending[l] = 0
  BY <1>1, <1>2 DEF ClientSettled, Under
<1>6. \A l \in Labels : proc'.step = l /\ proc'.at # "done" => l \notin mem'.shared.steps
  BY <1>1, <1>2 DEF ClientSettled
<1> QED BY <1>1, <1>4, <1>5, <1>6, QuietSettles

LEMMA LandsSettles == ASSUME ClientInv, ClientSettled, TxLands \/ TxDropped PROVE ClientSettled'
<1>1. PICK l \in Labels, i \in 1..MaxTxs, to \in {"committed", "dropped"} :
         i \in DOMAIN txs[l] /\ txs[l][i] = "pool" /\ txs' = [txs EXCEPT ![l][i] = to]
  BY DEF TxLands, TxDropped
<1>2. UNCHANGED <<disk, mem, proc>>
  BY DEF TxLands, TxDropped
<1>3. /\ txs \in [Labels -> Seq({"pool", "committed", "dropped"})]
      /\ txs[l] \in Seq({"pool", "committed", "dropped"})
  BY DEF ClientInv, ClientTyped
<1>4. PICK s : s = [txs[l] EXCEPT ![i] = to]
  OBVIOUS
<1>5. s \in Seq({"pool", "committed", "dropped"}) /\ Len(s) = Len(txs[l])
      /\ \A k \in 1..Len(txs[l]) : s[k] = IF k = i THEN to ELSE txs[l][k]
  <2>1. i \in 1..Len(txs[l])
    BY <1>1, <1>3
  <2> QED BY <1>3, <1>4, <2>1, ExceptSeq
<1>6. txs' = [txs EXCEPT ![l] = s]
  BY <1>1, <1>4
<1>7. \A k \in Labels : Len(txs'[k]) = Len(txs[k]) /\ DOMAIN txs'[k] = DOMAIN txs[k]
  BY <1>3, <1>5, <1>6
<1>8. \A k \in Labels : \A j \in DOMAIN txs'[k] : txs'[k][j] = "pool" => txs[k][j] = "pool"
  <2>1. TAKE k \in Labels
  <2>2. CASE k = l
    <3>1. txs'[k] = s /\ DOMAIN s = 1..Len(txs[l])
      BY <1>3, <1>5, <1>6, <2>2
    <3>2. \A j \in 1..Len(txs[l]) : s[j] = "pool" => txs[l][j] = "pool"
      BY <1>1, <1>5
    <3> QED BY <2>2, <3>1, <3>2
  <2>3. CASE k # l
    BY <1>3, <1>6, <2>3
  <2> QED BY <2>2, <2>3
<1>9. \A k \in Labels : InPool(k)' => InPool(k)
  BY <1>7, <1>8 DEF InPool
<1>10. LastIsOpen(disk)' /\ LastIsOpen(mem)'
  BY <1>2, <1>7 DEF ClientSettled, LastIsOpen
<1>11. \A k \in Labels : \A j \in DOMAIN txs'[k] : txs'[k][j] = "pool" => j = Len(txs'[k])
  BY <1>7, <1>8 DEF ClientSettled
<1>12. /\ \A k \in Labels : k \in mem'.shared.steps \/ k \in Under({"finalize", "mark"})'
                              => ~InPool(k)'
  BY <1>2, <1>9 DEF ClientSettled, Under
<1>13. /\ \A k \in Labels : proc'.step = k /\ proc'.at # "done" => k \notin mem'.shared.steps
       /\ \A k \in Under({"send", "sent"})' : mem'.shared.pending[k] = 0
  BY <1>2 DEF ClientSettled, Under
<1> QED BY <1>10, <1>11, <1>12, <1>13 DEF ClientSettled

LEMMA CheckSettles ==
    ASSUME ClientInv, ClientSettled, NEW label \in Labels, NEW ready, CheckStep(label, ready)
    PROVE  ClientSettled'
<1>1. Here /\ proc.step = label /\ proc.at # "done"
  <2>1. PICK at : at = IF label = "ack-reclaim" THEN "acked" ELSE "start"
    OBVIOUS
  <2>2. RunAt(label, at) /\ at # "done"
    BY <2>1 DEF CheckStep
  <2> QED BY <2>2, HereIs
<1>2. UNCHANGED <<disk, txs>>
  BY DEF CheckStep
<1>3. CASE Exit
  BY <1>2, <1>3, ExitSettles
<1>4. CASE ~Exit
  <2>1. RunGoto(IF Resumable(label) THEN "wait" ELSE "send") /\ mem' = mem
    BY <1>4 DEF CheckStep
  <2>2. CASE Resumable(label)
    <3>1. RunGoto("wait") /\ "wait" \in Places
      BY <2>1, <2>2 DEF Places
    <3> QED BY <1>1, <1>2, <2>1, <3>1, GotoSettles
  <2>3. CASE ~Resumable(label)
    <3>1. RunGoto("send") /\ "send" \in Places /\ mem.shared.pending[proc.step] = 0
      BY <1>1, <2>1, <2>3 DEF Places, Resumable
    <3> QED BY <1>1, <1>2, <2>1, <3>1, GotoSettles
  <2> QED BY <2>2, <2>3
<1> QED BY <1>3, <1>4

LEMMA SendSettles ==
    ASSUME ClientInv, ClientSettled, NEW label \in Labels, SendTx(label)
    PROVE  ClientSettled'
<1>1. Here /\ proc.step = label /\ proc.at = "send"
  BY HereIs DEF SendTx
<1>2. UNCHANGED disk /\ "sent" \in Places
  BY DEF SendTx, Places
<1>3. CASE InPool(label)
  BY <1>2, <1>3, ExitSettles DEF SendTx
<1>4. CASE ~InPool(label)
  <2>1. /\ txs' = [txs EXCEPT ![label] = Append(@, "pool")]
        /\ \/ RunGoto("sent") /\ UNCHANGED mem
           \/ Exit
    BY <1>4 DEF SendTx
  <2>2. /\ txs \in [Labels -> Seq({"pool", "committed", "dropped"})]
        /\ txs[label] \in Seq({"pool", "committed", "dropped"})
    BY DEF ClientInv, ClientTyped
  <2>3. PICK s : s = Append(txs[label], "pool")
    OBVIOUS
  <2>4. /\ s \in Seq({"pool", "committed", "dropped"}) /\ Len(s) = Len(txs[label]) + 1
        /\ \A k \in 1..Len(txs[label]) : s[k] = txs[label][k]
    BY <2>2, <2>3, AppendProperties
  <2>5. txs'[label] = s /\ \A k \in Labels : k # label => txs'[k] = txs[k]
    BY <2>1, <2>2, <2>3
  <2>6. \A k \in Labels : \A j \in DOMAIN txs'[k] : txs'[k][j] = "pool" => j = Len(txs'[k])
    <3>1. \A j \in 1..Len(txs[label]) : txs[label][j] # "pool"
      BY <1>4, <2>2 DEF InPool
    <3>2. \A j \in DOMAIN s : s[j] = "pool" => j = Len(s)
      BY <2>2, <2>4, <3>1
    <3> QED BY <2>5, <3>2 DEF ClientSettled
  <2>7. mem.shared.pending[label] = 0 /\ disk.shared.pending[label] = 0
        /\ label \notin mem.shared.steps /\ label \notin disk.shared.steps
    BY <1>1 DEF ClientSettled, Under, Here
  <2>8. LastIsOpen(disk)' /\ LastIsOpen(mem)'
    <3>1. mem'.shared = mem.shared \/ mem'.shared = disk.shared
      BY <2>1 DEF Exit
    <3> QED BY <1>2, <2>5, <2>7, <3>1 DEF ClientSettled, LastIsOpen
  <2>9. \A k \in Labels : k # label => (InPool(k)' <=> InPool(k))
    BY <2>5 DEF InPool
  <2>10. mem'.shared.steps = mem.shared.steps
    BY <1>1, <2>1 DEF Exit, Here
  <2>11. /\ proc'.at \in {"sent", "none"} /\ proc'.step \in {label, "none"}
         /\ \A k \in Labels : k # "none"
    BY <1>1, <2>1 DEF RunGoto, Exit, Idle, ClientInv, ClientTyped, Procs, Labels
  <2>12. \A k \in Labels : k \in mem'.shared.steps \/ k \in Under({"finalize", "mark"})'
                             => ~InPool(k)'
    BY <2>7, <2>9, <2>10, <2>11 DEF ClientSettled, Under
  <2>13. /\ \A k \in Labels : proc'.step = k /\ proc'.at # "done" => k \notin mem'.shared.steps
         /\ \A k \in Under({"send", "sent"})' : mem'.shared.pending[k] = 0
    <3>1. mem'.shared.pending[label] = 0
      BY <1>1, <2>1, <2>7 DEF Exit
    <3> QED BY <2>7, <2>10, <2>11, <3>1 DEF Under
  <2> QED BY <2>6, <2>8, <2>12, <2>13 DEF ClientSettled
<1> QED BY <1>3, <1>4

LEMMA RecordPendingSettles ==
    ASSUME ClientInv, ClientSettled, NEW label \in Labels, RecordPending(label)
    PROVE  ClientSettled'
<1>1. Here /\ proc.step = label /\ proc.at = "sent"
  BY HereIs DEF RecordPending
<1>2. UNCHANGED <<disk, txs>>
  BY DEF RecordPending
<1>3. SaveFrom("shared", "wait") /\ "wait" \in Places
  BY SavesAre DEF RecordPending, Places
<1>4. PICK n : n = Len(txs[label])
  OBVIOUS
<1>5. mem \in Files /\ mem.shared \in SharedKind /\ mem.shared.pending \in [Labels -> Nat]
  BY DEF ClientInv, ClientTyped, Files, SharedKind
<1>6. PICK q : q = [mem.shared.pending EXCEPT ![label] = n]
  OBVIOUS
<1>7. mem'.shared.steps = mem.shared.steps /\ mem'.shared.pending = q
  <2>1. PICK sh : sh = [mem.shared EXCEPT !.pending = q]
    OBVIOUS
  <2>2. sh.steps = mem.shared.steps /\ sh.pending = q
    BY <1>5, <2>1 DEF SharedKind
  <2>3. mem' = [mem EXCEPT !.shared = sh]
    BY <1>4, <1>6, <2>1 DEF RecordPending
  <2> QED BY <1>5, <2>2, <2>3 DEF Files
<1>8. LastIsOpen(mem')
  <2>1. \A l \in Labels : q[l] # 0 => q[l] = Len(txs[l])
    BY <1>4, <1>5, <1>6 DEF ClientSettled, LastIsOpen
  <2> QED BY <1>7, <2>1 DEF LastIsOpen
<1>9. \A l \in Labels : l \in mem'.shared.steps => l \in mem.shared.steps
  BY <1>7
<1> QED BY <1>1, <1>2, <1>3, <1>8, <1>9, SaveSettles

LEMMA WaitSettles ==
    ASSUME ClientInv, ClientSettled, NEW label \in Labels, WaitForCommit(label)
    PROVE  ClientSettled'
<1>1. Here /\ proc.step = label /\ proc.at = "wait"
  BY HereIs DEF WaitForCommit
<1>2. UNCHANGED <<disk, txs>>
  BY DEF WaitForCommit
<1>3. PICK state : state = txs[label][mem.shared.pending[label]]
  OBVIOUS
<1>4. CASE state = "committed"
  <2>1. RunGoto("finalize") /\ mem' = mem /\ "finalize" \in Places
    BY <1>3, <1>4 DEF WaitForCommit, Places
  <2>2. mem.shared.pending[label] = Len(txs[label])
    BY <1>1 DEF ClientInv, ProcKnows, ClientSettled, LastIsOpen
  <2>3. ~InPool(label)
    <3>1. \A i \in DOMAIN txs[label] : txs[label][i] = "pool" => i = Len(txs[label])
      BY DEF ClientSettled
    <3> QED BY <1>3, <1>4, <2>2, <3>1 DEF InPool
  <2> QED BY <1>1, <1>2, <2>1, <2>3, GotoSettles
<1>5. CASE state # "committed"
  <2>1. Exit
    BY <1>3, <1>5 DEF WaitForCommit
  <2> QED BY <1>2, <2>1, ExitSettles
<1> QED BY <1>4, <1>5

LEMMA FinalizeSettles ==
    ASSUME ClientInv, ClientSettled, NEW label \in Labels, NEW final, FinalizeTx(label, final),
           Committed(label) # {} => Finalizes(label, final)
    PROVE  ClientSettled'
<1>1. Here /\ proc.step = label /\ proc.at = "finalize"
  BY HereIs DEF FinalizeTx
<1>2. Finalizes(label, final)
  BY <1>1 DEF ClientInv, ProcKnows
<1>3. UNCHANGED <<disk, txs>> /\ mem' = final
  BY DEF FinalizeTx
<1>4. SaveFrom("shared", "mark") /\ "mark" \in Places
  BY SavesAre DEF FinalizeTx, Places
<1>5. LastIsOpen(mem') /\ mem'.shared.steps = mem.shared.steps
  BY <1>2, <1>3 DEF Finalizes, ClientSettled, LastIsOpen
<1>6. \A l \in Labels : l \in mem'.shared.steps => l \in mem.shared.steps
  BY <1>5
<1> QED BY <1>1, <1>3, <1>4, <1>5, <1>6, SaveSettles

LEMMA MarkSettles ==
    ASSUME ClientInv, ClientSettled, NEW label \in Labels, MarkStep(label)
    PROVE  ClientSettled'
<1>1. Here /\ proc.step = label /\ proc.at = "mark"
  BY HereIs DEF MarkStep
<1>2. UNCHANGED <<disk, txs>>
  BY DEF MarkStep
<1>3. SaveFrom("shared", "done") /\ "done" \in Places
  BY SavesAre DEF MarkStep, Places
<1>4. mem \in Files /\ mem.shared \in SharedKind /\ mem.shared.pending \in [Labels -> Nat]
  BY DEF ClientInv, ClientTyped, Files, SharedKind
<1>5. PICK q : q = [mem.shared.pending EXCEPT ![label] = 0]
  OBVIOUS
<1>6. PICK more : more = mem.shared.steps \cup {label}
  OBVIOUS
<1>7. PICK sh : sh = [mem.shared EXCEPT !.steps = more, !.pending = q]
  OBVIOUS
<1>8. sh.steps = more /\ sh.pending = q
  BY <1>4, <1>7 DEF SharedKind
<1>9. mem' = [mem EXCEPT !.shared = sh]
  BY <1>4, <1>5, <1>6, <1>7 DEF MarkStep, Files, SharedKind
<1>10. mem'.shared = sh
  BY <1>4, <1>9 DEF Files
<1>11. LastIsOpen(mem')
  <2>1. \A l \in Labels : q[l] # 0 => q[l] = Len(txs[l])
    BY <1>4, <1>5 DEF ClientSettled, LastIsOpen
  <2> QED BY <1>8, <1>10, <2>1 DEF LastIsOpen
<1>12. \A l \in Labels : l \in mem'.shared.steps => l \in mem.shared.steps \/ l = proc.step
  BY <1>1, <1>6, <1>8, <1>10
<1> QED BY <1>1, <1>2, <1>3, <1>11, <1>12, SaveSettles

(* What every step keeps: the invariant, and that no transaction of a      *)
(* step that is done can come again.                                       *)
ClientKept == ClientInv' /\ (ClientSettled => ClientSettled')

(* The six callers.                                                        *)
LEMMA OneTransaction ==
    ASSUME ClientInv, NEW label \in Labels, NEW ready, NEW final,
           BroadcastAndCheckpoint(label, ready, final),
           Committed(label) # {} => Finalizes(label, final)
    PROVE  ClientKept
<1>1. ClientInv'
  BY CheckKeeps, SendKeeps, RecordPendingKeeps, WaitKeeps, FinalizeKeeps, MarkKeeps
     DEF BroadcastAndCheckpoint
<1>2. ClientSettled => ClientSettled'
  BY CheckSettles, SendSettles, RecordPendingSettles, WaitSettles, FinalizeSettles, MarkSettles
     DEF BroadcastAndCheckpoint
<1> QED BY <1>1, <1>2 DEF ClientKept

LEMMA DeployKeeps == ASSUME ClientInv, StepDeployType PROVE ClientKept
<1>1. "deploy-type" \in Labels
  BY DEF Labels
<1>2. PICK paid : paid = Paid("deploy-type")
  OBVIOUS
<1>3. PICK final : final = [paid EXCEPT !.shared.deployed = TRUE]
  OBVIOUS
<1>4. BroadcastAndCheckpoint("deploy-type", TRUE, final)
  BY <1>2, <1>3 DEF StepDeployType
<1>5. ASSUME Committed("deploy-type") # {} PROVE Finalizes("deploy-type", final)
  <2>1. /\ final \in Files /\ final.alice = paid.alice /\ final.bob = paid.bob
        /\ final.shared = [paid.shared EXCEPT !.deployed = TRUE]
    BY <1>1, <1>2, <1>3, PaidIs DEF Files, SharedKind
  <2>2. final.shared.steps = mem.shared.steps /\ final.shared.pending = mem.shared.pending
        /\ final.shared.deployed = TRUE
    BY <1>1, <1>2, <2>1, PaidIs DEF ClientInv, ClientTyped, Files, SharedKind
  <2> QED BY <1>1, <1>2, <1>5, <2>1, <2>2, PaidIs, FinalIs
<1> QED BY <1>1, <1>4, <1>5, OneTransaction

LEMMA ProfileKeeps ==
    ASSUME ClientInv, NEW name \in Names, NEW label \in Labels, label = "profile.alice" \/ label = "profile.bob",
           Payer(label) = name, CreateClientProfile(name, label)
    PROVE ClientKept
<1>2. PICK paid : paid = Paid(label)
  OBVIOUS
<1>3. PICK final : final = [paid EXCEPT !.shared.profiles = @ \cup {name}, ![name].profile = TRUE]
  OBVIOUS
<1>4. BroadcastAndCheckpoint(label, TRUE, final)
  BY <1>2, <1>3 DEF CreateClientProfile
<1>5. ASSUME Committed(label) # {} PROVE Finalizes(label, final)
  <2>1. paid \in Files /\ paid.shared = mem.shared
    BY <1>2, PaidIs
  <2>2. PICK profiles : profiles = paid.shared.profiles \cup {name}
    OBVIOUS
  <2>3. PICK sh : sh = [paid.shared EXCEPT !.profiles = profiles]
    OBVIOUS
  <2>4. PICK me : me = [paid[name] EXCEPT !.profile = TRUE]
    OBVIOUS
  <2>5. sh \in SharedKind /\ sh.steps = mem.shared.steps /\ sh.pending = mem.shared.pending
        /\ sh.deployed = mem.shared.deployed
    BY <2>1, <2>2, <2>3 DEF Files, SharedKind
  <2>6. paid[name] \in IdentityKind
    BY <2>1 DEF Files, Names
  <2>7. me \in IdentityKind /\ me.fees = paid[name].fees /\ me.profile = TRUE
    BY <2>4, <2>6 DEF IdentityKind
  <2>8. CASE name = "alice"
    <3>1. final = [paid EXCEPT !.shared = sh, !.alice = me]
      BY <1>3, <2>1, <2>2, <2>3, <2>4, <2>8 DEF Files
    <3>2. final \in Files /\ final.shared = sh /\ final.alice = me /\ final.bob = paid.bob
      BY <2>1, <2>5, <2>7, <3>1 DEF Files
    <3> QED BY <1>2, <1>5, <2>5, <2>7, <2>8, <3>2, PaidIs, FinalIs DEF Payer
  <2>9. CASE name = "bob"
    <3>1. final = [paid EXCEPT !.shared = sh, !.bob = me]
      BY <1>3, <2>1, <2>2, <2>3, <2>4, <2>9 DEF Files
    <3>2. final \in Files /\ final.shared = sh /\ final.bob = me /\ final.alice = paid.alice
      BY <2>1, <2>5, <2>7, <3>1 DEF Files
    <3> QED BY <1>2, <1>5, <2>5, <2>7, <2>9, <3>2, PaidIs, FinalIs DEF Payer
  <2> QED BY <2>8, <2>9 DEF Names
<1> QED BY <1>4, <1>5, OneTransaction

LEMMA ProfilesKeep == ASSUME ClientInv, StepProfiles PROVE ClientKept
BY ProfileKeeps DEF StepProfiles, Names, Labels, Payer

LEMMA RespondStepKeeps == ASSUME ClientInv, StepRespond PROVE ClientKept
<1>1. "respond" \in Labels
  BY DEF Labels
<1>2. PICK paid : paid = Paid("respond")
  OBVIOUS
<1>3. PICK n : n = mem.shared.pending["respond"]
  OBVIOUS
<1>4. PICK final : final = [paid EXCEPT !.shared.b2a = n]
  OBVIOUS
<1>5. PICK ready : BroadcastAndCheckpoint("respond", ready, final)
  BY <1>2, <1>3, <1>4 DEF StepRespond
<1>6. ASSUME Committed("respond") # {} PROVE Finalizes("respond", final)
  <2>1. n \in Nat
    BY <1>1, <1>3 DEF ClientInv, ClientTyped, Files, SharedKind
  <2>2. /\ final \in Files /\ final.alice = paid.alice /\ final.bob = paid.bob
        /\ final.shared = [paid.shared EXCEPT !.b2a = n]
    BY <1>1, <1>2, <1>4, <2>1, PaidIs DEF Files, SharedKind
  <2>3. final.shared.steps = mem.shared.steps /\ final.shared.pending = mem.shared.pending
        /\ final.shared.deployed = mem.shared.deployed
    BY <1>1, <1>2, <2>2, PaidIs DEF ClientInv, ClientTyped, Files, SharedKind
  <2>4. /\ final.alice.fees = mem.alice.fees \cup (IF Payer("respond") = "alice"
                                                   THEN {"respond"} ELSE {})
        /\ final.bob.fees = mem.bob.fees \cup (IF Payer("respond") = "bob"
                                               THEN {"respond"} ELSE {})
        /\ final.alice.profile = mem.alice.profile /\ final.bob.profile = mem.bob.profile
    BY <1>1, <1>2, <2>2, PaidIs
  <2> QED BY <1>1, <1>6, <2>2, <2>3, <2>4, FinalIs
<1> QED BY <1>1, <1>5, <1>6, OneTransaction

LEMMA RotateStepKeeps == ASSUME ClientInv, StepRotate PROVE ClientKept
<1>1. "rotate.alice" \in Labels
  BY DEF Labels
<1>2. PICK paid : paid = Paid("rotate.alice")
  OBVIOUS
<1>4. PICK final : final = [paid EXCEPT !.shared.rotation = TRUE]
  OBVIOUS
<1>5. PICK ready : BroadcastAndCheckpoint("rotate.alice", ready, final)
  BY <1>2, <1>4 DEF StepRotate
<1>6. ASSUME Committed("rotate.alice") # {} PROVE Finalizes("rotate.alice", final)
  <2>2. /\ final \in Files /\ final.alice = paid.alice /\ final.bob = paid.bob
        /\ final.shared = [paid.shared EXCEPT !.rotation = TRUE]
    BY <1>1, <1>2, <1>4, PaidIs DEF Files, SharedKind
  <2>3. final.shared.steps = mem.shared.steps /\ final.shared.pending = mem.shared.pending
        /\ final.shared.deployed = mem.shared.deployed
    BY <1>1, <1>2, <2>2, PaidIs DEF ClientInv, ClientTyped, Files, SharedKind
  <2>4. /\ final.alice.fees = mem.alice.fees \cup (IF Payer("rotate.alice") = "alice"
                                                   THEN {"rotate.alice"} ELSE {})
        /\ final.bob.fees = mem.bob.fees \cup (IF Payer("rotate.alice") = "bob"
                                               THEN {"rotate.alice"} ELSE {})
        /\ final.alice.profile = mem.alice.profile /\ final.bob.profile = mem.bob.profile
    BY <1>1, <1>2, <2>2, PaidIs
  <2> QED BY <1>1, <1>6, <2>2, <2>3, <2>4, FinalIs
<1> QED BY <1>1, <1>5, <1>6, OneTransaction

(* alice's own copy of her message moves with the transaction.             *)
LEMMA OwnIs ==
    ASSUME NEW paid \in Files, NEW own \in {"published", "acknowledged", "reclaimed"},
           NEW final, final = [paid EXCEPT !.alice.own = own]
    PROVE  /\ final \in Files /\ final.shared = paid.shared /\ final.bob = paid.bob
           /\ final.alice.fees = paid.alice.fees /\ final.alice.profile = paid.alice.profile
<1>1. PICK me : me = [paid.alice EXCEPT !.own = own]
  OBVIOUS
<1>2. paid.alice \in IdentityKind
  BY DEF Files
<1>3. me \in IdentityKind /\ me.fees = paid.alice.fees /\ me.profile = paid.alice.profile
  BY <1>1, <1>2 DEF IdentityKind
<1>4. final = [paid EXCEPT !.alice = me]
  BY <1>1
<1> QED BY <1>3, <1>4 DEF Files

LEMMA ReclaimKeeps == ASSUME ClientInv, StepReclaim PROVE ClientKept
<1>1. "ack-reclaim" \in Labels
  BY DEF Labels
<1>2. PICK paid : paid = Paid("ack-reclaim")
  OBVIOUS
<1>4. PICK final : final = [paid EXCEPT !.alice.own = "reclaimed"]
  OBVIOUS
<1>5. PICK ready : BroadcastAndCheckpoint("ack-reclaim", ready, final)
  BY <1>2, <1>4 DEF StepReclaim
<1>6. ASSUME Committed("ack-reclaim") # {} PROVE Finalizes("ack-reclaim", final)
  <2>1. paid \in Files
    BY <1>1, <1>2, PaidIs
  <2>2. /\ final \in Files /\ final.shared = paid.shared /\ final.bob = paid.bob
        /\ final.alice.fees = paid.alice.fees /\ final.alice.profile = paid.alice.profile
    BY <1>4, <2>1, OwnIs
  <2> QED BY <1>1, <1>2, <1>6, <2>2, PaidIs, FinalIs
<1> QED BY <1>1, <1>5, <1>6, OneTransaction

LEMMA SendStepKeeps == ASSUME ClientInv, StepSend PROVE ClientKept
<1>1. "send" \in Labels
  BY DEF Labels
<1>2. PICK paid : paid = Paid("send")
  OBVIOUS
<1>3. PICK n : n = mem.shared.pending["send"]
  OBVIOUS
<1>4. PICK final : final = [paid EXCEPT !.shared.a2b = n, !.alice.own = "published"]
  OBVIOUS
<1>5. PICK ready : BroadcastAndCheckpoint("send", ready, final)
  BY <1>2, <1>3, <1>4 DEF StepSend
<1>6. ASSUME Committed("send") # {} PROVE Finalizes("send", final)
  <2>1. n \in Nat
    BY <1>1, <1>3 DEF ClientInv, ClientTyped, Files, SharedKind
  <2>2. PICK half : half = [paid EXCEPT !.shared.a2b = n]
    OBVIOUS
  <2>3. /\ half \in Files /\ half.alice = paid.alice /\ half.bob = paid.bob
        /\ half.shared = [paid.shared EXCEPT !.a2b = n]
    BY <1>1, <1>2, <2>1, <2>2, PaidIs DEF Files, SharedKind
  <2>4. half.shared.steps = mem.shared.steps /\ half.shared.pending = mem.shared.pending
        /\ half.shared.deployed = mem.shared.deployed
    BY <1>1, <1>2, <2>3, PaidIs DEF ClientInv, ClientTyped, Files, SharedKind
  <2>5. final = [half EXCEPT !.alice.own = "published"]
    BY <1>4, <2>2
  <2>6. /\ final \in Files /\ final.shared = half.shared /\ final.bob = half.bob
        /\ final.alice.fees = half.alice.fees /\ final.alice.profile = half.alice.profile
    BY <2>3, <2>5, OwnIs
  <2>7. /\ final.alice.fees = mem.alice.fees \cup (IF Payer("send") = "alice" THEN {"send"} ELSE {})
        /\ final.bob.fees = mem.bob.fees \cup (IF Payer("send") = "bob" THEN {"send"} ELSE {})
        /\ final.alice.profile = mem.alice.profile /\ final.bob.profile = mem.bob.profile
    BY <1>1, <1>2, <2>3, <2>6, PaidIs
  <2>8. /\ final.shared.steps = mem.shared.steps /\ final.shared.pending = mem.shared.pending
        /\ mem.shared.deployed => final.shared.deployed
    BY <2>4, <2>6
  <2> QED BY <1>1, <1>6, <2>6, <2>7, <2>8, FinalIs
<1> QED BY <1>1, <1>5, <1>6, OneTransaction

(* The steps without a transaction.                                        *)
LEMMA StepMarked ==
    ASSUME ClientInv, NEW step \in Steps \ Labels, NEW st,
           st = [mem EXCEPT !.shared.steps = @ \cup {step}]
    PROVE  /\ st \in Files /\ st.alice = mem.alice /\ st.bob = mem.bob
           /\ st.shared.steps = mem.shared.steps \cup {step}
           /\ FilesAreSound(st)
           /\ \A l \in Labels : OnFile(mem, l) => OnFile(st, l)
           /\ \A l \in Labels : l \in st.shared.steps => l \in mem.shared.steps
<1>1. mem \in Files /\ mem.shared \in SharedKind
  BY DEF ClientInv, ClientTyped, Files
<1>2. PICK more : more = mem.shared.steps \cup {step}
  OBVIOUS
<1>3. PICK sh : sh = [mem.shared EXCEPT !.steps = more]
  OBVIOUS
<1>4. sh \in SharedKind /\ sh.steps = more /\ sh.pending = mem.shared.pending
      /\ sh.deployed = mem.shared.deployed
  BY <1>1, <1>2, <1>3 DEF SharedKind
<1>5. st = [mem EXCEPT !.shared = sh]
  BY <1>2, <1>3
<1>6. /\ st \in Files /\ st.alice = mem.alice /\ st.bob = mem.bob /\ st.shared = sh
  BY <1>1, <1>4, <1>5 DEF Files
<1>7. FilesAreSound(st)
  <2>1. \A n \in Names : st[n] = mem[n]
    BY <1>6 DEF Names
  <2>2. step # "deploy-type"
    BY DEF Labels
  <2>3. "deploy-type" \in st.shared.steps => st.shared.deployed
    BY <1>2, <1>4, <1>6, <2>2 DEF ClientInv, FilesAreSound
  <2>4. \A l \in Labels : st.shared.pending[l] <= Len(txs[l])
    BY <1>4, <1>6 DEF ClientInv, FilesAreSound
  <2>5. \A n \in Names : \A l \in st[n].fees : Payer(l) = n /\ Committed(l) # {}
    BY <2>1 DEF ClientInv, FilesAreSound
  <2> QED BY <2>3, <2>4, <2>5 DEF FilesAreSound
<1>8. \A l \in Labels : OnFile(mem, l) => OnFile(st, l)
  BY <1>6 DEF OnFile, Payer
<1> QED BY <1>2, <1>4, <1>6, <1>7, <1>8

(* An identity file with more in it.                                       *)
MoreOf(name, me) ==
    /\ me \in IdentityKind /\ me.fees = mem[name].fees /\ me.profile = mem[name].profile
WithIdentity(name, me) == [mem EXCEPT ![name] = me]

LEMMA IdentityGrows ==
    ASSUME ClientInv, NEW name \in Names, NEW me, MoreOf(name, me), NEW st,
           st = WithIdentity(name, me)
    PROVE  /\ st \in Files /\ st.shared = mem.shared
           /\ st[name] = me /\ \A n \in Names : n # name => st[n] = mem[n]
           /\ FilesAreSound(st)
           /\ \A l \in Labels : OnFile(mem, l) => OnFile(st, l)
<1>1. mem \in Files
  BY DEF ClientInv, ClientTyped
<1>2. /\ st \in Files /\ st.shared = mem.shared /\ st[name] = me
      /\ \A n \in Names : n # name => st[n] = mem[n]
  <2>1. CASE name = "alice"
    BY <1>1, <2>1 DEF Files, MoreOf, Names, WithIdentity
  <2>2. CASE name = "bob"
    BY <1>1, <2>2 DEF Files, MoreOf, Names, WithIdentity
  <2> QED BY <2>1, <2>2 DEF Names
<1>3. \A n \in Names : st[n].fees = mem[n].fees /\ st[n].profile = mem[n].profile
  BY <1>2 DEF MoreOf
<1>4. FilesAreSound(st)
  BY <1>2, <1>3 DEF ClientInv, FilesAreSound
<1>5. \A l \in Labels : OnFile(mem, l) => OnFile(st, l)
  BY <1>3 DEF OnFile, Names, Payer
<1> QED BY <1>2, <1>4, <1>5

LEMMA WatchKeeps == ASSUME ClientInv, Watch PROVE ClientInv'
<1>1. Here /\ proc.step = "watch" /\ proc.at = "start"
  BY HereIs DEF Watch
<1>2. UNCHANGED <<disk, txs, accounted, runFaults>> /\ accounted \in BOOLEAN
      /\ runFaults \in 0..MaxRunFaults /\ "done" \in Places
  BY DEF Watch, ClientInv, ClientTyped, Places
<1>3. CASE Exit
  BY <1>2, <1>3, ExitKeeps
<1>4. CASE ~Exit
  <2>1. /\ mem' = [mem EXCEPT !.bob.remote = TRUE, !.shared.steps = @ \cup {"watch"}]
        /\ SaveFrom("shared", "done")
    BY <1>4, SavesAre DEF Watch
  <2>2. PICK me : me = [mem.bob EXCEPT !.remote = TRUE]
    OBVIOUS
  <2>3. PICK half : half = [mem EXCEPT !.shared.steps = @ \cup {"watch"}]
    OBVIOUS
  <2>4. mem \in Files /\ mem.bob \in IdentityKind /\ "watch" \in Steps \ Labels /\ "bob" \in Names
    BY DEF ClientInv, ClientTyped, Files, Steps, Labels, Names
  <2>5. me \in IdentityKind /\ me.fees = mem.bob.fees /\ me.profile = mem.bob.profile
    BY <2>2, <2>4 DEF IdentityKind
  <2>6. /\ half \in Files /\ half.alice = mem.alice /\ half.bob = mem.bob
        /\ half.shared.steps = mem.shared.steps \cup {"watch"}
        /\ FilesAreSound(half)
        /\ \A l \in Labels : l \in half.shared.steps => l \in mem.shared.steps
    BY <2>3, <2>4, StepMarked
  <2>7. mem' = [half EXCEPT !.bob = me]
    BY <2>1, <2>2, <2>3, <2>4 DEF Files
  <2>8. /\ mem' \in Files /\ mem'.shared = half.shared /\ mem'.alice = mem.alice /\ mem'.bob = me
    BY <2>5, <2>6, <2>7 DEF Files
  <2>9. FilesAreSound(mem')
    <3>1. \A n \in Names : mem'[n].fees = half[n].fees
      BY <2>5, <2>6, <2>8 DEF Names
    <3> QED BY <2>6, <2>8, <3>1 DEF FilesAreSound
  <2>10. \A l \in Labels : OnFile(mem, l) => OnFile(mem', l)
    BY <2>5, <2>8 DEF OnFile, Payer
  <2>11. \A l \in Labels : l \in mem'.shared.steps => l \in mem.shared.steps
    BY <2>6, <2>8
  <2>12. ~OneFile' /\ "watch" \notin Labels /\ mem.shared.steps \subseteq mem'.shared.steps
    <3>1. proc'.step = "watch" /\ proc'.at = "done"
      BY <1>1, <1>2, <2>1, SaveIs
    <3> QED BY <2>4, <2>6, <2>8, <3>1 DEF OneFile
  <2> QED BY <1>1, <1>2, <2>1, <2>8, <2>9, <2>10, <2>11, <2>12, MoreKeeps
<1> QED BY <1>3, <1>4

LEMMA VerifyKeeps == ASSUME ClientInv, VerifyRotation PROVE ClientInv'
<1>1. Here /\ proc.step = "verify-rotation" /\ proc.at = "start"
  BY HereIs DEF VerifyRotation
<1>2. UNCHANGED <<disk, txs, accounted, runFaults>> /\ accounted \in BOOLEAN
      /\ runFaults \in 0..MaxRunFaults /\ "done" \in Places
  BY DEF VerifyRotation, ClientInv, ClientTyped, Places
<1>3. CASE Exit
  BY <1>2, <1>3, ExitKeeps
<1>4. CASE ~Exit
  <2>1. /\ mem' = [mem EXCEPT !.shared.steps = @ \cup {"verify-rotation"}]
        /\ SaveFrom("shared", "done")
    BY <1>4, SavesAre DEF VerifyRotation
  <2>2. "verify-rotation" \in Steps \ Labels
    BY DEF Steps, Labels
  <2>3. /\ mem' \in Files /\ mem'.alice = mem.alice /\ mem'.bob = mem.bob
        /\ mem'.shared.steps = mem.shared.steps \cup {"verify-rotation"}
        /\ FilesAreSound(mem')
        /\ \A l \in Labels : OnFile(mem, l) => OnFile(mem', l)
        /\ \A l \in Labels : l \in mem'.shared.steps => l \in mem.shared.steps
    BY <2>1, <2>2, StepMarked
  <2>4. "verify-rotation" \notin Labels /\ mem.shared.steps \subseteq mem'.shared.steps
    BY <2>2, <2>3
  <2> QED BY <1>1, <1>2, <2>1, <2>3, <2>4, MoreKeeps
<1> QED BY <1>3, <1>4

LEMMA ReceiveKeeps == ASSUME ClientInv, Receive PROVE ClientInv'
<1>1. Here /\ proc.step = "receive" /\ proc.at \in {"start", "mark"}
  BY HereIs DEF Receive
<1>2. UNCHANGED <<disk, txs, accounted, runFaults>> /\ accounted \in BOOLEAN
      /\ runFaults \in 0..MaxRunFaults /\ "done" \in Places /\ "mark" \in Places
  BY DEF Receive, ClientInv, ClientTyped, Places
<1>3. "receive" \in Steps \ Labels /\ "bob" \in Names /\ mem \in Files /\ mem.bob \in IdentityKind
  BY DEF Steps, Labels, Names, ClientInv, ClientTyped, Files
<1>4. CASE Exit
  BY <1>2, <1>4, ExitKeeps
<1>5. CASE ~Exit /\ proc.at = "start"
  <2>1. PICK new : new = ScannedNew
    OBVIOUS
  <2>2. PICK at : at \in {"mark", "done"} /\ SaveFrom("bob", at)
    BY <1>1, <1>5, SavesAre DEF Receive, RunAt
  <2>3. mem' = [mem EXCEPT !.bob.processed = @ \cup new, !.bob.got = @ \cup new]
    BY <1>1, <1>5, <2>1 DEF Receive, RunAt
  <2>4. new \in SUBSET Nat
    <3>1. Committed("send") \subseteq Nat
      BY DEF Committed, ClientInv, ClientTyped, Labels
    <3> QED BY <2>1, <3>1 DEF ScannedNew
  <2>5. PICK processed : processed = mem.bob.processed \cup new
    OBVIOUS
  <2>6. PICK got : got = mem.bob.got \cup new
    OBVIOUS
  <2>7. PICK me : me = [mem.bob EXCEPT !.processed = processed, !.got = got]
    OBVIOUS
  <2>8. MoreOf("bob", me)
    BY <1>3, <2>4, <2>5, <2>6, <2>7 DEF MoreOf, IdentityKind
  <2>9. mem' = WithIdentity("bob", me)
    BY <1>3, <2>3, <2>5, <2>6, <2>7 DEF Files, IdentityKind, WithIdentity
  <2>10. /\ mem' \in Files /\ mem'.shared = mem.shared /\ FilesAreSound(mem')
         /\ \A n \in Names : n # "bob" => mem'[n] = mem[n]
         /\ \A l \in Labels : OnFile(mem, l) => OnFile(mem', l)
    BY <1>3, <2>8, <2>9, IdentityGrows
  <2>11. mem'.alice = mem.alice
    BY <2>10 DEF Names
  <2> QED BY <1>1, <1>2, <1>3, <2>2, <2>10, <2>11, MoreKeeps
<1>6. CASE ~Exit /\ proc.at = "mark"
  <2>1. /\ mem' = [mem EXCEPT !.shared.steps = @ \cup {"receive"}]
        /\ SaveFrom("shared", "done")
    BY <1>6, SavesAre DEF Receive, RunAt
  <2>3. /\ mem' \in Files /\ mem'.alice = mem.alice /\ mem'.bob = mem.bob
        /\ mem'.shared.steps = mem.shared.steps \cup {"receive"}
        /\ FilesAreSound(mem')
        /\ \A l \in Labels : OnFile(mem, l) => OnFile(mem', l)
        /\ \A l \in Labels : l \in mem'.shared.steps => l \in mem.shared.steps
    BY <1>3, <2>1, StepMarked
  <2>4. "receive" \notin Labels /\ mem.shared.steps \subseteq mem'.shared.steps
    BY <1>3, <2>3
  <2> QED BY <1>1, <1>2, <2>1, <2>3, <2>4, MoreKeeps
<1> QED BY <1>1, <1>4, <1>5, <1>6

LEMMA AcknowledgeKeeps == ASSUME ClientInv, Acknowledge PROVE ClientInv'
<1>1. Here /\ proc.step = "ack-reclaim" /\ proc.at \in {"start", "scanned"}
  BY HereIs DEF Acknowledge
<1>2. UNCHANGED <<disk, txs, accounted, runFaults>> /\ accounted \in BOOLEAN
      /\ runFaults \in 0..MaxRunFaults
  BY DEF Acknowledge, ClientInv, ClientTyped
<1>3. /\ "ack-reclaim" \in Labels /\ "alice" \in Names /\ mem \in Files
      /\ mem.alice \in IdentityKind
      /\ "acked" \in Places /\ "done" \in Places /\ "scanned" \in Places
  BY DEF Labels, Names, ClientInv, ClientTyped, Files, Places
<1>4. CASE proc.at = "start" /\ mem.alice.own \in {"acknowledged", "reclaimed"}
  <2>1. RunGoto("acked") /\ mem' = mem
    BY <1>4 DEF Acknowledge, RunAt
  <2> QED BY <1>1, <1>2, <1>3, <2>1, GotoKeeps
<1>5. CASE proc.at = "start" /\ mem.alice.own \notin {"acknowledged", "reclaimed"}
  <2>1. PICK new : new = Answers
    OBVIOUS
  <2>2. PICK at : at \in {"scanned", "done"} /\ SaveFrom("alice", at)
    BY <1>5, SavesAre DEF Acknowledge, RunAt
  <2>3. mem' = [mem EXCEPT !.alice.processed = @ \cup new, !.alice.got = @ \cup new]
    BY <1>5, <2>1 DEF Acknowledge, RunAt
  <2>4. new \in SUBSET Nat
    <3>1. Committed("respond") \subseteq Nat
      BY DEF Committed, ClientInv, ClientTyped, Labels
    <3> QED BY <2>1, <3>1 DEF Answers
  <2>5. PICK processed : processed = mem.alice.processed \cup new
    OBVIOUS
  <2>6. PICK got : got = mem.alice.got \cup new
    OBVIOUS
  <2>7. PICK me : me = [mem.alice EXCEPT !.processed = processed, !.got = got]
    OBVIOUS
  <2>8. MoreOf("alice", me)
    BY <1>3, <2>4, <2>5, <2>6, <2>7 DEF MoreOf, IdentityKind
  <2>9. mem' = WithIdentity("alice", me)
    BY <1>3, <2>3, <2>5, <2>6, <2>7 DEF Files, IdentityKind, WithIdentity
  <2>10. /\ mem' \in Files /\ mem'.shared = mem.shared /\ FilesAreSound(mem')
         /\ \A n \in Names : n # "alice" => mem'[n] = mem[n]
         /\ \A l \in Labels : OnFile(mem, l) => OnFile(mem', l)
    BY <1>3, <2>8, <2>9, IdentityGrows
  <2>11. mem'.bob = mem.bob
    BY <2>10 DEF Names
  <2> QED BY <1>1, <1>2, <1>3, <1>5, <2>2, <2>10, <2>11, MoreKeeps
<1>6. CASE proc.at = "scanned"
  <2>1. mem' = [mem EXCEPT !.alice.own = "acknowledged"] /\ SaveFrom("shared", "acked")
    BY <1>6, SavesAre DEF Acknowledge, RunAt
  <2>2. PICK me : me = [mem.alice EXCEPT !.own = "acknowledged"]
    OBVIOUS
  <2>3. MoreOf("alice", me)
    BY <1>3, <2>2 DEF MoreOf, IdentityKind
  <2>4. mem' = WithIdentity("alice", me)
    BY <1>3, <2>1, <2>2 DEF Files, IdentityKind, WithIdentity
  <2>5. /\ mem' \in Files /\ mem'.shared = mem.shared /\ FilesAreSound(mem')
        /\ \A n \in Names : n # "alice" => mem'[n] = mem[n]
        /\ \A l \in Labels : OnFile(mem, l) => OnFile(mem', l)
    BY <1>3, <2>3, <2>4, IdentityGrows
  <2>6. ~OneFile'
    <3>1. proc'.step = "ack-reclaim" /\ proc'.at = "acked"
      BY <1>1, <1>3, <2>1, SaveIs
    <3> QED BY <3>1 DEF OneFile
  <2> QED BY <1>1, <1>2, <1>3, <1>6, <2>1, <2>5, <2>6, MoreKeeps
<1> QED BY <1>1, <1>4, <1>5, <1>6

(* Nothing is broadcast before the snapshots are taken.                    *)
LEMMA NothingYet ==
    ASSUME \A l \in Labels : txs[l] = <<>>, NEW name
    PROVE  BalanceSnapshot(name) = NoMoney
<1>1. \A l \in Labels : Committed(l) = {} /\ Made(l) = 0
  BY FS_EmptySet DEF Committed, Made
<1>2. {tx \in Labels \X (1..MaxTxs) : Payer(tx[1]) = name /\ tx[2] \in Committed(tx[1])} = {}
  BY <1>1
<1>3. FeesPaid(name) = 0
  BY <1>2, FS_EmptySet DEF FeesPaid
<1>4. MovedAway(name) = 0 /\ ProtocolCells(name) = 0
  BY <1>1 DEF MovedAway, ProtocolCells, Capacity, Labels
<1> QED BY <1>3, <1>4 DEF BalanceSnapshot, NoMoney

LEMMA SetupKeeps == ASSUME ClientInv, Setup PROVE ClientInv'
<1>1. Here /\ proc.step = "setup" /\ proc.at \in {"start", "bob", "mark"}
  BY HereIs DEF Setup
<1>2. UNCHANGED <<disk, txs, accounted, runFaults>>
  BY DEF Setup
<1>3. /\ "setup" \in Steps \ Labels /\ mem \in Files /\ "bob" \in Places /\ "mark" \in Places
      /\ "done" \in Places
  BY DEF Steps, Labels, ClientInv, ClientTyped, Places
<1>4. "setup" \notin disk.shared.steps /\ \A l \in Labels : txs[l] = <<>>
  BY <1>1 DEF ClientInv, NothingBeforeSetup
<1>5. CASE proc.at \in {"start", "bob"}
  <2>1. PICK name \in Names, at \in {"bob", "mark"} :
           /\ mem' = [mem EXCEPT ![name].before = <<BalanceSnapshot(name)>>]
           /\ SaveFrom(name, at)
    BY <1>5, SavesAre DEF Setup, RunAt, Names
  <2>2. PICK taken : taken = <<NoMoney>>
    OBVIOUS
  <2>3. taken \in Snapshots
    BY <2>2 DEF Snapshots
  <2>4. PICK me : me = [mem[name] EXCEPT !.before = taken]
    OBVIOUS
  <2>5. mem[name] \in IdentityKind
    BY <1>3 DEF Files, Names
  <2>6. MoreOf(name, me)
    BY <2>3, <2>4, <2>5 DEF MoreOf, IdentityKind
  <2>7. BalanceSnapshot(name) = NoMoney
    BY <1>4, NothingYet
  <2>8. mem' = WithIdentity(name, me)
    BY <2>1, <2>2, <2>4, <2>7 DEF WithIdentity
  <2>9. /\ mem' \in Files /\ mem'.shared = mem.shared /\ FilesAreSound(mem')
        /\ \A n \in Names : n # name => mem'[n] = mem[n]
        /\ \A l \in Labels : OnFile(mem, l) => OnFile(mem', l)
    BY <2>6, <2>8, IdentityGrows
  <2>10. /\ name # "alice" => mem'.alice = mem.alice
         /\ name # "bob" => mem'.bob = mem.bob
         /\ name \in {"shared", "alice", "bob"} /\ name # "shared" /\ at \in Places
    BY <1>3, <2>9 DEF Names
  <2> QED BY <1>1, <1>2, <1>3, <1>5, <2>1, <2>9, <2>10, MoreKeeps
<1>6. CASE proc.at = "mark"
  <2>1. /\ mem' = [mem EXCEPT !.shared.steps = @ \cup {"setup"}]
        /\ SaveFrom("shared", "done")
    BY <1>6, SavesAre DEF Setup, RunAt
  <2>2. /\ mem' \in Files /\ mem'.alice = mem.alice /\ mem'.bob = mem.bob
        /\ mem'.shared.steps = mem.shared.steps \cup {"setup"}
        /\ FilesAreSound(mem')
        /\ \A l \in Labels : OnFile(mem, l) => OnFile(mem', l)
        /\ \A l \in Labels : l \in mem'.shared.steps => l \in mem.shared.steps
    BY <1>3, <2>1, StepMarked
  <2>3. "setup" \notin Labels /\ mem.shared.steps \subseteq mem'.shared.steps
    BY <1>3, <2>2
  <2> QED BY <1>1, <1>2, <1>3, <1>6, <2>1, <2>2, <2>3, MoreKeeps
<1> QED BY <1>1, <1>5, <1>6

LEMMA ReconcileKeeps == ASSUME ClientInv, Reconcile PROVE ClientInv'
<1>1. UNCHANGED <<disk, txs, runFaults>> /\ Exit /\ runFaults \in 0..MaxRunFaults
  BY DEF Reconcile, ClientInv, ClientTyped
<1>2. accounted' \in BOOLEAN
  BY DEF Reconcile, ClientInv, ClientTyped
<1> QED BY <1>1, <1>2, ExitKeeps

LEMMA StutterKeeps == ASSUME ClientInv, UNCHANGED clientVars PROVE ClientInv'
BY DEF clientVars, ClientInv, ClientTyped, FilesAreSound, StepsAreRecorded, RestIsSaved,
   NothingBeforeSetup, ProcKnows, OnFile, Committed, OneFile

(* The steps without a transaction wait for none.                          *)
LEMMA OtherSaveSettles ==
    ASSUME ClientInv, ClientSettled, UNCHANGED <<disk, txs>>, proc.at # "done",
           NEW file \in {"shared", "alice", "bob"}, NEW at \in Places, SaveFrom(file, at),
           at \notin {"send", "sent", "finalize"},
           at = "mark" => proc.step \notin Labels,
           mem'.shared.pending = mem.shared.pending,
           \A l \in Labels : l \in mem'.shared.steps => l \in mem.shared.steps
    PROVE  ClientSettled'
<1>1. LastIsOpen(mem')
  BY DEF ClientSettled, LastIsOpen
<1> QED BY <1>1, SaveSettles

LEMMA StepMarkedIs ==
    ASSUME ClientInv, NEW step \in Steps \ Labels
    PROVE  LET st == [mem EXCEPT !.shared.steps = @ \cup {step}]
           IN  /\ st.shared.pending = mem.shared.pending
               /\ \A l \in Labels : l \in st.shared.steps => l \in mem.shared.steps
<1>1. mem \in Files /\ mem.shared \in SharedKind
  BY DEF ClientInv, ClientTyped, Files
<1> QED BY <1>1 DEF Files, SharedKind

LEMMA OthersAre ==
    /\ \A l \in {"setup", "receive", "watch", "verify-rotation"} : l \in Steps \ Labels
    /\ "ack-reclaim" \in Labels
    /\ \A at \in {"bob", "mark", "done", "acked", "scanned"} : at \in Places
BY DEF Steps, Labels, Places

LEMMA SetupSettles == ASSUME ClientInv, ClientSettled, Setup PROVE ClientSettled'
<1>1. Here /\ proc.step = "setup" /\ proc.at \in {"start", "bob", "mark"}
  BY HereIs DEF Setup
<1>2. UNCHANGED <<disk, txs>> /\ mem \in Files
  BY DEF Setup, ClientInv, ClientTyped
<1>3. CASE proc.at = "start"
  <2>1. mem'.shared = mem.shared /\ SaveFrom("alice", "bob")
    BY <1>2, <1>3, SavesAre DEF Setup, RunAt, Files
  <2> QED BY <1>1, <1>2, <1>3, <2>1, OtherSaveSettles, OthersAre
<1>4. CASE proc.at = "bob"
  <2>1. mem'.shared = mem.shared /\ SaveFrom("bob", "mark")
    BY <1>2, <1>4, SavesAre DEF Setup, RunAt, Files
  <2> QED BY <1>1, <1>2, <1>4, <2>1, OtherSaveSettles, OthersAre
<1>5. CASE proc.at = "mark"
  <2>1. mem' = [mem EXCEPT !.shared.steps = @ \cup {"setup"}] /\ SaveFrom("shared", "done")
    BY <1>5, SavesAre DEF Setup, RunAt
  <2>2. /\ mem'.shared.pending = mem.shared.pending
        /\ \A l \in Labels : l \in mem'.shared.steps => l \in mem.shared.steps
    BY <2>1, StepMarkedIs, OthersAre
  <2> QED BY <1>1, <1>2, <1>5, <2>1, <2>2, OtherSaveSettles, OthersAre
<1> QED BY <1>1, <1>3, <1>4, <1>5

LEMMA ReceiveSettles == ASSUME ClientInv, ClientSettled, Receive PROVE ClientSettled'
<1>1. Here /\ proc.step = "receive" /\ proc.at \in {"start", "mark"}
  BY HereIs DEF Receive
<1>2. UNCHANGED <<disk, txs>> /\ mem \in Files
  BY DEF Receive, ClientInv, ClientTyped
<1>3. CASE Exit
  BY <1>2, <1>3, ExitSettles
<1>4. CASE ~Exit /\ proc.at = "start"
  <2>1. PICK at : at \in {"mark", "done"} /\ SaveFrom("bob", at)
    BY <1>1, <1>4, SavesAre DEF Receive, RunAt
  <2>2. mem'.shared = mem.shared
    BY <1>1, <1>2, <1>4 DEF Receive, RunAt, Files
  <2> QED BY <1>1, <1>2, <1>4, <2>1, <2>2, OtherSaveSettles, OthersAre
<1>5. CASE ~Exit /\ proc.at = "mark"
  <2>1. mem' = [mem EXCEPT !.shared.steps = @ \cup {"receive"}] /\ SaveFrom("shared", "done")
    BY <1>5, SavesAre DEF Receive, RunAt
  <2>2. /\ mem'.shared.pending = mem.shared.pending
        /\ \A l \in Labels : l \in mem'.shared.steps => l \in mem.shared.steps
    BY <2>1, StepMarkedIs, OthersAre
  <2> QED BY <1>1, <1>2, <1>5, <2>1, <2>2, OtherSaveSettles, OthersAre
<1> QED BY <1>1, <1>3, <1>4, <1>5

LEMMA AcknowledgeSettles == ASSUME ClientInv, ClientSettled, Acknowledge PROVE ClientSettled'
<1>1. Here /\ proc.step = "ack-reclaim" /\ proc.at \in {"start", "scanned"}
  BY HereIs DEF Acknowledge
<1>2. UNCHANGED <<disk, txs>> /\ mem \in Files
  BY DEF Acknowledge, ClientInv, ClientTyped
<1>3. CASE proc.at = "start" /\ mem.alice.own \in {"acknowledged", "reclaimed"}
  <2>1. RunGoto("acked") /\ mem' = mem /\ "acked" \in Places
    BY <1>3, OthersAre DEF Acknowledge, RunAt
  <2> QED BY <1>1, <1>2, <1>3, <2>1, GotoSettles
<1>4. CASE proc.at = "start" /\ mem.alice.own \notin {"acknowledged", "reclaimed"}
  <2>1. PICK at : at \in {"scanned", "done"} /\ SaveFrom("alice", at)
    BY <1>4, SavesAre DEF Acknowledge, RunAt
  <2>2. mem'.shared = mem.shared
    BY <1>2, <1>4 DEF Acknowledge, RunAt, Files
  <2> QED BY <1>1, <1>2, <1>4, <2>1, <2>2, OtherSaveSettles, OthersAre
<1>5. CASE proc.at = "scanned"
  <2>1. SaveFrom("shared", "acked") /\ mem'.shared = mem.shared
    BY <1>2, <1>5, SavesAre DEF Acknowledge, RunAt, Files
  <2> QED BY <1>1, <1>2, <1>5, <2>1, OtherSaveSettles, OthersAre
<1> QED BY <1>1, <1>3, <1>4, <1>5

LEMMA WatchSettles == ASSUME ClientInv, ClientSettled, Watch PROVE ClientSettled'
<1>1. Here /\ proc.step = "watch" /\ proc.at = "start"
  BY HereIs DEF Watch
<1>2. UNCHANGED <<disk, txs>> /\ mem \in Files /\ mem.shared \in SharedKind
  BY DEF Watch, ClientInv, ClientTyped, Files
<1>3. CASE Exit
  BY <1>2, <1>3, ExitSettles
<1>4. CASE ~Exit
  <2>1. /\ mem' = [mem EXCEPT !.bob.remote = TRUE, !.shared.steps = @ \cup {"watch"}]
        /\ SaveFrom("shared", "done")
    BY <1>4, SavesAre DEF Watch
  <2>2. /\ mem'.shared.pending = mem.shared.pending
        /\ mem'.shared.steps = mem.shared.steps \cup {"watch"}
    BY <1>2, <2>1 DEF Files, SharedKind
  <2>3. \A l \in Labels : l \in mem'.shared.steps => l \in mem.shared.steps
    BY <2>2, OthersAre
  <2> QED BY <1>1, <1>2, <2>1, <2>2, <2>3, OtherSaveSettles, OthersAre
<1> QED BY <1>3, <1>4

LEMMA VerifySettles == ASSUME ClientInv, ClientSettled, VerifyRotation PROVE ClientSettled'
<1>1. Here /\ proc.step = "verify-rotation" /\ proc.at = "start"
  BY HereIs DEF VerifyRotation
<1>2. UNCHANGED <<disk, txs>>
  BY DEF VerifyRotation
<1>3. CASE Exit
  BY <1>2, <1>3, ExitSettles
<1>4. CASE ~Exit
  <2>1. /\ mem' = [mem EXCEPT !.shared.steps = @ \cup {"verify-rotation"}]
        /\ SaveFrom("shared", "done")
    BY <1>4, SavesAre DEF VerifyRotation
  <2>2. /\ mem'.shared.pending = mem.shared.pending
        /\ \A l \in Labels : l \in mem'.shared.steps => l \in mem.shared.steps
    BY <2>1, StepMarkedIs, OthersAre
  <2> QED BY <1>1, <1>2, <2>1, <2>2, OtherSaveSettles, OthersAre
<1> QED BY <1>3, <1>4

LEMMA LeavingSettles ==
    ASSUME ClientInv, ClientSettled, Done \/ Die \/ Reconcile \/ UNCHANGED clientVars
    PROVE  ClientSettled'
<1>1. CASE Done \/ Die \/ Reconcile
  BY <1>1, ExitSettles DEF Done, Die, Reconcile
<1>2. CASE UNCHANGED clientVars
  BY <1>2 DEF clientVars, ClientSettled, LastIsOpen, InPool, Under
<1> QED BY <1>1, <1>2

LEMMA ClientStep == ASSUME ClientInv, [ClientNext]_clientVars PROVE ClientKept
<1>1. CASE StepDeployType \/ StepProfiles \/ StepSend \/ StepRespond \/ StepReclaim \/ StepRotate
  BY <1>1, DeployKeeps, ProfilesKeep, SendStepKeeps, RespondStepKeeps, ReclaimKeeps, RotateStepKeeps
<1>2. CASE \/ BeginStep \/ WriteFile \/ Done \/ Die \/ Setup \/ Receive \/ Acknowledge \/ Watch
           \/ VerifyRotation \/ Reconcile \/ TxLands \/ TxDropped \/ UNCHANGED clientVars
  <2>1. ClientInv'
    BY <1>2, BeginKeeps, WriteFileKeeps, DoneKeeps, DieKeeps, SetupKeeps, ReceiveKeeps,
       AcknowledgeKeeps, WatchKeeps, VerifyKeeps, ReconcileKeeps, LandsKeeps, StutterKeeps
  <2>2. ClientSettled => ClientSettled'
    BY <1>2, BeginSettles, WriteSettles, LeavingSettles, SetupSettles, ReceiveSettles,
       AcknowledgeSettles, WatchSettles, VerifySettles, LandsSettles
  <2> QED BY <2>1, <2>2 DEF ClientKept
<1> QED BY <1>1, <1>2 DEF ClientNext

(* The amounts.                                                            *)
CommittedPairs(l) == {l} \X Committed(l)

LEMMA MadeIsNat ==
    ASSUME ClientInv, NEW l \in Labels
    PROVE  /\ IsFiniteSet(Committed(l)) /\ Committed(l) \subseteq 1..MaxTxs
           /\ Made(l) \in Nat /\ (Committed(l) # {} => Made(l) >= 1)
<1>1. DOMAIN txs[l] = 1..Len(txs[l]) /\ Len(txs[l]) \in Nat /\ Len(txs[l]) <= MaxTxs
  BY DEF ClientInv, ClientTyped
<1>2. Committed(l) \subseteq 1..MaxTxs
  BY <1>1 DEF Committed, MaxTxs
<1>3. IsFiniteSet(1..MaxTxs)
  <2>1. 1 \in Int /\ MaxTxs \in Int
    BY DEF MaxTxs
  <2> QED BY <2>1, FS_Interval
<1>4. IsFiniteSet(Committed(l))
  BY <1>2, <1>3, FS_Subset
<1>5. Made(l) \in Nat /\ (Made(l) = 0 <=> Committed(l) = {})
  BY <1>4, FS_CardinalityType, FS_EmptySet DEF Made
<1> QED BY <1>2, <1>4, <1>5

LEMMA OneLabelMore ==
    ASSUME ClientInv, NEW l \in Labels, NEW S, IsFiniteSet(S), \A tx \in S : tx[1] # l
    PROVE  /\ IsFiniteSet(S \cup CommittedPairs(l))
           /\ Cardinality(S \cup CommittedPairs(l)) = Cardinality(S) + Made(l)
<1>1. IsFiniteSet(Committed(l)) /\ Made(l) \in Nat
  BY MadeIsNat
<1>2. IsFiniteSet({l}) /\ Cardinality({l}) = 1
  BY FS_Singleton
<1>3. IsFiniteSet(CommittedPairs(l)) /\ Cardinality(CommittedPairs(l)) = 1 * Made(l)
  BY <1>1, <1>2, FS_Product DEF CommittedPairs, Made
<1>4. S \cap CommittedPairs(l) = {}
  BY DEF CommittedPairs
<1>5. Cardinality(S \cap CommittedPairs(l)) = 0
  BY <1>4, FS_EmptySet
<1>6. /\ IsFiniteSet(S \cup CommittedPairs(l))
      /\ Cardinality(S \cup CommittedPairs(l))
             = Cardinality(S) + Cardinality(CommittedPairs(l)) - Cardinality(S \cap CommittedPairs(l))
  BY <1>3, FS_Union
<1>7. Cardinality(S) \in Nat
  BY FS_CardinalityType
<1> QED BY <1>1, <1>3, <1>5, <1>6, <1>7

LEMMA FeesAre ==
    ASSUME ClientInv
    PROVE  /\ FeesPaid("alice") = Made("deploy-type") + Made("profile.alice") + Made("send")
                                  + Made("ack-reclaim") + Made("rotate.alice")
           /\ FeesPaid("bob") = Made("profile.bob") + Made("respond")
<1> DEFINE Pairs(name) ==
       {tx \in Labels \X (1..MaxTxs) : Payer(tx[1]) = name /\ tx[2] \in Committed(tx[1])}
<1>1. \A l \in Labels : \A tx : tx \in CommittedPairs(l)
                                <=> \E i \in Committed(l) : tx = <<l, i>>
  BY DEF CommittedPairs
<1>2. \A l \in Labels : Committed(l) \subseteq 1..MaxTxs
  BY MadeIsNat
<1>3. PICK e : e = {}
  OBVIOUS
<1>4. IsFiniteSet(e) /\ Cardinality(e) = 0 /\ \A tx \in e : FALSE
  BY <1>3, FS_EmptySet
<1>5. /\ "deploy-type" \in Labels /\ "profile.alice" \in Labels /\ "profile.bob" \in Labels
      /\ "send" \in Labels /\ "respond" \in Labels /\ "ack-reclaim" \in Labels
      /\ "rotate.alice" \in Labels
  BY DEF Labels
<1>6. FeesPaid("alice") = Made("deploy-type") + Made("profile.alice") + Made("send")
                          + Made("ack-reclaim") + Made("rotate.alice")
  <2>1. PICK s1 : s1 = e \cup CommittedPairs("deploy-type")
    OBVIOUS
  <2>2. IsFiniteSet(s1) /\ Cardinality(s1) = 0 + Made("deploy-type")
    BY <1>4, <1>5, <2>1, OneLabelMore
  <2>3. PICK s2 : s2 = s1 \cup CommittedPairs("profile.alice")
    OBVIOUS
  <2>4. \A tx \in s1 : tx[1] # "profile.alice"
    BY <1>1, <1>4, <1>5, <2>1
  <2>5. IsFiniteSet(s2) /\ Cardinality(s2) = Cardinality(s1) + Made("profile.alice")
    BY <1>5, <2>2, <2>3, <2>4, OneLabelMore
  <2>6. PICK s3 : s3 = s2 \cup CommittedPairs("send")
    OBVIOUS
  <2>7. \A tx \in s2 : tx[1] # "send"
    BY <1>1, <1>4, <1>5, <2>1, <2>3
  <2>8. IsFiniteSet(s3) /\ Cardinality(s3) = Cardinality(s2) + Made("send")
    BY <1>5, <2>5, <2>6, <2>7, OneLabelMore
  <2>9. PICK s4 : s4 = s3 \cup CommittedPairs("ack-reclaim")
    OBVIOUS
  <2>10. \A tx \in s3 : tx[1] # "ack-reclaim"
    BY <1>1, <1>4, <1>5, <2>1, <2>3, <2>6
  <2>11. IsFiniteSet(s4) /\ Cardinality(s4) = Cardinality(s3) + Made("ack-reclaim")
    BY <1>5, <2>8, <2>9, <2>10, OneLabelMore
  <2>12. PICK s5 : s5 = s4 \cup CommittedPairs("rotate.alice")
    OBVIOUS
  <2>13. \A tx \in s4 : tx[1] # "rotate.alice"
    BY <1>1, <1>4, <1>5, <2>1, <2>3, <2>6, <2>9
  <2>14. Cardinality(s5) = Cardinality(s4) + Made("rotate.alice")
    BY <1>5, <2>11, <2>12, <2>13, OneLabelMore
  <2>15. \A tx : tx \in s5 <=> \E l \in Labels : Payer(l) = "alice" /\ tx \in CommittedPairs(l)
    BY <1>4, <2>1, <2>3, <2>6, <2>9, <2>12 DEF Labels, Payer
  <2>16. \A tx : tx \in Pairs("alice")
                 <=> \E l \in Labels : Payer(l) = "alice" /\ tx \in CommittedPairs(l)
    BY <1>1, <1>2
  <2>17. Pairs("alice") = s5
    BY <2>15, <2>16
  <2>18. \A l \in Labels : Made(l) \in Nat
    BY MadeIsNat
  <2>19. FeesPaid("alice") = Cardinality(s5)
    BY <2>17 DEF FeesPaid
  <2>20. /\ Made("deploy-type") \in Nat /\ Made("profile.alice") \in Nat /\ Made("send") \in Nat
         /\ Made("ack-reclaim") \in Nat /\ Made("rotate.alice") \in Nat
    BY <1>5, <2>18
  <2> QED BY <2>2, <2>5, <2>8, <2>11, <2>14, <2>19, <2>20
<1>7. FeesPaid("bob") = Made("profile.bob") + Made("respond")
  <2>1. PICK s1 : s1 = e \cup CommittedPairs("profile.bob")
    OBVIOUS
  <2>2. IsFiniteSet(s1) /\ Cardinality(s1) = 0 + Made("profile.bob")
    BY <1>4, <1>5, <2>1, OneLabelMore
  <2>3. PICK s2 : s2 = s1 \cup CommittedPairs("respond")
    OBVIOUS
  <2>4. \A tx \in s1 : tx[1] # "respond"
    BY <1>1, <1>4, <1>5, <2>1
  <2>5. IsFiniteSet(s2) /\ Cardinality(s2) = Cardinality(s1) + Made("respond")
    BY <1>5, <2>2, <2>3, <2>4, OneLabelMore
  <2>6. \A tx : tx \in s2 <=> \E l \in Labels : Payer(l) = "bob" /\ tx \in CommittedPairs(l)
    BY <1>4, <2>1, <2>3 DEF Labels, Payer
  <2>7. \A tx : tx \in Pairs("bob")
                <=> \E l \in Labels : Payer(l) = "bob" /\ tx \in CommittedPairs(l)
    BY <1>1, <1>2
  <2>8. Pairs("bob") = s2
    BY <2>6, <2>7
  <2>9. \A l \in Labels : Made(l) \in Nat
    BY MadeIsNat
  <2>10. FeesPaid("bob") = Cardinality(s2)
    BY <2>8 DEF FeesPaid
  <2>11. Made("profile.bob") \in Nat /\ Made("respond") \in Nat
    BY <1>5, <2>9
  <2> QED BY <2>2, <2>5, <2>10, <2>11
<1> QED BY <1>6, <1>7

(* The margin of one fee hides no second transaction.                      *)
AliceBooks(d, p, s, a, r, k, total, cells) ==
    /\ d >= 1 /\ p >= 1 /\ s >= 1 /\ a >= 1
    /\ k = 4 \/ (k = 5 /\ r >= 1)
    /\ total = -((d + p + s + a + r) + 17 * r)
    /\ cells = 90 * d + 17 * (p - r) + 10 * (s - a)
    /\ -1 <= total + k /\ total + k <= 1
    /\ -1 <= total - cells + (k + 107) /\ total - cells + (k + 107) <= 1

LEMMA AliceAddsUp ==
    ASSUME NEW d \in Nat, NEW p \in Nat, NEW s \in Nat, NEW a \in Nat, NEW r \in Nat,
           NEW k \in Nat, NEW total \in Int, NEW cells \in Int,
           AliceBooks(d, p, s, a, r, k, total, cells)
    PROVE  d = 1 /\ p = 1 /\ s = 1 /\ a = 1
<1>1. r = 0 /\ k = 4
  BY DEF AliceBooks
<1>2. d + p + s + a <= 5
  BY <1>1 DEF AliceBooks
<1>3. d = 1
  BY <1>1, <1>2 DEF AliceBooks
<1> QED BY <1>1, <1>2, <1>3 DEF AliceBooks

BobBooks(p, q, total, cells) ==
    /\ p >= 1 /\ q >= 1
    /\ total = -(p + q) /\ cells = 17 * p + 10 * q
    /\ -1 <= total + 2 /\ total + 2 <= 1
    /\ -1 <= total - cells + (2 + 27) /\ total - cells + (2 + 27) <= 1

LEMMA BobAddsUp ==
    ASSUME NEW p \in Nat, NEW q \in Nat, NEW total \in Int, NEW cells \in Int,
           BobBooks(p, q, total, cells)
    PROVE  p = 1 /\ q = 1
BY DEF BobBooks

LEMMA AddedTo ==
    ASSUME NEW S, IsFiniteSet(S), NEW x, x \notin S, NEW T, T = S \cup {x}
    PROVE  IsFiniteSet(T) /\ Cardinality(T) = Cardinality(S) + 1
BY FS_AddElement

FourOfFive(a, b, c, d, e, F) ==
    /\ a # b /\ a # c /\ a # d /\ a # e /\ b # c /\ b # d /\ b # e /\ c # d /\ c # e /\ d # e
    /\ \A x \in F : x = a \/ x = b \/ x = c \/ x = d \/ x = e
    /\ a \in F /\ b \in F /\ c \in F /\ d \in F

LEMMA FourOrFive ==
    ASSUME NEW a, NEW b, NEW c, NEW d, NEW e, NEW F, FourOfFive(a, b, c, d, e, F)
    PROVE  Cardinality(F) = 4 \/ (Cardinality(F) = 5 /\ e \in F)
<1>1. PICK s1 : s1 = {a}
  OBVIOUS
<1>2. IsFiniteSet(s1) /\ Cardinality(s1) = 1
  BY <1>1, FS_Singleton
<1>3. PICK s2 : s2 = s1 \cup {b}
  OBVIOUS
<1>4. IsFiniteSet(s2) /\ Cardinality(s2) = 1 + 1
  BY <1>1, <1>2, <1>3, AddedTo DEF FourOfFive
<1>5. PICK s3 : s3 = s2 \cup {c}
  OBVIOUS
<1>6. IsFiniteSet(s3) /\ Cardinality(s3) = 2 + 1
  BY <1>1, <1>3, <1>4, <1>5, AddedTo DEF FourOfFive
<1>7. PICK s4 : s4 = s3 \cup {d}
  OBVIOUS
<1>8. IsFiniteSet(s4) /\ Cardinality(s4) = 3 + 1
  BY <1>1, <1>3, <1>5, <1>6, <1>7, AddedTo DEF FourOfFive
<1>9. PICK s5 : s5 = s4 \cup {e}
  OBVIOUS
<1>10. Cardinality(s5) = 4 + 1
  <2>1. e \notin s4
    BY <1>1, <1>3, <1>5, <1>7 DEF FourOfFive
  <2> QED BY <1>8, <1>9, <2>1, AddedTo
<1>11. F = s4 \/ (F = s5 /\ e \in F)
  BY <1>1, <1>3, <1>5, <1>7, <1>9 DEF FourOfFive
<1> QED BY <1>8, <1>10, <1>11

LEMMA TwoOf ==
    ASSUME NEW a, NEW b, a # b, NEW F, F = {a, b}
    PROVE  Cardinality(F) = 2
<1>1. PICK s1 : s1 = {a}
  OBVIOUS
<1>2. IsFiniteSet(s1) /\ Cardinality(s1) = 1
  BY <1>1, FS_Singleton
<1>3. F = s1 \cup {b} /\ b \notin s1
  BY <1>1
<1> QED BY <1>2, <1>3, AddedTo

LEMMA ReconcileCounts ==
    ASSUME ClientInv, RunAt("reconcile", "start"),
           \A n \in Names : mem[n].before # <<>> /\ ReconcileSide(n)
    PROVE  \A l \in Exchange : Made(l) = 1
<1>1. Here /\ Exchange \subseteq mem.shared.steps
  BY HereIs DEF ClientInv, ProcKnows, RunAt, Exchange
<1>2. \A l \in Exchange : l \in Labels /\ OnFile(mem, l)
  BY <1>1 DEF ClientInv, StepsAreRecorded, Exchange
<1>3. mem \in Files /\ FilesAreSound(mem)
  BY DEF ClientInv, ClientTyped
<1>4. \A n \in Names : mem[n].before[1] = NoMoney
  <2>1. \A n \in Names : mem[n].before \in Snapshots
    BY <1>3 DEF Files, IdentityKind, Names
  <2> QED BY <2>1 DEF Snapshots
<1>5. /\ "deploy-type" \in Exchange /\ "profile.alice" \in Exchange /\ "profile.bob" \in Exchange
      /\ "send" \in Exchange /\ "respond" \in Exchange /\ "ack-reclaim" \in Exchange
      /\ "rotate.alice" \in Labels /\ "alice" \in Names /\ "bob" \in Names
  BY DEF Exchange, Labels, Names
<1>6. \A l \in Exchange : Committed(l) # {}
  <2>1. \A l \in Exchange : Payer(l) \in Names /\ l \in mem[Payer(l)].fees
    BY <1>2, NamesAndLabels DEF OnFile
  <2> QED BY <1>3, <2>1 DEF FilesAreSound
<1>7. \A l \in Labels : Made(l) \in Nat /\ (Committed(l) # {} => Made(l) >= 1)
  BY MadeIsNat
<1>8. mem.shared.deployed /\ mem.alice.profile /\ mem.bob.profile
  BY <1>1, <1>2, <1>3, <1>5 DEF FilesAreSound, OnFile
<1>9. CheckDelta(-(Cardinality(mem.alice.fees) + LockedCapacities("alice")),
                 BalanceSnapshot("alice").spendable - mem.alice.before[1].spendable,
                 OneFeeMargin(mem.alice.fees))
      /\ CheckDelta(-Cardinality(mem.alice.fees),
                    BalanceSnapshot("alice").total - mem.alice.before[1].total,
                    OneFeeMargin(mem.alice.fees))
  BY <1>5 DEF ReconcileSide
<1>10. CheckDelta(-(Cardinality(mem.bob.fees) + LockedCapacities("bob")),
                 BalanceSnapshot("bob").spendable - mem.bob.before[1].spendable,
                 OneFeeMargin(mem.bob.fees))
      /\ CheckDelta(-Cardinality(mem.bob.fees),
                    BalanceSnapshot("bob").total - mem.bob.before[1].total,
                    OneFeeMargin(mem.bob.fees))
  BY <1>5 DEF ReconcileSide
<1>11. LockedCapacities("alice") = 107 /\ LockedCapacities("bob") = 27
  BY <1>8 DEF LockedCapacities, Capacity
<1>12. PICK fees : fees = mem.alice.fees
  OBVIOUS
<1>13. fees \subseteq Labels /\ \A l \in fees : Payer(l) = "alice" /\ Committed(l) # {}
  BY <1>3, <1>5, <1>12 DEF FilesAreSound, Files, IdentityKind
<1>14. /\ "deploy-type" \in fees /\ "profile.alice" \in fees /\ "send" \in fees
       /\ "ack-reclaim" \in fees
  BY <1>2, <1>5, <1>12 DEF OnFile, Payer
<1>15. Cardinality(fees) = 4 \/ (Cardinality(fees) = 5 /\ "rotate.alice" \in fees)
  <2>1. \A l \in fees : \/ l = "deploy-type" \/ l = "profile.alice" \/ l = "send"
                        \/ l = "ack-reclaim" \/ l = "rotate.alice"
    BY <1>13 DEF Labels, Payer
  <2>2. FourOfFive("deploy-type", "profile.alice", "send", "ack-reclaim", "rotate.alice", fees)
    BY <1>14, <2>1 DEF FourOfFive
  <2> QED BY <2>2, FourOrFive
<1>16. PICK k \in Nat : k = Cardinality(fees) /\ (k = 4 \/ (k = 5 /\ Made("rotate.alice") >= 1))
  BY <1>5, <1>7, <1>13, <1>15
<1>17. PICK d \in Nat, p \in Nat, s \in Nat, a \in Nat, r \in Nat :
          /\ d = Made("deploy-type") /\ p = Made("profile.alice") /\ s = Made("send")
          /\ a = Made("ack-reclaim") /\ r = Made("rotate.alice")
          /\ d >= 1 /\ p >= 1 /\ s >= 1 /\ a >= 1
  BY <1>2, <1>5, <1>6, <1>7
<1>18. PICK total \in Int : total = -((d + p + s + a + r) + 17 * r)
  OBVIOUS
<1>19. PICK cells \in Int : cells = 90 * d + 17 * (p - r) + 10 * (s - a)
  OBVIOUS
<1>20. /\ BalanceSnapshot("alice").total = total
       /\ BalanceSnapshot("alice").spendable = total - cells
  <2>1. FeesPaid("alice") = d + p + s + a + r
    BY <1>17, FeesAre
  <2>2. MovedAway("alice") = 17 * r /\ ProtocolCells("alice") = cells
    BY <1>17, <1>19 DEF MovedAway, ProtocolCells, Capacity
  <2> QED BY <1>18, <1>19, <2>1, <2>2 DEF BalanceSnapshot
<1>21. /\ -1 <= total + k /\ total + k <= 1
       /\ -1 <= total - cells + (k + 107) /\ total - cells + (k + 107) <= 1
  <2>1. OneFeeMargin(mem.alice.fees) = 1
    BY <1>12, <1>14 DEF OneFeeMargin
  <2>2. mem.alice.before[1].spendable = 0 /\ mem.alice.before[1].total = 0
    BY <1>4, <1>5 DEF NoMoney
  <2>3. CheckDelta(-(k + 107), total - cells - 0, 1) /\ CheckDelta(-k, total - 0, 1)
    BY <1>9, <1>11, <1>12, <1>16, <1>20, <2>1, <2>2
  <2> QED BY <2>3 DEF CheckDelta
<1>22. d = 1 /\ p = 1 /\ s = 1 /\ a = 1
  <2>1. AliceBooks(d, p, s, a, r, k, total, cells)
    BY <1>16, <1>17, <1>18, <1>19, <1>21 DEF AliceBooks
  <2> QED BY <2>1, AliceAddsUp
<1>23. mem.bob.fees = {"profile.bob", "respond"}
  <2>1. mem.bob.fees \subseteq Labels /\ \A l \in mem.bob.fees : Payer(l) = "bob"
    BY <1>3, <1>5 DEF FilesAreSound, Files, IdentityKind
  <2>2. "profile.bob" \in mem.bob.fees /\ "respond" \in mem.bob.fees
    BY <1>2, <1>5 DEF OnFile, Payer
  <2> QED BY <2>1, <2>2 DEF Labels, Payer
<1>24. PICK p2 \in Nat, q \in Nat : p2 = Made("profile.bob") /\ q = Made("respond")
                                    /\ p2 >= 1 /\ q >= 1
  BY <1>2, <1>5, <1>6, <1>7
<1>25. PICK total2 \in Int : total2 = -(p2 + q)
  OBVIOUS
<1>26. PICK cells2 \in Int : cells2 = 17 * p2 + 10 * q
  OBVIOUS
<1>27. /\ BalanceSnapshot("bob").total = total2
       /\ BalanceSnapshot("bob").spendable = total2 - cells2
  <2>1. FeesPaid("bob") = p2 + q
    BY <1>24, FeesAre
  <2>2. MovedAway("bob") = 0 /\ ProtocolCells("bob") = cells2
    BY <1>24, <1>26 DEF MovedAway, ProtocolCells, Capacity
  <2> QED BY <1>25, <1>26, <2>1, <2>2 DEF BalanceSnapshot
<1>28. /\ -1 <= total2 + 2 /\ total2 + 2 <= 1
       /\ -1 <= total2 - cells2 + (2 + 27) /\ total2 - cells2 + (2 + 27) <= 1
  <2>1. OneFeeMargin(mem.bob.fees) = 1
    BY <1>23 DEF OneFeeMargin
  <2>2. mem.bob.before[1].spendable = 0 /\ mem.bob.before[1].total = 0
    BY <1>4, <1>5 DEF NoMoney
  <2>3. Cardinality(mem.bob.fees) = 2
    BY <1>23, TwoOf
  <2>4. CheckDelta(-(2 + 27), total2 - cells2 - 0, 1) /\ CheckDelta(-2, total2 - 0, 1)
    BY <1>10, <1>11, <1>27, <2>1, <2>2, <2>3
  <2> QED BY <2>4 DEF CheckDelta
<1>29. p2 = 1 /\ q = 1
  <2>1. BobBooks(p2, q, total2, cells2)
    BY <1>24, <1>25, <1>26, <1>28 DEF BobBooks
  <2> QED BY <2>1, BobAddsUp
<1> QED BY <1>17, <1>22, <1>24, <1>29 DEF Exchange, Labels

(* What a step that is done leaves alone.                                  *)
LEMMA StepsAreOver ==
    ASSUME ClientInv, ClientSettled, [ClientNext]_clientVars
    PROVE  /\ \A l \in Labels : l \in mem.shared.steps => txs'[l] = txs[l]
           /\ disk.shared.steps \subseteq disk'.shared.steps
           /\ accounted' = accounted \/ Reconcile
<1>1. ASSUME NEW label \in Labels, NEW ready, NEW final, BroadcastAndCheckpoint(label, ready, final)
      PROVE  /\ \A l \in Labels : l \in mem.shared.steps => txs'[l] = txs[l]
             /\ disk' = disk /\ accounted' = accounted
  <2>1. CASE SendTx(label)
    <3>1. label \notin mem.shared.steps
      BY <2>1, HereIs DEF SendTx, ClientSettled
    <3>2. txs' = txs \/ txs' = [txs EXCEPT ![label] = Append(@, "pool")]
      BY <2>1 DEF SendTx
    <3>3. \A l \in Labels : l # label => txs'[l] = txs[l]
      BY <3>2 DEF ClientInv, ClientTyped
    <3> QED BY <2>1, <3>1, <3>3 DEF SendTx
  <2>2. CASE \/ CheckStep(label, ready) \/ RecordPending(label) \/ WaitForCommit(label)
             \/ FinalizeTx(label, final) \/ MarkStep(label)
    BY <2>2 DEF CheckStep, RecordPending, WaitForCommit, FinalizeTx, MarkStep
  <2> QED BY <1>1, <2>1, <2>2 DEF BroadcastAndCheckpoint
<1>2. CASE StepDeployType \/ StepProfiles \/ StepSend \/ StepRespond \/ StepReclaim \/ StepRotate
  <2>1. \E label \in Labels : \E ready, final : BroadcastAndCheckpoint(label, ready, final)
    BY <1>2 DEF StepDeployType, StepProfiles, CreateClientProfile, StepSend, StepRespond, StepReclaim,
       StepRotate, Labels
  <2> QED BY <1>1, <2>1
<1>3. CASE TxLands \/ TxDropped
  <2>1. PICK l \in Labels, i \in 1..MaxTxs, to \in {"committed", "dropped"} :
           i \in DOMAIN txs[l] /\ txs[l][i] = "pool" /\ txs' = [txs EXCEPT ![l][i] = to]
    BY <1>3 DEF TxLands, TxDropped
  <2>2. l \notin mem.shared.steps
    BY <2>1 DEF ClientSettled, InPool
  <2>3. \A k \in Labels : k # l => txs'[k] = txs[k]
    BY <2>1 DEF ClientInv, ClientTyped
  <2> QED BY <1>3, <2>2, <2>3 DEF TxLands, TxDropped
<1>4. CASE WriteFile
  <2>1. /\ proc.file \in {"shared", "alice", "bob"} /\ disk \in Files /\ mem \in Files
    BY <1>4 DEF WriteFile, ClientInv, ClientTyped, Procs
  <2>2. disk'.shared = disk.shared \/ disk'.shared = mem.shared
    <3>1. CASE proc.file = "shared"
      BY <1>4, <2>1, <3>1 DEF WriteFile, Files
    <3>2. CASE proc.file = "alice"
      BY <1>4, <2>1, <3>2 DEF WriteFile, Files
    <3>3. CASE proc.file = "bob"
      BY <1>4, <2>1, <3>3 DEF WriteFile, Files
    <3> QED BY <2>1, <3>1, <3>2, <3>3
  <2>3. disk.shared.steps \subseteq mem.shared.steps
    BY DEF ClientInv, StepsAreRecorded
  <2> QED BY <1>4, <2>2, <2>3 DEF WriteFile
<1>5. CASE \/ BeginStep \/ Done \/ Die \/ Setup \/ Receive \/ Acknowledge \/ Watch
           \/ VerifyRotation \/ Reconcile \/ UNCHANGED clientVars
  <2>1. disk' = disk /\ txs' = txs
    BY <1>5 DEF BeginStep, Done, Die, Setup, Receive, Acknowledge, Watch, VerifyRotation,
       Reconcile, clientVars
  <2>2. accounted' = accounted \/ Reconcile
    BY <1>5 DEF BeginStep, Done, Die, Setup, Receive, Acknowledge, Watch, VerifyRotation,
       clientVars
  <2> QED BY <2>1, <2>2
<1> QED BY <1>2, <1>3, <1>4, <1>5 DEF ClientNext

LEMMA AccountedStep ==
    ASSUME ClientInv, ClientSettled, ClientAccounted, [ClientNext]_clientVars
    PROVE  ClientAccounted'
<1>1. CASE accounted' = accounted
  <2> SUFFICES ASSUME accounted
               PROVE  Exchange \subseteq disk'.shared.steps /\ \A l \in Exchange : Made(l)' = 1
    BY <1>1 DEF ClientAccounted
  <2>1. Exchange \subseteq disk.shared.steps /\ \A l \in Exchange : Made(l) = 1
    BY DEF ClientAccounted
  <2>2. Exchange \subseteq Labels /\ Exchange \subseteq mem.shared.steps
    BY <2>1 DEF ClientInv, StepsAreRecorded, Exchange
  <2>3. \A l \in Exchange : txs'[l] = txs[l]
    BY <2>2, StepsAreOver
  <2>4. \A l \in Exchange : Made(l)' = Made(l)
    BY <2>3 DEF Made, Committed
  <2>5. disk.shared.steps \subseteq disk'.shared.steps
    BY StepsAreOver
  <2> QED BY <2>1, <2>4, <2>5
<1>2. CASE Reconcile /\ accounted' # accounted
  <2>1. RunAt("reconcile", "start") /\ disk' = disk /\ txs' = txs
    BY <1>2 DEF Reconcile
  <2>2. \A n \in Names : mem[n].before # <<>> /\ ReconcileSide(n)
    BY <1>2 DEF Reconcile, ClientInv, ClientTyped
  <2>3. \A l \in Exchange : Made(l) = 1
    BY <2>1, <2>2, ReconcileCounts
  <2>4. Exchange \subseteq disk.shared.steps
    BY <2>1, HereIs DEF ClientInv, ProcKnows, RunAt, Exchange, Here
  <2>5. \A l \in Exchange : Made(l)' = Made(l)
    BY <2>1 DEF Made, Committed
  <2> QED BY <2>1, <2>3, <2>4, <2>5 DEF ClientAccounted
<1> QED BY <1>1, <1>2, StepsAreOver

LEMMA SettledAtFirst == ClientInit => ClientSettled /\ ClientAccounted
<1> SUFFICES ASSUME ClientInit PROVE ClientSettled /\ ClientAccounted
  OBVIOUS
<1>1. \A l \in Labels : txs[l] = <<>> /\ DOMAIN txs[l] = {}
  BY EmptySeq DEF ClientInit
<1>2. NewShared.steps = {} /\ \A l \in Labels : NewShared.pending[l] = 0
  BY DEF NewShared
<1>3. disk.shared = NewShared /\ mem.shared = NewShared /\ proc.at = "none" /\ accounted = FALSE
  BY DEF ClientInit, Idle
<1> QED BY <1>1, <1>2, <1>3 DEF ClientSettled, ClientAccounted, LastIsOpen, Under, InPool

(* A reconcile that passes (reconcile.ts) has found every transaction of   *)
(* the exchange committed once: no answer lost, no file unwritten, no      *)
(* broadcast made again is hidden by the margin of a fee.                  *)
THEOREM ReconcileHolds == ClientSpec => []ReconcileIsSound
<1>1. ClientInit => ClientInv /\ ClientSettled /\ ClientAccounted
  BY ClientStarts, SettledAtFirst
<1>2. ClientInv /\ ClientSettled /\ ClientAccounted /\ [ClientNext]_clientVars
      => ClientInv' /\ ClientSettled' /\ ClientAccounted'
  BY ClientStep, AccountedStep DEF ClientKept
<1>3. ClientAccounted => ReconcileIsSound
  BY DEF ClientAccounted, ReconcileIsSound, Exchange
<1> QED BY <1>1, <1>2, <1>3, PTL DEF ClientSpec
=============================================================================
