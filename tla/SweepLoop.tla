----------------------------- MODULE SweepLoop -----------------------------
(***************************************************************************)
(* Who sweeps, and when: the foreground loop                               *)
(* (apps/android/src/foreground-sync.ts), the background tick that joins   *)
(* it uninvited, and the engine that runs a worker under its lease         *)
(* (packages/cemp-sync/src/engine.ts, worker-leases.ts).                   *)
(*                                                                         *)
(* Every unlock makes a session: a loop, an engine with an id of its own   *)
(* and a database handle, all three discarded at the lock.  One worker     *)
(* stands for the list; a cadence is "chat" or the longer "idle".  The     *)
(* retry counter and the one-shot tick a failed run leaves behind guard    *)
(* nothing and are left out: that tick is one more Tick.                   *)
(***************************************************************************)
EXTENDS Naturals

CONSTANTS MaxSessions,   \* bound: unlocks
          MaxFaults      \* bound: statements that throw on an open handle

ASSUME LoopAssumption == MaxSessions \in Nat /\ MaxFaults \in Nat

VARIABLES current,    \* the session of the last unlock, 0 before the first
          open,       \* its database handle is open
          loop,       \* loop[i]: the ForegroundSync of session i
          run,        \* run[i][k]: what sweep k of session i is doing
          lease,      \* the worker's lease row
          faults,
          swept       \* swept[i]: the worker ran in session i since it was last resumed

loopVars == <<current, open, loop, run, lease, faults, swept>>

SessionIds == 1..MaxSessions
Slots == {"x", "y"}                   \* sweeps of one session in flight together
Cadences == {"idle", "chat"}
NoLease == [owner |-> 0, expired |-> FALSE]
IdleRun == [at |-> "idle", by |-> "none"]
FreshLoop == [started |-> FALSE, paused |-> FALSE, inFlight |-> FALSE,
              timer |-> "off", cadence |-> "idle"]

LoopTypeOK ==
    /\ current \in 0..MaxSessions
    /\ open \in BOOLEAN
    /\ loop \in [SessionIds -> [started : BOOLEAN, paused : BOOLEAN, inFlight : BOOLEAN,
                                timer : {"off"} \cup Cadences, cadence : Cadences]]
    /\ \A i \in SessionIds, k \in Slots :
          run[i][k] \in [at : {"idle", "acquire", "work", "release"}, by : {"none", "loop", "tick"}]
    /\ lease \in [owner : 0..MaxSessions, expired : BOOLEAN]
    /\ faults \in 0..MaxFaults
    /\ swept \in [SessionIds -> BOOLEAN]

LoopInit ==
    /\ current = 0 /\ open = FALSE
    /\ loop = [i \in SessionIds |-> FreshLoop]
    /\ run = [i \in SessionIds |-> [k \in Slots |-> IdleRun]]
    /\ lease = NoLease /\ faults = 0
    /\ swept = [i \in SessionIds |-> FALSE]

-----------------------------------------------------------------------------
(* ForegroundSync.                                                         *)

MayRun(l) == l.started /\ ~l.paused /\ ~l.inFlight

FreeSlot(i) == \E k \in Slots : run[i][k].at = "idle"
Launch(i, by) ==
    LET k == CHOOSE k \in Slots : run[i][k].at = "idle"
    IN run' = [run EXCEPT ![i][k] = [IdleRun EXCEPT !.at = "acquire", !.by = by]]

(* #run, called with the loop in state l.                                  *)
RunLoop(i, l) ==
    IF MayRun(l)
    THEN /\ loop' = [loop EXCEPT ![i] = [l EXCEPT !.inFlight = TRUE]]
         /\ Launch(i, "loop")
    ELSE loop' = [loop EXCEPT ![i] = l] /\ UNCHANGED run

Started(l) == [l EXCEPT !.started = TRUE, !.paused = FALSE, !.cadence = "idle"]

\* A plausible bug: suspending forgets the sweep that is left to finish.
Paused_Flawed(l) == [l EXCEPT !.paused = TRUE, !.timer = "off", !.inFlight = FALSE]

Paused(l) == [l EXCEPT !.paused = TRUE, !.timer = "off"]
Resumed(l) == [l EXCEPT !.paused = FALSE]
Stopped(l) == [l EXCEPT !.started = FALSE, !.paused = FALSE, !.timer = "off"]

(* A tightening re-arms the pending timer, a loosening leaves it alone.    *)
WithCadence(l, cadence) ==
    LET tightening == cadence = "chat" /\ l.cadence = "idle"
    IN [l EXCEPT !.cadence = cadence,
                 !.timer = IF tightening /\ MayRun(l) THEN cadence ELSE @]

(* The sweep's `finally`, whether it failed or not.                        *)
AfterSweep(l, failed) ==
    [l EXCEPT !.inFlight = FALSE,
              !.timer = IF l.started /\ ~l.paused THEN l.cadence ELSE @]

TimerFires(i) ==
    /\ loop[i].timer # "off"
    /\ RunLoop(i, [loop[i] EXCEPT !.timer = "off"])
    /\ UNCHANGED <<current, open, lease, faults, swept>>

(* A focused screen's runNow joins a sweep in flight.                      *)
RunNow(i) ==
    /\ i = current /\ MayRun(loop[i])
    /\ RunLoop(i, loop[i])
    /\ UNCHANGED <<current, open, lease, faults, swept>>

SetCadence(i, cadence) ==
    /\ i = current /\ open /\ cadence # loop[i].cadence
    /\ loop' = [loop EXCEPT ![i] = WithCadence(loop[i], cadence)]
    /\ UNCHANGED <<current, open, run, lease, faults, swept>>

Pause(i) ==
    /\ loop[i].started /\ ~loop[i].paused
    /\ loop' = [loop EXCEPT ![i] = Paused(loop[i])]
    /\ UNCHANGED <<current, open, run, lease, faults, swept>>

Resume(i) ==
    /\ loop[i].started /\ loop[i].paused
    /\ RunLoop(i, Resumed(loop[i]))
    /\ swept' = [swept EXCEPT ![i] = FALSE]
    /\ UNCHANGED <<current, open, lease, faults>>

-----------------------------------------------------------------------------
(* Unlock, lock and the background tick.                                   *)

Unlock ==
    /\ ~open /\ current < MaxSessions
    /\ current' = current + 1 /\ open' = TRUE
    /\ RunLoop(current + 1, Started(loop[current + 1]))
    /\ UNCHANGED <<lease, faults, swept>>

(* stopPoll first, then the database handle is closed; a sweep in flight   *)
(* finds out at its next statement.                                        *)
Lock ==
    /\ open
    /\ open' = FALSE
    /\ loop' = [loop EXCEPT ![current] = Stopped(loop[current])]
    /\ UNCHANGED <<current, run, lease, faults, swept>>

TickBusy == \E i \in SessionIds, k \in Slots : run[i][k].by = "tick"

(* The tick calls messaging.syncNow itself: the loop does not know of it.  *)
Tick ==
    /\ open /\ FreeSlot(current) /\ ~TickBusy
    /\ Launch(current, "tick")
    /\ UNCHANGED <<current, open, loop, lease, faults, swept>>

-----------------------------------------------------------------------------
(* One sweep: runWorker under the lease.                                   *)

HasHandle(i) == open /\ i = current
GotoRun(i, k, at) == run' = [run EXCEPT ![i][k].at = at]

EndSweep(i, k, failed) ==
    /\ run' = [run EXCEPT ![i][k] = IdleRun]
    /\ loop' = IF run[i][k].by = "loop"
               THEN [loop EXCEPT ![i] = AfterSweep(loop[i], failed)]
               ELSE loop

(* A statement on a closed handle throws, and so does the release after it. *)
Abandon(i, k) ==
    /\ run[i][k].at # "idle" /\ ~HasHandle(i)
    /\ EndSweep(i, k, TRUE)
    /\ UNCHANGED <<current, open, lease, faults, swept>>

(* Acquiring may throw before the try, and releasing in the finally.       *)
LeaseFails(i, k) ==
    /\ run[i][k].at \in {"acquire", "release"} /\ HasHandle(i)
    /\ faults < MaxFaults
    /\ faults' = faults + 1
    /\ EndSweep(i, k, TRUE)
    /\ UNCHANGED <<current, open, lease, swept>>

\* A plausible bug: a lease that ran out is still somebody else's.
Obtainable_Flawed(i) == lease.owner \in {0, i}

Obtainable(i) == lease.owner \in {0, i} \/ lease.expired

(* A rival's live lease skips the run; one's own is refreshed.             *)
Acquire(i, k) ==
    /\ run[i][k].at = "acquire" /\ HasHandle(i)
    /\ IF Obtainable(i)
       THEN lease' = [owner |-> i, expired |-> FALSE] /\ GotoRun(i, k, "work") /\ UNCHANGED loop
       ELSE EndSweep(i, k, FALSE) /\ UNCHANGED lease
    /\ UNCHANGED <<current, open, faults, swept>>

(* A run that fails is caught and goes on to release as well.              *)
WorkerRuns(i, k) ==
    /\ run[i][k].at = "work" /\ HasHandle(i)
    /\ swept' = [swept EXCEPT ![i] = TRUE]
    /\ GotoRun(i, k, "release")
    /\ UNCHANGED <<current, open, loop, lease, faults>>

Release(i, k) ==
    /\ run[i][k].at = "release" /\ HasHandle(i)
    /\ lease' = IF lease.owner = i THEN NoLease ELSE lease
    /\ EndSweep(i, k, FALSE)
    /\ UNCHANGED <<current, open, faults, swept>>

(* Ten minutes pass since the lease was taken or refreshed.                *)
LeaseExpires ==
    /\ lease.owner # 0 /\ ~lease.expired
    /\ lease' = [lease EXCEPT !.expired = TRUE]
    /\ UNCHANGED <<current, open, loop, run, faults, swept>>

(* The maintenance worker's pruneExpired.                                  *)
PruneLease ==
    /\ open /\ lease.expired
    /\ lease' = NoLease
    /\ UNCHANGED <<current, open, loop, run, faults, swept>>

-----------------------------------------------------------------------------
RunStep(i, k) ==
    \/ Abandon(i, k) \/ LeaseFails(i, k) \/ Acquire(i, k) \/ WorkerRuns(i, k) \/ Release(i, k)

LoopNext ==
    \/ \E i \in SessionIds : TimerFires(i) \/ RunNow(i) \/ Pause(i) \/ Resume(i)
    \/ \E i \in SessionIds, cadence \in Cadences : SetCadence(i, cadence)
    \/ Unlock \/ Lock \/ Tick
    \/ \E i \in SessionIds, k \in Slots : RunStep(i, k)
    \/ LeaseExpires \/ PruneLease

LoopSpec == LoopInit /\ [][LoopNext]_loopVars

-----------------------------------------------------------------------------
(* However a screen, the timer, the app's state and the lock interleave, a *)
(* loop has at most one sweep of its own in flight                         *)
(* (foreground-sync.ts:115-123, 171-176).                                  *)
OneSweepPerLoop ==
    \A i \in SessionIds : \A j, k \in Slots :
        run[i][j].by = "loop" /\ run[i][k].by = "loop" => j = k

(* A loop that was started and is not suspended always has a next sweep    *)
(* coming: a sweep in flight or an armed timer, even after a sweep failed; *)
(* no timer outlives a stop or a pause, and the one a loop waits for is    *)
(* never longer than the cadence the screen asked for                      *)
(* (foreground-sync.ts:98-111, 153-160, 179-193).                          *)
LoopKeepsGoing ==
    \A i \in SessionIds :
        /\ loop[i].started /\ ~loop[i].paused => loop[i].inFlight \/ loop[i].timer # "off"
        /\ loop[i].timer # "off" =>
              /\ loop[i].started /\ ~loop[i].paused
              /\ loop[i].timer = "idle" /\ ~loop[i].inFlight => loop[i].cadence = "idle"

(* A loop neither doubles nor stalls (foreground-sync.ts:98-193).          *)
SweepsFollowOn == OneSweepPerLoop /\ LoopKeepsGoing

(* While a session stays unlocked and in the foreground its worker runs,   *)
(* though the sweep a lock cut short left its lease behind: that lease     *)
(* runs out (worker-leases.ts:66-77).                                      *)
SessionIsSwept ==
    []<>(\A i \in SessionIds : loop[i].started /\ ~loop[i].paused => swept[i])
=============================================================================
