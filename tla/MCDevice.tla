------------------------------ MODULE MCDevice ------------------------------
(***************************************************************************)
(* The components of the device that share no state with each other in the *)
(* models, checked side by side: a behaviour exercises one of them, the    *)
(* others rest in an initial state, so that the states add up and do not   *)
(* multiply.                                                               *)
(***************************************************************************)
EXTENDS Session, SweepLoop, LockedProbe, Database,
        Attachments, Rotation, ContactBook, ReferenceClient, Wire,
        Bridges, Scheduling

VARIABLE focus   \* the component that moves

deviceVars == <<focus, sessionVars, loopVars, probeVars, dbVars, imageVars, rotationVars,
                bookVars, clientVars, wireVars, bridgeVars, schedulingVars>>

Parts == {"session", "loop", "probe", "database", "image", "rotation", "book", "client",
          "wire", "bridge", "scheduling"}

Resting(part) == focus # part

Init ==
    /\ focus \in Parts
    /\ SessionInit /\ LoopInit /\ ProbeInit /\ DatabaseInit
    /\ ImageInit /\ RotationInit /\ ContactBookInit /\ ClientInit /\ WireInit
    /\ BridgeInit /\ SchedulingInit
    /\ \A c, d \in Cells : c < d => tagOf[c] <= tagOf[d]   \* the cells are alike
    /\ Resting("probe") => \A c \in Cells : tagOf[c] = 1
    /\ Resting("wire") => \A side \in DOMAIN clock : clock[side] = 1
    /\ Resting("bridge") => bridge = Scanner
    /\ Resting("scheduling") => follows = "wake"

Next ==
    /\ UNCHANGED focus
    /\ IF focus = "session" THEN SessionNext ELSE UNCHANGED sessionVars
    /\ IF focus = "loop" THEN LoopNext ELSE UNCHANGED loopVars
    /\ IF focus = "probe" THEN ProbeNext ELSE UNCHANGED probeVars
    /\ IF focus = "database" THEN DatabaseNext ELSE UNCHANGED dbVars
    /\ IF focus = "image" THEN ImageNext ELSE UNCHANGED imageVars
    /\ IF focus = "rotation" THEN RotationNext ELSE UNCHANGED rotationVars
    /\ IF focus = "book" THEN ContactBookNext ELSE UNCHANGED bookVars
    /\ IF focus = "client" THEN ClientNext ELSE UNCHANGED clientVars
    /\ IF focus = "wire" THEN WireNext ELSE UNCHANGED wireVars
    /\ IF focus = "bridge" THEN BridgeNext ELSE UNCHANGED bridgeVars
    /\ IF focus = "scheduling" THEN SchedulingNext ELSE UNCHANGED schedulingVars

Runs(part) == focus = part

(* The poll is an interval of the same runtime that froze the auto-lock    *)
(* timer, and a close waits only for the transactions ahead of it.         *)
SessionFairness ==
    /\ WF_sessionVars(Runs("session") /\ PollFires)
    /\ WF_sessionVars(Runs("session") /\ FinishClose)

(* Timers fire in a foreground app, requests have time-outs so a worker's  *)
(* run ends, and a lease is a span of wall-clock time.                     *)
LoopFairness ==
    /\ \A i \in SessionIds : WF_loopVars(Runs("loop") /\ TimerFires(i))
    /\ \A i \in SessionIds : WF_loopVars(Runs("loop") /\ \E k \in Slots : RunStep(i, k))
    /\ WF_loopVars(Runs("loop") /\ LeaseExpires)

(* WorkManager repeats the tick; the indexer, asked for LiveTag, and the   *)
(* notification service may fail, but not every time.                      *)
ProbeFairness ==
    /\ WF_probeVars(Runs("probe") /\ StartTick)
    /\ WF_probeVars(Runs("probe") /\ TickStep)
    /\ WF_probeVars(Runs("probe") /\ \E t \in Tags : Answer(t) \/ Refuse(t))
    /\ SF_probeVars(Runs("probe") /\ Answer(LiveTag))
    /\ WF_probeVars(Runs("probe") /\ (TellWaiting \/ PostFails))
    /\ SF_probeVars(Runs("probe") /\ TellWaiting)

(* A native statement answers, so a unit of work ends.                     *)
DatabaseFairness == WF_dbVars(Runs("database") /\ \E c \in Callers : UnitStep(c))

Fairness ==
    SessionFairness /\ LoopFairness /\ ProbeFairness /\ DatabaseFairness

Spec == Init /\ [][Next]_deviceVars /\ Fairness

TypeOK ==
    /\ SessionTypeOK /\ LoopTypeOK /\ ProbeTypeOK /\ DatabaseTypeOK
    /\ ImageTypeOK /\ RotationTypeOK /\ ContactBookTypeOK /\ ClientTypeOK /\ WireTypeOK
    /\ BridgeTypeOK /\ SchedulingTypeOK
    /\ focus \in Parts

(* What the app gets from the platform: a dialog's answer reaches its      *)
(* caller and a worker asked for is run (Bridges, Scheduling).             *)
PlatformKeepsItsWord == BridgesKeepTheirPromises /\ WakesAreKept
=============================================================================
