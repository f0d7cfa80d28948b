----------------------------- MODULE Scheduling -----------------------------
(***************************************************************************)
(* What wakes the app in the background.  Every unlock registers the       *)
(* workers anew (cemp-sync/src/engine.ts start); their requests collapse   *)
(* into one periodic tick (platform/scheduler-coalesce.ts,                 *)
(* work-manager-scheduler.ts) that WorkManager keeps across processes and  *)
(* releases (background/CempSchedulerModule.kt); a failed worker adds a    *)
(* one-shot.  Each of them starts a doWork, which runs a headless          *)
(* JavaScript task and waits for its end (CempSyncWorker.kt,               *)
(* CempHeadlessTaskRegistry.kt, background-sync.ts).                       *)
(*                                                                         *)
(* A later release may ask for another tick; it then has another           *)
(* SCHEDULE_VERSION.  Native calls are handled in the order JavaScript     *)
(* made them.  Scheduling and running share only the fact that work is     *)
(* held: a behaviour follows one of the two.                               *)
(***************************************************************************)
EXTENDS Naturals, SequencesExt, FiniteSetsExt

CONSTANTS MaxUnlocks,    \* bound: unlocks
          MaxCallFaults, \* bound: native calls that throw
          MaxTicks       \* bound: runs of doWork

VARIABLES follows,     \* "schedule" or "wake"
          release,     \* the installed release
          registry,    \* the SpecRegistry of the process: [specs, scheduled]
          calls,       \* native calls under way
          held,        \* the periodic work WorkManager holds, NoTick if none
          version,     \* the stored SCHEDULE_VERSION, 0 before the first
          shots,       \* one-shot retries WorkManager holds
          intact,      \* no call of the last unlock has failed or was lost
          unlocks, callFaults,
          work,        \* work[n]: the n-th doWork
          task,        \* task[n]: the headless task it started
          entries      \* CempHeadlessTaskRegistry: ticks whose task can be ended

scheduleVars == <<follows, release, registry, calls, held, version, shots, intact, unlocks, callFaults>>
tickVars == <<work, task, entries>>
schedulingVars == <<scheduleVars, tickVars>>

-----------------------------------------------------------------------------
(* Minutes.  The first release has the table of workers.ts, with one       *)
(* worker for those that ask the same; the second is one that wakes up     *)
(* less often, in steps, and needs no network for it.                      *)

Every(id, every, net) == [id |-> id, every |-> every, net |-> net]
Tables == << <<Every("pending", 15, TRUE), Every("lora", 1, TRUE),
               Every("watched", 30, TRUE), Every("maintenance", 1440, FALSE)>>,
             <<Every("maintenance", 1440, FALSE), Every("watched", 30, FALSE)>> >>
Releases == DOMAIN Tables
ScheduleVersion(r) == r

NoTick == [every |-> 0, net |-> FALSE]
FreshRegistry == [specs |-> {}, scheduled |-> NoTick, out |-> <<>>]
IdleRegistry == [specs |-> {}, scheduled |-> NoTick]
MinEvery == 15

(* One tick for all: the shortest interval, no shorter than WorkManager    *)
(* allows, and the strictest constraint.                                   *)
Coalesce(specs) ==
    [every |-> Max({MinEvery, Min({s.every : s \in specs})}),
     net |-> \E s \in specs : s.net]

Replaces(previous) == previous # NoTick

Recompute(r) ==
    LET next == Coalesce(r.specs)
    IN  IF r.specs = {} \/ next = r.scheduled THEN r
        ELSE [r EXCEPT !.scheduled = next,
                       !.out = Append(@, [op |-> "periodic", tick |-> next,
                                          replace |-> Replaces(r.scheduled)])]

AddSpec(r, s) == Recompute([r EXCEPT !.specs = {t \in @ : t.id # s.id} \cup {s}])

Wanted == Coalesce(ToSet(Tables[release]))

-----------------------------------------------------------------------------
NoWork == [at |-> "idle", result |-> "none"]
NoTask == [js |-> "none", active |-> FALSE, timedOut |-> FALSE, late |-> FALSE]
TickIds == 1..MaxTicks

SchedulingTypeOK ==
    /\ follows \in {"schedule", "wake"}
    /\ release \in Releases /\ version \in {0} \cup Releases
    /\ shots \subseteq {"retry"} /\ intact \in BOOLEAN
    /\ unlocks \in 0..MaxUnlocks /\ callFaults \in 0..MaxCallFaults
    /\ \A n \in TickIds :
          /\ work[n].at \in {"idle", "context", "start", "await", "ending", "over"}
          /\ work[n].result \in {"none", "success", "retry", "failure"}
          /\ task[n].js \in {"none", "posted", "queued", "over"}
    /\ entries \subseteq TickIds

SchedulingInit ==
    /\ follows \in {"schedule", "wake"}
    /\ release = 1 /\ registry = IdleRegistry /\ calls = <<>>
    /\ held = NoTick /\ version = 0 /\ shots = {}
    /\ intact = FALSE /\ unlocks = 0 /\ callFaults = 0
    /\ work = [n \in TickIds |-> NoWork] /\ task = [n \in TickIds |-> NoTask]
    /\ entries = {}

-----------------------------------------------------------------------------
(* The scheduler.                                                          *)

(* SyncEngine.start, with the registry of a scheduler made for the unlock. *)
StartEngine ==
    /\ follows = "schedule" /\ unlocks < MaxUnlocks /\ unlocks' = unlocks + 1
    /\ LET r == FoldLeft(AddSpec, FreshRegistry, Tables[release])
       IN  /\ registry' = [specs |-> r.specs, scheduled |-> r.scheduled]
           /\ calls' = calls \o r.out
    /\ intact' = TRUE
    /\ UNCHANGED <<follows, release, held, version, shots, callFaults, tickVars>>

(* A worker failed: backoff, and a one-shot. A later success takes it out; *)
(* remove then finds nothing of that id in the registry.                   *)
ScheduleOneShot ==
    /\ registry.specs # {} /\ Len(calls) < 2
    /\ calls' = Append(calls, [op |-> "oneShot", tick |-> NoTick, replace |-> TRUE])
    /\ UNCHANGED <<follows, release, registry, held, version, shots, intact, unlocks, callFaults, tickVars>>

CancelRetry ==
    /\ registry.specs # {} /\ shots # {} /\ Len(calls) < 2
    /\ calls' = Append(calls, [op |-> "cancel", tick |-> NoTick, replace |-> TRUE])
    /\ UNCHANGED <<follows, release, registry, held, version, shots, intact, unlocks, callFaults, tickVars>>

(* wipe awaits cancelPeriodic; the process then has no wallet to sync.     *)
WipeCancels ==
    /\ registry.specs # {} /\ calls = <<>>
    /\ calls' = <<[op |-> "cancelPeriodic", tick |-> NoTick, replace |-> TRUE]>>
    /\ registry' = IdleRegistry /\ intact' = FALSE
    /\ UNCHANGED <<follows, release, held, version, shots, unlocks, callFaults, tickVars>>

Upgraded == version # ScheduleVersion(release)

(* UPDATE when asked to or straight after an upgrade, KEEP otherwise; the  *)
(* version is stored only once the work is enqueued.                       *)
SchedulePeriodic ==
    /\ calls # <<>> /\ Head(calls).op = "periodic"
    /\ held' = IF Head(calls).replace \/ Upgraded \/ held = NoTick THEN Head(calls).tick ELSE held
    /\ version' = ScheduleVersion(release)
    /\ calls' = Tail(calls)
    /\ UNCHANGED <<follows, release, registry, shots, intact, unlocks, callFaults, tickVars>>

NativeCall ==
    /\ calls # <<>> /\ Head(calls).op # "periodic"
    /\ held' = IF Head(calls).op = "cancelPeriodic" THEN NoTick ELSE held
    /\ shots' = CASE Head(calls).op = "oneShot" -> {"retry"}
                  [] Head(calls).op = "cancel" -> {}
                  [] OTHER -> shots
    /\ calls' = Tail(calls)
    /\ UNCHANGED <<follows, release, registry, version, intact, unlocks, callFaults, tickVars>>

(* A rejected promise that nobody looks at.                                *)
CallFails ==
    /\ calls # <<>> /\ callFaults < MaxCallFaults
    /\ callFaults' = callFaults + 1
    /\ intact' = FALSE
    /\ calls' = Tail(calls)
    /\ UNCHANGED <<follows, release, registry, held, version, shots, unlocks, tickVars>>

(* A one-shot that is released is gone.                                    *)
OneShotRuns ==
    /\ shots # {} /\ shots' = {}
    /\ UNCHANGED <<follows, release, registry, calls, held, version, intact, unlocks, callFaults, tickVars>>

(* The process ends; the store may install another release meanwhile.      *)
ProcessEnds ==
    /\ registry # IdleRegistry \/ \E n \in TickIds : work[n].at \notin {"idle", "over"}
    /\ release' \in {release, Max(Releases)}
    /\ registry' = IdleRegistry /\ calls' = <<>> /\ intact' = FALSE
    /\ work' = [n \in TickIds |-> IF work[n].at = "idle" THEN work[n]
                                  ELSE [work[n] EXCEPT !.at = "over"]]
    /\ task' = [n \in TickIds |-> [task[n] EXCEPT !.active = FALSE, !.js = "over"]]
    /\ entries' = {}
    /\ UNCHANGED <<follows, held, version, shots, unlocks, callFaults>>

-----------------------------------------------------------------------------
(* doWork.  The ticks of a process share the registry of tasks and hear of *)
(* the end of every task.                                                  *)

DoWork(n) ==
    /\ follows = "wake"
    /\ work[n].at = "idle" /\ \A m \in 1..(n - 1) : work[m].at # "idle"
    /\ work' = [work EXCEPT ![n].at = "context"]
    /\ UNCHANGED <<scheduleVars, task, entries>>

Ends(n, result) == work' = [work EXCEPT ![n] = [@ EXCEPT !.at = "over", !.result = result]]

(* A build without a ReactHost.                                            *)
NoReactHost(n) ==
    /\ work[n].at = "context"
    /\ Ends(n, "failure")
    /\ UNCHANGED <<scheduleVars, task, entries>>

(* The React context exists, comes up, or does not within a minute.        *)
AwaitReactContext(n) ==
    /\ work[n].at = "context"
    /\ work' = [work EXCEPT ![n].at = "start"] \/ Ends(n, "retry")
    /\ UNCHANGED <<scheduleVars, task, entries>>

(* The start is posted onto the UI thread and the tick waits.              *)
RunTask(n) ==
    /\ work[n].at = "start"
    /\ work' = [work EXCEPT ![n].at = "await"]
    /\ task' = [task EXCEPT ![n] = [NoTask EXCEPT !.js = "posted"]]
    /\ UNCHANGED <<scheduleVars, entries>>

NotPosted(n) ==
    /\ work[n].at = "start"
    /\ Ends(n, "retry")
    /\ UNCHANGED <<scheduleVars, task, entries>>

(* The UI thread gets to it: the task is started and the tick id           *)
(* registered before JavaScript can hear of it, also for a tick that has   *)
(* ended meanwhile.                                                        *)
StartTask(n) ==
    /\ task[n].js = "posted"
    /\ task' = [task EXCEPT ![n] = [js |-> "queued", active |-> TRUE, timedOut |-> FALSE,
                                    late |-> work[n].at = "over"]]
    /\ entries' = entries \cup {n}
    /\ UNCHANGED <<scheduleVars, work>>

(* The wait completes with the error, which TickEnds makes a retry.        *)
StartThrows(n) ==
    /\ task[n].js = "posted"
    /\ task' = [task EXCEPT ![n].js = "over"]
    /\ UNCHANGED <<scheduleVars, work, entries>>

IsOurs(n, ended) == n = ended

(* finishTask, for a task that is still active, tells every listener.      *)
Told(ended) ==
    [m \in TickIds |-> IF task[ended].active /\ work[m].at = "await" /\ IsOurs(m, ended)
                       THEN [work[m] EXCEPT !.at = "ending"] ELSE work[m]]

(* backgroundSyncTask ends, well or not, and names its tick.               *)
NotifyTaskFinished(n) ==
    /\ task[n].js = "queued"
    /\ IF n \in entries
       THEN /\ entries' = entries \ {n}
            /\ task' = [task EXCEPT ![n] = [@ EXCEPT !.js = "over", !.active = FALSE]]
            /\ work' = Told(n)
       ELSE /\ task' = [task EXCEPT ![n].js = "over"]
            /\ UNCHANGED <<work, entries>>
    /\ UNCHANGED scheduleVars

(* React Native ends a task after two minutes; its JavaScript goes on.     *)
TaskTimesOut(n) ==
    /\ task[n].active
    /\ task' = [task EXCEPT ![n] = [@ EXCEPT !.active = FALSE, !.timedOut = TRUE]]
    /\ work' = Told(n)
    /\ UNCHANGED <<scheduleVars, entries>>

(* The wait is over, cancelled, or gave up after 135 seconds, which may    *)
(* overtake an end already told. The `finally` forgets the entry.          *)
TickEnds(n) ==
    /\ work[n].at \in {"await", "ending"}
    /\ Ends(n, "retry") \/ (work[n].at = "ending" /\ Ends(n, "success"))
    /\ entries' = entries \ {n}
    /\ UNCHANGED <<scheduleVars, task>>

-----------------------------------------------------------------------------
SchedulingNext ==
    \/ StartEngine \/ ScheduleOneShot \/ CancelRetry \/ WipeCancels
    \/ SchedulePeriodic \/ NativeCall \/ CallFails \/ OneShotRuns \/ ProcessEnds
    \/ \E n \in TickIds :
          \/ DoWork(n) \/ NoReactHost(n) \/ AwaitReactContext(n)
          \/ RunTask(n) \/ NotPosted(n) \/ StartTask(n) \/ StartThrows(n)
          \/ NotifyTaskFinished(n) \/ TaskTimesOut(n) \/ TickEnds(n)

SchedulingSpec == SchedulingInit /\ [][SchedulingNext]_schedulingVars

-----------------------------------------------------------------------------
(* Once the calls of an unlock went through, WorkManager holds the tick    *)
(* the installed release wants, whatever earlier processes, releases and   *)
(* failed calls left behind (CempSchedulerModule.kt:30-48, 62-72).         *)
HeldIsWanted == intact /\ calls = <<>> => held = Wanted

(* WorkManager hears of a success only when the work's own task is over or *)
(* timed out. An entry is there for a task that has not reported its end,  *)
(* and outlives its tick only if the UI thread got to the start too late   *)
(* (CempSyncWorker.kt:140-183, CempHeadlessTaskRegistry.kt:41-69).         *)
TicksEndAlone ==
    /\ \A n \in TickIds : work[n].result = "success" => task[n].js = "over" \/ task[n].timedOut
    /\ \A n \in entries :
          /\ task[n].js = "queued"
          /\ work[n].at = "over" => task[n].late

(* The background is woken as the app asks, and each wake-up lasts as long *)
(* as its own work.                                                        *)
WakesAreKept == HeldIsWanted /\ TicksEndAlone
=============================================================================
