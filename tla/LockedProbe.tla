---------------------------- MODULE LockedProbe ----------------------------
(***************************************************************************)
(* What the background tick does while the vault is locked                 *)
(* (apps/android/src/background-sync-core.ts): it asks the indexer for the *)
(* cells under the cached route tags and posts one notification for those  *)
(* it has not recorded.  The cache (platform/route-tag-cache-core.ts) is   *)
(* rewritten by the tick, by every unlock and by a full sweep, each a read *)
(* and a write with an await between them.                                 *)
(***************************************************************************)
EXTENDS FiniteSets, Naturals

CONSTANTS Cells,         \* message cells
          LiveTag,       \* the one tag the indexer answers again and again
          MaxEpoch,      \* bound: routing epochs
          MaxDisturbed   \* bound: ticks killed and cache rewrites that race a tick

ASSUME ProbeAssumption == MaxEpoch \in Nat \ {0} /\ MaxDisturbed \in Nat

VARIABLES tagOf,       \* the route tag a cell carries
          epoch,       \* the routing epoch
          onChain,     \* cells the indexer returns
          cached,      \* the cache was written and not cleared
          cache,       \* what it holds: the tags and the outpoints recorded
          tick,        \* the locked tick
          refresh,     \* a writeTags in flight
          unlocked,
          told,        \* told[c]: notifications that counted c, up to two
          disturbed    \* a tick died, or another writer ran beside it

probeVars == <<tagOf, epoch, onChain, cached, cache, tick, refresh, unlocked, told, disturbed>>

(* routeTagsHex derives the tags of an epoch and of its neighbours; two    *)
(* stand for the three.                                                    *)
Tags == 1..(MaxEpoch + 1)
TagsAt(e) == {e, e + 1}

IdleTick == [at |-> "idle", asking |-> {}, answered |-> {}, found |-> {},
             tags |-> {}, seen |-> {}]
IdleRefresh == [at |-> "idle", seen |-> {}]
EmptyCache == [tags |-> {}, lastSeen |-> {}]

ProbeTypeOK ==
    /\ tagOf \in [Cells -> Tags]
    /\ epoch \in 1..MaxEpoch
    /\ onChain \subseteq Cells
    /\ cached \in BOOLEAN
    /\ cache.tags \subseteq Tags /\ cache.lastSeen \subseteq Cells
    /\ tick.at \in {"idle", "read", "ask", "notify", "write"}
    /\ tick.asking \cup tick.answered \subseteq tick.tags
    /\ tick.found \cup tick.seen \subseteq Cells
    /\ refresh \in [at : {"idle", "read", "write"}, seen : SUBSET Cells]
    /\ unlocked \in BOOLEAN
    /\ told \in [Cells -> 0..2]
    /\ disturbed \in 0..MaxDisturbed

ProbeInit ==
    /\ tagOf \in [Cells -> Tags]
    /\ epoch = 1
    /\ onChain = {}
    /\ cached = FALSE /\ cache = EmptyCache
    /\ tick = IdleTick /\ refresh = IdleRefresh
    /\ unlocked = FALSE
    /\ told = [c \in Cells |-> 0]
    /\ disturbed = 0

-----------------------------------------------------------------------------
(* The locked tick.                                                        *)

StartTick ==
    /\ tick.at = "idle" /\ ~unlocked
    /\ tick' = [IdleTick EXCEPT !.at = "read"]
    /\ UNCHANGED <<tagOf, epoch, onChain, cached, cache, refresh, unlocked, told, disturbed>>

ReadCache ==
    /\ tick.at = "read"
    /\ tick' = IF ~cached \/ cache.tags = {}
               THEN IdleTick
               ELSE [IdleTick EXCEPT !.at = "ask", !.asking = cache.tags,
                                     !.tags = cache.tags, !.seen = cache.lastSeen]
    /\ UNCHANGED <<tagOf, epoch, onChain, cached, cache, refresh, unlocked, told, disturbed>>

(* outpointsForTag scans every page, or fails as a whole.                  *)
Answer(t) ==
    /\ tick.at = "ask" /\ t \in tick.asking
    /\ tick' = [tick EXCEPT !.asking = @ \ {t}, !.answered = @ \cup {t},
                            !.found = @ \cup {c \in onChain : tagOf[c] = t}]
    /\ UNCHANGED <<tagOf, epoch, onChain, cached, cache, refresh, unlocked, told, disturbed>>

Refuse(t) ==
    /\ tick.at = "ask" /\ t \in tick.asking
    /\ tick' = [tick EXCEPT !.asking = @ \ {t}]
    /\ UNCHANGED <<tagOf, epoch, onChain, cached, cache, refresh, unlocked, told, disturbed>>

Unseen == tick.found \ tick.seen

\* A plausible bug: one tag that fails silences the others.
Observed_Flawed == tick.answered = tick.tags

Observed == tick.answered # {}

Compare ==
    /\ tick.at = "ask" /\ tick.asking = {}
    /\ tick' = IF ~Observed THEN IdleTick
               ELSE [tick EXCEPT !.at = IF Unseen # {} THEN "notify" ELSE "write"]
    /\ UNCHANGED <<tagOf, epoch, onChain, cached, cache, refresh, unlocked, told, disturbed>>

TellWaiting ==
    /\ tick.at = "notify"
    /\ told' = [c \in Cells |-> IF c \in Unseen /\ told[c] < 2 THEN told[c] + 1 ELSE told[c]]
    /\ tick' = [tick EXCEPT !.at = "write"]
    /\ UNCHANGED <<tagOf, epoch, onChain, cached, cache, refresh, unlocked, disturbed>>

(* The next tick must find these outpoints new again.                      *)
AfterRefusedPost == IdleTick

PostFails ==
    /\ tick.at = "notify"
    /\ tick' = AfterRefusedPost
    /\ UNCHANGED <<tagOf, epoch, onChain, cached, cache, refresh, unlocked, told, disturbed>>

\* A plausible bug: the record is overwritten though a tag did not answer.
Recorded_Flawed == tick.found

(* Overwritten only when every tag answered, merged otherwise.             *)
Recorded == IF tick.answered = tick.tags THEN tick.found ELSE tick.seen \cup tick.found

WriteCache ==
    /\ tick.at = "write"
    /\ cached' = TRUE
    /\ cache' = [tags |-> tick.tags, lastSeen |-> Recorded]
    /\ tick' = IdleTick
    /\ UNCHANGED <<tagOf, epoch, onChain, refresh, unlocked, told, disturbed>>

(* Android ends the process, or the task's timeout does.                   *)
TickDies ==
    /\ tick.at # "idle" /\ disturbed < MaxDisturbed
    /\ disturbed' = disturbed + 1
    /\ tick' = IdleTick
    /\ UNCHANGED <<tagOf, epoch, onChain, cached, cache, refresh, unlocked, told>>

-----------------------------------------------------------------------------
(* The other writers of the cache.                                         *)

(* An unlock, or the full sweep of an unlocked tick.  It may overlap the   *)
(* locked tick: both live in one runtime.                                  *)
StartRefresh ==
    /\ refresh.at = "idle"
    /\ tick.at = "idle" \/ disturbed < MaxDisturbed
    /\ disturbed' = IF tick.at = "idle" THEN disturbed ELSE disturbed + 1
    /\ unlocked' = TRUE
    /\ refresh' = [IdleRefresh EXCEPT !.at = "read"]
    /\ UNCHANGED <<tagOf, epoch, onChain, cached, cache, tick, told>>

ReadForRefresh ==
    /\ refresh.at = "read"
    /\ refresh' = [at |-> "write", seen |-> IF cached THEN cache.lastSeen ELSE {}]
    /\ UNCHANGED <<tagOf, epoch, onChain, cached, cache, tick, unlocked, told, disturbed>>

WriteTags ==
    /\ refresh.at = "write"
    /\ cached' = TRUE
    /\ cache' = [tags |-> TagsAt(epoch), lastSeen |-> refresh.seen]
    /\ refresh' = IdleRefresh
    /\ UNCHANGED <<tagOf, epoch, onChain, tick, unlocked, told, disturbed>>

RelockProbe ==
    /\ unlocked /\ refresh.at = "idle"
    /\ unlocked' = FALSE
    /\ UNCHANGED <<tagOf, epoch, onChain, cached, cache, tick, refresh, told, disturbed>>

(* The wipe of the wallet; a writer in flight may write after it.          *)
ClearCache ==
    /\ cached /\ disturbed < MaxDisturbed
    /\ disturbed' = disturbed + 1
    /\ cached' = FALSE /\ cache' = EmptyCache
    /\ UNCHANGED <<tagOf, epoch, onChain, tick, refresh, unlocked, told>>

EpochTurns ==
    /\ epoch < MaxEpoch
    /\ epoch' = epoch + 1
    /\ UNCHANGED <<tagOf, onChain, cached, cache, tick, refresh, unlocked, told, disturbed>>

(* The chain. *)
CellArrives ==
    /\ \E c \in {d \in Cells : told[d] = 0} \ onChain : onChain' = onChain \cup {c}
    /\ UNCHANGED <<tagOf, epoch, cached, cache, tick, refresh, unlocked, told, disturbed>>

CellConsumed ==
    /\ \E c \in {d \in onChain : told[d] > 0} : onChain' = onChain \ {c}
    /\ UNCHANGED <<tagOf, epoch, cached, cache, tick, refresh, unlocked, told, disturbed>>

-----------------------------------------------------------------------------
TickStep == ReadCache \/ Compare \/ WriteCache

ProbeNext ==
    \/ StartTick \/ TickStep \/ TellWaiting \/ PostFails \/ TickDies
    \/ \E t \in Tags : Answer(t) \/ Refuse(t)
    \/ StartRefresh \/ ReadForRefresh \/ WriteTags \/ RelockProbe \/ ClearCache
    \/ EpochTurns
    \/ CellArrives \/ CellConsumed

ProbeSpec == ProbeInit /\ [][ProbeNext]_probeVars

-----------------------------------------------------------------------------
(* Nothing is recorded as seen that the user was not told of: the          *)
(* notification comes before the record and its failure leaves no record   *)
(* (background-sync-core.ts:63-72), whoever else writes the cache.         *)
SeenWasTold == \A c \in cache.lastSeen : told[c] > 0

(* Nobody is told twice of one message unless a tick was cut short or      *)
(* another writer of the cache ran beside it                               *)
(* (background-sync-core.ts:74-79, route-tag-cache-core.ts:73-76).         *)
NoRepeat == \A c \in Cells : told[c] = 2 => disturbed > 0

(* The record of what was announced is neither ahead of the announcements  *)
(* nor behind them (background-sync-core.ts:63-79).                        *)
AnnouncedOnce == SeenWasTold /\ NoRepeat

Unannounced(c) ==
    c \in onChain /\ ~unlocked /\ tagOf[c] \in cache.tags /\ told[c] = 0

(* A message waiting under a cached tag the indexer answers is announced,  *)
(* though every other tag may fail for ever, as long as the device stays   *)
(* locked and the cache keeps the tag (background-sync-core.ts:44-60).     *)
WaitingIsTold == []<>(\A c \in Cells : tagOf[c] = LiveTag => ~Unannounced(c))
=============================================================================
