----------------------------- MODULE RateLimits -----------------------------
(***************************************************************************)
(* The token buckets of incoming messages (cemp-ckb/src/rate-limit.ts over *)
(* cemp-database repositories/rate-limits.ts): one per contact and one for *)
(* all.  A consume reads both buckets and writes both, each a statement of *)
(* its own; two sweeps may consume at the same time, a lock or the end of  *)
(* the process may fall between the two writes, and the clock the refill   *)
(* goes by may be set back.                                                *)
(*                                                                         *)
(* A tick of the clock is half an hour, in which a bucket regains half of  *)
(* its hourly rate: tokens are whole numbers.                              *)
(***************************************************************************)
EXTENDS Integers, FiniteSets, FiniteSetsExt

CONSTANTS Senders,     \* contacts
          Consumers,   \* sweeps that may run at the same time
          PerContact,  \* perContactPerHour
          PerGlobal,   \* globalPerHour
          MaxClock,    \* bound: the clock
          MaxForward,  \* bound: ticks forward
          MaxConsumes, \* bound: consumes begun
          MaxOverlaps  \* bound: those begun while another one is under way

ASSUME RateLimitAssumption ==
    /\ PerContact \in Nat \ {0} /\ PerGlobal \in Nat \ {0}
    /\ PerContact % 2 = 0 /\ PerGlobal % 2 = 0
    /\ PerContact < PerGlobal   \* 60 and 600
    /\ IsFiniteSet(Senders) /\ IsFiniteSet(Consumers)
    /\ "global" \notin Senders /\ "nobody" \notin Senders
    /\ MaxClock \in Nat /\ MaxForward \in Nat /\ MaxConsumes \in Nat /\ MaxOverlaps \in Nat

VARIABLES wall,      \* Date.now()
          forward,   \* ticks forward so far
          buckets,   \* the rate_limits table
          consume,   \* consume[p]: a call under way
          passed,    \* passed[s]: messages of s let through
          overlaps,  \* consumes begun while another one was under way
          turnedAway, \* contacts refused within their own limit
          halfCharged, \* a call has ended between its two writes
          consumed     \* consumes begun so far

limitVars == <<wall, forward, buckets, consume, passed, overlaps, turnedAway, halfCharged,
             consumed>>

Everyone == "global"
Unknown == "nobody"      \* a null profile id
Buckets == Senders \cup {Everyone}
Rate(b) == IF b = Everyone THEN PerGlobal ELSE PerContact

NoBucket == [kept |-> FALSE, tokens |-> 0, at |-> 0]
NoConsume == [at |-> "idle", of |-> Unknown, now |-> 0, global |-> 0, contact |-> 0]

LimitTypeOK ==
    /\ wall \in 0..MaxClock /\ forward \in 0..MaxForward
    /\ \A b \in Buckets : buckets[b] \in [kept : BOOLEAN, tokens : 0..Rate(b), at : 0..MaxClock]
    /\ \A p \in Consumers :
          /\ consume[p].at \in {"idle", "global", "newGlobal", "contact", "newContact",
                                "charge", "chargeGlobal"}
          /\ consume[p].of \in Senders \cup {Unknown}
    /\ overlaps \in 0..MaxOverlaps
    /\ turnedAway \subseteq Senders /\ halfCharged \in BOOLEAN
    /\ consumed \in 0..MaxConsumes

LimitInit ==
    /\ wall = MaxClock /\ forward = 0
    /\ buckets = [b \in Buckets |-> NoBucket]
    /\ consume = [p \in Consumers |-> NoConsume]
    /\ passed = [s \in Senders \cup {Unknown} |-> 0]
    /\ overlaps = 0
    /\ turnedAway = {} /\ halfCharged = FALSE /\ consumed = 0

-----------------------------------------------------------------------------
(* The clock.                                                              *)

ClockTicks ==
    /\ wall < MaxClock /\ forward < MaxForward
    /\ wall' = wall + 1 /\ forward' = forward + 1
    /\ UNCHANGED <<buckets, consume, passed, overlaps, turnedAway, halfCharged, consumed>>

ClockSetBack ==
    /\ wall > 0 /\ wall' = wall - 1
    /\ UNCHANGED <<forward, buckets, consume, passed, overlaps, turnedAway, halfCharged, consumed>>

-----------------------------------------------------------------------------
(* #refill: what the bucket would hold now; only a new bucket is written.  *)

\* A plausible bug: a clock set back refills too.
Refilled_Flawed(b, now) ==
    LET elapsed == IF now > buckets[b].at THEN now - buckets[b].at ELSE buckets[b].at - now
    IN  Min({Rate(b), buckets[b].tokens + elapsed * (Rate(b) \div 2)})

Refilled(b, now) ==
    LET elapsed == IF now > buckets[b].at THEN now - buckets[b].at ELSE 0
    IN  Min({Rate(b), buckets[b].tokens + elapsed * (Rate(b) \div 2)})

SetBucket(b, tokens, at) == buckets' = [buckets EXCEPT ![b] = [kept |-> TRUE, tokens |-> tokens, at |-> at]]

ConsumeGoto(p, c) == consume' = [consume EXCEPT ![p] = c]

-----------------------------------------------------------------------------
(* consume.                                                                *)

Busy(p) == consume[p].at # "idle"

(* One call after another in a sweep.                                      *)
BeginConsume(p, s) ==
    /\ ~Busy(p) /\ consumed < MaxConsumes
    /\ consumed' = consumed + 1
    /\ overlaps' = overlaps + (IF \E q \in Consumers : Busy(q) THEN 1 ELSE 0)
    /\ overlaps' <= MaxOverlaps
    /\ ConsumeGoto(p, [NoConsume EXCEPT !.at = "global", !.of = s, !.now = wall])
    /\ UNCHANGED <<wall, forward, buckets, passed, turnedAway, halfCharged>>

AfterGlobal(c, tokens) ==
    [c EXCEPT !.global = tokens, !.at = IF c.of = Unknown THEN "charge" ELSE "contact"]

GetGlobal(p) ==
    /\ consume[p].at = "global"
    /\ ConsumeGoto(p, IF buckets[Everyone].kept
                      THEN AfterGlobal(consume[p], Refilled(Everyone, consume[p].now))
                      ELSE [consume[p] EXCEPT !.at = "newGlobal"])
    /\ UNCHANGED <<wall, forward, buckets, passed, overlaps, turnedAway, halfCharged, consumed>>

CreateGlobal(p) ==
    /\ consume[p].at = "newGlobal"
    /\ SetBucket(Everyone, PerGlobal, consume[p].now)
    /\ ConsumeGoto(p, AfterGlobal(consume[p], PerGlobal))
    /\ UNCHANGED <<wall, forward, passed, overlaps, turnedAway, halfCharged, consumed>>

GetContact(p) ==
    /\ consume[p].at = "contact"
    /\ LET b == buckets[consume[p].of]
       IN  ConsumeGoto(p, IF b.kept
                          THEN [consume[p] EXCEPT !.at = "charge",
                                  !.contact = Refilled(consume[p].of, consume[p].now)]
                          ELSE [consume[p] EXCEPT !.at = "newContact"])
    /\ UNCHANGED <<wall, forward, buckets, passed, overlaps, turnedAway, halfCharged, consumed>>

CreateContact(p) ==
    /\ consume[p].at = "newContact"
    /\ SetBucket(consume[p].of, PerContact, consume[p].now)
    /\ ConsumeGoto(p, [consume[p] EXCEPT !.at = "charge", !.contact = PerContact])
    /\ UNCHANGED <<wall, forward, passed, overlaps, turnedAway, halfCharged, consumed>>

Affordable(c) == c.global >= 1 /\ (c.of = Unknown \/ c.contact >= 1)

(* A refusal writes nothing.                                               *)
Refuse(c) == UNCHANGED buckets

TurnAway(p) ==
    /\ consume[p].at = "charge" /\ ~Affordable(consume[p])
    /\ Refuse(consume[p])
    /\ turnedAway' = IF consume[p].of # Unknown /\ consume[p].contact >= 1
                     THEN turnedAway \cup {consume[p].of} ELSE turnedAway
    /\ ConsumeGoto(p, NoConsume)
    /\ UNCHANGED <<wall, forward, passed, overlaps, halfCharged, consumed>>

ChargeContact(p) ==
    /\ consume[p].at = "charge" /\ Affordable(consume[p])
    /\ IF consume[p].of = Unknown THEN UNCHANGED buckets
       ELSE SetBucket(consume[p].of, consume[p].contact - 1, consume[p].now)
    /\ ConsumeGoto(p, [consume[p] EXCEPT !.at = "chargeGlobal"])
    /\ UNCHANGED <<wall, forward, passed, overlaps, turnedAway, halfCharged, consumed>>

ChargeGlobal(p) ==
    /\ consume[p].at = "chargeGlobal"
    /\ SetBucket(Everyone, consume[p].global - 1, consume[p].now)
    /\ passed' = [passed EXCEPT ![consume[p].of] = @ + 1]
    /\ ConsumeGoto(p, NoConsume)
    /\ UNCHANGED <<wall, forward, overlaps, turnedAway, halfCharged, consumed>>

(* The database is closed, a statement throws, or the process ends.        *)
CutShort(p) ==
    /\ Busy(p)
    /\ ConsumeGoto(p, NoConsume)
    /\ halfCharged' = (halfCharged \/ (consume[p].at = "chargeGlobal" /\ consume[p].of # Unknown))
    /\ UNCHANGED <<wall, forward, buckets, passed, overlaps, turnedAway, consumed>>

-----------------------------------------------------------------------------
LimitNext ==
    \/ ClockTicks \/ ClockSetBack
    \/ \E p \in Consumers :
          \/ \E s \in Senders \cup {Unknown} : BeginConsume(p, s)
          \/ GetGlobal(p) \/ CreateGlobal(p) \/ GetContact(p) \/ CreateContact(p)
          \/ TurnAway(p) \/ ChargeContact(p) \/ ChargeGlobal(p) \/ CutShort(p)

LimitSpec == LimitInit /\ [][LimitNext]_limitVars

-----------------------------------------------------------------------------
PassedInAll(f) == FoldSet(LAMBDA s, n : f[s] + n, 0, Senders \cup {Unknown})

(* What a bucket of this rate lets through: the burst, what the clock went *)
(* forward by, and for each call begun while another one was under way one *)
(* message more and at most a burst, for the one that writes last writes   *)
(* what it read, and as of the time it began.                              *)
Allowance(rate) == rate + forward * (rate \div 2) + overlaps * (rate + 1)

(* However sweeps overlap, calls are cut short and the clock moves, the    *)
(* messages of one contact, and all of them, are within the allowance; one *)
(* call after the other is never let through more than the rate            *)
(* (rate-limit.ts:55-79).                                                  *)
AllowanceHolds ==
    /\ \A s \in Senders : passed[s] <= Allowance(PerContact)
    /\ PassedInAll(passed) <= Allowance(PerGlobal)

(* One contact alone cannot have another one refused that is within its    *)
(* own limit: refusals cost nothing, so its limit stops it first. With     *)
(* calls cut short between the two writes and a clock set back it could,   *)
(* for then its own bucket regains what the other does not                 *)
(* (rate-limit.ts:6-8 and 73-75).                                          *)
SpamIsContained ==
    turnedAway # {} /\ overlaps = 0 /\ ~halfCharged =>
       passed[Unknown] > 0 \/ Cardinality({s \in Senders : passed[s] > 0}) > 1

(* What the two limits promise.                                            *)
LimitsHold == AllowanceHolds /\ SpamIsContained
=============================================================================
