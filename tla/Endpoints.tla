----------------------------- MODULE Endpoints -----------------------------
(***************************************************************************)
(* EndpointRotator (packages/cemp-sync/src/endpoints.ts): which of the     *)
(* node's endpoints is the active one, how a streak of failures moves it   *)
(* on, and what a restart makes of it.  The first call of every process    *)
(* loads the persisted choice over an await; calls that begin before it    *)
(* has, load too.  Statements reach the database in the order they were    *)
(* sent in.                                                                *)
(***************************************************************************)
EXTENDS Naturals, Sequences

CONSTANTS Reporters,       \* callers of current, reportSuccess, reportFailure
          EndpointCount,   \* endpoints of the network
          Threshold,       \* failureThreshold
          MaxReports,      \* bound: failures reported
          MaxRestarts      \* bound: restarts and failed writes

ASSUME EndpointAssumption == EndpointCount \in Nat \ {0} /\ Threshold \in Nat

VARIABLES chosen,    \* storage: the cursor's index, NoIndex when there is none
          rotator,   \* the object: index, streak, loaded
          report,    \* per caller: what it reports, and the load it waits for
          writes,    \* persists under way, oldest first
          bad,       \* failures in a row, as the callers reported them
          hasty,     \* the endpoint moved on after fewer than Threshold of them
          crossed,   \* a load overlapped a report, or a write failed
          reports, restarts

endpointVars == <<chosen, rotator, report, writes, bad, hasty, crossed, reports, restarts>>

Indices == 0..(EndpointCount - 1)
NoIndex == EndpointCount

NewRotator == [index |-> 0, streak |-> 0, loaded |-> FALSE]
NoReport == [op |-> "none", raw |-> NoIndex, at |-> "idle"]

EndpointInit ==
    /\ chosen = NoIndex
    /\ rotator = NewRotator
    /\ report = [r \in Reporters |-> NoReport]
    /\ writes = <<>>
    /\ bad = 0 /\ hasty = FALSE /\ crossed = FALSE
    /\ reports = 0 /\ restarts = 0

-----------------------------------------------------------------------------
AfterSuccess(state) == [state EXCEPT !.streak = 0]

Rotates(state) == state.streak + 1 >= Threshold /\ EndpointCount > 1

\* A plausible bug: the streak of the endpoint left behind goes on.
AfterFailed_Flawed(state) ==
    IF Rotates(state)
    THEN [state EXCEPT !.index = (@ + 1) % EndpointCount, !.streak = @ + 1]
    ELSE [state EXCEPT !.streak = @ + 1]

AfterFailed(state) ==
    IF Rotates(state)
    THEN [state EXCEPT !.index = (@ + 1) % EndpointCount, !.streak = 0]
    ELSE [state EXCEPT !.streak = @ + 1]

(* What follows the load, with no await but the write.                     *)
AfterLoad(op, state) ==
    IF op = "success"
    THEN /\ rotator' = AfterSuccess(state)
         /\ bad' = 0
         /\ UNCHANGED <<writes, hasty>>
    ELSE /\ rotator' = AfterFailed(state)
         /\ bad' = IF Rotates(state) THEN 0 ELSE bad + 1
         /\ writes' = IF Rotates(state) THEN Append(writes, rotator'.index) ELSE writes
         /\ hasty' = (hasty \/ (Rotates(state) /\ bad + 1 < Threshold))

(* current loads as well and reports nothing.                              *)
Begins(r, op) ==
    /\ report[r].at = "idle"
    /\ op = "failure" => reports < MaxReports
    /\ reports' = reports + IF op = "failure" THEN 1 ELSE 0
    /\ IF rotator.loaded
       THEN /\ op # "current"
            /\ AfterLoad(op, rotator)
            /\ UNCHANGED report
       ELSE /\ report' = [report EXCEPT ![r] = [op |-> op, raw |-> chosen, at |-> "load"]]
            /\ UNCHANGED <<rotator, writes, bad, hasty>>
    /\ UNCHANGED <<chosen, crossed, restarts>>

(* The persisted index is taken over whoever loaded it before; a cursor    *)
(* that is not an index is ignored.                                        *)
Loaded(r) ==
    /\ report[r].at = "load"
    /\ report' = [report EXCEPT ![r] = NoReport]
    /\ LET state == [rotator EXCEPT !.loaded = TRUE,
                                    !.index = IF report[r].raw \in Indices THEN report[r].raw ELSE @]
       IN IF report[r].op = "current"
          THEN rotator' = state /\ UNCHANGED <<writes, bad, hasty>>
          ELSE AfterLoad(report[r].op, state)
    /\ crossed' = (crossed \/ rotator.loaded)
    /\ UNCHANGED <<chosen, reports, restarts>>

Persisted ==
    /\ writes # <<>>
    /\ writes' = Tail(writes)
    /\ \/ chosen' = Head(writes) /\ UNCHANGED <<crossed, restarts>>
       \/ /\ restarts < MaxRestarts /\ restarts' = restarts + 1
          /\ crossed' = TRUE
          /\ UNCHANGED chosen
    /\ UNCHANGED <<rotator, report, bad, hasty, reports>>

(* A lock drops the object as a restart does; writes sent are not recalled *)
(* by a lock, but by the death of the process.                             *)
Restart ==
    /\ restarts < MaxRestarts /\ restarts' = restarts + 1
    /\ rotator' = NewRotator
    /\ report' = [r \in Reporters |-> NoReport]
    /\ bad' = 0
    /\ \E kept \in 0..Len(writes) :
          chosen' = IF kept = 0 THEN chosen ELSE writes[kept]
    /\ writes' = <<>>
    /\ UNCHANGED <<hasty, crossed, reports>>

EndpointNext ==
    \/ \E r \in Reporters :
          \/ \E op \in {"current", "success", "failure"} : Begins(r, op)
          \/ Loaded(r)
    \/ Persisted \/ Restart

EndpointSpec == EndpointInit /\ [][EndpointNext]_endpointVars

-----------------------------------------------------------------------------
EndpointTypeOK ==
    /\ chosen \in Indices \cup {NoIndex}
    /\ rotator \in [index : Indices, streak : Nat, loaded : BOOLEAN]
    /\ EndpointCount > 1 => rotator.streak <= Threshold   \* one alone is never left
    /\ report \in [Reporters -> [op : {"none", "current", "success", "failure"},
                                 raw : Indices \cup {NoIndex}, at : {"idle", "load"}]]
    /\ writes \in Seq(Indices)
    /\ {hasty, crossed} \subseteq BOOLEAN

(* What a restart will find is what this process uses, once its writes are *)
(* through: unless a load that was still under way overwrote a choice made *)
(* beside it, or a write failed (endpoints.ts:36-60, 86-90).               *)
RestartKeepsTheChoice ==
    rotator.loaded /\ writes = <<>> /\ ~crossed =>
       rotator.index = IF chosen \in Indices THEN chosen ELSE 0

(* However callers interleave, an endpoint is left only after Threshold    *)
(* failures in a row of its own (endpoints.ts:72-90).                      *)
ChoiceHolds == RestartKeepsTheChoice /\ ~hasty
=============================================================================
