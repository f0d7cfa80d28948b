------------------------------ MODULE Database ------------------------------
(***************************************************************************)
(* One SQLCipher connection shared by every caller of the app              *)
(* (apps/android/src/platform/sqlcipher-adapter.ts): units of work and the *)
(* teardown queue on one AsyncMutex (packages/cemp-database/src/           *)
(* async-mutex.ts), single statements go straight to the connection.       *)
(***************************************************************************)
EXTENDS Sequences, FiniteSets, Naturals

CONSTANTS Units,    \* callers of transaction()
          Closers   \* callers of close() and destroy()

ASSUME DatabaseAssumption == "none" \notin Units

VARIABLES queue,      \* the mutex: its holder first, then the waiters in order
          unit,       \* unit[c]: how far a caller has come
          inTxn,      \* the caller whose BEGIN is open on the connection, or "none"
          handleOpen, \* the native handle is open
          closed,     \* the adapter's #closed flag
          loose       \* a single statement: unsent, inside a transaction, durable or undone

dbVars == <<queue, unit, inTxn, handleOpen, closed, loose>>

Callers == Units \cup Closers
UnitLabels == {"idle", "waiting", "body", "failed", "leaving", "done"}

DatabaseTypeOK ==
    /\ queue \in Seq(Callers)
    /\ unit \in [Callers -> UnitLabels]
    /\ inTxn \in Units \cup {"none"}
    /\ {handleOpen, closed} \subseteq BOOLEAN
    /\ loose \in {"unsent", "inside", "durable", "undone"}

DatabaseInit ==
    /\ queue = <<>>
    /\ unit = [c \in Callers |-> "idle"]
    /\ inTxn = "none" /\ handleOpen = TRUE /\ closed = FALSE
    /\ loose = "unsent"

-----------------------------------------------------------------------------
GotoUnit(c, at) == unit' = [unit EXCEPT ![c] = at]

(* runExclusive: a caller chains itself to the promise before it.          *)
Call(c) ==
    /\ unit[c] = "idle"
    /\ IF closed
       THEN GotoUnit(c, "done") /\ UNCHANGED queue
       ELSE GotoUnit(c, "waiting") /\ queue' = Append(queue, c)
    /\ UNCHANGED <<inTxn, handleOpen, closed, loose>>

\* A plausible bug: the promise before it is not awaited.
HasTurn_Flawed(c) == TRUE

HasTurn(c) == Head(queue) = c

(* BEGIN IMMEDIATE; on a handle closed meanwhile it throws, past the try.  *)
BeginUnit(c) ==
    /\ c \in Units /\ unit[c] = "waiting" /\ HasTurn(c)
    /\ IF handleOpen
       THEN GotoUnit(c, "body") /\ inTxn' = c
       ELSE GotoUnit(c, "leaving") /\ UNCHANGED inTxn
    /\ UNCHANGED <<queue, handleOpen, closed, loose>>

(* The body's statements, one of which may throw.                          *)
Body(c) ==
    /\ unit[c] = "body" /\ handleOpen
    /\ \/ /\ inTxn = c
          /\ inTxn' = "none" /\ GotoUnit(c, "leaving")
          /\ loose' = IF loose = "inside" THEN "durable" ELSE loose
       \/ GotoUnit(c, "failed") /\ UNCHANGED <<inTxn, loose>>
    /\ UNCHANGED <<queue, handleOpen, closed>>

(* ROLLBACK undoes whatever ran between, other callers' statements too.    *)
Rollback(c) ==
    /\ unit[c] = "failed"
    /\ inTxn' = "none"
    /\ loose' = IF loose = "inside" THEN "undone" ELSE loose
    /\ GotoUnit(c, "leaving")
    /\ UNCHANGED <<queue, handleOpen, closed>>

(* close() and destroy() check the flag again under the lock.              *)
Close(c) ==
    /\ c \in Closers /\ unit[c] = "waiting" /\ HasTurn(c)
    /\ handleOpen' = FALSE /\ closed' = TRUE
    /\ GotoUnit(c, "leaving")
    /\ UNCHANGED <<queue, inTxn, loose>>

\* A plausible bug: the lock is released after a success only, not in a finally.
Released_Flawed(c) == IF handleOpen THEN Tail(queue) ELSE queue

Released(c) == Tail(queue)

Leave(c) ==
    /\ unit[c] = "leaving"
    /\ queue' = Released(c)
    /\ GotoUnit(c, "done")
    /\ UNCHANGED <<inTxn, handleOpen, closed, loose>>

(* run() outside a transaction: no lock is taken.                          *)
LooseStatement ==
    /\ loose = "unsent" /\ handleOpen
    /\ loose' = IF inTxn = "none" THEN "durable" ELSE "inside"
    /\ UNCHANGED <<queue, unit, inTxn, handleOpen, closed>>

UnitStep(c) == BeginUnit(c) \/ Body(c) \/ Rollback(c) \/ Close(c) \/ Leave(c)

DatabaseNext == LooseStatement \/ \E c \in Callers : Call(c) \/ UnitStep(c)

DatabaseSpec == DatabaseInit /\ [][DatabaseNext]_dbVars

-----------------------------------------------------------------------------
(* Every unit of work runs between its own BEGIN and its own COMMIT: no    *)
(* second BEGIN on the connection, and no teardown cuts it off             *)
(* (sqlcipher-adapter.ts:93-112, 131-143).                                 *)
UnitsAreExclusive ==
    \A c \in Units : unit[c] \in {"body", "failed"} => inTxn = c /\ handleOpen

(* Whoever waits for the connection gets past it, a unit of work that      *)
(* failed or found the handle closed included (async-mutex.ts:25-31).      *)
WaitersAreServed == []<>(\A c \in Callers : unit[c] # "waiting")
=============================================================================
