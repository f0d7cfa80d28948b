------------------------------ MODULE CkbNode ------------------------------
(***************************************************************************)
(* The CKB node as the code in packages/cemp-ckb uses it: one endpoint     *)
(* that is sent signed transactions and asked for their status.            *)
(*                                                                         *)
(* A transaction consumes cells; no two transactions that share an input   *)
(* are in the pool or on the chain together (the node does not replace by  *)
(* fee).  The pool is volatile: an entry may be rejected, or forgotten     *)
(* when the node restarts.  A committed transaction stays committed.       *)
(***************************************************************************)
EXTENDS Naturals, FiniteSets

CONSTANTS MaxTx,         \* bound: how many transactions are ever signed
          Coins,         \* the wallet cells a transaction may consume
          LateRequests   \* whether a request may reach the node after its caller gave up

ASSUME NodeAssumption == MaxTx \in Nat \ {0} /\ LateRequests \in BOOLEAN

VARIABLES node,     \* node[t]: what get_transaction answers for t
          inputs,   \* inputs[t]: the cells t consumes, {} until t is built
          wire      \* requests whose caller has given up, not yet delivered

nodeVars == <<node, inputs, wire>>

TxIds == 1..MaxTx
NodeStates == {"unknown", "pending", "committed", "rejected"}

NodeTypeOK ==
    /\ node \in [TxIds -> NodeStates]
    /\ inputs \in [TxIds -> SUBSET Coins]
    /\ wire \in SUBSET TxIds

NodeInit ==
    /\ node = [t \in TxIds |-> "unknown"]
    /\ inputs = [t \in TxIds |-> {}]
    /\ wire = {}

InPlay(t) == node[t] \in {"pending", "committed"}

Conflicts(t, u) == t # u /\ inputs[t] \cap inputs[u] # {}

(* A double spend is refused; so is a transaction the pool already holds.  *)
SpentElsewhere(t) == \E u \in TxIds : Conflicts(t, u) /\ InPlay(u)
Accepted(t) == ~InPlay(t) /\ ~SpentElsewhere(t)

(* The cells the indexer lists as live: pool spends do not show there.     *)
LiveCoins == Coins \ UNION {inputs[t] : t \in {u \in TxIds : node[u] = "committed"}}

Commit(t) ==
    /\ node[t] = "pending"
    /\ node' = [node EXCEPT ![t] = "committed"]
    /\ UNCHANGED <<inputs, wire>>

Reject(t) ==
    /\ node[t] = "pending"
    /\ node' = [node EXCEPT ![t] = "rejected"]
    /\ UNCHANGED <<inputs, wire>>

Forget(t) ==
    /\ node[t] = "pending"
    /\ node' = [node EXCEPT ![t] = "unknown"]
    /\ UNCHANGED <<inputs, wire>>

(* A delayed request arrives; nobody waits for its answer any more.        *)
Deliver(t) ==
    /\ t \in wire
    /\ wire' = wire \ {t}
    /\ node' = IF Accepted(t) THEN [node EXCEPT ![t] = "pending"] ELSE node
    /\ UNCHANGED inputs

NodeStep(t) == Commit(t) \/ Reject(t) \/ Forget(t) \/ Deliver(t)

(* sendTransaction.  The answer may be lost after the node took the        *)
(* request, or the request may be lost, or arrive after its caller gave up. *)
Sent(t) ==
    /\ Accepted(t)
    /\ node' = [node EXCEPT ![t] = "pending"]
    /\ UNCHANGED wire

SendRefused(t) ==
    /\ InPlay(t) \/ SpentElsewhere(t)
    /\ UNCHANGED <<node, wire>>

SendTimedOut(t) ==
    \/ Sent(t)
    \/ UNCHANGED <<node, wire>>
    \/ LateRequests /\ wire' = wire \cup {t} /\ UNCHANGED node
=============================================================================
