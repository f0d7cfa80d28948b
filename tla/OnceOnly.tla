------------------------------ MODULE OnceOnly ------------------------------
(***************************************************************************)
(* What publication promises its user, with no journal, pool, worker or    *)
(* crash in sight: a message lands on the chain at most once, and is shown *)
(* as sent only after it landed, and from then on.                         *)
(***************************************************************************)
CONSTANTS Messages, TxIds

VARIABLES cells,   \* cells[m]: the committed cells that carry m
          sent     \* sent[m]: the user is told that m was sent

Init ==
    /\ cells = [m \in Messages |-> {}]
    /\ sent = [m \in Messages |-> FALSE]

Land(m) ==
    /\ cells[m] = {}
    /\ \E t \in TxIds : cells' = [cells EXCEPT ![m] = {t}]
    /\ UNCHANGED sent

Tell(m) ==
    /\ cells[m] # {}
    /\ sent' = [sent EXCEPT ![m] = TRUE]
    /\ UNCHANGED cells

Next == \E m \in Messages : Land(m) \/ Tell(m)

Spec == Init /\ [][Next]_<<cells, sent>>
=============================================================================
