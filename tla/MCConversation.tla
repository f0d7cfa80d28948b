--------------------------- MODULE MCConversation ---------------------------
(***************************************************************************)
(* Both directions of a conversation, side by side: the outgoing rows of   *)
(* Publication and the incoming rows of Inbox share no state in the        *)
(* models, so a behaviour exercises one of them and the other rests.       *)
(***************************************************************************)
EXTENDS Publication, Inbox

VARIABLE side   \* the direction that moves

Outgoing == side = "outgoing"
Incoming == side = "incoming"

ConversationInit ==
    /\ side \in {"outgoing", "incoming"}
    /\ Init /\ InboxInit
    /\ Outgoing => relayed = {}

ConversationNext ==
    /\ UNCHANGED side
    /\ IF Outgoing THEN Next ELSE UNCHANGED vars
    /\ IF Incoming THEN InboxNext ELSE UNCHANGED inboxVars

(* Publication's fairness for its direction.  Of the other one, a sweep in *)
(* flight goes on and the foreground loop starts another; the node answers *)
(* often enough for a pass now and then to come to its heal.               *)
ConversationFairness ==
    /\ \A w \in Workers : WF_vars(Outgoing /\ WorkerStep(w))
    /\ \A c \in Callers : WF_vars(Outgoing /\ PublishStep(c))
    /\ \A c \in Sweeps : WF_vars(Outgoing /\ \E m \in Responses : CallStep(c, m))
    /\ \A s \in InboxSweeps : /\ WF_inboxVars(Incoming /\ SweepStep(s))
                              /\ SF_inboxVars(Incoming /\ HealBegins(s))

ConversationSpec ==
    /\ ConversationInit
    /\ [][ConversationNext]_<<side, vars, inboxVars>>
    /\ ConversationFairness
=============================================================================
