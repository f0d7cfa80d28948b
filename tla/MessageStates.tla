---------------------------- MODULE MessageStates ----------------------------
(***************************************************************************)
(* The two message state machines of packages/cemp-database/src/           *)
(* message-states.ts: what states a row may hold, and which moves          *)
(* transitionState accepts.  Every module that drives a row reads them     *)
(* from here.                                                              *)
(***************************************************************************)
EXTENDS Naturals, Sequences

OutgoingStates ==
    {"draft", "queued", "encrypting", "building_transaction",
     "awaiting_signature", "submitting", "pending", "committed",
     "available_on_chain", "downloaded_by_recipient", "acknowledged",
     "reclaim_queued", "reclaim_pending", "reclaimed", "expired", "failed"}

IncomingStates ==
    {"discovered", "downloading", "decrypting", "received", "displayed",
     "response_queued", "response_sent", "awaiting_remote_reclaim",
     "remote_reclaimed", "invalid"}

TerminalStates == {"reclaimed", "expired", "remote_reclaimed", "invalid"}

(* The publisher drives a row along a path of its own (publisher.ts) ...   *)
PublishPath ==
    << "draft", "queued", "encrypting", "building_transaction",
       "awaiting_signature", "submitting", "pending", "committed",
       "available_on_chain" >>

(* ... which the table of legal moves has to allow. Each machine has a     *)
(* spine that is walked one step at a time ...                             *)
OutgoingSpine ==
    << "draft", "queued", "encrypting", "building_transaction",
       "awaiting_signature", "submitting", "pending", "committed",
       "available_on_chain", "downloaded_by_recipient", "acknowledged",
       "reclaim_queued", "reclaim_pending", "reclaimed" >>

IncomingSpine ==
    << "discovered", "downloading", "decrypting", "received", "displayed",
       "response_queued", "response_sent", "awaiting_remote_reclaim",
       "remote_reclaimed" >>

StepsOf(spine) == {<<spine[i], spine[i + 1]>> : i \in 1..(Len(spine) - 1)}

(* ... and a few side exits: failure, expiry, the retry edges.             *)
OutgoingTransitions ==
    StepsOf(OutgoingSpine)
      \cup ((OutgoingStates \ (TerminalStates \cup {"failed"})) \X {"failed"})
      \cup {<<"queued", "expired">>, <<"pending", "expired">>,
            <<"reclaim_pending", "reclaim_queued">>, <<"failed", "queued">>}

IncomingTransitions ==
    StepsOf(IncomingSpine)
      \cup ((IncomingStates \ TerminalStates) \X {"invalid"})

CanTransition(from, to) ==
    \/ <<from, to>> \in OutgoingTransitions
    \/ <<from, to>> \in IncomingTransitions

(***************************************************************************)
(* What transitionState makes of a request: a request for the state the    *)
(* row already has is an idempotent no-op, a legal move is taken, anything *)
(* else throws and leaves the row alone.                                   *)
(***************************************************************************)
Accepts(from, to) == from = to \/ CanTransition(from, to)

(* Where a state lies on the publisher's path; 0 for a state off it.       *)
PathIndex(state) ==
    IF \E i \in 1..Len(PublishPath) : PublishPath[i] = state
    THEN CHOOSE i \in 1..Len(PublishPath) : PublishPath[i] = state
    ELSE 0
=============================================================================
