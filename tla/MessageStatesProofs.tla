------------------------- MODULE MessageStatesProofs -------------------------
(***************************************************************************)
(* Facts about the state machines that the proofs of the components use.   *)
(***************************************************************************)
EXTENDS MessageStates, TLAPS

(* The publisher's path has nine states, all of them outgoing.             *)
LEMMA PathStates ==
    /\ Len(PublishPath) = 9
    /\ \A i \in 1..9 : PublishPath[i] \in OutgoingStates
    /\ \A i \in 1..7 : PublishPath[i] \notin {"committed", "available_on_chain", "failed"}
BY DEF PublishPath, OutgoingStates

(* A position on the path is one of nine, or zero for a state off it.      *)
LEMMA PathIndexRange ==
    ASSUME NEW s
    PROVE  PathIndex(s) \in 0..9
<1>1. CASE \E i \in 1..Len(PublishPath) : PublishPath[i] = s
  <2>1. PathIndex(s) \in 1..Len(PublishPath)
    BY <1>1 DEF PathIndex
  <2> QED BY <2>1, PathStates
<1>2. CASE ~ \E i \in 1..Len(PublishPath) : PublishPath[i] = s
  BY <1>2 DEF PathIndex
<1> QED BY <1>1, <1>2

(* No state occurs twice on the path, so positions identify states.        *)
LEMMA PathIsInjective ==
    \A i, j \in 1..9 : PublishPath[i] = PublishPath[j] => i = j
BY DEF PublishPath

LEMMA PathIndexAt ==
    ASSUME NEW i \in 1..9
    PROVE  PathIndex(PublishPath[i]) = i
<1>1. \E j \in 1..Len(PublishPath) : PublishPath[j] = PublishPath[i]
  BY PathStates
<1>2. /\ PathIndex(PublishPath[i]) \in 1..9
      /\ PublishPath[PathIndex(PublishPath[i])] = PublishPath[i]
  BY <1>1, PathStates DEF PathIndex
<1> QED BY <1>2, PathIsInjective

(* `pending` is the seventh state of the path, the last the ninth.         *)
LEMMA PathGoals ==
    /\ PathIndex("pending") = 7
    /\ PathIndex("available_on_chain") = 9
<1>1. PublishPath[7] = "pending" /\ PublishPath[9] = "available_on_chain"
  BY DEF PublishPath
<1> QED BY <1>1, PathIndexAt

(* Neither machine has a move out of the reclaim states but to one of them *)
(* or to `failed`: a late receipt never takes a row back to a state whose  *)
(* capacity would be counted as reclaimable again.                         *)
THEOREM ReclaimIsOneWay ==
    \A from \in {"reclaim_queued", "reclaim_pending", "reclaimed"} : \A to :
        Accepts(from, to) => to \in {"reclaim_queued", "reclaim_pending", "reclaimed", "failed"}
<1> SUFFICES ASSUME NEW from \in {"reclaim_queued", "reclaim_pending", "reclaimed"}, NEW to,
                    CanTransition(from, to)
             PROVE  to \in {"reclaim_queued", "reclaim_pending", "reclaimed", "failed"}
  BY DEF Accepts
<1>1. <<from, to>> \notin IncomingTransitions
  <2>1. Len(IncomingSpine) = 9 /\ \A i \in 1..8 : IncomingSpine[i] # from
    BY DEF IncomingSpine
  <2>2. <<from, to>> \notin StepsOf(IncomingSpine)
    BY <2>1 DEF StepsOf
  <2>3. from \notin IncomingStates
    BY DEF IncomingStates
  <2> QED BY <2>2, <2>3 DEF IncomingTransitions
<1>2. CASE <<from, to>> \in StepsOf(OutgoingSpine)
  <2>1. Len(OutgoingSpine) = 14
    BY DEF OutgoingSpine, PublishPath
  <2>2. \A i \in 1..11 : OutgoingSpine[i] # from
    BY DEF OutgoingSpine, PublishPath
  <2>3. OutgoingSpine[13] = "reclaim_pending" /\ OutgoingSpine[14] = "reclaimed"
    BY DEF OutgoingSpine, PublishPath
  <2>4. PICK i \in 1..13 : OutgoingSpine[i] = from /\ OutgoingSpine[i + 1] = to
    BY <1>2, <2>1 DEF StepsOf
  <2>5. i = 12 \/ i = 13
    BY <2>2, <2>4
  <2> QED BY <2>3, <2>4, <2>5
<1>3. CASE <<from, to>> \in OutgoingTransitions \ StepsOf(OutgoingSpine)
  BY <1>3 DEF OutgoingTransitions
<1> QED BY <1>1, <1>2, <1>3 DEF CanTransition

(* The moves of an outgoing row are the steps along the spine and the side *)
(* exits; the two machines share no state.                                 *)
LEMMA OutgoingMoves ==
    ASSUME NEW from \in OutgoingStates, NEW to, CanTransition(from, to)
    PROVE  \/ \E i \in 1..13 : OutgoingSpine[i] = from /\ OutgoingSpine[i + 1] = to
           \/ to = "failed" /\ from # "failed"
           \/ <<from, to>> \in {<<"queued", "expired">>, <<"pending", "expired">>,
                                <<"reclaim_pending", "reclaim_queued">>,
                                <<"failed", "queued">>}
<1>1. <<from, to>> \notin IncomingTransitions
  <2>1. Len(IncomingSpine) = 9 /\ \A i \in 1..8 : IncomingSpine[i] # from
    BY DEF IncomingSpine, OutgoingStates
  <2>2. <<from, to>> \notin StepsOf(IncomingSpine)
    BY <2>1 DEF StepsOf
  <2>3. from \notin IncomingStates
    BY DEF IncomingStates, OutgoingStates
  <2> QED BY <2>2, <2>3 DEF IncomingTransitions
<1>2. CASE <<from, to>> \in StepsOf(OutgoingSpine)
  <2>1. Len(OutgoingSpine) = 14
    BY DEF OutgoingSpine, PublishPath
  <2> QED BY <1>2, <2>1 DEF StepsOf
<1>3. CASE <<from, to>> \in OutgoingTransitions \ StepsOf(OutgoingSpine)
  BY <1>3 DEF OutgoingTransitions
<1> QED BY <1>1, <1>2, <1>3 DEF CanTransition

(* The publisher's path and the table of moves, kept in two packages, say  *)
(* the same: each step of the path is a legal move, so that #walkToState,  *)
(* begun anywhere on it, is never refused while nobody else moves the row, *)
(* and but for a failure or an expiry no other move leaves its states      *)
(* (publisher.ts:236-246 and 454-470, message-states.ts:79-96).            *)
THEOREM WalkIsLegal ==
    \A i \in 1..8 :
        /\ CanTransition(PublishPath[i], PublishPath[i + 1])
        /\ \A to : CanTransition(PublishPath[i], to) =>
                      to \in {PublishPath[i + 1], "failed", "expired"}
<1> SUFFICES ASSUME NEW i \in 1..8
             PROVE  /\ CanTransition(PublishPath[i], PublishPath[i + 1])
                    /\ \A to : CanTransition(PublishPath[i], to) =>
                                  to \in {PublishPath[i + 1], "failed", "expired"}
  OBVIOUS
<1>1. Len(OutgoingSpine) = 14
  BY DEF OutgoingSpine
<1>2. OutgoingSpine[i] = PublishPath[i] /\ OutgoingSpine[i + 1] = PublishPath[i + 1]
  BY DEF OutgoingSpine, PublishPath
<1>3. CanTransition(PublishPath[i], PublishPath[i + 1])
  BY <1>1, <1>2 DEF CanTransition, OutgoingTransitions, StepsOf
<1>4. ASSUME NEW to, CanTransition(PublishPath[i], to)
      PROVE  to \in {PublishPath[i + 1], "failed", "expired"}
  <2>1. PublishPath[i] \in OutgoingStates \ {"reclaim_pending", "failed"}
    BY DEF PublishPath, OutgoingStates
  <2>2. CASE \E j \in 1..13 : OutgoingSpine[j] = PublishPath[i] /\ OutgoingSpine[j + 1] = to
    <3>1. PICK j \in 1..13 : OutgoingSpine[j] = OutgoingSpine[i] /\ OutgoingSpine[j + 1] = to
      BY <1>2, <2>2
    <3>2. \A k \in 1..13 : OutgoingSpine[k] = OutgoingSpine[i] => k = i
      BY DEF OutgoingSpine
    <3> QED BY <1>2, <3>1, <3>2
  <2>3. CASE ~ \E j \in 1..13 : OutgoingSpine[j] = PublishPath[i] /\ OutgoingSpine[j + 1] = to
    BY <1>4, <2>1, <2>3, OutgoingMoves
  <2> QED BY <2>2, <2>3
<1> QED BY <1>3, <1>4

(* A row becomes `committed` from `pending` alone and available from       *)
(* `committed` alone, and leaves either only forward or as a failure: no   *)
(* move takes a message shown as sent back along the publisher's path.     *)
THEOREM SentIsReachedInOrder ==
    \A from \in OutgoingStates : \A to :
        Accepts(from, to) =>
          /\ to = "committed" => from \in {"pending", "committed"}
          /\ to = "available_on_chain" => from \in {"committed", "available_on_chain"}
          /\ from \in {"committed", "available_on_chain"} =>
                to \in {"committed", "available_on_chain", "downloaded_by_recipient", "failed"}
<1> SUFFICES ASSUME NEW from \in OutgoingStates, NEW to, CanTransition(from, to)
             PROVE  /\ to = "committed" => from \in {"pending", "committed"}
                    /\ to = "available_on_chain" => from \in {"committed", "available_on_chain"}
                    /\ from \in {"committed", "available_on_chain"} =>
                          to \in {"committed", "available_on_chain",
                                  "downloaded_by_recipient", "failed"}
  BY DEF Accepts
<1>1. CASE \E i \in 1..13 : OutgoingSpine[i] = from /\ OutgoingSpine[i + 1] = to
  <2>1. PICK i \in 1..13 : OutgoingSpine[i] = from /\ OutgoingSpine[i + 1] = to
    BY <1>1
  <2>2. /\ OutgoingSpine[7] = "pending" /\ OutgoingSpine[8] = "committed"
        /\ OutgoingSpine[9] = "available_on_chain"
        /\ OutgoingSpine[10] = "downloaded_by_recipient"
        /\ \A j \in 1..7 : OutgoingSpine[j] \notin {"committed", "available_on_chain"}
        /\ \A j \in 10..14 : OutgoingSpine[j] \notin {"committed", "available_on_chain"}
    BY DEF OutgoingSpine, PublishPath
  <2>3. i \in 1..6 \/ i = 7 \/ i = 8 \/ i = 9 \/ i \in 10..13
    OBVIOUS
  <2> QED BY <2>1, <2>2, <2>3
<1>2. CASE ~ \E i \in 1..13 : OutgoingSpine[i] = from /\ OutgoingSpine[i + 1] = to
  BY <1>2, OutgoingMoves
<1> QED BY <1>1, <1>2

(* The moves of an incoming row: the steps along its spine, and `invalid`. *)
LEMMA IncomingMoves ==
    ASSUME NEW from \in IncomingStates \cup {"none"}, NEW to, CanTransition(from, to)
    PROVE  \/ \E i \in 1..8 : IncomingSpine[i] = from /\ IncomingSpine[i + 1] = to
           \/ to = "invalid"
<1>1. <<from, to>> \notin OutgoingTransitions
  <2>1. Len(OutgoingSpine) = 14 /\ \A i \in 1..13 : OutgoingSpine[i] # from
    BY DEF OutgoingSpine, PublishPath, IncomingStates
  <2>2. <<from, to>> \notin StepsOf(OutgoingSpine)
    BY <2>1 DEF StepsOf
  <2>3. from \notin OutgoingStates
    BY DEF IncomingStates, OutgoingStates
  <2>4. from \notin {"queued", "pending", "reclaim_pending", "failed"}
    BY DEF IncomingStates
  <2> QED BY <2>2, <2>3, <2>4 DEF OutgoingTransitions
<1>2. CASE <<from, to>> \in StepsOf(IncomingSpine)
  <2>1. Len(IncomingSpine) = 9
    BY DEF IncomingSpine
  <2> QED BY <1>2, <2>1 DEF StepsOf
<1>3. CASE <<from, to>> \in IncomingTransitions \ StepsOf(IncomingSpine)
  BY <1>3 DEF IncomingTransitions
<1> QED BY <1>1, <1>2, <1>3 DEF CanTransition

=============================================================================
