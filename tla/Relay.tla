------------------------------- MODULE Relay -------------------------------
(***************************************************************************)
(* The poll of the LoRa gateway (cemp-lora/src/transport.ts and            *)
(* runLoraPoll of cemp-sync/src/workers.ts), with its durable cursor       *)
(* (cemp-database sync-cursors.ts).  The address stays the same: the       *)
(* cursor is not kept per gateway, and another one's rows may be behind it.*)
(*                                                                         *)
(* The gateway numbers what it hears, over all route tags, and returns the *)
(* rows of one tag past a number; a row it heard without a tag is returned *)
(* under every tag.  Polls are for the tags of an epoch and of its         *)
(* neighbours; two stand for the three.                                    *)
(***************************************************************************)
EXTENDS Naturals, SequencesExt, FiniteSetsExt

CONSTANTS Pollers,        \* engines that may poll at the same time
          MaxSpool,       \* bound: rows of the gateway
          MaxPerPoll,     \* maxObjectsPerPoll, 64 in the code
          MaxRelayFaults, \* bound: requests, ingests and polls that fail
          MaxRelayEpoch   \* bound: routing epochs

ASSUME RelayAssumption ==
    /\ MaxSpool \in Nat /\ MaxPerPoll \in Nat /\ MaxRelayFaults \in Nat
    /\ MaxRelayEpoch \in Nat \ {0}

VARIABLES spool,        \* the gateway's rows: the tag and whether the row is sane
          relayEpoch,
          relayCursor,  \* the persisted cursor, 0 before the first
          fetch,        \* fetch[p]: a poll
          settled,      \* rows ingested, and rows a poll may go past (below)
          relayFaults

relayVars == <<spool, relayEpoch, relayCursor, fetch, settled, relayFaults>>

AnyTag == 0
WindowOf(e) == <<e, e + 1>>
NoFetch == [at |-> "idle", asking |-> <<>>, since |-> 0, found |-> <<>>, cursor |-> 0]

RelayTypeOK ==
    /\ Len(spool) <= MaxSpool
    /\ \A n \in DOMAIN spool : spool[n] \in [tag : 0..(MaxRelayEpoch + 1), sane : BOOLEAN]
    /\ relayEpoch \in 1..MaxRelayEpoch
    /\ relayCursor \in 0..Len(spool)
    /\ \A p \in Pollers :
          /\ fetch[p].at \in {"idle", "ask", "ingest"}
          /\ Len(fetch[p].found) <= MaxPerPoll
    /\ settled \subseteq DOMAIN spool
    /\ relayFaults \in 0..MaxRelayFaults

RelayInit ==
    /\ spool = <<>>
    /\ relayEpoch = 1
    /\ relayCursor = 0
    /\ fetch = [p \in Pollers |-> NoFetch]
    /\ settled = {} /\ relayFaults = 0

-----------------------------------------------------------------------------
(* The gateway and the clock.                                              *)

(* A row under a tag the poll has asked for already, while it still asks   *)
(* for another: the other's cursor may go past it.                         *)
AskedAlready(tag) ==
    tag # AnyTag /\ \E p \in Pollers : /\ fetch[p].at = "ask" /\ fetch[p].asking # <<>>
                                       /\ tag \notin ToSet(fetch[p].asking)

SpoolRow ==
    /\ Len(spool) < MaxSpool
    /\ \E tag \in {AnyTag} \cup ToSet(WindowOf(relayEpoch)), sane \in BOOLEAN :
          /\ spool' = Append(spool, [tag |-> tag, sane |-> sane])
          /\ settled' = IF AskedAlready(tag) THEN settled \cup {Len(spool) + 1} ELSE settled
    /\ UNCHANGED <<relayEpoch, relayCursor, fetch, relayFaults>>

RelayEpochTurns ==
    /\ relayEpoch < MaxRelayEpoch /\ relayEpoch' = relayEpoch + 1
    /\ UNCHANGED <<spool, relayCursor, fetch, settled, relayFaults>>

-----------------------------------------------------------------------------
(* The poll.                                                               *)

(* Switched off, without an address or a profile, it returns. The settings *)
(* are read before the cursor, the tags are those of the moment.           *)
StartPoll(p) ==
    /\ fetch[p].at = "idle"
    /\ fetch' = [fetch EXCEPT ![p] =
                   [NoFetch EXCEPT !.at = "ask", !.asking = WindowOf(relayEpoch),
                                   !.since = relayCursor]]
    /\ UNCHANGED <<spool, relayEpoch, relayCursor, settled, relayFaults>>

(* GET /cemp/objects.                                                      *)
Page(tag, since) == {n \in 1..Len(spool) : n > since /\ spool[n].tag \in {AnyTag, tag}}

\* A plausible bug: the cap is left to the gateway.
Merge_Uncapped(found, page) ==
    LET upTo[n \in 0..Len(spool)] ==
            IF n = 0 THEN found
            ELSE IF n \in page /\ spool[n].sane /\ n \notin ToSet(upTo[n - 1])
                 THEN Append(upTo[n - 1], n) ELSE upTo[n - 1]
    IN  upTo[Len(spool)]

(* The objects of a page one by one: a garbled one is dropped, one known   *)
(* under another tag and one past the cap too.                             *)
Merge(found, page) ==
    LET Taken(n, known) == spool[n].sane /\ n \notin ToSet(known) /\ Len(known) < MaxPerPoll
        upTo[n \in 0..Len(spool)] ==
            IF n = 0 THEN found
            ELSE IF n \in page /\ Taken(n, upTo[n - 1])
                 THEN Append(upTo[n - 1], n) ELSE upTo[n - 1]
    IN  upTo[Len(spool)]

MergedCursor(cursor, page) == Max({cursor} \cup page)

(* Rows past the cap.                                                      *)
CutOff(page, found) == {n \in page : spool[n].sane} \ ToSet(found)

AskTag(p) ==
    /\ fetch[p].at = "ask" /\ fetch[p].asking # <<>>
    /\ LET f == fetch[p]
           page == Page(Head(f.asking), f.since)
           found == Merge(f.found, page)
       IN  /\ fetch' = [fetch EXCEPT ![p] =
                          [f EXCEPT !.asking = Tail(@), !.found = found,
                                    !.cursor = MergedCursor(@, page),
                                    !.at = IF Tail(f.asking) = <<>> THEN "ingest" ELSE "ask"]]
           /\ settled' = settled \cup
                 IF Len(found) = MaxPerPoll THEN CutOff(page, found) ELSE {}
    /\ UNCHANGED <<spool, relayEpoch, relayCursor, relayFaults>>

(* The cursor is persisted only after a fully drained poll.                *)
AfterFailure(p) == relayCursor

(* No answer in time, not a 200, not the shape; the engine backs off. Or   *)
(* the process ends, or the database is closed under the poll.             *)
PollFails(p) ==
    /\ fetch[p].at # "idle" /\ relayFaults < MaxRelayFaults
    /\ relayFaults' = relayFaults + 1
    /\ relayCursor' = AfterFailure(p)
    /\ fetch' = [fetch EXCEPT ![p] = NoFetch]
    /\ UNCHANGED <<spool, relayEpoch, settled>>

(* Stored; or not addressed to the wallet, over the sender's rate limit or *)
(* cut short by a statement that throws: that is isolated, the poll goes   *)
(* on.                                                                     *)
IngestObject(p) ==
    /\ fetch[p].at = "ingest" /\ fetch[p].found # <<>>
    /\ settled' = settled \cup {Head(fetch[p].found)}
    /\ fetch' = [fetch EXCEPT ![p].found = Tail(@)]
    /\ UNCHANGED <<spool, relayEpoch, relayCursor, relayFaults>>

SaveCursor(p) ==
    /\ fetch[p].at = "ingest" /\ fetch[p].found = <<>>
    /\ relayCursor' = IF fetch[p].cursor = 0 THEN relayCursor ELSE fetch[p].cursor
    /\ fetch' = [fetch EXCEPT ![p] = NoFetch]
    /\ UNCHANGED <<spool, relayEpoch, settled, relayFaults>>

-----------------------------------------------------------------------------
RelayNext ==
    \/ SpoolRow \/ RelayEpochTurns
    \/ \E p \in Pollers : StartPoll(p) \/ AskTag(p) \/ PollFails(p) \/ IngestObject(p) \/ SaveCursor(p)

RelaySpec == RelayInit /\ [][RelayNext]_relayVars

-----------------------------------------------------------------------------
(* No row under a tag of the wallet falls behind the cursor before it was  *)
(* handed to the incoming pipeline, unless it was past the cap, or it      *)
(* arrived under a tag asked for already while another was still to be     *)
(* asked: neither a failed poll, a garbled row, a row under two tags nor a *)
(* second engine loses one (transport.ts:127-161, workers.ts:522-526).     *)
NothingPassedOver ==
    \A n \in 1..relayCursor :
       spool[n].sane /\ spool[n].tag \in {AnyTag} \cup ToSet(WindowOf(relayEpoch))
       => n \in settled
=============================================================================
