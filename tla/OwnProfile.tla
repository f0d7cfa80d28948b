----------------------------- MODULE OwnProfile -----------------------------
(***************************************************************************)
(* The device's own profile: its publication from the settings screen      *)
(* (messaging.ts publishMyProfile, settings-screen.tsx), the row it leaves *)
(* (repositories/profiles.ts), and all that is read from that row afresh:  *)
(* the id the pipelines send and scan with and the card that is handed to  *)
(* contacts (my-card-screen.tsx). The app is locked, killed and reset at   *)
(* any time, and a call outlives the session it was made in.               *)
(*                                                                         *)
(* A profile is named by the transaction that creates it.                  *)
(***************************************************************************)
EXTENDS Integers, Sequences, FiniteSets, FiniteSetsExt, Functions

CONSTANTS Publications,   \* calls of publishMyProfile under way at a time
          MaxProfiles,    \* bound: profile transactions
          MaxSessions,    \* bound: unlocks
          MaxOwnFaults    \* bound: failed reads and calls, crashes, resets

ASSUME OwnAssumption == {MaxProfiles, MaxSessions, MaxOwnFaults} \subseteq Nat

VARIABLES rows,      \* the profiles table of this database, in order
          creating,  \* creating[t]: what became of the transaction
          ownCall,   \* ownCall[p]: where it is, its transaction and session
          session,   \* the session, and whether the app is unlocked
          settings,  \* the settings screen: the profile it shows, its busy flag
          card,      \* the card screen: what it has read
          handed,    \* ids that contacts know, from cards and from messages
          cut,       \* transactions whose call ended before their row
          ownFaults

ownVars == <<rows, creating, ownCall, session, settings, card, handed, cut, ownFaults>>

Ids == 1..MaxProfiles
None == 0
CallLabels == {"idle", "existing", "build", "record", "send", "wait", "mark", "create"}

OwnTypeOK ==
    /\ rows \in Seq(Ids)
    /\ creating \in Seq({"signed", "pool", "committed", "rejected"})
    /\ Len(creating) <= MaxProfiles
    /\ ownCall \in [Publications -> [at : CallLabels, tx : {None} \cup Ids, of : 0..MaxSessions]]
    /\ session \in [count : 0..MaxSessions, open : BOOLEAN]
    /\ settings \in [shown : {None} \cup Ids, busy : BOOLEAN, loaded : BOOLEAN]
    /\ card \in [at : {"closed", "id", "print", "shown"}, id : {None} \cup Ids,
                 print : {None} \cup Ids]
    /\ handed \subseteq Ids /\ cut \subseteq Ids
    /\ ownFaults \in 0..MaxOwnFaults

IdleCall == [at |-> "idle", tx |-> None, of |-> 0]
FreshSettings == [shown |-> None, busy |-> FALSE, loaded |-> FALSE]
ClosedCard == [at |-> "closed", id |-> None, print |-> None]

OwnInit ==
    /\ rows = <<>> /\ creating = <<>>
    /\ ownCall = [p \in Publications |-> IdleCall]
    /\ session = [count |-> 0, open |-> FALSE]
    /\ settings = FreshSettings /\ card = ClosedCard
    /\ handed = {} /\ cut = {} /\ ownFaults = 0

OwnFault == ownFaults < MaxOwnFaults /\ ownFaults' = ownFaults + 1

(* The account's newest active row; none is ever made up.                  *)
ActiveProfile == IF rows = <<>> THEN None ELSE rows[Len(rows)]

Committed == {t \in DOMAIN creating : creating[t] = "committed"}

-----------------------------------------------------------------------------
(* Sessions. Locking closes the database and leaves the screens; a call    *)
(* that goes on finds the closed database at its next write.               *)

Unlock ==
    /\ ~session.open /\ session.count < MaxSessions
    /\ session' = [count |-> session.count + 1, open |-> TRUE]
    /\ UNCHANGED <<rows, creating, ownCall, settings, card, handed, cut, ownFaults>>

UnderWay == {ownCall[p].tx : p \in {q \in Publications : ownCall[q].at # "idle"}} \ {None}

LeaveScreens == settings' = FreshSettings /\ card' = ClosedCard

LockOwn ==
    /\ session.open
    /\ session' = [session EXCEPT !.open = FALSE]
    /\ cut' = cut \cup UnderWay
    /\ LeaveScreens
    /\ UNCHANGED <<rows, creating, ownCall, handed, ownFaults>>

KillOwn ==
    /\ OwnFault
    /\ session' = [session EXCEPT !.open = FALSE]
    /\ ownCall' = [p \in Publications |-> IdleCall]
    /\ cut' = cut \cup UnderWay
    /\ LeaveScreens
    /\ UNCHANGED <<rows, creating, handed>>

(* The database goes and the wallet stays: the rows are forgotten, and so  *)
(* is everybody who was told of them.                                      *)
ResetLocalData ==
    /\ OwnFault /\ ~session.open
    /\ rows' = <<>> /\ handed' = {} /\ cut' = cut \cup Range(rows)
    /\ UNCHANGED <<creating, ownCall, session, settings, card>>

-----------------------------------------------------------------------------
(* The settings screen and the publication it starts.                      *)

(* A read that fails leaves the screen with its button.                    *)
LoadMyProfile ==
    /\ session.open /\ ~settings.loaded
    /\ \/ settings' = [settings EXCEPT !.loaded = TRUE, !.shown = ActiveProfile]
          /\ UNCHANGED ownFaults
       \/ settings' = [settings EXCEPT !.loaded = TRUE] /\ OwnFault
    /\ UNCHANGED <<rows, creating, ownCall, session, card, handed, cut>>

TapPublish(p) ==
    /\ session.open /\ settings.shown = None /\ ~settings.busy /\ ownCall[p].at = "idle"
    /\ settings' = [settings EXCEPT !.busy = TRUE]
    /\ ownCall' = [ownCall EXCEPT ![p] = [at |-> "existing", tx |-> None, of |-> session.count]]
    /\ UNCHANGED <<rows, creating, session, card, handed, cut, ownFaults>>

OwnAt(p, label) == ownCall[p].at = label
OwnGoto(p, label) == ownCall' = [ownCall EXCEPT ![p].at = label]
Live(p) == session.open /\ ownCall[p].of = session.count

(* The call returns an id or an error; a screen that is gone hears nothing. *)
Return(p, id) ==
    /\ ownCall' = [ownCall EXCEPT ![p] = IdleCall]
    /\ settings' = IF ~Live(p) THEN settings
                   ELSE [settings EXCEPT !.busy = FALSE,
                                         !.shown = IF id = None THEN @ ELSE id]

Fails(p) ==
    /\ Return(p, None)
    /\ cut' = cut \cup ({ownCall[p].tx} \ {None})

CheckExisting(p) ==
    /\ OwnAt(p, "existing")
    /\ CASE ~Live(p) -> Fails(p)
         [] Live(p) /\ ActiveProfile = None -> OwnGoto(p, "build") /\ UNCHANGED <<settings, cut>>
         [] OTHER -> Return(p, ActiveProfile) /\ UNCHANGED cut
    /\ UNCHANGED <<rows, creating, session, card, handed, ownFaults>>

(* Without funds, or under a key that was wiped, there is no transaction.  *)
BuildAndSign(p) ==
    /\ OwnAt(p, "build")
    /\ \/ Fails(p) /\ UNCHANGED creating
       \/ /\ Live(p) /\ Len(creating) < MaxProfiles
          /\ creating' = Append(creating, "signed")
          /\ ownCall' = [ownCall EXCEPT ![p].at = "record", ![p].tx = Len(creating) + 1]
          /\ UNCHANGED <<settings, cut>>
    /\ UNCHANGED <<rows, session, card, handed, ownFaults>>

(* Journal before broadcast. No worker reads this record back.             *)
RecordOwn(p) ==
    /\ OwnAt(p, "record")
    /\ IF Live(p) THEN OwnGoto(p, "send") /\ UNCHANGED <<settings, cut>> ELSE Fails(p)
    /\ UNCHANGED <<rows, creating, session, card, handed, ownFaults>>

(* The node refuses, takes it, or takes it and the answer is lost.         *)
BroadcastOwn(p) ==
    /\ OwnAt(p, "send")
    /\ \E taken, answered \in BOOLEAN :
          /\ creating' = [creating EXCEPT ![ownCall[p].tx] = IF taken THEN "pool" ELSE "rejected"]
          /\ IF taken /\ answered
             THEN OwnGoto(p, "wait") /\ UNCHANGED <<settings, cut, ownFaults>>
             ELSE Fails(p) /\ OwnFault
    /\ UNCHANGED <<rows, session, card, handed>>

NodeDecides(t) ==
    /\ creating[t] = "pool"
    /\ \E verdict \in {"committed", "rejected"} : creating' = [creating EXCEPT ![t] = verdict]
    /\ UNCHANGED <<rows, ownCall, session, settings, card, handed, cut, ownFaults>>

(* Three minutes, then an error, whatever becomes of the transaction.      *)
AwaitOwn(p) ==
    /\ OwnAt(p, "wait")
    /\ \/ creating[ownCall[p].tx] = "committed" /\ OwnGoto(p, "mark") /\ UNCHANGED <<settings, cut, ownFaults>>
       \/ creating[ownCall[p].tx] = "rejected" /\ Fails(p) /\ UNCHANGED ownFaults
       \/ creating[ownCall[p].tx] = "pool" /\ Fails(p) /\ OwnFault
    /\ UNCHANGED <<rows, creating, session, card, handed>>

MarkOwn(p) ==
    /\ OwnAt(p, "mark")
    /\ IF Live(p) THEN OwnGoto(p, "create") /\ UNCHANGED <<settings, cut>> ELSE Fails(p)
    /\ UNCHANGED <<rows, creating, session, card, handed, ownFaults>>

CreateRow(p) ==
    /\ OwnAt(p, "create")
    /\ IF Live(p)
       THEN rows' = Append(rows, ownCall[p].tx) /\ Return(p, ownCall[p].tx) /\ UNCHANGED cut
       ELSE Fails(p) /\ UNCHANGED rows
    /\ UNCHANGED <<creating, session, card, handed, ownFaults>>

-----------------------------------------------------------------------------
(* A message carries the id as it is at that moment; without one the send  *)
(* fails and the scan has nothing to look for.                             *)
SendAsMyself ==
    /\ session.open /\ ActiveProfile # None
    /\ handed' = handed \cup {ActiveProfile}
    /\ UNCHANGED <<rows, creating, ownCall, session, settings, card, cut, ownFaults>>

(* The card: the id, then the fingerprint, which reads the id again.       *)
OpenCard ==
    /\ session.open /\ card.at = "closed"
    /\ card' = [card EXCEPT !.at = "id"]
    /\ UNCHANGED <<rows, creating, ownCall, session, settings, handed, cut, ownFaults>>

ReadCardId ==
    /\ card.at = "id"
    /\ card' = IF ActiveProfile = None THEN ClosedCard
               ELSE [card EXCEPT !.at = "print", !.id = ActiveProfile]
    /\ UNCHANGED <<rows, creating, ownCall, session, settings, handed, cut, ownFaults>>

ReadFingerprint ==
    /\ card.at = "print"
    /\ card' = [card EXCEPT !.at = "shown", !.print = ActiveProfile]
    /\ UNCHANGED <<rows, creating, ownCall, session, settings, handed, cut, ownFaults>>

(* Whether or not the display name could be saved.                         *)
ShareCard ==
    /\ card.at = "shown"
    /\ handed' = handed \cup {card.id}
    /\ UNCHANGED <<rows, creating, ownCall, session, settings, card, cut, ownFaults>>

CloseCard ==
    /\ card.at = "shown" /\ card' = ClosedCard
    /\ UNCHANGED <<rows, creating, ownCall, session, settings, handed, cut, ownFaults>>

OwnNext ==
    \/ Unlock \/ LockOwn \/ KillOwn \/ ResetLocalData \/ LoadMyProfile
    \/ \E t \in DOMAIN creating : NodeDecides(t)
    \/ \E p \in Publications :
          \/ TapPublish(p) \/ CheckExisting(p) \/ BuildAndSign(p) \/ RecordOwn(p)
          \/ BroadcastOwn(p) \/ AwaitOwn(p) \/ MarkOwn(p) \/ CreateRow(p)
    \/ SendAsMyself \/ OpenCard \/ ReadCardId \/ ReadFingerprint \/ ShareCard \/ CloseCard

OwnSpec == OwnInit /\ [][OwnNext]_ownVars

-----------------------------------------------------------------------------
(* Whoever was handed a card, or a message to answer, writes to an id that *)
(* is on the chain and that this device scans for, as long as it keeps its *)
(* database; the card's fingerprint is that of its id (messaging.ts:315-   *)
(* 376 and 722-770).                                                       *)
CardsAreHeard ==
    /\ \A id \in handed : id = ActiveProfile /\ id \in Committed
    /\ card.at = "shown" => card.print = card.id

(* A second profile cell comes to be only when the call that made the      *)
(* first one ended before its row was written (messaging.ts:377-431).      *)
OneCellUnlessCut == Cardinality(Committed \ cut) <= 1

ProfileIsOne == CardsAreHeard /\ OneCellUnlessCut
=============================================================================
