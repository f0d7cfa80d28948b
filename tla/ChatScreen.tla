----------------------------- MODULE ChatScreen -----------------------------
(***************************************************************************)
(* The chat screen of one conversation (apps/android/src/screens/          *)
(* chat-screen.tsx), its composer and bubbles (cemp-ui composer.ts,        *)
(* bubble.ts).  The list is read again every three seconds and after every *)
(* call, and a tap acts on the bubble as it was drawn.  Leaving the screen *)
(* does not stop a call under way; the screen entered next has a state and *)
(* a double-tap guard of its own.                                          *)
(*                                                                         *)
(* What publishText and the pending-transactions worker make of a row is   *)
(* in module Publication; here they are their effects on the row.          *)
(***************************************************************************)
EXTENDS MessageStates, FiniteSets

CONSTANTS Inputs,          \* texts the user types, each one once
          MaxScope,        \* bound: outgoing rows and screens entered, together
          MaxReloads,      \* bound: reloads under way at the same time
          MaxScreenFaults  \* bound: statements that throw, deaths of the process

\* What is sent and is not a text, and an input without one.
Photo == "photo"
NoText == "none"

ASSUME ChatAssumption ==
    /\ {MaxScope, MaxScreenFaults} \subseteq Nat
    /\ Photo \notin Inputs /\ NoText \notin Inputs

VARIABLES sends,       \* the conversation's outgoing rows, oldest first
          drawn,       \* the bubbles on the screen that offer a retry
          reloads,     \* lists read and not yet drawn, alike
          box,         \* the text input
          typed,       \* texts typed so far
          mount,       \* how often the screen was entered
          open,        \* whether it is still there
          tap,         \* tap[k]: what the k-th screen is publishing
          contested,   \* rows tapped while the bubble was older than the row, or
                       \* while another screen worked on them
          undone,      \* other rows, on their way, that the screen marked failed
          left,        \* rows whose failure could not be recorded
          screenFaults

listVars == <<drawn, reloads>>
boxVars == <<box, typed>>
ghostVars == <<contested, undone, left>>
screenVars == <<sends, listVars, boxVars, mount, open, tap, ghostVars, screenFaults>>

Mounts == 1..MaxScope
IdleTap == [at |-> "idle", by |-> "send", of |-> NoText, row |-> 0, broadcast |-> FALSE]
RowsOf(what) == {i \in DOMAIN sends : sends[i].of = what}

ChatTypeOK ==
    /\ Len(sends) + mount <= MaxScope
    /\ \A i \in DOMAIN sends : /\ sends[i].of \in Inputs \cup {Photo}
                               /\ sends[i].state \in OutgoingStates
                               /\ sends[i].accepted \in BOOLEAN
    /\ drawn \subseteq DOMAIN sends /\ UNION reloads \subseteq DOMAIN sends
    /\ box \in Inputs \cup {NoText} /\ typed \subseteq Inputs
    /\ mount \in 0..MaxScope /\ open \in BOOLEAN
    /\ \A k \in Mounts :
          /\ tap[k].at \in {"idle", "pick", "check", "insert", "queue", "unqueue", "requeue",
                            "publish", "building", "sent", "raised"}
          /\ tap[k].row \in 0..Len(sends)
    /\ UNION {contested, undone, left} \subseteq DOMAIN sends
    /\ screenFaults \in 0..MaxScreenFaults

ChatInit ==
    /\ sends = <<>> /\ drawn = {} /\ reloads = {}
    /\ box = NoText /\ typed = {}
    /\ mount = 0 /\ open = FALSE
    /\ tap = [k \in Mounts |-> IdleTap]
    /\ contested = {} /\ undone = {} /\ left = {}
    /\ screenFaults = 0

-----------------------------------------------------------------------------
(* Rows, calls and lists.                                                  *)
TapAt(k, label) == tap[k].at = label
TapGoto(k, label) == tap' = [tap EXCEPT ![k].at = label]
TapEnds(k) == tap' = [tap EXCEPT ![k] = IdleTap]
StateOf(k) == sends[tap[k].row].state
SetState(i, state) == sends' = [sends EXCEPT ![i].state = state]
Working(i) == {k \in Mounts : ~TapAt(k, "idle") /\ tap[k].row = i}
StatementThrows == screenFaults < MaxScreenFaults /\ screenFaults' = screenFaults + 1

(* messageBubbleState: only a failed row's bubble offers a retry.          *)
Snapshot == {i \in DOMAIN sends : sends[i].state = "failed"}

(* reload after a call: only the screen that is open draws what it reads.  *)
ReloadAfter(k) ==
    /\ reloads' = IF open /\ k = mount THEN reloads \cup {Snapshot} ELSE reloads
    /\ UNCHANGED drawn

-----------------------------------------------------------------------------
(* Coming, going, typing, reading the list.                                *)
Enter ==
    /\ ~open /\ Len(sends) + mount < MaxScope
    /\ mount' = mount + 1 /\ open' = TRUE
    /\ reloads' = {Snapshot} /\ drawn' = {}
    /\ box' = NoText
    /\ UNCHANGED <<sends, typed, tap, ghostVars, screenFaults>>

LeaveScreen ==
    /\ open /\ open' = FALSE
    /\ reloads' = {} /\ drawn' = {} /\ box' = NoText
    /\ UNCHANGED <<sends, typed, mount, tap, ghostVars, screenFaults>>

Type(t) ==
    /\ open /\ box = NoText /\ t \notin typed
    /\ box' = t /\ typed' = typed \cup {t}
    /\ UNCHANGED <<sends, listVars, mount, open, tap, ghostVars, screenFaults>>

ReadList ==
    /\ open /\ Cardinality(reloads) < MaxReloads
    /\ reloads' = reloads \cup {Snapshot}
    /\ UNCHANGED <<sends, drawn, boxVars, mount, open, tap, ghostVars, screenFaults>>

(* Of two reads under way, the older may be drawn last.                    *)
DrawList ==
    /\ \E list \in reloads : drawn' = list /\ reloads' = reloads \ {list}
    /\ UNCHANGED <<sends, boxVars, mount, open, tap, ghostVars, screenFaults>>

-----------------------------------------------------------------------------
(* The taps.  publishBusy is set while a call of this screen is under way. *)
MayPublish == open /\ TapAt(mount, "idle")

TapSend ==
    /\ MayPublish /\ box # NoText
    /\ tap' = [tap EXCEPT ![mount] = [IdleTap EXCEPT !.at = "insert", !.of = box]]
    /\ UNCHANGED <<sends, listVars, boxVars, mount, open, ghostVars, screenFaults>>

TapAttach ==
    /\ MayPublish
    /\ tap' = [tap EXCEPT ![mount] = [IdleTap EXCEPT !.at = "pick", !.by = "attach", !.of = Photo]]
    /\ UNCHANGED <<sends, listVars, boxVars, mount, open, ghostVars, screenFaults>>

TapRetry(i) ==
    /\ MayPublish /\ i \in drawn
    /\ tap' = [tap EXCEPT ![mount] =
                 [IdleTap EXCEPT !.at = IF sends[i].of = Photo THEN "pick" ELSE "check",
                                 !.by = "retry", !.of = sends[i].of, !.row = i]]
    /\ contested' = IF sends[i].state # "failed" \/ Working(i) # {}
                    THEN contested \cup {i} ELSE contested
    /\ UNCHANGED <<sends, listVars, boxVars, mount, open, undone, left, screenFaults>>

(* The picker: bytes; or it was cancelled, or failed.                      *)
Pick(k) ==
    /\ TapAt(k, "pick")
    /\ TapGoto(k, "check") \/ TapEnds(k)
    /\ UNCHANGED <<sends, listVars, boxVars, mount, open, ghostVars, screenFaults>>

(* Messaging is ready and the contact has a profile, or it is said so.     *)
CheckReachable(k) ==
    /\ TapAt(k, "check")
    /\ TapGoto(k, IF tap[k].by = "attach" THEN "insert" ELSE "requeue") \/ TapEnds(k)
    /\ UNCHANGED <<sends, listVars, boxVars, mount, open, ghostVars, screenFaults>>

-----------------------------------------------------------------------------
(* The composer: insert, then draft -> queued.                             *)
Insert(k) ==
    /\ TapAt(k, "insert")
    /\ \/ /\ Len(sends) + mount < MaxScope
          /\ sends' = Append(sends, [of |-> tap[k].of, state |-> "draft", accepted |-> FALSE])
          /\ tap' = [tap EXCEPT ![k].at = "queue", ![k].row = Len(sends) + 1]
          /\ UNCHANGED <<screenFaults, listVars>>
       \/ /\ StatementThrows /\ TapEnds(k)
          /\ IF tap[k].by = "attach" THEN ReloadAfter(k) ELSE UNCHANGED listVars
          /\ UNCHANGED sends
    /\ UNCHANGED <<boxVars, mount, open, ghostVars>>

(* setDraft(""), on the screen the tap was made on.                        *)
Cleared(k) == IF tap[k].by = "send" /\ k = mount THEN NoText ELSE box

(* A text whose row could not be queued stays in the input, its row a      *)
(* draft; an image's row is to be marked failed.  A text is published when *)
(* it can be, and stays queued otherwise.                                  *)
Queue(k) ==
    /\ TapAt(k, "queue")
    /\ \/ /\ Accepts(StateOf(k), "queued") /\ SetState(tap[k].row, "queued")
          /\ box' = Cleared(k)
          /\ \/ TapGoto(k, "publish") /\ UNCHANGED listVars
             \/ tap[k].by = "send" /\ TapEnds(k) /\ ReloadAfter(k)
          /\ UNCHANGED screenFaults
       \/ /\ StatementThrows
          /\ IF tap[k].by = "attach" THEN TapGoto(k, "unqueue") ELSE TapEnds(k)
          /\ UNCHANGED <<sends, box, listVars>>
    /\ UNCHANGED <<typed, mount, open, ghostVars>>

(* insertImageDraft's catch; the screen has no row to mark then.           *)
Unqueue(k) ==
    /\ TapAt(k, "unqueue")
    /\ \/ /\ Accepts(StateOf(k), "failed") /\ SetState(tap[k].row, "failed")
          /\ UNCHANGED <<left, screenFaults>>
       \/ /\ StatementThrows /\ left' = left \cup {tap[k].row}
          /\ UNCHANGED sends
    /\ TapEnds(k) /\ ReloadAfter(k)
    /\ UNCHANGED <<boxVars, mount, open, contested, undone>>

(* The retry edge failed -> queued, if the row takes it.                   *)
Requeue(k) ==
    /\ TapAt(k, "requeue")
    /\ \/ /\ Accepts(StateOf(k), "queued") /\ SetState(tap[k].row, "queued")
          /\ TapGoto(k, "publish") /\ UNCHANGED screenFaults
       \/ ~Accepts(StateOf(k), "queued") /\ TapGoto(k, "raised") /\ UNCHANGED <<sends, screenFaults>>
       \/ StatementThrows /\ TapGoto(k, "raised") /\ UNCHANGED sends
    /\ UNCHANGED <<listVars, boxVars, mount, open, ghostVars>>

-----------------------------------------------------------------------------
(* publishText and publishImage, by what they do to the row.               *)
OnItsWay == {"pending", "committed", "available_on_chain"}

(* Up to the broadcast; a journaled transaction is resumed, and once seen  *)
(* to be committed the row is walked to the end.                           *)
PublishGoesOn(k) ==
    /\ \/ /\ TapAt(k, "publish") /\ StateOf(k) = "queued" /\ ~sends[tap[k].row].accepted
          /\ SetState(tap[k].row, "submitting") /\ TapGoto(k, "building")
       \/ /\ TapAt(k, "building") /\ StateOf(k) = "submitting"
          /\ sends' = [sends EXCEPT ![tap[k].row].state = "pending", ![tap[k].row].accepted = TRUE]
          /\ TapGoto(k, "sent")
       \/ /\ TapAt(k, "publish") /\ StateOf(k) = "queued" /\ sends[tap[k].row].accepted
          /\ SetState(tap[k].row, "pending") /\ TapGoto(k, "sent")
    /\ UNCHANGED <<listVars, boxVars, mount, open, ghostVars, screenFaults>>

(* Before the broadcast: the image cannot be prepared or its chunks not    *)
(* published, and the row is left as it is; or publishText throws, and     *)
(* marks the row itself, if the row takes it.                              *)
PublishFails(k) ==
    /\ TapAt(k, "publish") \/ TapAt(k, "building")
    /\ \/ tap[k].of = Photo /\ TapAt(k, "publish") /\ UNCHANGED sends
       \/ Accepts(StateOf(k), "failed") /\ StateOf(k) \notin OnItsWay /\ SetState(tap[k].row, "failed")
       \/ (~Accepts(StateOf(k), "failed") \/ StateOf(k) \in OnItsWay) /\ UNCHANGED sends
    /\ TapGoto(k, "raised")
    /\ UNCHANGED <<listVars, boxVars, mount, open, ghostVars, screenFaults>>

(* After it: committed in time, or the wait gives up.                      *)
PublishEnds(k) ==
    /\ TapAt(k, "sent")
    /\ \/ StateOf(k) \in OnItsWay /\ SetState(tap[k].row, "available_on_chain")
             /\ TapEnds(k) /\ ReloadAfter(k)
       \/ tap' = [tap EXCEPT ![k].at = "raised", ![k].broadcast = TRUE]
             /\ UNCHANGED <<sends, listVars>>
    /\ UNCHANGED <<boxVars, mount, open, ghostVars, screenFaults>>

(* The pending-transactions worker.                                        *)
WorkerHeals(i) ==
    /\ sends[i].state = "pending" /\ SetState(i, "available_on_chain")
    /\ UNCHANGED <<listVars, boxVars, mount, open, tap, ghostVars, screenFaults>>

\* A plausible bug: every failure marks the row, a timed-out commit too.
Marks_Flawed(k) == tap[k].by # "send"

(* Only a failure before the broadcast does; send() leaves it to           *)
(* publishText.                                                            *)
Marks(k) == tap[k].by # "send" /\ ~tap[k].broadcast

(* The catch blocks.  Refused, or thrown itself, the move is not made and  *)
(* the list not read.                                                      *)
Catch(k) ==
    /\ TapAt(k, "raised")
    /\ \/ ~Marks(k) /\ ReloadAfter(k) /\ UNCHANGED <<sends, undone, left, screenFaults>>
       \/ /\ Marks(k) /\ Accepts(StateOf(k), "failed")
          /\ SetState(tap[k].row, "failed")
          /\ undone' = IF StateOf(k) \in OnItsWay THEN undone \cup ({tap[k].row} \ contested)
                       ELSE undone
          /\ ReloadAfter(k) /\ UNCHANGED <<left, screenFaults>>
       \/ /\ Marks(k) /\ ~Accepts(StateOf(k), "failed")
          /\ UNCHANGED <<sends, listVars, undone, left, screenFaults>>
       \/ /\ Marks(k) /\ StatementThrows
          /\ left' = left \cup {tap[k].row} /\ UNCHANGED <<sends, listVars, undone>>
    /\ TapEnds(k)
    /\ UNCHANGED <<boxVars, mount, open, contested>>

-----------------------------------------------------------------------------
(* The process dies; what was under way stays as it is.                    *)
ScreenDies ==
    /\ StatementThrows
    /\ left' = left \cup {i \in DOMAIN sends : Working(i) # {}}
    /\ tap' = [k \in Mounts |-> IdleTap]
    /\ open' = FALSE
    /\ box' = NoText /\ drawn' = {} /\ reloads' = {}
    /\ UNCHANGED <<sends, typed, mount, contested, undone>>

ChatNext ==
    \/ Enter \/ LeaveScreen \/ ReadList \/ DrawList \/ TapSend \/ TapAttach
    \/ ScreenDies
    \/ \E t \in Inputs : Type(t)
    \/ \E i \in DOMAIN sends : TapRetry(i) \/ WorkerHeals(i)
    \/ \E k \in Mounts :
          \/ Pick(k) \/ CheckReachable(k) \/ Insert(k) \/ Queue(k) \/ Unqueue(k) \/ Requeue(k)
          \/ PublishGoesOn(k) \/ PublishFails(k) \/ PublishEnds(k) \/ Catch(k)

ChatSpec == ChatInit /\ [][ChatNext]_screenVars

-----------------------------------------------------------------------------
(* A message on its way is never shown as failed by the screen, however    *)
(* its publication ended, but for a tap on a bubble older than its row, or *)
(* two screens at work on the same row (chat-screen.tsx:205-206, 276-279). *)
OnlyOutdatedTapsUndo == undone = {}

(* No image is left at "sending" with nobody sending it, unless marking it *)
(* failed threw as well or the process died (chat-screen.tsx:160-171).     *)
NoStrandedPhoto ==
    \A i \in RowsOf(Photo) \ (left \cup contested) :
       sends[i].state \in {"draft", "queued", "submitting"} => Working(i) # {}

(* A text typed once is sent once: the rows that failed inserts and second *)
(* taps leave behind are drafts (chat-screen.tsx:313-323, composer.ts).    *)
SentOnce ==
    \A t \in Inputs : Cardinality({i \in RowsOf(t) : sends[i].state # "draft"}) <= 1

(* What the screen promises.                                               *)
ChatKeepsItsWord == OnlyOutdatedTapsUndo /\ NoStrandedPhoto /\ SentOnce
=============================================================================
