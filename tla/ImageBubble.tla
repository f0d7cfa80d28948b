---------------------------- MODULE ImageBubble -----------------------------
(***************************************************************************)
(* The bubble of an incoming image and its tap-to-load                     *)
(* (apps/android/src/screens/chat-screen.tsx loadFull, cemp-ui             *)
(* image-bubble.ts).  The states are React's: what a call sets is drawn    *)
(* later, and a tap acts on what is drawn; downloadsInFlight is read and   *)
(* written at once.  Each time the screen is entered both begin anew, and  *)
(* a download an earlier screen began goes on.                             *)
(***************************************************************************)
EXTENDS Naturals, FiniteSets

CONSTANTS MaxVisits,     \* bound: times the screen is entered
          MaxFetches,    \* bound: downloads begun
          MaxLoadFaults  \* bound: answers the node gets wrong or does not give

ASSUME BubbleAssumption == {MaxVisits, MaxFetches, MaxLoadFaults} \subseteq Nat

VARIABLES visit,     \* how often the screen was entered
          visible,   \* whether it is still there
          bubble,    \* downloadStates
          drawnAs,   \* the state the bubble was last drawn in
          fetches,   \* under way, by the visit that began them
          downloads,     \* downloads begun
          chunks,    \* the image's chunk cells
          unseen,    \* a live chunk cell was not reported as live
          loadFaults

bubbleVars == <<visit, visible, bubble, drawnAs, fetches, downloads, chunks, unseen, loadFaults>>

DownloadStates == {"idle", "loading", "loaded", "error", "unavailable"}

BubbleTypeOK ==
    /\ visit \in 0..MaxVisits /\ visible \in BOOLEAN
    /\ {bubble, drawnAs} \subseteq DownloadStates
    /\ \A f \in fetches : f.visit \in 1..visit /\ f.n \in 1..downloads
    /\ downloads \in 0..MaxFetches
    /\ chunks \in {"live", "gone"} /\ unseen \in BOOLEAN
    /\ loadFaults \in 0..MaxLoadFaults

BubbleInit ==
    /\ visit = 0 /\ visible = FALSE
    /\ bubble = "idle" /\ drawnAs = "idle"
    /\ fetches = {} /\ downloads = 0
    /\ chunks = "live" /\ unseen = FALSE
    /\ loadFaults = 0

-----------------------------------------------------------------------------
Visit ==
    /\ ~visible /\ visit < MaxVisits
    /\ visit' = visit + 1 /\ visible' = TRUE
    /\ bubble' = "idle" /\ drawnAs' = "idle"
    /\ UNCHANGED <<fetches, downloads, chunks, unseen, loadFaults>>

GoBack ==
    /\ visible /\ visible' = FALSE
    /\ UNCHANGED <<visit, bubble, drawnAs, fetches, downloads, chunks, unseen, loadFaults>>

Draw ==
    /\ visible /\ drawnAs' = bubble
    /\ UNCHANGED <<visit, visible, bubble, fetches, downloads, chunks, unseen, loadFaults>>

(* imageBubbleState: what the bubble offers; it is disabled otherwise, but *)
(* for a loaded image, which a tap opens.                                  *)
Affordance(state) ==
    CASE state = "idle" -> "tap-to-load"
      [] state = "error" -> "tap-to-retry"
      [] OTHER -> "none"

(* downloadsInFlight, a screen's own.                                      *)
InFlight(k) == \E f \in fetches : f.visit = k

LoadFull ==
    /\ visible /\ Affordance(drawnAs) # "none" /\ ~InFlight(visit)
    /\ downloads < MaxFetches
    /\ downloads' = downloads + 1
    /\ fetches' = fetches \cup {[visit |-> visit, n |-> downloads + 1]}
    /\ bubble' = "loading"
    /\ UNCHANGED <<visit, visible, drawnAs, chunks, unseen, loadFaults>>

(* A state set on a screen that is gone is dropped.                        *)
SetDownload(k, state) == bubble' = IF visible /\ k = visit THEN state ELSE bubble

(* classifyImageDownloadError: only the typed error is final.              *)
Classify(unavailable) == IF unavailable THEN "unavailable" ELSE "error"

(* downloadAttachment: the verified bytes; or a chunk cell that is not     *)
(* live; or anything else.  The node may not know of a cell that is there. *)
LoadEnds(f) ==
    /\ fetches' = fetches \ {f}
    /\ \/ chunks = "live" /\ SetDownload(f.visit, "loaded") /\ UNCHANGED <<unseen, loadFaults>>
       \/ chunks = "gone" /\ SetDownload(f.visit, Classify(TRUE)) /\ UNCHANGED <<unseen, loadFaults>>
       \/ /\ loadFaults < MaxLoadFaults /\ loadFaults' = loadFaults + 1
          /\ \E unavailable \in BOOLEAN :
                /\ SetDownload(f.visit, Classify(unavailable))
                /\ unseen' = (unseen \/ (unavailable /\ chunks = "live"))
    /\ UNCHANGED <<visit, visible, drawnAs, downloads, chunks>>

(* The sender reclaims them.                                               *)
ChunksGo ==
    /\ chunks = "live" /\ chunks' = "gone"
    /\ UNCHANGED <<visit, visible, bubble, drawnAs, fetches, downloads, unseen, loadFaults>>

-----------------------------------------------------------------------------
BubbleNext ==
    \/ Visit \/ GoBack \/ Draw \/ LoadFull \/ ChunksGo
    \/ \E f \in fetches : LoadEnds(f)

BubbleSpec == BubbleInit /\ [][BubbleNext]_bubbleVars

-----------------------------------------------------------------------------
(* An image is only said to be no longer available when the node did not   *)
(* report a chunk cell as live, never for a dropped connection; and the    *)
(* spinner turns exactly while this screen downloads, whatever taps on a   *)
(* bubble drawn earlier and downloads of an earlier screen do              *)
(* (image-bubble.ts:1-13, chat-screen.tsx:212-250).                        *)
BubbleIsTruthful ==
    /\ bubble = "unavailable" => chunks = "gone" \/ unseen
    /\ visible => (bubble = "loading" <=> \E f \in fetches : f.visit = visit)
=============================================================================
