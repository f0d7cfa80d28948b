------------------------------ MODULE Bridges ------------------------------
(***************************************************************************)
(* The app-local native modules that answer a promise later, on another    *)
(* thread: the camera scanner (qr/CempQrScannerModule.kt,                  *)
(* QrScannerActivity.kt) and the photo picker                              *)
(* (imaging/CempImagePickerModule.kt), which wait for the result of an     *)
(* activity, and the image codec (CempImageCodecModule.kt), whose bitmaps  *)
(* the send pipeline holds by handle (platform/handle-tracker.ts,          *)
(* cemp-images/prepare.ts, compress.ts).                                   *)
(*                                                                         *)
(* The bridge thread takes one call at a time; activity results come on    *)
(* the main thread, in the order in which the activities finished.  The    *)
(* modules share nothing: a behaviour follows one of them.  A promise      *)
(* ignores a second answer.                                                *)
(***************************************************************************)
EXTENDS Naturals, Sequences, FiniteSets

CONSTANTS MaxCalls,      \* bound: calls of a bridge
          EdgeSteps,     \* steps of the compression ladder
          MaxBadRelease  \* bound: releases that throw

ASSUME BridgeAssumption == MaxCalls \in Nat

VARIABLES bridge,     \* the module a behaviour follows
          alive,      \* not torn down
          answer,     \* answer[n]: what JavaScript was given for call n
          activity,   \* activity[n]: the activity call n launched
          results,    \* finished activities, not yet delivered
          pending,    \* the call the AtomicReference holds, 0 for none
          launching,  \* the call the bridge thread is launching, 0 for none
          swapping,   \* what onActivityResult read: [of, call]
          reading,    \* picked images being read: <<call, activity>>
          bitmaps,    \* handle |-> bitmap
          recycled,   \* recycled bitmaps that a handle still names
          job,        \* a publishImage of the send pipeline
          badRelease

activityVars == <<alive, answer, activity, results, pending, launching, swapping, reading>>
codecVars == <<bitmaps, recycled, job, badRelease>>
bridgeVars == <<bridge, activityVars, codecVars>>

CallIds == 1..MaxCalls
Scanner == "scanner"
Picker == "picker"
Codec == "codec"

NoSwap == [of |-> 0, call |-> 0]
Closed == [at |-> "none", gives |-> "nothing"]
IdleJob == [at |-> "idle", step |-> 0, made |-> 0, small |-> FALSE, fits |-> FALSE,
            tracked |-> {}]

(* The pipeline makes a handle per decode, step and thumbnail. Another     *)
(* pipeline has handles of its own: the counter gives none out twice.      *)
Handles == 1..(EdgeSteps + 2)

BridgeTypeOK ==
    /\ bridge \in {Scanner, Picker, Codec} /\ alive \in BOOLEAN
    /\ \A n \in CallIds :
          /\ answer[n].at \in {"unused", "open", "settled"}
          /\ answer[n].from \in 0..MaxCalls
          /\ activity[n].at \in {"none", "asking", "scanning", "found", "finished", "delivered"}
    /\ job.at \in {"idle", "decode", "resize", "encode", "thumb", "encodeThumb",
                   "release", "done"}
    /\ job.tracked \subseteq Handles
    /\ \A k \in DOMAIN results : results[k] \in CallIds
    /\ pending \in 0..MaxCalls /\ launching \in 0..MaxCalls
    /\ reading \subseteq CallIds \X CallIds
    /\ DOMAIN bitmaps \subseteq Handles /\ recycled \subseteq Handles
    /\ badRelease \in 0..MaxBadRelease

BridgeInit ==
    /\ bridge \in {Scanner, Picker, Codec}
    /\ alive = TRUE
    /\ answer = [n \in CallIds |-> [at |-> "unused", gives |-> "nothing", from |-> 0]]
    /\ activity = [n \in CallIds |-> Closed]
    /\ results = <<>> /\ pending = 0 /\ launching = 0
    /\ swapping = NoSwap /\ reading = {}
    /\ bitmaps = [h \in {} |-> 0] /\ recycled = {}
    /\ job = IdleJob /\ badRelease = 0

-----------------------------------------------------------------------------
(* Promises.  `from` is the activity whose result an answer carries.       *)

Settled(answers, n, gives, from) ==
    IF n # 0 /\ answers[n].at = "open"
    THEN [answers EXCEPT ![n] = [at |-> "settled", gives |-> gives, from |-> from]]
    ELSE answers

Unused == {n \in CallIds : answer[n].at = "unused"}
Least(S) == CHOOSE n \in S : \A m \in S : n <= m

Opened(n) == [answer EXCEPT ![n].at = "open"]

-----------------------------------------------------------------------------
(* scanWithCamera and pick, on the bridge thread: the call takes the place *)
(* of the one that waits, which is rejected, and only then launches.       *)

Install ==
    /\ bridge # Codec /\ alive /\ launching = 0 /\ Unused # {}
    /\ LET n == Least(Unused)
       IN  /\ pending' = n /\ launching' = n
           /\ answer' = Settled(Opened(n), pending, "superseded", 0)
    /\ UNCHANGED <<bridge, alive, activity, results, swapping, reading, codecVars>>

NoActivity ==
    /\ bridge # Codec /\ alive /\ launching = 0 /\ Unused # {}
    /\ LET n == Least(Unused) IN answer' = Settled(Opened(n), n, "failed", 0)
    /\ UNCHANGED <<bridge, alive, activity, results, pending, launching, swapping, reading,
                   codecVars>>

LaunchActivity ==
    /\ launching # 0
    /\ activity' = [activity EXCEPT ![launching].at =
                      IF bridge = Scanner THEN "asking" ELSE "scanning"]
    /\ launching' = 0
    /\ UNCHANGED <<bridge, alive, answer, results, pending, swapping, reading, codecVars>>

LaunchFails ==
    /\ launching # 0
    /\ pending' = IF pending = launching THEN 0 ELSE pending
    /\ answer' = Settled(answer, launching, "failed", 0)
    /\ launching' = 0
    /\ UNCHANGED <<bridge, alive, activity, results, swapping, reading, codecVars>>

-----------------------------------------------------------------------------
(* The activity.                                                           *)

Finish(n, gives) ==
    /\ activity' = [activity EXCEPT ![n] = [at |-> "finished", gives |-> gives]]
    /\ results' = Append(results, n)

Shows(n, gives) == activity' = [activity EXCEPT ![n].at = gives] /\ UNCHANGED results

(* onCreate, onRequestPermissionsResult: the camera, or a refusal that is  *)
(* told from a cancel.                                                     *)
PermissionAnswered(n) ==
    /\ activity[n].at = "asking"
    /\ Shows(n, "scanning") \/ Finish(n, "denied")

(* A frame decodes: `done` lets one through, finishWith is posted to the   *)
(* main thread and the back button may still come first.                   *)
FrameDecodes(n) == bridge = Scanner /\ activity[n].at = "scanning" /\ Shows(n, "found")
FinishWith(n) == activity[n].at = "found" /\ Finish(n, "value")

(* Back, a camera that does not bind, or (picker) an image chosen.         *)
Cancelled(n) == activity[n].at \in {"scanning", "found"} /\ Finish(n, "cancel")
Picked(n) == bridge = Picker /\ activity[n].at = "scanning" /\ Finish(n, "value")

ActivityStep(n) ==
    /\ PermissionAnswered(n) \/ FrameDecodes(n) \/ FinishWith(n) \/ Cancelled(n) \/ Picked(n)
    /\ UNCHANGED <<bridge, alive, answer, pending, launching, swapping, reading, codecVars>>

-----------------------------------------------------------------------------
(* onActivityResult, on the main thread.                                   *)

Delivered(n) == [activity EXCEPT ![n].at = "delivered"]

(* Every scan has its request code, a counter masked to eight bits.        *)
RequestCode(n) == n % 256

\* A plausible bug: whoever waits takes the result, as in the picker.
TakesResult_Flawed(call, of) == call # 0

TakesResult(call, of) == call # 0 /\ RequestCode(call) = RequestCode(of)

(* The scanner reads who waits, and swaps it out only if it still does.    *)
ReadPending ==
    /\ bridge = Scanner /\ alive /\ swapping = NoSwap /\ results # <<>>
    /\ LET n == Head(results)
       IN  /\ activity' = Delivered(n)
           /\ swapping' = IF TakesResult(pending, n) THEN [of |-> n, call |-> pending] ELSE NoSwap
    /\ results' = Tail(results)
    /\ UNCHANGED <<bridge, alive, answer, pending, launching, reading, codecVars>>

SwapAndSettle ==
    /\ swapping # NoSwap
    /\ IF pending = swapping.call
       THEN /\ pending' = 0
            /\ answer' = Settled(answer, swapping.call, activity[swapping.of].gives, swapping.of)
       ELSE UNCHANGED <<pending, answer>>
    /\ swapping' = NoSwap
    /\ UNCHANGED <<bridge, alive, activity, results, launching, reading, codecVars>>

(* The picker has one request code: the result goes to whoever waits. An   *)
(* image is read by a thread of its own.                                   *)
TakePicked ==
    /\ bridge = Picker /\ alive /\ results # <<>>
    /\ LET n == Head(results)
       IN  /\ activity' = Delivered(n)
           /\ IF pending # 0 /\ activity[n].gives = "value"
              THEN reading' = reading \cup {<<pending, n>>} /\ UNCHANGED answer
              ELSE answer' = Settled(answer, pending, "cancel", n) /\ UNCHANGED reading
    /\ pending' = 0
    /\ results' = Tail(results)
    /\ UNCHANGED <<bridge, alive, launching, swapping, codecVars>>

(* 64 MiB at most, and the stream may fail.                                *)
ReadAllBytes ==
    /\ \E r \in reading, gives \in {"value", "failed"} :
          /\ answer' = Settled(answer, r[1], gives, r[2])
          /\ reading' = reading \ {r}
    /\ UNCHANGED <<bridge, alive, activity, results, pending, launching, swapping, codecVars>>

(* Bridge teardown.                                                        *)
Invalidate ==
    /\ bridge # Codec /\ alive
    /\ alive' = FALSE
    /\ answer' = Settled(answer, pending, "closed", 0) /\ pending' = 0
    /\ UNCHANGED <<bridge, activity, results, launching, swapping, reading, codecVars>>

-----------------------------------------------------------------------------
(* The codec. A handle owns its bitmap.                                    *)

NewHandle == job.made + 1

Store(b) == bitmaps' = [h \in DOMAIN bitmaps \cup {NewHandle} |->
                          IF h = NewHandle THEN b ELSE bitmaps[h]]
Tracked == [job EXCEPT !.made = @ + 1, !.tracked = @ \cup {NewHandle}]

(* createScaledBitmap returns its argument when the size is the same, and  *)
(* that one is copied: the result is a bitmap of its own.                  *)
Scaled(same) == NewHandle

Goto(at) == job' = [job EXCEPT !.at = at]
Fails == Goto("release") /\ UNCHANGED bitmaps

StartJob ==
    /\ bridge = Codec /\ job.at = "idle"
    /\ Goto("decode") /\ UNCHANGED bitmaps

(* A small picture is within the bounds of its thumbnail.                  *)
Decode ==
    /\ job.at = "decode"
    /\ \/ /\ Store(NewHandle)
          /\ \E small \in BOOLEAN :
                job' = [Tracked EXCEPT !.at = "resize", !.step = 1, !.small = small]
       \/ Fails

(* The first step of the ladder may be the size of the source, which is    *)
(* then encoded as it is.                                                  *)
Resize ==
    /\ job.at = "resize"
    /\ \/ job.step = 1 /\ Goto("encode") /\ UNCHANGED bitmaps
       \/ /\ Store(Scaled(FALSE))
          /\ job' = [Tracked EXCEPT !.at = "encode"]
       \/ Fails

(* The qualities of one step: small enough to stop, small enough to keep,  *)
(* or too large; past the last step what was kept is used, or nothing is.  *)
Encode ==
    /\ job.at = "encode"
    /\ \/ Goto("thumb")
       \/ \E fits \in BOOLEAN :
             LET kept == job.fits \/ fits
             IN  job' = [job EXCEPT !.fits = kept, !.step = @ + 1,
                           !.at = IF job.step < EdgeSteps THEN "resize"
                                  ELSE IF kept THEN "thumb" ELSE "release"]
       \/ Goto("release")
    /\ UNCHANGED bitmaps

Thumbnail ==
    /\ job.at = "thumb"
    /\ \/ /\ Store(Scaled(job.small))
          /\ job' = [Tracked EXCEPT !.at = "encodeThumb"]
       \/ Fails

EncodeThumbnail ==
    /\ job.at = "encodeThumb"
    /\ Goto("release") /\ UNCHANGED bitmaps

JobStep ==
    /\ StartJob \/ Decode \/ Resize \/ Encode \/ Thumbnail \/ EncodeThumbnail
    /\ UNCHANGED <<bridge, activityVars, recycled, badRelease>>

Without(h) == [g \in DOMAIN bitmaps \ {h} |-> bitmaps[g]]

StillNamed(S, map) == {b \in S : \E g \in DOMAIN map : map[g] = b}

(* releaseAll, in a `finally`: every handle once, a failure is swallowed.  *)
ReleaseHandle ==
    /\ job.at = "release" /\ job.tracked # {}
    /\ LET h == Least(job.tracked)
       IN  /\ job' = [job EXCEPT !.tracked = @ \ {h}]
           /\ \/ /\ bitmaps' = Without(h)
                 /\ recycled' = StillNamed(recycled \cup {bitmaps[h]}, Without(h))
                 /\ UNCHANGED badRelease
              \/ /\ badRelease < MaxBadRelease /\ badRelease' = badRelease + 1
                 /\ UNCHANGED <<bitmaps, recycled>>
    /\ UNCHANGED <<bridge, activityVars>>

AllReleased ==
    /\ job.at = "release" /\ job.tracked = {}
    /\ Goto("done")
    /\ UNCHANGED <<bridge, activityVars, bitmaps, recycled, badRelease>>

-----------------------------------------------------------------------------
BridgeNext ==
    \/ Install \/ NoActivity \/ LaunchActivity \/ LaunchFails
    \/ \E n \in CallIds : ActivityStep(n)
    \/ ReadPending \/ SwapAndSettle \/ TakePicked \/ ReadAllBytes \/ Invalidate
    \/ JobStep \/ ReleaseHandle \/ AllReleased

BridgeSpec == BridgeInit /\ [][BridgeNext]_bridgeVars

-----------------------------------------------------------------------------
(* Who still has to answer call n.                                         *)
Underway(n) ==
    \/ pending = n /\ (launching = n \/ activity[n].at \in {"asking", "scanning", "found", "finished"})
    \/ pending = n /\ swapping.call = n
    \/ \E r \in reading : r[1] = n

(* A scan is answered with what its own activity saw, however late an      *)
(* earlier one finishes (CempQrScannerModule.kt:33-41, 120-127); no        *)
(* promise is left that nobody will settle (CempQrScannerModule.kt:97-108, *)
(* 149-159, CempImagePickerModule.kt:47-60); a handle never names a        *)
(* recycled bitmap (CempImageCodecModule.kt:75-85), and a send leaves none *)
(* behind unless a release failed (handle-tracker.ts:66-76).               *)
BridgesKeepTheirPromises ==
    /\ bridge = Scanner =>
          \A n \in CallIds : answer[n].from # 0 => answer[n].from = n
    /\ \A n \in CallIds : answer[n].at = "open" => Underway(n)
    /\ \A h \in DOMAIN bitmaps : bitmaps[h] \notin recycled
    /\ job.at \in {"idle", "done"} /\ badRelease = 0 => DOMAIN bitmaps = {}
=============================================================================
