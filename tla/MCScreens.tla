----------------------------- MODULE MCScreens -----------------------------
(***************************************************************************)
(* The publisher and, side by side with it, the screen that calls it and   *)
(* shows its rows, an image bubble, and the own profile with the screens   *)
(* that publish and hand it on.  A behaviour exercises one of the four,    *)
(* the others rest in their initial states: to the screen a call of the    *)
(* publisher is its effect on the row.                                     *)
(***************************************************************************)
EXTENDS Publication, ChatScreen, ImageBubble, OwnProfile, TLC

VARIABLE shown   \* what moves

ScreensInit ==
    /\ shown \in {"publisher", "chat", "bubble", "profile"}
    /\ Init /\ ChatInit /\ BubbleInit /\ OwnInit

Moves ==
    /\ UNCHANGED shown
    /\ IF shown = "publisher" THEN Next ELSE UNCHANGED vars
    /\ IF shown = "chat" THEN ChatNext ELSE UNCHANGED screenVars
    /\ IF shown = "bubble" THEN BubbleNext ELSE UNCHANGED bubbleVars
    /\ IF shown = "profile" THEN OwnNext ELSE UNCHANGED ownVars

screensVars == <<shown, vars, screenVars, bubbleVars, ownVars>>

(* The user may stop at any time; the publisher never gets stuck.          *)
Rests == shown # "publisher" /\ UNCHANGED screensVars

ScreensNext == Moves \/ Rests

(* Only safety is checked here, so no fairness is stated.                  *)
ScreensSpec == ScreensInit /\ [][ScreensNext]_screensVars

(* Two coins of the wallet are interchangeable: nothing in the code and no *)
(* property tells them apart.                                              *)
Symmetry == Permutations(Coins)

(* The conversation's screen keeps what its drawings and buttons promise:  *)
(* a message on its way is called failed only by an outdated tap, a text   *)
(* is sent once (chat-screen.tsx:243-323), and an image is called gone     *)
(* only when the node said so (image-bubble.ts:1-13). The card that is     *)
(* shown is one this device listens to (messaging.ts:315-431).             *)
ScreensTellTheTruth ==
    /\ ChatTypeOK /\ BubbleTypeOK /\ OwnTypeOK
    /\ ChatKeepsItsWord /\ BubbleIsTruthful /\ ProfileIsOne
=============================================================================
