------------------------------ MODULE MCTyping ------------------------------
(***************************************************************************)
(* A keyboard of two shifts, a key and PrintScreen for TLC.                *)
(***************************************************************************)
EXTENDS Typing

CONSTANTS ls, rs, k, sq, b1, b2, lower, upper, foreign

MCCharMap == (lower :> [code |-> k, shift |-> FALSE]) @@ (upper :> [code |-> k, shift |-> TRUE])

MCSiblings == {<<ls, rs>>, <<rs, ls>>}

\* the names of two keys; those on the buttons for sticky modifiers are no names
MCJsToCode == [Enter |-> k, ShiftLeft |-> ls]

MCButtons == {"Enter"}
MCModifiers == {"LEFTSHIFT"}

MCTexts == {<<upper, foreign, lower>>, <<foreign>>}

MCMoves == [f \in Fronts |-> IF f = "web" THEN 6 ELSE 5]

\* What goes wrong when both variants of a modifier are held is said in the README.
\* PrintScreen is a key like any other on X11.
UsualHands == OneVariant' /\ (front = "x11" => sq \notin user'.hand)
=============================================================================
