------------------------------- MODULE Capture -------------------------------
(***************************************************************************)
(* How the window of the native provider turns key events into messages    *)
(* (provider.py, "keyboard capture").  Events queue up behind one another  *)
(* and are handled one at a time, between timers.                          *)
(*                                                                         *)
(* X11 repeats a key that is held with a release and a press that carry    *)
(* the same time, so a release is held back for a while: a timer commits   *)
(* it, or an event that shows that it was real.  Windows repeats only the  *)
(* press, may report the release of a modifier for its sibling, and does   *)
(* not report the press of PrintScreen (SysRq).                            *)
(***************************************************************************)
EXTENDS Keyboard

CONSTANTS SysRq,
          Siblings, \* MODIFIER_SIBLING, as a set of pairs
          MaxMoves, \* bound on what the user and the network do, for each kind of provider
          MaxBehind \* bound on the events and messages behind which they go on

\* There are so many keys, and PrintScreen is one; variants of a modifier are
\* different keys, and variants of each other.
ASSUME CaptureAssumption == /\ IsFiniteSet(Codes) /\ SysRq \in Codes
                            /\ \A c, d \in Codes : <<c, d>> \in Siblings => c # d /\ <<d, c>> \in Siblings

VARIABLES
    front,   \* the window system; "web" stands for the page of module Pad
    moves,   \* how many times the user or the network has done something: the time
    user,    \* the keys the user holds, and whether the window has the focus
    xevents, \* the events the window has not handled
    cap      \* pressed, and pending_release as a set of pairs of a code and a time

capvars == <<user, xevents, cap>>

CapInit == /\ user = [hand |-> {}, focused |-> TRUE]
           /\ xevents = << >>
           /\ cap = [pressed |-> {}, pending |-> {}]

\* An event; of a press it is recorded which keys were held then, and that the
\* user made it.
Press(c, byHand) == [kind |-> "press", code |-> c, time |-> moves, byHand |-> byHand,
                     hand |-> user.hand]
Release(c) == [kind |-> "release", code |-> c, time |-> moves]
FocusOut == [kind |-> "focus_out"]

Moves == /\ moves < MaxMoves[front] /\ Len(xevents) + Len(wire) <= MaxBehind
         /\ moves' = moves + 1

-----------------------------------------------------------------------------
(* The user and the window system.                                         *)

\* The window system reports events to the window that has the focus.
Reports(events) == xevents' = IF user.focused THEN xevents \o events ELSE xevents

Unreported(c) == front = "win32" /\ c = SysRq

Strike(c) == /\ Moves
             /\ c \notin user.hand
             /\ user' = [user EXCEPT !.hand = @ \cup {c}]
             /\ Reports(IF Unreported(c) THEN << >> ELSE <<Press(c, TRUE)>>)

Repeat(c) == /\ Moves
             /\ c \in user.hand /\ user.focused /\ ~ Unreported(c)
             /\ Reports(IF front = "x11" THEN <<Release(c), Press(c, FALSE)>>
                        ELSE <<Press(c, FALSE)>>)
             /\ UNCHANGED user

Sibling(c) == {d \in Codes : <<c, d>> \in Siblings}

Lift(c) == /\ Moves
           /\ c \in user.hand
           /\ user' = [user EXCEPT !.hand = @ \ {c}]
           /\ \E d \in {c} \cup IF front = "win32" THEN Sibling(c) ELSE {} :
                 Reports(<<Release(d)>>)

ChangeFocus == /\ Moves
               /\ user' = [user EXCEPT !.focused = ~ @]
               /\ Reports(<<FocusOut>>)

UserMoves == /\ \/ \E c \in Codes : Strike(c) \/ Repeat(c) \/ Lift(c)
                \/ ChangeFocus
             /\ UNCHANGED <<kbvars, cap, front>>

-----------------------------------------------------------------------------
(* The window.                                                             *)

Ups(codes) == LET s == SetToSeq(codes) IN [i \in 1..Len(s) |-> KeyMsg(s[i], FALSE)]

\* _commit_release of some of the delayed releases, then msgs.
Commits(some, pressed, pending, msgs) ==
    LET ups == {q[1] : q \in some} \cap cap.pressed
    IN  /\ cap' = [pressed |-> pressed, pending |-> pending]
        /\ Say(Ups(ups) \o msgs)

\* mutant: a press is taken for a repetition whenever a release is pending
IsRepeatAnyway(e) == \E q \in cap.pending : q[1] = e.code

\* The press that belongs to the release held back.
IsRepeat(e) == <<e.code, e.time>> \in cap.pending

\* mutant: releases of other keys wait for their timers
FlushedNone(e) == {}

\* flush_releases: an event of another key shows that they were real.
Flushed(e) == {q \in cap.pending : q[1] # e.code}

OnKeyDown(e) ==
    LET some == IF IsRepeat(e) THEN Flushed(e)
                ELSE Flushed(e) \cup {q \in cap.pending : q[1] = e.code}
        held == cap.pressed \ {q[1] : q \in some}
        later == {q \in cap.pending : q[1] # e.code} \ some
    IN  \/ (IsRepeat(e) \/ e.code \in held) /\ Commits(some, held, later, << >>)
        \/ /\ ~ IsRepeat(e) /\ e.code \notin held
           /\ Commits(some, held \cup {e.code}, later, <<KeyMsg(e.code, TRUE)>>)

\* mutant: a release lifts only the key it is reported for
HeldVariantExact(c, pressed) == {c} \cap pressed

\* held_variant: the key a release lifts, the sibling if only that is pressed.
HeldVariant(c, pressed) == IF c \in pressed THEN {c} ELSE Sibling(c) \cap pressed

OnKeyUp(e) ==
    LET some == Flushed(e)
        left == cap.pressed \ {q[1] : q \in some}
        later == cap.pending \ some
        held == HeldVariant(e.code, left)
    IN  \/ /\ held = {}
           /\ Commits(some, left, later,
                      IF e.code = SysRq THEN <<KeyMsg(SysRq, TRUE), KeyMsg(SysRq, FALSE)>>
                      ELSE << >>)
        \/ /\ held # {} /\ front = "x11"
           /\ Commits(some, left,
                      later \cup {<<c, e.time>> : c \in held \ {q[1] : q \in later}}, << >>)
        \/ /\ held # {} /\ front # "x11"
           /\ Commits(some, left \ held, {q \in later : q[1] \notin held}, Ups(held))

OnFocusOut == Commits({}, {}, {}, <<ReleaseAll>>)

Handle == /\ xevents # << >>
          /\ xevents' = Tail(xevents)
          /\ LET e == Head(xevents)
             IN  \/ e.kind = "press" /\ OnKeyDown(e)
                 \/ e.kind = "release" /\ OnKeyUp(e)
                 \/ e.kind = "focus_out" /\ OnFocusOut
          /\ UNCHANGED <<live, kb, device, front, moves, user>>

\* The timer of a delayed release fires.
Timer == /\ \E q \in cap.pending : Commits({q}, cap.pressed \ {q[1]}, cap.pending \ {q}, << >>)
         /\ UNCHANGED <<live, kb, device, front, moves, user, xevents>>

\* The session starts, or ends with the connection or without; only a lost
\* connection makes the window forget what is pressed, and it never forgets the
\* releases that are pending.
SessionMoves == /\ Moves
                /\ \/ Starts /\ UNCHANGED cap
                   \/ Ends /\ cap' \in {cap, [cap EXCEPT !.pressed = {}]}
                /\ UNCHANGED <<front, user, xevents>>
=============================================================================
