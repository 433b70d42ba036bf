---------------------------- MODULE TypingProofs ----------------------------
(***************************************************************************)
(* Module Typing: the device of a receiver follows what its Keyboard has   *)
(* marked, whatever is sent to it and whatever text is typed in between;   *)
(* everything keeps its type; text keeps its order; strikes are typed.     *)
(***************************************************************************)
EXTENDS Typing, FiniteSetTheorems, FunctionTheorems, SequenceTheorems, TLAPS

\* The marks and the text are all there is to a Keyboard.
Marks == kb = [down |-> kb.down, text |-> kb.text]

Follows == Marks /\ DeviceFollows

\* A key is marked before it goes down on the device, and both come up together.
LEMMA KeyFollows ==
    ASSUME Follows, NEW c, NEW d, OnKey(c, d)
    PROVE  Follows'
<1>1. CASE UNCHANGED <<kb, device>>
  BY <1>1 DEF Follows, Marks, DeviceFollows
<1>2. CASE d /\ kb' = [kb EXCEPT !.down = @ \cup {c}] /\ device' = device \cup {c}
  <2>1. kb' = [down |-> kb.down \cup {c}, text |-> kb.text]
    BY <1>2 DEF Follows, Marks
  <2> QED
    BY <1>2, <2>1 DEF Follows, Marks, DeviceFollows
<1>3. CASE ~ d /\ kb' = [kb EXCEPT !.down = @ \ {c}] /\ device' = device \ {c}
  <2>1. kb' = [down |-> kb.down \ {c}, text |-> kb.text]
    BY <1>3 DEF Follows, Marks
  <2> QED
    BY <1>3, <2>1 DEF Follows, Marks, DeviceFollows
<1> QED
  BY <1>1, <1>2, <1>3 DEF OnKey

\* What type_text does to the device touches no shift key that is held: text
\* changes no marks.
LEMMA TextFollows ==
    ASSUME Follows, TypeNext
    PROVE  Follows'
<1>1. PICK t : kb' = [down |-> kb.down, text |-> t]
  BY DEF TypeNext, Follows, Marks
<1>2. CASE UNCHANGED device
  BY <1>1, <1>2 DEF Follows, Marks, DeviceFollows
<1>3. ASSUME NEW ch \in DOMAIN CharMap, device' = Tapped(CharMap[ch].code, CharMap[ch].shift)
      PROVE  Follows'
  <2>1. device' \subseteq device
    BY <1>3 DEF Tapped
  <2>2. ASSUME NEW c \in ShiftKeys
        PROVE  c \in device' <=> c \in kb.down
    <3>1. c # CharMap[ch].code
      BY <2>2, KeyboardAssumption
    <3>2. c \in device <=> c \in kb.down
      BY <2>2 DEF Follows, DeviceFollows
    <3>3. CASE kb.down \cap ShiftKeys = {}
      BY <2>1, <2>2, <3>2, <3>3
    <3>4. CASE kb.down \cap ShiftKeys # {}
      BY <1>3, <3>1, <3>2, <3>4 DEF Tapped
    <3> QED
      BY <3>3, <3>4
  <2> QED
    BY <1>1, <2>1, <2>2 DEF Follows, Marks, DeviceFollows
<1> QED
  BY <1>2, <1>3 DEF TypeNext

\* Whatever message the receiver handles.
LEMMA ReceiveFollows ==
    ASSUME Follows, Receive
    PROVE  Follows'
<1>1. ASSUME NEW s, OnText(s)
      PROVE  Follows'
  <2>1. kb' = [down |-> kb.down, text |-> [NoText EXCEPT !.whole = s, !.rest = s]]
    BY <1>1 DEF OnText, Follows, Marks
  <2> QED
    BY <1>1, <2>1 DEF OnText, Follows, Marks, DeviceFollows
<1>2. CASE OnReleaseAll
  <2>1. kb' = [down |-> {}, text |-> kb.text] /\ device' = {}
    BY <1>2 DEF OnReleaseAll, Follows, Marks, DeviceFollows
  <2> QED
    BY <2>1 DEF Follows, Marks, DeviceFollows
<1> QED
  BY <1>1, <1>2, KeyFollows DEF Receive

\* The device holds nothing that a release_all would forget, and no shift too many
\* or too few, whatever text is typed with whatever keys held (receiver.py,
\* Keyboard.key, release_all and type_text).
THEOREM DeviceFollowsMarks == TypingSpec => []DeviceFollows
<1>1. TypingInit => Follows
  BY DEF TypingInit, KbInit, Follows, Marks, DeviceFollows
<1>2. ASSUME Follows, [TypingNext]_typingvars
      PROVE  Follows'
  <2>1. CASE UNCHANGED <<kb, device>>
    BY <1>2, <2>1 DEF Follows, Marks, DeviceFollows
  <2>2. CASE Receive \/ TypeNext
    BY <1>2, <2>2, ReceiveFollows, TextFollows
  <2>3. CASE Native /\ (UserMoves \/ SessionMoves)
    BY <2>1, <2>3 DEF UserMoves, SessionMoves, Starts, Ends, kbvars
  <2>4. CASE WindowHandles \/ WindowTimer
    BY <2>1, <2>4 DEF WindowHandles, WindowTimer, Handle, Timer
  <2>5. CASE Web /\ (PageMoves \/ GatewaySessionMoves)
    BY <2>1, <2>5 DEF PageMoves, GatewaySessionMoves, Starts, Ends
  <2>6. CASE HandlerStep
    BY <2>1, <2>6 DEF HandlerStep
  <2>7. CASE UNCHANGED typingvars
    BY <2>1, <2>7 DEF typingvars, kbvars
  <2> QED
    BY <1>2, <2>2, <2>3, <2>4, <2>5, <2>6, <2>7 DEF TypingNext, KeyboardStep
<1>3. Follows => DeviceFollows
  BY DEF Follows
<1> QED
  BY <1>1, <1>2, <1>3, PTL DEF TypingSpec

-----------------------------------------------------------------------------
(* Types.                                                                  *)

Msg == {ReleaseAll} \cup {TextMsg(s) : s \in Texts} \cup {KeyMsg(c, d) : c \in Codes, d \in BOOLEAN}

TextState == [whole : Seq(Characters), out : Seq(Characters), other : Seq(Characters), rest : Seq(Characters),
              lost : SUBSET Nat]

Times(f) == 0..MaxMoves[f]

Event(f) == [kind : {"press"}, code : Codes, time : Times(f), byHand : BOOLEAN, hand : SUBSET Codes]
            \cup [kind : {"release"}, code : Codes, time : Times(f)]
            \cup {FocusOut}

PageType == [open : BOOLEAN, socket : BOOLEAN, focused : BOOLEAN,
             keys : SUBSET DOMAIN JsToCode, sticky : SUBSET Modifiers]

\* The receiver, the window and the pages.
KbTypes == /\ live \in BOOLEAN /\ wire \in Seq(Msg)
           /\ kb \in [down : SUBSET Codes, text : TextState]
           /\ device \in SUBSET Codes

CapTypes == /\ front \in Fronts /\ moves \in Times(front)
            /\ user \in [hand : SUBSET Codes, focused : BOOLEAN]
            /\ xevents \in Seq(Event(front))
            /\ cap \in [pressed : SUBSET Codes, pending : SUBSET (Codes \X Times(front))]

PadTypes == /\ page \in [Browsers -> PageType]
            /\ handlers \in [Browsers -> 0..MaxHandlers]

Types == KbTypes /\ CapTypes /\ PadTypes

\* A finite set in some order.
LEMMA InSomeOrder ==
    ASSUME NEW S, IsFiniteSet(S)
    PROVE  SetToSeq(S) \in Seq(S)
<1>1. Cardinality(S) \in Nat /\ ExistsBijection(1..Cardinality(S), S)
  BY FS_CardinalityType
<1>2. \E f \in [1..Cardinality(S) -> S] : IsInjective(f)
  BY <1>1, Zenon DEF ExistsBijection, Bijection, Injection
<1>3. SetToSeq(S) \in [1..Cardinality(S) -> S]
  BY <1>2 DEF SetToSeq
<1> QED
  BY <1>1, <1>3

\* Sequences of one and of two.
LEMMA Single == \A S : \A x \in S : <<x>> \in Seq(S)
OBVIOUS

LEMMA Double == \A S : \A x \in S, y \in S : <<x, y>> \in Seq(S)
OBVIOUS

LEMMA MsgTypes ==
    /\ ReleaseAll \in Msg
    /\ \A s \in Texts : TextMsg(s) \in Msg
    /\ \A c \in Codes, d \in BOOLEAN : KeyMsg(c, d) \in Msg
BY DEF Msg

\* Messages that lift keys.
LEMMA UpsTypes ==
    ASSUME NEW codes \in SUBSET Codes
    PROVE  Ups(codes) \in Seq(Msg)
<1> DEFINE s == SetToSeq(codes)
<1>1. IsFiniteSet(codes)
  BY CaptureAssumption, FS_Subset
<1>2. s \in Seq(codes)
  BY <1>1, InSomeOrder
<1> HIDE DEF s
<1>3. Len(s) \in Nat /\ \A i \in 1..Len(s) : s[i] \in Codes
  BY <1>2
<1>4. \A i \in 1..Len(s) : KeyMsg(s[i], FALSE) \in Msg
  BY <1>3, MsgTypes
<1> DEFINE f == [i \in 1..Len(s) |-> KeyMsg(s[i], FALSE)]
<1>5. f \in [1..Len(s) -> Msg]
  BY <1>4
<1> HIDE DEF f
<1>6. f \in Seq(Msg)
  BY <1>3, <1>5, SeqDef
<1> QED
  BY <1>6 DEF Ups, s, f

LEMMA StickyTypes ==
    ASSUME PadTypes, NEW b \in Browsers
    PROVE  StickyUp(b) \in Seq(Msg)
<1> DEFINE names == page[b].sticky \cap DOMAIN JsToCode
           s == SetToSeq(names)
<1>1. IsFiniteSet(names)
  BY PadAssumption, FS_Subset DEF PadTypes, PageType
<1>2. s \in Seq(names)
  BY <1>1, InSomeOrder
<1> HIDE DEF s
<1>3. Len(s) \in Nat /\ \A i \in 1..Len(s) : s[i] \in DOMAIN JsToCode
  BY <1>2
<1>4. \A i \in 1..Len(s) : KeyMsg(JsToCode[s[i]], FALSE) \in Msg
  BY <1>3, MsgTypes, PadAssumption
<1> DEFINE f == [i \in 1..Len(s) |-> KeyMsg(JsToCode[s[i]], FALSE)]
<1>5. f \in [1..Len(s) -> Msg]
  BY <1>4
<1> HIDE DEF f
<1>6. f \in Seq(Msg)
  BY <1>3, <1>5, SeqDef
<1> QED
  BY <1>6 DEF StickyUp, s, f

LEMMA KeyTypes ==
    ASSUME NEW js, NEW d \in BOOLEAN
    PROVE  Key(js, d) \in Seq(Msg)
<1>1. CASE js \in DOMAIN JsToCode
  BY <1>1, MsgTypes, PadAssumption DEF Key
<1>2. CASE js \notin DOMAIN JsToCode
  BY <1>2 DEF Key
<1> QED
  BY <1>1, <1>2

\* What is said to the receiver, if there is a session.
LEMMA SayTypes ==
    ASSUME wire \in Seq(Msg), NEW ms \in Seq(Msg), Say(ms)
    PROVE  wire' \in Seq(Msg)
BY DEF Say

LEMMA SendsTypes ==
    ASSUME wire \in Seq(Msg), NEW b, NEW ms \in Seq(Msg), Sends(b, ms)
    PROVE  wire' \in Seq(Msg)
BY SayTypes DEF Sends

\* Sessions start and end.
LEMMA LiveTypes ==
    ASSUME KbTypes, Starts \/ Ends
    PROVE  KbTypes'
<1>1. wire' \in Seq(Msg)
  <2>1. CASE Starts
    BY <2>1, MsgTypes DEF Starts, KbTypes
  <2>2. CASE Ends
    <3>1. PICK k \in 0..Len(wire) : wire' = Append(SubSeq(wire, 1, k), ReleaseAll)
      BY <2>2 DEF Ends
    <3>2. SubSeq(wire, 1, k) \in Seq(Msg)
      BY <3>1 DEF KbTypes
    <3> QED
      BY <3>1, <3>2, MsgTypes
  <2> QED
    BY <2>1, <2>2
<1> QED
  BY <1>1 DEF Starts, Ends, KbTypes

\* The receiver reads on.
LEMMA ReceiveTypes ==
    ASSUME KbTypes, Receive
    PROVE  KbTypes'
<1>1. /\ wire # << >> /\ wire' = Tail(wire) /\ live' = live
      /\ wire \in Seq(Msg) /\ Head(wire) \in Msg /\ Tail(wire) \in Seq(Msg)
  BY DEF Receive, KbTypes
<1>2. CASE Head(wire).type = "key" /\ OnKey(Head(wire).code, Head(wire).down)
  <2>1. Head(wire).code \in Codes /\ Head(wire).down \in BOOLEAN
    BY <1>1, <1>2 DEF Msg, KeyMsg, TextMsg, ReleaseAll
  <2> QED
    BY <1>1, <1>2, <2>1 DEF OnKey, KbTypes
<1>3. CASE Head(wire).type = "text" /\ OnText(Head(wire).text)
  <2>1. Head(wire).text \in Seq(Characters)
    BY <1>1, <1>3, PadAssumption DEF Msg, KeyMsg, TextMsg, ReleaseAll
  <2>2. << >> \in Seq(Characters)
    OBVIOUS
  <2>3. [NoText EXCEPT !.whole = Head(wire).text, !.rest = Head(wire).text] \in TextState
    BY <2>1, <2>2, Zenon DEF NoText, TextState
  <2> QED
    BY <1>1, <1>3, <2>3 DEF OnText, KbTypes
<1>4. CASE OnReleaseAll
  BY <1>1, <1>4 DEF OnReleaseAll, KbTypes
<1> QED
  BY <1>2, <1>3, <1>4 DEF Receive

\* A change of two fields of the text.
LEMMA Parted ==
    ASSUME KbTypes
    PROVE  /\ \A v : [kb EXCEPT !.text = v] = [down |-> kb.down, text |-> v]
           /\ \A x, y :
              /\ [kb EXCEPT !.text.out = x, !.text.rest = y] = [kb EXCEPT !.text = [kb.text EXCEPT !.out = x, !.rest = y]]
              /\ [kb EXCEPT !.text.other = x, !.text.rest = y] = [kb EXCEPT !.text = [kb.text EXCEPT !.other = x, !.rest = y]]
<1>1. kb = [down |-> kb.down, text |-> kb.text]
  BY DEF KbTypes
<1>2. \A v : [kb EXCEPT !.text = v] = [down |-> kb.down, text |-> v]
  BY <1>1
<1>3. ASSUME NEW x, NEW y
      PROVE  /\ [kb EXCEPT !.text.out = x, !.text.rest = y] = [kb EXCEPT !.text = [kb.text EXCEPT !.out = x, !.rest = y]]
             /\ [kb EXCEPT !.text.other = x, !.text.rest = y] = [kb EXCEPT !.text = [kb.text EXCEPT !.other = x, !.rest = y]]
  BY <1>1
<1> QED
  BY <1>2, <1>3

\* An element passes from the front of one sequence to the end of the one before.
LEMMA Passed ==
    ASSUME NEW S, NEW a \in Seq(S), NEW b \in Seq(S), b # << >>
    PROVE  Append(a, Head(b)) \o Tail(b) = a \o b
<1> DEFINE l == Append(a, Head(b)) \o Tail(b)
           r == a \o b
<1>1. /\ Head(b) \in S /\ Tail(b) \in Seq(S) /\ Len(Tail(b)) = Len(b) - 1 /\ Len(b) \in Nat \ {0}
      /\ \A i \in 1..Len(Tail(b)) : Tail(b)[i] = b[i + 1]
      /\ Head(b) = b[1]
  BY HeadTailProperties, EmptySeq
<1>2. /\ Append(a, Head(b)) \in Seq(S) /\ Len(Append(a, Head(b))) = Len(a) + 1 /\ Len(a) \in Nat
      /\ \A i \in 1..Len(a) : Append(a, Head(b))[i] = a[i]
      /\ Append(a, Head(b))[Len(a) + 1] = b[1]
  BY <1>1, AppendProperties, LenProperties
<1>3. /\ l \in Seq(S) /\ Len(l) = Len(a) + Len(b)
      /\ \A i \in 1..(Len(a) + Len(b)) :
            l[i] = IF i <= Len(a) + 1 THEN Append(a, Head(b))[i] ELSE Tail(b)[i - (Len(a) + 1)]
  BY <1>1, <1>2, ConcatProperties
<1>4. /\ r \in Seq(S) /\ Len(r) = Len(a) + Len(b)
      /\ \A i \in 1..(Len(a) + Len(b)) : r[i] = IF i <= Len(a) THEN a[i] ELSE b[i - Len(a)]
  BY ConcatProperties
<1>5. \A i \in 1..Len(l) : l[i] = r[i]
  <2> SUFFICES ASSUME NEW i \in 1..(Len(a) + Len(b))
               PROVE  l[i] = r[i]
    BY <1>3
  <2>1. CASE i <= Len(a)
    BY <2>1, <1>2, <1>3, <1>4
  <2>2. CASE i = Len(a) + 1
    <3>1. r[i] = b[1]
      BY <2>2, <1>1, <1>2, <1>4
    <3>2. l[i] = b[1]
      BY <2>2, <1>2, <1>3
    <3> QED
      BY <3>1, <3>2
  <2>3. CASE i > Len(a) + 1
    <3>1. i - (Len(a) + 1) \in 1..Len(Tail(b)) /\ i - (Len(a) + 1) + 1 = i - Len(a)
      BY <2>3, <1>1, <1>2
    <3>2. l[i] = Tail(b)[i - (Len(a) + 1)] /\ r[i] = b[i - Len(a)]
      BY <2>3, <1>2, <1>3, <1>4
    <3> QED
      BY <3>1, <3>2, <1>1
  <2> QED
    BY <2>1, <2>2, <2>3, <1>2
<1> HIDE DEF l, r
<1>6. l = r
  BY <1>3, <1>4, <1>5, SeqEqual
<1> QED
  BY <1>6 DEF l, r

\* No character of the text s has a key.
Keyless(s) == \A i \in 1..Len(s) : s[i] \notin DOMAIN CharMap

\* What is lost of the text s has no key.
LosesKeyless(s, lost) == \A i \in lost : i \in 1..Len(s) /\ s[i] \notin DOMAIN CharMap

\* More of the text comes out, or is lost if it has no keys.
LEMMA MoreComesOut ==
    ASSUME NEW s \in Seq(Characters), NEW more \in Seq(Characters), NEW lost, LosesKeyless(s, lost)
    PROVE  /\ LosesKeyless(s \o more, lost)
           /\ Keyless(more) => LosesKeyless(s \o more, lost \cup ((Len(s) + 1)..(Len(s) + Len(more))))
<1>1. /\ Len(s) \in Nat /\ Len(more) \in Nat /\ Len(s \o more) = Len(s) + Len(more)
      /\ \A i \in 1..(Len(s) + Len(more)) : (s \o more)[i] = IF i <= Len(s) THEN s[i] ELSE more[i - Len(s)]
  BY ConcatProperties, LenProperties
<1>2. ASSUME NEW i \in lost
      PROVE  i \in 1..Len(s \o more) /\ (s \o more)[i] \notin DOMAIN CharMap
  <2>1. i \in 1..Len(s) /\ s[i] \notin DOMAIN CharMap
    BY <1>2 DEF LosesKeyless
  <2> QED
    BY <1>1, <2>1
<1>3. ASSUME Keyless(more), NEW i \in (Len(s) + 1)..(Len(s) + Len(more))
      PROVE  i \in 1..Len(s \o more) /\ (s \o more)[i] \notin DOMAIN CharMap
  <2>1. i - Len(s) \in 1..Len(more) /\ i \in 1..(Len(s) + Len(more)) /\ ~ i <= Len(s)
    BY <1>1
  <2>2. more[i - Len(s)] \notin DOMAIN CharMap
    BY <1>3, <2>1 DEF Keyless
  <2> QED
    BY <1>1, <2>1, <2>2
<1> QED
  BY <1>2, <1>3 DEF LosesKeyless

\* What waits for the helper has no keys, which is why only that is lost.
TextKept == TextInOrder /\ Keyless(kb.text.other)

\* Three parts of a text may be put together in either order.
LEMMA Regrouped ==
    ASSUME NEW x \in Seq(Characters), NEW y \in Seq(Characters), NEW z \in Seq(Characters)
    PROVE  (x \o y) \o z = x \o (y \o z)
BY ConcatAssociative

\* The receiver types on: what it does next with the text leaves its order alone,
\* since the helper is called before the next character that has a key.
LEMMA TypeNextTypes ==
    ASSUME KbTypes, TypeNext
    PROVE  KbTypes' /\ (TextKept => TextKept')
<1> DEFINE t == kb.text
<1>1. t \in TextState /\ kb \in [down : SUBSET Codes, text : TextState] /\ UNCHANGED <<live, wire>>
  BY DEF KbTypes, TypeNext
<1> DEFINE Kb(out, other, rest, lost) ==
             [down |-> kb.down,
              text |-> [whole |-> t.whole, out |-> out, other |-> other, rest |-> rest, lost |-> lost]]
<1>2. ASSUME NEW out \in Seq(Characters), NEW other \in Seq(Characters), NEW rest \in Seq(Characters),
             NEW lost \in SUBSET Nat,
             kb' = Kb(out, other, rest, lost), device' \in SUBSET Codes,
             out \o other \o rest = t.out \o t.other \o t.rest,
             Keyless(t.other) /\ LosesKeyless(t.out, t.lost) => Keyless(other) /\ LosesKeyless(out, lost)
      PROVE  KbTypes' /\ (TextKept => TextKept')
  <2>1. KbTypes'
    BY <1>1, <1>2 DEF KbTypes, TextState
  <2>2. /\ kb'.text.whole = t.whole /\ kb'.text.out = out /\ kb'.text.other = other
        /\ kb'.text.rest = rest /\ kb'.text.lost = lost
    BY <1>2
  <2>3. TextKept' <=> /\ t.whole = out \o other \o rest
                      /\ LosesKeyless(out, lost) /\ Keyless(other)
    BY <2>2 DEF TextKept, TextInOrder, Keyless, LosesKeyless
  <2>4. TextKept <=> /\ t.whole = t.out \o t.other \o t.rest
                     /\ LosesKeyless(t.out, t.lost) /\ Keyless(t.other)
    BY DEF TextKept, TextInOrder, LosesKeyless
  <2> QED
    BY <1>2, <2>1, <2>3, <2>4
<1>3. /\ kb = Kb(t.out, t.other, t.rest, t.lost) /\ device \in SUBSET Codes
      /\ t.lost \in SUBSET Nat
  BY <1>1 DEF KbTypes, TextState
<1>4. /\ t.out \in Seq(Characters) /\ t.other \in Seq(Characters) /\ t.rest \in Seq(Characters)
      /\ << >> \in Seq(Characters) /\ t.out \o t.other \in Seq(Characters)
      /\ t.rest # << >> => /\ Tail(t.rest) \in Seq(Characters)
                           /\ Append(t.other, Head(t.rest)) \in Seq(Characters)
                           /\ Append(t.out, Head(t.rest)) \in Seq(Characters)
  BY <1>1 DEF TextState
<1>5. CASE (\/ kb' = [kb EXCEPT !.text = Helped(t)] \/ kb' = [kb EXCEPT !.text = Unhelped(t)]) /\ UNCHANGED device
  <2> DEFINE more == (Len(t.out) + 1)..(Len(t.out) + Len(t.other))
  <2>1. PICK lost \in {t.lost, t.lost \cup more} : kb' = Kb(t.out \o t.other, << >>, t.rest, lost)
    <3> DEFINE with(lost) == [whole |-> t.whole, out |-> t.out \o t.other, other |-> << >>,
                             rest |-> t.rest, lost |-> lost]
    <3>0. Helped(t) = with(t.lost)
      <4>1. PICK o : o = t.out \o t.other
        OBVIOUS
      <4>2. t = [whole |-> t.whole, out |-> t.out, other |-> t.other, rest |-> t.rest, lost |-> t.lost]
        BY <1>1 DEF TextState
      <4>3. Helped(t) = [t EXCEPT !.out = o, !.other = << >>]
        BY <4>1, <4>2, Zenon DEF Helped
      <4> QED
        BY <4>1, <4>2, <4>3
    <3>1. /\ Helped(t) = with(t.lost)
          /\ Unhelped(t) = with(t.lost \cup more)
      <4> HIDE DEF more
      <4>1. Unhelped(t) = [with(t.lost) EXCEPT !.lost = @ \cup more]
        BY <3>0 DEF Unhelped, more
      <4> QED
        BY <3>0, <4>1
    <3>2. kb' = [down |-> kb.down, text |-> Helped(t)] \/ kb' = [down |-> kb.down, text |-> Unhelped(t)]
      BY <1>5, Parted
    <3> QED
      BY <3>1, <3>2
  <2>2. (t.out \o t.other) \o << >> \o t.rest = t.out \o t.other \o t.rest
    BY <1>4, ConcatEmptySeq
  <2>3. more \in SUBSET Nat /\ Keyless(<< >>)
    <3>1. Len(t.out) \in Nat /\ Len(t.other) \in Nat
      BY <1>4, LenProperties
    <3>2. \A m \in Nat, n \in Nat : (m + 1)..(m + n) \in SUBSET Nat
      OBVIOUS
    <3>3. Len(<< >>) = 0 /\ 1..0 = {}
      OBVIOUS
    <3> QED
      BY <3>1, <3>2, <3>3 DEF Keyless
  <2>4. Keyless(t.other) /\ LosesKeyless(t.out, t.lost) => LosesKeyless(t.out \o t.other, lost)
    BY <1>4, <2>1, MoreComesOut
  <2>5. lost \in SUBSET Nat
    BY <1>3, <2>1, <2>3
  <2> QED
    BY <1>2, <1>3, <1>4, <1>5, <2>1, <2>2, <2>3, <2>4, <2>5
<1>6. CASE /\ t.rest # << >> /\ Head(t.rest) \notin DOMAIN CharMap
           /\ kb' = [kb EXCEPT !.text.other = Append(@, Head(t.rest)), !.text.rest = Tail(@)]
           /\ UNCHANGED device
  <2>0. kb' = [kb EXCEPT !.text.other = Append(t.other, Head(t.rest)), !.text.rest = Tail(t.rest)]
    BY <1>1, <1>3, <1>6
  <2>1. kb' = [down |-> kb.down, text |-> [t EXCEPT !.other = Append(t.other, Head(t.rest)), !.rest = Tail(t.rest)]]
    <3>1. kb' = [kb EXCEPT !.text = [t EXCEPT !.other = Append(t.other, Head(t.rest)), !.rest = Tail(t.rest)]]
      BY <2>0, Parted
    <3> QED
      BY <3>1, Parted
  <2>2. kb' = Kb(t.out, Append(t.other, Head(t.rest)), Tail(t.rest), t.lost)
    BY <2>1, <1>1 DEF TextState
  <2>3. t.out \o Append(t.other, Head(t.rest)) \o Tail(t.rest) = t.out \o t.other \o t.rest
    <3>1. PICK a \in Seq(Characters), b \in Seq(Characters), c \in Seq(Characters) : a = t.out /\ b = t.other /\ c = t.rest
      BY <1>4
    <3>2. c # << >>
      BY <1>6, <3>1
    <3>3. a \o Append(b, Head(c)) \o Tail(c) = a \o b \o c
      <4>1. Append(b, Head(c)) \o Tail(c) = b \o c
        BY <3>2, Passed
      <4>2. PICK p \in Seq(Characters), u \in Seq(Characters) : p = Append(b, Head(c)) /\ u = Tail(c)
        BY <3>2, AppendProperties, HeadTailProperties
      <4>3. (a \o p) \o u = a \o (p \o u)
        BY Regrouped, Zenon
      <4>4. (a \o b) \o c = a \o (b \o c)
        BY Regrouped, Zenon
      <4> QED
        BY <4>1, <4>2, <4>3, <4>4
    <3> QED
      BY <3>1, <3>3
  <2>4. Keyless(t.other) => Keyless(Append(t.other, Head(t.rest)))
    BY <1>4, <1>6 DEF Keyless
  <2>5. device' \in SUBSET Codes
    BY <1>3, <1>6
  <2> HIDE DEF Kb
  <2> QED
    BY <1>2, <1>3, <1>4, <1>6, <2>2, <2>3, <2>4, <2>5, ZenonT(40)
<1>7. CASE /\ t.rest # << >> /\ t.other = << >>
           /\ kb' = [kb EXCEPT !.text.out = Append(@, Head(t.rest)), !.text.rest = Tail(@)]
           /\ device' = Tapped(CharMap[Head(t.rest)].code, CharMap[Head(t.rest)].shift)
  <2>0. kb' = [kb EXCEPT !.text.out = Append(t.out, Head(t.rest)), !.text.rest = Tail(t.rest)]
    BY <1>1, <1>3, <1>7
  <2>1. kb' = [down |-> kb.down, text |-> [t EXCEPT !.out = Append(t.out, Head(t.rest)), !.rest = Tail(t.rest)]]
    <3>1. kb' = [kb EXCEPT !.text = [t EXCEPT !.out = Append(t.out, Head(t.rest)), !.rest = Tail(t.rest)]]
      BY <2>0, Parted
    <3> QED
      BY <3>1, Parted
  <2>2. kb' = Kb(Append(t.out, Head(t.rest)), t.other, Tail(t.rest), t.lost)
    BY <2>1, <1>1 DEF TextState
  <2>3. Append(t.out, Head(t.rest)) \o t.other \o Tail(t.rest) = t.out \o t.other \o t.rest
    <3>1. PICK a \in Seq(Characters), b \in Seq(Characters), c \in Seq(Characters) : a = t.out /\ b = t.other /\ c = t.rest
      BY <1>4
    <3>2. c # << >> /\ b = << >>
      BY <1>7, <3>1
    <3>3. Append(a, Head(c)) \o b \o Tail(c) = a \o b \o c
      <4>1. Append(a, Head(c)) \o Tail(c) = a \o c
        BY <3>2, Passed
      <4>2. PICK q \in Seq(Characters) : q = Append(a, Head(c))
        BY <3>2, AppendProperties, HeadTailProperties
      <4>3. q \o << >> = q /\ a \o << >> = a
        BY ConcatEmptySeq
      <4> QED
        BY <3>2, <4>1, <4>2, <4>3
    <3> QED
      BY <3>1, <3>3
  <2>4. LosesKeyless(t.out, t.lost) => LosesKeyless(Append(t.out, Head(t.rest)), t.lost)
    BY <1>4, <1>7 DEF LosesKeyless
  <2>5. device' \in SUBSET Codes
    BY <1>3, <1>7 DEF Tapped
  <2> HIDE DEF Kb
  <2> QED
    BY <1>2, <1>3, <1>4, <1>7, <2>2, <2>3, <2>4, <2>5, ZenonT(40)
<1> QED
  BY <1>5, <1>6, <1>7 DEF TypeNext, HelperNext

\* A text that has just arrived is all still to be typed.
LEMMA ReceiveText ==
    ASSUME KbTypes, Receive, TextKept
    PROVE  TextKept'
<1>1. CASE kb'.text = kb.text
  BY <1>1 DEF TextKept, TextInOrder, Keyless
<1>2. CASE Head(wire).type = "text" /\ OnText(Head(wire).text)
  <2>1. wire \in Seq(Msg) /\ wire # << >>
    BY DEF KbTypes, Receive
  <2>2. Head(wire) \in Msg
    BY <2>1
  <2>3. Head(wire).text \in Seq(Characters)
    BY <1>2, <2>2, PadAssumption DEF Msg, KeyMsg, TextMsg, ReleaseAll
  <2>4. PICK s \in Seq(Characters) : OnText(s)
    BY <1>2, <2>3
  <2>5. kb'.text = [whole |-> s, out |-> << >>, other |-> << >>, rest |-> s, lost |-> {}]
    BY <2>4 DEF OnText, KbTypes, NoText
  <2>6. << >> \o << >> \o s = s
    BY ConcatEmptySeq, EmptySeq
  <2> QED
    BY <2>5, <2>6 DEF TextKept, TextInOrder, Keyless
<1>3. CASE OnReleaseAll
  BY <1>1, <1>3 DEF OnReleaseAll, KbTypes
<1>4. ASSUME NEW c, NEW d, OnKey(c, d)
      PROVE  TextKept'
  BY <1>1, <1>4 DEF OnKey, KbTypes
<1> QED
  BY <1>2, <1>3, <1>4 DEF Receive

\* What the user does is reported to the window, or not.
LEMMA ReportsTypes ==
    ASSUME CapTypes, NEW es \in Seq(Event(front)), Reports(es)
    PROVE  xevents' \in Seq(Event(front))
BY DEF Reports, CapTypes

LEMMA EventTypes ==
    ASSUME CapTypes
    PROVE  /\ \A c \in Codes, h \in BOOLEAN : Press(c, h) \in Event(front)
           /\ \A c \in Codes : Release(c) \in Event(front)
           /\ FocusOut \in Event(front)
BY DEF CapTypes, Event, Press, Release, Times

LEMMA MovesTypes ==
    ASSUME CapTypes, Moves
    PROVE  moves' \in Times(front)
<1>1. front \in Fronts /\ moves \in 0..MaxMoves[front] /\ MaxMoves[front] \in Nat
  BY TypingAssumption DEF CapTypes, Times
<1> QED
  BY <1>1 DEF Moves, Times

LEMMA UserTypes ==
    ASSUME CapTypes, UserMoves
    PROVE  CapTypes'
<1>1. moves' \in Times(front) /\ front' = front /\ cap' = cap
  BY MovesTypes DEF UserMoves, Strike, Repeat, Lift, ChangeFocus
<1>2. xevents' \in Seq(Event(front)) /\ user' \in [hand : SUBSET Codes, focused : BOOLEAN]
  <2>1. ASSUME NEW c \in Codes, Strike(c)
        PROVE  <1>2
    <3>1. Press(c, TRUE) \in Event(front)
      BY EventTypes, Zenon
    <3>2. <<Press(c, TRUE)>> \in Seq(Event(front))
      BY <3>1, Single, Zenon
    <3>3. PICK es \in Seq(Event(front)) : Reports(es)
      BY <2>1, <3>2, EmptySeq, Zenon DEF Strike
    <3> QED
      BY <2>1, <3>3, ReportsTypes DEF Strike, CapTypes
  <2>2. ASSUME NEW c \in Codes, Repeat(c)
        PROVE  <1>2
    <3>1. Release(c) \in Event(front) /\ Press(c, FALSE) \in Event(front)
      BY EventTypes, Zenon
    <3>2. <<Release(c), Press(c, FALSE)>> \in Seq(Event(front)) /\ <<Press(c, FALSE)>> \in Seq(Event(front))
      BY <3>1, Single, Double, Zenon
    <3>3. PICK es \in Seq(Event(front)) : Reports(es)
      BY <2>2, <3>2, Zenon DEF Repeat
    <3> QED
      BY <2>2, <3>3, ReportsTypes DEF Repeat, CapTypes
  <2>3. ASSUME NEW c \in Codes, Lift(c)
        PROVE  <1>2
    <3>1. PICK d \in Codes : Reports(<<Release(d)>>)
      BY <2>3 DEF Lift, Sibling
    <3>2. <<Release(d)>> \in Seq(Event(front))
      BY EventTypes
    <3> QED
      BY <2>3, <3>1, <3>2, ReportsTypes DEF Lift, CapTypes
  <2>4. CASE ChangeFocus
    <3>1. <<FocusOut>> \in Seq(Event(front))
      BY EventTypes
    <3> QED
      BY <2>4, <3>1, ReportsTypes DEF ChangeFocus, CapTypes
  <2> QED
    BY <2>1, <2>2, <2>3, <2>4 DEF UserMoves
<1> QED
  BY <1>1, <1>2 DEF CapTypes

\* The releases that are committed are said first.
LEMMA CommitsTypes ==
    ASSUME wire \in Seq(Msg), CapTypes, NEW some, NEW pressed \in SUBSET Codes, NEW pending \in SUBSET (Codes \X Times(front)),
           NEW ms \in Seq(Msg), Commits(some, pressed, pending, ms)
    PROVE  /\ wire' \in Seq(Msg)
           /\ cap' \in [pressed : SUBSET Codes, pending : SUBSET (Codes \X Times(front))]
<1> DEFINE ups == {q[1] : q \in some} \cap cap.pressed
<1>1. ups \in SUBSET Codes
  BY DEF CapTypes
<1>2. Ups(ups) \in Seq(Msg)
  BY <1>1, UpsTypes
<1>3. Ups(ups) \o ms \in Seq(Msg)
  BY <1>2, ConcatProperties
<1>4. Say(Ups(ups) \o ms)
  BY DEF Commits
<1>5. wire' \in Seq(Msg)
  BY <1>3, <1>4, SayTypes
<1> QED
  BY <1>5 DEF Commits

LEMMA HandleTypes ==
    ASSUME wire \in Seq(Msg), CapTypes, Handle
    PROVE  wire' \in Seq(Msg) /\ CapTypes'
<1> DEFINE e == Head(xevents)
<1>1. /\ e \in Event(front) /\ xevents' \in Seq(Event(front))
      /\ UNCHANGED <<front, moves, user>>
      /\ cap.pressed \in SUBSET Codes /\ cap.pending \in SUBSET (Codes \X Times(front))
  BY DEF Handle, CapTypes
<1>2. /\ wire' \in Seq(Msg)
      /\ cap' \in [pressed : SUBSET Codes, pending : SUBSET (Codes \X Times(front))]
  <2>1. CASE e.kind = "press" /\ OnKeyDown(e)
    <3>1. e.code \in Codes /\ e.time \in Times(front)
      BY <1>1, <2>1 DEF Event, FocusOut
    <3> DEFINE some == IF IsRepeat(e) THEN Flushed(e)
                       ELSE Flushed(e) \cup {q \in cap.pending : q[1] = e.code}
               held == cap.pressed \ {q[1] : q \in some}
               later == {q \in cap.pending : q[1] # e.code} \ some
    <3>2. \/ Commits(some, held, later, << >>)
          \/ Commits(some, held \cup {e.code}, later, <<KeyMsg(e.code, TRUE)>>)
      BY <2>1 DEF OnKeyDown
    <3>3. held \in SUBSET Codes /\ later \in SUBSET (Codes \X Times(front))
      BY <1>1
    <3> HIDE DEF some, held, later
    <3>4. KeyMsg(e.code, TRUE) \in Msg
      BY <3>1, MsgTypes, Zenon
    <3>5. <<KeyMsg(e.code, TRUE)>> \in Seq(Msg)
      BY <3>4, Single, Zenon
    <3>6. held \cup {e.code} \in SUBSET Codes
      BY <3>1, <3>3
    <3>7. CASE Commits(some, held, later, << >>)
      BY <3>3, <3>7, EmptySeq, CommitsTypes
    <3>8. CASE Commits(some, held \cup {e.code}, later, <<KeyMsg(e.code, TRUE)>>)
      BY <3>3, <3>5, <3>6, <3>8, CommitsTypes, Zenon
    <3> QED
      BY <3>2, <3>7, <3>8, Zenon
  <2>2. CASE e.kind = "release" /\ OnKeyUp(e)
    <3>1. e.code \in Codes /\ e.time \in Times(front)
      BY <1>1, <2>2 DEF Event, FocusOut
    <3> DEFINE some == Flushed(e)
               left == cap.pressed \ {q[1] : q \in some}
               later == cap.pending \ some
               held == HeldVariant(e.code, left)
               wait == later \cup {<<c, e.time>> : c \in held \ {q[1] : q \in later}}
    <3>2. /\ left \in SUBSET Codes /\ later \in SUBSET (Codes \X Times(front))
          /\ left \ held \in SUBSET Codes /\ {q \in later : q[1] \notin held} \in SUBSET (Codes \X Times(front))
      BY <1>1
    <3>3. held \in SUBSET Codes
      BY <3>1, <3>2 DEF HeldVariant, Sibling
    <3>4. wait \in SUBSET (Codes \X Times(front))
      <4> HIDE DEF held, later
      <4>1. \A c \in held : <<c, e.time>> \in Codes \X Times(front)
        BY <3>1, <3>3
      <4> QED
        BY <3>2, <4>1
    <3>5. Ups(held) \in Seq(Msg) /\ << >> \in Seq(Msg)
      BY <3>3, UpsTypes
    <3>6. <<KeyMsg(SysRq, TRUE), KeyMsg(SysRq, FALSE)>> \in Seq(Msg)
      <4>1. KeyMsg(SysRq, TRUE) \in Msg /\ KeyMsg(SysRq, FALSE) \in Msg
        BY MsgTypes, CaptureAssumption, Zenon
      <4> QED
        BY <4>1, Double, Zenon
    <3>7. \/ Commits(some, left, later, IF e.code = SysRq THEN <<KeyMsg(SysRq, TRUE), KeyMsg(SysRq, FALSE)>> ELSE << >>)
          \/ Commits(some, left, wait, << >>)
          \/ Commits(some, left \ held, {q \in later : q[1] \notin held}, Ups(held))
      BY <2>2 DEF OnKeyUp
    <3> HIDE DEF some, left, later, held, wait
    <3>8. (IF e.code = SysRq THEN <<KeyMsg(SysRq, TRUE), KeyMsg(SysRq, FALSE)>> ELSE << >>) \in Seq(Msg)
      BY <3>5, <3>6
    <3>9. CASE Commits(some, left, later, IF e.code = SysRq THEN <<KeyMsg(SysRq, TRUE), KeyMsg(SysRq, FALSE)>> ELSE << >>)
      BY <3>2, <3>8, <3>9, CommitsTypes
    <3>10. CASE Commits(some, left, wait, << >>)
      BY <3>2, <3>4, <3>5, <3>10, CommitsTypes
    <3>11. CASE Commits(some, left \ held, {q \in later : q[1] \notin held}, Ups(held))
      BY <3>2, <3>5, <3>11, CommitsTypes
    <3> QED
      BY <3>7, <3>9, <3>10, <3>11
  <2>3. CASE OnFocusOut
    <3>1. <<ReleaseAll>> \in Seq(Msg)
      BY MsgTypes
    <3> QED
      BY <2>3, <3>1, CommitsTypes DEF OnFocusOut
  <2> QED
    BY <2>1, <2>2, <2>3 DEF Handle
<1> QED
  BY <1>1, <1>2 DEF CapTypes

LEMMA TimerTypes ==
    ASSUME wire \in Seq(Msg), CapTypes, Timer
    PROVE  wire' \in Seq(Msg) /\ CapTypes'
<1>1. PICK q \in cap.pending : Commits({q}, cap.pressed \ {q[1]}, cap.pending \ {q}, << >>)
  BY DEF Timer
<1>2. /\ cap.pressed \ {q[1]} \in SUBSET Codes /\ cap.pending \ {q} \in SUBSET (Codes \X Times(front))
      /\ << >> \in Seq(Msg)
  BY DEF CapTypes
<1>3. /\ wire' \in Seq(Msg)
      /\ cap' \in [pressed : SUBSET Codes, pending : SUBSET (Codes \X Times(front))]
  BY <1>1, <1>2, CommitsTypes
<1> QED
  BY <1>3 DEF Timer, CapTypes

LEMMA SessionMovesTypes ==
    ASSUME CapTypes, SessionMoves
    PROVE  CapTypes'
<1>1. cap' \in [pressed : SUBSET Codes, pending : SUBSET (Codes \X Times(front))]
  BY DEF SessionMoves, CapTypes
<1> QED
  BY <1>1, MovesTypes DEF SessionMoves, CapTypes

\* The pages.
LEMMA PageTypes ==
    ASSUME wire \in Seq(Msg), PadTypes, PageMoves \/ HandlerStep
    PROVE  wire' \in Seq(Msg) /\ PadTypes'
<1>1. /\ page \in [Browsers -> PageType] /\ handlers \in [Browsers -> 0..MaxHandlers] /\ MaxHandlers \in Nat
      /\ Closed \in PageType /\ [Closed EXCEPT !.open = TRUE, !.socket = TRUE] \in PageType
  BY PadAssumption DEF PadTypes, PageType, Closed
<1>2. <<ReleaseAll>> \in Seq(Msg)
  BY MsgTypes
<1>3. ASSUME NEW b \in Browsers, OpensSocket(b)
      PROVE  handlers' \in [Browsers -> 0..MaxHandlers]
  BY <1>1, <1>3 DEF OpensSocket
<1>4. ASSUME NEW b \in Browsers, NEW p \in PageType, page' = [page EXCEPT ![b] = p]
      PROVE  page' \in [Browsers -> PageType]
  BY <1>1, <1>4
<1>5. ASSUME NEW b \in Browsers,
             PageOpens(b) \/ PageCloses(b) \/ PageDies(b) \/ SocketBreaks(b) \/ SocketReopens(b)
      PROVE  wire' \in Seq(Msg) /\ PadTypes'
  <2>1. wire' \in Seq(Msg)
    BY <1>2, <1>5, SendsTypes DEF PageOpens, PageCloses, PageDies, SocketBreaks, SocketReopens
  <2>2. page' \in [Browsers -> PageType]
    <3>1. page[b] \in PageType
      BY <1>1
    <3>2. [page[b] EXCEPT !.socket = FALSE] \in PageType /\ [page[b] EXCEPT !.socket = TRUE] \in PageType
      BY <3>1 DEF PageType
    <3>3. CASE PageOpens(b)
      BY <1>1, <1>4, <3>3 DEF PageOpens
    <3>4. CASE PageCloses(b) \/ PageDies(b)
      BY <1>1, <1>4, <3>4 DEF PageCloses, PageDies
    <3>5. CASE SocketBreaks(b)
      BY <1>1, <3>2, <3>5 DEF SocketBreaks
    <3>6. CASE SocketReopens(b)
      BY <1>1, <3>2, <3>6 DEF SocketReopens
    <3> QED
      BY <1>5, <3>3, <3>4, <3>5, <3>6
  <2>3. handlers' \in [Browsers -> 0..MaxHandlers]
    BY <1>1, <1>3, <1>5 DEF PageOpens, PageCloses, PageDies, SocketBreaks, SocketReopens
  <2> QED
    BY <2>1, <2>2, <2>3 DEF PadTypes
<1>6. ASSUME NEW b \in Browsers, PageActs(b)
      PROVE  wire' \in Seq(Msg) /\ page' \in [Browsers -> PageType]
  <2> DEFINE p == page[b]
  <2>1. StickyUp(b) \in Seq(Msg)
    BY StickyTypes
  <2>2. p \in PageType
    BY <1>1
  <2>3. /\ \A x \in SUBSET Modifiers : [p EXCEPT !.sticky = x] \in PageType
        /\ \A x \in SUBSET DOMAIN JsToCode : [p EXCEPT !.keys = x] \in PageType
        /\ \A x \in SUBSET DOMAIN JsToCode : \A y \in SUBSET Modifiers :
              [p EXCEPT !.keys = x, !.sticky = y] \in PageType
        /\ \A x \in BOOLEAN : [p EXCEPT !.focused = x] \in PageType
        /\ \A x \in BOOLEAN : \A y \in SUBSET Modifiers : [p EXCEPT !.focused = x, !.sticky = y] \in PageType
        /\ p.keys \in SUBSET DOMAIN JsToCode /\ p.sticky \in SUBSET Modifiers
    BY <2>2 DEF PageType
  <2>4. CASE \E m \in Modifiers : Sticks(b, m)
    <3>1. PICK m \in Modifiers : Sticks(b, m)
      BY <2>4
    <3>2. PICK ms \in Seq(Msg) : Sends(b, ms)
      BY <3>1, KeyTypes DEF Sticks
    <3>3. PICK x \in SUBSET Modifiers : page' = [page EXCEPT ![b] = [p EXCEPT !.sticky = x]]
      BY <1>1, <2>3, <3>1 DEF Sticks
    <3> QED
      BY <1>4, <2>3, <3>2, <3>3, SendsTypes
  <2>5. CASE \E js \in Buttons : Taps(b, js)
    <3>1. PICK js \in Buttons : Taps(b, js)
      BY <2>5
    <3>2. Key(js, TRUE) \in Seq(Msg) /\ Key(js, FALSE) \in Seq(Msg)
      BY KeyTypes, Zenon
    <3>3. PICK ms \in Seq(Msg) : Sends(b, ms)
      BY <2>1, <3>1, <3>2, ConcatProperties DEF Taps
    <3>4. page' = [page EXCEPT ![b] = [p EXCEPT !.sticky = {}]]
      BY <1>1, <3>1 DEF Taps
    <3> QED
      BY <1>4, <2>3, <3>3, <3>4, SendsTypes
  <2>6. CASE \E js \in DOMAIN JsToCode : KeyDown(b, js)
    <3>1. PICK js \in DOMAIN JsToCode : KeyDown(b, js)
      BY <2>6
    <3>2. PICK ms \in Seq(Msg) : ms = Key(js, TRUE)
      BY KeyTypes, Zenon
    <3>3. wire' \in Seq(Msg)
      BY <3>1, <3>2, SendsTypes DEF KeyDown
    <3>4. page' = [page EXCEPT ![b] = [p EXCEPT !.keys = p.keys \cup {js}]]
      BY <1>1, <3>1 DEF KeyDown
    <3> QED
      BY <1>4, <2>3, <3>3, <3>4
  <2>7. CASE \E js \in DOMAIN JsToCode : KeyUp(b, js)
    <3>1. PICK js \in DOMAIN JsToCode : KeyUp(b, js)
      BY <2>7
    <3>2. Key(js, FALSE) \in Seq(Msg)
      BY KeyTypes, Zenon
    <3>3. wire' \in Seq(Msg)
      BY <2>1, <3>1, <3>2, ConcatProperties, SendsTypes DEF KeyUp
    <3>4. PICK y \in SUBSET Modifiers : page' = [page EXCEPT ![b] = [p EXCEPT !.keys = p.keys \ {js}, !.sticky = y]]
      BY <1>1, <2>3, <3>1 DEF KeyUp
    <3> QED
      BY <1>4, <2>3, <3>3, <3>4
  <2>8. CASE \E t \in Texts : Enters(b, t)
    <3>1. PICK t \in Texts : Enters(b, t)
      BY <2>8
    <3>2. <<TextMsg(t)>> \in Seq(Msg)
      BY MsgTypes, Single, Zenon
    <3>3. wire' \in Seq(Msg)
      BY <2>1, <3>1, <3>2, ConcatProperties, SendsTypes DEF Enters
    <3>4. page' = [page EXCEPT ![b] = [p EXCEPT !.sticky = {}]]
      BY <1>1, <3>1 DEF Enters
    <3> QED
      BY <1>4, <2>3, <3>3, <3>4
  <2>9. CASE PadFocus(b)
    <3>1. page' = [page EXCEPT ![b] = [p EXCEPT !.focused = TRUE]]
      BY <1>1, <2>9 DEF PadFocus
    <3> QED
      BY <1>4, <2>3, <2>9, <3>1 DEF PadFocus
  <2>10. CASE Blurs(b)
    <3>1. page' = [page EXCEPT ![b] = [p EXCEPT !.focused = FALSE, !.sticky = {}]]
      BY <1>1, <2>10 DEF Blurs
    <3> QED
      BY <1>4, <2>1, <2>3, <2>10, <3>1, SendsTypes DEF Blurs
  <2>11. CASE ReleaseButton(b)
    <3>1. page' = [page EXCEPT ![b] = [p EXCEPT !.sticky = {}]]
      BY <1>1, <2>11 DEF ReleaseButton
    <3> QED
      BY <1>2, <1>4, <2>3, <2>11, <3>1, SendsTypes DEF ReleaseButton
  <2> QED
    BY <1>6, <2>4, <2>5, <2>6, <2>7, <2>8, <2>9, <2>10, <2>11 DEF PageActs
<1>7. ASSUME NEW b \in Browsers, HandlerEnds(b)
      PROVE  wire' \in Seq(Msg) /\ PadTypes'
  <2>1. handlers' \in [Browsers -> 0..MaxHandlers]
    BY <1>1, <1>7 DEF HandlerEnds
  <2> QED
    BY <1>2, <1>7, <2>1, SayTypes DEF HandlerEnds, PadTypes
<1> QED
  BY <1>1, <1>5, <1>6, <1>7 DEF PageMoves, HandlerStep, PageActs, PadTypes

LEMMA TypesStep ==
    ASSUME Types, [TypingNext]_typingvars
    PROVE  Types'
<1> USE DEF Types
<1>1. CASE Native /\ UserMoves
  BY <1>1, UserTypes DEF Native, UserMoves, kbvars, padvars, KbTypes, PadTypes
<1>2. CASE Native /\ SessionMoves
  BY <1>2, SessionMovesTypes, LiveTypes DEF Native, SessionMoves, padvars, PadTypes
<1>3. CASE WindowHandles
  BY <1>3, HandleTypes DEF WindowHandles, Native, Handle, padvars, KbTypes, PadTypes
<1>4. CASE WindowTimer
  BY <1>4, TimerTypes DEF WindowTimer, Native, Timer, padvars, KbTypes, PadTypes
<1>5. CASE PageMoves
  BY <1>5, PageTypes, MovesTypes DEF PageMoves, capvars, KbTypes, CapTypes
<1>6. CASE GatewaySessionMoves
  BY <1>6, LiveTypes, MovesTypes DEF GatewaySessionMoves, capvars, padvars, CapTypes, PadTypes
<1>7. CASE HandlerStep
  BY <1>7, PageTypes DEF HandlerStep, capvars, KbTypes, CapTypes
<1>8. CASE KeyboardStep
  BY <1>8, ReceiveTypes, TypeNextTypes DEF KeyboardStep, capvars, padvars, CapTypes, PadTypes
<1>9. CASE UNCHANGED typingvars
  BY <1>9 DEF typingvars, kbvars, capvars, padvars, KbTypes, CapTypes, PadTypes
<1> QED
  BY <1>1, <1>2, <1>3, <1>4, <1>5, <1>6, <1>7, <1>8, <1>9 DEF TypingNext

LEMMA TypesInit == TypingInit => Types
<1> SUFFICES ASSUME TypingInit PROVE Types
  OBVIOUS
<1>1. NoText \in TextState
  BY EmptySeq DEF NoText, TextState
<1>2. KbTypes
  BY <1>1, EmptySeq DEF TypingInit, KbInit, KbTypes
<1>3. CapTypes
  BY EmptySeq, TypingAssumption DEF TypingInit, CapInit, CapTypes, Times
<1>4. PadTypes
  BY PadAssumption DEF TypingInit, PadInit, PadTypes, PageType, Closed
<1> QED
  BY <1>2, <1>3, <1>4 DEF Types

\* Everything from the fingers to the device keeps its type (provider.py, keyboard
\* capture; gateway.py, the page; receiver.py, Keyboard): whatever is said to the
\* receiver is about keys there are.
THEOREM TypingTypeCorrect == TypingSpec => []TypingTypeOK
<1>1. TypingInit => Types
  BY TypesInit
<1>2. Types /\ [TypingNext]_typingvars => Types'
  BY TypesStep
<1>3. Types => TypingTypeOK
  <2> SUFFICES ASSUME Types PROVE TypingTypeOK
    OBVIOUS
  <2>1. \A i \in 1..Len(wire) : wire[i] \in Msg
    BY DEF Types, KbTypes
  <2>2. \A i \in 1..Len(wire) : \/ wire[i] = ReleaseAll \/ wire[i] \in {TextMsg(s) : s \in Texts}
                                \/ wire[i] \in {KeyMsg(c, d) : c \in Codes, d \in BOOLEAN}
    BY <2>1 DEF Msg
  <2> QED
    BY <2>2 DEF Types, KbTypes, CapTypes, PadTypes, PageType, Times, TypingTypeOK
<1> QED
  BY <1>1, <1>2, <1>3, PTL DEF TypingSpec

\* Text comes out in order, though some of its characters are typed by another program, and
\* nothing that has a key is lost when that program is missing (receiver.py, type_text).
THEOREM TextStaysInOrder == TypingSpec => []TextInOrder
<1>1. TypingInit => Types /\ TextKept
  <2> SUFFICES ASSUME TypingInit PROVE TextKept
    BY TypesInit
  <2>1. << >> \o << >> \o << >> = << >>
    OBVIOUS
  <2> QED
    <3>1. kb.text = NoText
      BY DEF TypingInit, KbInit
    <3>2. \A i \in 1..Len(<< >>) : FALSE
      OBVIOUS
    <3> QED
      BY <2>1, <3>1, <3>2 DEF NoText, TextKept, TextInOrder, Keyless
<1>2. ASSUME Types, TextKept, [TypingNext]_typingvars
      PROVE  Types' /\ TextKept'
  <2>1. CASE UNCHANGED kb
    BY <1>2, <2>1, TypesStep DEF TextKept, TextInOrder, Keyless
  <2>2. CASE Receive \/ TypeNext
    BY <1>2, <2>2, TypesStep, ReceiveText, TypeNextTypes DEF Types
  <2> QED
    BY <1>2, <2>1, <2>2 DEF TypingNext, Native, UserMoves, SessionMoves, WindowHandles, WindowTimer, Handle, Timer,
       Web, PageMoves, GatewaySessionMoves, Starts, Ends, HandlerStep, KeyboardStep, typingvars, kbvars
<1>3. TextKept => TextInOrder
  BY DEF TextKept
<1> QED
  BY <1>1, <1>2, <1>3, PTL DEF TypingSpec

-----------------------------------------------------------------------------
(* Strikes.                                                                *)

\* What an event says of a key; on Windows a release may be that of the variant.
Presses(e, c) == e.kind = "press" /\ e.code = c
Lifts(e, c) == \/ e.kind = "focus_out"
               \/ e.kind = "release" /\ (e.code = c \/ (front = "win32" /\ c \in Sibling(e.code)))
Strikes(e) == e.kind = "press" /\ e.byHand

\* The window takes a key to be down, and its release is not held back.
Down(c) == c \in cap.pressed /\ c \notin {q[1] : q \in cap.pending}

\* A key may be down when the window comes to event i: it is now, or an event before
\* presses it, and nothing lifts it from then on.
MayBeDown(es, c, i) ==
    \E j \in 0..(i - 1) : /\ j = 0 => Down(c)
                          /\ j > 0 => Presses(es[j], c)
                          /\ \A k \in (j + 1)..(i - 1) : ~ Lifts(es[k], c)

\* A strike finds no key down but those held when it was made, and never its own.
Struck(es) ==
    \A i \in 1..Len(es) : Strikes(es[i]) =>
        /\ es[i].code \notin es[i].hand
        /\ \A c \in Codes : MayBeDown(es, c, i) => c \in es[i].hand

\* On Windows never both variants of a modifier.
Apart(es) ==
    front = "win32" =>
        \A i \in 1..(Len(es) + 1), c \in Codes :
            \A d \in Sibling(c) : ~ (MayBeDown(es, c, i) /\ MayBeDown(es, d, i))

\* In the end only what the user holds.
InHand(es) == \A c \in Codes : MayBeDown(es, c, Len(es) + 1) => user.focused /\ c \in user.hand

\* Releases held back, and events before it, are of an earlier time than a strike.
Before(es, i) == /\ \A q \in cap.pending : q[2] < es[i].time
                 /\ \A j \in 1..(i - 1) : es[j].kind # "focus_out" => es[j].time < es[i].time

Timed(es, now) == /\ \A q \in cap.pending : q[2] < now
                  /\ \A i \in 1..Len(es) : /\ es[i].kind # "focus_out" => es[i].time < now
                                           /\ Strikes(es[i]) => Before(es, i)

\* Only X11 holds releases back.
HeldBack == front # "x11" => cap.pending = {}

Hands == /\ Struck(xevents) /\ Apart(xevents) /\ InHand(xevents)
         /\ Timed(xevents, moves) /\ HeldBack

\* One more event.
LEMMA OneMore ==
    ASSUME NEW T, NEW es \in Seq(T), NEW e \in T, NEW c
    PROVE  /\ \A i \in 1..(Len(es) + 1) : MayBeDown(Append(es, e), c, i) => MayBeDown(es, c, i)
           /\ MayBeDown(Append(es, e), c, Len(es) + 2) =>
                 Presses(e, c) \/ (MayBeDown(es, c, Len(es) + 1) /\ ~ Lifts(e, c))
<1> DEFINE fs == Append(es, e)
<1>1. /\ Len(es) \in Nat /\ \A k \in 1..Len(es) : fs[k] = es[k]
      /\ fs[Len(es) + 1] = e
  OBVIOUS
<1> HIDE DEF fs
<1>2. ASSUME NEW i \in 1..(Len(es) + 1), MayBeDown(fs, c, i)
      PROVE  MayBeDown(es, c, i)
  BY <1>1, <1>2 DEF MayBeDown
<1>3. ASSUME MayBeDown(fs, c, Len(es) + 2)
      PROVE  Presses(e, c) \/ (MayBeDown(es, c, Len(es) + 1) /\ ~ Lifts(e, c))
  <2>1. PICK j \in 0..(Len(es) + 1) : /\ j = 0 => Down(c)
                                      /\ j > 0 => Presses(fs[j], c)
                                      /\ \A k \in (j + 1)..(Len(es) + 1) : ~ Lifts(fs[k], c)
    BY <1>1, <1>3 DEF MayBeDown
  <2>2. CASE j = Len(es) + 1
    BY <1>1, <2>1, <2>2
  <2>3. CASE j \in 0..Len(es)
    <3>1. ~ Lifts(e, c)
      BY <1>1, <2>1, <2>3
    <3>2. /\ j > 0 => Presses(es[j], c)
          /\ \A k \in (j + 1)..Len(es) : ~ Lifts(es[k], c)
      BY <1>1, <2>1, <2>3
    <3>3. MayBeDown(es, c, Len(es) + 1)
      BY <1>1, <2>1, <2>3, <3>2 DEF MayBeDown
    <3> QED
      BY <3>1, <3>3
  <2> QED
    BY <1>1, <2>1, <2>2, <2>3
<1> QED
  BY <1>2, <1>3 DEF fs

\* One fewer: the window has handled the first.
LEMMA OneFewer ==
    ASSUME NEW T, xevents \in Seq(T), xevents # << >>, xevents' = Tail(xevents), front' = front, NEW c,
           Down(c)' => Presses(Head(xevents), c) \/ (Down(c) /\ ~ Lifts(Head(xevents), c)),
           NEW i \in 1..Len(xevents), MayBeDown(xevents, c, i)'
    PROVE  MayBeDown(xevents, c, i + 1)
<1>1. /\ Len(xevents) \in Nat /\ Head(xevents) = xevents[1]
      /\ \A k \in 1..(Len(xevents) - 1) : xevents'[k] = xevents[k + 1]
  OBVIOUS
<1>2. PICK j \in 0..(i - 1) : /\ j = 0 => Down(c)'
                              /\ j > 0 => Presses(xevents'[j], c)
                              /\ \A k \in (j + 1)..(i - 1) : ~ Lifts(xevents'[k], c)
  BY DEF MayBeDown, Presses, Lifts
<1>3. \A k \in (j + 2)..i : ~ Lifts(xevents[k], c)
  <2> SUFFICES ASSUME NEW k \in (j + 2)..i
               PROVE  ~ Lifts(xevents[k], c)
    OBVIOUS
  <2>1. k - 1 \in (j + 1)..(i - 1) /\ k - 1 \in 1..(Len(xevents) - 1) /\ (k - 1) + 1 = k
    BY <1>1
  <2>2. xevents'[k - 1] = xevents[k]
    BY <1>1, <2>1
  <2> QED
    BY <1>2, <2>1, <2>2, Zenon
<1>4. CASE j > 0 \/ Presses(Head(xevents), c)
  <2>1. PICK l \in 1..i : Presses(xevents[l], c) /\ \A k \in (l + 1)..i : ~ Lifts(xevents[k], c)
    <3>1. CASE j > 0
      <4>1. j + 1 \in 1..i /\ Presses(xevents[j + 1], c) /\ (j + 1) + 1 = j + 2
        BY <1>1, <1>2, <3>1
      <4> QED
        BY <1>3, <4>1
    <3>2. CASE j = 0
      <4>1. 1 \in 1..i /\ Presses(xevents[1], c) /\ 1 + 1 = j + 2
        BY <1>1, <1>4, <3>2
      <4> QED
        BY <1>3, <4>1
    <3> QED
      BY <3>1, <3>2
  <2> QED
    BY <2>1 DEF MayBeDown
<1>5. CASE j = 0 /\ ~ Presses(Head(xevents), c)
  <2>1. Down(c) /\ ~ Lifts(xevents[1], c)
    BY <1>1, <1>2, <1>5
  <2>2. \A k \in 1..i : ~ Lifts(xevents[k], c)
    BY <1>1, <1>3, <1>5, <2>1
  <2> QED
    BY <2>1, <2>2 DEF MayBeDown
<1> QED
  BY <1>4, <1>5
\* What the user does: one event e more, while the window stays as it is.
LEMMA AppendedHands ==
    ASSUME NEW T, NEW es \in Seq(T), NEW e \in T,
           Struck(es), Apart(es),
           Strikes(e) => /\ e.code \notin e.hand
                         /\ \A c \in Codes : MayBeDown(es, c, Len(es) + 1) => c \in e.hand,
           front = "win32" =>
              \A c \in Codes : \A d \in Sibling(c) :
                  ~ /\ MayBeDown(Append(es, e), c, Len(es) + 2)
                    /\ MayBeDown(Append(es, e), d, Len(es) + 2)
    PROVE  Struck(Append(es, e)) /\ Apart(Append(es, e))
<1> DEFINE fs == Append(es, e)
<1>1. /\ Len(es) \in Nat /\ \A k \in 1..Len(es) : fs[k] = es[k]
      /\ fs[Len(es) + 1] = e /\ Len(fs) = Len(es) + 1
  OBVIOUS
<1>2. \A c, i : i \in 1..(Len(es) + 1) /\ MayBeDown(fs, c, i) => MayBeDown(es, c, i)
  BY OneMore
<1> HIDE DEF fs
<1>3. Struck(fs)
  <2> SUFFICES ASSUME NEW i \in 1..(Len(es) + 1), Strikes(fs[i])
               PROVE  /\ fs[i].code \notin fs[i].hand
                      /\ \A c \in Codes : MayBeDown(fs, c, i) => c \in fs[i].hand
    BY <1>1 DEF Struck
  <2>1. CASE i \in 1..Len(es)
    BY <1>1, <1>2, <2>1 DEF Struck
  <2>2. CASE i = Len(es) + 1
    BY <1>1, <1>2, <2>2
  <2> QED
    BY <1>1, <2>1, <2>2
<1>4. Apart(fs)
  <2> SUFFICES ASSUME front = "win32", NEW i \in 1..(Len(es) + 2), NEW c \in Codes, NEW d \in Sibling(c)
               PROVE  ~ (MayBeDown(fs, c, i) /\ MayBeDown(fs, d, i))
    BY <1>1 DEF Apart
  <2>1. CASE i \in 1..(Len(es) + 1)
    BY <1>2, <2>1 DEF Apart
  <2>2. CASE i = Len(es) + 2
    BY <2>2 DEF fs
  <2> QED
    BY <1>1, <2>1, <2>2
<1> QED
  BY <1>3, <1>4 DEF fs
LEMMA AppendedTimed ==
    ASSUME NEW f, CapTypes, NEW es \in Seq(Event(f)), NEW e \in Event(f), MaxMoves[f] \in Nat,
           front = f, NEW now \in Nat, NEW then \in Nat, now =< then, Timed(es, now),
           e.kind # "focus_out" => e.time < then,
           Strikes(e) => e.time >= now
    PROVE  Timed(Append(es, e), then)
<1> DEFINE fs == Append(es, e)
<1>1. /\ Len(es) \in Nat /\ \A k \in 1..Len(es) : fs[k] = es[k]
      /\ fs[Len(es) + 1] = e /\ Len(fs) = Len(es) + 1
      /\ \A k \in 1..Len(es) : es[k] \in Event(f)
  OBVIOUS
<1> HIDE DEF fs
<1>2. \A x \in Event(f) : x.kind # "focus_out" => x.time \in Nat
  BY DEF Event, FocusOut, Times
<1>3. \A q \in cap.pending : q[2] \in Nat /\ q[2] < then
  BY DEF CapTypes, Times, Timed
<1>4. ASSUME NEW i \in 1..(Len(es) + 1)
      PROVE  /\ fs[i].kind # "focus_out" => fs[i].time < then
             /\ Strikes(fs[i]) => Before(fs, i)
  <2>1. CASE i \in 1..Len(es)
    <3>1. fs[i].kind # "focus_out" => fs[i].time < then
      BY <1>1, <1>2, <2>1 DEF Timed
    <3>2. ASSUME Strikes(fs[i])
          PROVE  Before(fs, i)
      <4>1. Before(es, i)
        BY <1>1, <2>1, <3>2 DEF Timed
      <4>2. \A j \in 1..(i - 1) : fs[j] = es[j]
        BY <1>1, <2>1
      <4> QED
        BY <1>1, <2>1, <4>1, <4>2 DEF Before
    <3> QED
      BY <3>1, <3>2
  <2>2. CASE i = Len(es) + 1
    <3>1. ASSUME Strikes(e)
          PROVE  Before(fs, i)
      <4>1. e.time \in Nat /\ e.time >= now
        BY <1>2, <3>1 DEF Strikes
      <4>2. \A q \in cap.pending : q[2] < e.time
        BY <1>3, <4>1 DEF Timed
      <4>3. ASSUME NEW j \in 1..Len(es), es[j].kind # "focus_out"
            PROVE  es[j].time < e.time
        BY <1>1, <1>2, <4>1, <4>3 DEF Timed
      <4> QED
        BY <1>1, <2>2, <4>2, <4>3 DEF Before
    <3> QED
      BY <1>1, <2>2, <3>1
  <2> QED
    BY <1>1, <2>1, <2>2
<1> QED
  BY <1>1, <1>3, <1>4 DEF Timed, fs

\* The user does not touch what the window has.
LEMMA SameWindow ==
    ASSUME UNCHANGED <<cap, front>>
    PROVE  /\ Struck(xevents)' <=> Struck(xevents')
           /\ Apart(xevents)' <=> Apart(xevents')
           /\ Timed(xevents, moves)' <=> Timed(xevents', moves')
           /\ HeldBack' <=> HeldBack
           /\ InHand(xevents)' <=> \A c \in Codes : MayBeDown(xevents', c, Len(xevents') + 1)
                                                     => user'.focused /\ c \in user'.hand
<1>1. \A c, i : MayBeDown(xevents, c, i)' <=> MayBeDown(xevents', c, i)
  BY DEF MayBeDown, Down, Presses, Lifts
<1>2. \A i : Before(xevents, i)' <=> Before(xevents', i)
  BY DEF Before
<1> QED
  BY <1>1, <1>2 DEF Struck, Apart, Timed, HeldBack, InHand, Strikes
LEMMA UserHands ==
    ASSUME CapTypes, Hands, OneVariant', UserMoves
    PROVE  Hands'
<1> DEFINE T == Event(front)
           es == xevents
           Held(fs) == \A c \in Codes : MayBeDown(fs, c, Len(fs) + 1) => user'.focused /\ c \in user'.hand
<1>1. /\ UNCHANGED <<cap, front>> /\ moves' = moves + 1
      /\ front \in Fronts /\ MaxMoves[front] \in Nat /\ moves \in Nat
      /\ es \in Seq(T) /\ Len(es) \in Nat
      /\ user \in [hand : SUBSET Codes, focused : BOOLEAN]
      /\ Struck(es) /\ Apart(es) /\ Timed(es, moves) /\ HeldBack
      /\ \A c \in Codes : MayBeDown(es, c, Len(es) + 1) => user.focused /\ c \in user.hand
  <2>1. UNCHANGED <<cap, front>> /\ moves' = moves + 1
    BY DEF UserMoves, Strike, Repeat, Lift, ChangeFocus, Moves
  <2> QED
    BY <2>1, TypingAssumption DEF CapTypes, Times, Hands, InHand
<1>2. front = "win32" => \A c \in Codes : \A d \in Sibling(c) : ~ (c \in user'.hand /\ d \in user'.hand)
  BY <1>1 DEF OneVariant
<1>3. \A c \in Codes, h \in BOOLEAN : /\ Press(c, h) \in T /\ Press(c, h).kind = "press" /\ Press(c, h).code = c
                                      /\ Press(c, h).time = moves /\ Press(c, h).byHand = h
                                      /\ Press(c, h).hand = user.hand
  BY EventTypes DEF Press
<1>4. \A c \in Codes : /\ Release(c) \in T /\ Release(c).kind = "release" /\ Release(c).code = c
                       /\ Release(c).time = moves
  BY EventTypes DEF Release
<1>5. FocusOut \in T /\ FocusOut.kind = "focus_out"
  BY EventTypes DEF FocusOut
<1> HIDE DEF es, T
<1>6. Timed(es, moves + 1)
  <2>1. \A q \in cap.pending : q[2] \in Nat
    BY <1>1 DEF CapTypes, Times
  <2>2. \A i \in 1..Len(es) : es[i] \in T
    BY <1>1
  <2>3. \A i \in 1..Len(es) : es[i].kind # "focus_out" => es[i].time \in Nat
    BY <1>1, <2>2 DEF T, Event, FocusOut, Times
  <2> QED
    BY <1>1, <2>1, <2>3 DEF Timed
\* What shows that the invariant holds with the events as they are then.
<1>7. ASSUME NEW fs, xevents' = fs, Struck(fs), Apart(fs), Timed(fs, moves + 1), Held(fs)
      PROVE  Hands'
  BY <1>1, <1>7, SameWindow DEF Hands
<1>8. ASSUME xevents' = es, Held(es)
      PROVE  Hands'
  BY <1>1, <1>6, <1>7, <1>8
\* One event more.
<1>9. ASSUME NEW e \in T, e.kind # "focus_out" => e.time = moves,
             Strikes(e) => e.code \notin e.hand /\ e.hand = user.hand,
             Held(Append(es, e)), xevents' = Append(es, e)
      PROVE  Hands'
  <2>1. Len(Append(es, e)) + 1 = Len(es) + 2
    BY <1>1
  <2>2. Struck(Append(es, e)) /\ Apart(Append(es, e))
    <3>1. Strikes(e) => /\ e.code \notin e.hand
                        /\ \A c \in Codes : MayBeDown(es, c, Len(es) + 1) => c \in e.hand
      BY <1>1, <1>9
    <3>2. ASSUME front = "win32", NEW c \in Codes, NEW d \in Sibling(c)
          PROVE  ~ /\ MayBeDown(Append(es, e), c, Len(es) + 2)
                   /\ MayBeDown(Append(es, e), d, Len(es) + 2)
      <4>1. d \in Codes
        BY <3>2 DEF Sibling
      <4> QED
        BY <1>2, <1>9, <2>1, <3>2, <4>1
    <3> QED
      BY <1>1, <3>1, <3>2, AppendedHands
  <2>3. Timed(Append(es, e), moves + 1)
    BY <1>1, <1>9, AppendedTimed DEF T, Strikes
  <2> QED
    BY <1>7, <1>9, <2>2, <2>3
<1>10. ASSUME NEW e \in T
       PROVE  \A c : MayBeDown(Append(es, e), c, Len(Append(es, e)) + 1) =>
                 Presses(e, c) \/ (MayBeDown(es, c, Len(es) + 1) /\ ~ Lifts(e, c))
  <2>1. Len(Append(es, e)) + 1 = Len(es) + 2
    BY <1>1
  <2> QED
    BY <1>1, <2>1, OneMore
<1>11. \A e \in T : es \o <<e>> = Append(es, e)
  BY <1>1
<1>12. ASSUME NEW c \in Codes, Strike(c)
       PROVE  Hands'
  <2>1. /\ c \notin user.hand /\ user' = [user EXCEPT !.hand = user.hand \cup {c}]
        /\ Reports(IF Unreported(c) THEN << >> ELSE <<Press(c, TRUE)>>)
    BY <1>12 DEF Strike
  <2>2. user'.hand = user.hand \cup {c} /\ user'.focused = user.focused
    BY <1>1, <2>1
  <2>3. CASE xevents' = es
    BY <1>1, <1>8, <2>2, <2>3
  <2>4. CASE user.focused /\ xevents' = es \o <<Press(c, TRUE)>>
    <3> DEFINE e == Press(c, TRUE)
    <3>1. /\ e \in T /\ e.kind = "press" /\ e.code = c /\ e.time = moves /\ e.hand = user.hand
      BY <1>3, Zenon
    <3> HIDE DEF e
    <3>2. xevents' = Append(es, e)
      BY <1>11, <2>4, <3>1 DEF e
    <3>3. Held(Append(es, e))
      BY <1>1, <1>10, <2>2, <2>4, <3>1 DEF Presses
    <3> QED
      BY <1>9, <2>1, <3>1, <3>2, <3>3
  <2> QED
    BY <1>1, <2>1, <2>3, <2>4 DEF Reports, es
<1>13. ASSUME NEW c \in Codes, Repeat(c)
       PROVE  Hands'
  <2>1. /\ c \in user.hand /\ user.focused /\ user' = user
        /\ xevents' = es \o (IF front = "x11" THEN <<Release(c), Press(c, FALSE)>> ELSE <<Press(c, FALSE)>>)
    BY <1>13 DEF Repeat, Reports, es
  <2> DEFINE e == Press(c, FALSE)
             r == Release(c)
  <2>2. /\ e \in T /\ e.kind = "press" /\ e.code = c /\ e.time = moves /\ ~ Strikes(e)
        /\ r \in T /\ r.kind = "release" /\ r.code = c /\ r.time = moves /\ ~ Strikes(r)
    BY <1>3, <1>4, Zenon DEF Strikes
  <2> HIDE DEF e, r
  <2>3. CASE front # "x11"
    <3>1. xevents' = Append(es, e)
      BY <1>11, <2>1, <2>2, <2>3 DEF e
    <3>2. Held(Append(es, e))
      BY <1>1, <1>10, <2>1, <2>2 DEF Presses
    <3> QED
      BY <1>9, <2>2, <3>1, <3>2
  <2>4. CASE front = "x11"
    <3> DEFINE gs == Append(es, r)
               fs == Append(gs, e)
    <3>1. gs \in Seq(T) /\ Len(gs) = Len(es) + 1 /\ Len(fs) = Len(es) + 2
      BY <1>1, <2>2
    <3>2. xevents' = fs
      <4>1. es \o <<r, e>> = fs
        BY <1>1, <2>2
      <4> QED
        BY <2>1, <2>4, <4>1 DEF r, e
    <3>3. Struck(gs) /\ Apart(gs)
      BY <1>1, <2>2, <2>4, AppendedHands
    <3>4. Timed(gs, moves + 1)
      BY <1>1, <2>2, AppendedTimed DEF T
    <3>5. \A x : MayBeDown(gs, x, Len(gs) + 1) => MayBeDown(es, x, Len(es) + 1)
      BY <1>10, <2>2 DEF Presses
    <3>6. \A x : MayBeDown(fs, x, Len(gs) + 2) => Presses(e, x) \/ MayBeDown(gs, x, Len(gs) + 1)
      <4> HIDE DEF gs
      <4> QED
        BY <2>2, <3>1, OneMore
    <3>7. Struck(fs) /\ Apart(fs)
      <4> HIDE DEF gs
      <4> QED
        BY <2>2, <2>4, <3>1, <3>3, AppendedHands
    <3>8. Timed(fs, moves + 1)
      <4> HIDE DEF gs
      <4> QED
        BY <1>1, <2>2, <3>1, <3>4, AppendedTimed DEF T
    <3> HIDE DEF gs, fs
    <3>9. Held(fs)
      <4>1. Len(fs) + 1 = Len(gs) + 2
        BY <1>1, <3>1
      <4> QED
        BY <1>1, <2>1, <2>2, <3>5, <3>6, <4>1 DEF Presses
    <3> QED
      BY <1>7, <3>2, <3>7, <3>8, <3>9
  <2> QED
    BY <2>3, <2>4
<1>14. ASSUME NEW c \in Codes, Lift(c)
       PROVE  Hands'
  <2>1. PICK d \in {c} \cup (IF front = "win32" THEN Sibling(c) ELSE {}) : Reports(<<Release(d)>>)
    BY <1>14 DEF Lift
  <2>2. d \in Codes
    BY <2>1 DEF Sibling
  <2>3. user'.hand = user.hand \ {c} /\ user'.focused = user.focused
    BY <1>1, <1>14 DEF Lift
  <2> DEFINE e == Release(d)
  <2>4. e \in T /\ e.kind = "release" /\ e.code = d /\ e.time = moves /\ ~ Strikes(e)
    BY <1>4, <2>2 DEF Strikes
  <2>5. Lifts(e, c)
    <3>1. d = c \/ (front = "win32" /\ c \in Sibling(d))
      BY <2>1, CaptureAssumption DEF Sibling
    <3> QED
      BY <2>4, <3>1 DEF Lifts
  <2> HIDE DEF e
  <2>6. CASE user.focused
    <3>1. xevents' = Append(es, e)
      BY <1>11, <2>1, <2>4, <2>6 DEF Reports, es, e
    <3>2. Held(Append(es, e))
      BY <1>1, <1>10, <2>3, <2>4, <2>5, <2>6 DEF Presses
    <3> QED
      BY <1>9, <2>4, <3>1, <3>2
  <2>7. CASE ~ user.focused
    BY <1>1, <1>8, <2>1, <2>7 DEF Reports, es
  <2> QED
    BY <2>6, <2>7
<1>15. CASE ChangeFocus
  <2>1. CASE user.focused
    <3>1. xevents' = Append(es, FocusOut)
      BY <1>5, <1>11, <1>15, <2>1 DEF ChangeFocus, Reports, es
    <3>2. Held(Append(es, FocusOut))
      BY <1>5, <1>10 DEF Presses, Lifts
    <3> QED
      BY <1>5, <1>9, <3>1, <3>2 DEF Strikes
  <2>2. CASE ~ user.focused
    BY <1>1, <1>8, <1>15, <2>2 DEF ChangeFocus, Reports, es
  <2> QED
    BY <2>1, <2>2
<1> QED
  BY <1>12, <1>13, <1>14, <1>15 DEF UserMoves
\* What a press leaves down: its own key, and those that were down before; releases
\* of other keys that were held back have been committed.
LEMMA PressDowns ==
    ASSUME CapTypes, NEW e, OnKeyDown(e)
    PROVE  /\ cap'.pending \subseteq cap.pending
           /\ \A c \in cap'.pressed \ {e.code} : Down(c)
           /\ e.code \in cap.pressed \ {q[1] : q \in cap.pending} \/ <<e.code, e.time>> \in cap.pending
              \/ \E ms \in Seq(Msg) : Say(ms \o <<KeyMsg(e.code, TRUE)>>)
<1> DEFINE some == IF IsRepeat(e) THEN Flushed(e)
                   ELSE Flushed(e) \cup {q \in cap.pending : q[1] = e.code}
           held == cap.pressed \ {q[1] : q \in some}
           later == {q \in cap.pending : q[1] # e.code} \ some
           ups == {q[1] : q \in some} \cap cap.pressed
<1>1. \/ /\ IsRepeat(e) \/ e.code \in held
         /\ Commits(some, held, later, << >>)
      \/ /\ ~ IsRepeat(e) /\ e.code \notin held
         /\ Commits(some, held \cup {e.code}, later, <<KeyMsg(e.code, TRUE)>>)
  BY DEF OnKeyDown
<1>2. /\ cap' = [pressed |-> held, pending |-> later]
         \/ cap' = [pressed |-> held \cup {e.code}, pending |-> later]
  BY <1>1 DEF Commits
<1>3. cap'.pending = later /\ cap'.pressed \subseteq held \cup {e.code}
  BY <1>2
<1>4. \A c \in held \ {e.code} : Down(c)
  BY DEF Down, Flushed
<1>5. ASSUME ~ IsRepeat(e), e.code \notin held
      PROVE  \E ms \in Seq(Msg) : Say(ms \o <<KeyMsg(e.code, TRUE)>>)
  <2>1. ups \in SUBSET Codes
    BY DEF CapTypes
  <2>2. Ups(ups) \in Seq(Msg)
    BY <2>1, UpsTypes
  <2>3. Say(Ups(ups) \o <<KeyMsg(e.code, TRUE)>>)
    BY <1>1, <1>5 DEF Commits
  <2> QED
    BY <2>2, <2>3, Zenon
<1>6. e.code \in held => e.code \in cap.pressed \ {q[1] : q \in cap.pending} \/ IsRepeat(e)
  BY DEF Flushed
<1> QED
  BY <1>3, <1>4, <1>5, <1>6 DEF IsRepeat

\* What a release leaves down: on X11 its own key waits for the timer; on Windows
\* it may be the key of the variant.
LEMMA ReleaseDowns ==
    ASSUME CapTypes, HeldBack, NEW e, e.kind = "release", OnKeyUp(e),
           front = "win32" => \A c \in Codes : \A d \in Sibling(c) : ~ (Down(c) /\ Down(d)),
           NEW c \in Codes
    PROVE  /\ Down(c)' => Down(c) /\ ~ Lifts(e, c)
           /\ \A q \in cap'.pending : q \in cap.pending \/ (front = "x11" /\ q[2] = e.time)
<1> DEFINE some == Flushed(e)
           left == cap.pressed \ {q[1] : q \in some}
           later == cap.pending \ some
           held == HeldVariant(e.code, left)
           wait == later \cup {<<d, e.time>> : d \in held \ {q[1] : q \in later}}
<1>1. \/ held = {} /\ cap' = [pressed |-> left, pending |-> later]
      \/ held # {} /\ front = "x11" /\ cap' = [pressed |-> left, pending |-> wait]
      \/ /\ held # {} /\ front # "x11"
         /\ cap' = [pressed |-> left \ held, pending |-> {q \in later : q[1] \notin held}]
  BY DEF OnKeyUp, Commits
<1>2. /\ \A d : d \in left <=> d \in cap.pressed /\ \A q \in cap.pending : q[1] = d => d = e.code
      /\ \A q : q \in later <=> q \in cap.pending /\ q[1] = e.code
  BY DEF Flushed
<1>3. /\ e.code \in left => held = {e.code}
      /\ e.code \notin left => held = Sibling(e.code) \cap left
  BY DEF HeldVariant
<1>4. /\ \A q \in later : q \in wait
      /\ \A q \in wait : q \in later \/ q[2] = e.time
  <2>1. \A q, d : q = <<d, e.time>> => q[2] = e.time
    OBVIOUS
  <2>2. \A q \in wait : q \in later \/ \E d \in held : q = <<d, e.time>>
    BY Zenon
  <2> QED
    BY <2>1, <2>2
<1>5. ASSUME NEW d \in held
      PROVE  \E q \in wait : q[1] = d
  <2>1. CASE d \in {q[1] : q \in later}
    BY <2>1
  <2>2. CASE d \notin {q[1] : q \in later}
    <3>1. <<d, e.time>> \in wait
      BY <1>5, <2>2
    <3> QED
      BY <3>1
  <2> QED
    BY <2>1, <2>2
<1>6. /\ \A d : Down(d) <=> d \in cap.pressed /\ \A q \in cap.pending : q[1] # d
      /\ \A d : Down(d)' <=> d \in cap'.pressed /\ \A q \in cap'.pending : q[1] # d
  BY DEF Down
<1> HIDE DEF some, left, later, held, wait
<1>7. \A q \in cap'.pending : q \in cap.pending \/ (front = "x11" /\ q[2] = e.time)
  BY <1>1, <1>2, <1>4
<1>8. ASSUME Down(c)', c = e.code
      PROVE  FALSE
  <2>1. c \in left
    BY <1>1, <1>6, <1>8
  <2>2. held = {c}
    BY <1>3, <1>8, <2>1
  <2>3. \E q \in wait : q[1] = c
    BY <1>5, <2>2
  <2> QED
    BY <1>1, <1>6, <1>8, <2>2, <2>3
<1>9. ASSUME Down(c)'
      PROVE  Down(c)
  <2>1. c \in left
    BY <1>1, <1>6, <1>9
  <2> QED
    BY <1>2, <1>6, <1>8, <1>9, <2>1
<1>10. ASSUME Down(c)', front = "win32", c \in Sibling(e.code)
       PROVE  FALSE
  <2>1. \A d : d \in cap.pressed => Down(d)
    BY <1>6, <1>10 DEF HeldBack
  <2>2. e.code \notin left
    <3>1. ASSUME e.code \in Codes, Down(e.code)
          PROVE  FALSE
      <4>1. e.code \in Sibling(c)
        BY <1>10, <3>1, CaptureAssumption DEF Sibling
      <4> QED
        BY <1>9, <1>10, <3>1, <4>1
    <3>2. e.code \in left => e.code \in Codes
      BY <1>2 DEF CapTypes
    <3> QED
      BY <1>2, <2>1, <3>1, <3>2
  <2>3. c \in left
    BY <1>1, <1>6, <1>10
  <2>4. c \in held
    BY <1>3, <1>10, <2>2, <2>3
  <2> QED
    BY <1>1, <1>6, <1>10, <2>4
<1> QED
  BY <1>7, <1>8, <1>9, <1>10 DEF Lifts
\* The window handles an event.
LEMMA HandleHands ==
    ASSUME Types, Hands, Handle
    PROVE  Hands'
<1> DEFINE e == Head(xevents)
           es == xevents
<1>1. /\ es \in Seq(Event(front)) /\ es # << >> /\ xevents' = Tail(es) /\ UNCHANGED <<front, moves, user>>
      /\ Len(es) \in Nat \ {0} /\ Len(xevents') = Len(es) - 1 /\ e = es[1]
      /\ \A i \in 1..Len(es) : es[i] \in Event(front)
      /\ \A i \in 1..(Len(es) - 1) : xevents'[i] = es[i + 1]
      /\ moves \in Nat
  <2>1. es \in Seq(Event(front)) /\ es # << >> /\ xevents' = Tail(es) /\ UNCHANGED <<front, moves, user>>
    BY DEF Handle, Types, CapTypes
  <2>2. moves \in Nat
    BY DEF Types, CapTypes, Times
  <2> QED
    BY <2>1, <2>2
<1>2. /\ Struck(es) /\ Apart(es) /\ InHand(es) /\ Timed(es, moves) /\ HeldBack /\ CapTypes
      /\ \/ e.kind = "press" /\ OnKeyDown(e)
         \/ e.kind = "release" /\ OnKeyUp(e)
         \/ e.kind = "focus_out" /\ OnFocusOut
  BY DEF Hands, Handle, Types
<1>3. \A c : Down(c) => MayBeDown(es, c, 1)
  BY DEF MayBeDown
<1>4. front = "win32" => \A c \in Codes : \A d \in Sibling(c) : ~ (Down(c) /\ Down(d))
  BY <1>1, <1>2, <1>3 DEF Apart
<1>5. /\ \A c \in Codes : Down(c)' => Presses(e, c) \/ (Down(c) /\ ~ Lifts(e, c))
      /\ \A q \in cap'.pending : q \in cap.pending
                                 \/ (front = "x11" /\ e.kind = "release" /\ q[2] = e.time)
  <2>1. CASE e.kind = "press" /\ OnKeyDown(e)
    <3>1. /\ cap'.pending \subseteq cap.pending
          /\ \A c \in cap'.pressed \ {e.code} : Down(c)
      BY <1>2, <2>1, PressDowns
    <3> QED
      BY <2>1, <3>1 DEF Down, Presses, Lifts
  <2>2. CASE e.kind = "release" /\ OnKeyUp(e)
    <3> HIDE DEF e
    <3>1. ASSUME NEW c \in Codes
          PROVE  /\ Down(c)' => Down(c) /\ ~ Lifts(e, c)
                 /\ \A q \in cap'.pending : q \in cap.pending \/ (front = "x11" /\ q[2] = e.time)
      BY <1>2, <1>4, <2>2, ReleaseDowns
    <3>2. Codes # {}
      BY CaptureAssumption
    <3> QED
      BY <2>2, <3>1, <3>2
  <2>3. CASE e.kind = "focus_out" /\ OnFocusOut
    <3>1. cap' = [pressed |-> {}, pending |-> {}]
      BY <2>3 DEF OnFocusOut, Commits
    <3> QED
      BY <3>1 DEF Down
  <2> QED
    BY <1>2, <2>1, <2>2, <2>3
<1>6. ASSUME NEW c \in Codes, NEW i \in 1..Len(es), MayBeDown(xevents, c, i)'
      PROVE  MayBeDown(es, c, i + 1)
  BY <1>1, <1>5, <1>6, OneFewer
<1> HIDE DEF e, es
<1>7. Struck(xevents)'
  <2> SUFFICES ASSUME NEW i \in 1..(Len(es) - 1), Strikes(es[i + 1])
               PROVE  /\ es[i + 1].code \notin es[i + 1].hand
                      /\ \A c \in Codes : MayBeDown(xevents, c, i)' => c \in es[i + 1].hand
    BY <1>1 DEF Struck, Strikes
  <2>1. i \in 1..Len(es) /\ i + 1 \in 1..Len(es)
    BY <1>1
  <2> QED
    BY <1>2, <1>6, <2>1 DEF Struck
<1>8. Apart(xevents)'
  <2> SUFFICES ASSUME front = "win32", NEW i \in 1..Len(es), NEW c \in Codes, NEW d \in Sibling(c)
               PROVE  ~ (MayBeDown(xevents, c, i)' /\ MayBeDown(xevents, d, i)')
    <3>1. 1..(Len(xevents') + 1) = 1..Len(es)
      BY <1>1
    <3> QED
      BY <1>1, <3>1 DEF Apart, Sibling
  <2>1. i + 1 \in 1..(Len(es) + 1) /\ d \in Codes
    BY <1>1 DEF Sibling
  <2> QED
    BY <1>2, <1>6, <2>1 DEF Apart
<1>9. InHand(xevents)'
  <2>1. PICK n \in Nat : n = Len(es)
    BY <1>1
  <2>2. Len(xevents') + 1 = n /\ n \in 1..Len(es)
    BY <1>1, <2>1
  <2>3. ASSUME NEW c \in Codes, MayBeDown(xevents, c, n)'
        PROVE  user.focused /\ c \in user.hand
    <3>1. MayBeDown(es, c, n + 1)
      BY <1>6, <2>2, <2>3
    <3> QED
      BY <1>2, <2>1, <3>1 DEF InHand
  <2>4. \A c \in Codes : MayBeDown(xevents, c, Len(xevents) + 1)' => MayBeDown(xevents, c, n)'
    BY <2>2 DEF MayBeDown
  <2> QED
    BY <1>1, <2>3, <2>4 DEF InHand
<1>10. Timed(xevents, moves)'
  <2>1. \A q \in cap'.pending : q[2] < moves
    BY <1>1, <1>2, <1>5 DEF Timed, e
  <2>2. ASSUME NEW i \in 1..(Len(es) - 1)
        PROVE  /\ es[i + 1].kind # "focus_out" => es[i + 1].time < moves
               /\ Strikes(es[i + 1]) => Before(xevents, i)'
    <3>1. i + 1 \in 1..Len(es)
      BY <1>1
    <3>2. ASSUME Strikes(es[i + 1])
          PROVE  Before(xevents, i)'
      <4>1. Before(es, i + 1)
        BY <1>2, <3>1, <3>2 DEF Timed
      <4>2. \A q \in cap'.pending : q[2] < es[i + 1].time
        BY <1>1, <1>5, <4>1 DEF Before, e
      <4>3. \A j \in 1..(i - 1) : es[j + 1].kind # "focus_out" => es[j + 1].time < es[i + 1].time
        BY <1>1, <4>1 DEF Before
      <4>4. \A j \in 1..i : xevents'[j] = es[j + 1]
        BY <1>1
      <4>5. xevents'[i] = es[i + 1] /\ i \in Nat
        BY <1>1
      <4> QED
        BY <4>2, <4>3, <4>4, <4>5 DEF Before
    <3> QED
      BY <1>2, <3>1, <3>2 DEF Timed
  <2> QED
    BY <1>1, <2>1, <2>2 DEF Timed, Strikes
<1>11. HeldBack'
  BY <1>1, <1>2, <1>5 DEF HeldBack
<1> QED
  BY <1>7, <1>8, <1>9, <1>10, <1>11 DEF Hands

\* A timer fires, or the session comes or goes: fewer keys are down then.
LEMMA FewerHands ==
    ASSUME Types, Hands, xevents' = xevents, UNCHANGED <<front, user>>, moves' \in Nat, moves' >= moves,
           cap'.pending \subseteq cap.pending, \A c : Down(c)' => Down(c)
    PROVE  Hands'
<1>1. \A c, i : MayBeDown(xevents, c, i)' => MayBeDown(xevents, c, i)
  BY DEF MayBeDown, Presses, Lifts
<1>2. \A i : Before(xevents, i) => Before(xevents, i)'
  BY DEF Before
<1>3. Timed(xevents, moves)'
  <2>1. /\ \A q \in cap.pending : q[2] \in Nat
        /\ moves \in Nat /\ xevents \in Seq(Event(front))
    BY DEF Types, CapTypes, Times
  <2>2. \A i \in 1..Len(xevents) : xevents[i] \in Event(front)
    BY <2>1
  <2>3. \A i \in 1..Len(xevents) : xevents[i].kind # "focus_out" => xevents[i].time \in Nat
    BY <2>2 DEF Event, FocusOut, Times
  <2> QED
    BY <1>2, <2>1, <2>3 DEF Hands, Timed, Strikes
<1>4. Struck(xevents)' /\ InHand(xevents)' /\ HeldBack'
  BY <1>1 DEF Hands, Struck, Strikes, InHand, HeldBack
<1>5. Apart(xevents)'
  BY <1>1 DEF Hands, Apart
<1> QED
  BY <1>3, <1>4, <1>5 DEF Hands

LEMMA HandsStep ==
    ASSUME Types, Hands, OneVariant', [TypingNext]_typingvars
    PROVE  Hands'
<1>1. CASE UserMoves
  BY <1>1, UserHands DEF Types
<1>2. CASE WindowHandles
  BY <1>2, HandleHands DEF WindowHandles
<1>3. CASE Timer
  <2>1. PICK q \in cap.pending : cap' = [pressed |-> cap.pressed \ {q[1]}, pending |-> cap.pending \ {q}]
    BY <1>3 DEF Timer, Commits
  <2>2. \A c : Down(c)' => Down(c)
    BY <2>1 DEF Down
  <2> QED
    BY <1>3, <2>1, <2>2, FewerHands DEF Timer, Types, CapTypes, Times
<1>4. CASE SessionMoves
  <2>1. cap'.pending = cap.pending /\ cap'.pressed \subseteq cap.pressed
    BY <1>4 DEF SessionMoves, Types, CapTypes
  <2>2. \A c : Down(c)' => Down(c)
    BY <2>1 DEF Down
  <2> QED
    BY <1>4, <2>1, <2>2, FewerHands DEF SessionMoves, Moves, Types, CapTypes, Times
<1>5. CASE /\ UNCHANGED <<front, capvars>>
           /\ moves' = moves \/ moves' = moves + 1
  BY <1>5, FewerHands DEF capvars, Down, Types, CapTypes, Times
<1>6. CASE PageMoves \/ GatewaySessionMoves \/ HandlerStep \/ KeyboardStep \/ UNCHANGED typingvars
  BY <1>5, <1>6 DEF PageMoves, GatewaySessionMoves, HandlerStep, KeyboardStep, Moves, capvars, typingvars
<1> QED
  BY <1>1, <1>2, <1>3, <1>4, <1>6 DEF TypingNext, WindowTimer

\* A strike that the window handles: nothing else is down but what was held when it was
\* made, and its own key is not, so its press is sent.
LEMMA StrikeSent ==
    ASSUME Types, Hands, HandlesStrike
    PROVE  LET e == Head(xevents)
           IN  /\ cap'.pressed \subseteq e.hand \cup {e.code}
               /\ live => Len(wire') > 0 /\ Last(wire') = KeyMsg(e.code, TRUE)
<1> DEFINE e == Head(xevents)
<1>1. xevents \in Seq(Event(front)) /\ xevents # << >> /\ Strikes(e) /\ OnKeyDown(e) /\ CapTypes
  BY DEF Types, CapTypes, HandlesStrike, WindowHandles, Handle, Strikes
<1>2. e = xevents[1] /\ Len(xevents) \in Nat \ {0} /\ e \in Event(front)
  BY <1>1
<1> HIDE DEF e
<1>3. e.code \in Codes
  BY <1>1, <1>2 DEF Strikes, Event, FocusOut
<1>4. /\ e.code \notin e.hand /\ \A c \in Codes : MayBeDown(xevents, c, 1) => c \in e.hand
      /\ \A q \in cap.pending : q[2] < e.time
  BY <1>1, <1>2 DEF Hands, Struck, Timed, Before
<1>5. \A c : Down(c) => MayBeDown(xevents, c, 1)
  BY DEF MayBeDown
<1>6. /\ \A c \in cap'.pressed \ {e.code} : Down(c)
      /\ Down(e.code) \/ <<e.code, e.time>> \in cap.pending
         \/ \E ms \in Seq(Msg) : Say(ms \o <<KeyMsg(e.code, TRUE)>>)
  BY <1>1, PressDowns DEF Down
<1>7. cap'.pressed \subseteq e.hand \cup {e.code}
  <2>1. \A c : Down(c) => c \in Codes
    BY <1>1 DEF Down, CapTypes
  <2> QED
    BY <1>4, <1>5, <1>6, <2>1
<1>8. <<e.code, e.time>> \notin cap.pending
  <2>1. <<e.code, e.time>>[2] = e.time /\ e.time \in Nat
    BY <1>1, <1>2 DEF Strikes, Event, FocusOut, Times
  <2> QED
    BY <1>4, <2>1
<1>9. PICK ms \in Seq(Msg) : Say(ms \o <<KeyMsg(e.code, TRUE)>>)
  BY <1>3, <1>4, <1>5, <1>6, <1>8
<1>10. ASSUME live
       PROVE  Len(wire') > 0 /\ Last(wire') = KeyMsg(e.code, TRUE)
  <2>1. PICK m \in Msg : m = KeyMsg(e.code, TRUE)
    BY <1>3, MsgTypes, Zenon
  <2>2. wire' = wire \o (ms \o <<m>>) /\ wire \in Seq(Msg)
    BY <1>9, <1>10, <2>1 DEF Say, Types, KbTypes
  <2>3. Len(wire') = Len(wire) + Len(ms) + 1 /\ wire'[Len(wire')] = m /\ Len(wire) \in Nat /\ Len(ms) \in Nat
    BY <2>2
  <2> QED
    BY <2>1, <2>3 DEF Last
<1> QED
  BY <1>7, <1>10 DEF e

\* Every strike is typed, together with those keys that were held when it was made and
\* with no other (provider.py, on_key_down, on_key_up and the delayed releases), of a
\* user who on Windows holds one variant of a modifier at a time.
THEOREM StrikesAreTyped == TypingSpec /\ []OneVariant => TypedAsStruck /\ EveryStrikeIsTyped
<1>1. TypingInit => Types /\ Hands
  <2> SUFFICES ASSUME TypingInit PROVE Hands
    BY TypesInit
  <2>1. cap = [pressed |-> {}, pending |-> {}] /\ xevents = << >>
    BY DEF TypingInit, CapInit
  <2>2. \A c, i : i \in {1} => ~ MayBeDown(xevents, c, i)
    BY <2>1 DEF MayBeDown, Down
  <2> QED
    BY <2>1, <2>2 DEF Hands, Struck, Apart, InHand, Timed, HeldBack
<1>2. Types /\ Hands /\ OneVariant' /\ [TypingNext]_typingvars => Types' /\ Hands'
  BY TypesStep, HandsStep
<1>3. Types /\ Hands /\ [TypingNext]_typingvars =>
         [HandlesStrike => LET e == Head(xevents)
                           IN  cap'.pressed \subseteq e.hand \cup {e.code}]_typingvars
  BY StrikeSent
<1>4. Types /\ Hands /\ [TypingNext]_typingvars =>
         [HandlesStrike /\ live =>
             Len(wire') > 0 /\ Last(wire') = KeyMsg(Head(xevents).code, TRUE)]_typingvars
  BY StrikeSent
<1> QED
  BY <1>1, <1>2, <1>3, <1>4, PTL DEF TypingSpec, TypedAsStruck, EveryStrikeIsTyped
=============================================================================
