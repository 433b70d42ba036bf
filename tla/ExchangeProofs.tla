--------------------------- MODULE ExchangeProofs ----------------------------
(***************************************************************************)
(* The exchange of a provider with the receiver it is attached to, in both *)
(* systems of clients (modules KbRelay and GatewayRelay).                  *)
(*                                                                         *)
(* While the provider has been told of its attachment and the connections  *)
(* hold, what it sends reaches the receiver by one way: the requests the   *)
(* relay has not read, behind the messages the receiver has not consumed.  *)
(* What is on that way decides what the two ends will agree on when        *)
(* everything has arrived: the session, and the keys that are down.        *)
(*                                                                         *)
(* The second part is about being reminded: a client that has asked for a  *)
(* receiver and is not told of its attachment still has, on that way or in *)
(* what it has been told, the list that makes it ask once more.            *)
(***************************************************************************)
EXTENDS ClientProofs

-----------------------------------------------------------------------------
(* What is on the way.                                                     *)

\* What is on that way: blobs, and announcements that end the receiver's session.
Reset == [step |-> "reset"]

Burden == Blobs \cup {Reset}

Cargo(m) == CASE m.type \in {"e2e", "blob"} -> m.body
              [] m.type \in {"attached", "detached"} -> Reset
              [] OTHER -> Err

Cargos(q) == [i \in 1..Len(q) |-> Cargo(q[i])]

Hauled(q) == {Cargo(q[i]) : i \in 1..Len(q)}

Resets(b) == b.step \in {"hs1", "reset"}

Calm(w) == \A i \in 1..Len(w) : ~ Resets(w[i])

\* The handshake h is on the way w, once, and nothing behind it ends the session it starts.
Asked(w, h) == \E i \in 1..Len(w) :
    w[i] = h /\ \A j \in 1..Len(w) : (j > i => ~ Resets(w[j])) /\ (w[j] = h => j = i)

\* Nothing on the way is sealed for a session of p that began with e.
Unsealed(w, p, e) == \A i \in 1..Len(w) : w[i].step = "ct" => \A r \in Receivers : w[i].keys # <<p, e, r>>

Presses(b, k, c) == /\ b.step = "ct" /\ b.keys = k
                    /\ b.plain.type = "key" /\ b.plain.down /\ b.plain.code = c
Lifts(b, k, c) == /\ b.step = "ct" /\ b.keys = k
                  /\ \/ b.plain.type = "release_all"
                     \/ b.plain.type = "key" /\ ~ b.plain.down /\ b.plain.code = c

\* The keys that are down once what is on the way has arrived.
LeftDown(down, w, k) ==
    {c \in KeyCodes : \/ c \in down /\ \A j \in 1..Len(w) : ~ Lifts(w[j], k, c)
                      \/ \E i \in 1..Len(w) : /\ Presses(w[i], k, c)
                                              /\ \A j \in (i+1)..Len(w) : ~ Lifts(w[j], k, c)}

\* The replies among bs to a handshake of p with e are of receivers in R.
RepliedBy(bs, p, e, R) == \A b \in bs : b.step = "hs2" /\ b.answers = <<p, e>> => b.pub \in R

\* How far the session s of p with receiver r has come: its handshake is on the way,
\* was refused, or was accepted; then the keys that will be down are held by the user.
Exchange(p, r, s, w, d, bs, pressed) ==
    \/ /\ s.with = None /\ RepliedBy(bs, p, s.epk, {})
       /\ Unsealed(w, p, s.epk) /\ Asked(w, Hs1(p, s.epk))
    \/ /\ s.with = None /\ RepliedBy(bs, p, s.epk, {})
       /\ Calm(w) /\ d.session = None
    \/ /\ s.with \in {None, r} /\ RepliedBy(bs, p, s.epk, {r})
       /\ Calm(w) /\ d.session = <<p, s.epk>>
       /\ s.with = None => Unsealed(w, p, s.epk) /\ d.down = {}
       /\ LeftDown(d.down, w, <<p, s.epk, r>>) \subseteq pressed

-----------------------------------------------------------------------------
(* Sequences of blobs.                                                     *)

\* A pair and one more.
LEMMA AppendPair ==
    ASSUME NEW S, NEW a \in S, NEW b \in S, NEW c \in S
    PROVE  Append(<<a, b>>, c) = <<a, b, c>>
<1>1. <<a, b>> \in Seq(S) /\ <<a, b, c>> \in Seq(S) /\ Len(<<a, b>>) = 2 /\ Len(<<a, b, c>>) = 3
  OBVIOUS
<1>2. /\ Append(<<a, b>>, c) \in Seq(S) /\ Len(Append(<<a, b>>, c)) = 3
      /\ Append(<<a, b>>, c)[1] = a /\ Append(<<a, b>>, c)[2] = b /\ Append(<<a, b>>, c)[3] = c
  BY <1>1, AppendProperties
<1>3. \A i \in 1..3 : i = 1 \/ i = 2 \/ i = 3
  OBVIOUS
<1>4. \A i \in 1..3 : Append(<<a, b>>, c)[i] = <<a, b, c>>[i]
  BY <1>2, <1>3
<1> QED
  BY <1>1, <1>2, <1>4, SeqEqual

\* The first of a sequence of blobs and the rest.
LEMMA TailParts ==
    ASSUME NEW w \in Seq(Burden), w # << >>
    PROVE  /\ Tail(w) \in Seq(Burden) /\ Len(Tail(w)) = Len(w) - 1 /\ Len(w) \in Nat
           /\ 1 \in 1..Len(w) /\ Head(w) = w[1] /\ Head(w) \in Burden
           /\ \A i \in 1..Len(Tail(w)) : i + 1 \in 1..Len(w) /\ Tail(w)[i] = w[i + 1]
           /\ \A i \in 2..Len(w) : i - 1 \in 1..Len(Tail(w)) /\ Tail(w)[i - 1] = w[i]
OBVIOUS

\* A sequence of blobs and one more.
LEMMA AppendParts ==
    ASSUME NEW w \in Seq(Burden), NEW b \in Burden
    PROVE  /\ Append(w, b) \in Seq(Burden) /\ Len(Append(w, b)) = Len(w) + 1 /\ Len(w) \in Nat
           /\ Append(w, b)[Len(w) + 1] = b
           /\ \A i \in 1..Len(w) : Append(w, b)[i] = w[i]
           /\ \A i \in 1..(Len(w) + 1) : i \in 1..Len(w) \/ i = Len(w) + 1
BY AppendProperties

\* What goes on when the first blob has been handled.
LEMMA CalmTail ==
    ASSUME NEW w \in Seq(Burden), w # << >>
    PROVE  /\ Calm(w) => Calm(Tail(w)) /\ ~ Resets(Head(w))
           /\ \A p, e : Unsealed(w, p, e) => /\ Unsealed(Tail(w), p, e)
                                             /\ Head(w).step = "ct" => \A r \in Receivers : Head(w).keys # <<p, e, r>>
           /\ \A h : Asked(w, h) /\ Head(w) # h => Asked(Tail(w), h)
           /\ \A h : Asked(w, h) /\ Head(w) = h => Calm(Tail(w))
<1>0. /\ Len(Tail(w)) = Len(w) - 1 /\ Len(w) \in Nat
      /\ 1 \in 1..Len(w) /\ Head(w) = w[1]
      /\ \A i \in 1..Len(Tail(w)) : i + 1 \in 1..Len(w) /\ Tail(w)[i] = w[i + 1]
      /\ \A i \in 2..Len(w) : i - 1 \in 1..Len(Tail(w)) /\ Tail(w)[i - 1] = w[i]
  BY TailParts
<1> DEFINE t == Tail(w)
           n == Len(w)
           m == Len(Tail(w))
<1>1. Calm(w) => Calm(t) /\ ~ Resets(Head(w))
  BY <1>0 DEF Calm
<1>2. ASSUME NEW p, NEW e, Unsealed(w, p, e)
      PROVE  Unsealed(t, p, e) /\ (Head(w).step = "ct" => \A r \in Receivers : Head(w).keys # <<p, e, r>>)
  BY <1>0, <1>2 DEF Unsealed
<1>3. ASSUME NEW h, Asked(w, h)
      PROVE  /\ Head(w) # h => Asked(t, h)
             /\ Head(w) = h => Calm(t)
  <2>1. PICK i \in 1..Len(w) : w[i] = h /\ \A j \in 1..Len(w) : (j > i => ~ Resets(w[j])) /\ (w[j] = h => j = i)
    BY <1>3 DEF Asked
  <2>2. ASSUME Head(w) # h
        PROVE  Asked(t, h)
    <3>1. i \in 2..n /\ i - 1 \in 1..m /\ t[i - 1] = h
      BY <1>0, <2>1, <2>2
    <3>2. \A j \in 1..m : (j > i - 1 => ~ Resets(t[j])) /\ (t[j] = h => j = i - 1)
      BY <1>0, <2>1
    <3> QED
      BY <3>1, <3>2 DEF Asked
  <2>3. ASSUME Head(w) = h
        PROVE  Calm(t)
    <3>1. i = 1
      BY <1>0, <2>1, <2>3
    <3> QED
      BY <1>0, <2>1, <3>1 DEF Calm
  <2> QED
    BY <2>2, <2>3
<1> QED
  BY <1>1, <1>2, <1>3

\* What goes on when a blob is sent.
LEMMA CalmAppend ==
    ASSUME NEW w \in Seq(Burden), NEW b \in Burden
    PROVE  /\ Calm(w) /\ ~ Resets(b) => Calm(Append(w, b))
           /\ \A h : Resets(h) /\ Asked(w, h) /\ ~ Resets(b) => Asked(Append(w, b), h)
           /\ \A p, e : Unsealed(w, p, e) /\ (b.step = "ct" => \A r \in Receivers : b.keys # <<p, e, r>>)
                           => Unsealed(Append(w, b), p, e)
<1>0. /\ Len(Append(w, b)) = Len(w) + 1 /\ Len(w) \in Nat
      /\ Append(w, b)[Len(w) + 1] = b
      /\ \A i \in 1..Len(w) : Append(w, b)[i] = w[i]
      /\ \A i \in 1..(Len(w) + 1) : i \in 1..Len(w) \/ i = Len(w) + 1
  BY AppendParts
<1> DEFINE a == Append(w, b)
           n == Len(w)
<1> HIDE DEF a, n
<1>1. Len(a) = n + 1 /\ n \in Nat /\ a[n + 1] = b /\ (\A i \in 1..n : a[i] = w[i])
      /\ \A i \in 1..(n + 1) : i \in 1..n \/ i = n + 1
  BY <1>0 DEF a, n
<1>2. Calm(w) /\ ~ Resets(b) => Calm(a)
  BY <1>1 DEF Calm, n
<1>3. ASSUME NEW h, Resets(h), Asked(w, h), ~ Resets(b)
      PROVE  Asked(a, h)
  <2>1. PICK i \in 1..n : w[i] = h /\ \A j \in 1..n : (j > i => ~ Resets(w[j])) /\ (w[j] = h => j = i)
    BY <1>3 DEF Asked, n
  <2>2. i \in 1..(n + 1) /\ a[i] = h
    BY <1>1, <2>1
  <2>3. \A j \in 1..(n + 1) : (j > i => ~ Resets(a[j])) /\ (a[j] = h => j = i)
    BY <1>1, <1>3, <2>1
  <2> QED
    BY <1>1, <2>2, <2>3 DEF Asked
<1>4. ASSUME NEW p, NEW e, Unsealed(w, p, e), b.step = "ct" => \A r \in Receivers : b.keys # <<p, e, r>>
      PROVE  Unsealed(a, p, e)
  BY <1>1, <1>4 DEF Unsealed, n
<1> QED
  BY <1>2, <1>3, <1>4 DEF a

\* A handshake that is new is asked for once it is sent.
LEMMA AskedLast ==
    ASSUME NEW w \in Seq(Burden), NEW h \in Burden, \A i \in 1..Len(w) : w[i] # h
    PROVE  Asked(Append(w, h), h)
<1>1. /\ Len(Append(w, h)) = Len(w) + 1 /\ Len(w) \in Nat
      /\ Append(w, h)[Len(w) + 1] = h
      /\ \A i \in 1..Len(w) : Append(w, h)[i] = w[i]
      /\ \A i \in 1..(Len(w) + 1) : i \in 1..Len(w) \/ i = Len(w) + 1
  BY AppendParts
<1>2. Len(w) + 1 \in 1..Len(Append(w, h))
  BY <1>1
<1>3. \A j \in 1..Len(Append(w, h)) : ~ (j > Len(w) + 1) /\ (Append(w, h)[j] = h => j = Len(w) + 1)
  BY <1>1
<1> QED
  BY <1>1, <1>2, <1>3 DEF Asked

\* Handling the first blob changes nothing of what will be down in the end.
LEMMA LeftDownTail ==
    ASSUME NEW w \in Seq(Burden), w # << >>, NEW k, NEW down, NEW down2,
           IF Head(w).step = "ct" /\ Head(w).keys = k
           THEN Head(w).plain \in Plain /\ down2 = Typed(down, Head(w).plain) ELSE down2 = down
    PROVE  LeftDown(down2, Tail(w), k) \subseteq LeftDown(down, w, k)
<1>0. /\ Len(Tail(w)) = Len(w) - 1 /\ Len(w) \in Nat
      /\ 1 \in 1..Len(w) /\ Head(w) = w[1]
      /\ \A i \in 1..Len(Tail(w)) : i + 1 \in 1..Len(w) /\ Tail(w)[i] = w[i + 1]
      /\ \A i \in 2..Len(w) : i - 1 \in 1..Len(Tail(w)) /\ Tail(w)[i - 1] = w[i]
  BY TailParts
<1> DEFINE t == Tail(w)
           n == Len(w)
           m == Len(Tail(w))
<1> SUFFICES ASSUME NEW c \in KeyCodes, c \in LeftDown(down2, t, k)
             PROVE  c \in LeftDown(down, w, k)
  BY DEF LeftDown
<1>1. CASE c \in down2 /\ \A j \in 1..m : ~ Lifts(t[j], k, c)
  <2>1. \A j \in 2..n : ~ Lifts(w[j], k, c)
    BY <1>0, <1>1
  <2>2. CASE Presses(w[1], k, c)
    <3>1. \A j \in (1+1)..n : ~ Lifts(w[j], k, c)
      BY <2>1
    <3> QED
      BY <1>0, <2>2, <3>1 DEF LeftDown
  <2>3. CASE ~ Presses(w[1], k, c)
    <3>1. c \in down /\ ~ Lifts(w[1], k, c)
      BY <1>0, <1>1, <2>3 DEF Presses, Lifts, Typed, Plain, ReleaseAll
    <3>2. \A j \in 1..n : ~ Lifts(w[j], k, c)
      BY <1>0, <2>1, <3>1
    <3> QED
      BY <3>1, <3>2 DEF LeftDown
  <2> QED
    BY <2>2, <2>3
<1>2. ASSUME NEW i \in 1..m, Presses(t[i], k, c), \A j \in (i+1)..m : ~ Lifts(t[j], k, c)
      PROVE  c \in LeftDown(down, w, k)
  <2>1. i + 1 \in 1..n /\ Presses(w[i + 1], k, c)
    BY <1>0, <1>2
  <2>2. ASSUME NEW j \in ((i+1)+1)..n
        PROVE  ~ Lifts(w[j], k, c)
    <3>1. j \in 2..n /\ j - 1 \in (i+1)..m
      BY <1>0
    <3> QED
      BY <1>0, <1>2, <3>1
  <2> QED
    BY <2>1, <2>2 DEF LeftDown
<1> QED
  BY <1>1, <1>2 DEF LeftDown

\* A blob that is sent counts like one that has arrived.
LEMMA LeftDownAppend ==
    ASSUME NEW w \in Seq(Burden), NEW k, NEW b \in Burden, NEW down
    PROVE  LeftDown(down, Append(w, b), k)
             \subseteq IF b.step = "ct" /\ b.keys = k THEN Typed(LeftDown(down, w, k), b.plain)
                       ELSE LeftDown(down, w, k)
<1> DEFINE a == Append(w, b)
           n == Len(w)
<1>0. Len(a) = n + 1 /\ n \in Nat /\ a[n + 1] = b /\ (\A i \in 1..n : a[i] = w[i])
      /\ \A i \in 1..(n + 1) : i \in 1..n \/ i = n + 1
  BY AppendParts
<1> HIDE DEF a
<1> SUFFICES ASSUME NEW c \in KeyCodes, c \in LeftDown(down, a, k)
             PROVE  c \in IF b.step = "ct" /\ b.keys = k THEN Typed(LeftDown(down, w, k), b.plain)
                          ELSE LeftDown(down, w, k)
  BY DEF LeftDown, a
<1>1. Presses(b, k, c) \/ (c \in LeftDown(down, w, k) /\ ~ Lifts(b, k, c))
  <2>1. CASE c \in down /\ \A j \in 1..(n + 1) : ~ Lifts(a[j], k, c)
    <3>1. (\A j \in 1..n : ~ Lifts(w[j], k, c)) /\ ~ Lifts(b, k, c)
      <4>1. n + 1 \in 1..(n + 1) /\ \A j \in 1..n : j \in 1..(n + 1)
        BY <1>0
      <4> QED
        BY <1>0, <2>1, <4>1
    <3> QED
      BY <2>1, <3>1 DEF LeftDown
  <2>2. ASSUME NEW i \in 1..(n + 1), Presses(a[i], k, c), \A j \in (i+1)..(n + 1) : ~ Lifts(a[j], k, c), ~ Presses(b, k, c)
        PROVE  c \in LeftDown(down, w, k) /\ ~ Lifts(b, k, c)
    <3>1. i \in 1..n /\ n + 1 \in (i+1)..(n + 1)
      BY <1>0, <2>2
    <3>2. \A j \in (i+1)..n : j \in 1..n /\ j \in (i+1)..(n + 1)
      BY <1>0, <3>1
    <3>3. \A j \in (i+1)..n : ~ Lifts(w[j], k, c)
      BY <1>0, <2>2, <3>2
    <3>4. Presses(w[i], k, c) /\ ~ Lifts(b, k, c)
      BY <1>0, <2>2, <3>1
    <3> QED
      BY <3>1, <3>3, <3>4 DEF LeftDown
  <2> QED
    BY <1>0, <2>1, <2>2 DEF LeftDown
<1> QED
  BY <1>1 DEF Presses, Lifts, Typed, Burden, Blobs, Plain, ReleaseAll, Err, Reset

-----------------------------------------------------------------------------
(* The exchange goes on.                                                   *)

\* A handshake has been accepted.
Begins(b, d2) == b.step = "hs1" /\ d2 = [Idle(TRUE) EXCEPT !.session = <<b.pub, b.epk>>]

\* What receiver r, in state d, makes of b.
Takes(r, b, d, d2) ==
    \/ b.step = "err" /\ d2 = d
    \/ b.step \in {"reset", "hs1"} /\ d2 = Idle(TRUE)
    \/ Begins(b, d2)
    \/ /\ b.step = "ct"
       /\ d2 = IF d.session # None /\ b.keys = Append(d.session, r)
               THEN [d EXCEPT !.down = Typed(@, b.plain)] ELSE d

\* Some of the replies are gone, keys are held that were not before.
LEMMA ExchangeMonotone ==
    ASSUME NEW p, NEW r, NEW s, NEW w, NEW d, NEW bs, NEW pressed, Exchange(p, r, s, w, d, bs, pressed),
           NEW bs2, \A b \in bs2 : b.step = "hs2" /\ b.answers = <<p, s.epk>> => b \in bs,
           NEW pressed2, pressed \subseteq pressed2
    PROVE  Exchange(p, r, s, w, d, bs2, pressed2)
<1>1. \A R : RepliedBy(bs, p, s.epk, R) => RepliedBy(bs2, p, s.epk, R)
  BY DEF RepliedBy
<1> QED
  BY <1>1 DEF Exchange

\* What is known of a blob by its step.
LEMMA BurdenParts ==
    ASSUME NEW b \in Burden
    PROVE  /\ b.step = "hs1" => b = Hs1(b.pub, b.epk) /\ b.pub \in Providers /\ b.epk \in Ephemerals
           /\ b.step = "ct" => b.plain \in Plain /\ b.keys \in Providers \X Ephemerals \X Receivers
           /\ b.step = "reset" => b = Reset
BY DEF Burden, Blobs, Err, Reset, Hs1

\* The receiver handles the first message on the way.
LEMMA ExchangeTaken ==
    ASSUME NEW p \in Providers, NEW r \in Receivers, NEW s \in Session, NEW w \in Seq(Burden), w # << >>,
           NEW d \in Device, NEW d2, NEW bs, NEW pressed, Exchange(p, r, s, w, d, bs, pressed),
           Takes(r, Head(w), d, d2),
           NEW bs2, \A b \in bs2 : b.step = "hs2" /\ b.answers = <<p, s.epk>> =>
                       b \in bs \/ (Begins(Head(w), d2) /\ b = Hs2(r, Head(w).pub, Head(w).epk))
    PROVE  Exchange(p, r, s, Tail(w), d2, bs2, pressed)
<1> DEFINE b == Head(w)
           e == s.epk
           t == Tail(w)
           h == Hs1(p, e)
           k == <<p, e, r>>
<1>1. /\ b \in Burden
      /\ Calm(w) => Calm(t) /\ ~ Resets(b)
      /\ Unsealed(w, p, e) => Unsealed(t, p, e) /\ (b.step = "ct" => b.keys # k)
      /\ Asked(w, h) /\ b # h => Asked(t, h)
      /\ Asked(w, h) /\ b = h => Calm(t)
  BY TailParts, CalmTail
<1>2. /\ b.step = "hs1" => b = Hs1(b.pub, b.epk)
      /\ b.step = "ct" => b.plain \in Plain
  BY <1>1, BurdenParts
<1>3. ASSUME NEW R, RepliedBy(bs, p, e, R), r \in R \/ ~ (b = h /\ Begins(b, d2))
      PROVE  RepliedBy(bs2, p, e, R)
  <2> SUFFICES ASSUME NEW x \in bs2, x.step = "hs2", x.answers = <<p, e>>
               PROVE  x.pub \in R
    BY DEF RepliedBy
  <2>1. CASE x \in bs
    BY <1>3, <2>1 DEF RepliedBy
  <2>2. CASE Begins(b, d2) /\ x = Hs2(r, b.pub, b.epk)
    <3>1. x.pub = r /\ b.pub = p /\ b.epk = e
      BY <2>2 DEF Hs2
    <3>2. b = h
      BY <1>2, <2>2, <3>1 DEF Begins
    <3> QED
      BY <1>3, <2>2, <3>1, <3>2
  <2> QED
    BY <2>1, <2>2
<1>4. h.step = "hs1" /\ h.pub = p /\ h.epk = e /\ Resets(h)
  BY DEF Hs1, Resets
<1>5. /\ Idle(TRUE).session = None /\ Idle(TRUE).down = {}
      /\ \A x : [Idle(TRUE) EXCEPT !.session = x].session = x /\ [Idle(TRUE) EXCEPT !.session = x].down = {}
  BY DEF Idle
<1> HIDE DEF b, t, h, k
<1>6. CASE s.with = None /\ RepliedBy(bs, p, e, {}) /\ Unsealed(w, p, e) /\ Asked(w, h)
  <2>1. CASE b # h
    BY <1>1, <1>3, <1>6, <2>1 DEF Exchange, t, h
  <2>2. CASE b = h
    <3>1. Calm(t) /\ Unsealed(t, p, e)
      BY <1>1, <1>6, <2>2
    <3>2. CASE Begins(b, d2)
      <4>1. RepliedBy(bs2, p, e, {r})
        BY <1>3, <1>6 DEF RepliedBy
      <4>2. d2.session = <<p, e>> /\ d2.down = {}
        BY <1>4, <1>5, <2>2, <3>2 DEF Begins
      <4>3. LeftDown(d2.down, t, k) = {}
        BY <3>1, <4>2 DEF LeftDown, Presses, Unsealed, k
      <4> QED
        BY <1>6, <3>1, <4>1, <4>2, <4>3 DEF Exchange, t, k
    <3>3. CASE ~ Begins(b, d2)
      <4>1. d2 = Idle(TRUE)
        BY <1>4, <2>2, <3>3 DEF Takes, b
      <4>2. RepliedBy(bs2, p, e, {})
        BY <1>3, <1>6, <3>3
      <4> QED
        BY <1>5, <1>6, <3>1, <4>1, <4>2 DEF Exchange, t
    <3> QED
      BY <3>2, <3>3
  <2> QED
    BY <2>1, <2>2
<1>7. ASSUME Calm(w)
      PROVE  Calm(t) /\ ~ Resets(b) /\ b # h /\ \A R : RepliedBy(bs, p, e, R) => RepliedBy(bs2, p, e, R)
  BY <1>1, <1>3, <1>4, <1>7
<1>8. CASE s.with = None /\ RepliedBy(bs, p, e, {}) /\ Calm(w) /\ d.session = None
  <2>1. d2 = d
    BY <1>7, <1>8 DEF Takes, Resets, Begins, b
  <2> QED
    BY <1>7, <1>8, <2>1 DEF Exchange, t
<1>9. CASE /\ s.with \in {None, r} /\ RepliedBy(bs, p, e, {r})
           /\ Calm(w) /\ d.session = <<p, e>>
           /\ s.with = None => Unsealed(w, p, e) /\ d.down = {}
           /\ LeftDown(d.down, w, k) \subseteq pressed
  <2>1. <<p, e>> # None /\ Append(<<p, e>>, r) = k
    <3>1. e \in Ephemerals
      BY DEF Session
    <3>2. Append(<<p, e>>, r) = k
      <4> DEFINE S == {p, e, r}
      <4> QED
        BY AppendPair, p \in S, e \in S, r \in S DEF k
    <3> QED
      BY <3>1, <3>2, ClientsAssumption
  <2>2. d2 = d \/ (b.step = "ct" /\ b.keys = k /\ d2 = [d EXCEPT !.down = Typed(@, b.plain)])
    BY <1>7, <1>9, <2>1 DEF Takes, Resets, Begins, b
  <2>3. d2.session = d.session /\ (d2 = d \/ d2.down = Typed(d.down, b.plain))
    BY <2>2 DEF Device
  <2>4. IF b.step = "ct" /\ b.keys = k
        THEN b.plain \in Plain /\ d2.down = Typed(d.down, b.plain) ELSE d2.down = d.down
    <3>1. CASE b.step = "ct" /\ b.keys = k
      <4>1. d2 = [d EXCEPT !.down = Typed(@, b.plain)]
        BY <1>9, <2>1, <3>1 DEF Takes, Begins, b
      <4> QED
        BY <1>2, <3>1, <4>1 DEF Device
    <3>2. CASE ~ (b.step = "ct" /\ b.keys = k)
      BY <2>2, <3>2
    <3> QED
      BY <3>1, <3>2
  <2>5. LeftDown(d2.down, t, k) \subseteq LeftDown(d.down, w, k)
    BY <2>4, LeftDownTail DEF b, t
  <2>6. s.with = None => Unsealed(t, p, e) /\ d2.down = {}
    BY <1>1, <1>9, <2>4
  <2> QED
    BY <1>7, <1>9, <2>3, <2>5, <2>6 DEF Exchange, t, k
<1> QED
  BY <1>6, <1>8, <1>9 DEF Exchange, h, k

\* A session that may be used is with the receiver p is attached to.
LEMMA ExchangeWith ==
    ASSUME NEW p \in Providers, NEW r \in Receivers, NEW s \in Session, NEW w, NEW d, NEW bs, NEW pressed,
           Exchange(p, r, s, w, d, bs, pressed), s.with # None
    PROVE  s.with = r
BY DEF Exchange

\* While the session may not be used, nothing that p's user does matters.
LEMMA ExchangeSilent ==
    ASSUME NEW p \in Providers, NEW r \in Receivers, NEW s \in Session, NEW w, NEW d, NEW bs, NEW pressed,
           Exchange(p, r, s, w, d, bs, pressed), s.with = None, NEW pressed2
    PROVE  Exchange(p, r, s, w, d, bs, pressed2)
<1>1. ASSUME Unsealed(w, p, s.epk), d.down = {}
      PROVE  LeftDown(d.down, w, <<p, s.epk, r>>) = {}
  BY <1>1 DEF LeftDown, Presses, Unsealed
<1> QED
  BY <1>1 DEF Exchange

\* Something is typed and sent.
LEMMA ExchangeTyped ==
    ASSUME NEW p \in Providers, NEW r \in Receivers, NEW s \in Session, NEW w \in Seq(Burden), NEW d,
           NEW bs, NEW pressed, Exchange(p, r, s, w, d, bs, pressed), s.with # None,
           NEW m \in Plain, NEW pressed2, Typed(pressed, m) \subseteq pressed2
    PROVE  Exchange(p, r, s, Append(w, Sealed(p, s.epk, s.with, m)), d, bs, pressed2)
<1> DEFINE k == <<p, s.epk, r>>
           b == Sealed(p, s.epk, r, m)
<1>1. s.with = r /\ s.epk \in Ephemerals
  BY ExchangeWith DEF Session
<1>2. b \in Burden /\ b.step = "ct" /\ b.keys = k /\ b.plain = m /\ ~ Resets(b)
  BY <1>1, RequestTypes DEF Burden, Sealed, Resets
<1>3. Calm(w) /\ RepliedBy(bs, p, s.epk, {r}) /\ d.session = <<p, s.epk>> /\ LeftDown(d.down, w, k) \subseteq pressed
  BY DEF Exchange
<1> HIDE DEF b
<1>4. LeftDown(d.down, Append(w, b), k) \subseteq Typed(LeftDown(d.down, w, k), m)
  BY <1>2, LeftDownAppend
<1>5. Typed(LeftDown(d.down, w, k), m) \subseteq Typed(pressed, m)
  BY <1>3 DEF Typed, Plain, ReleaseAll
<1>6. Calm(Append(w, b))
  BY <1>2, <1>3, CalmAppend
<1> QED
  BY <1>1, <1>3, <1>4, <1>5, <1>6 DEF Exchange, b

\* The reply p has waited for is its receiver's.
LEMMA ExchangeAnswered ==
    ASSUME NEW p \in Providers, NEW r \in Receivers, NEW s \in Session, NEW w \in Seq(Burden), NEW d,
           NEW bs, NEW pressed, Exchange(p, r, s, w, d, bs, pressed), s.with = None,
           NEW b \in bs, b.step = "hs2", b.answers = <<p, s.epk>>
    PROVE  b.pub = r /\ Exchange(p, r, [s EXCEPT !.with = r], w, d, bs, pressed)
<1>1. /\ b.pub = r /\ RepliedBy(bs, p, s.epk, {r})
      /\ Calm(w) /\ d.session = <<p, s.epk>>
      /\ LeftDown(d.down, w, <<p, s.epk, r>>) \subseteq pressed
  BY DEF Exchange, RepliedBy
<1>2. [s EXCEPT !.with = r].epk = s.epk /\ [s EXCEPT !.with = r].with = r /\ r # None
  BY HubAssumption DEF Session, Peers
<1> QED
  BY <1>1, <1>2 DEF Exchange

\* A handshake with an ephemeral key nobody has seen is sent.
LEMMA ExchangeBegins ==
    ASSUME NEW p \in Providers, NEW r \in Receivers, NEW e \in Ephemerals, NEW w \in Seq(Burden), NEW d,
           NEW bs, NEW pressed, RepliedBy(bs, p, e, {}), Unsealed(w, p, e),
           \A i \in 1..Len(w) : w[i] # Hs1(p, e)
    PROVE  Exchange(p, r, [epk |-> e, with |-> None], Append(w, Hs1(p, e)), d, bs, pressed)
<1> DEFINE h == Hs1(p, e)
<1>1. h \in Burden /\ h.step # "ct"
  BY RequestTypes DEF Burden, Hs1
<1> HIDE DEF h
<1>2. Asked(Append(w, h), h) /\ Unsealed(Append(w, h), p, e)
  BY <1>1, AskedLast, CalmAppend DEF h
<1> QED
  BY <1>2 DEF Exchange, h

\* Nothing is on the way any more.
LEMMA ExchangeArrived ==
    ASSUME NEW p \in Providers, NEW r \in Receivers, NEW s \in Session, NEW d \in Device,
           NEW bs, NEW pressed, Exchange(p, r, s, << >>, d, bs, pressed)
    PROVE  /\ s.with # None => s.with = r /\ d.session = <<p, s.epk>>
           /\ d.session # None /\ d.down # {} => s.with = r /\ d.session = <<p, s.epk>> /\ d.down \subseteq pressed
<1>1. LeftDown(d.down, << >>, <<p, s.epk, r>>) = d.down
  BY DEF LeftDown, Device
<1>2. ~ Asked(<< >>, Hs1(p, s.epk))
  BY DEF Asked
<1> QED
  BY <1>1, <1>2 DEF Exchange

-----------------------------------------------------------------------------
(* What the relay's steps leave of the way.                                *)

NoNews(q) == \A i \in 1..Len(q) : ~ Announces(q[i])

\* An open connection on which no news of the attachment is under way.
Hears(l) == l.state = "open" /\ NoNews(l.queue)

\* What p sends to the receiver it is attached to, and what that has not consumed.
Way(p) == Cargos(link[target[p]].queue) \o Cargos(up[p])

\* What is on its way to p or may still get there, and what other receivers may get.
Replied(p) == Hauled(link[p].queue) \cup UNION {Hauled(up[x]) : x \in Peers}

Astray(p) == UNION {Hauled(link[x].queue) : x \in Receivers \ {target[p]}}

\* All news has reached p, and what p sends reaches its receiver.
Still(p) == /\ Hears(link[p])
            /\ \A i \in 1..Len(up[p]) : up[p][i].type # "select"
            /\ target[p] # None => link[target[p]].state = "open" /\ rx[target[p]].connected

\* The relay does nothing that p is told of, or that its receiver notices.
Placid(p, bs) == /\ target'[p] = target[p] /\ Hears(link[p])
                 /\ target[p] # None => link'[target[p]] = link[target[p]]
                 /\ \A x \in Receivers \cup {p} : Hauled(link'[x].queue) \subseteq Hauled(link[x].queue) \cup bs

\* What p's session depends on has not changed.
Onward(p) == /\ Still(p)
             /\ target'[p] = target[p]
             /\ target[p] # None => Way(p)' = Way(p)
             /\ \A e : Hs1(p, e) \in Astray(p)' => Hs1(p, e) \in Astray(p)
             /\ \A b \in Replied(p)' : \A e :
                   b.step = "hs2" /\ b.answers = <<p, e>> => b \in Replied(p) \/ Hs1(p, e) \in Astray(p)

Dull == {Err, Reset}

\* What messages and requests haul: announcements and lists haul nothing that is sealed,
\* asked or answered.
LEMMA CargoFacts ==
    /\ Cargo(Notice) \in Dull /\ Cargo(Detached) \in Dull
    /\ \A n : Cargo(Selected(n)) \in Dull /\ Cargo(SelectReq(n)) \in Dull
    /\ \A p : Cargo(Attached(p)) \in Dull
    /\ \A rs : Cargo(ReceiversMsg(rs)) \in Dull
    /\ \A x, b : Cargo(E2E(x, b)) = b
    /\ \A b : Cargo(Blob(b)) = b
    /\ \A b \in Dull : b.step \notin {"hs1", "hs2", "ct"}
BY DEF Cargo, Notice, Detached, Selected, SelectReq, Attached, ReceiversMsg, E2E, Blob, Dull, Err, Reset

\* Whatever is hauled is a blob, or ends a session.
LEMMA CargoTypes == \A m \in Message \cup Request : Cargo(m) \in Burden
BY ClientsAssumption, RequestTypes DEF Cargo, Burden, Message, Request, Notice, Detached

\* Connection.send and p's news.
LEMMA PutHears ==
    ASSUME NEW l \in Link, NEW m \in Message, Hears(Put(l, m))
    PROVE  Hears(l) /\ ~ Announces(m)
<1>1. /\ l.queue \in Seq(Message) /\ Append(l.queue, m) \in Seq(Message)
      /\ Len(Append(l.queue, m)) = Len(l.queue) + 1 /\ Len(l.queue) \in Nat
      /\ Append(l.queue, m)[Len(l.queue) + 1] = m
      /\ \A i \in 1..Len(l.queue) : Append(l.queue, m)[i] = l.queue[i]
  BY AppendProperties DEF Link
<1>2. l.state = "open" /\ Put(l, m).queue = Append(l.queue, m)
  BY DEF Put, Hears, Link
<1>3. \A i \in 1..Len(l.queue) : i \in 1..(Len(l.queue) + 1)
  BY <1>1
<1>4. Len(l.queue) + 1 \in 1..(Len(l.queue) + 1)
  BY <1>1
<1> QED
  BY <1>1, <1>2, <1>3, <1>4 DEF Hears, NoNews

\* Connection.send and what is under way.
LEMMA PutHauls ==
    ASSUME NEW l \in Link, NEW m \in Message
    PROVE  Hauled(Put(l, m).queue) \subseteq Hauled(l.queue) \cup {Cargo(m)}
<1>1. /\ l.queue \in Seq(Message) /\ Append(l.queue, m) \in Seq(Message)
      /\ Len(Append(l.queue, m)) = Len(l.queue) + 1 /\ Len(l.queue) \in Nat
      /\ Append(l.queue, m)[Len(l.queue) + 1] = m
      /\ \A i \in 1..Len(l.queue) : Append(l.queue, m)[i] = l.queue[i]
      /\ \A i \in 1..(Len(l.queue) + 1) : i \in 1..Len(l.queue) \/ i = Len(l.queue) + 1
  BY AppendProperties DEF Link
<1>2. Put(l, m).queue = l.queue \/ Put(l, m).queue = Append(l.queue, m)
  BY DEF Put, Link
<1> QED
  BY <1>1, <1>2 DEF Hauled

\* Telling something that hauls nothing, ...
LEMMA TellHauls ==
    ASSUME NEW links \in Links, NEW S, NEW m \in Message, Cargo(m) \in Dull, NEW x \in Peers
    PROVE  /\ Hauled(Tell(links, S, m)[x].queue) \subseteq Hauled(links[x].queue) \cup Dull
           /\ Hears(Tell(links, S, m)[x]) => Hears(links[x]) /\ (x \in S => ~ Announces(m))
<1>1. links[x] \in Link
  BY DEF Links, Link
<1> QED
  BY <1>1, TellAt, PutHears, PutHauls

\* ... closing connections, ...
LEMMA CloseHauls ==
    ASSUME NEW links \in Links, NEW S, NEW x \in Peers
    PROVE  /\ Close(links, S)[x].queue = links[x].queue
           /\ Hears(Close(links, S)[x]) => Hears(links[x])
           /\ x \notin S => Close(links, S)[x] = links[x]
BY DEF Close, Hears, Links

\* ... and the list of receivers.
LEMMA BroadcastHauls ==
    ASSUME NEW links \in Links, NEW rs, NEW x \in Peers
    PROVE  /\ Hauled(Broadcast(links, rs)[x].queue) \subseteq Hauled(links[x].queue) \cup Dull
           /\ Hears(Broadcast(links, rs)[x]) => Hears(links[x])
           /\ x \in Receivers => Broadcast(links, rs)[x] = links[x]
<1>1. ReceiversMsg(rs) \in Message /\ Cargo(ReceiversMsg(rs)) \in Dull
  BY MessageTypes, CargoFacts
<1> QED
  BY <1>1, TellHauls, TellAt, HubAssumption DEF Broadcast, Peers

\* A connection that begins or ends carries no blob.
LEMMA NewHauls ==
    ASSUME NEW links \in Links, NEW x \in Peers, NEW l \in {Accepted, NoLink}
    PROVE  /\ [links EXCEPT ![x] = l] \in Links
           /\ \A y \in Peers \ {x} : [links EXCEPT ![x] = l][y] = links[y]
           /\ \A y \in Peers : Hauled([links EXCEPT ![x] = l][y].queue) \subseteq Hauled(links[y].queue) \cup Dull
<1>1. l \in Link
  <2>1. << >> \in Seq(Message) /\ <<Notice>> \in Seq(Message)
    BY MessageTypes
  <2>2. Accepted \in Link
    BY <2>1 DEF Link, Accepted
  <2>3. NoLink \in Link
    BY <2>1 DEF Link, NoLink
  <2> QED
    BY <2>2, <2>3
<1>2. Hauled(l.queue) \subseteq Dull
  BY CargoFacts DEF Hauled, Accepted, NoLink
<1> QED
  BY <1>1, <1>2 DEF Links, Link

\* run_receiver starts.
LEMMA ReceiverJoinPlacid ==
    ASSUME TypeOK, Attachments, NEW r \in Receivers, ReceiverJoin(r), NEW p \in Providers, Hears(link'[p])
    PROVE  Placid(p, Dull) /\ target[p] # r
<1> DEFINE old == {receivers[Name(r)]} \ {None}
           a == [link EXCEPT ![r] = Accepted]
           b == Tell(a, Dropped(old), Selected(None))
           c == Close(b, old)
<1>0. link \in Links /\ Selected(None) \in Message /\ Cargo(Selected(None)) \in Dull /\ Announces(Selected(None))
  BY MessageTypes, CargoFacts, SaysWho DEF TypeOK, Links
<1>1. /\ a \in Links /\ \A y \in Peers \ {r} : a[y] = link[y]
      /\ \A y \in Peers : Hauled(a[y].queue) \subseteq Hauled(link[y].queue) \cup Dull
  BY <1>0, NewHauls DEF Peers
<1>2. b \in Links /\ \A y \in Peers : Hauled(b[y].queue) \subseteq Hauled(a[y].queue) \cup Dull
  <2> HIDE DEF a
  <2>1. b \in Links
    BY <1>0, <1>1, TellFacts
  <2> QED
    BY <1>0, <1>1, <2>1, TellHauls
<1>3. c \in Links /\ \A y \in Peers : c[y].queue = b[y].queue
  BY <1>2, CloseHauls, CloseFacts
<1>4. link' = Broadcast(c, receivers')
  BY DEF ReceiverJoin
<1>5. Hears(c[p])
  BY <1>3, <1>4, BroadcastHauls DEF Peers
<1>6. Hears(a[p]) /\ p \notin Dropped(old)
  <2>1. Hears(b[p])
    <3> HIDE DEF b
    <3> QED
      BY <1>2, <1>5, CloseHauls DEF Peers
  <2> HIDE DEF a
  <2> QED
    BY <1>0, <1>1, <2>1, TellHauls DEF Peers
<1>7. p # r /\ Hears(link[p])
  BY <1>1, <1>6, HubAssumption DEF Peers
<1>8. target'[p] = target[p]
  BY <1>6 DEF ReceiverJoin, DetachReceivers, TypeOK
<1>9. ASSUME target[p] # None
      PROVE  link'[target[p]] = link[target[p]] /\ target[p] # r
  <2> DEFINE t == target[p]
  <2>1. t \in Receivers /\ provider[t] = p /\ link[t].state # "none"
    BY <1>9 DEF TypeOK, Attachments, AttachmentSymmetric, AttachedIsRegistered, Connected
  <2>2. t # r /\ t \notin Dropped(old) /\ t \in Peers
    BY <2>1, HubAssumption DEF ReceiverJoin, Dropped, Peers
  <2>3. t \notin old
    BY <1>6, <2>1 DEF Dropped
  <2>4. c[t] = b[t] /\ a[t] = link[t]
    <3> HIDE DEF a, b
    <3> QED
      BY <1>1, <1>2, <2>2, <2>3, CloseHauls
  <2>5. b[t] = a[t]
    BY <2>2 DEF Tell
  <2>6. link'[t] = c[t]
    <3> HIDE DEF c
    <3> QED
      BY <1>3, <1>4, <2>1, <2>2, BroadcastHauls
  <2> QED
    BY <2>2, <2>4, <2>5, <2>6
<1>10. \A y \in Peers : Hauled(c[y].queue) = Hauled(b[y].queue)
  BY <1>3
<1>11. \A y \in Peers : Hauled(link'[y].queue) \subseteq Hauled(link[y].queue) \cup Dull
  <2> HIDE DEF a, b, c
  <2>1. \A y \in Peers : Hauled(link'[y].queue) \subseteq Hauled(c[y].queue) \cup Dull
    BY <1>3, <1>4, BroadcastHauls
  <2> QED
    BY <1>1, <1>2, <1>10, <2>1
<1>12. target[p] # r
  BY <1>9, HubAssumption DEF Peers
<1> QED
  BY <1>7, <1>8, <1>9, <1>11, <1>12 DEF Placid, Peers

\* run_receiver ends.
LEMMA ReceiverLeavePlacid ==
    ASSUME TypeOK, Attachments, NEW r \in Receivers, ReceiverLeave(r), NEW p \in Providers, Hears(link'[p])
    PROVE  Placid(p, Dull) /\ target[p] # r
<1> DEFINE gone == [link EXCEPT ![r] = NoLink]
           b == Tell(gone, Dropped({r}), Selected(None))
<1>0. link \in Links /\ Selected(None) \in Message /\ Cargo(Selected(None)) \in Dull /\ Announces(Selected(None))
  BY MessageTypes, CargoFacts, SaysWho DEF TypeOK, Links
<1>1. /\ gone \in Links /\ \A y \in Peers \ {r} : gone[y] = link[y]
      /\ \A y \in Peers : Hauled(gone[y].queue) \subseteq Hauled(link[y].queue) \cup Dull
  BY <1>0, NewHauls DEF Peers
<1>2. b \in Links /\ \A y \in Peers : Hauled(b[y].queue) \subseteq Hauled(gone[y].queue) \cup Dull
  BY <1>0, <1>1, TellHauls, TellFacts
<1>3. p # r /\ p \in Peers
  BY HubAssumption DEF Peers
<1>4. CASE Registered(r) # {}
  <2>1. link' = Broadcast(b, receivers') /\ DetachReceivers({r})
    BY <1>4 DEF ReceiverLeave
  <2>2. Hears(b[p])
    BY <1>2, <1>3, <2>1, BroadcastHauls
  <2>3. Hears(gone[p]) /\ p \notin Dropped({r})
    BY <1>0, <1>1, <1>3, <2>2, TellHauls, ZenonT(40)
  <2>4. target'[p] = target[p]
    BY <2>1, <2>3 DEF DetachReceivers, TypeOK
  <2>5. target[p] # r
    BY <2>3 DEF Dropped, Attachments, AttachmentSymmetric
  <2>6. ASSUME target[p] # None
        PROVE  link'[target[p]] = link[target[p]]
    <3> DEFINE t == target[p]
    <3>1. t \in Receivers /\ t \in Peers /\ t \notin Dropped({r}) /\ t # r
      BY <2>5, <2>6, HubAssumption DEF TypeOK, Dropped, Peers
    <3>2. b[t] = gone[t]
      BY <3>1 DEF Tell
    <3>3. gone[t] = link[t]
      BY <1>1, <3>1
    <3> HIDE DEF b
    <3> QED
      BY <1>2, <2>1, <3>1, <3>2, <3>3, BroadcastHauls
  <2>7. \A y \in Peers : Hauled(link'[y].queue) \subseteq Hauled(link[y].queue) \cup Dull
    <3> HIDE DEF gone, b
    <3>1. \A y \in Peers : Hauled(link'[y].queue) \subseteq Hauled(b[y].queue) \cup Dull
      BY <1>2, <2>1, BroadcastHauls
    <3> QED
      BY <1>1, <1>2, <3>1
  <2> QED
    BY <1>1, <1>3, <2>3, <2>4, <2>5, <2>6, <2>7 DEF Placid, Peers
<1>5. CASE Registered(r) = {}
  <2>1. link' = gone /\ target' = target
    BY <1>5 DEF ReceiverLeave
  <2>2. target[p] # r
    <3>1. target[p] = r => receivers[Name(r)] = r
      BY DEF Attachments, AttachedIsRegistered
    <3>2. Name(r) \in Names
      BY HubAssumption DEF Name, Peers
    <3> QED
      BY <1>5, <3>1, <3>2 DEF Registered
  <2>3. target[p] # None => target[p] \in Peers \ {r}
    BY <2>2 DEF TypeOK, Peers
  <2> QED
    BY <1>1, <1>3, <2>1, <2>2, <2>3 DEF Placid, Peers
<1> QED
  BY <1>4, <1>5

-----------------------------------------------------------------------------
(* The way.                                                                *)

\* What a queue hauls, one by one, ...
LEMMA CargosParts ==
    ASSUME NEW q \in Seq(Message \cup Request)
    PROVE  /\ Cargos(q) \in Seq(Burden) /\ Len(Cargos(q)) = Len(q)
           /\ \A i \in 1..Len(q) : Cargos(q)[i] = Cargo(q[i])
<1>1. \A i \in 1..Len(q) : Cargo(q[i]) \in Burden
  BY ElementOfSeq, CargoTypes
<1>2. Len(q) \in Nat
  OBVIOUS
<1>3. Cargos(q) \in Seq(Burden)
  BY <1>1, <1>2, IsASeq DEF Cargos
<1> QED
  BY <1>2, <1>3 DEF Cargos

\* ... without the first, ...
LEMMA CargosTail ==
    ASSUME NEW q \in Seq(Message \cup Request), q # << >>
    PROVE  Cargos(q) # << >> /\ Cargos(Tail(q)) = Tail(Cargos(q)) /\ Head(Cargos(q)) = Cargo(Head(q))
<1> DEFINE M == Message \cup Request
           t == Tail(q)
           c == Cargos(q)
           d == Cargos(t)
<1> HIDE DEF M
<1>1. /\ t \in Seq(M) /\ Len(t) = Len(q) - 1 /\ Len(q) \in Nat
      /\ \A i \in 1..Len(t) : t[i] = q[i + 1] /\ i + 1 \in 1..Len(q)
      /\ 1 \in 1..Len(q) /\ Head(q) = q[1]
  <2>1. q \in Seq(M)
    BY DEF M
  <2> QED
    BY <2>1
<1>2. c \in Seq(Burden) /\ Len(c) = Len(q) /\ \A i \in 1..Len(q) : c[i] = Cargo(q[i])
  BY CargosParts
<1>3. d \in Seq(Burden) /\ Len(d) = Len(q) - 1 /\ \A i \in 1..Len(d) : d[i] = Cargo(t[i])
  BY <1>1, CargosParts DEF M
<1> HIDE DEF t, c, d
<1>4. /\ c # << >> /\ Head(c) = c[1] /\ Tail(c) \in Seq(Burden) /\ Len(Tail(c)) = Len(q) - 1
      /\ \A i \in 1..Len(Tail(c)) : Tail(c)[i] = c[i + 1]
  BY <1>1, <1>2
<1>5. \A i \in 1..Len(d) : d[i] = Tail(c)[i]
  BY <1>1, <1>2, <1>3, <1>4
<1>6. d = Tail(c)
  BY <1>3, <1>4, <1>5, SeqEqual
<1> QED
  BY <1>1, <1>2, <1>4, <1>6 DEF c, d, t

\* ... and with one more.
LEMMA CargosAppend ==
    ASSUME NEW q \in Seq(Message \cup Request), NEW m \in Message \cup Request
    PROVE  Cargos(Append(q, m)) = Append(Cargos(q), Cargo(m)) /\ Cargo(m) \in Burden
<1> DEFINE M == Message \cup Request
           a == Append(q, m)
           c == Cargos(q)
           d == Cargos(a)
           b == Append(c, Cargo(m))
<1> HIDE DEF M
<1>1. /\ a \in Seq(M) /\ Len(a) = Len(q) + 1 /\ Len(q) \in Nat /\ a[Len(q) + 1] = m
      /\ \A i \in 1..Len(q) : a[i] = q[i]
  BY AppendProperties DEF M
<1>2. c \in Seq(Burden) /\ Len(c) = Len(q) /\ \A i \in 1..Len(q) : c[i] = Cargo(q[i])
  BY CargosParts
<1>3. d \in Seq(Burden) /\ Len(d) = Len(q) + 1 /\ \A i \in 1..Len(a) : d[i] = Cargo(a[i])
  BY <1>1, CargosParts DEF M
<1>4. Cargo(m) \in Burden
  BY CargoTypes
<1> HIDE DEF a, c, d
<1>5. /\ b \in Seq(Burden) /\ Len(b) = Len(c) + 1 /\ b[Len(c) + 1] = Cargo(m)
      /\ \A i \in 1..Len(c) : b[i] = c[i]
  BY <1>2, <1>4, AppendProperties
<1> HIDE DEF b
<1>6. \A i \in 1..(Len(q) + 1) : i \in 1..Len(q) \/ i = Len(q) + 1
  BY <1>1
<1>7. \A i \in 1..Len(d) : d[i] = b[i]
  BY <1>1, <1>2, <1>3, <1>5, <1>6
<1>8. d = b
  BY <1>2, <1>3, <1>5, <1>7, SeqEqual
<1> QED
  BY <1>4, <1>8 DEF a, b, c, d

\* The queue of a connection and the requests of a client.
LEMMA WayTypes ==
    ASSUME NEW q \in Seq(Message), NEW u \in Seq(Request)
    PROVE  /\ q \in Seq(Message \cup Request) /\ u \in Seq(Message \cup Request)
           /\ Cargos(q) \in Seq(Burden) /\ Cargos(u) \in Seq(Burden) /\ Cargos(q) \o Cargos(u) \in Seq(Burden)
<1> DEFINE M == Message \cup Request
<1>1. Message \subseteq M /\ Request \subseteq M
  OBVIOUS
<1> HIDE DEF M
<1>2. q \in Seq(M) /\ u \in Seq(M)
  BY <1>1
<1>3. Cargos(q) \in Seq(Burden) /\ Cargos(u) \in Seq(Burden)
  BY <1>2, CargosParts DEF M
<1> QED
  BY <1>2, <1>3, ConcatProperties DEF M

\* The relay forwards a request: it stays on the way.
LEMMA WayForwarded ==
    ASSUME NEW q \in Seq(Message), NEW u \in Seq(Request), u # << >>, NEW m \in Message, Cargo(m) = Cargo(Head(u))
    PROVE  Cargos(Append(q, m)) \o Cargos(Tail(u)) = Cargos(q) \o Cargos(u)
<1> DEFINE c == Cargos(q)
           d == Cargos(u)
<1>1. c \in Seq(Burden) /\ d \in Seq(Burden)
  BY WayTypes
<1>2. Cargos(Append(q, m)) = Append(c, Cargo(m)) /\ Cargo(m) \in Burden
  BY WayTypes, CargosAppend
<1>3. d # << >> /\ Cargos(Tail(u)) = Tail(d) /\ Head(d) = Cargo(m)
  BY WayTypes, CargosTail
<1> HIDE DEF c, d
<1>4. Append(c, Head(d)) = c \o <<Head(d)>> /\ <<Head(d)>> \in Seq(Burden) /\ Tail(d) \in Seq(Burden)
  <2>1. Head(d) \in Burden /\ Tail(d) \in Seq(Burden)
    BY <1>1, <1>3, HeadTailProperties
  <2>2. <<Head(d)>> \in Seq(Burden)
    BY <2>1
  <2> QED
    BY <1>1, <2>1, <2>2, AppendIsConcat
<1>5. (c \o <<Head(d)>>) \o Tail(d) = c \o (<<Head(d)>> \o Tail(d))
  BY <1>1, <1>4, ConcatAssociative
<1>6. <<Head(d)>> \o Tail(d) = d
  BY <1>1, <1>3
<1> QED
  BY <1>2, <1>3, <1>4, <1>5, <1>6 DEF c, d

\* The receiver takes the first message.
LEMMA WayTaken ==
    ASSUME NEW q \in Seq(Message), NEW u \in Seq(Request), q # << >>
    PROVE  /\ Cargos(Tail(q)) \o Cargos(u) = Tail(Cargos(q) \o Cargos(u))
           /\ Cargos(q) \o Cargos(u) # << >> /\ Head(Cargos(q) \o Cargos(u)) = Cargo(Head(q))
<1> DEFINE c == Cargos(q)
           d == Cargos(u)
<1>1. c \in Seq(Burden) /\ d \in Seq(Burden)
  BY WayTypes
<1>2. c # << >> /\ Cargos(Tail(q)) = Tail(c) /\ Head(c) = Cargo(Head(q))
  BY WayTypes, CargosTail
<1> HIDE DEF c, d
<1>3. Len(c) >= 1 /\ Len(c \o d) = Len(c) + Len(d) /\ Len(d) \in Nat /\ c \o d \in Seq(Burden)
  BY <1>1, <1>2, ConcatProperties, EmptySeq
<1>4. c \o d # << >> /\ Head(c \o d) = Head(c)
  BY <1>1, <1>3
<1>5. Tail(c \o d) \in Seq(Burden) /\ Tail(c) \o d \in Seq(Burden)
  BY <1>1, <1>2, <1>4, HeadTailProperties, ConcatProperties
<1>6. Len(Tail(c \o d)) = Len(Tail(c) \o d)
  BY <1>1, <1>3, <1>4
<1>7. \A i \in 1..Len(Tail(c) \o d) : (Tail(c) \o d)[i] = Tail(c \o d)[i]
  BY <1>1, <1>3, <1>4
<1>8. Tail(c) \o d = Tail(c \o d)
  BY <1>5, <1>6, <1>7, SeqEqual
<1> QED
  BY <1>2, <1>4, <1>8 DEF c, d

\* The client sends one more request.
LEMMA WaySent ==
    ASSUME NEW q \in Seq(Message), NEW u \in Seq(Request), NEW m \in Request
    PROVE  Cargos(q) \o Cargos(u \o <<m>>) = Append(Cargos(q) \o Cargos(u), Cargo(m)) /\ Cargo(m) \in Burden
<1> DEFINE c == Cargos(q)
           d == Cargos(u)
           b == Cargo(m)
<1>1. c \in Seq(Burden) /\ d \in Seq(Burden) /\ c \o d \in Seq(Burden)
  BY WayTypes
<1>2. u \o <<m>> = Append(u, m)
  BY AppendIsConcat
<1>3. Cargos(Append(u, m)) = Append(d, b) /\ b \in Burden
  BY WayTypes, CargosAppend
<1> HIDE DEF c, d, b
<1>4. <<b>> \in Seq(Burden) /\ Append(d, b) = d \o <<b>> /\ Append(c \o d, b) = (c \o d) \o <<b>>
  BY <1>1, <1>3, AppendIsConcat
<1>5. c \o (d \o <<b>>) = (c \o d) \o <<b>>
  BY <1>1, <1>4, ConcatAssociative
<1> QED
  BY <1>2, <1>3, <1>4, <1>5 DEF c, d, b

\* What is hauled by part of a queue.
LEMMA HauledTail ==
    ASSUME NEW S, NEW q \in Seq(S), q # << >>
    PROVE  Hauled(Tail(q)) \subseteq Hauled(q) /\ Cargo(Head(q)) \in Hauled(q)
<1>1. /\ \A i \in 1..Len(Tail(q)) : Tail(q)[i] = q[i + 1] /\ i + 1 \in 1..Len(q)
      /\ 1 \in 1..Len(q) /\ Head(q) = q[1]
  OBVIOUS
<1> QED
  BY <1>1 DEF Hauled

\* What is hauled by a queue and one more.
LEMMA HauledSent ==
    ASSUME NEW S, NEW q \in Seq(S), NEW m \in S
    PROVE  Hauled(q \o <<m>>) \subseteq Hauled(q) \cup {Cargo(m)}
<1>1. /\ q \o <<m>> = Append(q, m)
      /\ Len(Append(q, m)) = Len(q) + 1 /\ Len(q) \in Nat /\ Append(q, m)[Len(q) + 1] = m
      /\ \A i \in 1..Len(q) : Append(q, m)[i] = q[i]
  BY AppendIsConcat, AppendProperties
<1>2. \A i \in 1..(Len(q) + 1) : i \in 1..Len(q) \/ i = Len(q) + 1
  BY <1>1
<1> QED
  BY <1>1, <1>2 DEF Hauled

-----------------------------------------------------------------------------
(* What other providers do.                                                *)

\* What select tells receivers: a provider that is to notice nothing does not.
LEMMA AnnouncePlacid ==
    ASSUME TypeOK, Attachments, NEW q \in Providers, NEW new \in Receivers \cup {None}, Retarget(q, new),
           NEW p \in Providers \ {q}, Hears(Announce(q, new)[p])
    PROVE  /\ Hears(link[p]) /\ target'[p] = target[p]
           /\ target[p] # None => Announce(q, new)[target[p]] = link[target[p]]
           /\ \A x \in Peers : Hauled(Announce(q, new)[x].queue) \subseteq Hauled(link[x].queue) \cup Dull
<1> DEFINE a == Tell(link, Left(q, new), Detached)
           b == Tell(a, Robbed(q, new), Selected(None))
           c == Tell(b, Gained(q, new), Attached(q))
<1>0. /\ link \in Links /\ Detached \in Message /\ Selected(None) \in Message /\ Attached(q) \in Message
      /\ Cargo(Detached) \in Dull /\ Cargo(Selected(None)) \in Dull /\ Cargo(Attached(q)) \in Dull
      /\ Announces(Selected(None)) /\ p \in Peers
  BY MessageTypes, CargoFacts, SaysWho DEF TypeOK, Links, Peers
<1>1. /\ a \in Links
      /\ \A x \in Peers : Hauled(a[x].queue) \subseteq Hauled(link[x].queue) \cup Dull
      /\ Hears(a[p]) => Hears(link[p])
  BY <1>0, TellHauls, TellFacts
<1>2. /\ b \in Links
      /\ \A x \in Peers : Hauled(b[x].queue) \subseteq Hauled(a[x].queue) \cup Dull
      /\ Hears(b[p]) => Hears(a[p]) /\ p \notin Robbed(q, new)
  <2> HIDE DEF a
  <2> QED
    BY <1>0, <1>1, TellHauls, TellFacts
<1>3. /\ \A x \in Peers : Hauled(c[x].queue) \subseteq Hauled(b[x].queue) \cup Dull
      /\ Hears(c[p]) => Hears(b[p])
  <2> HIDE DEF b
  <2> QED
    BY <1>0, <1>2, TellHauls
<1>4. Announce(q, new) = c
  BY DEF Announce
<1>5. p \notin Robbed(q, new) /\ Hears(link[p])
  BY <1>1, <1>2, <1>3, <1>4
<1>6. target'[p] = target[p]
  BY <1>5 DEF Retarget, TypeOK
<1>7. ASSUME target[p] # None
      PROVE  c[target[p]] = link[target[p]]
  <2> DEFINE t == target[p]
  <2>1. t \in Receivers /\ t \in Peers /\ provider[t] = p /\ t \notin Providers
    BY <1>7, HubAssumption DEF TypeOK, Attachments, AttachmentSymmetric, Peers
  <2>2. t \notin Left(q, new)
    BY <2>1 DEF Left
  <2>3. t \notin Gained(q, new)
    BY <1>5, <2>1 DEF Robbed
  <2>4. t \notin Robbed(q, new)
    BY <2>1 DEF Robbed
  <2> QED
    BY <2>1, <2>2, <2>3, <2>4 DEF Tell
<1>8. \A x \in Peers : Hauled(c[x].queue) \subseteq Hauled(link[x].queue) \cup Dull
  <2> HIDE DEF a, b, c
  <2> QED
    BY <1>1, <1>2, <1>3
<1> QED
  BY <1>4, <1>5, <1>6, <1>7, <1>8

\* The handler of a select, ...
LEMMA SelectPlacid ==
    ASSUME TypeOK, Attachments, NEW q \in Providers, NEW n \in Names \cup {None}, Select(q, n),
           NEW p \in Providers, Hears(link'[p])
    PROVE  Placid(p, Dull) /\ p # q
<1> DEFINE new == IF n \in Names THEN receivers[n] ELSE None
           reply == Selected(IF new = None THEN None ELSE n)
           a == Announce(q, new)
<1>1. new \in Receivers \cup {None} /\ Retarget(q, new) /\ link' = Tell(a, {q}, reply)
  BY DEF Select, TypeOK
<1>2. /\ reply \in Message /\ Announces(reply) /\ Cargo(reply) \in Dull /\ p \in Peers /\ q \notin Receivers
      /\ link \in Links /\ Receivers \cup {p} \subseteq Peers
  BY MessageTypes, SaysWho, CargoFacts, HubAssumption DEF Peers, TypeOK, Links
<1>3. a \in Links
  BY <1>2, AnnounceFacts
<1> HIDE DEF new, reply, a
<1>4. p # q /\ Hears(a[p]) /\ \A x \in Peers : Hauled(link'[x].queue) \subseteq Hauled(a[x].queue) \cup Dull
  BY <1>1, <1>2, <1>3, TellHauls
<1>5. /\ Hears(link[p]) /\ target'[p] = target[p]
      /\ target[p] # None => a[target[p]] = link[target[p]]
      /\ \A x \in Peers : Hauled(a[x].queue) \subseteq Hauled(link[x].queue) \cup Dull
  BY <1>1, <1>4, AnnouncePlacid DEF a
<1>6. target[p] # None => link'[target[p]] = a[target[p]]
  <2>1. target[p] # None => target[p] \in Peers /\ target[p] \notin {q}
    BY <1>2 DEF TypeOK, Peers
  <2> QED
    BY <1>1, <2>1, TellAt
<1>7. \A x \in Peers : Hauled(link'[x].queue) \subseteq Hauled(link[x].queue) \cup Dull
  BY <1>4, <1>5
<1> QED
  BY <1>2, <1>4, <1>5, <1>6, <1>7 DEF Placid

\* ... run_provider's end ...
LEMMA ProviderLeavePlacid ==
    ASSUME TypeOK, Attachments, NEW q \in Providers, ProviderLeave(q), NEW p \in Providers, Hears(link'[p])
    PROVE  Placid(p, Dull) /\ p # q
<1> DEFINE a == Announce(q, None)
<1>1. Retarget(q, None) /\ link' = [a EXCEPT ![q] = NoLink]
  BY DEF ProviderLeave
<1>2. link \in Links /\ Receivers \cup {p} \subseteq Peers /\ q \notin Receivers /\ q \in Peers
  BY HubAssumption DEF Peers, TypeOK, Links
<1>3. a \in Links
  BY <1>2, AnnounceFacts
<1>4. p # q
  BY <1>1, <1>2, <1>3 DEF Hears, NoLink, Links
<1>5. /\ \A x \in Peers \ {q} : link'[x] = a[x]
      /\ \A x \in Peers : Hauled(link'[x].queue) \subseteq Hauled(a[x].queue) \cup Dull
  <2> DEFINE l == [a EXCEPT ![q] = NoLink]
  <2> HIDE DEF a
  <2>1. /\ \A x \in Peers \ {q} : l[x] = a[x]
        /\ \A x \in Peers : Hauled(l[x].queue) \subseteq Hauled(a[x].queue) \cup Dull
    BY <1>2, <1>3, NewHauls
  <2> QED
    BY <1>1, <2>1
<1>6. Hears(a[p])
  BY <1>2, <1>4, <1>5
<1>7. /\ Hears(link[p]) /\ target'[p] = target[p]
      /\ target[p] # None => a[target[p]] = link[target[p]]
      /\ \A x \in Peers : Hauled(a[x].queue) \subseteq Hauled(link[x].queue) \cup Dull
  BY <1>1, <1>4, <1>6, AnnouncePlacid
<1>8. target[p] # None => target[p] \in Peers \ {q}
  BY <1>2 DEF TypeOK, Peers
<1>9. \A x \in Peers : Hauled(link'[x].queue) \subseteq Hauled(link[x].queue) \cup Dull
  <2> HIDE DEF a
  <2> QED
    BY <1>5, <1>7
<1> QED
  BY <1>2, <1>4, <1>5, <1>7, <1>8, <1>9 DEF Placid

\* ... and its start.
LEMMA ProviderJoinPlacid ==
    ASSUME TypeOK, NEW q \in Providers, ProviderJoin(q), NEW p \in Providers \ {q}, Hears(link'[p])
    PROVE  Placid(p, Dull)
<1> DEFINE a == [link EXCEPT ![q] = Accepted]
<1>1. link' = Tell(a, {q}, ReceiversMsg(receivers)) /\ target' = target
  BY DEF ProviderJoin
<1>2. q \notin Receivers /\ Receivers \cup {p} \subseteq Peers /\ link \in Links
  BY HubAssumption DEF Peers, TypeOK, Links
<1>3. \A x \in Peers \ {q} : link'[x] = link[x]
  BY <1>1, <1>2 DEF Tell, TypeOK
<1>4. target[p] # None => target[p] \in Peers \ {q}
  BY <1>2 DEF TypeOK, Peers
<1> QED
  BY <1>1, <1>2, <1>3, <1>4 DEF Placid

-----------------------------------------------------------------------------
(* The session goes on.                                                    *)

\* What changes for p when nothing changes that its session depends on.
LEMMA PlacidOnward ==
    ASSUME TypeOK, up \in Requests, NEW p \in Providers, NEW bs, Placid(p, bs), Still(p)', up'[p] = up[p],
           target[p] # None => rx'[target[p]].connected = rx[target[p]].connected,
           \A x \in Peers : Hauled(up'[x]) \subseteq Hauled(up[x]),
           \A b \in bs : /\ \A e : b # Hs1(p, e)
                         /\ b.step = "hs2" => b \in Replied(p)
    PROVE  Onward(p)
<1>1. target'[p] = target[p] /\ Hears(link[p])
  BY DEF Placid
<1>2. Still(p)
  BY <1>1 DEF Still, Placid
<1>3. target[p] # None => Way(p)' = Way(p)
  BY <1>1 DEF Placid, Way
<1>4. ASSUME NEW e, Hs1(p, e) \in Astray(p)'
      PROVE  Hs1(p, e) \in Astray(p)
  BY <1>1, <1>4 DEF Astray, Placid
<1>5. ASSUME NEW b \in Replied(p)', b.step = "hs2"
      PROVE  b \in Replied(p)
  BY <1>5 DEF Replied, Placid
<1> QED
  BY <1>1, <1>2, <1>3, <1>4, <1>5 DEF Onward

\* Announcements and lists are none of p's handshakes, nor replies.
LEMMA DullOnward ==
    ASSUME TypeOK, up \in Requests, NEW p \in Providers, Placid(p, Dull), Still(p)', up'[p] = up[p],
           target[p] # None => rx'[target[p]].connected = rx[target[p]].connected,
           \A x \in Peers : Hauled(up'[x]) \subseteq Hauled(up[x])
    PROVE  Onward(p)
<1>1. \A b \in Dull : b.step # "hs2" /\ \A e : b # Hs1(p, e)
  BY CargoFacts DEF Hs1
<1> QED
  BY <1>1, PlacidOnward

-----------------------------------------------------------------------------

\* The relay reads a request: what is left of it.
LEMMA RequestRead ==
    ASSUME up \in Requests, NEW x \in Peers, up[x] # << >>, up' = [up EXCEPT ![x] = Tail(@)]
    PROVE  /\ up[x] \in Seq(Request) /\ up'[x] = Tail(up[x]) /\ Head(up[x]) \in Made(x) /\ Head(up[x]) \in Request
           /\ \A y \in Peers : Hauled(up'[y]) \subseteq Hauled(up[y])
           /\ Cargo(Head(up[x])) \in Hauled(up[x])
           /\ \A y \in Peers \ {x} : up'[y] = up[y]
           /\ \A i \in 1..Len(up[x]) : \/ i = 1 /\ up[x][i] = Head(up[x])
                                       \/ i - 1 \in 1..Len(Tail(up[x])) /\ Tail(up[x])[i - 1] = up[x][i]
<1>1. up[x] \in Seq(Request) /\ up[x] \in Seq(Made(x))
  BY DEF Requests
<1>2. Head(up[x]) \in Made(x) /\ Head(up[x]) \in Request
  BY <1>1
<1>3. up'[x] = Tail(up[x]) /\ \A y \in Peers \ {x} : up'[y] = up[y]
  BY DEF Requests
<1>4. Hauled(Tail(up[x])) \subseteq Hauled(up[x]) /\ Cargo(Head(up[x])) \in Hauled(up[x])
  BY <1>1, HauledTail
<1>5. \A i \in 1..Len(up[x]) : \/ i = 1 /\ up[x][i] = Head(up[x])
                               \/ i - 1 \in 1..Len(Tail(up[x])) /\ Tail(up[x])[i - 1] = up[x][i]
  BY <1>1
<1> QED
  BY <1>1, <1>2, <1>3, <1>4, <1>5

\* A blob of p is forwarded: it stays on the way.
LEMMA ForwardOwn ==
    ASSUME TypeOK, Attachments, up \in Requests, NEW p \in Providers, up[p] # << >>, Head(up[p]).type = "blob",
           Forward(p, Head(up[p]).body), up' = [up EXCEPT ![p] = Tail(@)], UNCHANGED rx, Still(p)'
    PROVE  Onward(p)
<1> DEFINE t == target[p]
           b == Head(up[p]).body
           m == E2E(p, b)
<1>1. /\ t \in Receivers /\ t \in Peers /\ p \in Peers /\ p \notin Receivers
      /\ link' = Tell(link, {t}, m) /\ target' = target
  BY HubAssumption DEF Forward, Partner, TypeOK, Peers
<1>2. /\ up[p] \in Seq(Request) /\ up'[p] = Tail(up[p]) /\ Head(up[p]) \in Request
      /\ \A y \in Peers : Hauled(up'[y]) \subseteq Hauled(up[y])
      /\ \A i \in 1..Len(up[p]) : \/ i = 1 /\ up[p][i] = Head(up[p])
                                  \/ i - 1 \in 1..Len(Tail(up[p])) /\ Tail(up[p])[i - 1] = up[p][i]
  BY <1>1, RequestRead
<1>3. b \in Blobs /\ m \in Message /\ Cargo(m) = b /\ Cargo(Head(up[p])) = b
  BY <1>2, ClientsAssumption, MessageTypes, CargoFacts, <1>1 DEF Request, Cargo
<1>4. link'[t] = Put(link[t], m) /\ \A x \in Peers \ {t} : link'[x] = link[x]
  BY <1>1 DEF Tell
<1>5. link'[t].state = "open" /\ rx[t].connected /\ Hears(link'[p]) /\ \A i \in 1..Len(up'[p]) : up'[p][i].type # "select"
  <2>1. target'[p] = t /\ t # None
    BY <1>1, HubAssumption
  <2> HIDE DEF t
  <2> QED
    BY <2>1 DEF Still
<1>6. link[t].state = "open" /\ link'[t].queue = Append(link[t].queue, m) /\ link[t].queue \in Seq(Message)
  <2>1. link[t] \in Link
    BY <1>1 DEF TypeOK, Link
  <2> HIDE DEF m, t
  <2> QED
    BY <1>4, <1>5, <2>1 DEF Put, Link
<1>7. \A i \in 1..Len(up[p]) : up[p][i].type # "select"
  BY <1>2, <1>5
<1>8. Still(p)
  BY <1>1, <1>4, <1>5, <1>6, <1>7 DEF Still
<1>9. Way(p)' = Way(p)
  <2>1. Way(p)' = Cargos(Append(link[t].queue, m)) \o Cargos(Tail(up[p]))
    BY <1>1, <1>2, <1>6 DEF Way
  <2> HIDE DEF m, b
  <2>2. Way(p)' = Cargos(link[t].queue) \o Cargos(up[p])
    BY <1>2, <1>3, <1>6, <2>1, WayForwarded
  <2> QED
    BY <2>2 DEF Way
<1>10. Astray(p)' = Astray(p)
  <2>1. \A x \in Receivers \ {t} : x \in Peers \ {t} /\ link'[x] = link[x]
    BY <1>4 DEF Peers
  <2>2. target'[p] = t /\ target[p] = t
    BY <1>1
  <2> HIDE DEF t
  <2> QED
    BY <2>1, <2>2 DEF Astray
<1>11. \A c \in Replied(p)' : c \in Replied(p)
  BY <1>1, <1>2, <1>4 DEF Replied
<1> QED
  BY <1>1, <1>8, <1>9, <1>10, <1>11 DEF Onward

\* So does one of another provider: it goes to another receiver.
LEMMA ForwardOther ==
    ASSUME TypeOK, Attachments, up \in Requests, NEW p \in Providers, NEW q \in Providers \ {p},
           up[q] # << >>, Head(up[q]).type = "blob",
           Forward(q, Head(up[q]).body), up' = [up EXCEPT ![q] = Tail(@)], UNCHANGED rx, Still(p)'
    PROVE  Onward(p)
<1> DEFINE t == target[q]
           b == Head(up[q]).body
           m == E2E(q, b)
<1>1. /\ t \in Receivers /\ t \in Peers /\ p \in Peers /\ q \in Peers /\ p # t
      /\ link' = Tell(link, {t}, m) /\ target' = target
  BY HubAssumption DEF Forward, Partner, TypeOK, Peers
<1>2. /\ Head(up[q]) \in Made(q) /\ Head(up[q]) \in Request
      /\ \A y \in Peers : Hauled(up'[y]) \subseteq Hauled(up[y])
      /\ \A y \in Peers \ {q} : up'[y] = up[y]
      /\ Cargo(Head(up[q])) \in Hauled(up[q])
  BY <1>1, RequestRead
<1>3. b \in Blobs /\ m \in Message /\ Cargo(m) = b /\ Cargo(Head(up[q])) = b
  BY <1>2, ClientsAssumption, MessageTypes, CargoFacts, <1>1 DEF Request, Cargo
<1>4. \A e : b # Hs1(p, e)
  BY <1>2 DEF Made, Hs1
<1>5. link'[t] = Put(link[t], m) /\ \A x \in Peers \ {t} : link'[x] = link[x]
  BY <1>1 DEF Tell
<1>6. Hauled(link'[t].queue) \subseteq Hauled(link[t].queue) \cup {b}
  <2>1. link[t] \in Link
    BY <1>1 DEF TypeOK, Link
  <2> HIDE DEF m, t
  <2> QED
    BY <1>3, <1>5, <2>1, PutHauls
<1>7. target[p] # t
  BY <1>1 DEF Attachments, AttachmentSymmetric, TypeOK
<1>8. Hears(link'[p])
  BY DEF Still
<1>9. target[p] # None => target[p] \in Peers \ {t}
  BY <1>7 DEF TypeOK, Peers
<1>10. Placid(p, {b})
  <2> HIDE DEF t, b, m
  <2>1. link'[p] = link[p]
    BY <1>1, <1>5
  <2>2. \A x \in Receivers \cup {p} : Hauled(link'[x].queue) \subseteq Hauled(link[x].queue) \cup {b}
    <3>1. \A x \in Receivers \cup {p} : x \in Peers
      BY DEF Peers
    <3> QED
      BY <1>5, <1>6, <3>1
  <2> QED
    BY <1>1, <1>5, <1>8, <1>9, <2>1, <2>2 DEF Placid
<1>11. b \in Replied(p)
  BY <1>1, <1>2, <1>3 DEF Replied
<1> HIDE DEF b
<1>12. \A c \in {b} : (\A e : c # Hs1(p, e)) /\ (c.step = "hs2" => c \in Replied(p))
  BY <1>4, <1>11
<1>13. up'[p] = up[p]
  BY <1>1, <1>2
<1>14. target[p] # None => rx'[target[p]].connected = rx[target[p]].connected
  OBVIOUS
<1> HIDE DEF t, m
<1> QED
  BY <1>2, <1>10, <1>12, <1>13, <1>14, PlacidOnward

\* A receiver's reply goes to the provider it is attached to.
LEMMA ForwardReply ==
    ASSUME TypeOK, Attachments, up \in Requests, NEW p \in Providers, NEW r \in Receivers,
           up[r] # << >>, Head(up[r]).type = "blob",
           Forward(r, Head(up[r]).body), up' = [up EXCEPT ![r] = Tail(@)], UNCHANGED rx, Still(p)'
    PROVE  Onward(p)
<1> DEFINE z == provider[r]
           b == Head(up[r]).body
           m == E2E(r, b)
<1>1. /\ z \in Providers /\ z \in Peers /\ p \in Peers /\ r \in Peers /\ z \notin Receivers /\ p # r
      /\ link' = Tell(link, {z}, m) /\ target' = target
  BY HubAssumption DEF Forward, Partner, TypeOK, Peers
<1>2. /\ Head(up[r]) \in Made(r) /\ Head(up[r]) \in Request
      /\ \A y \in Peers : Hauled(up'[y]) \subseteq Hauled(up[y])
      /\ \A y \in Peers \ {r} : up'[y] = up[y]
      /\ Cargo(Head(up[r])) \in Hauled(up[r])
  BY <1>1, RequestRead
<1>3. b \in Blobs /\ m \in Message /\ Cargo(m) = b /\ Cargo(Head(up[r])) = b /\ ~ Announces(m)
  BY <1>2, ClientsAssumption, MessageTypes, CargoFacts, SaysNothing, <1>1 DEF Request, Cargo
<1>4. \A e : b # Hs1(p, e)
  BY <1>1, <1>2 DEF Made, Hs1
<1>5. link'[z] = Put(link[z], m) /\ \A x \in Peers \ {z} : link'[x] = link[x]
  BY <1>1 DEF Tell
<1>6. /\ Hauled(link'[z].queue) \subseteq Hauled(link[z].queue) \cup {b}
      /\ Hears(link'[z]) => Hears(link[z])
  <2>1. link[z] \in Link
    BY <1>1 DEF TypeOK, Link
  <2> HIDE DEF m, z
  <2> QED
    BY <1>3, <1>5, <2>1, PutHauls, PutHears
<1>7. Hears(link'[p])
  BY DEF Still
<1>8. target[p] # None => target[p] \in Peers \ {z}
  BY <1>1 DEF TypeOK, Peers
<1>9. Placid(p, {b})
  <2> HIDE DEF z, b, m
  <2>1. Hears(link[p])
    BY <1>1, <1>5, <1>6, <1>7
  <2>2. \A x \in Receivers \cup {p} : Hauled(link'[x].queue) \subseteq Hauled(link[x].queue) \cup {b}
    <3>1. \A x \in Receivers \cup {p} : x \in Peers
      BY DEF Peers
    <3> QED
      BY <1>5, <1>6, <3>1
  <2> QED
    BY <1>1, <1>5, <1>8, <2>1, <2>2 DEF Placid
<1>10. b \in Replied(p)
  BY <1>1, <1>2, <1>3 DEF Replied
<1> HIDE DEF b
<1>11. \A c \in {b} : (\A e : c # Hs1(p, e)) /\ (c.step = "hs2" => c \in Replied(p))
  BY <1>4, <1>10
<1> QED
  BY <1>1, <1>2, <1>9, <1>11, PlacidOnward

\* Whatever the relay's handlers do, p's session goes on while p is to notice nothing.
LEMMA ServesOnward ==
    ASSUME TypeOK, Attachments, up \in Requests, NEW p \in Providers, NEW x \in Peers, Serves(x),
           UNCHANGED rx, Still(p)'
    PROVE  Onward(p)
<1>0. Hears(link'[p]) /\ p \in Peers
  BY DEF Still, Peers
<1>1. CASE ServerReads(x)
  <2> DEFINE m == Head(up[x])
  <2>1. /\ up[x] # << >> /\ up' = [up EXCEPT ![x] = Tail(@)]
        /\ m \in Request
        /\ \A y \in Peers : Hauled(up'[y]) \subseteq Hauled(up[y])
        /\ \A y \in Peers \ {x} : up'[y] = up[y]
    BY <1>1, RequestRead DEF ServerReads
  <2>2. CASE m.type = "select" /\ x \in Providers /\ Select(x, m.receiver)
    <3>1. m.receiver \in Names \cup {None}
      BY <2>1, <2>2 DEF Request
    <3>2. Placid(p, Dull) /\ p # x
      BY <1>0, <2>2, <3>1, SelectPlacid
    <3> QED
      BY <1>0, <2>1, <3>2, DullOnward
  <2>3. CASE m.type = "blob" /\ Forward(x, m.body)
    BY <1>0, <2>1, <2>3, ForwardOwn, ForwardOther, ForwardReply DEF Peers
  <2>4. CASE m.type = "blob" /\ Partner(x) = None /\ UNCHANGED vars
    <3>1. UNCHANGED <<link, target>>
      BY <2>4 DEF vars
    <3>2. CASE x # p
      <4>1. Placid(p, Dull)
        BY <1>0, <3>1 DEF Placid
      <4> QED
        BY <1>0, <2>1, <3>2, <4>1, DullOnward
    <3>3. CASE x = p
      <4>1. target[p] = None
        BY <2>4, <3>3 DEF Partner
      <4>2. \A i \in 1..Len(up[p]) : up[p][i].type # "select"
        <5>1. /\ up'[p] = Tail(up[p])
              /\ \A i \in 1..Len(up[p]) : \/ i = 1 /\ up[p][i] = m
                                          \/ i - 1 \in 1..Len(Tail(up[p])) /\ Tail(up[p])[i - 1] = up[p][i]
          BY <2>1, <3>3, RequestRead
        <5>2. \A i \in 1..Len(up'[p]) : up'[p][i].type # "select"
          BY DEF Still
        <5> QED
          BY <2>4, <5>1, <5>2
      <4>3. Still(p)
        BY <1>0, <3>1, <4>1, <4>2 DEF Still
      <4>4. Astray(p)' = Astray(p)
        BY <3>1 DEF Astray
      <4>5. \A b \in Replied(p)' : b \in Replied(p)
        BY <2>1, <3>1 DEF Replied
      <4> QED
        BY <3>1, <4>1, <4>3, <4>4, <4>5 DEF Onward
    <3> QED
      BY <3>2, <3>3
  <2> QED
    BY <1>1, <2>2, <2>3, <2>4 DEF ServerReads
<1>2. CASE ServerDrops(x)
  <2>1. up' = [up EXCEPT ![x] = << >>] /\ Leave(x)
    BY <1>2 DEF ServerDrops
  <2>2. \A y \in Peers : Hauled(up'[y]) \subseteq Hauled(up[y])
    BY <2>1 DEF Hauled, Requests
  <2>3. CASE x \in Providers /\ ProviderLeave(x)
    <3>1. Placid(p, Dull) /\ p # x
      BY <1>0, <2>3, ProviderLeavePlacid
    <3>2. up'[p] = up[p]
      BY <1>0, <2>1, <3>1 DEF Requests
    <3> QED
      BY <2>2, <3>1, <3>2, DullOnward
  <2>4. CASE x \in Receivers /\ ReceiverLeave(x)
    <3>1. Placid(p, Dull) /\ p # x
      BY <1>0, <2>4, ReceiverLeavePlacid, HubAssumption
    <3>2. up'[p] = up[p]
      BY <1>0, <2>1, <3>1 DEF Requests
    <3> QED
      BY <2>2, <3>1, <3>2, DullOnward
  <2> QED
    BY <2>1, <2>3, <2>4 DEF Leave, Peers
<1> QED
  BY <1>1, <1>2 DEF Serves

-----------------------------------------------------------------------------
(* How far a provider's session has come.                                  *)

\* While p is to notice nothing it has a session if and only if it is attached, and
\* the exchange goes on; early are replies p has received and not handled.
Agrees(p, s, early, pressed) ==
    Still(p) => IF s = None THEN target[p] = None
                ELSE /\ target[p] # None /\ Hs1(p, s.epk) \notin Astray(p)
                     /\ Exchange(p, target[p], s, Way(p), rx[target[p]], Replied(p) \cup early, pressed)

\* What p's session depends on goes on.
LEMMA OnwardAgrees ==
    ASSUME NEW p \in Providers, NEW s, NEW early, NEW pressed, Agrees(p, s, early, pressed),
           Still(p)' => Onward(p) /\ (target[p] # None => rx'[target[p]] = rx[target[p]])
    PROVE  Agrees(p, s, early, pressed)'
<1> SUFFICES ASSUME Still(p)'
             PROVE  IF s = None THEN target'[p] = None
                    ELSE /\ target'[p] # None /\ Hs1(p, s.epk) \notin Astray(p)'
                         /\ Exchange(p, target'[p], s, Way(p)', rx'[target'[p]], Replied(p)' \cup early, pressed)
  BY DEF Agrees
<1>1. Onward(p) /\ Still(p) /\ target'[p] = target[p] /\ (target[p] # None => rx'[target[p]] = rx[target[p]])
  BY DEF Onward
<1>2. CASE s = None
  BY <1>1, <1>2 DEF Agrees
<1>3. CASE s # None
  <2>1. /\ target[p] # None /\ Hs1(p, s.epk) \notin Astray(p)
        /\ Exchange(p, target[p], s, Way(p), rx[target[p]], Replied(p) \cup early, pressed)
    BY <1>1, <1>3 DEF Agrees
  <2>2. Hs1(p, s.epk) \notin Astray(p)' /\ Way(p)' = Way(p)
    BY <1>1, <2>1 DEF Onward
  <2>3. \A b \in Replied(p)' \cup early : b.step = "hs2" /\ b.answers = <<p, s.epk>> => b \in Replied(p) \cup early
    BY <1>1, <2>1 DEF Onward
  <2>4. Exchange(p, target[p], s, Way(p), rx[target[p]], Replied(p)' \cup early, pressed)
    BY <2>1, <2>3, ExchangeMonotone
  <2> QED
    BY <1>1, <1>3, <2>1, <2>2, <2>4
<1> QED
  BY <1>2, <1>3

\* The relay's handlers leave it as it is.
LEMMA ServesAgrees ==
    ASSUME TypeOK, Attachments, up \in Requests, NEW x \in Peers, Serves(x), UNCHANGED rx,
           NEW p \in Providers, NEW s, NEW early, NEW pressed, Agrees(p, s, early, pressed)
    PROVE  Agrees(p, s, early, pressed)'
BY ServesOnward, OnwardAgrees

\* What one client's queue loses.
LEMMA DeliverLinks ==
    ASSUME TypeOK, NEW x \in Peers, Deliver(x)
    PROVE  /\ link[x].queue # << >> /\ link[x].queue \in Seq(Message) /\ Head(link[x].queue) \in Message
           /\ link'[x].queue = Tail(link[x].queue) /\ link'[x].state = link[x].state
           /\ \A y \in Peers \ {x} : link'[y] = link[y]
           /\ \A y \in Peers : Hauled(link'[y].queue) \subseteq Hauled(link[y].queue)
           /\ Cargo(Head(link[x].queue)) \in Hauled(link[x].queue)
           /\ target' = target /\ provider' = provider
<1>1. link[x].queue # << >> /\ link[x].queue \in Seq(Message) /\ target' = target /\ provider' = provider
  BY DEF Deliver, TypeOK
<1>2. link' = [link EXCEPT ![x].queue = Tail(@)]
  BY DEF Deliver
<1>3. /\ link'[x].queue = Tail(link[x].queue) /\ link'[x].state = link[x].state
      /\ \A y \in Peers \ {x} : link'[y] = link[y]
  BY <1>2 DEF TypeOK
<1>4. Head(link[x].queue) \in Message
  BY <1>1
<1>5. Hauled(Tail(link[x].queue)) \subseteq Hauled(link[x].queue) /\ Cargo(Head(link[x].queue)) \in Hauled(link[x].queue)
  BY <1>1, HauledTail
<1> QED
  BY <1>1, <1>3, <1>4, <1>5

\* What a client sends is added to its requests.
LEMMA SendHauls ==
    ASSUME up \in Requests, NEW x \in Peers, NEW m \in Request, Send(x, <<m>>)
    PROVE  /\ Hauled(up'[x]) \subseteq Hauled(up[x]) \cup {Cargo(m)}
           /\ \A y \in Peers \ {x} : up'[y] = up[y]
<1>1. up[x] \in Seq(Request)
  BY DEF Requests
<1>2. up'[x] = up[x] \/ up'[x] = up[x] \o <<m>>
  BY DEF Send, Requests
<1>3. Hauled(up[x] \o <<m>>) \subseteq Hauled(up[x]) \cup {Cargo(m)}
  BY <1>1, HauledSent
<1> QED
  BY <1>2, <1>3 DEF Send, Requests

\* Receiver r handles the blob at the head of what is on its way.
LEMMA ReceiverTakes ==
    ASSUME TypeOK, Carries(link), up \in Requests, rx \in [Receivers -> Device], NEW r \in Receivers, RxConsumes(r),
           NEW b, b = Cargo(Head(link[r].queue))
    PROVE  /\ Takes(r, b, rx[r], rx'[r]) /\ rx'[r].connected
           /\ \A x \in Receivers \ {r} : rx'[x] = rx[x]
           /\ \A x \in Peers \ {r} : up'[x] = up[x]
           /\ \A c \in Hauled(up'[r]) :
                 c.step = "hs2" => c \in Hauled(up[r]) \/ (Begins(b, rx'[r]) /\ c = Hs2(r, b.pub, b.epk))
<1> DEFINE m == Head(link[r].queue)
<1>0. r \in Peers /\ Deliver(r) /\ rx[r].connected /\ m \in Message
  BY DeliverLinks DEF RxConsumes, Peers
<1>1. CASE m.type \in {"attached", "detached"} /\ OnAttachment(r)
  <2>1. b = Reset /\ b.step = "reset"
    BY <1>1 DEF Cargo, Reset
  <2>2. rx' = [rx EXCEPT ![r] = Idle(TRUE)] /\ up' = up
    BY <1>1 DEF OnAttachment
  <2>3. rx'[r] = Idle(TRUE) /\ rx'[r].connected
    BY <2>2 DEF Idle
  <2>4. Takes(r, b, rx[r], rx'[r])
    BY <2>1, <2>3 DEF Takes
  <2>5. \A x \in Receivers \ {r} : rx'[x] = rx[x]
    BY <2>2
  <2>6. \A c \in Hauled(up'[r]) : c \in Hauled(up[r])
    BY <2>2
  <2> QED
    BY <2>2, <2>3, <2>4, <2>5, <2>6
<1>2. CASE m.type = "e2e" /\ m.body.step = "hs1" /\ OnHs1(r, m.body)
  <2>1. b = m.body /\ b.step = "hs1" /\ b \in Blobs
    BY <1>0, <1>2, MessageParts DEF Cargo
  <2>2. b.pub \in Providers /\ b.epk \in Ephemerals
    BY <2>1, BlobParts
  <2>3. Blob(Hs2(r, b.pub, b.epk)) \in Request /\ Blob(Err) \in Request
    BY <2>2, RequestTypes
  <2>4. CASE b.pub \in Allows[r] /\ rx' = [rx EXCEPT ![r] = [Idle(TRUE) EXCEPT !.session = <<b.pub, b.epk>>]]
             /\ Send(r, <<Blob(Hs2(r, b.pub, b.epk))>>)
    <3>1. rx'[r] = [Idle(TRUE) EXCEPT !.session = <<b.pub, b.epk>>] /\ rx'[r].connected
      BY <2>4 DEF Idle
    <3>2. Begins(b, rx'[r])
      BY <2>1, <3>1 DEF Begins
    <3>3. /\ Hauled(up'[r]) \subseteq Hauled(up[r]) \cup {Cargo(Blob(Hs2(r, b.pub, b.epk)))}
          /\ \A y \in Peers \ {r} : up'[y] = up[y]
      BY <1>0, <2>3, <2>4, SendHauls
    <3>4. Cargo(Blob(Hs2(r, b.pub, b.epk))) = Hs2(r, b.pub, b.epk)
      BY CargoFacts
    <3> HIDE DEF m
    <3>5. Takes(r, b, rx[r], rx'[r])
      BY <3>2 DEF Takes
    <3>6. \A x \in Receivers \ {r} : rx'[x] = rx[x]
      BY <2>4
    <3>7. \A c \in Hauled(up'[r]) : c \in Hauled(up[r]) \/ c = Hs2(r, b.pub, b.epk)
      BY <3>3, <3>4
    <3> QED
      BY <3>1, <3>2, <3>3, <3>5, <3>6, <3>7
  <2>5. CASE rx' = [rx EXCEPT ![r] = Idle(TRUE)] /\ Send(r, <<Blob(Err)>>)
    <3>1. rx'[r] = Idle(TRUE) /\ rx'[r].connected
      BY <2>5 DEF Idle
    <3>2. /\ Hauled(up'[r]) \subseteq Hauled(up[r]) \cup {Cargo(Blob(Err))}
          /\ \A y \in Peers \ {r} : up'[y] = up[y]
      BY <1>0, <2>3, <2>5, SendHauls
    <3>3. Cargo(Blob(Err)).step # "hs2"
      BY CargoFacts DEF Err
    <3> HIDE DEF m
    <3>5. Takes(r, b, rx[r], rx'[r])
      BY <2>1, <3>1 DEF Takes
    <3>6. \A x \in Receivers \ {r} : rx'[x] = rx[x]
      BY <2>5
    <3>7. \A c \in Hauled(up'[r]) : c \in Hauled(up[r]) \/ c.step # "hs2"
      BY <3>2, <3>3
    <3> QED
      BY <3>1, <3>2, <3>5, <3>6, <3>7
  <2> QED
    BY <1>2, <2>1, <2>4, <2>5 DEF OnHs1
<1>3. CASE m.type = "e2e" /\ m.body.step = "ct" /\ OnSealed(r, m.body)
  <2>1. b = m.body /\ b.step = "ct"
    BY <1>3 DEF Cargo
  <2>2. up' = up /\ rx' = IF rx[r].session # None /\ b.keys = Append(rx[r].session, r)
                          THEN [rx EXCEPT ![r].down = Typed(@, b.plain)] ELSE rx
    BY <1>3, <2>1 DEF OnSealed
  <2>3. rx'[r] = IF rx[r].session # None /\ b.keys = Append(rx[r].session, r)
                 THEN [rx[r] EXCEPT !.down = Typed(@, b.plain)] ELSE rx[r]
    BY <2>2
  <2>4. rx'[r].connected
    BY <1>0, <2>3 DEF Device
  <2> HIDE DEF m
  <2>5. Takes(r, b, rx[r], rx'[r])
    BY <2>1, <2>3 DEF Takes
  <2>6. \A x \in Receivers \ {r} : rx'[x] = rx[x]
    BY <2>2
  <2>7. \A c \in Hauled(up'[r]) : c \in Hauled(up[r])
    BY <2>2
  <2> QED
    BY <2>2, <2>4, <2>5, <2>6, <2>7
<1>4. CASE m.type = "notice" /\ UNCHANGED <<rx, up>>
  <2>1. b = Err
    BY <1>4 DEF Cargo
  <2>2. Takes(r, b, rx[r], rx'[r])
    <3>1. b.step = "err"
      BY <2>1 DEF Err
    <3> QED
      BY <1>4, <3>1 DEF Takes
  <2>3. \A c \in Hauled(up'[r]) : c \in Hauled(up[r])
    BY <1>4
  <2> QED
    BY <1>0, <1>4, <2>2, <2>3
<1> QED
  BY <1>0, <1>1, <1>2, <1>3, <1>4 DEF RxConsumes

-----------------------------------------------------------------------------

\* Another receiver takes a message: it may answer a handshake of p that has gone astray.
LEMMA OtherReceiverOnward ==
    ASSUME TypeOK, Carries(link), up \in Requests, rx \in [Receivers -> Device], NEW r \in Receivers, RxConsumes(r),
           NEW p \in Providers, target[p] # r, Still(p)'
    PROVE  Onward(p) /\ (target[p] # None => rx'[target[p]] = rx[target[p]])
<1> DEFINE b == Cargo(Head(link[r].queue))
<1>0. r \in Peers /\ p \in Peers /\ p # r /\ Deliver(r)
  BY HubAssumption DEF RxConsumes, Peers
<1>1. /\ \A y \in Peers \ {r} : link'[y] = link[y]
      /\ \A y \in Peers : Hauled(link'[y].queue) \subseteq Hauled(link[y].queue)
      /\ b \in Hauled(link[r].queue)
      /\ target' = target
  BY <1>0, DeliverLinks
<1>2. /\ Takes(r, b, rx[r], rx'[r])
      /\ \A x \in Receivers \ {r} : rx'[x] = rx[x]
      /\ \A x \in Peers \ {r} : up'[x] = up[x]
      /\ \A c \in Hauled(up'[r]) :
            c.step = "hs2" => c \in Hauled(up[r]) \/ (Begins(b, rx'[r]) /\ c = Hs2(r, b.pub, b.epk))
  BY ReceiverTakes
<1>3. target[p] # None => target[p] \in Receivers \ {r} /\ target[p] \in Peers \ {r}
  BY DEF TypeOK, Peers
<1>4. Still(p) /\ link'[p] = link[p] /\ up'[p] = up[p]
  BY <1>0, <1>1, <1>2, <1>3 DEF Still
<1>5. target[p] # None => Way(p)' = Way(p)
  BY <1>1, <1>3, <1>4 DEF Way
<1>6. Astray(p)' \subseteq Astray(p)
  BY <1>1 DEF Astray, Peers
<1>7. b \in Astray(p)
  BY <1>1 DEF Astray
<1>8. b \in Burden
  BY <1>0, DeliverLinks, CargoTypes
<1>9. ASSUME NEW c \in Replied(p)', NEW e, c.step = "hs2", c.answers = <<p, e>>
      PROVE  c \in Replied(p) \/ Hs1(p, e) \in Astray(p)
  <2>1. CASE c \in Hauled(link'[p].queue)
    BY <1>4, <2>1 DEF Replied
  <2>2. ASSUME NEW x \in Peers, c \in Hauled(up'[x])
        PROVE  c \in Replied(p) \/ Hs1(p, e) \in Astray(p)
    <3>1. CASE x # r \/ c \in Hauled(up[r])
      BY <1>0, <1>2, <2>2, <3>1 DEF Replied
    <3>2. CASE x = r /\ Begins(b, rx'[r]) /\ c = Hs2(r, b.pub, b.epk)
      <4>1. b.pub = p /\ b.epk = e
        BY <1>9, <3>2 DEF Hs2
      <4>2. b = Hs1(b.pub, b.epk)
        BY <1>8, <3>2, BurdenParts DEF Begins
      <4> HIDE DEF b
      <4> QED
        BY <1>7, <4>1, <4>2
    <3> QED
      BY <1>2, <1>9, <2>2, <3>1, <3>2
  <2> QED
    BY <1>9, <2>1, <2>2 DEF Replied
<1> QED
  BY <1>1, <1>2, <1>3, <1>4, <1>5, <1>6, <1>9 DEF Onward

\* p's receiver takes what is first on the way.
LEMMA OwnReceiverAgrees ==
    ASSUME TypeOK, Carries(link), up \in Requests, rx \in [Receivers -> Device], NEW r \in Receivers, RxConsumes(r),
           NEW p \in Providers, target[p] = r, NEW s \in {None} \cup Session, NEW early, NEW pressed,
           Agrees(p, s, early, pressed)
    PROVE  Agrees(p, s, early, pressed)'
<1> DEFINE b == Cargo(Head(link[r].queue))
           w == Way(p)
<1>0. r \in Peers /\ p \in Peers /\ p # r /\ Deliver(r) /\ r # None
  BY HubAssumption DEF RxConsumes, Peers
<1> SUFFICES ASSUME Still(p)'
             PROVE  /\ s # None /\ Hs1(p, s.epk) \notin Astray(p)'
                    /\ Exchange(p, r, s, Way(p)', rx'[r], Replied(p)' \cup early, pressed)
  BY <1>0, DeliverLinks DEF Agrees
<1>1. /\ link[r].queue # << >> /\ link[r].queue \in Seq(Message)
      /\ link'[r].queue = Tail(link[r].queue) /\ link'[r].state = link[r].state
      /\ \A y \in Peers \ {r} : link'[y] = link[y]
      /\ \A y \in Peers : Hauled(link'[y].queue) \subseteq Hauled(link[y].queue)
      /\ target' = target
  BY <1>0, DeliverLinks
<1>2. /\ Takes(r, b, rx[r], rx'[r]) /\ rx'[r].connected
      /\ \A x \in Peers \ {r} : up'[x] = up[x]
      /\ \A c \in Hauled(up'[r]) :
            c.step = "hs2" => c \in Hauled(up[r]) \/ (Begins(b, rx'[r]) /\ c = Hs2(r, b.pub, b.epk))
  BY ReceiverTakes
<1>3. Still(p)
  BY <1>0, <1>1, <1>2 DEF Still, RxConsumes
<1>4. /\ s \in Session /\ s # None /\ Hs1(p, s.epk) \notin Astray(p)
      /\ Exchange(p, r, s, w, rx[r], Replied(p) \cup early, pressed)
  BY <1>0, <1>3 DEF Agrees
<1>5. up[p] \in Seq(Request)
  BY <1>0 DEF Requests
<1>6. w \in Seq(Burden) /\ w # << >> /\ Head(w) = b /\ Way(p)' = Tail(w)
  <2>1. w = Cargos(link[r].queue) \o Cargos(up[p])
    BY DEF Way
  <2>2. Way(p)' = Cargos(Tail(link[r].queue)) \o Cargos(up[p])
    BY <1>0, <1>1, <1>2 DEF Way
  <2> HIDE DEF w
  <2> QED
    BY <1>1, <1>5, <2>1, <2>2, WayTypes, WayTaken
<1>7. \A c \in Replied(p)' \cup early : c.step = "hs2" /\ c.answers = <<p, s.epk>> =>
         c \in Replied(p) \cup early \/ (Begins(b, rx'[r]) /\ c = Hs2(r, b.pub, b.epk))
  <2>1. ASSUME NEW c \in Replied(p)', c.step = "hs2"
        PROVE  c \in Replied(p) \/ (Begins(b, rx'[r]) /\ c = Hs2(r, b.pub, b.epk))
    <3> HIDE DEF b
    <3>1. CASE c \in Hauled(link'[p].queue)
      BY <1>0, <1>1, <3>1 DEF Replied
    <3>2. ASSUME NEW x \in Peers, c \in Hauled(up'[x])
          PROVE  c \in Replied(p) \/ (Begins(b, rx'[r]) /\ c = Hs2(r, b.pub, b.epk))
      BY <1>0, <1>2, <2>1, <3>2 DEF Replied
    <3> QED
      BY <2>1, <3>1, <3>2 DEF Replied
  <2> QED
    BY <2>1
<1>8. Hs1(p, s.epk) \notin Astray(p)'
  <2>1. Astray(p)' \subseteq Astray(p)
    BY <1>1 DEF Astray, Peers
  <2> QED
    BY <1>4, <2>1
<1>9. rx[r] \in Device
  OBVIOUS
<1>10. Exchange(p, r, s, Tail(w), rx'[r], Replied(p)' \cup early, pressed)
  <2> DEFINE bs == Replied(p) \cup early
             bs2 == Replied(p)' \cup early
             d2 == rx'[r]
  <2>1. Exchange(p, r, s, w, rx[r], bs, pressed) /\ Takes(r, Head(w), rx[r], d2)
    BY <1>2, <1>4, <1>6
  <2>2. \A c \in bs2 : c.step = "hs2" /\ c.answers = <<p, s.epk>> =>
           c \in bs \/ (Begins(Head(w), d2) /\ c = Hs2(r, Head(w).pub, Head(w).epk))
    BY <1>6, <1>7
  <2>3. s \in Session /\ w \in Seq(Burden) /\ w # << >> /\ rx[r] \in Device
    BY <1>4, <1>6, <1>9
  <2> HIDE DEF b, w, bs, bs2, d2
  <2>4. Exchange(p, r, s, Tail(w), d2, bs2, pressed)
    BY <2>1, <2>2, <2>3, ExchangeTaken
  <2> QED
    BY <2>4 DEF bs2, d2
<1> HIDE DEF b, w
<1> QED
  BY <1>4, <1>6, <1>8, <1>10

\* Whatever a receiver does, p's session goes on.
LEMMA ReceivesAgrees ==
    ASSUME TypeOK, Attachments, Carries(link), up \in Requests, rx \in [Receivers -> Device],
           NEW r \in Receivers, Receives(r),
           NEW p \in Providers, NEW s \in {None} \cup Session, NEW early, NEW pressed, Agrees(p, s, early, pressed)
    PROVE  Agrees(p, s, early, pressed)'
<1>1. CASE RxConsumes(r)
  BY <1>1, OtherReceiverOnward, OwnReceiverAgrees, OnwardAgrees
<1>2. CASE RxConnects(r)
  <2>1. ASSUME Still(p)'
        PROVE  Onward(p) /\ (target[p] # None => rx'[target[p]] = rx[target[p]])
    <3>1. Hears(link'[p]) /\ ReceiverJoin(r) /\ up' = up /\ rx' = [rx EXCEPT ![r] = Idle(TRUE)]
      BY <1>2, <2>1 DEF Still, RxConnects
    <3>2. Placid(p, Dull) /\ target[p] # r
      BY <3>1, ReceiverJoinPlacid
    <3>3. target[p] # None => rx'[target[p]] = rx[target[p]]
      BY <3>1, <3>2 DEF TypeOK
    <3> QED
      BY <2>1, <3>1, <3>2, <3>3, DullOnward
  <2> QED
    BY <2>1, OnwardAgrees
<1>3. CASE RxDisconnects(r)
  <2>1. ASSUME Still(p)'
        PROVE  Onward(p) /\ (target[p] # None => rx'[target[p]] = rx[target[p]])
    <3>1. UNCHANGED <<link, target, up>> /\ rx' = [rx EXCEPT ![r] = Idle(FALSE)]
      BY <1>3 DEF RxDisconnects, vars
    <3>2. rx'[r].connected = FALSE
      BY <3>1 DEF Idle
    <3>3. target[p] # r
      BY <2>1, <3>1, <3>2, HubAssumption DEF Still, Peers
    <3>4. target[p] # None => rx'[target[p]] = rx[target[p]]
      BY <3>1, <3>3 DEF TypeOK
    <3>5. Still(p)
      BY <2>1, <3>1, <3>4 DEF Still
    <3>6. Way(p)' = Way(p) /\ Astray(p)' = Astray(p) /\ Replied(p)' = Replied(p)
      BY <3>1 DEF Way, Astray, Replied
    <3> QED
      BY <3>1, <3>4, <3>5, <3>6 DEF Onward
  <2> QED
    BY <2>1, OnwardAgrees
<1> QED
  BY <1>1, <1>2, <1>3 DEF Receives

\* What another provider does for itself: it takes a message or connects, and may
\* send something that is no reply.
Apart(q, ms) ==
    /\ UNCHANGED <<link, target>> \/ Deliver(q) \/ ProviderJoin(q)
    /\ Send(q, ms) /\ UNCHANGED rx

NoReply(ms) == ms = << >> \/ \E m \in Request : ms = <<m>> /\ Cargo(m).step # "hs2"

\* The requests of other clients stay, those of q may be more.
LEMMA SentParts ==
    ASSUME up \in Requests, NEW q \in Peers, NEW ms, Send(q, ms), NoReply(ms)
    PROVE  /\ \A x \in Peers \ {q} : up'[x] = up[x]
           /\ \A c \in Hauled(up'[q]) : c.step = "hs2" => c \in Hauled(up[q])
<1>1. CASE ms = << >>
  <2>1. up[q] \in Seq(Request)
    BY DEF Requests
  <2>2. up[q] \o << >> = up[q]
    BY <2>1
  <2>3. up'[q] = up[q] /\ \A x \in Peers \ {q} : up'[x] = up[x]
    BY <1>1, <2>2 DEF Send, Requests
  <2> QED
    BY <2>3
<1>2. ASSUME NEW m \in Request, ms = <<m>>, Cargo(m).step # "hs2"
      PROVE  /\ \A x \in Peers \ {q} : up'[x] = up[x]
             /\ \A c \in Hauled(up'[q]) : c.step = "hs2" => c \in Hauled(up[q])
  BY <1>2, SendHauls
<1> QED
  BY <1>1, <1>2 DEF NoReply

\* It changes nothing of p's session.
LEMMA ApartAgrees ==
    ASSUME TypeOK, Attachments, up \in Requests, NEW p \in Providers, NEW q \in Providers \ {p},
           NEW ms, Apart(q, ms), NoReply(ms),
           NEW s, NEW early, NEW pressed, Agrees(p, s, early, pressed)
    PROVE  Agrees(p, s, early, pressed)'
<1>0. p \in Peers /\ q \in Peers /\ q \notin Receivers
  BY HubAssumption DEF Peers
<1>1. /\ \A x \in Peers \ {q} : up'[x] = up[x]
      /\ \A c \in Hauled(up'[q]) : c.step = "hs2" => c \in Hauled(up[q])
  BY <1>0, SentParts DEF Apart
<1>2. target[p] # None => target[p] \in Receivers /\ target[p] \in Peers \ {q}
  BY <1>0 DEF TypeOK, Peers
<1>3. ASSUME Still(p)'
      PROVE  Placid(p, Dull)
  <2>1. CASE UNCHANGED <<link, target>>
    BY <1>3, <2>1 DEF Placid, Still
  <2>2. CASE Deliver(q)
    <3>1. /\ \A y \in Peers \ {q} : link'[y] = link[y]
          /\ \A y \in Peers : Hauled(link'[y].queue) \subseteq Hauled(link[y].queue)
          /\ target' = target
      BY <1>0, <2>2, DeliverLinks
    <3>2. link'[p] = link[p] /\ Hears(link[p])
      BY <1>0, <1>3, <3>1 DEF Still
    <3> QED
      BY <1>2, <3>1, <3>2 DEF Placid, Peers
  <2>3. CASE ProviderJoin(q)
    BY <1>3, <2>3, ProviderJoinPlacid DEF Still
  <2> QED
    BY <2>1, <2>2, <2>3 DEF Apart
<1>4. ASSUME Still(p)'
      PROVE  Onward(p)
  <2>1. /\ target'[p] = target[p] /\ Hears(link[p])
        /\ target[p] # None => link'[target[p]] = link[target[p]]
        /\ \A x \in Receivers \cup {p} : Hauled(link'[x].queue) \subseteq Hauled(link[x].queue) \cup Dull
    BY <1>3, <1>4 DEF Placid
  <2>2. Still(p)
    BY <1>0, <1>1, <1>4, <2>1 DEF Still, Apart
  <2>3. target[p] # None => Way(p)' = Way(p)
    BY <1>0, <1>1, <2>1 DEF Way
  <2>4. \A e : Hs1(p, e) \in Astray(p)' => Hs1(p, e) \in Astray(p)
    <3>1. \A e : Hs1(p, e) \notin Dull
      BY CargoFacts DEF Hs1
    <3> QED
      BY <2>1, <3>1 DEF Astray
  <2>5. \A c \in Replied(p)' : c.step = "hs2" => c \in Replied(p)
    <3>1. \A c \in Dull : c.step # "hs2"
      BY CargoFacts
    <3>2. \A x \in Peers : \A c \in Hauled(up'[x]) : c.step = "hs2" => c \in Hauled(up[x])
      BY <1>1
    <3> QED
      BY <2>1, <3>1, <3>2 DEF Replied
  <2> QED
    BY <2>1, <2>2, <2>3, <2>4, <2>5 DEF Onward
<1> QED
  BY <1>4, OnwardAgrees DEF Apart

-----------------------------------------------------------------------------

\* What p does for itself: it may take a message, and send.
Acts(p, ms) == Send(p, ms) /\ (UNCHANGED <<link, target>> \/ Deliver(p)) /\ UNCHANGED rx

\* The message it takes, if any, announces nothing.
Unmoved(p) == link' = link \/ ~ Announces(Head(link[p].queue))

\* Nothing sent is nothing appended.
LEMMA SendNothing ==
    ASSUME up \in Requests, NEW x \in Peers, UNCHANGED up
    PROVE  Send(x, << >>)
<1>1. up[x] \in Seq(Request)
  BY DEF Requests
<1>2. up[x] \o << >> = up[x]
  BY <1>1
<1>3. up \in [Peers -> Seq(Request)]
  BY DEF Requests
<1> QED
  BY <1>2, <1>3 DEF Send

\* What such a step does to p's session and its surroundings.
LEMMA ActsParts ==
    ASSUME TypeOK, up \in Requests, NEW p \in Providers, NEW ms \in Seq(Request), Acts(p, ms), Still(p)'
    PROVE  /\ up[p] \in Seq(Request) /\ up'[p] = up[p] \o ms
           /\ \A x \in Peers \ {p} : up'[x] = up[x]
           /\ target' = target /\ rx' = rx
           /\ link[p].state = "open" /\ link[p].queue \in Seq(Message)
           /\ \A x \in Peers \ {p} : link'[x] = link[x]
           /\ link' = link \/ (link[p].queue # << >> /\ link'[p].queue = Tail(link[p].queue))
           /\ Hauled(link'[p].queue) \subseteq Hauled(link[p].queue)
           /\ Astray(p)' = Astray(p)
           /\ target[p] # None => /\ target[p] \in Peers \ {p}
                                  /\ Way(p)' = Cargos(link[target[p]].queue) \o Cargos(up[p] \o ms)
<1>0. p \in Peers /\ p \notin Receivers /\ link'[p].state = "open"
  BY HubAssumption DEF Peers, Still, Hears
<1>1. /\ link'[p].state = link[p].state
      /\ target' = target
      /\ \A x \in Peers \ {p} : link'[x] = link[x]
      /\ link' = link \/ (link[p].queue # << >> /\ link'[p].queue = Tail(link[p].queue))
      /\ Hauled(link'[p].queue) \subseteq Hauled(link[p].queue)
  BY <1>0, DeliverLinks DEF Acts
<1>2. up[p] \in Seq(Request) /\ up'[p] = up[p] \o ms /\ \A x \in Peers \ {p} : up'[x] = up[x]
  BY <1>0, <1>1 DEF Acts, Send, Requests
<1>3. Astray(p)' = Astray(p)
  <2>1. \A x \in Receivers : x \in Peers \ {p} /\ link'[x] = link[x]
    BY <1>0, <1>1 DEF Peers
  <2> QED
    BY <1>1, <2>1 DEF Astray
<1>4. target[p] # None => target[p] \in Peers \ {p}
  BY <1>0 DEF TypeOK, Peers
<1>5. target[p] # None => Way(p)' = Cargos(link[target[p]].queue) \o Cargos(up[p] \o ms)
  BY <1>1, <1>2, <1>4 DEF Way
<1>6. link[p].queue \in Seq(Message)
  BY <1>0 DEF TypeOK
<1> QED
  BY <1>0, <1>1, <1>2, <1>3, <1>4, <1>5, <1>6 DEF Acts

\* p was to notice nothing before if it is not to now, and takes no news.
LEMMA ActsStill ==
    ASSUME TypeOK, up \in Requests, NEW p \in Providers, NEW ms \in Seq(Request), Acts(p, ms), Still(p)', Unmoved(p)
    PROVE  Still(p)
<1>1. /\ up[p] \in Seq(Request) /\ up'[p] = up[p] \o ms
      /\ target' = target /\ rx' = rx
      /\ link[p].state = "open" /\ link[p].queue \in Seq(Message)
      /\ \A x \in Peers \ {p} : link'[x] = link[x]
      /\ link' = link \/ (link[p].queue # << >> /\ link'[p].queue = Tail(link[p].queue))
      /\ target[p] # None => target[p] \in Peers \ {p}
  BY ActsParts
<1>2. \A i \in 1..Len(up[p]) : up[p][i].type # "select"
  <2>1. \A i \in 1..Len(up[p]) : i \in 1..Len(up'[p]) /\ up'[p][i] = up[p][i]
    BY <1>1
  <2> QED
    BY <2>1 DEF Still
<1>3. Hears(link[p])
  <2>1. CASE link' = link
    BY <2>1 DEF Still
  <2>2. CASE link[p].queue # << >> /\ link'[p].queue = Tail(link[p].queue) /\ ~ Announces(Head(link[p].queue))
    <3> DEFINE q == link[p].queue
    <3>1. \A i \in 1..Len(Tail(q)) : ~ Announces(Tail(q)[i])
      BY <2>2 DEF Still, Hears, NoNews
    <3>2. \A i \in 1..Len(q) : IF i = 1 THEN q[i] = Head(q)
                               ELSE i - 1 \in 1..Len(Tail(q)) /\ q[i] = Tail(q)[i - 1]
      BY <1>1, <2>2
    <3>3. \A i \in 1..Len(q) : ~ Announces(q[i])
      BY <2>2, <3>1, <3>2
    <3> QED
      BY <1>1, <3>3 DEF Hears, NoNews
  <2> QED
    BY <1>1, <2>1, <2>2 DEF Unmoved
<1> QED
  BY <1>1, <1>2, <1>3 DEF Still

\* p sends nothing: its session stays, the replies at hand are fewer.
LEMMA ActsSilent ==
    ASSUME TypeOK, up \in Requests, NEW p \in Providers, Acts(p, << >>), Unmoved(p),
           NEW s \in {None} \cup Session, NEW early, NEW pressed, Agrees(p, s, early, pressed),
           NEW early2, early2 \subseteq early, NEW pressed2,
           pressed \subseteq pressed2 \/ (s # None => s.with = None)
    PROVE  Agrees(p, s, early2, pressed2)'
<1> SUFFICES ASSUME Still(p)', target'[p] = target[p]
             PROVE  IF s = None THEN target[p] = None
                    ELSE /\ target[p] # None /\ Hs1(p, s.epk) \notin Astray(p)'
                         /\ Exchange(p, target[p], s, Way(p)', rx'[target[p]], Replied(p)' \cup early2, pressed2)
  <2>1. << >> \in Seq(Request)
    OBVIOUS
  <2> QED
    BY <2>1, ActsParts DEF Agrees
<1>0. << >> \in Seq(Request)
  OBVIOUS
<1>1. Still(p)
  BY <1>0, ActsStill
<1>2. CASE s = None
  BY <1>1, <1>2 DEF Agrees
<1>3. CASE s # None
  <2>1. /\ target[p] # None /\ Hs1(p, s.epk) \notin Astray(p)
        /\ Exchange(p, target[p], s, Way(p), rx[target[p]], Replied(p) \cup early, pressed)
    BY <1>1, <1>3 DEF Agrees
  <2>2. /\ up[p] \in Seq(Request) /\ up'[p] = up[p] \o << >>
        /\ \A x \in Peers \ {p} : up'[x] = up[x]
        /\ rx' = rx
        /\ Hauled(link'[p].queue) \subseteq Hauled(link[p].queue)
        /\ Astray(p)' = Astray(p)
        /\ Way(p)' = Cargos(link[target[p]].queue) \o Cargos(up[p] \o << >>)
    BY <1>0, <2>1, ActsParts
  <2>3. up[p] \o << >> = up[p]
    BY <2>2
  <2>4. Way(p)' = Way(p) /\ Replied(p)' \subseteq Replied(p)
    BY <2>2, <2>3 DEF Way, Replied
  <2>5. \A b \in Replied(p)' \cup early2 : b \in Replied(p) \cup early
    BY <2>4
  <2>6. Exchange(p, target[p], s, Way(p), rx[target[p]], Replied(p) \cup early, pressed2)
    <3>1. target[p] \in Receivers /\ s \in Session
      BY <1>3, <2>1 DEF TypeOK
    <3> QED
      BY <1>3, <2>1, <3>1, ExchangeMonotone, ExchangeSilent
  <2>7. Exchange(p, target[p], s, Way(p), rx[target[p]], Replied(p)' \cup early2, pressed2)
    BY <2>5, <2>6, ExchangeMonotone
  <2> QED
    BY <1>3, <2>1, <2>2, <2>4, <2>7
<1> QED
  BY <1>2, <1>3

\* A select that p has sent makes it wait for news.
LEMMA ActsAsks ==
    ASSUME TypeOK, up \in Requests, NEW p \in Providers, NEW n \in Names \cup {None}, Acts(p, <<SelectReq(n)>>),
           NEW s, NEW early, NEW pressed
    PROVE  Agrees(p, s, early, pressed)'
<1> SUFFICES ASSUME Still(p)'
             PROVE  FALSE
  BY DEF Agrees
<1>1. <<SelectReq(n)>> \in Seq(Request) /\ SelectReq(n) \in Request
  BY RequestTypes
<1>2. up[p] \in Seq(Request) /\ up'[p] = up[p] \o <<SelectReq(n)>>
  BY <1>1, ActsParts
<1>3. Len(up[p]) + 1 \in 1..Len(up'[p]) /\ up'[p][Len(up[p]) + 1] = SelectReq(n)
  BY <1>1, <1>2
<1>4. SelectReq(n).type = "select"
  BY DEF SelectReq
<1> QED
  BY <1>3, <1>4 DEF Still

\* p accepts a reply to its handshake: it is the reply of its receiver.
LEMMA AgreesAnswered ==
    ASSUME TypeOK, up \in Requests, NEW p \in Providers, NEW s \in Session, NEW early, NEW pressed, Agrees(p, s, early, pressed),
           s.with = None, NEW b \in Replied(p) \cup early, b.step = "hs2", b.answers = <<p, s.epk>>,
           NEW s2, s2 = [s EXCEPT !.with = b.pub]
    PROVE  Agrees(p, s2, early, pressed)
<1> SUFFICES ASSUME Still(p)
             PROVE  /\ s2 # None /\ target[p] # None /\ Hs1(p, s2.epk) \notin Astray(p)
                    /\ Exchange(p, target[p], s2, Way(p), rx[target[p]], Replied(p) \cup early, pressed)
  BY DEF Agrees
<1>1. s # None
  BY ClientsAssumption
<1>2. /\ target[p] # None /\ Hs1(p, s.epk) \notin Astray(p)
      /\ Exchange(p, target[p], s, Way(p), rx[target[p]], Replied(p) \cup early, pressed)
  BY <1>1 DEF Agrees
<1>3. target[p] \in Receivers /\ link[target[p]].queue \in Seq(Message) /\ up[p] \in Seq(Request)
  BY <1>2 DEF TypeOK, Requests, Peers
<1>4. Way(p) \in Seq(Burden)
  BY <1>3, WayTypes DEF Way
<1>5. b.pub = target[p] /\ Exchange(p, target[p], [s EXCEPT !.with = target[p]], Way(p), rx[target[p]], Replied(p) \cup early, pressed)
  BY <1>2, <1>3, <1>4, ExchangeAnswered
<1>6. s2.epk = s.epk /\ s2 \in Session
  BY <1>3, <1>5 DEF Session
<1>7. s2 # None
  BY <1>6, ClientsAssumption
<1> QED
  BY <1>2, <1>5, <1>6, <1>7

\* p types into its session.
LEMMA ActsTypes ==
    ASSUME TypeOK, up \in Requests, NEW p \in Providers, NEW s \in Session, s.with # None, NEW m \in Plain,
           Acts(p, <<Blob(Sealed(p, s.epk, s.with, m))>>), Unmoved(p),
           NEW early, NEW pressed, Agrees(p, s, early, pressed),
           NEW early2, early2 \subseteq early, NEW pressed2, Typed(pressed, m) \subseteq pressed2
    PROVE  Agrees(p, s, early2, pressed2)'
<1> DEFINE c == Sealed(p, s.epk, s.with, m)
           r == target[p]
<1>0. c \in Blobs /\ Blob(c) \in Request /\ <<Blob(c)>> \in Seq(Request) /\ Cargo(Blob(c)) = c /\ c.step = "ct" /\ s # None
  <2>1. c \in Blobs
    BY RequestTypes DEF Session
  <2>2. Cargo(Blob(c)) = c /\ c.step = "ct"
    BY CargoFacts DEF Sealed
  <2> QED
    BY <2>1, <2>2, RequestTypes, ClientsAssumption
<1> SUFFICES ASSUME Still(p)', target'[p] = r
             PROVE  /\ r # None /\ Hs1(p, s.epk) \notin Astray(p)'
                    /\ Exchange(p, r, s, Way(p)', rx'[r], Replied(p)' \cup early2, pressed2)
  BY <1>0, ActsParts DEF Agrees
<1>1. Still(p)
  BY <1>0, ActsStill
<1>2. /\ r # None /\ Hs1(p, s.epk) \notin Astray(p)
      /\ Exchange(p, r, s, Way(p), rx[r], Replied(p) \cup early, pressed)
  BY <1>0, <1>1 DEF Agrees
<1>3. r \in Receivers /\ link[r].queue \in Seq(Message) /\ up[p] \in Seq(Request) /\ p \in Peers
  BY <1>2 DEF TypeOK, Requests, Peers
<1>4. /\ up'[p] = up[p] \o <<Blob(c)>>
      /\ \A x \in Peers \ {p} : up'[x] = up[x]
      /\ rx' = rx
      /\ Hauled(link'[p].queue) \subseteq Hauled(link[p].queue)
      /\ Astray(p)' = Astray(p)
      /\ Way(p)' = Cargos(link[r].queue) \o Cargos(up[p] \o <<Blob(c)>>)
  BY <1>0, <1>2, ActsParts
<1> HIDE DEF c
<1>5. Way(p) \in Seq(Burden) /\ Way(p)' = Append(Way(p), c)
  BY <1>0, <1>3, <1>4, WayTypes, WaySent DEF Way
<1>6. Hauled(up'[p]) \subseteq Hauled(up[p]) \cup {c}
  BY <1>0, <1>3, <1>4, HauledSent
<1>7. \A b \in Replied(p)' \cup early2 : b.step = "hs2" => b \in Replied(p) \cup early
  BY <1>0, <1>4, <1>6 DEF Replied
<1>8. Exchange(p, r, s, Append(Way(p), c), rx[r], Replied(p) \cup early, pressed2)
  BY <1>2, <1>3, <1>5, ExchangeTyped DEF c
<1> HIDE DEF r
<1>9. Exchange(p, r, s, Append(Way(p), c), rx[r], Replied(p)' \cup early2, pressed2)
  BY <1>7, <1>8, ExchangeMonotone
<1> QED
  BY <1>2, <1>4, <1>5, <1>9

-----------------------------------------------------------------------------

\* A blob that does not mention the session of p with e.
Unrelated(b, p, e) == /\ b # Hs1(p, e)
                      /\ b.step = "hs2" => b.answers # <<p, e>>
                      /\ b.step = "ct" => \A r \in Receivers : b.keys # <<p, e, r>>

\* Announcements are unrelated to any session, and so is what does not mention it.
LEMMA UnrelatedFacts ==
    /\ \A b \in Dull : \A p, e : Unrelated(b, p, e)
    /\ \A b, p, e : ~ Mentions(b, p, e) => Unrelated(b, p, e)
<1>1. ASSUME NEW b \in Dull, NEW p, NEW e
      PROVE  Unrelated(b, p, e)
  BY CargoFacts DEF Unrelated, Hs1
<1>2. ASSUME NEW b, NEW p, NEW e, ~ Mentions(b, p, e)
      PROVE  Unrelated(b, p, e)
  <2>1. b # Hs1(p, e)
    BY <1>2 DEF Mentions, Hs1
  <2>2. b.step = "hs2" => b.answers # <<p, e>>
    BY <1>2 DEF Mentions
  <2>3. ASSUME NEW r \in Receivers, b.step = "ct", b.keys = <<p, e, r>>
        PROVE  FALSE
    BY <1>2, <2>3 DEF Mentions
  <2> QED
    BY <2>1, <2>2, <2>3 DEF Unrelated
<1> QED
  BY <1>1, <1>2

\* Nothing under way mentions a fresh key.
LEMMA FreshUnrelated ==
    ASSUME TypeOK, up \in Requests, NEW p \in Providers, NEW taken, NEW e \in Fresh(p, taken), NEW x \in Peers
    PROVE  \A b \in Hauled(up[x]) \cup Hauled(link[x].queue) : Unrelated(b, p, e)
<1>1. up[x] \in Seq(Request) /\ link[x].queue \in Seq(Message)
  BY DEF Requests, TypeOK
<1>2. ASSUME NEW i \in 1..Len(up[x])
      PROVE  Unrelated(Cargo(up[x][i]), p, e)
  <2>1. up[x][i] \in Request
    BY <1>1
  <2>2. CASE up[x][i].type = "blob"
    <3>1. ~ Mentions(up[x][i].body, p, e)
      BY <2>2 DEF Fresh
    <3>2. Cargo(up[x][i]) = up[x][i].body
      BY <2>2 DEF Cargo
    <3> QED
      BY <3>1, <3>2, UnrelatedFacts
  <2>3. CASE up[x][i].type = "select"
    BY <2>3, UnrelatedFacts DEF Cargo, Dull
  <2> QED
    BY <2>1, <2>2, <2>3 DEF Request
<1>3. ASSUME NEW i \in 1..Len(link[x].queue)
      PROVE  Unrelated(Cargo(link[x].queue[i]), p, e)
  <2> DEFINE m == link[x].queue[i]
  <2>1. m \in Message
    BY <1>1
  <2>2. CASE m.type = "e2e"
    <3>1. ~ Mentions(m.body, p, e)
      BY <2>2 DEF Fresh
    <3>2. Cargo(m) = m.body
      BY <2>2 DEF Cargo
    <3> HIDE DEF m
    <3>3. Unrelated(Cargo(m), p, e)
      BY <3>1, <3>2, UnrelatedFacts
    <3> QED
      BY <3>3 DEF m
  <2>3. CASE m.type # "e2e"
    <3>1. m.type # "blob"
      BY <2>1 DEF Message, Notice, Detached
    <3> HIDE DEF m
    <3>2. Cargo(m) \in Dull
      BY <2>3, <3>1 DEF Cargo, Dull
    <3>3. Unrelated(Cargo(m), p, e)
      BY <3>2, UnrelatedFacts
    <3> QED
      BY <3>3 DEF m
  <2> QED
    BY <2>2, <2>3
<1> QED
  BY <1>2, <1>3 DEF Hauled

\* A new attachment starts a new session.
LEMMA ActsBegins ==
    ASSUME TypeOK, up \in Requests, NEW p \in Providers, NEW taken, NEW e \in Fresh(p, taken),
           Acts(p, <<Blob(Hs1(p, e))>>), Still(p)' => target'[p] # None,
           NEW early, \A b \in early : b.step = "hs2" => b.answers # <<p, e>>, NEW pressed,
           NEW s, s = [epk |-> e, with |-> None]
    PROVE  Agrees(p, s, early, pressed)'
<1> DEFINE c == Hs1(p, e)
           r == target[p]
<1>0. /\ e \in Ephemerals /\ c \in Blobs /\ Blob(c) \in Request /\ <<Blob(c)>> \in Seq(Request) /\ Cargo(Blob(c)) = c
      /\ c.step = "hs1" /\ s \in Session /\ s # None /\ s.epk = e
  <2>1. e \in Ephemerals
    BY DEF Fresh
  <2>2. c \in Blobs
    BY <2>1, RequestTypes
  <2>3. Cargo(Blob(c)) = c
    BY CargoFacts
  <2>4. c.step = "hs1"
    BY DEF Hs1
  <2>5. s \in Session /\ s.epk = e
    BY <2>1 DEF Session
  <2> QED
    BY <2>1, <2>2, <2>3, <2>4, <2>5, RequestTypes, ClientsAssumption
<1> SUFFICES ASSUME Still(p)', target'[p] = r
             PROVE  /\ r # None /\ c \notin Astray(p)'
                    /\ Exchange(p, r, s, Way(p)', rx'[r], Replied(p)' \cup early, pressed)
  BY <1>0, ActsParts DEF Agrees
<1>1. r # None
  OBVIOUS
<1>2. r \in Receivers /\ r \in Peers /\ link[r].queue \in Seq(Message) /\ up[p] \in Seq(Request) /\ p \in Peers
  BY <1>1 DEF TypeOK, Requests, Peers
<1>3. /\ up'[p] = up[p] \o <<Blob(c)>>
      /\ \A x \in Peers \ {p} : up'[x] = up[x]
      /\ rx' = rx
      /\ Hauled(link'[p].queue) \subseteq Hauled(link[p].queue)
      /\ Astray(p)' = Astray(p)
      /\ Way(p)' = Cargos(link[r].queue) \o Cargos(up[p] \o <<Blob(c)>>)
  BY <1>0, <1>1, ActsParts
<1> HIDE DEF c
<1>4. Way(p) \in Seq(Burden) /\ Way(p)' = Append(Way(p), c)
  BY <1>0, <1>2, <1>3, WayTypes, WaySent DEF Way
<1>5. \A x \in Peers : \A b \in Hauled(up[x]) \cup Hauled(link[x].queue) : Unrelated(b, p, e)
  BY FreshUnrelated
<1>6. c \notin Astray(p)'
  <2>1. c \notin Astray(p)
    BY <1>5 DEF Astray, Unrelated, Peers, c
  <2> QED
    BY <1>3, <2>1
<1>7. Hauled(up'[p]) \subseteq Hauled(up[p]) \cup {c}
  BY <1>0, <1>2, <1>3, HauledSent
<1>8. \A b \in Replied(p)' \cup early : b.step = "hs2" => b.answers # <<p, e>>
  <2>1. ASSUME NEW b \in Replied(p)', b.step = "hs2"
        PROVE  b.answers # <<p, e>>
    <3>1. b \in Replied(p)
      BY <1>0, <1>3, <1>7, <2>1 DEF Replied
    <3> QED
      BY <1>2, <1>5, <2>1, <3>1 DEF Replied, Unrelated
  <2> QED
    BY <2>1
<1>9. RepliedBy(Replied(p)' \cup early, p, e, {})
  BY <1>8 DEF RepliedBy
<1>10. ASSUME NEW i \in 1..Len(Way(p))
       PROVE  Unrelated(Way(p)[i], p, e)
  <2> DEFINE a == Cargos(link[r].queue)
             d == Cargos(up[p])
  <2>1. /\ Len(a) = Len(link[r].queue) /\ \A j \in 1..Len(a) : a[j] \in Hauled(link[r].queue)
        /\ Len(d) = Len(up[p]) /\ \A j \in 1..Len(d) : d[j] \in Hauled(up[p])
        /\ a \in Seq(Burden) /\ d \in Seq(Burden)
    BY <1>2, WayTypes, CargosParts DEF Hauled
  <2>2. Way(p) = a \o d
    BY DEF Way
  <2> HIDE DEF a, d
  <2>3. \/ i \in 1..Len(a) /\ Way(p)[i] = a[i]
        \/ i - Len(a) \in 1..Len(d) /\ Way(p)[i] = d[i - Len(a)]
    BY <2>1, <2>2, SMTT(20)
  <2> QED
    BY <1>2, <1>5, <2>1, <2>3
<1>11. Unsealed(Way(p), p, e) /\ \A i \in 1..Len(Way(p)) : Way(p)[i] # c
  BY <1>10 DEF Unsealed, Unrelated, c
<1> HIDE DEF r
<1>12. Exchange(p, r, [epk |-> e, with |-> None], Append(Way(p), c), rx'[r], Replied(p)' \cup early, pressed)
  <2> DEFINE d2 == rx'[r]
             bs2 == Replied(p)' \cup early
  <2>1. RepliedBy(bs2, p, e, {})
    BY <1>9
  <2> HIDE DEF d2, bs2
  <2>2. Exchange(p, r, [epk |-> e, with |-> None], Append(Way(p), Hs1(p, e)), d2, bs2, pressed)
    BY <1>0, <1>2, <1>4, <1>11, <2>1, ExchangeBegins DEF c
  <2> QED
    BY <2>2 DEF c, d2, bs2
<1> QED
  BY <1>1, <1>4, <1>6, <1>12

-----------------------------------------------------------------------------
(* What a receiver holds.                                                  *)

\* Without a session no key is held, without a connection there is no session, and a
\* session is one of the provider the receiver has been told of.
Sane(r) == /\ rx[r].session = None => rx[r].down = {}
           /\ ~ rx[r].connected => rx[r].session = None
           /\ rx[r].connected /\ link[r].state # "none" /\ rx[r].session # None => rx[r].session[1] = view[r].who

\* What others do leaves it so.
LEMMA SaneStays ==
    ASSUME NEW r \in Receivers, Sane(r), rx'[r] = rx[r], Undisturbed(r)
    PROVE  Sane(r)'
BY DEF Sane, Undisturbed

\* A receiver takes a message.
LEMMA SaneConsumes ==
    ASSUME TypeOK, AllInformed, Carries(link), NEW r \in Receivers, rx \in [Receivers -> Device], RxConsumes(r), Sane(r)
    PROVE  Sane(r)'
<1> DEFINE m == Head(link[r].queue)
<1>0. r \in Peers /\ Deliver(r) /\ rx[r].connected /\ rx[r] \in Device
  BY DEF RxConsumes, Peers
<1>1. m \in Carried /\ m \in Message /\ link[r].state # "none" /\ link'[r].state = link[r].state
  BY <1>0, DeliverCarries, DeliverLinks
<1>2. view'[r].who = After(view[r].who, m)
  BY <1>0, Believes
<1>3. m.type = "e2e" => view[r].who = Sender(m)
  BY <1>0, HeadInContext
<1>4. ASSUME rx'[r] = Idle(TRUE)
      PROVE  Sane(r)'
  BY <1>4 DEF Sane, Idle
<1>5. ASSUME rx'[r].session = rx[r].session, rx'[r].connected, rx[r].session = None => rx'[r].down = {}, ~ Announces(m)
      PROVE  Sane(r)'
  <2>1. view'[r].who = view[r].who
    BY <1>2, <1>5 DEF After
  <2> QED
    BY <1>0, <1>1, <1>5, <2>1 DEF Sane
<1>6. CASE m.type \in {"attached", "detached"} /\ OnAttachment(r)
  BY <1>4, <1>6 DEF OnAttachment
<1>7. CASE m.type = "e2e" /\ m.body.step = "hs1" /\ OnHs1(r, m.body)
  <2> DEFINE b == m.body
             d == [Idle(TRUE) EXCEPT !.session = <<b.pub, b.epk>>]
  <2>1. CASE rx' = [rx EXCEPT ![r] = Idle(TRUE)]
    BY <1>4, <2>1
  <2>2. CASE rx' = [rx EXCEPT ![r] = d]
    <3>1. b.pub = m.from /\ b \in Blobs
      BY <1>1, <1>7, MessageParts DEF Carried, Genuine
    <3>2. b.pub \in Providers
      BY <1>7, <3>1, BlobParts
    <3>3. view[r].who = b.pub
      BY <1>3, <1>7, <3>1, <3>2, HubAssumption DEF Sender
    <3>4. view'[r].who = b.pub
      BY <1>2, <1>7, <3>3 DEF After, Announces
    <3>5. d.session = <<b.pub, b.epk>> /\ d.down = {} /\ d.connected
      BY DEF Idle
    <3>6. rx'[r] = d
      BY <2>2
    <3>7. d.session[1] = b.pub
      BY <3>5
    <3> HIDE DEF d, b, m
    <3> QED
      BY <3>4, <3>5, <3>6, <3>7 DEF Sane
  <2> QED
    BY <1>7, <2>1, <2>2 DEF OnHs1
<1>8. CASE m.type = "e2e" /\ m.body.step = "ct" /\ OnSealed(r, m.body)
  <2>1. \/ rx' = rx
        \/ rx[r].session # None /\ rx' = [rx EXCEPT ![r].down = Typed(@, m.body.plain)]
    BY <1>8 DEF OnSealed
  <2>2. /\ rx'[r].session = rx[r].session /\ rx'[r].connected
        /\ rx[r].session = None => rx'[r].down = {}
    BY <1>0, <2>1 DEF Device, Sane
  <2> QED
    BY <1>5, <1>8, <2>2 DEF Announces
<1>9. CASE m.type = "notice" /\ UNCHANGED <<rx, up>>
  BY <1>0, <1>5, <1>9 DEF Announces, Sane
<1> QED
  BY <1>6, <1>7, <1>8, <1>9 DEF RxConsumes

\* Whatever a receiver does, all stay sane.
LEMMA SaneReceives ==
    ASSUME TypeOK, AllInformed, Carries(link), up \in Requests, rx \in [Receivers -> Device],
           NEW r \in Receivers, Receives(r), \A x \in Receivers : Sane(x)
    PROVE  \A x \in Receivers : Sane(x)'
<1>1. Sane(r)'
  <2>1. CASE RxConsumes(r)
    BY <2>1, SaneConsumes
  <2>2. CASE RxConnects(r) \/ RxDisconnects(r)
    <3>1. rx'[r] = Idle(TRUE) \/ rx'[r] = Idle(FALSE)
      BY <2>2 DEF RxConnects, RxDisconnects
    <3> QED
      BY <3>1 DEF Sane, Idle
  <2> QED
    BY <2>1, <2>2 DEF Receives
<1>2. ASSUME NEW x \in Receivers \ {r}
      PROVE  Sane(x)'
  <2>1. Undisturbed(x)
    <3>1. x \in Peers /\ r \in Receivers \ {x} /\ up \in [Peers -> Seq(Request)]
      BY DEF Peers, Requests
    <3> QED
      BY <3>1, OthersLeaveAlone
  <2>2. rx'[x] = rx[x]
    <3>1. CASE RxConsumes(r)
      BY <3>1, ReceiverTakes
    <3>2. CASE RxConnects(r) \/ RxDisconnects(r)
      BY <3>2 DEF RxConnects, RxDisconnects
    <3> QED
      BY <3>1, <3>2 DEF Receives
  <2> QED
    BY <2>1, <2>2, SaneStays
<1> QED
  BY <1>1, <1>2

\* So they do whatever the relay's handlers and the providers do.
LEMMA SaneOthers ==
    ASSUME TypeOK, up \in Requests, UNCHANGED rx, \A x \in Receivers : Sane(x),
           \/ UNCHANGED <<link, view>>
           \/ \E x \in Peers : Serves(x)
           \/ \E p \in Providers : ProviderJoin(p) \/ Deliver(p)
    PROVE  \A x \in Receivers : Sane(x)'
<1> SUFFICES ASSUME NEW r \in Receivers
             PROVE  Undisturbed(r)
  BY SaneStays
<1>0. r \in Peers /\ up \in [Peers -> Seq(Request)]
  BY DEF Peers, Requests
<1>1. CASE UNCHANGED <<link, view>>
  BY <1>1 DEF Undisturbed
<1>2. CASE \E x \in Peers : Serves(x)
  BY <1>0, <1>2, OthersLeaveAlone
<1>3. ASSUME NEW p \in Providers, ProviderJoin(p) \/ Deliver(p)
      PROVE  Undisturbed(r)
  <2>1. p \in Providers \ {r} /\ r \in Peers \ {p} /\ p \in Peers
    BY <1>0, HubAssumption DEF Peers
  <2> QED
    BY <1>0, <1>3, <2>1, OthersLeaveAlone, DeliverAlone
<1> QED
  BY <1>1, <1>2, <1>3
-----------------------------------------------------------------------------
(* What a provider knows.                                                  *)

\* A provider that is to notice nothing knows its partner.
LEMMA StillKnows ==
    ASSUME TypeOK', AllInformed', NEW p \in Providers, Still(p)'
    PROVE  view'[p].who = None <=> target'[p] = None
<1>1. Informed(link'[p], view'[p].who, PartnerName(p)')
  BY DEF AllInformed, Peers
<1>2. \A j \in 1..Len(link'[p].queue) : ~ Announces(link'[p].queue[j])
  BY DEF Still, Hears, NoNews
<1>3. view'[p].who = PartnerName(p)'
  BY <1>1, <1>2 DEF Informed, Told, Still, Hears
<1>4. target'[p] \in Receivers \cup {None}
  BY DEF TypeOK
<1>5. target'[p] # None => Name(target'[p]) \in Names
  BY <1>4, HubAssumption DEF Name, Peers
<1> QED
  BY <1>3, <1>5, PartnerNames, HubAssumption

\* When everything has arrived, all providers that are connected are still.
LEMMA QuietStill ==
    ASSUME TypeOK, Attachments, NEW clients, Quiet(clients), \A r \in Receivers : r \in clients => rx[r].connected,
           NEW p \in Providers, p \in clients
    PROVE  Still(p) /\ (target[p] # None => Way(p) = << >>)
<1>1. \A x \in Peers : /\ link[x].queue = << >> /\ up[x] = << >> /\ link[x].state # "closed"
                       /\ x \in clients <=> link[x].state # "none"
  BY DEF Quiet
<1>2. \A x \in Peers : link[x].state \in {"none", "open", "closed"}
  BY DEF TypeOK
<1>3. Hears(link[p]) /\ \A i \in 1..Len(up[p]) : up[p][i].type # "select"
  BY <1>1, <1>2 DEF Hears, NoNews, Peers
<1>4. ASSUME target[p] # None
      PROVE  link[target[p]].state = "open" /\ rx[target[p]].connected /\ Way(p) = << >>
  <2>1. target[p] \in Receivers /\ target[p] \in Peers
    BY <1>4 DEF TypeOK, Peers
  <2>2. target[p] \in Connected(link)
    BY <2>1 DEF Attachments, AttachedIsRegistered
  <2>3. link[target[p]].state = "open" /\ target[p] \in clients
    BY <1>1, <1>2, <2>1, <2>2 DEF Connected
  <2>4. Way(p) = << >>
    <3>1. Way(p) = Cargos(<< >>) \o Cargos(<< >>)
      BY <1>1, <2>1 DEF Way, Peers
    <3>2. Cargos(<< >>) = << >>
      BY DEF Cargos
    <3>3. << >> \o << >> = << >>
      OBVIOUS
    <3> QED
      BY <3>1, <3>2, <3>3
  <2> QED
    BY <2>1, <2>3, <2>4
<1> QED
  BY <1>3, <1>4 DEF Still

\* A receiver in a session is attached to the provider of the session when everything
\* has arrived.
LEMMA QuietSane ==
    ASSUME TypeOK, Attachments, AllInformed, rx \in [Receivers -> Device], NEW clients, Quiet(clients),
           \A r \in Receivers : rx[r].connected => r \in clients,
           NEW r \in Receivers, Sane(r), rx[r].session # None
    PROVE  \E p \in Providers : target[p] = r /\ link[p].state # "none"
<1>0. rx[r] \in Device /\ r \in Peers
  BY DEF Peers
<1>1. rx[r].connected /\ r \in clients
  BY DEF Sane
<1>2. link[r].state # "none" /\ link[r].state # "closed" /\ link[r].queue = << >>
  BY <1>0, <1>1 DEF Quiet
<1>3. link[r].state = "open"
  BY <1>0, <1>2 DEF TypeOK
<1>4. rx[r].session[1] = view[r].who /\ rx[r].session[1] \in Providers
  BY <1>0, <1>1, <1>2 DEF Sane, Device
<1>5. view[r].who = provider[r]
  <2>1. Informed(link[r], view[r].who, PartnerName(r))
    BY <1>0 DEF AllInformed
  <2> QED
    BY <1>2, <1>3, <2>1, PartnerNames DEF Informed, Told
<1>6. PICK p \in Providers : provider[r] = p
  BY <1>4, <1>5
<1>7. target[p] = r
  BY <1>6 DEF Attachments, AttachmentSymmetric
<1>8. p \in Connected(link)
  BY <1>7 DEF Attachments, AttachedIsRegistered
<1> QED
  BY <1>7, <1>8 DEF Connected

-----------------------------------------------------------------------------
(* What a provider has asked for.                                          *)

NoAsk(u) == \A i \in 1..Len(u) : u[i].type # "select"

\* The last select among the requests u asks for n.
LastAsk(u, n) == \E i \in 1..Len(u) : /\ u[i] = SelectReq(n)
                                      /\ \A j \in (i+1)..Len(u) : u[j].type # "select"

\* On its connection p gets n, or nothing, once the relay has read its requests.
Bound(p, n) == link[p].state = "open" =>
    \/ NoAsk(up[p]) /\ (target[p] = None \/ Name(target[p]) = n)
    \/ LastAsk(up[p], n)

\* The relay does nothing to p that it has not asked for, but that it may detach p.
Mild(p) == /\ target'[p] \in {target[p], None}
           /\ link'[p].state = "open" => link[p].state = "open"

\* What others do is mild.
LEMMA MildSteps ==
    ASSUME TypeOK, Attachments, NEW p \in Providers,
           \/ \E r \in Receivers : ReceiverJoin(r) \/ ReceiverLeave(r)
           \/ \E q \in Providers : ProviderLeave(q)
           \/ \E q \in Providers \ {p} : ProviderJoin(q) \/ \E n \in Names \cup {None} : Select(q, n)
           \/ \E x \in Peers : Deliver(x) \/ \E b \in Payloads : Forward(x, b)
           \/ UNCHANGED <<link, target>>
    PROVE  Mild(p)
<1>0. p \in Peers
  BY DEF Peers
<1>1. ASSUME NEW r \in Receivers, ReceiverJoin(r) \/ ReceiverLeave(r)
      PROVE  Mild(p)
  <2>1. p \in Peers \ {r}
    BY <1>0, HubAssumption
  <2>2. link'[p].state = "open" => link[p].state = "open"
    BY <1>1, <2>1, ReceiverJoinLinks, ReceiverLeaveLinks DEF CalmerBut
  <2>3. target'[p] \in {target[p], None}
    BY <1>1 DEF ReceiverJoin, ReceiverLeave, DetachReceivers, TypeOK
  <2> QED
    BY <2>2, <2>3 DEF Mild
<1>2. ASSUME NEW q \in Providers, ProviderLeave(q)
      PROVE  Mild(p)
  <2>1. target'[p] \in {target[p], None}
    BY <1>2 DEF ProviderLeave, Retarget, TypeOK
  <2>2. link'[p].state = "open" => link[p].state = "open"
    BY <1>0, <1>2, ProviderLeaveLinks DEF CalmerBut
  <2> QED
    BY <2>1, <2>2 DEF Mild
<1>3. ASSUME NEW q \in Providers \ {p}, ProviderJoin(q)
      PROVE  Mild(p)
  BY <1>0, <1>3, ProviderJoinLinks DEF CalmerBut, Mild, ProviderJoin
<1>4. ASSUME NEW q \in Providers \ {p}, NEW n \in Names \cup {None}, Select(q, n)
      PROVE  Mild(p)
  <2>1. target'[p] \in {target[p], None}
    BY <1>4 DEF Select, Retarget, TypeOK
  <2>2. Calmer(link', link)
    BY <1>4, OthersLinks DEF Others
  <2> QED
    BY <1>0, <2>1, <2>2 DEF Mild, Calmer
<1>5. ASSUME NEW x \in Peers, Deliver(x) \/ \E b \in Payloads : Forward(x, b)
      PROVE  Mild(p)
  <2>1. Calmer(link', link)
    BY <1>5, OthersLinks DEF Others
  <2>2. target'[p] = target[p]
    BY <1>5 DEF Deliver, Forward
  <2> QED
    BY <1>0, <2>1, <2>2 DEF Mild, Calmer
<1>6. CASE UNCHANGED <<link, target>>
  BY <1>6 DEF Mild
<1> QED
  BY <1>1, <1>2, <1>3, <1>4, <1>5, <1>6

\* If p's requests stay too, so does what it gets.
LEMMA BoundStays ==
    ASSUME NEW p \in Providers, Mild(p), up'[p] = up[p], NEW n, Bound(p, n)
    PROVE  Bound(p, n)'
BY DEF Mild, Bound

\* Reading a request, and adding one.
LEMMA AskTail ==
    ASSUME NEW u \in Seq(Request), u # << >>
    PROVE  /\ NoAsk(u) => NoAsk(Tail(u)) /\ Head(u).type # "select"
           /\ NoAsk(Tail(u)) /\ Head(u).type # "select" => NoAsk(u)
           /\ \A n : LastAsk(u, n) => LastAsk(Tail(u), n) \/ (Head(u) = SelectReq(n) /\ NoAsk(Tail(u)))
<1>1. /\ Len(Tail(u)) = Len(u) - 1 /\ Len(u) \in Nat /\ Head(u) = u[1] /\ 1 \in 1..Len(u)
      /\ \A i \in 1..Len(Tail(u)) : i + 1 \in 1..Len(u) /\ Tail(u)[i] = u[i + 1]
      /\ \A i \in 2..Len(u) : i - 1 \in 1..Len(Tail(u)) /\ Tail(u)[i - 1] = u[i]
  OBVIOUS
<1>2. ASSUME NEW n, LastAsk(u, n)
      PROVE  LastAsk(Tail(u), n) \/ (Head(u) = SelectReq(n) /\ NoAsk(Tail(u)))
  <2>1. PICK i \in 1..Len(u) : u[i] = SelectReq(n) /\ \A j \in (i+1)..Len(u) : u[j].type # "select"
    BY <1>2 DEF LastAsk
  <2>2. CASE i = 1
    <3>1. \A j \in 1..Len(Tail(u)) : j + 1 \in 2..Len(u)
      BY <1>1
    <3>2. NoAsk(Tail(u))
      BY <1>1, <2>1, <2>2, <3>1 DEF NoAsk
    <3> QED
      BY <1>1, <2>1, <2>2, <3>2
  <2>3. CASE i # 1
    <3>1. i - 1 \in 1..Len(Tail(u)) /\ Tail(u)[i - 1] = SelectReq(n)
      BY <1>1, <2>1, <2>3
    <3>2. \A j \in ((i-1)+1)..Len(Tail(u)) : j + 1 \in (i+1)..Len(u) /\ Tail(u)[j] = u[j + 1]
      BY <1>1, <2>3
    <3> QED
      BY <2>1, <3>1, <3>2 DEF LastAsk
  <2> QED
    BY <2>2, <2>3
<1>3. NoAsk(u) => NoAsk(Tail(u)) /\ Head(u).type # "select"
  BY <1>1 DEF NoAsk
<1>4. NoAsk(Tail(u)) /\ Head(u).type # "select" => NoAsk(u)
  <2> SUFFICES ASSUME NoAsk(Tail(u)), Head(u).type # "select", NEW i \in 1..Len(u)
               PROVE  u[i].type # "select"
    BY DEF NoAsk
  <2>1. CASE i = 1
    BY <1>1, <2>1
  <2>2. CASE i # 1
    <3>1. i \in 2..Len(u)
      BY <1>1, <2>2
    <3> QED
      BY <1>1, <3>1 DEF NoAsk
  <2> QED
    BY <2>1, <2>2
<1> QED
  BY <1>2, <1>3, <1>4

\* Adding one.
LEMMA AskAppended ==
    ASSUME NEW u \in Seq(Request), NEW m \in Request
    PROVE  /\ m.type = "select" => LastAsk(u \o <<m>>, m.receiver) /\ ~ NoAsk(u \o <<m>>)
           /\ m.type # "select" => /\ NoAsk(u) <=> NoAsk(u \o <<m>>)
                                   /\ \A n : LastAsk(u, n) => LastAsk(u \o <<m>>, n)
<1> DEFINE v == u \o <<m>>
<1>1. /\ Len(v) = Len(u) + 1 /\ Len(u) \in Nat /\ v[Len(u) + 1] = m
      /\ \A i \in 1..Len(u) : i \in 1..Len(v) /\ v[i] = u[i]
      /\ \A i \in 1..Len(v) : i \in 1..Len(u) \/ i = Len(u) + 1
      /\ Len(v) \in 1..Len(v) /\ (Len(v)+1)..Len(v) = {}
  OBVIOUS
<1> HIDE DEF v
<1>2. ASSUME m.type = "select"
      PROVE  LastAsk(v, m.receiver) /\ ~ NoAsk(v)
  <2>1. m = SelectReq(m.receiver)
    BY <1>2 DEF Request, SelectReq
  <2>2. LastAsk(v, m.receiver)
    BY <1>1, <2>1 DEF LastAsk
  <2>3. ~ NoAsk(v)
    BY <1>1, <1>2 DEF NoAsk
  <2> QED
    BY <2>2, <2>3
<1>3. ASSUME m.type # "select"
      PROVE  NoAsk(u) <=> NoAsk(v)
  BY <1>1, <1>3 DEF NoAsk
<1>4. ASSUME m.type # "select", NEW n, LastAsk(u, n)
      PROVE  LastAsk(v, n)
  <2>1. PICK i \in 1..Len(u) : u[i] = SelectReq(n) /\ \A j \in (i+1)..Len(u) : u[j].type # "select"
    BY <1>4 DEF LastAsk
  <2>2. \A j \in (i+1)..Len(v) : j \in (i+1)..Len(u) \/ j = Len(u) + 1
    BY <1>1
  <2>3. \A j \in (i+1)..Len(u) : v[j] = u[j]
    BY <1>1
  <2> QED
    BY <1>1, <1>4, <2>1, <2>2, <2>3 DEF LastAsk
<1> QED
  BY <1>2, <1>3, <1>4 DEF v

-----------------------------------------------------------------------------

\* No news of its attachment is on its way to p, and p has not asked for any.
Settles(p) == Hears(link[p]) /\ NoAsk(up[p])

\* The relay's handlers: p gets what it has asked for last, ...
LEMMA ServesBound ==
    ASSUME TypeOK, Attachments, up \in Requests, NEW x \in Peers, Serves(x),
           NEW p \in Providers, NEW n, Bound(p, n)
    PROVE  Bound(p, n)'
<1>0. p \in Peers /\ up[p] \in Seq(Request)
  BY DEF Peers, Requests, Made
<1>1. CASE ServerReads(x)
  <2> DEFINE m == Head(up[x])
  <2>1. /\ up[x] # << >> /\ m \in Request /\ up'[x] = Tail(up[x])
        /\ \A y \in Peers \ {x} : up'[y] = up[y]
    BY <1>1, RequestRead DEF ServerReads
  <2>2. ASSUME m.type = "select", x \in Providers, Select(x, m.receiver)
        PROVE  Bound(p, n)'
    <3>1. m.receiver \in Names \cup {None} /\ m = SelectReq(m.receiver)
      BY <2>1, <2>2 DEF Request, SelectReq
    <3>2. CASE x # p
      BY <1>0, <2>1, <2>2, <3>1, <3>2, MildSteps, BoundStays
    <3>3. CASE x = p
      <4> DEFINE k == m.receiver
      <4>1. /\ target'[p] = IF k \in Names THEN receivers[k] ELSE None
            /\ link'[p].state = "open" => link[p].state = "open"
        <5>1. Calmer(link', link)
          BY <2>2, <3>1, <3>3, OthersLinks DEF Others
        <5>2. target'[p] = IF k \in Names THEN receivers[k] ELSE None
          BY <2>2, <3>3 DEF Select, Retarget
        <5> QED
          BY <1>0, <5>1, <5>2 DEF Calmer
      <4>2. target'[p] = None \/ Name(target'[p]) = k
        BY <4>1 DEF Attachments, OfferedIsConnected
      <4> HIDE DEF m, k
      <4>3. SUFFICES ASSUME link'[p].state = "open"
                     PROVE  \/ NoAsk(up'[p]) /\ (target'[p] = None \/ Name(target'[p]) = n)
                            \/ LastAsk(up'[p], n)
        BY DEF Bound
      <4>4. ~ NoAsk(up[p])
        BY <1>0, <2>1, <2>2, <3>3, AskTail DEF m
      <4>5. LastAsk(up[p], n)
        BY <4>1, <4>3, <4>4 DEF Bound
      <4>6. LastAsk(Tail(up[p]), n) \/ (m = SelectReq(n) /\ NoAsk(Tail(up[p])))
        BY <1>0, <2>1, <3>3, <4>5, AskTail DEF m
      <4>7. m = SelectReq(n) => k = n
        BY DEF SelectReq, k
      <4> QED
        BY <2>1, <3>3, <4>2, <4>6, <4>7
    <3> QED
      BY <3>2, <3>3
  <2>3. ASSUME m.type = "blob", Mild(p)
        PROVE  Bound(p, n)'
    <3>1. CASE x # p
      BY <1>0, <2>1, <2>3, <3>1, BoundStays
    <3>2. CASE x = p
      <4>1. m # SelectReq(n)
        BY <2>3 DEF SelectReq
      <4> HIDE DEF m
      <4>2. NoAsk(up[p]) => NoAsk(up'[p])
        BY <1>0, <2>1, <3>2, AskTail
      <4>3. LastAsk(up[p], n) => LastAsk(up'[p], n)
        BY <1>0, <2>1, <3>2, <4>1, AskTail DEF m
      <4> QED
        BY <2>3, <4>2, <4>3 DEF Bound, Mild
    <3> QED
      BY <3>1, <3>2
  <2>4. CASE m.type = "blob" /\ Forward(x, m.body)
    <3>1. m.body \in Payloads
      BY <2>1, <2>4, ClientsAssumption DEF Request
    <3> QED
      BY <2>3, <2>4, <3>1, MildSteps
  <2>5. CASE m.type = "blob" /\ Partner(x) = None /\ UNCHANGED vars
    BY <2>3, <2>5, MildSteps DEF vars
  <2> QED
    BY <1>1, <2>2, <2>4, <2>5 DEF ServerReads
<1>2. CASE ServerDrops(x)
  <2>1. up' = [up EXCEPT ![x] = << >>] /\ Leave(x)
    BY <1>2 DEF ServerDrops
  <2>2. CASE x = p
    <3>1. link'[p].state = "none"
      BY <2>1, <2>2, ProviderLeaveLinks DEF Leave
    <3> QED
      BY <3>1 DEF Bound
  <2>3. CASE x # p
    <3>1. Mild(p)
      BY <2>1, MildSteps DEF Leave, Peers
    <3> QED
      BY <1>0, <2>1, <2>3, <3>1, BoundStays DEF Requests
  <2> QED
    BY <2>2, <2>3
<1> QED
  BY <1>1, <1>2 DEF Serves

\* ... and is told.
LEMMA ServesSettles ==
    ASSUME TypeOK, Attachments, up \in Requests, NEW x \in Peers, Serves(x),
           NEW p \in Providers, Settles(p)'
    PROVE  Settles(p)
<1>0. p \in Peers /\ up[p] \in Seq(Request) /\ Hears(link'[p]) /\ NoAsk(up'[p])
  BY DEF Peers, Requests, Made, Settles
<1>1. CASE ServerReads(x)
  <2> DEFINE m == Head(up[x])
  <2>1. /\ up[x] # << >> /\ m \in Request /\ up'[x] = Tail(up[x])
        /\ \A y \in Peers \ {x} : up'[y] = up[y]
    BY <1>1, RequestRead DEF ServerReads
  <2>2. CASE m.type = "select" /\ x \in Providers /\ Select(x, m.receiver)
    <3>1. m.receiver \in Names \cup {None}
      BY <2>1, <2>2 DEF Request
    <3>2. Placid(p, Dull) /\ p # x
      BY <1>0, <2>2, <3>1, SelectPlacid
    <3> QED
      BY <1>0, <2>1, <3>2 DEF Placid, Settles
  <2>3. ASSUME m.type = "blob", Hears(link[p])
        PROVE  Settles(p)
    <3>1. CASE x # p
      BY <1>0, <2>1, <2>3, <3>1 DEF Settles
    <3>2. CASE x = p
      <4> HIDE DEF m
      <4>1. m.type # "select"
        BY <2>3
      <4>2. NoAsk(up[p])
        BY <1>0, <2>1, <3>2, <4>1, AskTail DEF m
      <4> QED
        BY <2>3, <4>2 DEF Settles
    <3> QED
      BY <3>1, <3>2
  <2>4. CASE m.type = "blob" /\ Forward(x, m.body)
    <3>1. E2E(x, m.body) \in Message
      BY <2>1, <2>4, MessageTypes, ClientsAssumption DEF Request
    <3>2. link' = Tell(link, {Partner(x)}, E2E(x, m.body)) /\ link \in Links
      BY <2>4 DEF Forward, Links, TypeOK
    <3>3. link'[p] = link[p] \/ link'[p] = Put(link[p], E2E(x, m.body))
      BY <1>0, <3>2, TellAt
    <3>4. link[p] \in Link
      BY <1>0 DEF TypeOK, Link
    <3>5. Hears(link[p])
      BY <1>0, <3>1, <3>3, <3>4, PutHears
    <3> QED
      BY <2>3, <2>4, <3>5
  <2>5. CASE m.type = "blob" /\ Partner(x) = None /\ UNCHANGED vars
    BY <1>0, <2>3, <2>5 DEF vars
  <2> QED
    BY <1>1, <2>2, <2>4, <2>5 DEF ServerReads
<1>2. CASE ServerDrops(x)
  <2>1. up' = [up EXCEPT ![x] = << >>] /\ Leave(x)
    BY <1>2 DEF ServerDrops
  <2>2. Placid(p, Dull) /\ p # x
    BY <1>0, <2>1, ProviderLeavePlacid, ReceiverLeavePlacid, HubAssumption DEF Leave, Peers
  <2> QED
    BY <1>0, <2>1, <2>2 DEF Placid, Settles, Requests
<1> QED
  BY <1>1, <1>2 DEF Serves

\* So it is with what receivers do ...
LEMMA ReceivesBound ==
    ASSUME TypeOK, Attachments, up \in Requests, NEW r \in Receivers, Receives(r), NEW p \in Providers
    PROVE  /\ \A n : Bound(p, n) => Bound(p, n)'
           /\ Settles(p)' => Settles(p)
<1>0. p \in Peers /\ r \in Peers /\ p # r /\ up[p] \in Seq(Request)
  BY HubAssumption DEF Peers, Requests, Made
<1>1. up'[p] = up[p]
  <2>1. \A ms : Send(r, ms) => up'[p] = up[p]
    BY <1>0 DEF Send, Requests
  <2>2. UNCHANGED up \/ \E ms : Send(r, ms)
    BY DEF Receives, RxConsumes, RxConnects, RxDisconnects, OnAttachment, OnHs1, OnSealed
  <2> QED
    BY <2>1, <2>2
<1>2. Mild(p)
  BY <1>0, MildSteps DEF Receives, RxConsumes, RxConnects, RxDisconnects, vars
<1>3. Hears(link'[p]) => Hears(link[p])
  <2>1. CASE Deliver(r)
    BY <1>0, <2>1, DeliverLinks
  <2>2. CASE ReceiverJoin(r)
    BY <2>2, ReceiverJoinPlacid DEF Placid
  <2>3. CASE UNCHANGED link
    BY <2>3
  <2> QED
    BY <2>1, <2>2, <2>3 DEF Receives, RxConsumes, RxConnects, RxDisconnects, vars
<1> QED
  BY <1>1, <1>2, <1>3, BoundStays DEF Settles

\* ... and other providers.
LEMMA ApartBound ==
    ASSUME TypeOK, Attachments, up \in Requests, NEW p \in Providers, NEW q \in Providers \ {p},
           NEW ms, Apart(q, ms)
    PROVE  /\ \A n : Bound(p, n) => Bound(p, n)'
           /\ Settles(p)' => Settles(p)
<1>0. p \in Peers /\ q \in Peers
  BY DEF Peers
<1>1. up'[p] = up[p]
  BY <1>0 DEF Apart, Send, Requests
<1>2. Mild(p)
  BY <1>0, MildSteps DEF Apart
<1>3. Hears(link'[p]) => Hears(link[p])
  <2>1. CASE Deliver(q)
    BY <1>0, <2>1, DeliverLinks
  <2>2. CASE ProviderJoin(q)
    BY <2>2, ProviderJoinPlacid DEF Placid
  <2>3. CASE UNCHANGED link
    BY <2>3
  <2> QED
    BY <2>1, <2>2, <2>3 DEF Apart
<1> QED
  BY <1>1, <1>2, <1>3, BoundStays DEF Settles

-----------------------------------------------------------------------------
(* What p does itself.                                                     *)

\* p takes a message or none, and sends nothing.
LEMMA SilentBound ==
    ASSUME TypeOK, Attachments, up \in Requests, NEW p \in Providers, Acts(p, << >>), NEW n, Bound(p, n)
    PROVE  Bound(p, n)'
<1>0. p \in Peers /\ up[p] \in Seq(Request)
  BY DEF Peers, Requests, Made
<1>1. up'[p] = up[p]
  BY <1>0 DEF Acts, Send, Requests
<1>2. Mild(p)
  BY <1>0, MildSteps DEF Acts
<1> QED
  BY <1>1, <1>2, BoundStays

\* It sends a blob.
LEMMA BlobBound ==
    ASSUME TypeOK, Attachments, up \in Requests, NEW p \in Providers, NEW m \in Request, m.type # "select",
           Acts(p, <<m>>), NEW n, Bound(p, n)
    PROVE  Bound(p, n)'
<1>0. p \in Peers /\ up[p] \in Seq(Request)
  BY DEF Peers, Requests, Made
<1>1. Mild(p)
  BY <1>0, MildSteps DEF Acts
<1>2. SUFFICES ASSUME link'[p].state = "open"
               PROVE  \/ NoAsk(up'[p]) /\ (target'[p] = None \/ Name(target'[p]) = n)
                      \/ LastAsk(up'[p], n)
  BY DEF Bound
<1>3. up'[p] = up[p] \o <<m>>
  BY <1>0, <1>1, <1>2 DEF Acts, Send, Requests, Mild
<1>4. /\ NoAsk(up[p]) => NoAsk(up'[p])
      /\ LastAsk(up[p], n) => LastAsk(up'[p], n)
  BY <1>0, <1>3, AskAppended
<1> QED
  BY <1>1, <1>2, <1>4 DEF Bound, Mild

\* It asks for n.
LEMMA AsksBound ==
    ASSUME TypeOK, Attachments, up \in Requests, NEW p \in Providers, NEW n \in Names \cup {None},
           Acts(p, <<SelectReq(n)>>)
    PROVE  Bound(p, n)' /\ ~ Settles(p)'
<1>0. p \in Peers /\ up[p] \in Seq(Request) /\ SelectReq(n) \in Request
  BY RequestTypes DEF Peers, Requests, Made
<1>1. Mild(p)
  BY <1>0, MildSteps DEF Acts
<1>2. SUFFICES ASSUME link'[p].state = "open"
               PROVE  LastAsk(up'[p], n) /\ ~ NoAsk(up'[p])
  BY DEF Bound, Settles, Hears
<1>3. up'[p] = up[p] \o <<SelectReq(n)>>
  BY <1>0, <1>1, <1>2 DEF Acts, Send, Requests, Mild
<1>4. SelectReq(n).type = "select" /\ SelectReq(n).receiver = n
  BY DEF SelectReq
<1> QED
  BY <1>0, <1>3, <1>4, AskAppended

\* A new connection.
LEMMA JoinBound ==
    ASSUME TypeOK, Attachments, NEW p \in Providers, ProviderJoin(p), UNCHANGED up, up[p] = << >>, NEW n
    PROVE  Bound(p, n)'
<1>1. target'[p] = target[p] /\ link[p].state = "none"
  BY DEF ProviderJoin
<1>2. target[p] = None
  BY <1>1 DEF Attachments, AttachedIsRegistered, Connected, TypeOK
<1> QED
  BY <1>1, <1>2 DEF Bound, NoAsk

-----------------------------------------------------------------------------

\* Nothing is left unread of a connection that is gone.
Unheard == \A x \in Peers : link[x].state = "none" => up[x] = << >>

\* What a client sends without a connection is lost.
LEMMA SendUnheard ==
    ASSUME up \in Requests, Unheard, NEW x \in Peers, NEW ms, Send(x, ms),
           \A y \in Peers : link'[y].state = "none" => link[y].state = "none"
    PROVE  Unheard'
BY DEF Unheard, Send, Requests

\* The relay's handlers.
LEMMA ServesUnheard ==
    ASSUME TypeOK, up \in Requests, Unheard, NEW x \in Peers, Serves(x)
    PROVE  Unheard'
<1>1. CASE ServerReads(x)
  <2> DEFINE m == Head(up[x])
  <2>1. /\ up[x] # << >> /\ m \in Request /\ link[x].state # "none"
        /\ \A y \in Peers \ {x} : up'[y] = up[y]
    BY <1>1, RequestRead DEF ServerReads
  <2>2. Calmer(link', link)
    <3>1. CASE m.type = "select" /\ x \in Providers /\ Select(x, m.receiver)
      BY <2>1, <3>1, OthersLinks DEF Request, Others
    <3>2. CASE m.type = "blob" /\ Forward(x, m.body)
      BY <2>1, <3>2, OthersLinks, ClientsAssumption DEF Request, Others
    <3>3. CASE UNCHANGED vars
      BY <3>3 DEF Calmer, vars
    <3> QED
      BY <1>1, <3>1, <3>2, <3>3 DEF ServerReads
  <2> QED
    BY <2>1, <2>2 DEF Unheard, Calmer
<1>2. CASE ServerDrops(x)
  <2>1. up' = [up EXCEPT ![x] = << >>] /\ Leave(x)
    BY <1>2 DEF ServerDrops
  <2>2. CalmerBut({x})
    BY <2>1, ProviderLeaveLinks, ReceiverLeaveLinks DEF Leave, Peers
  <2> QED
    BY <2>1, <2>2 DEF Unheard, CalmerBut, Requests
<1> QED
  BY <1>1, <1>2 DEF Serves

\* What clients do themselves.
LEMMA ReceivesUnheard ==
    ASSUME TypeOK, up \in Requests, Unheard, NEW r \in Receivers, Receives(r)
    PROVE  Unheard'
<1>0. r \in Peers
  BY DEF Peers
<1>1. \E ms : Send(r, ms)
  BY <1>0, SendNothing DEF Receives, RxConsumes, RxConnects, RxDisconnects, OnAttachment, OnHs1, OnSealed
<1>2. \A y \in Peers : link'[y].state = "none" => link[y].state = "none"
  <2>1. CASE Deliver(r)
    BY <1>0, <2>1, OthersLinks DEF Others, Calmer
  <2>2. CASE ReceiverJoin(r)
    BY <2>2, ReceiverJoinLinks DEF CalmerBut
  <2>3. CASE UNCHANGED link
    BY <2>3
  <2> QED
    BY <2>1, <2>2, <2>3 DEF Receives, RxConsumes, RxConnects, RxDisconnects, vars
<1> QED
  BY <1>0, <1>1, <1>2, SendUnheard

\* What providers do themselves.
LEMMA ApartUnheard ==
    ASSUME TypeOK, up \in Requests, Unheard, NEW p \in Providers, NEW ms, Apart(p, ms)
    PROVE  Unheard'
<1>0. p \in Peers
  BY DEF Peers
<1>1. \A y \in Peers : link'[y].state = "none" => link[y].state = "none"
  <2>1. CASE Deliver(p)
    BY <1>0, <2>1, OthersLinks DEF Others, Calmer
  <2>2. CASE ProviderJoin(p)
    BY <2>2, ProviderJoinLinks DEF CalmerBut
  <2>3. CASE UNCHANGED link
    BY <2>3
  <2> QED
    BY <2>1, <2>2, <2>3 DEF Apart
<1> QED
  BY <1>0, <1>1, SendUnheard DEF Apart
-----------------------------------------------------------------------------
(* Being reminded.  A provider that has lost its receiver learns from the  *)
(* next list that it is online again, and asks for it.                     *)

\* A client that wants n, and believes in v, meets a list with n, and believes then
\* that it has not got n.
Prompts(v, q, n) == \E i \in 1..Len(q) : /\ q[i].type = "receivers" /\ n \in q[i].names
                                         /\ ~ Told(v, q, i, n)

\* p acts as if it had v, for which there is a reason or which will change; if n is
\* online and p types into nothing, a list that makes p ask for n is on its way.
Reminded(p, v, n) == link[p].state = "open" =>
    /\ NoNews(link[p].queue) => v = view[p].who
    /\ target[p] = None /\ n \in Now => Prompts(v, link[p].queue, n)

\* As soon as the relay has read all that p has asked for.
Awaits(p, v, n) == NoAsk(up[p]) => Reminded(p, v, n)

\* No provider loses its receiver to another one.
Unrobbed == \A p \in Providers : target[p] # None /\ target'[p] = None => provider'[target[p]] = None

\* What was told is there still, unless the connection has been closed.
Longer(l, l2) == l2.state = "open" =>
    /\ l.state = "open"
    /\ \A i \in 1..Len(l.queue) : i \in 1..Len(l2.queue) /\ l2.queue[i] = l.queue[i]

\* A client is told one thing at a time.
LEMMA ToldOnce ==
    ASSUME NEW v, NEW q, NEW i \in Nat, NEW w, NEW u, Told(v, q, i, w), Told(v, q, i, u)
    PROVE  w = u
<1>1. CASE \A j \in 1..i : ~ Announces(q[j])
  BY <1>1 DEF Told
<1>2. CASE ~ \A j \in 1..i : ~ Announces(q[j])
  <2>1. PICK j \in 1..i : Announces(q[j]) /\ q[j].who = w /\ \A k \in (j+1)..i : ~ Announces(q[k])
    BY <1>2 DEF Told
  <2>2. PICK h \in 1..i : Announces(q[h]) /\ q[h].who = u /\ \A k \in (h+1)..i : ~ Announces(q[k])
    BY <1>2 DEF Told
  <2>3. h = j
    <3>1. h > j => h \in (j+1)..i
      OBVIOUS
    <3>2. j > h => j \in (h+1)..i
      OBVIOUS
    <3> QED
      BY <2>1, <2>2, <3>1, <3>2
  <2> QED
    BY <2>1, <2>2, <2>3
<1> QED
  BY <1>1, <1>2

\* What is added to a queue does not take a reminder away.
LEMMA PromptsLonger ==
    ASSUME NEW l \in Link, NEW l2 \in Link, Longer(l, l2), l2.state = "open", NEW v, NEW n, Prompts(v, l.queue, n)
    PROVE  Prompts(v, l2.queue, n)
<1>1. PICK i \in 1..Len(l.queue) : l.queue[i].type = "receivers" /\ n \in l.queue[i].names /\ ~ Told(v, l.queue, i, n)
  BY DEF Prompts
<1>2. i \in Nat /\ \A j \in 1..i : j \in 1..Len(l.queue)
  BY DEF Link
<1>3. \A j \in 1..i : l.queue[j] = l2.queue[j]
  BY <1>2 DEF Longer
<1>4. ~ Told(v, l2.queue, i, n)
  BY <1>1, <1>2, <1>3, ToldPrefix
<1>5. i \in 1..Len(l2.queue) /\ l2.queue[i] = l.queue[i]
  BY DEF Longer
<1> QED
  BY <1>1, <1>4, <1>5 DEF Prompts

\* A client that takes its next message still has the reminder before it, or this is it.
LEMMA PromptsTail ==
    ASSUME NEW v, NEW q \in Seq(Message), q # << >>, NEW n, Prompts(v, q, n)
    PROVE  \/ Prompts(After(v, Head(q)), Tail(q), n)
           \/ Head(q).type = "receivers" /\ n \in Head(q).names /\ v # n
<1>1. PICK i \in 1..Len(q) : q[i].type = "receivers" /\ n \in q[i].names /\ ~ Told(v, q, i, n)
  BY DEF Prompts
<1>2. /\ i \in Nat /\ Head(q) = q[1]
      /\ \A j \in 1..(i - 1) : Tail(q)[j] = q[j + 1] /\ j + 1 \in 1..i
  OBVIOUS
<1>3. ~ Announces(q[i])
  BY <1>1 DEF Announces
<1>4. CASE i = 1
  BY <1>1, <1>2, <1>3, <1>4 DEF Told
<1>5. CASE i # 1
  <2>1. i - 1 \in 1..Len(Tail(q)) /\ (i - 1) + 1 = i /\ i - 1 \in 1..(i - 1) /\ 1 \in 1..i
    BY <1>5
  <2>2. ASSUME Told(After(v, Head(q)), Tail(q), i - 1, n)
        PROVE  Told(v, q, i, n)
    <3>1. CASE After(v, Head(q)) = n /\ \A j \in 1..(i - 1) : ~ Announces(Tail(q)[j])
      <4>1. \A k \in 2..i : k - 1 \in 1..(i - 1) /\ (k - 1) + 1 = k
        BY <2>1
      <4>2. \A k \in 2..i : ~ Announces(q[k])
        BY <1>2, <3>1, <4>1
      <4>3. CASE Announces(q[1])
        <5>1. \A k \in (1+1)..i : k \in 2..i
          OBVIOUS
        <5> QED
          BY <1>2, <2>1, <3>1, <4>2, <4>3, <5>1 DEF Told, After
      <4>4. CASE ~ Announces(q[1])
        <5>1. \A k \in 1..i : k = 1 \/ k \in 2..i
          OBVIOUS
        <5> QED
          BY <1>2, <3>1, <4>2, <4>4, <5>1 DEF Told, After
      <4> QED
        BY <4>3, <4>4
    <3>2. ASSUME NEW j \in 1..(i - 1), Announces(Tail(q)[j]), Tail(q)[j].who = n,
                 \A k \in (j+1)..(i - 1) : ~ Announces(Tail(q)[k])
          PROVE  Told(v, q, i, n)
      <4>1. j + 1 \in 1..i /\ q[j + 1] = Tail(q)[j]
        BY <1>2
      <4>2. \A k \in ((j + 1)+1)..i : k - 1 \in (j+1)..(i - 1) /\ k - 1 \in 1..(i - 1) /\ (k - 1) + 1 = k
        OBVIOUS
      <4>3. \A k \in ((j + 1)+1)..i : ~ Announces(q[k])
        BY <1>2, <3>2, <4>2
      <4> QED
        BY <3>2, <4>1, <4>3 DEF Told
    <3> QED
      BY <2>2, <3>1, <3>2 DEF Told
  <2>3. Tail(q)[i - 1] = q[i]
    BY <1>2, <2>1
  <2> QED
    BY <1>1, <2>1, <2>2, <2>3 DEF Prompts
<1> QED
  BY <1>4, <1>5

\* A message more, or none.
LEMMA PutLonger ==
    ASSUME NEW l \in Link, NEW m \in Message
    PROVE  /\ Longer(l, Put(l, m))
           /\ Put(l, m).state = "open" => /\ Put(l, m).queue # << >>
                                          /\ Put(l, m).queue[Len(Put(l, m).queue)] = m
<1>1. l.queue \in Seq(Message) /\ Len(l.queue) \in Nat
  BY DEF Link
<1>2. PICK q \in Seq(Message) : q = l.queue
  BY <1>1
<1>3. /\ Len(Append(q, m)) = Len(q) + 1 /\ Append(q, m)[Len(q) + 1] = m /\ Append(q, m) # << >>
      /\ \A i \in 1..Len(q) : i \in 1..Len(Append(q, m)) /\ Append(q, m)[i] = q[i]
  OBVIOUS
<1>4. Put(l, m).state = "open" => Put(l, m).queue = Append(q, m) /\ l.state = "open"
  BY <1>2 DEF Put, Link
<1> QED
  BY <1>2, <1>3, <1>4 DEF Longer

\* The relay has not taken anything back that it has queued for p.
Retained(p) == Longer(link[p], link'[p]) /\ (link'[p].state = "open" => view'[p] = view[p])

LEMMA LongerTransitive ==
    ASSUME NEW a, NEW b, NEW c, Longer(a, b), Longer(b, c)
    PROVE  Longer(a, c)
BY DEF Longer

LEMMA TellLonger ==
    ASSUME NEW links \in Links, NEW S, NEW m \in Message, NEW x \in Peers
    PROVE  Longer(links[x], Tell(links, S, m)[x])
<1>1. links[x] \in Link
  BY DEF Links, Link
<1>2. Longer(links[x], links[x])
  BY DEF Longer
<1> QED
  BY <1>1, <1>2, TellAt, PutLonger

LEMMA AnnounceLonger ==
    ASSUME link \in Links, NEW p \in Providers, NEW new, NEW x \in Peers
    PROVE  Longer(link[x], Announce(p, new)[x])
<1> DEFINE a == Tell(link, Left(p, new), Detached)
           b == Tell(a, Robbed(p, new), Selected(None))
<1>1. /\ Detached \in Message /\ Selected(None) \in Message /\ Attached(p) \in Message
      /\ a \in Links /\ b \in Links
  BY MessageTypes, TellFacts
<1>2. Announce(p, new) = Tell(b, Gained(p, new), Attached(p))
  BY DEF Announce
<1>3. Longer(link[x], a[x])
  BY <1>1, TellLonger
<1> HIDE DEF a
<1>4. Longer(a[x], b[x])
  BY <1>1, TellLonger
<1> HIDE DEF b
<1>5. Longer(b[x], Announce(p, new)[x])
  BY <1>1, <1>2, TellLonger
<1> QED
  BY <1>3, <1>4, <1>5, LongerTransitive

\* Nobody but p takes from p's queue.
LEMMA OthersKeep ==
    ASSUME TypeOK, NEW p \in Providers,
           \/ \E r \in Receivers : ReceiverJoin(r) \/ ReceiverLeave(r)
           \/ \E q \in Providers : ProviderLeave(q) \/ \E k \in Names \cup {None} : Select(q, k)
           \/ \E q \in Providers \ {p} : ProviderJoin(q)
           \/ \E x \in Peers \ {p} : Deliver(x)
           \/ \E x \in Peers : \E b \in Payloads : Forward(x, b)
           \/ UNCHANGED <<link, view>>
    PROVE  Retained(p)
<1>0. /\ p \in Peers /\ p \notin Receivers /\ link \in Links
      /\ view \in [Peers -> [who : Names \cup Providers \cup {None}, names : SUBSET Names]]
  BY HubAssumption DEF Peers, TypeOK, Links
<1>1. ASSUME link'[p] = link[p], view'[p] = view[p]
      PROVE  Retained(p)
  BY <1>1 DEF Retained, Longer
<1>2. ASSUME NEW r \in Receivers, view' = Blank(r)
      PROVE  view'[p] = view[p]
  BY <1>0, <1>2 DEF Blank
<1>3. ASSUME NEW links \in Links, NEW rs
      PROVE  Longer(links[p], Broadcast(links, rs)[p])
  BY <1>0, MessageTypes, TellLonger DEF Broadcast
<1>4. ASSUME NEW r \in Receivers, ReceiverJoin(r)
      PROVE  Retained(p)
  <2> DEFINE old == {receivers[Name(r)]} \ {None}
             a == [link EXCEPT ![r] = Accepted]
             b == Tell(a, Dropped(old), Selected(None))
             c == Close(b, old)
  <2>1. a[p] = link[p] /\ a \in Links
    <3>1. p \in Peers \ {r} /\ r \in Peers
      BY <1>0 DEF Peers
    <3>2. a[p] = link[p]
      BY <1>0, <3>1 DEF Links
    <3>3. a \in Links
      BY <1>0, <3>1, NewHauls
    <3> QED
      BY <3>2, <3>3
  <2>2. link' = Broadcast(c, receivers') /\ view' = Blank(r) /\ Selected(None) \in Message
    BY <1>4, MessageTypes DEF ReceiverJoin
  <2> HIDE DEF a, old
  <2>3. b \in Links /\ Longer(a[p], b[p])
    BY <1>0, <2>1, <2>2, TellFacts, TellLonger
  <2> HIDE DEF b
  <2>4. c \in Links /\ c[p] \in {b[p], [b[p] EXCEPT !.state = "closed"]}
    BY <1>0, <2>3, CloseFacts DEF Close
  <2>5. Longer(b[p], c[p])
    <3>1. b[p] \in Link
      BY <1>0, <2>3 DEF Links, Link
    <3> QED
      BY <2>4, <3>1 DEF Longer, Link
  <2> HIDE DEF c
  <2>6. Longer(c[p], link'[p])
    BY <1>3, <2>2, <2>4
  <2>7. Longer(link[p], link'[p])
    BY <2>1, <2>3, <2>5, <2>6, LongerTransitive
  <2> QED
    BY <1>2, <2>2, <2>7 DEF Retained
<1>5. ASSUME NEW r \in Receivers, ReceiverLeave(r)
      PROVE  Retained(p)
  <2> DEFINE gone == [link EXCEPT ![r] = NoLink]
             a == Tell(gone, Dropped({r}), Selected(None))
  <2>1. gone \in Links /\ gone[p] = link[p]
    <3>1. r \in Peers /\ p \in Peers \ {r}
      BY <1>0 DEF Peers
    <3>2. gone[p] = link[p]
      BY <1>0, <3>1 DEF Links
    <3>3. gone \in Links
      BY <1>0, <3>1, NewHauls
    <3> QED
      BY <3>2, <3>3
  <2>2. view'[p] = view[p] /\ (link' = Broadcast(a, receivers') \/ link' = gone)
    BY <1>2, <1>5 DEF ReceiverLeave
  <2>3. CASE link' = Broadcast(a, receivers')
    <3> HIDE DEF gone
    <3>1. a \in Links /\ Longer(gone[p], a[p])
      BY <1>0, <2>1, MessageTypes, TellFacts, TellLonger
    <3> HIDE DEF a
    <3>2. Longer(a[p], link'[p])
      BY <1>3, <2>3, <3>1
    <3> QED
      BY <2>1, <2>2, <3>1, <3>2, LongerTransitive DEF Retained
  <2>4. CASE link' = gone
    BY <1>1, <2>1, <2>2, <2>4
  <2> QED
    BY <2>2, <2>3, <2>4
<1>6. ASSUME NEW q \in Providers, ProviderLeave(q)
      PROVE  Retained(p)
  <2>1. link' = [Announce(q, None) EXCEPT ![q] = NoLink] /\ Announce(q, None) \in Links /\ view' = Blank(q)
    BY <1>0, <1>6, AnnounceFacts DEF ProviderLeave
  <2>2. CASE q = p
    <3>1. link'[p].state # "open"
      BY <1>6, <2>2, ProviderLeaveLinks
    <3> QED
      BY <3>1 DEF Retained, Longer
  <2>3. CASE q # p
    <3>1. link'[p] = Announce(q, None)[p] /\ view'[p] = view[p]
      BY <1>0, <2>1, <2>3 DEF Links, Blank
    <3> QED
      BY <1>0, <3>1, AnnounceLonger DEF Retained
  <2> QED
    BY <2>2, <2>3
<1>7. ASSUME NEW q \in Providers, NEW k \in Names \cup {None}, Select(q, k)
      PROVE  Retained(p)
  <2> DEFINE new == IF k \in Names THEN receivers[k] ELSE None
             a == Announce(q, new)
             m == Selected(IF new = None THEN None ELSE k)
  <2>1. view' = view /\ link' = Tell(a, {q}, m)
    BY <1>7 DEF Select
  <2>2. m \in Message
    BY MessageTypes
  <2> HIDE DEF m, new
  <2>3. a \in Links /\ Longer(link[p], a[p])
    BY <1>0, AnnounceFacts, AnnounceLonger
  <2> HIDE DEF a
  <2>4. Longer(a[p], link'[p])
    BY <1>0, <2>1, <2>2, <2>3, TellLonger
  <2> QED
    BY <2>1, <2>3, <2>4, LongerTransitive DEF Retained
<1>8. ASSUME NEW q \in Providers \ {p}, ProviderJoin(q)
      PROVE  Retained(p)
  <2> DEFINE a == [link EXCEPT ![q] = Accepted]
             m == ReceiversMsg(receivers)
  <2>1. a[p] = link[p] /\ p \notin {q} /\ link' = Tell(a, {q}, m)
    BY <1>0, <1>8 DEF Links, ProviderJoin
  <2> HIDE DEF a, m
  <2>2. link'[p] = link[p]
    BY <1>0, <2>1, TellAt
  <2>3. view'[p] = view[p]
    BY <1>0, <1>8 DEF ProviderJoin, Blank
  <2> QED
    BY <1>1, <2>2, <2>3
<1>9. ASSUME NEW x \in Peers \ {p}, Deliver(x)
      PROVE  Retained(p)
  <2>1. link'[p] = link[p]
    BY <1>0, <1>9, DeliverLinks
  <2>2. view'[p] = view[p]
    BY <1>0, <1>9 DEF Deliver
  <2> QED
    BY <1>1, <2>1, <2>2
<1>10. ASSUME NEW x \in Peers, NEW b \in Payloads, Forward(x, b)
      PROVE  Retained(p)
  <2> DEFINE m == E2E(x, b)
  <2>1. link' = Tell(link, {Partner(x)}, m) /\ view' = view /\ m \in Message
    BY <1>10, MessageTypes DEF Forward
  <2> HIDE DEF m
  <2> QED
    BY <1>0, <2>1, TellLonger DEF Retained
<1>11. CASE UNCHANGED <<link, view>>
  BY <1>1, <1>11
<1> QED
  BY <1>4, <1>5, <1>6, <1>7, <1>8, <1>9, <1>10, <1>11

\* No news now was no news before.
LEMMA NewsLonger ==
    ASSUME NEW l, NEW l2, Longer(l, l2), l2.state = "open", NoNews(l2.queue)
    PROVE  NoNews(l.queue)
BY DEF Longer, NoNews

\* There is no news if there is none behind a message that is none.
LEMMA NoNewsBefore ==
    ASSUME NEW q \in Seq(Message), q # << >>, NoNews(Tail(q)), ~ Announces(Head(q))
    PROVE  NoNews(q)
<1>1. /\ Head(q) = q[1] /\ Len(Tail(q)) = Len(q) - 1 /\ \A i \in 1..Len(Tail(q)) : Tail(q)[i] = q[i + 1]
      /\ Len(q) \in Nat
  OBVIOUS
<1>2. \A i \in 1..Len(q) : i = 1 \/ (i - 1 \in 1..Len(Tail(q)) /\ (i - 1) + 1 = i)
  BY <1>1
<1> QED
  BY <1>1, <1>2 DEF NoNews

\* News makes clients believe the same.
LEMMA NewsDecides ==
    ASSUME NEW q, NEW v, NEW w, NoNews(q) => v = w, NEW u, Told(w, q, Len(q), u)
    PROVE  Told(v, q, Len(q), u)
BY DEF Told, NoNews

\* A list that has just been queued reminds a provider that types into nothing.
LEMMA ListReminds ==
    ASSUME AllInformed', TypeOK', NEW p \in Providers, NEW v, NEW n \in Names \cup {None},
           link'[p].state = "open" => LET q == link'[p].queue
                                      IN  /\ q # << >> /\ q[Len(q)].type = "receivers"
                                          /\ q[Len(q)].names = Now'
                                          /\ NoNews(q) => v = view'[p].who
    PROVE  Reminded(p, v, n)'
<1> SUFFICES ASSUME link'[p].state = "open", target'[p] = None, n \in Now'
             PROVE  Prompts(v, link'[p].queue, n)
  BY DEF Reminded
<1>1. PICK q \in Seq(Message) : q = link'[p].queue
  BY DEF TypeOK, Peers
<1>2. Len(q) \in Nat /\ Len(q) \in 1..Len(q)
  BY <1>1
<1>3. PartnerName(p)' = None
  BY PartnerNames
<1>4. Told(view'[p].who, q, Len(q), None)
  BY <1>1, <1>3 DEF AllInformed, Informed, Peers
<1>5. n # None
  BY HubAssumption DEF Now
<1>6. ~ Told(v, q, Len(q), n)
  <2>1. Told(v, q, Len(q), None)
    BY <1>1, <1>4, NewsDecides
  <2> QED
    BY <1>2, <1>5, <2>1, ToldOnce
<1>7. q[Len(q)].type = "receivers" /\ n \in q[Len(q)].names
  BY <1>1
<1> QED
  BY <1>1, <1>2, <1>6, <1>7 DEF Prompts

LEMMA BroadcastLast ==
    ASSUME NEW links \in Links, NEW p \in Providers, Broadcast(links, receivers')[p].state = "open"
    PROVE  LET q == Broadcast(links, receivers')[p].queue
           IN  q # << >> /\ q[Len(q)].type = "receivers" /\ q[Len(q)].names = Now'
<1> DEFINE m == ReceiversMsg(receivers')
<1>0. p \in Peers /\ links[p] \in Link /\ m \in Message /\ m.type = "receivers" /\ m.names = Now'
  BY MessageTypes DEF Peers, Links, Link, ReceiversMsg, Now
<1> HIDE DEF m
<1>1. Broadcast(links, receivers')[p] = IF p \in Connected(links) \cap Providers THEN Put(links[p], m) ELSE links[p]
  BY <1>0, TellAt DEF Broadcast, m
<1>2. p \in Connected(links)
  BY <1>0, <1>1 DEF Connected
<1> QED
  BY <1>0, <1>1, <1>2, PutLonger

\* What leaves p without a receiver, and what is sent to p besides.
LEMMA LongerReminded ==
    ASSUME TypeOK, TypeOK', NEW p \in Providers, NEW v, NEW n, Reminded(p, v, n),
           Retained(p), receivers' = receivers, target'[p] = None => target[p] = None
    PROVE  Reminded(p, v, n)'
<1> SUFFICES ASSUME link'[p].state = "open"
             PROVE  Reminded(p, v, n)'
  BY DEF Reminded
<1>1. link[p] \in Link /\ link'[p] \in Link /\ Longer(link[p], link'[p]) /\ view'[p] = view[p]
  BY DEF TypeOK, Link, Peers, Retained
<1>2. Now' = Now /\ link[p].state = "open"
  BY <1>1 DEF Now, Longer
<1>3. NoNews(link'[p].queue) => v = view'[p].who
  BY <1>1, <1>2, NewsLonger DEF Reminded
<1> QED
  BY <1>1, <1>2, <1>3, PromptsLonger DEF Reminded

\* What others do, and what p sends to its receiver, leaves p reminded.
LEMMA OthersReminded ==
    ASSUME TypeOK, TypeOK', Attachments, AllInformed', Unrobbed,
           NEW p \in Providers, NEW v, NEW n \in Names \cup {None}, Reminded(p, v, n),
           \/ \E r \in Receivers : ReceiverJoin(r) \/ ReceiverLeave(r)
           \/ \E q \in Providers \ {p} : \/ ProviderJoin(q) \/ ProviderLeave(q)
                                         \/ \E k \in Names \cup {None} : Select(q, k)
           \/ \E x \in Peers \ {p} : Deliver(x)
           \/ \E x \in Peers : \E b \in Payloads : Forward(x, b)
           \/ UNCHANGED <<link, view, receivers, target>>
    PROVE  Reminded(p, v, n)'
<1>0. /\ p \in Peers /\ p \notin Receivers /\ link \in Links /\ link[p] \in Link
      /\ view \in [Peers -> [who : Names \cup Providers \cup {None}, names : SUBSET Names]]
  BY HubAssumption DEF Peers, TypeOK, Links, Link
<1>1. ASSUME link'[p] = link[p], view'[p] = view[p], UNCHANGED receivers, target'[p] = None => target[p] = None
      PROVE  Reminded(p, v, n)'
  <2>1. Retained(p)
    BY <1>1 DEF Longer, Retained
  <2> QED
    BY <1>1, <2>1, LongerReminded
<1>2. ASSUME NEW links \in Links, link'[p] = Broadcast(links, receivers')[p], Retained(p)
      PROVE  Reminded(p, v, n)'
  <2>1. link'[p].state = "open" => (NoNews(link'[p].queue) => v = view'[p].who)
    BY <1>2, NewsLonger DEF Retained, Longer, Reminded
  <2> QED
    BY <1>2, <2>1, BroadcastLast, ListReminds
<1>3. ASSUME NEW r \in Receivers, ReceiverJoin(r)
      PROVE  Reminded(p, v, n)'
  <2> DEFINE old == {receivers[Name(r)]} \ {None}
             c == Close(Tell([link EXCEPT ![r] = Accepted], Dropped(old), Selected(None)), old)
  <2>1. [link EXCEPT ![r] = Accepted] \in Links
    BY <1>0, NewHauls DEF Peers
  <2>2. c \in Links
    BY <2>1, TellFacts, CloseFacts, MessageTypes
  <2>3. link' = Broadcast(c, receivers')
    BY <1>3 DEF ReceiverJoin
  <2> HIDE DEF c
  <2>4. link'[p] = Broadcast(c, receivers')[p]
    BY <2>3
  <2>5. Retained(p)
    BY <1>3, OthersKeep
  <2> QED
    BY <1>2, <2>2, <2>4, <2>5
<1>4. ASSUME NEW r \in Receivers, ReceiverLeave(r)
      PROVE  Reminded(p, v, n)'
  <2> DEFINE gone == [link EXCEPT ![r] = NoLink]
             a == Tell(gone, Dropped({r}), Selected(None))
  <2>1. gone \in Links /\ gone[p] = link[p]
    <3>1. r \in Peers /\ p \in Peers \ {r}
      BY <1>0 DEF Peers
    <3>2. gone[p] = link[p]
      BY <1>0, <3>1 DEF Links
    <3>3. gone \in Links
      BY <1>0, <3>1, NewHauls
    <3> QED
      BY <3>2, <3>3
  <2>2. a \in Links
    BY <2>1, TellFacts, MessageTypes
  <2>3. CASE link' = Broadcast(a, receivers')
    <3> HIDE DEF a
    <3>1. link'[p] = Broadcast(a, receivers')[p]
      BY <2>3
    <3>2. Retained(p)
      BY <1>4, OthersKeep
    <3> QED
      BY <1>2, <2>2, <3>1, <3>2
  <2>4. CASE Registered(r) = {} /\ link' = gone /\ UNCHANGED <<target, provider>>
    <3>1. receivers' = receivers
      BY <1>4, <2>4 DEF ReceiverLeave, TypeOK
    <3>2. link'[p] = link[p] /\ view'[p] = view[p]
      BY <1>0, <1>4, <2>1, <2>4 DEF ReceiverLeave, Blank, Peers
    <3> QED
      BY <1>1, <2>4, <3>1, <3>2
  <2> QED
    BY <1>4, <2>3, <2>4 DEF ReceiverLeave
<1>5. ASSUME NEW q \in Providers \ {p}, ProviderJoin(q)
      PROVE  Reminded(p, v, n)'
  <2> DEFINE a == [link EXCEPT ![q] = Accepted]
             m == ReceiversMsg(receivers)
  <2>1. a[p] = link[p] /\ p \notin {q} /\ link' = Tell(a, {q}, m)
    BY <1>0, <1>5 DEF Links, ProviderJoin
  <2> HIDE DEF a, m
  <2>2. link'[p] = link[p]
    BY <1>0, <2>1, TellAt
  <2>3. view'[p] = view[p] /\ UNCHANGED <<receivers, target>>
    BY <1>0, <1>5 DEF ProviderJoin, Blank
  <2> QED
    BY <1>1, <2>2, <2>3
<1>6. ASSUME NEW q \in Providers \ {p}, NEW new \in Receivers \cup {None}, Retarget(q, new), UNCHANGED receivers,
             link'[p] = Announce(q, new)[p], view'[p] = view[p]
      PROVE  Reminded(p, v, n)'
  <2>1. CASE p \notin Robbed(q, new)
    <3>1. target'[p] = target[p]
      BY <1>6, <2>1 DEF Retarget
    <3>2. p \notin Left(q, new) /\ p \notin Gained(q, new)
      BY <1>0 DEF Left, Gained
    <3>3. Announce(q, new)[p] = link[p]
      BY <1>0, <2>1, <3>2, TellAt DEF Announce
    <3> QED
      BY <1>1, <1>6, <3>1, <3>3
  <2>2. CASE p \in Robbed(q, new)
    <3>1. PICK r \in Receivers : r \in Gained(q, new) /\ provider[r] = p
      BY <2>2 DEF Robbed, Gained
    <3>2. target[p] = r
      BY <3>1 DEF Attachments, AttachmentSymmetric
    <3>3. target'[p] = None /\ provider'[r] = q
      BY <1>6, <2>2, <3>1 DEF Retarget
    <3>4. r # None /\ q # None
      BY HubAssumption DEF Peers
    <3> QED
      BY <3>2, <3>3, <3>4 DEF Unrobbed
  <2> QED
    BY <2>1, <2>2
<1>7. ASSUME NEW q \in Providers \ {p}, ProviderLeave(q)
      PROVE  Reminded(p, v, n)'
  <2>1. /\ Retarget(q, None) /\ UNCHANGED receivers
        /\ link' = [Announce(q, None) EXCEPT ![q] = NoLink]
    BY <1>7 DEF ProviderLeave
  <2>2. view'[p] = view[p]
    BY <1>0, <1>7 DEF ProviderLeave, Blank
  <2>3. link'[p] = Announce(q, None)[p]
    BY <1>0, <2>1, AnnounceFacts DEF Links
  <2> QED
    BY <1>6, <2>1, <2>2, <2>3
<1>8. ASSUME NEW q \in Providers \ {p}, NEW k \in Names \cup {None}, Select(q, k)
      PROVE  Reminded(p, v, n)'
  <2> DEFINE new == IF k \in Names THEN receivers[k] ELSE None
             a == Announce(q, new)
             m == Selected(IF new = None THEN None ELSE k)
  <2>1. Retarget(q, new) /\ UNCHANGED <<receivers, view>> /\ link' = Tell(a, {q}, m)
    BY <1>8 DEF Select
  <2>2. new \in Receivers \cup {None}
    BY DEF TypeOK
  <2> HIDE DEF a, m, new
  <2>3. link'[p] = a[p]
    BY <1>0, <2>1, TellAt
  <2> QED
    BY <1>6, <2>1, <2>2, <2>3 DEF a
<1>9. ASSUME NEW x \in Peers \ {p}, Deliver(x)
      PROVE  Reminded(p, v, n)'
  <2>1. link'[p] = link[p] /\ target' = target /\ receivers' = receivers
    BY <1>0, <1>9, DeliverLinks DEF Deliver
  <2>2. view'[p] = view[p]
    BY <1>0, <1>9 DEF Deliver
  <2> QED
    BY <1>1, <2>1, <2>2
<1>10. ASSUME NEW x \in Peers, NEW b \in Payloads, Forward(x, b)
      PROVE  Reminded(p, v, n)'
  <2>1. UNCHANGED <<view, receivers, target>>
    BY <1>10 DEF Forward
  <2>2. Retained(p)
    BY <1>10, OthersKeep
  <2> QED
    BY <2>1, <2>2, LongerReminded
<1>11. CASE UNCHANGED <<link, view, receivers, target>>
  BY <1>1, <1>11
<1> QED
  BY <1>3, <1>4, <1>5, <1>7, <1>8, <1>9, <1>10, <1>11

\* p's own connection, and the receiver it asked for.
LEMMA OwnReminded ==
    ASSUME TypeOK, TypeOK', AllInformed', NEW p \in Providers, NEW v, NEW n \in Names \cup {None},
           \/ ProviderJoin(p) /\ v = None
           \/ ProviderLeave(p)
           \/ Select(p, n)
    PROVE  Reminded(p, v, n)'
<1>0. p \in Peers /\ link \in Links
  BY DEF Peers, TypeOK, Links
<1>1. CASE ProviderJoin(p) /\ v = None
  <2> DEFINE m == ReceiversMsg(receivers)
             a == [link EXCEPT ![p] = Accepted]
  <2>1. /\ link' = Tell(a, {p}, m) /\ receivers' = receivers
        /\ a \in Links /\ a[p] = Accepted
    BY <1>0, <1>1, NewHauls DEF ProviderJoin, Links
  <2>2. m \in Message /\ m.type = "receivers" /\ m.names = Now'
    BY <2>1, MessageTypes DEF ReceiversMsg, Now
  <2>3. a[p] \in Link
    BY <1>0, <2>1 DEF Links, Link
  <2> HIDE DEF m, a
  <2>4. link'[p] = Put(a[p], m)
    BY <1>0, <2>1, TellAt
  <2>5. link'[p].state = "open" => /\ link'[p].queue # << >>
                                   /\ link'[p].queue[Len(link'[p].queue)] = m
    BY <2>2, <2>3, <2>4, PutLonger
  <2>6. view'[p].who = None
    BY <1>0, <1>1 DEF ProviderJoin, Blank, TypeOK
  <2> QED
    BY <1>1, <2>2, <2>5, <2>6, ListReminds
<1>2. CASE ProviderLeave(p)
  BY <1>2, ProviderLeaveLinks DEF Reminded
<1>3. CASE Select(p, n)
  <2> DEFINE new == IF n \in Names THEN receivers[n] ELSE None
             a == Announce(p, new)
             m == Selected(IF new = None THEN None ELSE n)
  <2>1. receivers' = receivers /\ target'[p] = new /\ link' = Tell(a, {p}, m)
    BY <1>3 DEF Select, Retarget
  <2>2. m \in Message /\ Announces(m)
    BY MessageTypes, SaysWho
  <2>3. a \in Links /\ a[p] \in Link
    BY <1>0, AnnounceFacts DEF Links, Link
  <2>4. link'[p].state = "open" => ~ NoNews(link'[p].queue)
    <3> HIDE DEF a, m
    <3>1. link'[p] = Put(a[p], m)
      BY <1>0, <2>1, TellAt
    <3>2. link'[p].state = "open" => /\ link'[p].queue # << >> /\ link'[p].queue \in Seq(Message)
                                     /\ link'[p].queue[Len(link'[p].queue)] = m
      BY <1>0, <2>2, <2>3, <3>1, PutLonger DEF TypeOK
    <3>3. \A q \in Seq(Message) : q # << >> => Len(q) \in 1..Len(q)
      OBVIOUS
    <3> QED
      BY <2>2, <3>2, <3>3 DEF NoNews
  <2> HIDE DEF a, m
  <2> QED
    BY <2>1, <2>4 DEF Reminded, Now
<1> QED
  BY <1>1, <1>2, <1>3

\* p takes a message that does not remind it, or nothing, and asks for nothing.
LEMMA SilentAwaits ==
    ASSUME TypeOK, TypeOK', up \in Requests, NEW p \in Providers, NEW v, NEW n, Awaits(p, v, n),
           NEW ms, Send(p, ms), ms = << >> \/ \E m \in Request : ms = <<m>> /\ m.type # "select", NEW v2,
           \/ UNCHANGED <<link, view, receivers, target>> /\ v2 = v
           \/ /\ Deliver(p)
              /\ LET m == Head(link[p].queue)
                 IN  v2 = After(v, m) /\ (m.type = "receivers" /\ n \in m.names => v = n)
    PROVE  Awaits(p, v2, n)'
<1>0. p \in Peers /\ up[p] \in Seq(Request)
  BY DEF Peers, Requests, Made
<1>1. PICK u \in Seq(Request) : u = up[p]
  BY <1>0
<1>2. up'[p] = u \/ up'[p] = u \o ms
  BY <1>0, <1>1 DEF Send, Requests
<1>3. NoAsk(up'[p]) => NoAsk(u)
  <2>1. CASE ms = << >>
    BY <1>2, <2>1
  <2>2. ASSUME NEW m \in Request, ms = <<m>>, m.type # "select"
        PROVE  NoAsk(up'[p]) => NoAsk(u)
    <3>1. NoAsk(u \o <<m>>) => NoAsk(u)
      BY <2>2, AskAppended
    <3> QED
      BY <1>2, <2>2, <3>1
  <2> QED
    BY <2>1, <2>2
<1>4. SUFFICES ASSUME Reminded(p, v, n)
               PROVE  Reminded(p, v2, n)'
  BY <1>1, <1>3 DEF Awaits
<1>5. CASE UNCHANGED <<link, view, receivers, target>> /\ v2 = v
  <2>1. Now' = Now
    BY <1>5 DEF Now
  <2> QED
    BY <1>4, <1>5, <2>1 DEF Reminded
<1>6. CASE /\ Deliver(p)
           /\ LET m == Head(link[p].queue)
              IN  v2 = After(v, m) /\ (m.type = "receivers" /\ n \in m.names => v = n)
  <2>1. PICK q \in Seq(Message) : q = link[p].queue
    BY <1>0 DEF TypeOK
  <2>2. /\ q # << >> /\ link'[p].queue = Tail(q) /\ link'[p].state = link[p].state
        /\ target' = target /\ receivers' = receivers
    BY <1>0, <1>6, <2>1, DeliverLinks DEF Deliver
  <2>3. view'[p].who = After(view[p].who, Head(q))
    BY <1>0, <1>6, <2>1, Believes
  <2>4. Prompts(v, q, n) => Prompts(v2, Tail(q), n)
    BY <1>6, <2>1, <2>2, PromptsTail
  <2>5. Now' = Now
    BY <2>2 DEF Now
  <2>6. ASSUME link[p].state = "open", NoNews(Tail(q))
        PROVE  v2 = view'[p].who
    <3>1. CASE Announces(Head(q))
      BY <1>6, <2>1, <2>3, <3>1 DEF After
    <3>2. CASE ~ Announces(Head(q))
      <4>1. NoNews(q)
        BY <2>1, <2>2, <2>6, <3>2, NoNewsBefore
      <4> QED
        BY <1>4, <1>6, <2>1, <2>3, <2>6, <3>2, <4>1 DEF Reminded, After
    <3> QED
      BY <3>1, <3>2
  <2> QED
    BY <1>4, <2>1, <2>2, <2>4, <2>5, <2>6 DEF Reminded
<1> QED
  BY <1>5, <1>6

\* p asks for something.
LEMMA AsksAwaits ==
    ASSUME TypeOK, up \in Requests, NEW p \in Providers, NEW k \in Names \cup {None}, Send(p, <<SelectReq(k)>>),
           link'[p].state = "open" => link[p].state = "open", NEW v, NEW n
    PROVE  Awaits(p, v, n)'
<1>0. p \in Peers /\ up[p] \in Seq(Request) /\ SelectReq(k) \in Request /\ SelectReq(k).type = "select"
  BY RequestTypes DEF Peers, Requests, Made, SelectReq
<1>1. CASE link[p].state = "none"
  BY <1>1 DEF Awaits, Reminded
<1>2. CASE link[p].state # "none"
  <2>1. PICK u \in Seq(Request) : u = up[p]
    BY <1>0
  <2>2. up'[p] = u \o <<SelectReq(k)>>
    BY <1>0, <1>2, <2>1 DEF Send, Requests
  <2>3. ~ NoAsk(up'[p])
    BY <1>0, <2>2, AskAppended
  <2> QED
    BY <2>3 DEF Awaits
<1> QED
  BY <1>1, <1>2

\* The relay reads requests of anybody, or ends a handler.
LEMMA ServesAwaits ==
    ASSUME TypeOK, TypeOK', Attachments, AllInformed', Unrobbed, up \in Requests, NEW x \in Peers, Serves(x),
           NEW p \in Providers, NEW v, NEW n \in Names \cup {None}, Bound(p, n), Awaits(p, v, n)
    PROVE  Awaits(p, v, n)'
<1>0. p \in Peers /\ up[p] \in Seq(Request)
  BY DEF Peers, Requests, Made
<1>1. CASE ServerReads(x)
  <2> DEFINE m == Head(up[x])
  <2>1. /\ up[x] # << >> /\ m \in Request /\ up'[x] = Tail(up[x])
        /\ \A y \in Peers \ {x} : up'[y] = up[y]
    BY <1>1, RequestRead DEF ServerReads
  <2>2. ASSUME m.type = "blob" \/ x # p, Reminded(p, v, n) => Reminded(p, v, n)'
        PROVE  Awaits(p, v, n)'
    <3>1. CASE x # p
      BY <1>0, <2>1, <2>2, <3>1 DEF Awaits
    <3>2. CASE x = p
      <4>1. m.type # "select"
        BY <2>2, <3>2
      <4> HIDE DEF m
      <4>2. NoAsk(up'[p]) => NoAsk(up[p])
        BY <1>0, <2>1, <3>2, <4>1, AskTail DEF m
      <4> QED
        BY <2>2, <4>2 DEF Awaits
    <3> QED
      BY <3>1, <3>2
  <2>3. CASE m.type = "select" /\ x \in Providers /\ Select(x, m.receiver)
    <3>1. m.receiver \in Names \cup {None} /\ m = SelectReq(m.receiver)
      BY <2>1, <2>3 DEF Request, SelectReq
    <3>2. CASE x # p
      BY <2>2, <2>3, <3>1, <3>2, OthersReminded
    <3>3. CASE x = p
      <4>1. SUFFICES ASSUME NoAsk(up'[p]), link'[p].state = "open"
                     PROVE  Reminded(p, v, n)'
        BY DEF Awaits, Reminded
      <4>2. ~ NoAsk(up[p])
        BY <1>0, <2>1, <2>3, <3>3, AskTail
      <4>3. link[p].state = "open"
        <5>1. Calmer(link', link)
          BY <2>3, <3>1, <3>3, OthersLinks DEF Others
        <5> QED
          BY <1>0, <4>1, <5>1 DEF Calmer
      <4>4. LastAsk(up[p], n)
        BY <4>2, <4>3 DEF Bound
      <4>5. LastAsk(Tail(up[p]), n) \/ m = SelectReq(n)
        BY <1>0, <2>1, <3>3, <4>4, AskTail
      <4>6. ~ LastAsk(Tail(up[p]), n)
        <5>1. PICK u : u = Tail(up[p])
          OBVIOUS
        <5>2. NoAsk(u)
          BY <2>1, <3>3, <4>1, <5>1
        <5>3. ~ LastAsk(u, n)
          BY <5>2 DEF NoAsk, LastAsk, SelectReq
        <5> QED
          BY <5>1, <5>3
      <4>7. m.receiver = n
        BY <4>5, <4>6 DEF SelectReq
      <4> QED
        BY <2>3, <3>3, <4>7, OwnReminded
    <3> QED
      BY <3>2, <3>3
  <2>4. CASE m.type = "blob" /\ Forward(x, m.body)
    <3>1. m.body \in Payloads
      BY <2>1, <2>4, ClientsAssumption DEF Request
    <3> QED
      BY <2>2, <2>4, <3>1, OthersReminded
  <2>5. CASE m.type = "blob" /\ Partner(x) = None /\ UNCHANGED vars
    <3>1. UNCHANGED <<link, view, receivers, target>>
      BY <2>5 DEF vars
    <3> QED
      BY <2>2, <2>5, <3>1, OthersReminded
  <2> QED
    BY <1>1, <2>3, <2>4, <2>5 DEF ServerReads
<1>2. CASE ServerDrops(x)
  <2>1. up' = [up EXCEPT ![x] = << >>] /\ Leave(x)
    BY <1>2 DEF ServerDrops
  <2>2. CASE x = p
    <3>1. ProviderLeave(p)
      BY <2>1, <2>2 DEF Leave
    <3> QED
      BY <3>1, OwnReminded DEF Awaits
  <2>3. CASE x # p
    <3>1. Reminded(p, v, n) => Reminded(p, v, n)'
      <4>1. \/ x \in Receivers /\ ReceiverLeave(x)
            \/ x \in Providers \ {p} /\ ProviderLeave(x)
        BY <2>1, <2>3 DEF Leave, Peers
      <4> QED
        BY <4>1, OthersReminded
    <3>2. up'[p] = up[p]
      BY <1>0, <2>1, <2>3 DEF Requests
    <3> QED
      BY <3>1, <3>2 DEF Awaits
  <2> QED
    BY <2>2, <2>3
<1> QED
  BY <1>1, <1>2 DEF Serves

\* A receiver does something.
LEMMA ReceivesAwaits ==
    ASSUME TypeOK, TypeOK', Attachments, AllInformed', Unrobbed, up \in Requests, NEW r \in Receivers, Receives(r),
           NEW p \in Providers, NEW v, NEW n \in Names \cup {None}, Awaits(p, v, n)
    PROVE  Awaits(p, v, n)'
<1>0. p \in Peers /\ r \in Peers /\ r # p
  BY HubAssumption DEF Peers
<1>1. up'[p] = up[p]
  BY <1>0 DEF Receives, RxConsumes, RxConnects, RxDisconnects, OnAttachment, OnHs1, OnSealed, Send, Requests
<1>2. Deliver(r) \/ ReceiverJoin(r) \/ UNCHANGED <<link, view, receivers, target>>
  BY DEF Receives, RxConsumes, RxConnects, RxDisconnects, vars
<1>3. Reminded(p, v, n) => Reminded(p, v, n)'
  BY <1>0, <1>2, OthersReminded
<1> QED
  BY <1>1, <1>3 DEF Awaits

\* Another provider's program does something.
LEMMA ElsewhereAwaits ==
    ASSUME TypeOK, TypeOK', Attachments, AllInformed', Unrobbed, NEW p \in Providers, NEW q \in Providers \ {p},
           up'[p] = up[p], Deliver(q) \/ ProviderJoin(q) \/ UNCHANGED <<link, view, receivers, target>>,
           NEW v, NEW n \in Names \cup {None}, Awaits(p, v, n)
    PROVE  Awaits(p, v, n)'
<1>1. Reminded(p, v, n) => Reminded(p, v, n)'
  BY OthersReminded DEF Peers
<1> QED
  BY <1>1 DEF Awaits

\* When everything has arrived, there is nothing to be reminded of.
LEMMA QuietReminded ==
    ASSUME NEW p \in Providers, link[p].state = "open", link[p].queue = << >>, NEW v, NEW n, Reminded(p, v, n), n \in Now
    PROVE  target[p] # None
<1>1. Len(link[p].queue) = 0
  OBVIOUS
<1> QED
  BY <1>1 DEF Reminded, Prompts

\* With one provider nobody is robbed.
LEMMA AloneUnrobbed ==
    ASSUME \A p, q \in Providers : p = q, TypeOK, TypeOK', Attachments'
    PROVE  Unrobbed
<1> SUFFICES ASSUME NEW p \in Providers, target[p] # None, target'[p] = None
             PROVE  provider'[target[p]] = None
  BY DEF Unrobbed
<1>1. PICK r \in Receivers : r = target[p]
  BY DEF TypeOK
<1>2. provider'[r] \in Providers \cup {None}
  BY DEF TypeOK
<1>3. provider'[r] # p
  <2>1. r # None
    BY HubAssumption DEF Peers
  <2> QED
    BY <2>1 DEF Attachments, AttachmentSymmetric
<1> QED
  BY <1>1, <1>2, <1>3

\* The list a client goes by is the last it was told, or another is on its way.
Learns(p, names) == link[p].state = "open" =>
    \/ names = view[p].names
    \/ \E i \in 1..Len(link[p].queue) : link[p].queue[i].type = "receivers"

LEMMA RetainedLearns ==
    ASSUME NEW p \in Providers, Retained(p), NEW names, Learns(p, names)
    PROVE  Learns(p, names)'
BY DEF Retained, Longer, Learns

\* What the relay and receivers do.
LEMMA ServesKeep ==
    ASSUME TypeOK, up \in Requests, NEW x \in Peers, Serves(x) \/ (x \in Receivers /\ Receives(x)), NEW p \in Providers
    PROVE  Retained(p)
<1>1. CASE ServerReads(x)
  <2> DEFINE m == Head(up[x])
  <2>1. m \in Request
    BY <1>1, RequestRead DEF ServerReads
  <2>2. CASE m.type = "select" /\ x \in Providers /\ Select(x, m.receiver)
    BY <2>1, <2>2, OthersKeep DEF Request
  <2>3. CASE m.type = "blob" /\ Forward(x, m.body)
    <3>1. m.body \in Payloads
      BY <2>1, <2>3, ClientsAssumption DEF Request
    <3> QED
      BY <2>3, <3>1, OthersKeep
  <2>4. CASE UNCHANGED vars
    BY <2>4, OthersKeep DEF vars
  <2> QED
    BY <1>1, <2>2, <2>3, <2>4 DEF ServerReads
<1>2. CASE ServerDrops(x)
  BY <1>2, OthersKeep DEF ServerDrops, Leave, Peers
<1>3. CASE x \in Receivers /\ Receives(x)
  <2>1. Deliver(x) \/ ReceiverJoin(x) \/ UNCHANGED <<link, view>>
    BY <1>3 DEF Receives, RxConsumes, RxConnects, RxDisconnects, vars
  <2>2. x \in Peers \ {p}
    BY <1>3, HubAssumption DEF Peers
  <2> QED
    BY <1>3, <2>1, <2>2, OthersKeep
<1> QED
  BY <1>1, <1>2, <1>3 DEF Serves

\* A client that takes a list goes by it, and one that connects is sent one.
LEMMA TakenLearns ==
    ASSUME TypeOK, NEW p \in Providers, Deliver(p), NEW names, Learns(p, names),
           NEW names2, LET m == Head(link[p].queue)
                       IN  names2 = IF m.type = "receivers" THEN m.names ELSE names
    PROVE  Learns(p, names2)'
<1>0. p \in Peers
  BY DEF Peers
<1>1. PICK q \in Seq(Message) : q = link[p].queue
  BY <1>0 DEF TypeOK
<1>2. q # << >> /\ link'[p].queue = Tail(q) /\ link'[p].state = link[p].state
  BY <1>0, <1>1, DeliverLinks
<1>3. view'[p].names = IF Head(q).type = "receivers" THEN Head(q).names ELSE view[p].names
  BY <1>0, <1>1 DEF Deliver, TypeOK
<1>4. SUFFICES ASSUME link[p].state = "open"
               PROVE  names2 = view'[p].names \/ \E i \in 1..Len(Tail(q)) : Tail(q)[i].type = "receivers"
  BY <1>2 DEF Learns
<1>5. CASE Head(q).type = "receivers"
  BY <1>1, <1>3, <1>5
<1>6. CASE Head(q).type # "receivers"
  <2>1. names2 = names /\ view'[p].names = view[p].names
    BY <1>1, <1>3, <1>6
  <2>2. ASSUME NEW i \in 1..Len(q), q[i].type = "receivers"
        PROVE  \E j \in 1..Len(Tail(q)) : Tail(q)[j].type = "receivers"
    <3>1. i # 1
      BY <1>2, <1>6, <2>2
    <3>2. i - 1 \in 1..Len(Tail(q)) /\ Tail(q)[i - 1] = q[i]
      BY <1>2, <3>1
    <3> QED
      BY <2>2, <3>2
  <2> QED
    BY <1>1, <1>4, <2>1, <2>2 DEF Learns
<1> QED
  BY <1>5, <1>6

LEMMA JoinLearns ==
    ASSUME TypeOK, NEW p \in Providers, ProviderJoin(p), NEW names
    PROVE  Learns(p, names)'
<1> DEFINE m == ReceiversMsg(receivers)
           a == [link EXCEPT ![p] = Accepted]
<1>0. p \in Peers /\ link \in Links
  BY DEF Peers, TypeOK, Links
<1>1. /\ link' = Tell(a, {p}, m) /\ a \in Links /\ a[p] = Accepted
  BY <1>0, NewHauls DEF ProviderJoin, Links
<1>2. m \in Message /\ m.type = "receivers"
  BY MessageTypes DEF ReceiversMsg
<1>3. a[p] \in Link
  BY <1>0, <1>1 DEF Links, Link
<1> HIDE DEF m, a
<1>4. link'[p] = Put(a[p], m)
  BY <1>0, <1>1, TellAt
<1>5. link'[p].state = "open" => link'[p].queue # << >> /\ link'[p].queue[Len(link'[p].queue)] = m
  BY <1>2, <1>3, <1>4, PutLonger
<1>6. link'[p].queue \in Seq(Message)
  BY <1>2, <1>3, <1>4, PutFacts DEF Link
<1>7. link'[p].queue # << >> => Len(link'[p].queue) \in 1..Len(link'[p].queue)
  BY <1>6
<1> QED
  BY <1>2, <1>5, <1>7 DEF Learns

\* When everything has arrived, a client goes by what is the case.
LEMMA QuietLearns ==
    ASSUME NEW p \in Providers, link[p].state = "open", link[p].queue = << >>, AllListed, NEW names, Learns(p, names)
    PROVE  names = Now
<1>1. Len(link[p].queue) = 0
  OBVIOUS
<1> QED
  BY <1>1 DEF Learns, AllListed, Listed, Heard
=============================================================================
