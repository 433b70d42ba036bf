---------------------------- MODULE GatewayProofs ----------------------------
(***************************************************************************)
(* Gateways, the relay and receivers together keep their types and run the *)
(* relay as module Hub says, and what the pages of a gateway say of typing *)
(* is true; a gateway whose receiver is online and free attaches to it     *)
(* again (module GatewayRelay).                                            *)
(***************************************************************************)
EXTENDS GatewayRelay, ExchangeProofs

GwOK == gw \in [Providers -> [now : Fields, shown : PageState]]

WebInv == WebTypeOK /\ up \in Requests

\* What a gateway believes is what it has been told on its connection; without a
\* connection it has no session.
Believing(g, p) == /\ g.connected /\ link[p].state # "none" => g.current = view[p].who
                   /\ ~ g.connected => g.session = None

\* A session that may be used is with the receiver shown, to the pages too.
Shown(w) == Secure(w.now) => /\ Name(w.now.session.with) = w.now.current
                             /\ w.shown.current = w.now.current
                             /\ w.shown.secure

Scene == /\ Carries(link)
         /\ \A p \in Providers : Believing(gw[p].now, p) /\ Shown(gw[p])

-----------------------------------------------------------------------------
(* The gateway's own steps.                                                *)

\* A change that the pages are told of.
LEMMA ChangedFacts ==
    ASSUME GwOK, NEW p \in Providers, NEW g \in Fields, Changed(p, g)
    PROVE  /\ GwOK'
           /\ gw'[p].now = g
           /\ gw'[p].shown.current = g.current /\ gw'[p].shown.secure = Secure(g)
           /\ \A q \in Providers \ {p} : gw'[q] = gw[q]
<1>1. State(g) \in PageState /\ State(g).current = g.current /\ State(g).secure = Secure(g)
  BY DEF State, PageState, Fields, Secure
<1>2. gw' = [gw EXCEPT ![p] = [now |-> g, shown |-> State(g)]]
  BY DEF Changed
<1> HIDE DEF State
<1> QED
  BY <1>1, <1>2 DEF GwOK

\* What is asked, of a provider that is connected.
LEMMA AskTypes ==
    ASSUME up \in Requests, NEW p \in Providers, NEW n \in Names \cup {None}, GwAsks(p, n)
    PROVE  up' \in Requests
<1>1. << >> \in Seq(Made(p)) /\ <<SelectReq(n)>> \in Seq(Made(p))
  BY MadeTypes DEF Peers
<1> QED
  BY <1>1, SendTypes DEF GwAsks, Peers

\* What is sealed for a session that may be used, or nothing.
LEMMA GwSealTypes ==
    ASSUME GwOK, up \in Requests, NEW p \in Providers, NEW m \in Plain, GwSeals(p, m)
    PROVE  up' \in Requests
<1>1. CASE Secure(gw[p].now)
  <2>1. gw[p].now.session \in [epk : Ephemerals, with : Receivers]
    BY <1>1 DEF Secure, Fields, GwOK
  <2> QED
    BY <1>1, <2>1, MadeTypes, SendTypes DEF GwSeals, Peers
<1>2. CASE ~ Secure(gw[p].now)
  <2>1. << >> \in Seq(Made(p))
    OBVIOUS
  <2> QED
    BY <1>2, <2>1, SendTypes DEF GwSeals, Peers
<1> QED
  BY <1>1, <1>2

\* What a handler of a message makes a gateway believe and show.
LEMMA ConsumesShown ==
    ASSUME WebInv, Carries(link), NEW p \in Providers, GwConsumes(p, Held), Shown(gw[p])
    PROVE  LET m == Head(link[p].queue)
           IN  (m.type = "e2e" => gw[p].now.current = Sender(m))
               => /\ GwOK' /\ up' \in Requests
                  /\ Shown(gw'[p])
                  /\ gw'[p].now.current = After(gw[p].now.current, m)
                  /\ gw'[p].now.connected
                  /\ \A q \in Providers \ {p} : gw'[q] = gw[q]
<1> DEFINE m == Head(link[p].queue)
           g == gw[p].now
           Kept == /\ GwOK' /\ up' \in Requests /\ Shown(gw'[p])
                   /\ gw'[p].now.current = After(gw[p].now.current, m)
                   /\ gw'[p].now.connected
                   /\ \A q \in Providers \ {p} : gw'[q] = gw[q]
<1> SUFFICES ASSUME m.type = "e2e" => g.current = Sender(m)
             PROVE  Kept
  OBVIOUS
<1>0. /\ GwOK /\ g \in Fields /\ g.connected /\ p \in Peers /\ up \in Requests
      /\ m \in Carried /\ m \in Message
  <2>1. m \in Carried
    BY DeliverCarries DEF GwConsumes, WebInv, WebTypeOK, Peers
  <2> QED
    BY <2>1 DEF GwConsumes, WebInv, WebTypeOK, GwOK, Carried, Peers
<1>1. ASSUME NEW h \in Fields, Changed(p, h), up' \in Requests, h.connected,
             h.current = After(g.current, m),
             Secure(h) => Name(h.session.with) = h.current
      PROVE  Kept
  <2> HIDE DEF m
  <2> QED
    BY <1>0, <1>1, ChangedFacts DEF Shown
<1>2. CASE m.type = "receivers" /\ GwOnReceivers(p, m)
  <2> DEFINE h == [g EXCEPT !.receivers = m.names]
  <2>1. m.names \in SUBSET Names
    BY <1>0, <1>2, MessageParts
  <2>2. h \in Fields /\ h.current = g.current /\ h.session = g.session /\ h.connected
    BY <1>0, <2>1 DEF Fields
  <2>3. After(g.current, m) = g.current
    BY <1>2 DEF After, Announces
  <2>4. up' \in Requests
    BY <1>0, <1>2, <2>2, AskTypes DEF GwOnReceivers, Fields
  <2>5. Changed(p, h)
    BY <1>2 DEF GwOnReceivers
  <2>6. Secure(h) => Name(h.session.with) = h.current
    BY <2>2 DEF Shown, Secure
  <2> HIDE DEF h, m
  <2> QED
    BY <1>1, <2>2, <2>3, <2>4, <2>5, <2>6
<1>3. CASE m.type = "selected" /\ GwOnSelected(p, m, Held)
  <2>1. m.who \in Names \cup {None} /\ After(g.current, m) = m.who
    BY <1>0, <1>3, MessageParts DEF After, Announces
  <2>2. CASE m.who = None
    <3> DEFINE h == [[g EXCEPT !.current = m.who] EXCEPT !.session = None]
    <3>1. h \in Fields /\ h.current = m.who /\ h.session = None /\ h.connected
      BY <1>0, <2>1 DEF Fields
    <3>2. Changed(p, h) /\ up' \in Requests
      BY <1>0, <1>3, <2>2 DEF GwOnSelected
    <3> HIDE DEF h, m
    <3> QED
      BY <1>1, <2>1, <3>1, <3>2 DEF Secure
  <2>3. CASE m.who # None
    <3>1. PICK e \in Ephemerals : /\ Changed(p, [[g EXCEPT !.current = m.who] EXCEPT !.session = [epk |-> e, with |-> None]])
                                  /\ Send(p, <<Blob(Hs1(p, e))>>)
      BY <1>3, <2>3 DEF GwOnSelected, Fresh
    <3> DEFINE h == [[g EXCEPT !.current = m.who] EXCEPT !.session = [epk |-> e, with |-> None]]
    <3>2. h \in Fields /\ h.current = m.who /\ ~ Secure(h) /\ h.connected
      BY <1>0, <2>1 DEF Fields, Secure
    <3>3. up' \in Requests
      BY <1>0, <3>1, MadeTypes, SendTypes
    <3>4. Changed(p, h)
      BY <3>1
    <3> HIDE DEF h, m
    <3> QED
      BY <1>1, <2>1, <3>2, <3>3, <3>4
  <2> QED
    BY <2>2, <2>3
<1>4. CASE m.type = "e2e" /\ GwOnE2E(p, m.body)
  <2> DEFINE b == m.body
             given == [g EXCEPT !.session = None, !.desired = None]
             keyed == [g EXCEPT !.session.with = b.pub]
  <2>1. After(g.current, m) = g.current
    BY <1>4 DEF After, Announces
  <2>2. CASE GwGivesUp(p)
    <3>1. given \in Fields /\ given.current = g.current /\ ~ Secure(given) /\ given.connected
      BY <1>0 DEF Fields, Secure
    <3>2. Changed(p, given) /\ up' \in Requests
      BY <1>0, <2>2, AskTypes DEF GwGivesUp
    <3> HIDE DEF given, m
    <3> QED
      BY <1>1, <2>1, <3>1, <3>2
  <2>3. CASE UNCHANGED <<gw, up>>
    BY <1>0, <2>1, <2>3 DEF GwOK
  <2>4. CASE /\ b.step = "hs2" /\ g.session # None /\ Changed(p, keyed)
             /\ Send(p, <<Blob(Sealed(p, g.session.epk, b.pub, ReleaseAll))>>)
    <3>1. b.pub = m.from /\ b \in Blobs
      BY <1>0, <1>4, <2>4, MessageParts DEF Carried, Genuine
    <3>2. b.pub \in Receivers
      BY <2>4, <3>1, BlobParts
    <3>3. Name(b.pub) = g.current
      BY <1>4, <3>1, <3>2 DEF Sender
    <3>4. g.session \in [epk : Ephemerals, with : Receivers \cup {None}]
      BY <1>0, <2>4 DEF Fields
    <3>5. /\ keyed \in Fields /\ keyed.session.with = b.pub /\ keyed.current = g.current
          /\ keyed.connected
      BY <1>0, <3>2, <3>4 DEF Fields
    <3>6. up' \in Requests
      BY <1>0, <2>4, <3>2, <3>4, RequestTypes, MadeTypes, SendTypes
    <3>7. Changed(p, keyed)
      BY <2>4
    <3> HIDE DEF b, keyed, m
    <3> QED
      BY <1>1, <2>1, <3>3, <3>5, <3>6, <3>7
  <2> QED
    BY <1>4, <2>2, <2>3, <2>4 DEF GwOnE2E
<1>5. CASE m.type = "notice" /\ UNCHANGED <<gw, up>>
  <2>1. After(g.current, m) = g.current
    BY <1>5 DEF After, Announces
  <2> QED
    BY <1>0, <1>5, <2>1 DEF GwOK
<1> QED
  BY <1>2, <1>3, <1>4, <1>5 DEF GwConsumes

\* The connection comes and goes.
LEMMA GwNetShown ==
    ASSUME WebInv, NEW p \in Providers, GwConnects(p) \/ GwDisconnects(p), Believing(gw[p].now, p)
    PROVE  /\ GwOK' /\ up' = up /\ page' = page
           /\ Shown(gw'[p]) /\ Believing(gw[p].now, p)'
           /\ \A q \in Providers \ {p} : gw'[q] = gw[q]
<1> DEFINE g == gw[p].now
<1>0. GwOK /\ g \in Fields
  BY DEF WebInv, WebTypeOK, GwOK
<1>1. ASSUME NEW h \in Fields, Changed(p, h), h.session = None,
             h.connected /\ link'[p].state # "none" => h.current = view'[p].who
      PROVE  Shown(gw'[p]) /\ Believing(gw[p].now, p)' /\ GwOK' /\ \A q \in Providers \ {p} : gw'[q] = gw[q]
  BY <1>0, <1>1, ChangedFacts DEF Shown, Secure, Believing
<1>2. CASE GwConnects(p)
  <2> DEFINE h == [g EXCEPT !.connected = TRUE, !.current = None]
  <2>1. h \in Fields /\ h.session = None /\ h.current = None
    BY <1>0, <1>2 DEF Fields, GwConnects, Believing
  <2>2. view'[p].who = None
    BY <1>2 DEF GwConnects, ProviderJoin, Blank, WebInv, WebTypeOK, TypeOK, Peers
  <2>3. Changed(p, h) /\ up' = up /\ page' = page
    BY <1>2 DEF GwConnects
  <2> HIDE DEF h
  <2> QED
    BY <1>1, <2>1, <2>2, <2>3
<1>3. CASE GwDisconnects(p)
  <2> DEFINE h == [g EXCEPT !.connected = FALSE, !.session = None]
  <2>1. h \in Fields /\ h.session = None /\ ~ h.connected
    BY <1>0 DEF Fields
  <2>2. Changed(p, h) /\ up' = up /\ page' = page
    BY <1>3 DEF GwDisconnects
  <2> HIDE DEF h
  <2> QED
    BY <1>1, <2>1, <2>2
<1> QED
  BY <1>2, <1>3

\* What pages do changes at most the session, to none.
LEMMA PageShown ==
    ASSUME WebInv, NEW b \in Browsers, PageStep(b)
    PROVE  /\ GwOK' /\ up' \in Requests
           /\ page' \in [Browsers -> [open : BOOLEAN, held : SUBSET KeyCodes]]
           /\ UNCHANGED <<vars, rx>>
           /\ \A p \in Providers : /\ Shown(gw[p]) => Shown(gw'[p])
                                   /\ Believing(gw[p].now, p) => Believing(gw[p].now, p)'
<1> DEFINE Pages == [Browsers -> [open : BOOLEAN, held : SUBSET KeyCodes]]
<1>0. GwOK /\ Of[b] \in Providers /\ page \in Pages /\ up \in Requests
  BY GatewayAssumption DEF WebInv, WebTypeOK, GwOK
<1>1. UNCHANGED <<vars, rx>>
  BY DEF PageStep, PageOpens, PageCloses, PageReleases, PageKey, PagePicks
<1>2. UNCHANGED <<link, view>>
  BY <1>1 DEF vars
<1>3. ASSUME UNCHANGED gw
      PROVE  /\ GwOK'
             /\ \A p \in Providers : /\ Shown(gw[p]) => Shown(gw'[p])
                                     /\ Believing(gw[p].now, p) => Believing(gw[p].now, p)'
  BY <1>0, <1>2, <1>3 DEF GwOK, Believing
<1>4. CASE PageOpens(b)
  BY <1>0, <1>1, <1>3, <1>4 DEF PageOpens
<1>5. CASE PageCloses(b)
  BY <1>0, <1>1, <1>3, <1>5, RequestTypes, GwSealTypes DEF PageCloses
<1>6. CASE PageReleases(b)
  BY <1>0, <1>1, <1>3, <1>6, RequestTypes, GwSealTypes DEF PageReleases
<1>7. ASSUME NEW c \in KeyCodes, NEW d \in BOOLEAN, PageKey(b, c, d)
      PROVE  up' \in Requests /\ page' \in Pages /\ UNCHANGED gw
  BY <1>0, <1>7, RequestTypes, GwSealTypes DEF PageKey
<1>8. ASSUME NEW n \in Names \cup {None}, PagePicks(b, n)
      PROVE  /\ GwOK' /\ up' \in Requests /\ page' = page
             /\ \A p \in Providers : /\ Shown(gw[p]) => Shown(gw'[p])
                                     /\ Believing(gw[p].now, p) => Believing(gw[p].now, p)'
  <2> DEFINE z == Of[b]
             wish == IF n \in gw[z].now.receivers THEN n ELSE None
             g == [gw[z].now EXCEPT !.desired = wish]
             h == [g EXCEPT !.session = None]
             w == [gw[z] EXCEPT !.now = g]
  <2>1. wish \in Names \cup {None} /\ gw[z] \in [now : Fields, shown : PageState]
    BY <1>0 DEF GwOK
  <2>2. g \in Fields /\ g.current = gw[z].now.current /\ g.connected = gw[z].now.connected
    BY <2>1 DEF Fields
  <2>3. h \in Fields /\ h.session = None /\ h.current = g.current /\ h.connected = g.connected
    BY <2>2 DEF Fields
  <2>4. up' \in Requests /\ page' = page
    BY <1>0, <1>8, <2>1, AskTypes DEF PagePicks, PickAsks
  <2>5. /\ GwOK' /\ gw'[z].now = h
        /\ \A p \in Providers \ {z} : gw'[p] = gw[p]
    <3>1. gw' = [[gw EXCEPT ![z].now.desired = wish] EXCEPT ![z].now.session = None]
      BY <1>8 DEF PagePicks
    <3>2. [gw EXCEPT ![z].now.desired = wish] = [gw EXCEPT ![z] = w]
      BY <1>0, <2>1 DEF GwOK
    <3>3. w \in [now : Fields, shown : PageState] /\ w.now = g
      BY <2>1, <2>2
    <3> HIDE DEF w, g, wish
    <3>4. gw' = [[gw EXCEPT ![z] = w] EXCEPT ![z].now.session = None]
      BY <3>1, <3>2
    <3>5. gw' = [gw EXCEPT ![z] = [w EXCEPT !.now = h]]
      BY <1>0, <3>3, <3>4 DEF GwOK
    <3> HIDE DEF h
    <3> QED
      BY <1>0, <2>3, <3>3, <3>5 DEF GwOK
  <2> HIDE DEF g, h
  <2>6. Shown(gw'[z]) /\ (Believing(gw[z].now, z) => Believing(gw[z].now, z)')
    BY <1>2, <2>2, <2>3, <2>5 DEF Shown, Secure, Believing
  <2>7. ASSUME NEW p \in Providers \ {z}
        PROVE  Believing(gw[p].now, p) => Believing(gw[p].now, p)'
    BY <1>2, <2>5 DEF Believing
  <2> QED
    BY <2>4, <2>5, <2>6, <2>7
<1>9. CASE \E c \in KeyCodes, d \in BOOLEAN : PageKey(b, c, d)
  BY <1>1, <1>3, <1>7, <1>9
<1>10. CASE \E n \in Names \cup {None} : PagePicks(b, n)
  BY <1>0, <1>1, <1>8, <1>10
<1> QED
  BY <1>4, <1>5, <1>6, <1>9, <1>10 DEF PageStep

-----------------------------------------------------------------------------
(* All of it.                                                              *)

\* Whatever a program of the system does is a step of the relay, or nothing to it.
LEMMA WebHubStep ==
    ASSUME WebTypeOK, [WebNext]_webvars
    PROVE  [Next]_vars
<1>1. ASSUME NEW x \in Peers, ServerStep(x)
      PROVE  [Next]_vars
  BY <1>1, ServesHub DEF ServerStep, Serves, WebTypeOK
<1>2. ASSUME NEW p \in Providers, GatewayStep(p)
      PROVE  [Next]_vars
  BY <1>2 DEF GatewayStep, GwConsumes, GwConnects, GwDisconnects, Next, Peers
<1>3. ASSUME NEW b \in Browsers, PageStep(b)
      PROVE  [Next]_vars
  BY <1>3 DEF PageStep, PageOpens, PageCloses, PageReleases, PageKey, PagePicks
<1>4. ASSUME NEW r \in Receivers, ReceiverStep(r)
      PROVE  [Next]_vars
  BY <1>4, ReceivesHub DEF ReceiverStep, Receives
<1>5. CASE UNCHANGED webvars
  BY <1>5 DEF webvars, vars
<1> QED
  BY <1>1, <1>2, <1>3, <1>4, <1>5 DEF WebNext

\* Every step keeps the types, and what pages are shown true.
LEMMA WebStep ==
    ASSUME WebInv, Scene, AllInformed, [WebNext]_webvars
    PROVE  WebInv' /\ Scene'
<1> USE DEF WebInv
<1>0. TypeOK' /\ TypeOK /\ up \in Requests /\ GwOK /\ Carries(link)
  BY WebHubStep, TypeStep DEF WebTypeOK, GwOK, Scene
<1>1. ASSUME NEW p \in Providers, Undisturbed(p), gw'[p] = gw[p]
      PROVE  Believing(gw[p].now, p)' /\ Shown(gw'[p])
  BY <1>1 DEF Scene, Undisturbed, Believing
<1>2. ASSUME up' \in Requests, rx' \in [Receivers -> Device], UNCHANGED <<gw, page>>,
             Carries(link'), \A p \in Providers : Undisturbed(p)
      PROVE  WebInv' /\ Scene'
  BY <1>0, <1>1, <1>2 DEF WebTypeOK, Scene, Requests
<1>3. ASSUME NEW x \in Peers, ServerStep(x)
      PROVE  WebInv' /\ Scene'
  <2>1. Serves(x) /\ UNCHANGED <<gw, page, rx>>
    BY <1>3 DEF ServerStep, Serves
  <2>2. up' \in Requests /\ Carries(link') /\ \A p \in Providers : Undisturbed(p)
    BY <1>0, <2>1, ServesTypes, ServesCarries, OthersLeaveAlone DEF WebTypeOK, Peers
  <2> QED
    BY <1>2, <2>1, <2>2 DEF WebTypeOK
<1>4. ASSUME NEW r \in Receivers, ReceiverStep(r)
      PROVE  WebInv' /\ Scene'
  <2>1. Receives(r) /\ UNCHANGED <<gw, page>>
    BY <1>4 DEF ReceiverStep, Receives
  <2>2. /\ up' \in Requests /\ rx' \in [Receivers -> Device]
        /\ Carries(link') /\ \A p \in Providers : Undisturbed(p)
    BY <1>0, <2>1, ReceivesTypes, ReceivesCarries, OthersLeaveAlone, HubAssumption DEF WebTypeOK, Peers
  <2> QED
    BY <1>2, <2>1, <2>2
<1>5. ASSUME NEW b \in Browsers, PageStep(b)
      PROVE  WebInv' /\ Scene'
  <2>1. UNCHANGED <<link, rx>>
    BY <1>5, PageShown DEF vars
  <2> QED
    BY <1>0, <1>5, <2>1, PageShown DEF WebTypeOK, Scene, GwOK, Requests
<1>6. ASSUME NEW p \in Providers, GatewayStep(p)
      PROVE  WebInv' /\ Scene'
  <2>1. UNCHANGED <<page, rx>> /\ Believing(gw[p].now, p) /\ Shown(gw[p]) /\ p \in Peers
    BY <1>6 DEF GatewayStep, GwConsumes, GwConnects, GwDisconnects, Scene, Peers
  <2>2. ASSUME up' \in Requests, GwOK', Carries(link'), Shown(gw'[p]), Believing(gw[p].now, p)',
               \A q \in Providers \ {p} : gw'[q] = gw[q] /\ Undisturbed(q)
        PROVE  WebInv' /\ Scene'
    <3>1. \A q \in Providers \ {p} : Believing(gw[q].now, q)' /\ Shown(gw'[q])
      BY <1>1, <2>2
    <3> QED
      BY <1>0, <2>1, <2>2, <3>1 DEF WebTypeOK, GwOK, Scene, Requests
  <2>3. CASE GwConsumes(p, Held)
    <3> DEFINE m == Head(link[p].queue)
    <3>1. Deliver(p) /\ gw[p].now.connected
      BY <2>3 DEF GwConsumes
    <3>2. Carries(link') /\ m \in Carried /\ link[p].state # "none"
      BY <1>0, <2>1, <3>1, DeliverCarries
    <3>3. gw[p].now.current = view[p].who
      BY <2>1, <3>1, <3>2 DEF Believing
    <3>4. m.type = "e2e" => gw[p].now.current = Sender(m)
      BY <1>0, <2>1, <3>1, <3>3, HeadInContext
    <3>5. /\ GwOK' /\ up' \in Requests /\ Shown(gw'[p])
          /\ gw'[p].now.current = After(gw[p].now.current, m) /\ gw'[p].now.connected
          /\ \A q \in Providers \ {p} : gw'[q] = gw[q]
      BY <1>0, <2>1, <2>3, <3>4, ConsumesShown
    <3>6. view'[p].who = After(view[p].who, m)
      BY <1>0, <2>1, <3>1, Believes
    <3>7. Believing(gw[p].now, p)'
      BY <3>3, <3>5, <3>6 DEF Believing
    <3>8. \A q \in Providers \ {p} : Undisturbed(q)
      BY <1>0, <2>1, <3>1, DeliverAlone DEF Peers
    <3> QED
      BY <2>2, <3>2, <3>5, <3>7, <3>8
  <2>4. CASE GwConnects(p) \/ GwDisconnects(p)
    <3>1. /\ GwOK' /\ up' \in Requests /\ Shown(gw'[p]) /\ Believing(gw[p].now, p)'
          /\ \A q \in Providers \ {p} : gw'[q] = gw[q]
      BY <1>0, <2>1, <2>4, GwNetShown
    <3>2. CASE ProviderJoin(p)
      <4>1. Carries(link') /\ \A q \in Providers \ {p} : Undisturbed(q)
        BY <1>0, <3>2, ProviderJoinCarries, OthersLeaveAlone DEF WebTypeOK, Peers
      <4> QED
        BY <2>2, <3>1, <4>1
    <3>3. CASE UNCHANGED <<link, view>>
      BY <1>0, <2>2, <3>1, <3>3 DEF Undisturbed
    <3> QED
      BY <2>4, <3>2, <3>3 DEF GwConnects, GwDisconnects, vars
  <2> QED
    BY <1>6, <2>3, <2>4 DEF GatewayStep
<1>7. CASE UNCHANGED webvars
  BY <1>0, <1>2, <1>7 DEF webvars, Undisturbed, WebTypeOK
<1> QED
  BY <1>3, <1>4, <1>5, <1>6, <1>7 DEF WebNext

\* At first nobody is connected and nothing is shown.
LEMMA WebBegins == WebInit => WebInv /\ Scene /\ AllInformed /\ Attachments
<1> SUFFICES ASSUME WebInit
             PROVE  WebInv /\ Scene /\ AllInformed /\ Attachments
  OBVIOUS
<1>1. TypeOK
  BY EmptySeq DEF WebInit, Init, TypeOK, NoLink
<1>2. up \in [Peers -> Seq(Request)] /\ up \in Requests /\ Carries(link)
  BY EmptySeq DEF WebInit, Init, NoLink, Carries, Requests
<1>3. /\ gw \in [Providers -> [now : Fields, shown : PageState]]
      /\ \A p \in Providers : Believing(gw[p].now, p) /\ Shown(gw[p])
  BY DEF WebInit, GwInit, Starting, State, Secure, Fields, PageState, Believing, Shown
<1>4. /\ page \in [Browsers -> [open : BOOLEAN, held : SUBSET KeyCodes]]
      /\ rx \in [Receivers -> Device]
  BY DEF WebInit, GwInit, RxInit, Idle, Device
<1>5. AllInformed /\ Attachments
  BY AttachmentsInit, NewLinkInformed DEF WebInit, Init, AllInformed
<1> QED
  BY <1>1, <1>2, <1>3, <1>4, <1>5 DEF WebInv, WebTypeOK, Scene

\* Everything in a system of gateways keeps its type, and what pages show with the
\* lock is where typing goes (gateway.py, RelayProvider.state, handle_e2e and what
\* happens to the session and to current in all other handlers).
THEOREM PagesTypeWhereShown == WebSpec => [](WebTypeOK /\ TypedWhereShown)
<1>1. Scene => TypedWhereShown
  BY DEF Scene, Shown, TypedWhereShown
<1>2. WebInv => WebTypeOK
  BY DEF WebInv
<1>3. WebInv /\ Scene /\ AllInformed /\ [WebNext]_webvars => WebInv' /\ Scene'
  BY WebStep
<1>4. WebInv /\ Attachments /\ AllInformed /\ [WebNext]_webvars => AllInformed' /\ Attachments'
  BY WebHubStep, InformedStep, AttachmentsStep DEF WebInv, WebTypeOK
<1> QED
  BY <1>1, <1>2, <1>3, <1>4, WebBegins, PTL DEF WebSpec

\* In a system of gateways the relay behaves as module Hub says, so all that is
\* proved of it holds there too, its implementing the abstract attachment included.
THEOREM WebRunsHub == WebSpec => Spec /\ Attachment
<1>1. WebInit => Init
  BY DEF WebInit
<1>2. WebTypeOK /\ [WebNext]_webvars => [Next]_vars
  BY WebHubStep
<1>3. WebSpec => Spec
  BY <1>1, <1>2, PagesTypeWhereShown, PTL DEF WebSpec, Spec
<1> QED
  BY <1>3, ImplementsAttachment

-----------------------------------------------------------------------------
(* Sessions and keys.                                                      *)

\* The keys that open pages of p's gateway hold.
HeldBy(p) == UNION {page[b].held : b \in {b \in Browsers : Of[b] = p /\ page[b].open}}

\* A gateway's session is as far as the exchange is.
Agreed(p) == gw[p].now.connected => Agrees(p, gw[p].now.session, {}, HeldBy(p))

\* In terms of the values that a step sets.
LEMMA AgreedMeans ==
    ASSUME NEW p \in Providers, NEW s, NEW pressed, gw'[p].now.session = s, HeldBy(p)' = pressed,
           Agrees(p, s, {}, pressed)'
    PROVE  Agreed(p)'
BY DEF Agreed, Agrees

\* What others do leaves it so.
LEMMA AgreedStays ==
    ASSUME NEW p \in Providers, gw'[p].now = gw[p].now, HeldBy(p)' = HeldBy(p), Agreed(p),
           \A s \in {None} \cup Session : \A pressed : Agrees(p, s, {}, pressed) => Agrees(p, s, {}, pressed)',
           gw[p].now \in Fields
    PROVE  Agreed(p)'
<1>1. PICK s : s = gw[p].now.session
  OBVIOUS
<1>2. PICK pressed : pressed = HeldBy(p)
  OBVIOUS
<1>3. s \in {None} \cup Session
  BY <1>1 DEF Fields, Session
<1>4. CASE gw[p].now.connected
  <2>1. Agrees(p, s, {}, pressed)
    BY <1>1, <1>2, <1>4 DEF Agreed
  <2>2. Agrees(p, s, {}, pressed)'
    BY <1>3, <2>1
  <2> QED
    BY <1>1, <1>2, <2>2, AgreedMeans
<1>5. CASE ~ gw[p].now.connected
  BY <1>5 DEF Agreed
<1> QED
  BY <1>4, <1>5

\* A gateway that takes a message keeps up with the exchange.
LEMMA GwConsumesAgrees ==
    ASSUME WebInv, TypeOK', AllInformed', NEW p \in Providers, GwConsumes(p, Held), UNCHANGED rx,
           Believing(gw[p].now, p)', Agreed(p)
    PROVE  Agreed(p)'
<1> DEFINE m == Head(link[p].queue)
           g == gw[p].now
<1>0. /\ TypeOK /\ up \in Requests /\ GwOK /\ g \in Fields /\ g.connected /\ p \in Peers /\ Deliver(p)
      /\ m \in Message /\ Cargo(m) \in Replied(p) /\ page' = page
  <2>1. Deliver(p) /\ TypeOK /\ up \in Requests /\ GwOK /\ p \in Peers
    BY DEF GwConsumes, WebInv, WebTypeOK, GwOK, Peers
  <2>2. m \in Message /\ Cargo(m) \in Replied(p)
    BY <2>1, DeliverLinks DEF Replied
  <2> QED
    BY <2>1, <2>2 DEF GwConsumes, GwOK
<1>1. PICK s : s = g.session
  OBVIOUS
<1>2. PICK pressed : pressed = HeldBy(p)
  OBVIOUS
<1>3. s \in {None} \cup Session /\ Agrees(p, s, {}, pressed) /\ HeldBy(p)' = pressed
  BY <1>0, <1>1, <1>2 DEF Fields, Session, Agreed, HeldBy
<1>4. Still(p)' => (gw'[p].now.connected => gw'[p].now.current = view'[p].who)
  BY DEF Still, Hears, Believing
<1>5. ASSUME gw'[p].now.session = s, UNCHANGED up, ~ Announces(m)
      PROVE  Agreed(p)'
  <2>1. Acts(p, << >>) /\ Unmoved(p)
    BY <1>0, <1>5, SendNothing DEF Acts, Unmoved
  <2>2. Agrees(p, s, {}, pressed)'
    BY <1>0, <1>3, <2>1, ActsSilent
  <2> QED
    BY <1>3, <1>5, <2>2, AgreedMeans
<1>6. ASSUME NEW n \in Names \cup {None}, Send(p, <<SelectReq(n)>>)
      PROVE  Agreed(p)'
  <2>1. PICK s2 : s2 = gw'[p].now.session
    OBVIOUS
  <2>2. Acts(p, <<SelectReq(n)>>)
    BY <1>0, <1>6 DEF Acts
  <2>3. Agrees(p, s2, {}, pressed)'
    BY <1>0, <2>2, ActsAsks
  <2> QED
    BY <1>3, <2>1, <2>3, AgreedMeans
<1>7. CASE m.type = "receivers" /\ GwOnReceivers(p, m)
  <2> DEFINE h == [g EXCEPT !.receivers = m.names]
  <2>1. h \in Fields /\ h.session = s /\ h.desired \in Names \cup {None}
    BY <1>0, <1>1, <1>7, MessageParts DEF Fields
  <2>2. Changed(p, h) /\ (GwAsks(p, h.desired) \/ UNCHANGED up)
    BY <1>7 DEF GwOnReceivers
  <2>3. GwAsks(p, h.desired) => Send(p, <<SelectReq(h.desired)>>)
    BY <1>0 DEF GwAsks
  <2>4. ~ Announces(m)
    BY <1>7 DEF Announces
  <2> HIDE DEF h, m
  <2>5. gw'[p].now.session = s
    BY <1>0, <2>1, <2>2, ChangedFacts
  <2> QED
    BY <1>5, <1>6, <2>1, <2>2, <2>3, <2>4, <2>5
<1>8. CASE m.type = "selected" /\ GwOnSelected(p, m, Held)
  <2>1. m.who \in Names \cup {None}
    BY <1>0, <1>8, MessageParts
  <2>2. CASE m.who = None
    <3> DEFINE h == [[g EXCEPT !.current = m.who] EXCEPT !.session = None]
    <3>1. h \in Fields /\ h.current = None /\ h.session = None /\ h.connected
      BY <1>0, <2>1, <2>2 DEF Fields
    <3>2. Changed(p, h)
      BY <1>8, <2>2 DEF GwOnSelected
    <3> HIDE DEF h, m
    <3>3. gw'[p].now = h
      BY <1>0, <3>1, <3>2, ChangedFacts
    <3>4. Still(p)' => target'[p] = None
      BY <1>4, <3>1, <3>3, StillKnows
    <3>5. Agrees(p, None, {}, pressed)'
      BY <3>4 DEF Agrees
    <3> QED
      BY <1>3, <3>1, <3>3, <3>5, AgreedMeans
  <2>3. CASE m.who # None
    <3> DEFINE taken == Held \cup IF g.session = None THEN {} ELSE {<<p, g.session.epk>>}
    <3>1. PICK e \in Fresh(p, taken) :
                 /\ Changed(p, [[g EXCEPT !.current = m.who] EXCEPT !.session = [epk |-> e, with |-> None]])
                 /\ Send(p, <<Blob(Hs1(p, e))>>)
      BY <1>8, <2>3 DEF GwOnSelected
    <3> DEFINE s2 == [epk |-> e, with |-> None]
               h == [[g EXCEPT !.current = m.who] EXCEPT !.session = s2]
    <3>2. h \in Fields /\ h.current = m.who /\ h.session = s2 /\ h.connected
      BY <1>0, <2>1 DEF Fields, Fresh
    <3>3. Changed(p, h) /\ Acts(p, <<Blob(Hs1(p, e))>>)
      BY <1>0, <3>1 DEF Acts
    <3> HIDE DEF h, m, taken
    <3>4. gw'[p].now = h
      BY <1>0, <3>2, <3>3, ChangedFacts
    <3>5. Still(p)' => target'[p] # None
      BY <1>4, <2>3, <3>2, <3>4, StillKnows
    <3>6. Agrees(p, s2, {}, pressed)'
      BY <1>0, <3>3, <3>5, ActsBegins
    <3> HIDE DEF s2
    <3> QED
      BY <1>3, <3>2, <3>4, <3>6, AgreedMeans
  <2> QED
    BY <2>2, <2>3
<1>9. CASE m.type = "e2e" /\ GwOnE2E(p, m.body)
  <2> DEFINE b == m.body
             keyed == [g EXCEPT !.session.with = b.pub]
  <2>0. ~ Announces(m) /\ Cargo(m) = b /\ b \in Replied(p)
    BY <1>0, <1>9 DEF Announces, Cargo
  <2>1. CASE GwGivesUp(p)
    BY <1>0, <1>6, <2>1 DEF GwGivesUp, GwAsks
  <2>2. CASE UNCHANGED <<gw, up>>
    BY <1>1, <1>5, <2>0, <2>2
  <2>3. CASE /\ b.step = "hs2" /\ g.session # None /\ g.session.with = None /\ b.answers = <<p, g.session.epk>>
             /\ Changed(p, keyed)
             /\ Send(p, <<Blob(Sealed(p, g.session.epk, b.pub, ReleaseAll))>>)
    <3>1. b \in Blobs /\ b.pub \in Receivers
      BY <1>0, <1>9, <2>3, MessageParts, BlobParts
    <3>2. s \in Session /\ s.with = None /\ b.answers = <<p, s.epk>>
      BY <1>1, <1>3, <2>3
    <3>0. PICK s2 : s2 = [s EXCEPT !.with = b.pub]
      OBVIOUS
    <3>3. s2 \in Session /\ s2.with = b.pub /\ s2.epk = s.epk /\ s2.with # None
      BY <3>0, <3>1, <3>2, HubAssumption DEF Session, Peers
    <3>4. keyed \in Fields /\ keyed.session = s2
      BY <1>0, <1>1, <3>0, <3>1, <3>2 DEF Fields, Session
    <3>5. Changed(p, keyed) /\ Acts(p, <<Blob(Sealed(p, s2.epk, s2.with, ReleaseAll))>>) /\ Unmoved(p)
      BY <1>0, <1>1, <2>0, <2>3, <3>3 DEF Acts, Unmoved
    <3>6. Agrees(p, s2, {}, pressed)
      <4> HIDE DEF b
      <4> QED
        BY <1>0, <1>3, <2>0, <2>3, <3>0, <3>2, AgreesAnswered
    <3> HIDE DEF keyed, b, m
    <3>7. gw'[p].now.session = s2
      BY <1>0, <3>4, <3>5, ChangedFacts
    <3>8. Typed(pressed, ReleaseAll) \subseteq pressed /\ ReleaseAll \in Plain
      BY RequestTypes DEF Typed, ReleaseAll
    <3>9. Agrees(p, s2, {}, pressed)'
      BY <1>0, <3>3, <3>5, <3>6, <3>8, ActsTypes
    <3> QED
      BY <1>3, <3>7, <3>9, AgreedMeans
  <2> QED
    BY <1>9, <2>1, <2>2, <2>3 DEF GwOnE2E, GwAccepts
<1>10. CASE m.type = "notice" /\ UNCHANGED <<gw, up>>
  BY <1>1, <1>5, <1>10 DEF Announces
<1> QED
  BY <1>7, <1>8, <1>9, <1>10 DEF GwConsumes

-----------------------------------------------------------------------------

\* A connection begins without a session and without a receiver; without one nothing is claimed.
LEMMA GwNetAgrees ==
    ASSUME WebInv, TypeOK', AllInformed', NEW p \in Providers, GwConnects(p) \/ GwDisconnects(p),
           UNCHANGED rx, Believing(gw[p].now, p), Believing(gw[p].now, p)'
    PROVE  Agreed(p)'
<1> DEFINE g == gw[p].now
<1>0. GwOK /\ g \in Fields
  BY DEF WebInv, WebTypeOK, GwOK
<1>1. CASE GwConnects(p)
  <2> DEFINE h == [g EXCEPT !.connected = TRUE, !.current = None]
  <2>1. h \in Fields /\ h.session = None /\ h.current = None /\ h.connected
    BY <1>0, <1>1 DEF Fields, GwConnects, Believing
  <2>2. Changed(p, h)
    BY <1>1 DEF GwConnects
  <2> HIDE DEF h
  <2>3. gw'[p].now = h
    BY <1>0, <2>1, <2>2, ChangedFacts
  <2>4. Still(p)' => view'[p].who = None
    BY <2>1, <2>3 DEF Still, Hears, Believing
  <2>5. Still(p)' => target'[p] = None
    BY <2>4, StillKnows
  <2> QED
    BY <2>1, <2>3, <2>5 DEF Agreed, Agrees
<1>2. CASE GwDisconnects(p)
  <2> DEFINE h == [g EXCEPT !.connected = FALSE, !.session = None]
  <2>1. h \in Fields /\ ~ h.connected
    BY <1>0 DEF Fields
  <2>2. Changed(p, h)
    BY <1>2 DEF GwDisconnects
  <2> HIDE DEF h
  <2>3. gw'[p].now = h
    BY <1>0, <2>1, <2>2, ChangedFacts
  <2> QED
    BY <2>1, <2>3 DEF Agreed
<1> QED
  BY <1>1, <1>2

-----------------------------------------------------------------------------
(* What gateways send.                                                     *)

\* What a gateway sends, if anything, is no reply to a handshake.
LEMMA GatewayRequests ==
    /\ \A n \in Names \cup {None} : NoReply(<<SelectReq(n)>>)
    /\ \A p \in Providers, e \in Ephemerals : NoReply(<<Blob(Hs1(p, e))>>)
    /\ \A p \in Providers, e \in Ephemerals, r \in Receivers, m \in Plain : NoReply(<<Blob(Sealed(p, e, r, m))>>)
<1>1. \A n \in Names \cup {None} : SelectReq(n) \in Request /\ Cargo(SelectReq(n)).step # "hs2"
  BY RequestTypes, CargoFacts
<1>2. ASSUME NEW b \in Blobs, b.step # "hs2"
      PROVE  NoReply(<<Blob(b)>>)
  <2>1. Blob(b) \in Request /\ Cargo(Blob(b)) = b
    BY RequestTypes, CargoFacts
  <2> QED
    BY <1>2, <2>1 DEF NoReply
<1>3. ASSUME NEW p \in Providers, NEW e \in Ephemerals
      PROVE  NoReply(<<Blob(Hs1(p, e))>>)
  <2>1. Hs1(p, e).step # "hs2"
    BY DEF Hs1
  <2> QED
    BY <1>2, <2>1, RequestTypes
<1>4. ASSUME NEW p \in Providers, NEW e \in Ephemerals, NEW r \in Receivers, NEW m \in Plain
      PROVE  NoReply(<<Blob(Sealed(p, e, r, m))>>)
  <2>1. Sealed(p, e, r, m).step # "hs2"
    BY DEF Sealed
  <2> QED
    BY <1>2, <2>1, RequestTypes
<1>5. ASSUME NEW n \in Names \cup {None}
      PROVE  NoReply(<<SelectReq(n)>>)
  BY <1>1 DEF NoReply
<1> QED
  BY <1>3, <1>4, <1>5

\* Asking for a receiver.
LEMMA GwAsksApart ==
    ASSUME NEW q \in Providers, NEW n \in Names \cup {None}, GwAsks(q, n)
    PROVE  \E ms : Send(q, ms) /\ NoReply(ms)
BY GatewayRequests DEF GwAsks, NoReply

\* Typing.
LEMMA GwSealsApart ==
    ASSUME GwOK, NEW q \in Providers, NEW m \in Plain, GwSeals(q, m)
    PROVE  \E ms : Send(q, ms) /\ NoReply(ms)
<1>1. CASE Secure(gw[q].now)
  <2>1. gw[q].now.session.epk \in Ephemerals /\ gw[q].now.session.with \in Receivers
    BY <1>1 DEF Secure, Fields, GwOK
  <2> QED
    BY <1>1, <2>1, GatewayRequests DEF GwSeals
<1>2. CASE ~ Secure(gw[q].now)
  BY <1>2 DEF GwSeals, NoReply
<1> QED
  BY <1>1, <1>2

\* Taking a message.
LEMMA GwConsumesApart ==
    ASSUME WebInv, NEW q \in Providers, GwConsumes(q, Held), UNCHANGED rx
    PROVE  \E ms : Apart(q, ms) /\ NoReply(ms)
<1> DEFINE m == Head(link[q].queue)
           g == gw[q].now
           b == m.body
<1>0. TypeOK /\ up \in Requests /\ GwOK /\ g \in Fields /\ q \in Peers /\ m \in Message /\ Deliver(q)
  <2>1. TypeOK /\ up \in Requests /\ GwOK /\ q \in Peers /\ Deliver(q)
    BY DEF GwConsumes, WebInv, WebTypeOK, GwOK, Peers
  <2> QED
    BY <2>1, DeliverLinks DEF GwOK
<1>1. SUFFICES \E ms : Send(q, ms) /\ NoReply(ms)
  BY <1>0 DEF Apart
<1>2. CASE UNCHANGED up
  BY <1>0, <1>2, SendNothing DEF NoReply
<1>3. CASE m.type = "receivers" /\ GwOnReceivers(q, m)
  BY <1>0, <1>2, <1>3, GwAsksApart DEF GwOnReceivers, Fields
<1>4. CASE m.type = "selected" /\ GwOnSelected(q, m, Held)
  BY <1>2, <1>4, GatewayRequests DEF GwOnSelected, Fresh
<1>5. CASE GwGivesUp(q)
  BY <1>5, GwAsksApart DEF GwGivesUp
<1>6. CASE /\ m.type = "e2e" /\ b.step = "hs2" /\ g.session # None
           /\ Send(q, <<Blob(Sealed(q, g.session.epk, b.pub, ReleaseAll))>>)
  <2>1. b \in Blobs
    BY <1>0, <1>6, MessageParts
  <2>2. b.pub \in Receivers
    BY <1>6, <2>1, BlobParts
  <2>3. g.session.epk \in Ephemerals
    BY <1>0, <1>6 DEF Fields
  <2> QED
    BY <1>6, <2>2, <2>3, GatewayRequests, RequestTypes
<1> QED
  BY <1>2, <1>3, <1>4, <1>5, <1>6 DEF GwConsumes, GwOnE2E

\* What a page does.
LEMMA PageApart ==
    ASSUME WebInv, NEW b \in Browsers, PageStep(b)
    PROVE  \E ms : Apart(Of[b], ms) /\ NoReply(ms)
<1>0. up \in Requests /\ GwOK /\ Of[b] \in Providers /\ Of[b] \in Peers /\ UNCHANGED <<link, target, rx>>
  BY GatewayAssumption, PageShown DEF WebInv, WebTypeOK, GwOK, vars, Peers
<1>1. SUFFICES \E ms : Send(Of[b], ms) /\ NoReply(ms)
  BY <1>0 DEF Apart
<1>2. CASE UNCHANGED up
  BY <1>0, <1>2, SendNothing DEF NoReply
<1>3. ASSUME NEW n \in Names \cup {None}, PagePicks(b, n)
      PROVE  \E ms : Send(Of[b], ms) /\ NoReply(ms)
  <2>1. PICK wish \in Names \cup {None} : GwAsks(Of[b], wish)
    BY <1>3 DEF PagePicks, PickAsks
  <2> QED
    BY <1>0, <2>1, GwAsksApart
<1>4. ASSUME NEW m \in Plain, GwSeals(Of[b], m)
      PROVE  \E ms : Send(Of[b], ms) /\ NoReply(ms)
  BY <1>0, <1>4, GwSealsApart
<1> QED
  BY <1>2, <1>3, <1>4, RequestTypes DEF PageStep, PageOpens, PageCloses, PageReleases, PageKey

\* What a gateway does leaves the sessions of others as they are.
LEMMA GatewayApart ==
    ASSUME WebInv, Attachments, NEW q \in Providers, GatewayStep(q), NEW p \in Providers \ {q},
           gw'[p] = gw[p], Agreed(p)
    PROVE  Agreed(p)'
<1>1. /\ TypeOK /\ up \in Requests /\ gw[p].now \in Fields /\ HeldBy(p)' = HeldBy(p) /\ UNCHANGED rx
      /\ q \in Peers
  BY DEF WebInv, WebTypeOK, GatewayStep, GwConsumes, GwConnects, GwDisconnects, HeldBy, Peers
<1>2. \E ms : Apart(q, ms) /\ NoReply(ms)
  <2>1. CASE GwConsumes(q, Held)
    BY <1>1, <2>1, GwConsumesApart
  <2>2. CASE GwConnects(q) \/ GwDisconnects(q)
    <3>1. UNCHANGED up /\ (ProviderJoin(q) \/ UNCHANGED <<link, target>>)
      BY <2>2 DEF GwConnects, GwDisconnects, vars
    <3>2. Send(q, << >>)
      BY <1>1, <3>1, SendNothing
    <3> QED
      BY <1>1, <3>1, <3>2 DEF Apart, NoReply
  <2> QED
    BY <2>1, <2>2 DEF GatewayStep
<1>3. PICK ms : Apart(q, ms) /\ NoReply(ms)
  BY <1>2
<1>4. \A s \in {None} \cup Session : \A pressed : Agrees(p, s, {}, pressed) => Agrees(p, s, {}, pressed)'
  BY <1>1, <1>3, ApartAgrees
<1> QED
  BY <1>1, <1>4, AgreedStays

-----------------------------------------------------------------------------
(* What pages do.                                                          *)

Pages == [Browsers -> [open : BOOLEAN, held : SUBSET KeyCodes]]

\* The keys held by pages: one more key or one less of one page.
LEMMA HeldParts ==
    ASSUME page \in Pages, NEW b \in Browsers, NEW x \in [open : BOOLEAN, held : SUBSET KeyCodes],
           page' = [page EXCEPT ![b] = x]
    PROVE  /\ \A p \in Providers \ {Of[b]} : HeldBy(p)' = HeldBy(p)
           /\ page[b].open /\ x.open => HeldBy(Of[b]) \subseteq HeldBy(Of[b])' \cup (page[b].held \ x.held)
           /\ page[b].open => HeldBy(Of[b]) \subseteq HeldBy(Of[b])' \cup page[b].held
           /\ ~ page[b].open => HeldBy(Of[b]) \subseteq HeldBy(Of[b])'
           /\ x.open => x.held \subseteq HeldBy(Of[b])'
<1>1. \A a \in Browsers : page'[a] = IF a = b THEN x ELSE page[a]
  BY DEF Pages
<1>2. ASSUME NEW p \in Providers \ {Of[b]}
      PROVE  HeldBy(p)' = HeldBy(p)
  <2>1. {a \in Browsers : Of[a] = p /\ page'[a].open} = {a \in Browsers : Of[a] = p /\ page[a].open}
    BY <1>1
  <2>2. \A a \in {a \in Browsers : Of[a] = p /\ page[a].open} : page'[a].held = page[a].held
    BY <1>1
  <2> QED
    BY <2>1, <2>2 DEF HeldBy
<1>3. \A p \in Providers : \A c : c \in HeldBy(p) <=> \E a \in Browsers : Of[a] = p /\ page[a].open /\ c \in page[a].held
  BY DEF HeldBy
<1>4. \A p \in Providers : \A c : c \in HeldBy(p)' <=> \E a \in Browsers : Of[a] = p /\ page'[a].open /\ c \in page'[a].held
  BY DEF HeldBy
<1>5. Of[b] \in Providers
  BY GatewayAssumption
<1>6. x.open => x.held \subseteq HeldBy(Of[b])'
  BY <1>1, <1>4, <1>5
<1>7. ASSUME NEW c \in HeldBy(Of[b])
      PROVE  c \in HeldBy(Of[b])' \/ (page[b].open /\ c \in page[b].held /\ (x.open => c \notin x.held))
  <2>1. PICK a \in Browsers : Of[a] = Of[b] /\ page[a].open /\ c \in page[a].held
    BY <1>3, <1>5
  <2>2. CASE a # b
    BY <1>1, <1>4, <1>5, <2>1, <2>2
  <2>3. CASE a = b
    BY <1>6, <2>1, <2>3
  <2> QED
    BY <2>2, <2>3
<1> QED
  BY <1>2, <1>6, <1>7

\* What is typed into p's session, if it may be used.
LEMMA GwSealsAgrees ==
    ASSUME WebInv, NEW p \in Providers, NEW m \in Plain, GwSeals(p, m), UNCHANGED <<link, target, rx>>,
           Agreed(p), gw'[p].now = gw[p].now, Typed(HeldBy(p), m) \subseteq HeldBy(p)'
    PROVE  Agreed(p)'
<1>1. PICK s : s = gw[p].now.session
  OBVIOUS
<1>2. PICK pressed : pressed = HeldBy(p)
  OBVIOUS
<1>3. PICK pressed2 : pressed2 = HeldBy(p)'
  OBVIOUS
<1>4. TypeOK /\ up \in Requests /\ s \in {None} \cup Session /\ gw'[p].now.session = s
  BY <1>1 DEF WebInv, WebTypeOK, Fields, Session
<1>5. CASE ~ gw[p].now.connected
  BY <1>5 DEF Agreed
<1>6. CASE gw[p].now.connected
  <2>1. Agrees(p, s, {}, pressed)
    BY <1>1, <1>2, <1>6 DEF Agreed
  <2>2. Unmoved(p)
    BY DEF Unmoved
  <2>3. Agrees(p, s, {}, pressed2)'
    <3>1. CASE Secure(gw[p].now)
      <4>1. Acts(p, <<Blob(Sealed(p, s.epk, s.with, m))>>) /\ s \in Session /\ s.with # None
        BY <1>1, <1>4, <3>1 DEF GwSeals, Acts, Secure
      <4>2. Typed(pressed, m) \subseteq pressed2
        BY <1>2, <1>3
      <4> QED
        BY <1>4, <2>1, <2>2, <4>1, <4>2, ActsTypes
    <3>2. CASE ~ Secure(gw[p].now)
      <4>1. Acts(p, << >>) /\ (s # None => s.with = None)
        BY <1>1, <3>2 DEF GwSeals, Acts, Secure
      <4> QED
        BY <1>4, <2>1, <2>2, <4>1, ActsSilent
    <3> QED
      BY <3>1, <3>2
  <2> QED
    BY <1>3, <1>4, <2>3, AgreedMeans
<1> QED
  BY <1>5, <1>6

\* A page's own gateway.
LEMMA PageAgreesOwn ==
    ASSUME WebInv, NEW b \in Browsers, PageStep(b), Agreed(Of[b])
    PROVE  Agreed(Of[b])'
<1> DEFINE p == Of[b]
<1>0. /\ TypeOK /\ up \in Requests /\ GwOK /\ p \in Providers /\ UNCHANGED <<link, target, rx>>
      /\ page \in Pages /\ page[b] \in [open : BOOLEAN, held : SUBSET KeyCodes]
  BY GatewayAssumption, PageShown DEF WebInv, WebTypeOK, GwOK, vars, Pages
<1> HIDE DEF p
<1>1. CASE PageOpens(b)
  <2> DEFINE x == [page[b] EXCEPT !.open = TRUE]
  <2>1. page' = [page EXCEPT ![b] = x] /\ x \in [open : BOOLEAN, held : SUBSET KeyCodes]
    BY <1>0, <1>1 DEF PageOpens
  <2> HIDE DEF x
  <2>2. HeldBy(p) \subseteq HeldBy(p)'
    BY <1>0, <1>1, <2>1, HeldParts DEF PageOpens, p
  <2>3. PICK s : s = gw[p].now.session
    OBVIOUS
  <2>4. PICK pressed : pressed = HeldBy(p)
    OBVIOUS
  <2>5. PICK pressed2 : pressed2 = HeldBy(p)'
    OBVIOUS
  <2>6. /\ gw' = gw /\ UNCHANGED up /\ s \in {None} \cup Session
    BY <1>0, <1>1, <2>3 DEF PageOpens, GwOK, Fields, Session
  <2>7. Acts(p, << >>) /\ Unmoved(p)
    BY <1>0, <2>6, SendNothing DEF Acts, Unmoved, Peers
  <2>8. CASE gw[p].now.connected
    <3>1. Agrees(p, s, {}, pressed) /\ pressed \subseteq pressed2
      BY <2>2, <2>3, <2>4, <2>5, <2>8 DEF Agreed, p
    <3>2. Agrees(p, s, {}, pressed2)'
      BY <1>0, <2>6, <2>7, <3>1, ActsSilent
    <3> QED
      BY <1>0, <2>3, <2>5, <2>6, <3>2, AgreedMeans DEF p
  <2>9. CASE ~ gw[p].now.connected
    BY <2>6, <2>9 DEF Agreed, p
  <2> QED
    BY <2>8, <2>9
<1>2. ASSUME NEW x \in [open : BOOLEAN, held : SUBSET KeyCodes], page' = [page EXCEPT ![b] = x],
             NEW m \in Plain, GwSeals(p, m), gw' = gw,
             Typed(HeldBy(p), m) \subseteq HeldBy(p)'
      PROVE  Agreed(p)'
  BY <1>0, <1>2, GwSealsAgrees DEF p
<1>3. \A pressed : Typed(pressed, ReleaseAll) = {}
  BY DEF Typed, ReleaseAll
<1>4. CASE PageCloses(b)
  <2> DEFINE x == [open |-> FALSE, held |-> {}]
  <2>1. x \in [open : BOOLEAN, held : SUBSET KeyCodes] /\ page' = [page EXCEPT ![b] = x] /\ gw' = gw
    BY <1>4 DEF PageCloses
  <2>2. GwSeals(p, ReleaseAll)
    BY <1>4 DEF PageCloses, p
  <2> HIDE DEF x
  <2> QED
    BY <1>2, <1>3, <2>1, <2>2, RequestTypes DEF p
<1>5. CASE PageReleases(b)
  <2> DEFINE x == [page[b] EXCEPT !.held = {}]
  <2>1. x \in [open : BOOLEAN, held : SUBSET KeyCodes] /\ page' = [page EXCEPT ![b] = x] /\ gw' = gw
    BY <1>0, <1>5 DEF PageReleases, Pages
  <2>2. GwSeals(p, ReleaseAll)
    BY <1>5 DEF PageReleases, p
  <2> HIDE DEF x
  <2> QED
    BY <1>2, <1>3, <2>1, <2>2, RequestTypes DEF p
<1>6. ASSUME NEW c \in KeyCodes, NEW d \in BOOLEAN, PageKey(b, c, d)
      PROVE  Agreed(p)'
  <2> DEFINE x == [page[b] EXCEPT !.held = IF d THEN @ \cup {c} ELSE @ \ {c}]
  <2>1. x \in [open : BOOLEAN, held : SUBSET KeyCodes]
    BY <1>0
  <2>2. page' = [page EXCEPT ![b] = x] /\ gw' = gw
    BY <1>0, <1>6 DEF PageKey, Pages
  <2>3. GwSeals(p, KeyMsg(c, d)) /\ KeyMsg(c, d) \in Plain /\ page[b].open
    BY <1>6, RequestTypes DEF PageKey, p
  <2>4. x.open /\ x.held = IF d THEN page[b].held \cup {c} ELSE page[b].held \ {c}
    BY <1>0, <2>3
  <2>5. Typed(HeldBy(p), KeyMsg(c, d)) = IF d THEN HeldBy(p) \cup {c} ELSE HeldBy(p) \ {c}
    BY DEF Typed, KeyMsg
  <2> HIDE DEF x
  <2>6. HeldBy(p) \subseteq HeldBy(p)' \cup (page[b].held \ x.held) /\ x.held \subseteq HeldBy(p)'
    BY <1>0, <2>1, <2>2, <2>3, <2>4, HeldParts DEF p
  <2>7. Typed(HeldBy(p), KeyMsg(c, d)) \subseteq HeldBy(p)'
    BY <2>4, <2>5, <2>6
  <2> QED
    BY <1>2, <2>1, <2>2, <2>3, <2>7
<1>7. ASSUME NEW n \in Names \cup {None}, PagePicks(b, n)
      PROVE  Agreed(p)'
  <2>1. PICK wish \in Names \cup {None} : GwAsks(p, wish)
    BY <1>7 DEF PagePicks, PickAsks, p
  <2>2. /\ gw'[p].now.connected = gw[p].now.connected /\ HeldBy(p)' = HeldBy(p)
    BY <1>0, <1>7 DEF PagePicks, GwOK, Fields, HeldBy, p
  <2>3. PICK s : s = gw'[p].now.session
    OBVIOUS
  <2>4. PICK pressed : pressed = HeldBy(p)'
    OBVIOUS
  <2>5. CASE gw[p].now.connected
    <3>1. Acts(p, <<SelectReq(wish)>>)
      BY <1>0, <2>1, <2>5 DEF GwAsks, Acts
    <3>2. Agrees(p, s, {}, pressed)'
      BY <1>0, <3>1, ActsAsks
    <3> QED
      BY <1>0, <2>3, <2>4, <3>2, AgreedMeans
  <2>6. CASE ~ gw[p].now.connected
    BY <2>2, <2>6 DEF Agreed
  <2> QED
    BY <2>5, <2>6
<1> QED
  BY <1>1, <1>4, <1>5, <1>6, <1>7 DEF PageStep, p

\* All gateways.
LEMMA PageAgrees ==
    ASSUME WebInv, Attachments, NEW b \in Browsers, PageStep(b), NEW p \in Providers, Agreed(p)
    PROVE  Agreed(p)'
<1>0. /\ TypeOK /\ up \in Requests /\ GwOK /\ Of[b] \in Providers /\ gw[p].now \in Fields
      /\ page \in Pages /\ page[b] \in [open : BOOLEAN, held : SUBSET KeyCodes]
  BY GatewayAssumption DEF WebInv, WebTypeOK, GwOK, Pages
<1>1. CASE p = Of[b]
  BY <1>1, PageAgreesOwn
<1>2. CASE p # Of[b]
  <2>1. PICK ms : Apart(Of[b], ms) /\ NoReply(ms)
    BY PageApart
  <2>2. Of[b] \in Providers \ {p} /\ p \in Providers \ {Of[b]}
    BY <1>0, <1>2
  <2>3. \A s \in {None} \cup Session : \A pressed : Agrees(p, s, {}, pressed) => Agrees(p, s, {}, pressed)'
    BY <1>0, <2>1, <2>2, ApartAgrees
  <2>4. gw'[p] = gw[p]
    BY <1>0, <1>2 DEF PageStep, PageOpens, PageCloses, PageReleases, PageKey, PagePicks, GwOK
  <2>5. page' = page \/ \E x \in [open : BOOLEAN, held : SUBSET KeyCodes] : page' = [page EXCEPT ![b] = x]
    BY <1>0 DEF PageStep, PageOpens, PageCloses, PageReleases, PageKey, PagePicks, Pages
  <2>6. HeldBy(p)' = HeldBy(p)
    <3>1. CASE page' = page
      BY <3>1 DEF HeldBy
    <3>2. CASE \E x \in [open : BOOLEAN, held : SUBSET KeyCodes] : page' = [page EXCEPT ![b] = x]
      BY <1>0, <2>2, <3>2, HeldParts
    <3> QED
      BY <2>5, <3>1, <3>2
  <2> QED
    BY <1>0, <2>3, <2>4, <2>6, AgreedStays
<1> QED
  BY <1>1, <1>2

-----------------------------------------------------------------------------
(* All of it.                                                              *)

\* Sessions are as far as the exchange is, on both sides.
Meeting == (\A p \in Providers : Agreed(p)) /\ (\A r \in Receivers : Sane(r))

\* Every step of the system keeps it.
LEMMA MeetingStep ==
    ASSUME WebInv, Scene, AllInformed, Attachments, Meeting, [WebNext]_webvars
    PROVE  Meeting'
<1>0. /\ TypeOK /\ up \in Requests /\ rx \in [Receivers -> Device] /\ GwOK /\ Carries(link)
      /\ \A p \in Providers : gw[p].now \in Fields
  BY DEF WebInv, WebTypeOK, GwOK, Scene
<1>1. TypeOK' /\ AllInformed' /\ WebInv' /\ Scene'
  BY WebHubStep, WebStep, TypeStep, InformedStep DEF WebInv, WebTypeOK
<1>2. ASSUME UNCHANGED <<gw, page>>, NEW p \in Providers,
             \A s \in {None} \cup Session : \A pressed : Agrees(p, s, {}, pressed) => Agrees(p, s, {}, pressed)'
      PROVE  Agreed(p)'
  <2>1. HeldBy(p)' = HeldBy(p)
    BY <1>2 DEF HeldBy
  <2> QED
    BY <1>0, <1>2, <2>1, AgreedStays DEF Meeting
<1>3. ASSUME NEW x \in Peers, ServerStep(x)
      PROVE  Meeting'
  <2>1. Serves(x) /\ UNCHANGED <<gw, page, rx>>
    BY <1>3 DEF ServerStep, Serves
  <2>2. \A p \in Providers : \A s \in {None} \cup Session : \A pressed : Agrees(p, s, {}, pressed) => Agrees(p, s, {}, pressed)'
    BY <1>0, <2>1, ServesAgrees
  <2>3. \A r \in Receivers : Sane(r)'
    BY <1>0, <2>1, SaneOthers DEF Meeting
  <2> QED
    BY <1>2, <2>1, <2>2, <2>3 DEF Meeting
<1>4. ASSUME NEW r \in Receivers, ReceiverStep(r)
      PROVE  Meeting'
  <2>1. Receives(r) /\ UNCHANGED <<gw, page>>
    BY <1>4 DEF ReceiverStep, Receives
  <2>2. \A p \in Providers : \A s \in {None} \cup Session : \A pressed : Agrees(p, s, {}, pressed) => Agrees(p, s, {}, pressed)'
    BY <1>0, <2>1, ReceivesAgrees
  <2>3. \A x \in Receivers : Sane(x)'
    BY <1>0, <2>1, SaneReceives DEF Meeting
  <2> QED
    BY <1>2, <2>1, <2>2, <2>3 DEF Meeting
<1>5. ASSUME NEW b \in Browsers, PageStep(b)
      PROVE  Meeting'
  <2>1. UNCHANGED <<link, view, rx>>
    BY <1>5, PageShown DEF vars
  <2>2. \A p \in Providers : Agreed(p)'
    BY <1>5, PageAgrees DEF Meeting
  <2>3. \A r \in Receivers : Sane(r)'
    BY <1>0, <2>1, SaneOthers DEF Meeting
  <2> QED
    BY <2>2, <2>3 DEF Meeting
<1>6. ASSUME NEW p \in Providers, GatewayStep(p)
      PROVE  Meeting'
  <2>1. UNCHANGED <<page, rx>> /\ Believing(gw[p].now, p) /\ Believing(gw[p].now, p)' /\ Agreed(p) /\ p \in Peers
    BY <1>1, <1>6 DEF GatewayStep, GwConsumes, GwConnects, GwDisconnects, Scene, Meeting, Peers
  <2>2. Agreed(p)'
    BY <1>1, <1>6, <2>1, GwConsumesAgrees, GwNetAgrees DEF GatewayStep
  <2>3. \A q \in Providers \ {p} : gw'[q] = gw[q]
    BY <1>0, <1>6 DEF GatewayStep, GwConsumes, GwConnects, GwDisconnects, GwOnReceivers, GwOnSelected, GwOnE2E,
                      GwGivesUp, Changed, GwOK
  <2>4. \A q \in Providers \ {p} : Agreed(q)'
    <3>1. ASSUME NEW q \in Providers \ {p}
          PROVE  Agreed(q)'
      <4>1. q \in Providers /\ p \in Providers \ {q} /\ gw'[q] = gw[q] /\ Agreed(q)
        BY <2>3 DEF Meeting
      <4> QED
        BY <1>6, <4>1, GatewayApart
    <3> QED
      BY <3>1
  <2>5. UNCHANGED <<link, view>> \/ ProviderJoin(p) \/ Deliver(p)
    BY <1>6 DEF GatewayStep, GwConsumes, GwConnects, GwDisconnects, vars
  <2>6. \A r \in Receivers : Sane(r)'
    BY <1>0, <2>1, <2>5, SaneOthers DEF Meeting
  <2> QED
    BY <2>2, <2>4, <2>6 DEF Meeting
<1>7. CASE UNCHANGED webvars
  <2>1. UNCHANGED <<link, view, rx, gw, page, target, up>>
    BY <1>7 DEF webvars
  <2>2. \A p \in Providers : Agreed(p)'
    <3>1. ASSUME NEW p \in Providers, NEW s, NEW pressed, Agrees(p, s, {}, pressed)
          PROVE  Agrees(p, s, {}, pressed)'
      BY <2>1, <3>1 DEF Agrees, Still, Hears, Replied, Astray, Way
    <3> QED
      BY <1>2, <2>1, <3>1
  <2>3. \A r \in Receivers : Sane(r)'
    BY <1>0, <2>1, SaneOthers DEF Meeting
  <2> QED
    BY <2>2, <2>3 DEF Meeting
<1> QED
  BY <1>3, <1>4, <1>5, <1>6, <1>7 DEF WebNext

\* At first there are no connections and no sessions.
LEMMA MeetingBegins == WebInit => Meeting
BY DEF WebInit, GwInit, RxInit, Starting, Idle, Meeting, Agreed, Sane

-----------------------------------------------------------------------------
(* When everything has arrived.                                            *)

\* A gateway's secure session is one the receiver is in.
LEMMA QuietSecure ==
    ASSUME WebInv, Attachments, Meeting, Quiet(Online), NEW p \in Providers, gw[p].now.connected
    PROVE  LET s == gw[p].now.session
           IN  /\ s = None <=> target[p] = None
               /\ s # None /\ s.with # None => s.with = target[p] /\ rx[s.with].session = <<p, s.epk>>
               /\ target[p] # None /\ rx[target[p]].session # None /\ rx[target[p]].down # {} =>
                     /\ s.with = target[p] /\ rx[s.with].session = <<p, s.epk>>
                     /\ rx[target[p]].down \subseteq HeldBy(p)
<1>0. /\ TypeOK /\ rx \in [Receivers -> Device] /\ gw[p].now \in Fields
      /\ \A r \in Receivers : r \in Online => rx[r].connected
      /\ p \in Online
  <2>1. \A r \in Receivers : r \in Online => rx[r].connected
    BY HubAssumption DEF Online
  <2> QED
    BY <2>1 DEF WebInv, WebTypeOK, Online
<1>1. PICK s : s = gw[p].now.session
  OBVIOUS
<1>2. s \in {None} \cup Session
  BY <1>0, <1>1 DEF Fields, Session
<1>3. Still(p) /\ (target[p] # None => Way(p) = << >>)
  BY <1>0, QuietStill
<1>4. Agrees(p, s, {}, HeldBy(p))
  BY <1>1 DEF Meeting, Agreed
<1>5. s = None => target[p] = None
  BY <1>3, <1>4 DEF Agrees
<1>6. ASSUME s # None
      PROVE  /\ target[p] \in Receivers
             /\ Exchange(p, target[p], s, << >>, rx[target[p]], Replied(p) \cup {}, HeldBy(p))
  BY <1>0, <1>3, <1>4, <1>6 DEF Agrees, TypeOK
<1>7. ASSUME s # None
      PROVE  /\ s.with # None => s.with = target[p] /\ rx[target[p]].session = <<p, s.epk>>
             /\ rx[target[p]].session # None /\ rx[target[p]].down # {} =>
                   s.with = target[p] /\ rx[target[p]].session = <<p, s.epk>> /\ rx[target[p]].down \subseteq HeldBy(p)
  <2>1. s \in Session /\ target[p] \in Receivers /\ rx[target[p]] \in Device
    BY <1>0, <1>2, <1>6, <1>7
  <2> QED
    BY <1>6, <1>7, <2>1, ExchangeArrived
<1>8. target[p] # None => s # None
  BY <1>5, <1>3, <1>4 DEF Agrees
<1>9. s # None => target[p] # None
  BY <1>3, <1>4 DEF Agrees
<1> QED
  BY <1>1, <1>5, <1>7, <1>8, <1>9

\* No receiver holds a key for nothing.
LEMMA QuietHeld ==
    ASSUME WebInv, Attachments, AllInformed, Meeting
    PROVE  NoKeyLeftByPages
<1> SUFFICES ASSUME Quiet(Online), NEW r \in Receivers, NEW c \in rx[r].down
             PROVE  \E b \in Browsers : LET g == gw[Of[b]].now
                                        IN  /\ page[b].open /\ c \in page[b].held
                                            /\ Secure(g) /\ g.session.with = r
                                            /\ rx[r].session = <<Of[b], g.session.epk>>
  BY DEF NoKeyLeftByPages
<1>0. TypeOK /\ rx \in [Receivers -> Device] /\ \A x \in Receivers : rx[x].connected => x \in Online
  BY DEF WebInv, WebTypeOK, Online
<1>1. Sane(r) /\ rx[r].session # None /\ rx[r].down # {}
  BY DEF Meeting, Sane
<1>2. PICK p \in Providers : target[p] = r /\ link[p].state # "none"
  BY <1>0, <1>1, QuietSane
<1>3. gw[p].now.connected
  <2>1. p \in Online /\ p \notin Receivers
    BY <1>2, HubAssumption DEF Quiet, Peers
  <2> QED
    BY <2>1 DEF Online
<1>4. r # None
  BY HubAssumption DEF Peers
<1>5. PICK s : s = gw[p].now.session
  OBVIOUS
<1>6. s # None /\ s.with = r /\ rx[r].session = <<p, s.epk>> /\ c \in HeldBy(p)
  BY <1>1, <1>2, <1>3, <1>4, <1>5, QuietSecure
<1>7. PICK b \in Browsers : Of[b] = p /\ page[b].open /\ c \in page[b].held
  BY <1>6 DEF HeldBy
<1> QED
  BY <1>4, <1>5, <1>6, <1>7 DEF Secure

\* When everything has arrived, a key a receiver holds is one that an open page of the
\* gateway in session with it holds (gateway.py, the page's handler and what ends a
\* session; receiver.py, what ends one there).
THEOREM PagesLeaveNoKey == WebSpec => []NoKeyLeftByPages
<1>1. WebInv /\ Scene /\ AllInformed /\ [WebNext]_webvars => WebInv' /\ Scene'
  BY WebStep
<1>2. WebInv /\ Attachments /\ AllInformed /\ [WebNext]_webvars => AllInformed' /\ Attachments'
  BY WebHubStep, InformedStep, AttachmentsStep DEF WebInv, WebTypeOK
<1>3. WebInv /\ Scene /\ AllInformed /\ Attachments /\ Meeting /\ [WebNext]_webvars => Meeting'
  BY MeetingStep
<1>4. WebInv /\ Attachments /\ AllInformed /\ Meeting => NoKeyLeftByPages
  BY QuietHeld
<1>5. WebInit => Meeting
  BY MeetingBegins
<1> QED
  BY <1>1, <1>2, <1>3, <1>4, <1>5, WebBegins, PTL DEF WebSpec

-----------------------------------------------------------------------------
(* What pages have picked, and what they are shown.                        *)

\* On its connection a gateway gets what a page has picked last, or nothing; what
\* pages are shown is true unless an answer is on its way.
Picked(p) == LET g == gw[p].now
             IN  /\ g.connected => Bound(p, g.desired)
                 /\ ~ g.connected \/ Settles(p) => gw[p].shown = State(g)

\* What others do leaves it so.
LEMMA PickedStays ==
    ASSUME NEW p \in Providers, gw'[p] = gw[p], \A n : Bound(p, n) => Bound(p, n)', Settles(p)' => Settles(p), Picked(p)
    PROVE  Picked(p)'
<1>1. PICK n : n = gw[p].now.desired
  OBVIOUS
<1>2. Bound(p, n) => Bound(p, n)'
  OBVIOUS
<1>3. gw[p].now.connected => Bound(p, n)
  BY <1>1 DEF Picked
<1>4. gw'[p].now.connected => Bound(p, gw[p].now.desired)'
  <2> SUFFICES ASSUME gw[p].now.connected
               PROVE  Bound(p, gw[p].now.desired)'
    OBVIOUS
  <2>1. Bound(p, n)'
    BY <1>2, <1>3
  <2> QED
    BY <1>1, <2>1 DEF Bound
<1> QED
  BY <1>4 DEF Picked, State

\* A change that pages are told of.
LEMMA PickedChanged ==
    ASSUME WebInv, Attachments, NEW p \in Providers, NEW h, Changed(p, h),
           NEW n, h.desired = n, h.connected => Bound(p, n)'
    PROVE  Picked(p)'
<1>1. gw'[p] = [now |-> h, shown |-> State(h)]
  BY DEF WebInv, WebTypeOK, Changed
<1> QED
  BY <1>1 DEF Picked, Bound, State

\* A message that is no news leaves as much to settle as there was.
LEMMA NoNewsTaken ==
    ASSUME TypeOK, NEW p \in Providers, Deliver(p), ~ Announces(Head(link[p].queue)), UNCHANGED up, Settles(p)'
    PROVE  Settles(p)
<1>1. /\ link[p].queue # << >> /\ link[p].queue \in Seq(Message)
      /\ link'[p].queue = Tail(link[p].queue) /\ link'[p].state = link[p].state
  BY DeliverLinks DEF Peers
<1> DEFINE q == link[p].queue
<1>2. \A i \in 1..Len(q) : \/ i = 1 /\ q[i] = Head(q)
                           \/ i - 1 \in 1..Len(Tail(q)) /\ Tail(q)[i - 1] = q[i]
  BY <1>1
<1> HIDE DEF q
<1>3. NoNews(Tail(q)) => NoNews(q)
  BY <1>2 DEF NoNews, q
<1> QED
  BY <1>1, <1>3 DEF Settles, Hears, q

\* A gateway takes a message.
LEMMA GwConsumesPicked ==
    ASSUME WebInv, Attachments, NEW p \in Providers, GwConsumes(p, Held), UNCHANGED rx, Picked(p)
    PROVE  Picked(p)'
<1> DEFINE m == Head(link[p].queue)
           g == gw[p].now
<1>0. /\ TypeOK /\ up \in Requests /\ GwOK /\ g \in Fields /\ g.connected /\ p \in Peers /\ Deliver(p)
      /\ m \in Message /\ page' = page
  <2>1. Deliver(p) /\ TypeOK /\ up \in Requests /\ GwOK /\ p \in Peers
    BY DEF GwConsumes, WebInv, WebTypeOK, GwOK, Peers
  <2> QED
    BY <2>1, DeliverLinks DEF GwConsumes, GwOK
<1>1. PICK n : n = g.desired
  OBVIOUS
<1>2. Bound(p, n) /\ n \in Names \cup {None}
  BY <1>0, <1>1 DEF Picked, Fields
<1>3. ASSUME UNCHANGED up
      PROVE  Bound(p, n)'
  <2>1. Acts(p, << >>)
    BY <1>0, <1>3, SendNothing DEF Acts
  <2> QED
    BY <1>0, <1>2, <2>1, SilentBound
<1>4. ASSUME NEW b \in Blobs, Send(p, <<Blob(b)>>)
      PROVE  Bound(p, n)'
  <2>1. Acts(p, <<Blob(b)>>) /\ Blob(b) \in Request /\ Blob(b).type # "select"
    BY <1>0, <1>4, RequestTypes DEF Acts, Blob
  <2> QED
    BY <1>0, <1>2, <2>1, BlobBound
<1>5. ASSUME NEW k \in Names \cup {None}, GwAsks(p, k)
      PROVE  Bound(p, k)'
  <2>1. Acts(p, <<SelectReq(k)>>)
    BY <1>0, <1>5 DEF Acts, GwAsks
  <2> QED
    BY <1>0, <2>1, AsksBound
<1>6. ASSUME UNCHANGED <<gw, up>>, ~ Announces(m)
      PROVE  Picked(p)'
  <2>1. Settles(p)' => Settles(p)
    BY <1>0, <1>6, NoNewsTaken
  <2> QED
    BY <1>0, <1>1, <1>3, <1>6, <2>1 DEF Picked, Bound, State
<1>7. CASE m.type = "receivers" /\ GwOnReceivers(p, m)
  <2> DEFINE h == [g EXCEPT !.receivers = m.names]
  <2>1. h.desired = n /\ Changed(p, h)
    BY <1>0, <1>1, <1>7 DEF Fields, GwOnReceivers
  <2>2. GwAsks(p, n) \/ UNCHANGED up
    BY <1>1, <1>7, <2>1 DEF GwOnReceivers
  <2>3. Bound(p, n)'
    BY <1>2, <1>3, <1>5, <2>2
  <2> HIDE DEF h
  <2> QED
    BY <2>1, <2>3, PickedChanged
<1>8. CASE m.type = "selected" /\ GwOnSelected(p, m, Held)
  <2>1. CASE m.who = None
    <3> DEFINE h == [[g EXCEPT !.current = m.who] EXCEPT !.session = None]
    <3>1. h.desired = n /\ Changed(p, h) /\ UNCHANGED up
      BY <1>0, <1>1, <1>8, <2>1 DEF Fields, GwOnSelected
    <3> HIDE DEF h
    <3> QED
      BY <1>3, <3>1, PickedChanged
  <2>2. CASE m.who # None
    <3>1. PICK e \in Ephemerals :
                 /\ Changed(p, [[g EXCEPT !.current = m.who] EXCEPT !.session = [epk |-> e, with |-> None]])
                 /\ Send(p, <<Blob(Hs1(p, e))>>)
      BY <1>8, <2>2 DEF GwOnSelected, Fresh
    <3> DEFINE h == [[g EXCEPT !.current = m.who] EXCEPT !.session = [epk |-> e, with |-> None]]
    <3>2. h.desired = n /\ Changed(p, h)
      BY <1>0, <1>1, <3>1 DEF Fields
    <3>3. Bound(p, n)'
      BY <1>4, <3>1, RequestTypes
    <3> HIDE DEF h
    <3> QED
      BY <3>2, <3>3, PickedChanged
  <2> QED
    BY <2>1, <2>2
<1>9. CASE m.type = "e2e" /\ GwOnE2E(p, m.body)
  <2> DEFINE b == m.body
             given == [g EXCEPT !.session = None, !.desired = None]
             keyed == [g EXCEPT !.session.with = b.pub]
  <2>0. ~ Announces(m)
    BY <1>9 DEF Announces
  <2>1. CASE GwGivesUp(p)
    <3>1. given.desired = None /\ Changed(p, given) /\ GwAsks(p, None)
      BY <1>0, <2>1 DEF Fields, GwGivesUp
    <3>2. Bound(p, None)'
      BY <1>5, <3>1
    <3> HIDE DEF given
    <3> QED
      BY <3>1, <3>2, PickedChanged
  <2>2. CASE UNCHANGED <<gw, up>>
    BY <1>6, <2>0, <2>2
  <2>3. CASE /\ b.step = "hs2" /\ g.session # None /\ Changed(p, keyed)
             /\ Send(p, <<Blob(Sealed(p, g.session.epk, b.pub, ReleaseAll))>>)
    <3>1. b \in Blobs /\ b.pub \in Receivers
      BY <1>0, <1>9, <2>3, MessageParts, BlobParts
    <3>2. keyed.desired = n /\ g.session.epk \in Ephemerals
      BY <1>0, <1>1, <2>3 DEF Fields
    <3>3. Bound(p, n)'
      BY <1>4, <2>3, <3>1, <3>2, RequestTypes
    <3> HIDE DEF keyed, b
    <3> QED
      BY <2>3, <3>2, <3>3, PickedChanged
  <2> QED
    BY <1>9, <2>1, <2>2, <2>3 DEF GwOnE2E
<1>10. CASE m.type = "notice" /\ UNCHANGED <<gw, up>>
  BY <1>6, <1>10 DEF Announces
<1> QED
  BY <1>7, <1>8, <1>9, <1>10 DEF GwConsumes

\* A gateway connects, or loses its connection.
LEMMA GwNetPicked ==
    ASSUME WebInv, Attachments, Unheard, NEW p \in Providers, GwConnects(p) \/ GwDisconnects(p)
    PROVE  Picked(p)'
<1>0. TypeOK /\ gw[p].now \in Fields /\ p \in Peers
  BY DEF WebInv, WebTypeOK, Peers
<1>1. CASE GwConnects(p)
  <2> DEFINE h == [gw[p].now EXCEPT !.connected = TRUE, !.current = None]
  <2>1. Changed(p, h) /\ ProviderJoin(p) /\ UNCHANGED up
    BY <1>1 DEF GwConnects
  <2>2. up[p] = << >>
    BY <1>0, <2>1 DEF ProviderJoin, Unheard
  <2>3. PICK n : n = h.desired
    OBVIOUS
  <2>4. Bound(p, n)'
    BY <1>0, <2>1, <2>2, JoinBound
  <2> HIDE DEF h
  <2> QED
    BY <2>1, <2>3, <2>4, PickedChanged
<1>2. CASE GwDisconnects(p)
  <2> DEFINE h == [gw[p].now EXCEPT !.connected = FALSE, !.session = None]
  <2>1. Changed(p, h) /\ ~ h.connected
    BY <1>0, <1>2 DEF GwDisconnects, Fields
  <2>2. PICK n : n = h.desired
    OBVIOUS
  <2> HIDE DEF h
  <2> QED
    BY <2>1, <2>2, PickedChanged
<1> QED
  BY <1>1, <1>2

\* What pages do: a pick is asked for, and the answer will be shown.
LEMMA PagePicked ==
    ASSUME WebInv, Attachments, NEW b \in Browsers, PageStep(b), NEW p \in Providers, Picked(p), Believing(gw[p].now, p)
    PROVE  Picked(p)'
<1>0. /\ TypeOK /\ up \in Requests /\ GwOK /\ Of[b] \in Providers /\ UNCHANGED <<link, target, rx>>
      /\ gw[p].now \in Fields
  BY GatewayAssumption, PageShown DEF WebInv, WebTypeOK, GwOK, vars
<1>1. CASE p # Of[b]
  <2>1. PICK ms : Apart(Of[b], ms)
    BY PageApart
  <2>2. gw'[p] = gw[p]
    BY <1>0, <1>1 DEF PageStep, PageOpens, PageCloses, PageReleases, PageKey, PagePicks, GwOK
  <2>3. Of[b] \in Providers \ {p}
    BY <1>0, <1>1
  <2>4. (\A n : Bound(p, n) => Bound(p, n)') /\ (Settles(p)' => Settles(p))
    BY <1>0, <2>1, <2>3, ApartBound
  <2> QED
    BY <2>2, <2>4, PickedStays
<1>2. CASE p = Of[b]
  <2>1. ASSUME UNCHANGED up, gw' = gw
        PROVE  Picked(p)'
    <3>1. Settles(p)' => Settles(p)
      BY <1>0, <2>1 DEF Settles
    <3>2. \A n : Bound(p, n) => Bound(p, n)'
      BY <1>0, <2>1 DEF Bound
    <3> QED
      BY <2>1, <3>1, <3>2, PickedStays
  <2>2. ASSUME NEW m \in Plain, GwSeals(p, m), gw' = gw
        PROVE  Picked(p)'
    <3>1. CASE ~ Secure(gw[p].now)
      <4>1. Send(p, << >>)
        BY <2>2, <3>1 DEF GwSeals
      <4>2. UNCHANGED up
        BY <1>0, <4>1 DEF Send, Requests, Peers
      <4> QED
        BY <2>1, <2>2, <4>2
    <3>2. CASE Secure(gw[p].now)
      <4> DEFINE k == Blob(Sealed(p, gw[p].now.session.epk, gw[p].now.session.with, m))
      <4>1. k \in Request /\ k.type # "select" /\ Acts(p, <<k>>)
        <5>1. gw[p].now.session.epk \in Ephemerals /\ gw[p].now.session.with \in Receivers
          BY <1>0, <3>2 DEF Secure, Fields
        <5> QED
          BY <1>0, <2>2, <3>2, <5>1, RequestTypes DEF Blob, Acts, GwSeals
      <4> HIDE DEF k
      <4>2. \A n : Bound(p, n) => Bound(p, n)'
        BY <1>0, <4>1, BlobBound
      <4>3. Settles(p)' => Settles(p)
        <5>1. up[p] \in Seq(Request) /\ (up'[p] = up[p] \/ up'[p] = up[p] \o <<k>>)
          BY <1>0, <4>1 DEF Acts, Send, Requests, Peers, Made
        <5>2. PICK u \in Seq(Request) : u = up[p]
          BY <5>1
        <5>3. NoAsk(u \o <<k>>) => NoAsk(u)
          BY <4>1, AskAppended
        <5>4. NoAsk(up'[p]) => NoAsk(up[p])
          BY <5>1, <5>2, <5>3
        <5> QED
          BY <1>0, <5>4 DEF Settles
      <4> QED
        BY <2>2, <4>2, <4>3, PickedStays
    <3> QED
      BY <3>1, <3>2
  <2>3. ASSUME NEW n \in Names \cup {None}, PagePicks(b, n)
        PROVE  Picked(p)'
    <3> DEFINE wish == IF n \in gw[p].now.receivers THEN n ELSE None
               g == gw[p].now
    <3>1. /\ wish \in Names \cup {None} /\ GwAsks(p, wish)
          /\ gw' = [gw EXCEPT ![p].now.desired = wish, ![p].now.session = None]
      BY <1>2, <2>3 DEF PagePicks, PickAsks
    <3> HIDE DEF wish
    <3>2. /\ gw'[p].now.connected = g.connected /\ gw'[p].now.receivers = g.receivers
          /\ gw'[p].now.current = g.current /\ gw'[p].now.session = None
          /\ gw'[p].now.desired = wish /\ gw'[p].shown = gw[p].shown
      <4>1. gw' = [[gw EXCEPT ![p].now.desired = wish] EXCEPT ![p].now.session = None]
        BY <3>1
      <4> QED
        BY <1>0, <4>1 DEF GwOK, Fields
    <3>3. CASE g.connected
      <4>1. Acts(p, <<SelectReq(wish)>>)
        BY <1>0, <3>1, <3>3 DEF GwAsks, Acts
      <4>2. PICK k \in Names \cup {None} : k = wish
        BY <3>1
      <4>3. Acts(p, <<SelectReq(k)>>)
        BY <4>1, <4>2
      <4>4. Bound(p, k)' /\ ~ Settles(p)'
        BY <1>0, <4>3, AsksBound
      <4> QED
        BY <3>2, <3>3, <4>2, <4>4 DEF Picked, Bound
    <3>4. CASE ~ g.connected
      <4>1. g.session = None /\ gw[p].shown = State(g)
        BY <3>4 DEF Believing, Picked
      <4> QED
        BY <3>2, <3>4, <4>1 DEF Picked, State, Secure
    <3> QED
      BY <3>3, <3>4
  <2> QED
    BY <1>2, <2>1, <2>2, <2>3, RequestTypes DEF PageStep, PageOpens, PageCloses, PageReleases, PageKey
<1> QED
  BY <1>1, <1>2

AllPicked == Unheard /\ \A p \in Providers : Picked(p)

\* Every step of the system keeps it.
LEMMA PickedStep ==
    ASSUME WebInv, Scene, Attachments, AllPicked, [WebNext]_webvars
    PROVE  AllPicked'
<1>0. /\ TypeOK /\ up \in Requests /\ GwOK
      /\ Unheard /\ \A p \in Providers : Picked(p)
  BY DEF WebInv, WebTypeOK, GwOK, AllPicked
<1>1. ASSUME NEW x \in Peers, ServerStep(x)
      PROVE  AllPicked'
  <2>1. Serves(x) /\ UNCHANGED gw
    BY <1>1 DEF ServerStep, Serves
  <2>2. \A p \in Providers : Picked(p)'
    BY <1>0, <2>1, ServesBound, ServesSettles, PickedStays
  <2>3. Unheard'
    BY <1>0, <2>1, ServesUnheard
  <2> QED
    BY <2>2, <2>3 DEF AllPicked
<1>2. ASSUME NEW r \in Receivers, ReceiverStep(r)
      PROVE  AllPicked'
  <2>1. Receives(r) /\ UNCHANGED gw
    BY <1>2 DEF ReceiverStep, Receives
  <2>2. \A p \in Providers : Picked(p)'
    BY <1>0, <2>1, ReceivesBound, PickedStays
  <2>3. Unheard'
    BY <1>0, <2>1, ReceivesUnheard
  <2> QED
    BY <2>2, <2>3 DEF AllPicked
<1>3. ASSUME NEW b \in Browsers, PageStep(b)
      PROVE  AllPicked'
  <2>1. \A p \in Providers : Picked(p)'
    BY <1>0, <1>3, PagePicked DEF Scene
  <2>2. Unheard'
    BY <1>0, <1>3, PageApart, ApartUnheard, GatewayAssumption
  <2> QED
    BY <2>1, <2>2 DEF AllPicked
<1>4. ASSUME NEW p \in Providers, GatewayStep(p)
      PROVE  AllPicked'
  <2>1. UNCHANGED rx /\ p \in Peers
    BY <1>4 DEF GatewayStep, Peers
  <2>2. \E ms : Apart(p, ms)
    <3>1. CASE GwConsumes(p, Held)
      BY <2>1, <3>1, GwConsumesApart
    <3>2. CASE GwConnects(p) \/ GwDisconnects(p)
      <4>1. UNCHANGED up /\ (ProviderJoin(p) \/ UNCHANGED <<link, target>>)
        BY <3>2 DEF GwConnects, GwDisconnects, vars
      <4>2. Send(p, << >>)
        BY <1>0, <2>1, <4>1, SendNothing
      <4> QED
        BY <2>1, <4>1, <4>2 DEF Apart
    <3> QED
      BY <1>4, <3>1, <3>2 DEF GatewayStep
  <2>3. PICK ms : Apart(p, ms)
    BY <2>2
  <2>4. Unheard'
    BY <1>0, <2>3, ApartUnheard
  <2>5. Picked(p)'
    BY <1>0, <1>4, <2>1, GwConsumesPicked, GwNetPicked DEF GatewayStep
  <2>6. \A q \in Providers \ {p} : gw'[q] = gw[q]
    BY <1>0, <1>4 DEF GatewayStep, GwConsumes, GwConnects, GwDisconnects, GwOnReceivers, GwOnSelected, GwOnE2E,
                      GwGivesUp, Changed, GwOK
  <2>7. ASSUME NEW q \in Providers \ {p}
        PROVE  Picked(q)'
    <3>1. q \in Providers /\ p \in Providers \ {q} /\ gw'[q] = gw[q] /\ Picked(q)
      BY <1>0, <2>6
    <3>2. (\A n : Bound(q, n) => Bound(q, n)') /\ (Settles(q)' => Settles(q))
      BY <1>0, <2>3, <3>1, ApartBound
    <3> QED
      BY <3>1, <3>2, PickedStays
  <2> QED
    BY <2>4, <2>5, <2>7 DEF AllPicked
<1>5. CASE UNCHANGED webvars
  BY <1>5 DEF webvars, AllPicked, Unheard, Picked, Bound, Settles, Hears, State, Secure
<1> QED
  BY <1>1, <1>2, <1>3, <1>4, <1>5 DEF WebNext

\* At first nothing is picked.
LEMMA PickedBegins == WebInit => AllPicked
<1> SUFFICES ASSUME WebInit
             PROVE  AllPicked
  OBVIOUS
<1>1. PICK now : now = Starting
  OBVIOUS
<1>2. PICK shown : shown = State(Starting)
  OBVIOUS
<1>3. gw = [p \in Providers |-> [now |-> now, shown |-> shown]]
  BY <1>1, <1>2 DEF WebInit, GwInit
<1>4. ~ now.connected
  BY <1>1 DEF Starting
<1>5. \A p \in Providers : gw[p].now = now /\ gw[p].shown = shown
  BY <1>3
<1>6. \A p \in Providers : Picked(p)
  BY <1>1, <1>2, <1>4, <1>5 DEF Picked
<1>7. Unheard
  BY DEF WebInit, Unheard
<1> QED
  BY <1>6, <1>7 DEF AllPicked

\* When everything has arrived, nothing is left to settle.
LEMMA QuietSettles ==
    ASSUME TypeOK, Quiet(Online), NEW p \in Providers, gw[p].now.connected
    PROVE  link[p].state = "open" /\ Settles(p)
BY HubAssumption DEF Quiet, Online, Settles, Hears, NoNews, NoAsk, TypeOK, Peers

\* A secure session is one the receiver is in, with the receiver a page picked last.
LEMMA QuietPicked ==
    ASSUME WebInv, Scene, Attachments, Meeting, AllPicked
    PROVE  SecureAsPicked
<1> SUFFICES ASSUME Quiet(Online), NEW p \in Providers, Secure(gw[p].now)
             PROVE  LET g == gw[p].now
                    IN  rx[g.session.with].session = <<p, g.session.epk>> /\ g.current = g.desired
  BY DEF SecureAsPicked
<1> DEFINE g == gw[p].now
<1>1. g.connected /\ TypeOK /\ g.session # None /\ g.session.with # None /\ Name(g.session.with) = g.current
  BY DEF WebInv, WebTypeOK, Scene, Believing, Secure, Shown
<1>2. target[p] # None /\ g.session.with = target[p] /\ rx[g.session.with].session = <<p, g.session.epk>>
  BY <1>1, QuietSecure
<1>3. Bound(p, g.desired)
  BY <1>1 DEF AllPicked, Picked
<1>4. up[p] = << >> /\ link[p].state = "open"
  BY <1>1, QuietSettles DEF Quiet, Peers
<1>5. ~ LastAsk(up[p], g.desired)
  BY <1>4 DEF LastAsk
<1>6. Name(target[p]) = g.desired
  BY <1>2, <1>3, <1>4, <1>5 DEF Bound
<1> QED
  BY <1>1, <1>2, <1>6

\* What pages are shown is the case.
LEMMA QuietShown ==
    ASSUME WebInv, AllPicked
    PROVE  PagesShowTruth
BY QuietSettles DEF AllPicked, Picked, PagesShowTruth, WebInv, WebTypeOK

\* When everything has arrived, a session that may be used is one the receiver is in
\* too, with the receiver picked last, and the pages are shown what is the case, though
\* a pick itself is not pushed (gateway.py, select and what follows from the answer;
\* receiver.py, handle_e2e).
THEOREM PagesSettle == WebSpec => [](SecureAsPicked /\ PagesShowTruth)
<1>1. WebInv /\ Scene /\ AllInformed /\ [WebNext]_webvars => WebInv' /\ Scene'
  BY WebStep
<1>2. WebInv /\ Attachments /\ AllInformed /\ [WebNext]_webvars => AllInformed' /\ Attachments'
  BY WebHubStep, InformedStep, AttachmentsStep DEF WebInv, WebTypeOK
<1>3. WebInv /\ Scene /\ AllInformed /\ Attachments /\ Meeting /\ [WebNext]_webvars => Meeting'
  BY MeetingStep
<1>4. WebInv /\ Scene /\ Attachments /\ AllPicked /\ [WebNext]_webvars => AllPicked'
  BY PickedStep
<1>5. WebInv /\ Scene /\ Attachments /\ Meeting /\ AllPicked => SecureAsPicked /\ PagesShowTruth
  BY QuietPicked, QuietShown
<1>6. WebInit => Meeting /\ AllPicked
  BY MeetingBegins, PickedBegins
<1> QED
  BY <1>1, <1>2, <1>3, <1>4, <1>5, <1>6, WebBegins, PTL DEF WebSpec

-----------------------------------------------------------------------------
(* Attaching again.                                                        *)

\* p acts as if it had what it has been told.
Waits(p, n) == Awaits(p, view[p].who, n)

LEMMA WaitsOn ==
    ASSUME NEW p \in Providers, Retained(p), NEW n, \A v : Awaits(p, v, n) => Awaits(p, v, n)', Waits(p, n)
    PROVE  Waits(p, n)'
<1>1. PICK v : v = view[p].who
  OBVIOUS
<1>2. Awaits(p, v, n)'
  BY <1>1 DEF Waits
<1>3. CASE link'[p].state = "open"
  BY <1>1, <1>2, <1>3 DEF Waits, Retained
<1>4. CASE link'[p].state # "open"
  BY <1>4 DEF Waits, Awaits, Reminded
<1> QED
  BY <1>3, <1>4

\* It goes on waiting if it is sent no list with n, or has n.
LEMMA SilentWaits ==
    ASSUME TypeOK, TypeOK', up \in Requests, NEW p \in Providers, NEW n, Waits(p, n),
           NEW ms, Send(p, ms), ms = << >> \/ \E m \in Request : ms = <<m>> /\ m.type # "select",
           \/ UNCHANGED <<link, view, receivers, target>>
           \/ /\ Deliver(p)
              /\ LET m == Head(link[p].queue)
                 IN  m.type = "receivers" /\ n \in m.names => view[p].who = n
    PROVE  Waits(p, n)'
<1>1. PICK v : v = view[p].who
  OBVIOUS
<1>2. PICK v2 : v2 = view'[p].who
  OBVIOUS
<1>3. Deliver(p) => v2 = After(v, Head(link[p].queue))
  BY <1>1, <1>2, Believes DEF Peers
<1>4. Awaits(p, v, n)
  BY <1>1 DEF Waits
<1>5. Awaits(p, v2, n)'
  BY <1>1, <1>2, <1>3, <1>4, SilentAwaits
<1> QED
  BY <1>2, <1>5 DEF Waits

LEMMA AsksWaits ==
    ASSUME TypeOK, up \in Requests, NEW p \in Providers, NEW k \in Names \cup {None}, Send(p, <<SelectReq(k)>>),
           link'[p].state = "open" => link[p].state = "open", NEW n
    PROVE  Waits(p, n)'
<1>1. PICK v : v = view'[p].who
  OBVIOUS
<1>2. Awaits(p, v, n)'
  BY AsksAwaits
<1> QED
  BY <1>1, <1>2 DEF Waits

\* A gateway goes by the relay's list, and if it has not got the receiver a page
\* picked, though that is online, it has asked for it or will, with the next list.
Awaiting(p) == LET g == gw[p].now
               IN  g.connected => Waits(p, g.desired) /\ Learns(p, g.receivers)

LEMMA AwaitingChanged ==
    ASSUME NEW p \in Providers, NEW n, NEW names, Waits(p, n)', Learns(p, names)',
           gw'[p].now.connected => gw'[p].now.desired = n /\ gw'[p].now.receivers = names
    PROVE  Awaiting(p)'
BY DEF Awaiting, Waits, Awaits, Reminded, Learns

LEMMA AwaitingStays ==
    ASSUME GwOK, NEW p \in Providers, gw'[p] = gw[p], Awaiting(p),
           \A n \in Names \cup {None} : Waits(p, n) => Waits(p, n)',
           \A names : Learns(p, names) => Learns(p, names)'
    PROVE  Awaiting(p)'
<1>1. PICK n : n = gw[p].now.desired
  OBVIOUS
<1>2. PICK names : names = gw[p].now.receivers
  OBVIOUS
<1>3. n \in Names \cup {None}
  BY <1>1 DEF GwOK, Fields
<1>4. CASE gw[p].now.connected
  <2>1. Waits(p, n)' /\ Learns(p, names)'
    BY <1>1, <1>2, <1>3, <1>4 DEF Awaiting
  <2> QED
    BY <1>1, <1>2, <2>1, AwaitingChanged
<1>5. CASE ~ gw[p].now.connected
  BY <1>5 DEF Awaiting
<1> QED
  BY <1>4, <1>5

\* A gateway takes a message: with a list that reminds it, it asks.
LEMMA GwConsumesAwaiting ==
    ASSUME WebInv, TypeOK', Carries(link), NEW p \in Providers, GwConsumes(p, Held), Believing(gw[p].now, p), Awaiting(p)
    PROVE  Awaiting(p)'
<1> DEFINE m == Head(link[p].queue)
           g == gw[p].now
<1>0. /\ TypeOK /\ up \in Requests /\ GwOK /\ g \in Fields /\ g.connected /\ p \in Peers /\ Deliver(p)
      /\ m \in Message
  <2>1. Deliver(p) /\ TypeOK /\ up \in Requests /\ GwOK /\ p \in Peers
    BY DEF GwConsumes, WebInv, WebTypeOK, GwOK, Peers
  <2> QED
    BY <2>1, DeliverLinks DEF GwConsumes, GwOK
<1>1. PICK n : n = g.desired
  OBVIOUS
<1>2. PICK names : names = g.receivers
  OBVIOUS
<1>3. Waits(p, n) /\ Learns(p, names) /\ n \in Names \cup {None}
  BY <1>0, <1>1, <1>2 DEF Awaiting, Fields
<1>4. g.current = view[p].who
  BY <1>0, DeliverCarries DEF Believing
<1>5. link'[p].state = link[p].state
  BY <1>0, DeliverLinks
<1>6. m.type # "receivers" => Learns(p, names)'
  BY <1>0, <1>3, TakenLearns
<1>7. ASSUME m.type # "receivers", NEW b \in Blobs, Send(p, <<Blob(b)>>)
      PROVE  Waits(p, n)'
  <2>1. Blob(b) \in Request /\ Blob(b).type # "select"
    BY RequestTypes DEF Blob
  <2> HIDE DEF m
  <2> QED
    BY <1>0, <1>3, <1>7, <2>1, SilentWaits DEF m
<1>8. ASSUME UNCHANGED up, m.type = "receivers" /\ n \in m.names => view[p].who = n
      PROVE  Waits(p, n)'
  <2>1. Send(p, << >>)
    BY <1>0, <1>8, SendNothing
  <2> QED
    BY <1>0, <1>3, <1>8, <2>1, SilentWaits
<1>9. ASSUME NEW k \in Names \cup {None}, GwAsks(p, k)
      PROVE  Waits(p, k)'
  <2>1. Send(p, <<SelectReq(k)>>)
    BY <1>0, <1>9 DEF GwAsks
  <2> QED
    BY <1>0, <1>5, <2>1, AsksWaits
<1>10. CASE m.type = "receivers" /\ GwOnReceivers(p, m)
  <2> DEFINE h == [g EXCEPT !.receivers = m.names]
  <2>1. PICK told : told = m.names
    OBVIOUS
  <2>2. h.desired = n /\ h.receivers = told /\ h.current = g.current /\ Changed(p, h) /\ h \in Fields
    BY <1>0, <1>1, <1>10, <2>1, MessageParts DEF Fields, GwOnReceivers
  <2>3. Learns(p, told)'
    BY <1>0, <1>3, <1>10, <2>1, TakenLearns
  <2>4. IF n \in told /\ view[p].who # n THEN GwAsks(p, n) ELSE UNCHANGED up
    BY <1>1, <1>4, <1>10, <2>1, <2>2 DEF GwOnReceivers
  <2>5. Waits(p, n)'
    <3> HIDE DEF m
    <3> QED
      BY <1>3, <1>8, <1>9, <2>1, <2>4
  <2>6. gw'[p].now = h
    BY <1>0, <2>2, ChangedFacts
  <2> HIDE DEF h
  <2> QED
    BY <2>2, <2>3, <2>5, <2>6, AwaitingChanged
<1>11. ASSUME NEW h \in Fields, Changed(p, h), h.receivers = names, m.type # "receivers",
              NEW k, h.desired = k, Waits(p, k)'
       PROVE  Awaiting(p)'
  <2>1. gw'[p].now = h
    BY <1>0, <1>11, ChangedFacts
  <2> HIDE DEF m
  <2> QED
    BY <1>6, <1>11, <2>1, AwaitingChanged
<1>12. CASE m.type = "selected" /\ GwOnSelected(p, m, Held)
  <2>0. m.who \in Names \cup {None}
    BY <1>0, <1>12, MessageParts
  <2>1. CASE m.who = None
    <3> DEFINE h == [[g EXCEPT !.current = m.who] EXCEPT !.session = None]
    <3>1. h.desired = n /\ h.receivers = names /\ h \in Fields /\ Changed(p, h) /\ UNCHANGED up
      BY <1>0, <1>1, <1>2, <1>12, <2>0, <2>1 DEF Fields, GwOnSelected
    <3> HIDE DEF h
    <3> QED
      BY <1>8, <1>11, <1>12, <3>1
  <2>2. CASE m.who # None
    <3>1. PICK e \in Ephemerals :
                 /\ Changed(p, [[g EXCEPT !.current = m.who] EXCEPT !.session = [epk |-> e, with |-> None]])
                 /\ Send(p, <<Blob(Hs1(p, e))>>)
      BY <1>12, <2>2 DEF GwOnSelected, Fresh
    <3> DEFINE h == [[g EXCEPT !.current = m.who] EXCEPT !.session = [epk |-> e, with |-> None]]
    <3>2. h.desired = n /\ h.receivers = names /\ h \in Fields /\ Changed(p, h)
      BY <1>0, <1>1, <1>2, <2>0, <3>1 DEF Fields
    <3>3. Waits(p, n)'
      BY <1>7, <1>12, <3>1, RequestTypes
    <3> HIDE DEF h
    <3> QED
      BY <1>11, <1>12, <3>2, <3>3
  <2> QED
    BY <2>1, <2>2
<1>13. ASSUME UNCHANGED <<gw, up>>, m.type # "receivers"
       PROVE  Awaiting(p)'
  <2>1. Waits(p, n)' /\ Learns(p, names)'
    BY <1>6, <1>8, <1>13
  <2> QED
    BY <1>1, <1>2, <1>13, <2>1, AwaitingChanged
<1>14. CASE m.type = "e2e" /\ GwOnE2E(p, m.body)
  <2> DEFINE b == m.body
             given == [g EXCEPT !.session = None, !.desired = None]
             keyed == [g EXCEPT !.session.with = b.pub]
  <2>1. CASE GwGivesUp(p)
    <3>1. given.desired = None /\ given.receivers = names /\ given \in Fields /\ Changed(p, given) /\ GwAsks(p, None)
      BY <1>0, <1>2, <2>1 DEF Fields, GwGivesUp
    <3>2. Waits(p, None)'
      BY <1>9, <3>1
    <3> HIDE DEF given
    <3> QED
      BY <1>11, <1>14, <3>1, <3>2
  <2>2. CASE UNCHANGED <<gw, up>>
    BY <1>13, <1>14, <2>2
  <2>3. CASE /\ b.step = "hs2" /\ g.session # None /\ Changed(p, keyed)
             /\ Send(p, <<Blob(Sealed(p, g.session.epk, b.pub, ReleaseAll))>>)
    <3>1. b \in Blobs /\ b.pub \in Receivers
      BY <1>0, <1>14, <2>3, MessageParts, BlobParts
    <3>2. g.session \in [epk : Ephemerals, with : Receivers \cup {None}]
      BY <1>0, <2>3 DEF Fields
    <3>3. keyed.desired = n /\ keyed.receivers = names /\ g.session.epk \in Ephemerals /\ keyed \in Fields
      BY <1>0, <1>1, <1>2, <3>1, <3>2 DEF Fields
    <3>4. Waits(p, n)'
      BY <1>7, <1>14, <2>3, <3>1, <3>3, RequestTypes
    <3>5. Changed(p, keyed)
      BY <2>3
    <3> HIDE DEF keyed, b
    <3> QED
      BY <1>11, <1>14, <3>3, <3>4, <3>5
  <2> QED
    BY <1>14, <2>1, <2>2, <2>3 DEF GwOnE2E
<1>15. CASE m.type = "notice" /\ UNCHANGED <<gw, up>>
  BY <1>13, <1>15
<1> QED
  BY <1>10, <1>12, <1>14, <1>15 DEF GwConsumes

\* A gateway connects, or loses its connection.
LEMMA GwNetAwaiting ==
    ASSUME WebInv, TypeOK', AllInformed', NEW p \in Providers, GwConnects(p) \/ GwDisconnects(p),
           Believing(gw[p].now, p)
    PROVE  Awaiting(p)'
<1>0. TypeOK /\ gw[p].now \in Fields /\ GwOK /\ p \in Peers
  BY DEF WebInv, WebTypeOK, GwOK, Peers
<1>1. CASE GwConnects(p)
  <2> DEFINE h == [gw[p].now EXCEPT !.connected = TRUE, !.current = None]
  <2>1. Changed(p, h) /\ ProviderJoin(p) /\ UNCHANGED up /\ h \in Fields
    BY <1>0, <1>1 DEF GwConnects, Fields
  <2>2. gw'[p].now = h
    BY <1>0, <2>1, ChangedFacts
  <2>3. PICK n : n = h.desired
    OBVIOUS
  <2>4. PICK names : names = h.receivers
    OBVIOUS
  <2>5. n \in Names \cup {None}
    BY <2>1, <2>3 DEF Fields
  <2>6. Waits(p, n)'
    <3>1. PICK v : v = None
      OBVIOUS
    <3>2. Reminded(p, v, n)'
      BY <1>0, <2>1, <2>5, <3>1, OwnReminded
    <3>3. view'[p].who = v
      BY <1>0, <2>1, <3>1 DEF ProviderJoin, Blank, TypeOK
    <3> QED
      BY <3>2, <3>3 DEF Waits, Awaits
  <2>7. Learns(p, names)'
    BY <1>0, <2>1, JoinLearns
  <2> HIDE DEF h
  <2> QED
    BY <2>2, <2>3, <2>4, <2>6, <2>7, AwaitingChanged
<1>2. CASE GwDisconnects(p)
  <2> DEFINE h == [gw[p].now EXCEPT !.connected = FALSE, !.session = None]
  <2>1. Changed(p, h) /\ ~ h.connected /\ h \in Fields
    BY <1>0, <1>2 DEF GwDisconnects, Fields
  <2>2. gw'[p].now = h
    BY <1>0, <2>1, ChangedFacts
  <2> HIDE DEF h
  <2> QED
    BY <2>1, <2>2 DEF Awaiting
<1> QED
  BY <1>1, <1>2

\* What pages do: a pick is asked for.
LEMMA PageAwaiting ==
    ASSUME WebInv, TypeOK', NEW b \in Browsers, PageStep(b), NEW p \in Providers, Awaiting(p)
    PROVE  Awaiting(p)'
<1>0. /\ TypeOK /\ up \in Requests /\ GwOK /\ Of[b] \in Providers /\ UNCHANGED <<link, view, receivers, target>>
      /\ gw[p].now \in Fields /\ p \in Peers
  BY GatewayAssumption, PageShown DEF WebInv, WebTypeOK, GwOK, vars, Peers
<1>1. ASSUME NEW names, Learns(p, names)
      PROVE  Learns(p, names)'
  BY <1>0, <1>1 DEF Learns
<1>2. ASSUME NEW n, Waits(p, n), NEW ms, Send(p, ms), ms = << >> \/ \E m \in Request : ms = <<m>> /\ m.type # "select"
      PROVE  Waits(p, n)'
  BY <1>0, <1>2, SilentWaits
<1>3. CASE p # Of[b]
  <2>1. PICK ms : Apart(Of[b], ms)
    BY PageApart
  <2>2. gw'[p] = gw[p]
    BY <1>0, <1>3 DEF PageStep, PageOpens, PageCloses, PageReleases, PageKey, PagePicks, GwOK
  <2>3. up'[p] = up[p]
    BY <1>0, <1>3, <2>1 DEF Apart, Send, Requests
  <2>4. \A n \in Names \cup {None} : Waits(p, n) => Waits(p, n)'
    <3>1. UNCHANGED <<link, view, receivers, target>> /\ up'[p] = up[p]
      BY <1>0, <2>3
    <3> QED
      BY <3>1 DEF Waits, Awaits, Reminded, Now
  <2> QED
    BY <1>0, <1>1, <2>2, <2>4, AwaitingStays
<1>4. CASE p = Of[b]
  <2>1. ASSUME NEW ms, Send(p, ms), ms = << >> \/ \E m \in Request : ms = <<m>> /\ m.type # "select", gw' = gw
        PROVE  Awaiting(p)'
    BY <1>0, <1>1, <1>2, <2>1, AwaitingStays
  <2>2. ASSUME NEW m \in Plain, GwSeals(p, m), gw' = gw
        PROVE  Awaiting(p)'
    <3>1. CASE ~ Secure(gw[p].now)
      BY <2>1, <2>2, <3>1 DEF GwSeals
    <3>2. CASE Secure(gw[p].now)
      <4> DEFINE k == Blob(Sealed(p, gw[p].now.session.epk, gw[p].now.session.with, m))
      <4>1. k \in Request /\ k.type # "select" /\ Send(p, <<k>>)
        <5>1. gw[p].now.session.epk \in Ephemerals /\ gw[p].now.session.with \in Receivers
          BY <1>0, <3>2 DEF Secure, Fields
        <5> QED
          BY <1>0, <2>2, <3>2, <5>1, RequestTypes DEF Blob, GwSeals
      <4> HIDE DEF k
      <4> QED
        BY <2>1, <2>2, <4>1
    <3> QED
      BY <3>1, <3>2
  <2>3. ASSUME NEW n \in Names \cup {None}, PagePicks(b, n)
        PROVE  Awaiting(p)'
    <3> DEFINE wish == IF n \in gw[p].now.receivers THEN n ELSE None
               g == gw[p].now
    <3>1. /\ wish \in Names \cup {None} /\ GwAsks(p, wish)
          /\ gw' = [gw EXCEPT ![p].now.desired = wish, ![p].now.session = None]
      BY <1>4, <2>3 DEF PagePicks, PickAsks
    <3> HIDE DEF wish
    <3>2. /\ gw'[p].now.connected = g.connected /\ gw'[p].now.receivers = g.receivers
          /\ gw'[p].now.desired = wish
      <4>1. gw' = [[gw EXCEPT ![p].now.desired = wish] EXCEPT ![p].now.session = None]
        BY <3>1
      <4> QED
        BY <1>0, <4>1 DEF GwOK, Fields
    <3>3. CASE g.connected
      <4>1. Send(p, <<SelectReq(wish)>>)
        BY <1>0, <3>1, <3>3 DEF GwAsks
      <4>2. PICK k \in Names \cup {None} : k = wish
        BY <3>1
      <4>3. Waits(p, k)'
        BY <1>0, <4>1, <4>2, AsksWaits
      <4>4. PICK names : names = g.receivers
        OBVIOUS
      <4>5. Learns(p, names)'
        BY <1>1, <3>3, <4>4 DEF Awaiting
      <4> QED
        BY <3>2, <4>2, <4>3, <4>4, <4>5, AwaitingChanged
    <3>4. CASE ~ g.connected
      BY <3>2, <3>4 DEF Awaiting
    <3> QED
      BY <3>3, <3>4
  <2>4. CASE PageOpens(b)
    <3>1. Send(p, << >>)
      BY <1>0, <2>4, SendNothing DEF PageOpens
    <3> QED
      BY <2>1, <2>4, <3>1 DEF PageOpens
  <2>5. CASE PageCloses(b)
    BY <1>4, <2>2, <2>5, RequestTypes DEF PageCloses
  <2>6. CASE PageReleases(b)
    BY <1>4, <2>2, <2>6, RequestTypes DEF PageReleases
  <2>7. ASSUME NEW c \in KeyCodes, NEW d \in BOOLEAN, PageKey(b, c, d)
        PROVE  Awaiting(p)'
    BY <1>4, <2>2, <2>7, RequestTypes DEF PageKey
  <2> QED
    BY <2>3, <2>4, <2>5, <2>6, <2>7 DEF PageStep
<1> QED
  BY <1>3, <1>4

AllAwaiting == \A p \in Providers : Awaiting(p)

\* Every step of the system keeps it, if no gateway takes another's receiver.
LEMMA AwaitingStep ==
    ASSUME WebInv, TypeOK', Scene, Attachments, AllInformed', AllPicked, AllAwaiting, Unrobbed, [WebNext]_webvars
    PROVE  AllAwaiting'
<1>0. /\ TypeOK /\ up \in Requests /\ GwOK /\ Carries(link)
      /\ \A p \in Providers : Awaiting(p) /\ p \in Peers /\ (gw[p].now.connected => Bound(p, gw[p].now.desired))
  BY DEF WebInv, WebTypeOK, GwOK, AllAwaiting, AllPicked, Picked, Scene, Peers
<1>1. ASSUME NEW x \in Peers, Serves(x) \/ (x \in Receivers /\ Receives(x)), UNCHANGED gw, NEW p \in Providers
      PROVE  Awaiting(p)'
  <2>1. PICK n : n = gw[p].now.desired
    OBVIOUS
  <2>2. PICK names : names = gw[p].now.receivers
    OBVIOUS
  <2>3. n \in Names \cup {None}
    BY <1>0, <2>1 DEF GwOK, Fields
  <2>4. CASE gw[p].now.connected
    <3>1. Waits(p, n) /\ Learns(p, names) /\ Bound(p, n)
      BY <1>0, <2>1, <2>2, <2>4 DEF Awaiting
    <3>2. Retained(p)
      BY <1>0, <1>1, ServesKeep
    <3>3. Waits(p, n)'
      <4>1. \A v : Awaits(p, v, n) => Awaits(p, v, n)'
        BY <1>0, <1>1, <2>3, <3>1, ServesAwaits, ReceivesAwaits
      <4> QED
        BY <3>1, <3>2, <4>1, WaitsOn
    <3>4. Learns(p, names)'
      BY <3>1, <3>2, RetainedLearns
    <3> QED
      BY <1>1, <2>1, <2>2, <3>3, <3>4, AwaitingChanged
  <2>5. CASE ~ gw[p].now.connected
    BY <1>1, <2>5 DEF Awaiting
  <2> QED
    BY <2>4, <2>5
<1>2. ASSUME NEW x \in Peers, ServerStep(x)
      PROVE  AllAwaiting'
  BY <1>1, <1>2 DEF ServerStep, Serves, AllAwaiting
<1>3. ASSUME NEW r \in Receivers, ReceiverStep(r)
      PROVE  AllAwaiting'
  BY <1>1, <1>3 DEF ReceiverStep, Receives, AllAwaiting, Peers
<1>4. ASSUME NEW b \in Browsers, PageStep(b)
      PROVE  AllAwaiting'
  BY <1>0, <1>4, PageAwaiting DEF AllAwaiting
<1>5. ASSUME NEW q \in Providers, GatewayStep(q)
      PROVE  AllAwaiting'
  <2>1. Awaiting(q)'
    BY <1>0, <1>5, GwConsumesAwaiting, GwNetAwaiting DEF GatewayStep, Scene
  <2>2. ASSUME NEW p \in Providers \ {q}
        PROVE  Awaiting(p)'
    <3>1. gw'[p] = gw[p] /\ Awaiting(p) /\ q \in Providers \ {p} /\ p \in Providers
      BY <1>0, <1>5, <2>2 DEF GatewayStep, GwConsumes, GwConnects, GwDisconnects, GwOnReceivers, GwOnSelected, GwOnE2E,
                        GwGivesUp, Changed, GwOK
    <3>2. up'[p] = up[p]
      <4>1. CASE GwConsumes(q, Held)
        <5>1. \E ms : Apart(q, ms)
          BY <1>0, <1>5, <4>1, GwConsumesApart DEF GatewayStep
        <5> QED
          BY <1>0, <3>1, <5>1 DEF Apart, Send, Requests
      <4>2. CASE ~ GwConsumes(q, Held)
        BY <1>5, <4>2 DEF GatewayStep, GwConnects, GwDisconnects
      <4> QED
        BY <4>1, <4>2
    <3>3. Deliver(q) \/ ProviderJoin(q) \/ UNCHANGED <<link, view, receivers, target>>
      BY <1>5 DEF GatewayStep, GwConsumes, GwConnects, GwDisconnects, vars
    <3>4. Retained(p)
      BY <1>0, <3>1, <3>3, OthersKeep
    <3>5. \A n \in Names \cup {None} : Waits(p, n) => Waits(p, n)'
      <4>1. \A n \in Names \cup {None} : \A v : Awaits(p, v, n) => Awaits(p, v, n)'
        BY <1>0, <3>1, <3>2, <3>3, ElsewhereAwaits
      <4> QED
        BY <3>1, <3>4, <4>1, WaitsOn
    <3>6. \A names : Learns(p, names) => Learns(p, names)'
      BY <3>1, <3>4, RetainedLearns
    <3> QED
      BY <1>0, <3>1, <3>5, <3>6, AwaitingStays
  <2> QED
    BY <2>1, <2>2 DEF AllAwaiting
<1>6. CASE UNCHANGED webvars
  <2>1. UNCHANGED <<link, view, receivers, target, up, gw>>
    BY <1>6 DEF webvars
  <2> QED
    BY <1>0, <2>1 DEF AllAwaiting, Awaiting, Waits, Awaits, Reminded, Learns, Now
<1> QED
  BY <1>2, <1>3, <1>4, <1>5, <1>6 DEF WebNext

\* At first no gateway is connected.
LEMMA AwaitingBegins == WebInit => AllAwaiting
<1> SUFFICES ASSUME WebInit, NEW p \in Providers
             PROVE  ~ gw[p].now.connected
  BY DEF AllAwaiting, Awaiting
<1> QED
  BY DEF WebInit, GwInit, Starting

\* When everything has arrived, nothing is waited for.
LEMMA QuietReattached ==
    ASSUME WebInv, AllPicked, AllListed, AllAwaiting
    PROVE  GatewayReattached
<1> SUFFICES ASSUME Quiet(Online), NEW p \in Providers, gw[p].now.connected, gw[p].now.desired \in gw[p].now.receivers
             PROVE  PartnerName(p) = gw[p].now.desired
  BY DEF GatewayReattached
<1>1. PICK n : n = gw[p].now.desired
  OBVIOUS
<1>2. PICK names : names = gw[p].now.receivers
  OBVIOUS
<1>3. up[p] = << >> /\ link[p].state = "open" /\ link[p].queue = << >>
  BY QuietSettles DEF Quiet, Peers, WebInv, WebTypeOK
<1>4. Waits(p, n) /\ Learns(p, names) /\ Bound(p, n)
  BY <1>1, <1>2 DEF AllAwaiting, Awaiting, AllPicked, Picked
<1>5. n \in Now
  BY <1>1, <1>2, <1>3, <1>4, QuietLearns
<1>6. NoAsk(up[p]) /\ ~ LastAsk(up[p], n)
  BY <1>3 DEF NoAsk, LastAsk
<1>7. target[p] # None
  BY <1>3, <1>4, <1>5, <1>6, QuietReminded DEF Waits, Awaits
<1>8. Name(target[p]) = n
  BY <1>3, <1>4, <1>6, <1>7 DEF Bound
<1> QED
  BY <1>1, <1>7, <1>8, PartnerNames

\* Whatever broke in between, once everything has arrived the relay has a gateway that
\* sees the receiver last picked attached to it (gateway.py, handle, which asks again
\* with every list; server.py, broadcast_receivers), unless another provider has taken
\* the receiver from a gateway: that one is told, but sent no list.
THEOREM GatewayReattaches == WebSpec /\ [][Unrobbed]_webvars => []GatewayReattached
<1>1. WebInv /\ Scene /\ AllInformed /\ [WebNext]_webvars => WebInv' /\ Scene'
  BY WebStep
<1>2. WebInv /\ Attachments /\ AllInformed /\ [WebNext]_webvars => AllInformed' /\ Attachments'
  BY WebHubStep, InformedStep, AttachmentsStep DEF WebInv, WebTypeOK
<1>3. WebInv /\ AllListed /\ [WebNext]_webvars => AllListed'
  BY WebHubStep, ListedStep DEF WebInv, WebTypeOK
<1>4. WebInv /\ Scene /\ Attachments /\ AllPicked /\ [WebNext]_webvars => AllPicked'
  BY PickedStep
<1>5. WebInv /\ WebInv' /\ Scene /\ Attachments /\ AllInformed' /\ AllPicked /\ AllAwaiting
      /\ [WebNext]_webvars /\ [Unrobbed]_webvars => AllAwaiting'
  <2>1. CASE Unrobbed
    BY <2>1, AwaitingStep DEF WebInv, WebTypeOK
  <2>2. CASE UNCHANGED webvars
    <3>1. UNCHANGED <<link, view, receivers, target, up, gw>>
      BY <2>2 DEF webvars
    <3> QED
      BY <3>1 DEF AllAwaiting, Awaiting, Waits, Awaits, Reminded, Learns, Now
  <2> QED
    BY <2>1, <2>2
<1>6. WebInv /\ AllPicked /\ AllListed /\ AllAwaiting => GatewayReattached
  BY QuietReattached
<1>7. WebInit => AllPicked /\ AllListed /\ AllAwaiting
  <2>1. WebInit => AllListed
    BY DEF WebInit, Init, AllListed, Listed, NoLink, Peers
  <2> QED
    BY <2>1, PickedBegins, AwaitingBegins
<1> QED
  BY <1>1, <1>2, <1>3, <1>4, <1>5, <1>6, <1>7, WebBegins, PTL DEF WebSpec

\* A single gateway is attached again whatever other clients do.
THEOREM SingleGatewayReattaches ==
    ASSUME \A p, q \in Providers : p = q
    PROVE  WebSpec => []GatewayReattached
<1>1. WebInv /\ WebInv' /\ Attachments' /\ [WebNext]_webvars => [Unrobbed]_webvars
  BY AloneUnrobbed DEF WebInv, WebTypeOK
<1>2. WebInv /\ Scene /\ AllInformed /\ [WebNext]_webvars => WebInv' /\ Scene'
  BY WebStep
<1>3. WebInv /\ Attachments /\ AllInformed /\ [WebNext]_webvars => AllInformed' /\ Attachments'
  BY WebHubStep, InformedStep, AttachmentsStep DEF WebInv, WebTypeOK
<1> QED
  BY <1>1, <1>2, <1>3, WebBegins, GatewayReattaches, PTL DEF WebSpec
=============================================================================
