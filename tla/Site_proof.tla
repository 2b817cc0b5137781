------------------------------ MODULE Site_proof ------------------------------
(***************************************************************************)
(* Proofs about Site, for any number of users, browsers, tabs and articles *)
(* behaviours of any length: who an article is changed for, and whose name *)
(* is on a chat message.                                                   *)
(***************************************************************************)
EXTENDS Site, TLAPS

Someone == Users \cup {None}
RoleSet == SUBSET {"user", "admin"}

PageType == [user : Someone, roles : RoleSet, view : Views, previous : Views,
             astray : BOOLEAN]

CallType == [pc : {"none", "sent", "received", "save", "answered"},
             kind : {"none", "post", "put", "delete", "accounts", "signin", "read"},
             user : Someone, roles : RoleSet, article : Articles \cup Someone,
             content : Nat, status : Nat, dropped : BOOLEAN]

Message == [number : Nat, username : Someone, sender : Someone, astray : BOOLEAN]

SocketType == [pc : {"none", "connecting", "open", "refused"}, user : Someone,
               up : Seq(Message), down : Seq(Message), shown : Seq(Nat \ {0})]

ArticleType == [author : Someone, content : Nat, there : BOOLEAN]

RolesType    == /\ DOMAIN roles \subseteq Users
                /\ roles \in [DOMAIN roles -> RoleSet]
CallsType    == /\ call \in [Tabs -> CallType]
                /\ \A t \in Tabs : call[t].kind = "signin" => call[t].article \in Users
ArticlesType == articles \in [DOMAIN articles -> ArticleType]

(* Type correctness.                                                       *)
TypeInv ==
  /\ RolesType
  /\ session \in [Browsers -> Someone]
  /\ page \in [Tabs -> PageType]
  /\ CallsType
  /\ ArticlesType
  /\ socket \in [Tabs -> SocketType]
  /\ steps \in Nat

-----------------------------------------------------------------------------
(***************************************************************************)
(* Facts about the operators                                               *)
(***************************************************************************)

LEMMA SignedInType ==
  ASSUME TypeInv, NEW t \in Tabs
  PROVE  /\ SignedIn(t) \in Someone
         /\ SignedIn(t) # None => /\ SignedIn(t) = session[BrowserOf[t]]
                                  /\ SignedIn(t) \in DOMAIN roles
  BY SiteAssumption DEF TypeInv, RolesType, SignedIn, SessionOf, Someone

LEMMA RolesOfType ==
  ASSUME TypeInv, NEW u
  PROVE  RolesOf(u) \in RoleSet
  BY DEF TypeInv, RolesType, RolesOf, RoleSet

LEMMA StatusType ==
  ASSUME TypeInv, NEW t \in Tabs, NEW u \in Someone
  PROVE  /\ Status(t, u) \in Message /\ Status(t, u).number = 0
         /\ Status(t, u).username = u /\ Status(t, u).sender = page[t].user
         /\ Status(t, u).astray = page[t].astray
<1>1. page[t].user \in Someone /\ page[t].astray \in BOOLEAN
  BY DEF TypeInv, PageType
<1> QED BY <1>1 DEF Status, Message

LEMMA ConnectType ==
  ASSUME NEW u \in Someone
  PROVE  /\ Connect(u) \in SocketType
         /\ NoSocket \in SocketType /\ Connecting \in SocketType
         /\ Connect(u).up = <<>> /\ Connect(u).down = <<>> /\ Connect(u).shown = <<>>
         /\ Connect(u).pc # "open"
         /\ u = None => Connect(u) = NoSocket
<1>1. <<>> \in Seq(Message) /\ <<>> \in Seq(Nat \ {0})
  OBVIOUS
<1>2. NoSocket \in SocketType
  BY <1>1 DEF NoSocket, SocketType, Someone
<1>3. /\ Connecting = [pc |-> "connecting", user |-> None, up |-> <<>>, down |-> <<>>,
                       shown |-> <<>>]
      /\ NoSocket.up = <<>> /\ NoSocket.down = <<>> /\ NoSocket.shown = <<>>
      /\ NoSocket.pc = "none"
  BY DEF Connecting, NoSocket
<1>4. Connecting \in SocketType
  BY <1>1, <1>3 DEF SocketType, Someone
<1> QED BY <1>2, <1>3, <1>4 DEF Connect

(* io.emit only adds the message to what is on its way down.               *)
LEMMA EmitFacts ==
  ASSUME NEW sockets \in [Tabs -> SocketType], NEW from, NEW m \in Message
  PROVE  /\ Emit(sockets, from, m) \in [Tabs -> SocketType]
         /\ \A t \in Tabs :
              /\ Emit(sockets, from, m)[t].pc = sockets[t].pc
              /\ Emit(sockets, from, m)[t].user = sockets[t].user
              /\ Emit(sockets, from, m)[t].up = sockets[t].up
              /\ Emit(sockets, from, m)[t].shown = sockets[t].shown
              /\ \/ Emit(sockets, from, m)[t].down = sockets[t].down
                 \/ Emit(sockets, from, m)[t].down = Append(sockets[t].down, m)
              /\ sockets[t].pc # "open" => Emit(sockets, from, m)[t] = sockets[t]
<1>1. ASSUME NEW t \in Tabs
      PROVE  [sockets[t] EXCEPT !.down = Append(@, m)] \in SocketType
  <2>1. sockets[t] \in SocketType
    OBVIOUS
  <2>2. Append(sockets[t].down, m) \in Seq(Message)
    BY <2>1 DEF SocketType
  <2> QED BY <2>1, <2>2 DEF SocketType
<1>2. Emit(sockets, from, m) \in [Tabs -> SocketType]
  BY <1>1 DEF Emit
<1>3. ASSUME NEW t \in Tabs
      PROVE  sockets[t] \in SocketType
  OBVIOUS
<1> QED BY <1>2, <1>3 DEF Emit, SocketType

(* A socket that goes is replaced, and the others hear of it.              *)
LEMMA DisconnectFacts ==
  ASSUME TypeInv, NEW sockets \in [Tabs -> SocketType], NEW t \in Tabs,
         NEW next \in SocketType, next.pc # "open"
  PROVE  /\ Disconnect(sockets, t, next) \in [Tabs -> SocketType]
         /\ Disconnect(sockets, t, next)[t] = next
         /\ \A c \in Tabs \ {t} :
              /\ Disconnect(sockets, t, next)[c].pc = sockets[c].pc
              /\ Disconnect(sockets, t, next)[c].user = sockets[c].user
              /\ Disconnect(sockets, t, next)[c].up = sockets[c].up
              /\ Disconnect(sockets, t, next)[c].shown = sockets[c].shown
              /\ \/ Disconnect(sockets, t, next)[c].down = sockets[c].down
                 \/ /\ sockets[t].pc = "open"
                    /\ Disconnect(sockets, t, next)[c].down =
                         Append(sockets[c].down, Status(t, sockets[t].user))
              /\ sockets[c].pc # "open" => Disconnect(sockets, t, next)[c] = sockets[c]
<1> DEFINE left == [sockets EXCEPT ![t] = next]
           bye  == Status(t, sockets[t].user)
<1>1. left \in [Tabs -> SocketType] /\ left[t] = next
      /\ \A c \in Tabs \ {t} : left[c] = sockets[c]
  OBVIOUS
<1>2. bye \in Message
  <2>1. sockets[t] \in SocketType
    OBVIOUS
  <2> QED BY <2>1, StatusType DEF SocketType
<1> HIDE DEF left, bye
<1>3. /\ Emit(left, t, bye) \in [Tabs -> SocketType]
      /\ \A c \in Tabs :
           /\ Emit(left, t, bye)[c].pc = left[c].pc
           /\ Emit(left, t, bye)[c].user = left[c].user
           /\ Emit(left, t, bye)[c].up = left[c].up
           /\ Emit(left, t, bye)[c].shown = left[c].shown
           /\ \/ Emit(left, t, bye)[c].down = left[c].down
              \/ Emit(left, t, bye)[c].down = Append(left[c].down, bye)
           /\ left[c].pc # "open" => Emit(left, t, bye)[c] = left[c]
  BY <1>1, <1>2, EmitFacts
<1>4. Disconnect(sockets, t, next) = IF sockets[t].pc = "open" THEN Emit(left, t, bye) ELSE left
  BY DEF Disconnect, left, bye
<1> QED BY <1>1, <1>3, <1>4 DEF bye

(* A view that is shown.                                                   *)
LEMMA ShowFacts ==
  ASSUME TypeInv, NEW t \in Tabs, NEW p \in PageType, NEW view \in Views,
         Show(t, p, view)
  PROVE  /\ page' \in [Tabs -> PageType] /\ socket' \in [Tabs -> SocketType]
         /\ page'[t].user = p.user /\ page'[t].astray = p.astray
         /\ \A c \in Tabs \ {t} : page'[c] = page[c] /\ socket'[c] = socket[c]
         /\ \/ socket[t].pc = "none" /\ socket'[t] = Connect(p.user)
            \/ /\ socket'[t].pc = socket[t].pc /\ socket'[t].user = socket[t].user
               /\ socket'[t].up = socket[t].up /\ socket'[t].down = socket[t].down
               /\ socket'[t].shown \in {socket[t].shown, <<>>}
               /\ socket[t] = NoSocket => socket'[t] = NoSocket
<1> DEFINE q == [p EXCEPT !.view = view,
                          !.previous = IF p.view \in {view, "forbidden"} THEN @ ELSE p.view]
<1>1. q \in PageType /\ q.user = p.user /\ q.astray = p.astray
  BY DEF PageType
<1>2. page \in [Tabs -> PageType] /\ socket \in [Tabs -> SocketType]
  BY DEF TypeInv
<1>3. page' = [page EXCEPT ![t] = q] /\ socket' = [socket EXCEPT ![t] = ChatController(t, p, view)]
  BY DEF Show
<1>4. ChatController(t, p, view) \in SocketType
      /\ \/ socket[t].pc = "none" /\ ChatController(t, p, view) = Connect(p.user)
         \/ ChatController(t, p, view) = socket[t]
         \/ ChatController(t, p, view) = [socket[t] EXCEPT !.shown = <<>>]
  <2>1. Connect(p.user) \in SocketType
    BY ConnectType DEF PageType
  <2>2. socket[t] \in SocketType /\ <<>> \in Seq(Nat \ {0})
    BY <1>2
  <2>3. [socket[t] EXCEPT !.shown = <<>>] \in SocketType
    BY <2>2 DEF SocketType
  <2> QED BY <2>1, <2>2, <2>3 DEF ChatController
<1>5. /\ [socket[t] EXCEPT !.shown = <<>>].pc = socket[t].pc
      /\ [socket[t] EXCEPT !.shown = <<>>].user = socket[t].user
      /\ [socket[t] EXCEPT !.shown = <<>>].up = socket[t].up
      /\ [socket[t] EXCEPT !.shown = <<>>].down = socket[t].down
      /\ [socket[t] EXCEPT !.shown = <<>>].shown = <<>>
      /\ socket[t] = NoSocket => [socket[t] EXCEPT !.shown = <<>>] = NoSocket
  BY <1>2 DEF SocketType, NoSocket
<1> HIDE DEF q
<1> QED BY <1>1, <1>2, <1>3, <1>4, <1>5

(* What becomes of the session is all that changes, and the pages of other *)
(* users come astray.                                                      *)
LEMMA BecomeFacts ==
  ASSUME TypeInv, NEW browser \in Browsers, NEW u \in Someone, Become(browser, u)
  PROVE  /\ session' \in [Browsers -> Someone] /\ page' \in [Tabs -> PageType]
         /\ \A c \in Tabs :
              /\ page'[c].user = page[c].user
              /\ page'[c].astray = page[c].astray \/ page'[c].astray = TRUE
              /\ page'[c].astray = FALSE /\ page[c].user # None =>
                   session'[BrowserOf[c]] \in {None, session[BrowserOf[c]], page[c].user}
<1>1. /\ session \in [Browsers -> Someone] /\ page \in [Tabs -> PageType]
      /\ BrowserOf \in [Tabs -> Browsers]
  BY SiteAssumption DEF TypeInv
<1>2. session' = [session EXCEPT ![browser] = u]
  BY DEF Become
<1>3. ASSUME NEW c \in Tabs
      PROVE  /\ page'[c] \in PageType /\ page'[c].user = page[c].user
             /\ \/ /\ page'[c].astray = TRUE
                \/ /\ page'[c].astray = page[c].astray
                   /\ BrowserOf[c] = browser => u = None \/ page[c].user \in {None, u}
  <2> DEFINE lost == [page[c] EXCEPT !.astray = TRUE]
  <2>1. page[c] \in PageType
    BY <1>1
  <2>2. lost \in PageType /\ lost.user = page[c].user
    BY <2>1 DEF PageType
  <2>3. lost.astray = TRUE
    BY <2>1, Zenon DEF PageType
  <2>4. \/ page'[c] = lost
        \/ /\ page'[c] = page[c]
           /\ BrowserOf[c] = browser => u = None \/ page[c].user \in {None, u}
    BY DEF Become
  <2> HIDE DEF lost
  <2> QED BY <2>1, <2>2, <2>3, <2>4
<1>4. page' \in [Tabs -> PageType]
  <2>1. page' = [c \in Tabs |-> page'[c]]
    BY DEF Become
  <2> QED BY <1>3, <2>1
<1>5. session' \in [Browsers -> Someone]
  BY <1>1, <1>2
<1>6. ASSUME NEW c \in Tabs
      PROVE  /\ page'[c].astray = page[c].astray \/ page'[c].astray = TRUE
             /\ page'[c].astray = FALSE /\ page[c].user # None =>
                  session'[BrowserOf[c]] \in {None, session[BrowserOf[c]], page[c].user}
  <2>1. BrowserOf[c] \in Browsers
    BY <1>1
  <2>2. session'[BrowserOf[c]] = IF BrowserOf[c] = browser THEN u ELSE session[BrowserOf[c]]
    BY <1>1, <1>2, <2>1
  <2> QED BY <1>3, <2>2
<1> QED BY <1>3, <1>4, <1>5, <1>6

(* The end of a request changes nothing else about the call.               *)
LEMMA RespondFacts ==
  ASSUME TypeInv, NEW t \in Tabs, NEW status \in Nat, NEW user \in Someone,
         NEW held \in RoleSet, Respond(t, status, user, held)
  PROVE  /\ CallsType'
         /\ \A c \in Tabs \ {t} : call'[c] = call[c]
         /\ call'[t].pc = "answered"
         /\ Become(BrowserOf[t], user) /\ BrowserOf[t] \in Browsers
<1> DEFINE ended == [call[t] EXCEPT !.pc = "answered", !.status = status, !.user = user,
                                    !.roles = held]
<1>1. call \in [Tabs -> CallType] /\ call[t] \in CallType
  BY DEF TypeInv, CallsType
<1>2. call' = [call EXCEPT ![t] = ended]
  BY <1>1 DEF Respond, CallType
<1>3. /\ ended \in CallType /\ ended.pc = "answered" /\ ended.kind = call[t].kind
      /\ ended.article = call[t].article
  BY <1>1 DEF CallType
<1> HIDE DEF ended
<1>4. /\ call' \in [Tabs -> CallType] /\ call'[t] = ended
      /\ \A c \in Tabs \ {t} : call'[c] = call[c]
  BY <1>1, <1>2, <1>3
<1>5. CallsType'
  BY <1>3, <1>4 DEF TypeInv, CallsType
<1> QED BY <1>3, <1>4, <1>5, SiteAssumption DEF Respond

(* The steps that end a request, and the one that lets it be saved.        *)
Ends(t) ==
  \/ \E u \in DOMAIN roles : Respond(t, 200, u, roles[u])
  \/ \E status \in {200, 400, 401, 403, 404} : Reply(t, status)

Passes(t) ==
  /\ call[t].kind = "post" \/ call[t].article \in {a \in DOMAIN articles : articles[a].there}
  /\ IsAllowed(call[t].user, call[t].roles, call[t].kind, call[t].article)
  /\ call' = [call EXCEPT ![t].pc = "save"] /\ UNCHANGED <<session, page>>

LEMMA ServeEnds ==
  ASSUME NEW t \in Tabs
  PROVE  /\ Signin(t) \/ Read(t) \/ RemoveProvider(t) \/ Save(t) \/ SaveFails(t) => Ends(t)
         /\ Load(t) => Ends(t) \/ Passes(t)
  BY DEF Ends, Passes, Signin, Read, RemoveProvider, Save, SaveFails, Load

LEMMA EndsFacts ==
  ASSUME TypeInv, NEW t \in Tabs, Ends(t)
  PROVE  /\ CallsType'
         /\ \A c \in Tabs \ {t} : call'[c] = call[c]
         /\ call'[t].pc = "answered"
         /\ \E user \in Someone : Become(BrowserOf[t], user)
         /\ BrowserOf[t] \in Browsers
<1>1. call[t].user \in Someone /\ call[t].roles \in RoleSet
  BY DEF TypeInv, CallsType, CallType
<1>2. PICK status \in {200, 400, 401, 403, 404}, user \in Someone, held \in RoleSet :
        Respond(t, status, user, held)
  <2>1. CASE \E status \in {200, 400, 401, 403, 404} : Reply(t, status)
    BY <1>1, <2>1 DEF Reply
  <2>2. CASE \E u \in DOMAIN roles : Respond(t, 200, u, roles[u])
    <3>1. PICK u \in DOMAIN roles : Respond(t, 200, u, roles[u])
      BY <2>2
    <3>2. u \in Someone /\ roles[u] \in RoleSet
      BY DEF TypeInv, RolesType, Someone
    <3> QED BY <3>1, <3>2
  <2> QED BY <2>1, <2>2 DEF Ends
<1> QED BY <1>2, RespondFacts

(* A request is sent.                                                      *)
LEMMA SendFacts ==
  ASSUME TypeInv, NEW t \in Tabs,
         NEW kind \in {"post", "put", "delete", "accounts", "signin", "read"},
         NEW article \in Articles \cup Someone,
         kind = "signin" => article \in Users,
         Send(t, kind, article)
  PROVE  /\ CallsType' /\ steps' \in Nat
         /\ \A c \in Tabs \ {t} : call'[c] = call[c]
         /\ call'[t].pc = "sent"
         /\ UNCHANGED <<roles, session, page, articles, socket>>
<1> DEFINE c1 == [NoCall EXCEPT !.pc = "sent", !.kind = kind, !.article = article,
                                !.content = steps']
<1>1. steps' \in Nat
  BY DEF TypeInv, Send, Step
<1>2. c1 \in CallType /\ c1.pc = "sent" /\ c1.kind = kind /\ c1.article = article
  BY <1>1 DEF NoCall, CallType, RoleSet, Someone
<1>3. call' = [call EXCEPT ![t] = c1]
  BY DEF Send
<1>4. call \in [Tabs -> CallType]
  BY DEF TypeInv, CallsType
<1> HIDE DEF c1
<1> QED BY <1>1, <1>2, <1>3, <1>4 DEF Send, TypeInv, CallsType

(* A page that a browser opens anew.                                       *)
LEMMA LeaveFacts ==
  ASSUME TypeInv, NEW t \in Tabs, NEW u \in Someone, Leave(t, u)
  PROVE  /\ page' \in [Tabs -> PageType] /\ CallsType'
         /\ socket' \in [Tabs -> SocketType]
         /\ \A c \in Tabs \ {t} : page'[c] = page[c] /\ call'[c] = call[c]
         /\ page'[t].user = u
         /\ \A c \in Tabs : /\ call'[c].pc = call[c].pc /\ call'[c].kind = call[c].kind
                                /\ call'[c].article = call[c].article
                                /\ call'[c].user = call[c].user
                                /\ call'[c].roles = call[c].roles
         /\ call'[t].dropped
         /\ socket' = Disconnect(socket, t, Connect(u))
<1>1. NewPage(u) \in PageType /\ NewPage(u).user = u
  BY RolesOfType DEF NewPage, PageType, Views, CoreViews
<1>2. page' \in [Tabs -> PageType] /\ page'[t].user = u
      /\ \A c \in Tabs \ {t} : page'[c] = page[c]
  BY <1>1 DEF Leave, TypeInv
<1>3. call \in [Tabs -> CallType]
  BY DEF TypeInv, CallsType
<1> DEFINE gone == [call[t] EXCEPT !.dropped = TRUE]
<1>4. /\ call' \in [Tabs -> CallType]
      /\ \A c \in Tabs \ {t} : call'[c] = call[c]
      /\ call'[t] = gone
  BY <1>3 DEF Leave, CallType
<1>11. /\ gone.pc = call[t].pc /\ gone.kind = call[t].kind /\ gone.article = call[t].article
       /\ gone.user = call[t].user /\ gone.roles = call[t].roles /\ gone.dropped = TRUE
  <2>1. call[t] \in CallType
    BY <1>3
  <2>2. gone.dropped = TRUE
    BY <2>1, Zenon DEF CallType
  <2>3. /\ gone.pc = call[t].pc /\ gone.kind = call[t].kind
        /\ gone.article = call[t].article
        /\ gone.user = call[t].user /\ gone.roles = call[t].roles
    BY <2>1 DEF CallType
  <2> QED BY <2>2, <2>3
<1> HIDE DEF gone
<1>5. \A c \in Tabs : /\ call'[c].pc = call[c].pc /\ call'[c].kind = call[c].kind
                          /\ call'[c].article = call[c].article
                          /\ call'[c].user = call[c].user
                          /\ call'[c].roles = call[c].roles
  BY <1>4, <1>11
<1>6. call'[t].dropped
  BY <1>4, <1>11
<1>7. CallsType'
  BY <1>4, <1>5 DEF TypeInv, CallsType
<1>8. socket' = Disconnect(socket, t, Connect(u))
  BY DEF Leave
<1>9. Connect(u) \in SocketType /\ Connect(u).pc # "open" /\ socket \in [Tabs -> SocketType]
  BY ConnectType DEF TypeInv
<1>10. socket' \in [Tabs -> SocketType]
  BY <1>8, <1>9, DisconnectFacts
<1> QED BY <1>2, <1>4, <1>5, <1>6, <1>7, <1>8, <1>10

-----------------------------------------------------------------------------
(***************************************************************************)
(* Type correctness                                                        *)
(***************************************************************************)

LEMMA InitType == Init => TypeInv
<1> SUFFICES ASSUME Init PROVE TypeInv
  OBVIOUS
<1>1. RolesType
  BY SiteAssumption DEF Init, RolesType, RoleSet
<1>2. session \in [Browsers -> Someone]
  BY SiteAssumption DEF Init, Someone
<1>3. ASSUME NEW u \in Someone PROVE NewPage(u) \in PageType
  <2>1. RolesOf(u) \in RoleSet
    BY <1>1 DEF RolesOf, RolesType, RoleSet
  <2> QED BY <2>1 DEF NewPage, PageType, Views, CoreViews
<1>0. ASSUME NEW t \in Tabs PROVE session[BrowserOf[t]] \in Someone
  BY <1>2, SiteAssumption
<1>4. page \in [Tabs -> PageType]
  BY <1>0, <1>3 DEF Init, SessionOf
<1>5. CallsType
  <2>1. NoCall \in CallType /\ NoCall.kind = "none"
    BY DEF NoCall, CallType, RoleSet, Someone
  <2> QED BY <2>1 DEF Init, CallsType
<1>6. ArticlesType
  BY SiteAssumption DEF Init, ArticlesType, ArticleType, NewArticle, Someone
<1>7. socket \in [Tabs -> SocketType]
  BY <1>0, ConnectType DEF Init, SessionOf
<1> QED BY <1>1, <1>2, <1>4, <1>5, <1>6, <1>7 DEF Init, TypeInv

(* The chat's actions leave everything but the sockets alone.              *)
LEMMA ChatType ==
  ASSUME TypeInv, NEW t \in Tabs,
         Handshake(t) \/ Drop(t) \/ SendMessage(t) \/ Relay(t) \/ Hear(t)
  PROVE  TypeInv'
<1>1. socket \in [Tabs -> SocketType] /\ socket[t] \in SocketType
      /\ page \in [Tabs -> PageType] /\ page[t] \in PageType
  BY DEF TypeInv
<1>2. SUFFICES socket' \in [Tabs -> SocketType] /\ steps' \in Nat
      /\ UNCHANGED <<roles, session, page, call, articles>>
  BY DEF TypeInv, RolesType, CallsType, ArticlesType
<1>3. UNCHANGED <<roles, session, page, call, articles>>
  BY DEF Handshake, Drop, SendMessage, Relay, Hear
<1>4. steps' \in Nat
  BY DEF Handshake, Drop, SendMessage, Relay, Hear, Step, TypeInv
<1>5. CASE Handshake(t)
  <2> DEFINE u == SignedIn(t)
             open == [socket EXCEPT ![t].pc = "open", ![t].user = u]
             refused == [socket EXCEPT ![t].pc = "refused", ![t].up = <<>>]
  <2>1. u \in Someone
    BY SignedInType
  <2>2. open \in [Tabs -> SocketType]
    BY <1>1, <2>1 DEF SocketType
  <2>3. <<>> \in Seq(Message)
    OBVIOUS
  <2>4. refused \in [Tabs -> SocketType]
    BY <1>1, <2>3 DEF SocketType
  <2>5. Status(t, u) \in Message
    BY <2>1, StatusType
  <2>6. socket' = refused \/ socket' = Emit(open, t, Status(t, u))
    BY <1>5 DEF Handshake
  <2> HIDE DEF open, refused, u
  <2>7. Emit(open, t, Status(t, u)) \in [Tabs -> SocketType]
    BY <2>2, <2>5, EmitFacts
  <2> QED BY <2>4, <2>6, <2>7, <1>3, <1>4
<1>6. CASE Drop(t)
  <2> DEFINE next == [Connecting EXCEPT !.shown = socket[t].shown]
  <2>1. next \in SocketType /\ next.pc # "open"
    <3>1. Connecting \in SocketType /\ Connecting.pc = "connecting" /\ None \in Someone
      BY ConnectType DEF Connecting, NoSocket, Someone
    <3> QED BY <3>1, <1>1 DEF SocketType
  <2>2. socket' = Disconnect(socket, t, next)
    BY <1>6 DEF Drop
  <2> HIDE DEF next
  <2>3. Disconnect(socket, t, next) \in [Tabs -> SocketType]
    BY <1>1, <2>1, DisconnectFacts
  <2> QED BY <2>2, <2>3, <1>3, <1>4
<1>7. CASE SendMessage(t)
  <2> DEFINE m == [number |-> steps', username |-> None, sender |-> page[t].user,
                   astray |-> FALSE]
  <2>1. m \in Message
    BY <1>1, <1>4 DEF Message, PageType, Someone
  <2>2. socket' = [socket EXCEPT ![t].up = Append(@, m)]
    BY <1>7 DEF SendMessage
  <2> HIDE DEF m
  <2>3. Append(socket[t].up, m) \in Seq(Message)
    BY <1>1, <2>1 DEF SocketType
  <2> QED BY <1>1, <2>2, <2>3, <1>3, <1>4 DEF SocketType
<1>8. CASE Relay(t)
  <2> DEFINE m == [Head(socket[t].up) EXCEPT !.username = socket[t].user,
                                             !.astray = page[t].astray]
             read == [socket EXCEPT ![t].up = Tail(@)]
  <2>1. Head(socket[t].up) \in Message /\ Tail(socket[t].up) \in Seq(Message)
    BY <1>1, <1>8 DEF Relay, SocketType
  <2>2. m \in Message
    BY <1>1, <2>1 DEF Message, SocketType, PageType
  <2>3. read \in [Tabs -> SocketType]
    BY <1>1, <2>1 DEF SocketType
  <2>4. socket' = Emit(read, t, m)
    BY <1>8 DEF Relay
  <2> HIDE DEF m, read
  <2>5. Emit(read, t, m) \in [Tabs -> SocketType]
    BY <2>2, <2>3, EmitFacts
  <2> QED BY <2>4, <2>5, <1>3, <1>4
<1>9. CASE Hear(t)
  <2> DEFINE m == Head(socket[t].down)
             heard == IF page[t].view = "chat" /\ m.number # 0
                        THEN Append(socket[t].shown, m.number) ELSE socket[t].shown
  <2>1. m \in Message /\ Tail(socket[t].down) \in Seq(Message)
    BY <1>1, <1>9 DEF Hear, SocketType
  <2>2. heard \in Seq(Nat \ {0})
    BY <1>1, <2>1 DEF Message, SocketType
  <2>3. socket' = [socket EXCEPT ![t] = [socket[t] EXCEPT !.down = Tail(@), !.shown = heard]]
    BY <1>1, <1>9 DEF Hear, SocketType
  <2> HIDE DEF m, heard
  <2> QED BY <1>1, <2>1, <2>2, <2>3, <1>3, <1>4 DEF SocketType
<1> QED BY <1>5, <1>6, <1>7, <1>8, <1>9

(* What a page does to show another view, and what a browser does to open  *)
(* another page.                                                           *)
LEMMA PageStepType ==
  ASSUME TypeInv, NEW t \in Tabs,
         LoadPage(t) \/ Signout(t) \/ \E view \in Visited : Go(t, view)
  PROVE  TypeInv'
<1>1. steps' \in Nat /\ UNCHANGED <<roles, articles>>
  BY DEF LoadPage, Signout, Go, Step, TypeInv
<1>2. session' \in [Browsers -> Someone]
  BY DEF LoadPage, Signout, Go, TypeInv, Someone
<1>3. page' \in [Tabs -> PageType] /\ CallsType' /\ socket' \in [Tabs -> SocketType]
  <2>1. CASE LoadPage(t)
    BY <2>1, SignedInType, LeaveFacts DEF LoadPage
  <2>2. CASE Signout(t)
    BY <2>2, LeaveFacts DEF Signout, Someone
  <2>3. ASSUME NEW view \in Visited, Go(t, view)
        PROVE  /\ page' \in [Tabs -> PageType] /\ CallsType'
               /\ socket' \in [Tabs -> SocketType]
    <3>1. "forbidden" \in Views /\ view \in Views
      BY VisitedAssumption DEF Views, CoreViews
    <3>2. page[t] \in PageType
      BY DEF TypeInv
    <3>3. PICK w \in Views : Show(t, page[t], w)
      BY <2>3, <3>1 DEF Go
    <3>4. CallsType'
      BY <2>3 DEF Go, TypeInv, CallsType
    <3> QED BY <3>2, <3>3, <3>4, ShowFacts
  <2> QED BY <2>1, <2>2, <2>3
<1> QED BY <1>1, <1>2, <1>3 DEF TypeInv, RolesType, ArticlesType

(* A page sends a request.                                                 *)
LEMMA SendStep ==
  ASSUME TypeInv, NEW t \in Tabs,
         SendArticle(t) \/ SendRead(t) \/ SendRemoveProvider(t) \/ SendSignin(t)
  PROVE  /\ CallsType' /\ steps' \in Nat
         /\ \A c \in Tabs \ {t} : call'[c] = call[c]
         /\ call'[t].pc = "sent"
         /\ UNCHANGED <<roles, session, page, articles, socket>>
<1>1. PICK kind \in {"post", "put", "delete", "accounts", "signin", "read"},
           article \in Articles \cup Someone :
        (kind = "signin" => article \in Users) /\ Send(t, kind, article)
  BY DEF SendArticle, SendRead, SendRemoveProvider, SendSignin, TypeInv, RolesType, Someone
<1> QED BY <1>1, SendFacts

(* The steps of the server on a request.                                   *)
LEMMA ServeType ==
  ASSUME TypeInv, NEW t \in Tabs,
         \/ Signin(t) \/ Read(t) \/ RemoveProvider(t) \/ Receive(t)
         \/ Load(t) \/ Save(t) \/ SaveFails(t)
  PROVE  TypeInv'
<1>1. UNCHANGED <<roles, socket, steps>>
  BY DEF Signin, Read, RemoveProvider, Receive, Load, Save, SaveFails
<1>2. call \in [Tabs -> CallType] /\ call[t] \in CallType
  BY DEF TypeInv, CallsType
<1>3. ArticlesType'
  <2>1. CASE Save(t)
    <3>1. CASE call[t].kind = "post"
      <4>1. PICK a \in Articles \ DOMAIN articles :
              articles' = [x \in DOMAIN articles \cup {a} |->
                 IF x = a THEN NewArticle(call[t].user, call[t].content) ELSE articles[x]]
        BY <2>1, <3>1 DEF Save
      <4>2. NewArticle(call[t].user, call[t].content) \in ArticleType
        BY <1>2 DEF NewArticle, CallType, ArticleType
      <4> QED BY <4>1, <4>2 DEF TypeInv, ArticlesType
    <3>2. CASE call[t].kind \in {"put", "delete"}
      <4> DEFINE a == call[t].article
      <4>1. \/ articles' = articles
            \/ articles' = [articles EXCEPT ![a].content = call[t].content]
            \/ articles' = [articles EXCEPT ![a].there = FALSE]
        BY <2>1, <3>2 DEF Save
      <4>2. call[t].content \in Nat
        BY <1>2 DEF CallType
      <4> HIDE DEF a
      <4>3. articles \in [DOMAIN articles -> ArticleType]
        BY DEF TypeInv, ArticlesType
      <4>4. articles' \in [DOMAIN articles -> ArticleType]
        BY <4>1, <4>2, <4>3 DEF ArticleType
      <4> QED BY <4>4 DEF ArticlesType
    <3> QED BY <2>1, <3>1, <3>2 DEF Save
  <2>2. CASE UNCHANGED articles
    BY <2>2 DEF TypeInv, ArticlesType
  <2> QED BY <2>1, <2>2 DEF Signin, Read, RemoveProvider, Receive, Load, SaveFails
<1>4. /\ CallsType' /\ page' \in [Tabs -> PageType] /\ session' \in [Browsers -> Someone]
  <2>1. CASE Ends(t)
    BY <2>1, EndsFacts, BecomeFacts
  <2>2. CASE UNCHANGED <<session, page>> /\ Receive(t)
    <3>1. SignedIn(t) \in Someone /\ RolesOf(SignedIn(t)) \in RoleSet
      BY SignedInType, RolesOfType
    <3>2. call' \in [Tabs -> CallType]
      BY <1>2, <2>2, <3>1 DEF Receive, CallType
    <3>3. \A c \in Tabs : call'[c].kind = call[c].kind /\ call'[c].article = call[c].article
      BY <1>2, <2>2 DEF Receive, CallType
    <3> QED BY <2>2, <3>2, <3>3 DEF TypeInv, CallsType
  <2>3. CASE UNCHANGED <<session, page>> /\ call' = [call EXCEPT ![t].pc = "save"]
    <3>1. call' \in [Tabs -> CallType]
      BY <1>2, <2>3 DEF CallType
    <3>2. \A c \in Tabs : call'[c].kind = call[c].kind /\ call'[c].article = call[c].article
      BY <1>2, <2>3 DEF CallType
    <3> QED BY <2>3, <3>1, <3>2 DEF TypeInv, CallsType
  <2> QED BY <2>1, <2>2, <2>3, ServeEnds DEF Receive, Passes
<1> QED BY <1>1, <1>3, <1>4 DEF TypeInv, RolesType

(* What an answer may make of the page that waits for it: one that is      *)
(* astray, the same one, or one that knows the user of the session.        *)
Knowing(t, p) ==
  \/ p.astray = TRUE
  \/ p = page[t]
  \/ /\ p.astray = page[t].astray
     /\ page[t].user \in {None, p.user} /\ session[BrowserOf[t]] \in {None, p.user}

Turn(t, p) ==
  \/ \E view \in Views : Show(t, p, view)
  \/ page' = [page EXCEPT ![t] = p] /\ UNCHANGED socket

LEMMA AnswerFacts ==
  ASSUME TypeInv, NEW t \in Tabs, Answer(t)
  PROVE  /\ CallsType'
         /\ \A c \in Tabs \ {t} : call'[c] = call[c]
         /\ call'[t] = NoCall
         /\ UNCHANGED <<roles, session, articles, steps>>
         /\ \/ UNCHANGED <<page, socket>>
            \/ \E p \in PageType : Turn(t, p) /\ Knowing(t, p)
<1>1. call \in [Tabs -> CallType] /\ call[t] \in CallType
  BY DEF TypeInv, CallsType
<1>2. page[t] \in PageType
  BY DEF TypeInv
<1>3. NoCall \in CallType /\ NoCall.kind = "none"
  BY DEF NoCall, CallType, RoleSet, Someone
<1>4. call' = [call EXCEPT ![t] = NoCall] /\ UNCHANGED <<roles, session, articles, steps>>
  BY DEF Answer
<1>5. CallsType' /\ call'[t] = NoCall
  BY <1>1, <1>3, <1>4 DEF TypeInv, CallsType
<1> DEFINE lost == \/ page[t].astray
                   \/ ~ {page[t].user, SessionOf(t)} \subseteq {None, call[t].user}
           out == [page[t] EXCEPT !.user = None, !.roles = {}, !.astray = TRUE]
           known == [page[t] EXCEPT !.user = call[t].user, !.roles = call[t].roles,
                                    !.astray = lost]
<1>6. out \in PageType /\ Knowing(t, out)
  <2>1. out \in PageType
    BY <1>2 DEF PageType, Someone, RoleSet
  <2>2. out.astray = TRUE
    BY <1>2, Zenon DEF PageType
  <2> QED BY <2>1, <2>2 DEF Knowing
<1>7. {"forbidden", "authentication.signin", "articles.view", "articles.list",
       page[t].previous} \subseteq Views
  BY <1>2 DEF Views, CoreViews, UserViews, ArticleViews, PageType
<1>8. known \in PageType /\ Knowing(t, known)
  <2>1. lost \in BOOLEAN
    OBVIOUS
  <2>2. lost = TRUE \/ (lost = FALSE /\ page[t].astray = FALSE
                        /\ page[t].user \in {None, call[t].user}
                        /\ session[BrowserOf[t]] \in {None, call[t].user})
    <3>1. CASE lost
      BY <3>1, Zenon
    <3>2. CASE ~lost
      <4>1. page[t].astray = FALSE /\ lost = FALSE
        BY <1>2, <3>2, Zenon DEF PageType
      <4>2. {page[t].user, SessionOf(t)} \subseteq {None, call[t].user}
        BY <3>2, Zenon
      <4> QED BY <4>1, <4>2 DEF SessionOf
    <3> QED BY <3>1, <3>2
  <2> HIDE DEF lost
  <2>3. known \in PageType /\ known.astray = lost /\ known.user = call[t].user
    BY <1>1, <1>2, <2>1 DEF PageType, CallType
  <2> HIDE DEF known
  <2> QED BY <2>2, <2>3 DEF Knowing
<1>9. \/ UNCHANGED <<page, socket>>
      \/ \E view \in {"authentication.signin"} : Show(t, out, view)
      \/ \E view \in {"forbidden", "articles.view", "articles.list"} : Show(t, page[t], view)
      \/ \E view \in {"forbidden", page[t].previous} : Show(t, known, view)
      \/ page' = [page EXCEPT ![t] = known] /\ UNCHANGED socket
  BY DEF Answer
<1>10. Knowing(t, page[t])
  BY DEF Knowing
<1> HIDE DEF known, out
<1>11. \/ UNCHANGED <<page, socket>>
       \/ \E p \in PageType : Turn(t, p) /\ Knowing(t, p)
  BY <1>2, <1>6, <1>7, <1>8, <1>9, <1>10 DEF Turn
<1> QED BY <1>4, <1>5, <1>11

(* A page that turns.                                                      *)
LEMMA TurnFacts ==
  ASSUME TypeInv, NEW t \in Tabs, NEW p \in PageType, Turn(t, p)
  PROVE  /\ page' \in [Tabs -> PageType] /\ socket' \in [Tabs -> SocketType]
         /\ page'[t].user = p.user /\ page'[t].astray = p.astray
         /\ \A c \in Tabs \ {t} : page'[c] = page[c] /\ socket'[c] = socket[c]
         /\ \/ socket[t].pc = "none" /\ socket'[t] = Connect(p.user)
            \/ /\ socket'[t].pc = socket[t].pc /\ socket'[t].user = socket[t].user
               /\ socket'[t].up = socket[t].up /\ socket'[t].down = socket[t].down
               /\ socket'[t].shown \in {socket[t].shown, <<>>}
               /\ socket[t] = NoSocket => socket'[t] = NoSocket
<1>1. CASE \E view \in Views : Show(t, p, view)
  BY <1>1, ShowFacts
<1>2. CASE page' = [page EXCEPT ![t] = p] /\ UNCHANGED socket
  BY <1>2 DEF TypeInv
<1> QED BY <1>1, <1>2 DEF Turn

LEMMA StepType == TypeInv /\ [Next]_vars => TypeInv'
<1> SUFFICES ASSUME TypeInv, [Next]_vars PROVE TypeInv'
  OBVIOUS
<1>1. ASSUME NEW t \in Tabs, Surf(t) PROVE TypeInv'
  <2>1. CASE SendArticle(t) \/ SendRead(t) \/ SendRemoveProvider(t) \/ SendSignin(t)
    BY <2>1, SendStep DEF TypeInv, RolesType, ArticlesType
  <2>2. CASE SendMessage(t)
    BY <2>2, ChatType
  <2> QED BY <1>1, <2>1, <2>2, PageStepType DEF Surf
<1>2. ASSUME NEW t \in Tabs, Serve(t) PROVE TypeInv'
  <2>1. CASE Answer(t)
    <3>1. /\ CallsType' /\ UNCHANGED <<roles, session, articles, steps>>
          /\ page' \in [Tabs -> PageType] /\ socket' \in [Tabs -> SocketType]
      <4>1. CASE UNCHANGED <<page, socket>>
        BY <2>1, <4>1, AnswerFacts DEF TypeInv
      <4>2. CASE \E p \in PageType : Turn(t, p)
        BY <2>1, <4>2, AnswerFacts, TurnFacts
      <4> QED BY <2>1, <4>1, <4>2, AnswerFacts
    <3> QED BY <3>1 DEF TypeInv, RolesType, ArticlesType
  <2> QED BY <1>2, <2>1, ChatType, ServeType DEF Serve
<1>3. ASSUME NEW t \in Tabs, Drop(t) PROVE TypeInv'
  BY <1>3, ChatType
<1>4. ASSUME NEW b \in Browsers, ExpireSession(b) PROVE TypeInv'
  BY <1>4 DEF ExpireSession, Step, TypeInv, RolesType, CallsType, ArticlesType, Someone
<1>5. ASSUME NEW u \in Users, RemoveAccount(u) PROVE TypeInv'
  BY <1>5 DEF RemoveAccount, Step, TypeInv, RolesType, CallsType, ArticlesType
<1>6. ASSUME NEW u \in Users, ChangeRoles(u) PROVE TypeInv'
  <2>1. RolesType'
    BY <1>6 DEF ChangeRoles, TypeInv, RolesType, RoleSet
  <2> QED BY <1>6, <2>1 DEF ChangeRoles, Step, TypeInv, CallsType, ArticlesType
<1>7. CASE UNCHANGED vars
  BY <1>7 DEF vars, TypeInv, RolesType, CallsType, ArticlesType
<1> QED BY <1>1, <1>2, <1>3, <1>4, <1>5, <1>6, <1>7 DEF Next

(* The types hold in every state of the site.                              *)
THEOREM TypeCorrect == Spec => []TypeInv
  BY InitType, StepType, PTL DEF Spec

-----------------------------------------------------------------------------
(***************************************************************************)
(* Who an article is changed for                                           *)
(***************************************************************************)

(* A request that is about to be saved was allowed by the policy: the      *)
(* article it will write is one its user wrote, or it came from an admin.  *)
WriteInv ==
  \A t \in Tabs :
    call[t].pc = "save" /\ call[t].kind # "post" =>
      /\ call[t].article \in DOMAIN articles
      /\ call[t].user = articles[call[t].article].author \/ "admin" \in call[t].roles

(* A save leaves all articles but its own alone, and their authors.        *)
LEMMA SaveFacts ==
  ASSUME TypeInv, NEW t \in Tabs, Save(t)
  PROVE  \A a \in DOMAIN articles :
           /\ a \in DOMAIN articles' /\ articles'[a].author = articles[a].author
           /\ articles'[a] # articles[a] => call[t].kind # "post" /\ call[t].article = a
<1>1. articles \in [DOMAIN articles -> ArticleType]
  BY DEF TypeInv, ArticlesType
<1> DEFINE c == call[t].article
<1>2. CASE call[t].kind = "post"
  BY <1>1, <1>2 DEF Save
<1>3. CASE call[t].kind # "post"
  <2>1. \/ articles' = articles
        \/ articles' = [articles EXCEPT ![c].content = call[t].content]
        \/ articles' = [articles EXCEPT ![c].there = FALSE]
    BY <1>3 DEF Save
  <2> HIDE DEF c
  <2>2. \A a \in DOMAIN articles :
           /\ a \in DOMAIN articles' /\ articles'[a].author = articles[a].author
           /\ articles'[a] # articles[a] => a = c
    BY <1>1, <2>1 DEF ArticleType
  <2> QED BY <1>3, <2>2 DEF c
<1> QED BY <1>2, <1>3

LEMMA WriteStep == TypeInv /\ WriteInv /\ [Next]_vars => WriteInv'
<1> SUFFICES ASSUME TypeInv, WriteInv, [Next]_vars,
                    NEW t \in Tabs, call'[t].pc = "save", call'[t].kind # "post"
             PROVE  /\ call'[t].article \in DOMAIN articles'
                    /\ \/ call'[t].user = articles'[call'[t].article].author
                       \/ "admin" \in call'[t].roles
  BY DEF WriteInv
<1> DEFINE Same == /\ call'[t].pc = call[t].pc /\ call'[t].kind = call[t].kind
                   /\ call'[t].article = call[t].article
                   /\ call'[t].user = call[t].user /\ call'[t].roles = call[t].roles
           Held == /\ call'[t].article \in DOMAIN articles'
                   /\ \/ call'[t].user = articles'[call'[t].article].author
                      \/ "admin" \in call'[t].roles
<1>1. ASSUME Same, UNCHANGED articles PROVE Held
  BY <1>1 DEF WriteInv
<1>2. ASSUME NEW c \in Tabs, Surf(c) PROVE Held
  <2>1. CASE LoadPage(c) \/ Signout(c)
    <3>1. PICK u \in Someone : Leave(c, u)
      BY <2>1, SignedInType DEF LoadPage, Signout, Someone
    <3>2. Same
      BY <3>1, LeaveFacts
    <3> QED BY <2>1, <3>2, <1>1 DEF LoadPage, Signout
  <2>2. CASE SendArticle(c) \/ SendRead(c) \/ SendRemoveProvider(c) \/ SendSignin(c)
    <3>1. t # c /\ UNCHANGED articles
      BY <2>2, SendStep
    <3>2. Same
      BY <2>2, <3>1, SendStep
    <3> QED BY <3>1, <3>2, <1>1
  <2>3. CASE SendMessage(c) \/ \E view \in Visited : Go(c, view)
    BY <2>3, <1>1 DEF SendMessage, Go
  <2> QED BY <1>2, <2>1, <2>2, <2>3 DEF Surf
<1>3. ASSUME NEW c \in Tabs, Serve(c) PROVE Held
  <2>1. CASE Handshake(c) \/ Relay(c) \/ Hear(c)
    BY <2>1, <1>1 DEF Handshake, Relay, Hear
  <2>2. CASE Signin(c) \/ Read(c) \/ RemoveProvider(c) \/ SaveFails(c)
    <3>1. t # c /\ Same
      BY <2>2, ServeEnds, EndsFacts
    <3> QED BY <2>2, <3>1, <1>1 DEF Signin, Read, RemoveProvider, SaveFails
  <2>3. CASE Receive(c)
    <3>1. t # c
      BY <2>3 DEF Receive, TypeInv, CallsType, CallType
    <3>2. Same /\ UNCHANGED articles
      BY <2>3, <3>1 DEF Receive, TypeInv, CallsType
    <3> QED BY <3>2, <1>1
  <2>4. CASE Load(c)
    <3>1. UNCHANGED articles /\ call[c].pc = "received"
      BY <2>4 DEF Load
    <3>2. CASE Ends(c)
      <4>1. t # c /\ Same
        BY <3>2, EndsFacts
      <4> QED BY <3>1, <4>1, <1>1
    <3>3. CASE Passes(c)
      <4>1. call \in [Tabs -> CallType]
        BY DEF TypeInv, CallsType
      <4>2. CASE t # c
        BY <3>1, <3>3, <4>1, <4>2, <1>1 DEF Passes
      <4>3. CASE t = c
        <5>1. /\ call'[t].kind = call[t].kind /\ call'[t].article = call[t].article
              /\ call'[t].user = call[t].user /\ call'[t].roles = call[t].roles
          BY <3>3, <4>1, <4>3 DEF CallType, Passes
        <5>2. \/ articles[call[t].article].author = call[t].user
              \/ "admin" \in call[t].roles
          BY <3>3, <4>3, <5>1 DEF IsAllowed, RoleMay, Passes
        <5> QED BY <3>1, <3>3, <4>3, <5>1, <5>2 DEF Passes
      <4> QED BY <4>2, <4>3
    <3> QED BY <2>4, <3>2, <3>3, ServeEnds
  <2>5. CASE Save(c)
    <3>1. t # c /\ Same
      BY <2>5, ServeEnds, EndsFacts
    <3>2. call[t].article \in DOMAIN articles
          /\ (call[t].user = articles[call[t].article].author \/ "admin" \in call[t].roles)
      BY <3>1 DEF WriteInv
    <3> QED BY <2>5, <3>1, <3>2, SaveFacts
  <2>6. CASE Answer(c)
    <3>1. call'[c] = NoCall /\ UNCHANGED articles /\ \A d \in Tabs \ {c} : call'[d] = call[d]
      BY <2>6, AnswerFacts
    <3>2. t # c
      BY <3>1 DEF NoCall
    <3> QED BY <3>1, <3>2, <1>1
  <2> QED BY <1>3, <2>1, <2>2, <2>3, <2>4, <2>5, <2>6 DEF Serve
<1>4. ASSUME NEW c \in Tabs, Drop(c) PROVE Held
  BY <1>4, <1>1 DEF Drop
<1>7. ASSUME NEW b \in Browsers, ExpireSession(b) PROVE Held
  BY <1>7, <1>1 DEF ExpireSession
<1>5. ASSUME NEW u \in Users, RemoveAccount(u) \/ ChangeRoles(u) PROVE Held
  BY <1>5, <1>1 DEF RemoveAccount, ChangeRoles
<1>6. CASE UNCHANGED vars
  BY <1>6, <1>1 DEF vars
<1> QED BY <1>2, <1>3, <1>4, <1>5, <1>6, <1>7 DEF Next

(* An article changes only when a request is saved.                        *)
LEMMA OnlySaves ==
  ASSUME TypeInv, Next, articles' # articles
  PROVE  \E t \in Tabs : Save(t)
<1>1. ASSUME NEW t \in Tabs, Surf(t) PROVE UNCHANGED articles
  BY <1>1, SendStep DEF Surf, LoadPage, Signout, Go, SendMessage
<1>2. ASSUME NEW t \in Tabs, Serve(t), ~Save(t) PROVE UNCHANGED articles
  BY <1>2 DEF Serve, Handshake, Relay, Hear, Signin, Read, RemoveProvider, Receive, Load,
              SaveFails, Answer
<1> QED BY <1>1, <1>2 DEF Next, Drop, ExpireSession, RemoveAccount, ChangeRoles, Serve

(* Whatever the number of browsers and articles: an article is changed     *)
(* only for its author or an admin, and keeps its author.                  *)
THEOREM OnlyAuthorOrAdminHolds == Spec => OnlyAuthorOrAdmin
<1> DEFINE Owned ==
      articles' # articles => \A a \in DOMAIN articles :
         /\ a \in DOMAIN articles' /\ articles'[a].author = articles[a].author
         /\ articles'[a] # articles[a] =>
              \E t \in Tabs :
                /\ call[t].pc = "save" /\ call'[t].pc = "answered" /\ call[t].article = a
                /\ call[t].user = articles[a].author \/ "admin" \in call[t].roles
<1>1. TypeInv /\ WriteInv /\ [Next]_vars => [Owned]_vars
  <2> SUFFICES ASSUME TypeInv, WriteInv, Next, articles' # articles PROVE Owned
    BY DEF vars
  <2>1. PICK t \in Tabs : Save(t)
    BY OnlySaves
  <2>2. call[t].pc = "save" /\ call'[t].pc = "answered"
    BY <2>1, ServeEnds, EndsFacts DEF Save
  <2>3. ASSUME NEW a \in DOMAIN articles, articles'[a] # articles[a]
        PROVE  /\ call[t].article = a
               /\ call[t].user = articles[a].author \/ "admin" \in call[t].roles
    BY <2>1, <2>2, <2>3, SaveFacts DEF WriteInv
  <2> QED BY <2>1, <2>2, <2>3, SaveFacts
<1>2. Init => WriteInv
  BY DEF Init, WriteInv, NoCall
<1>3. Spec => []WriteInv
  BY <1>2, WriteStep, TypeCorrect, PTL DEF Spec
<1>4. (Spec => [][Owned]_vars) <=> (Spec => OnlyAuthorOrAdmin)
  BY DEF OnlyAuthorOrAdmin
<1> QED BY <1>1, <1>3, <1>4, TypeCorrect, PTL DEF Spec

-----------------------------------------------------------------------------
(***************************************************************************)
(* Whose name is on a chat message                                         *)
(***************************************************************************)

(* As long as a page is not astray, its session is that of its user or is  *)
(* over, its socket is that of its user, and a page without a user has no  *)
(* socket.                                                                 *)
Voice(t) ==
  page[t].astray = FALSE =>
    /\ socket[t].pc = "open" => socket[t].user = page[t].user
    /\ \A i \in DOMAIN socket[t].up : socket[t].up[i].sender = page[t].user
    /\ page[t].user = None => socket[t] = NoSocket
    /\ page[t].user # None => session[BrowserOf[t]] \in {None, page[t].user}

RightName(m) == m.astray = TRUE \/ m.username = m.sender

RightNames(messages) == \A i \in DOMAIN messages : RightName(messages[i])

VoiceInv == \A t \in Tabs : Voice(t) /\ RightNames(socket[t].down)

(* A page stays but may come astray, which it does when its session        *)
(* becomes another user's.                                                 *)
PageKept(t) ==
  /\ page'[t].user = page[t].user
  /\ page'[t].astray = page[t].astray \/ page'[t].astray = TRUE
  /\ page'[t].astray = FALSE /\ page[t].user # None =>
       session'[BrowserOf[t]] \in {None, session[BrowserOf[t]], page[t].user}

(* What is heard of others leaves a socket as it is, but for the message.  *)
SocketKept(t) ==
  /\ socket'[t].pc = socket[t].pc /\ socket'[t].user = socket[t].user
  /\ socket'[t].up = socket[t].up
  /\ socket[t] = NoSocket => socket'[t] = NoSocket

LEMMA AppendRight ==
  ASSUME NEW s \in Seq(Message), NEW m \in Message, RightNames(s), RightName(m)
  PROVE  RightNames(Append(s, m))
  BY DEF RightNames

LEMMA TailRight ==
  ASSUME NEW s \in Seq(Message), s # <<>>, RightNames(s)
  PROVE  RightNames(Tail(s))
  BY DEF RightNames

LEMMA EmptyRight == RightNames(<<>>)
  BY DEF RightNames

(* A tab to which nothing happens but what others do to its session, and   *)
(* what is heard of them.                                                  *)
LEMMA VoiceKept ==
  ASSUME NEW t \in Tabs, Voice(t), PageKept(t), SocketKept(t)
  PROVE  Voice(t)'
<1>1. CASE page'[t].astray = FALSE
  <2>1. page[t].astray = FALSE
    BY <1>1, Zenon DEF PageKept
  <2> QED BY <1>1, <2>1 DEF Voice, PageKept, SocketKept
<1>2. CASE page'[t].astray # FALSE
  BY <1>2 DEF Voice
<1> QED BY <1>1, <1>2

(* The messages of the server: they are heard by others than their sender. *)
LEMMA EmitVoice ==
  ASSUME TypeInv, VoiceInv, NEW t \in Tabs, NEW m \in Message, RightName(m),
         NEW sockets \in [Tabs -> SocketType],
         \A d \in Tabs \ {t} : sockets[d] = socket[d],
         RightNames(sockets[t].down),
         socket' = Emit(sockets, t, m)
  PROVE  /\ \A d \in Tabs \ {t} : SocketKept(d)
         /\ \A d \in Tabs : RightNames(socket'[d].down)
         /\ socket'[t].pc = sockets[t].pc /\ socket'[t].user = sockets[t].user
         /\ socket'[t].up = sockets[t].up
<1>1. \A d \in Tabs :
        /\ socket'[d].pc = sockets[d].pc /\ socket'[d].user = sockets[d].user
        /\ socket'[d].up = sockets[d].up
        /\ socket'[d].down = sockets[d].down \/ socket'[d].down = Append(sockets[d].down, m)
        /\ sockets[d].pc # "open" => socket'[d] = sockets[d]
  BY EmitFacts
<1>2. NoSocket.pc # "open"
  BY DEF NoSocket
<1>3. ASSUME NEW d \in Tabs PROVE RightNames(socket'[d].down)
  <2>1. sockets[d].down \in Seq(Message) /\ RightNames(sockets[d].down)
    BY DEF SocketType, VoiceInv
  <2> QED BY <2>1, <1>1, AppendRight
<1> QED BY <1>1, <1>2, <1>3 DEF SocketKept

(* A socket that goes.                                                     *)
LEMMA DisconnectVoice ==
  ASSUME TypeInv, VoiceInv, NEW t \in Tabs, NEW next \in SocketType, next.pc # "open",
         next.down = <<>>, socket' = Disconnect(socket, t, next)
  PROVE  /\ \A d \in Tabs \ {t} : SocketKept(d)
         /\ \A d \in Tabs : RightNames(socket'[d].down)
         /\ socket'[t] = next
<1>1. socket \in [Tabs -> SocketType]
  BY DEF TypeInv
<1>2. /\ socket'[t] = next
      /\ \A d \in Tabs \ {t} :
           /\ socket'[d].pc = socket[d].pc /\ socket'[d].user = socket[d].user
           /\ socket'[d].up = socket[d].up
           /\ \/ socket'[d].down = socket[d].down
              \/ /\ socket[t].pc = "open"
                 /\ socket'[d].down = Append(socket[d].down, Status(t, socket[t].user))
           /\ socket[d].pc # "open" => socket'[d] = socket[d]
  <2>1. socket'[t] = next
    BY <1>1, DisconnectFacts
  <2>2. ASSUME NEW d \in Tabs \ {t}
        PROVE  /\ socket'[d].pc = socket[d].pc /\ socket'[d].user = socket[d].user
               /\ socket'[d].up = socket[d].up
               /\ \/ socket'[d].down = socket[d].down
                  \/ /\ socket[t].pc = "open"
                     /\ socket'[d].down = Append(socket[d].down, Status(t, socket[t].user))
               /\ socket[d].pc # "open" => socket'[d] = socket[d]
    BY <1>1, DisconnectFacts
  <2> QED BY <2>1, <2>2
<1>3. NoSocket.pc # "open"
  BY DEF NoSocket
<1>4. /\ Status(t, socket[t].user) \in Message
      /\ socket[t].pc = "open" => RightName(Status(t, socket[t].user))
  <2>1. socket[t].user \in Someone /\ page[t].astray \in BOOLEAN
    BY <1>1 DEF SocketType, TypeInv, PageType
  <2>2. page[t].astray = FALSE /\ socket[t].pc = "open" => socket[t].user = page[t].user
    BY DEF VoiceInv, Voice
  <2> QED BY <2>1, <2>2, StatusType DEF RightName
<1>5. ASSUME NEW d \in Tabs \ {t} PROVE RightNames(socket'[d].down)
  <2>1. socket[d].down \in Seq(Message) /\ RightNames(socket[d].down)
    BY <1>1 DEF SocketType, VoiceInv
  <2> QED BY <2>1, <1>2, <1>4, AppendRight
<1> QED BY <1>2, <1>3, <1>5, EmptyRight DEF SocketKept

(* The chat's own steps.                                                   *)
LEMMA ChatVoice ==
  ASSUME TypeInv, VoiceInv, NEW t \in Tabs,
         Handshake(t) \/ Drop(t) \/ SendMessage(t) \/ Relay(t) \/ Hear(t)
  PROVE  VoiceInv'
<1>1. UNCHANGED <<page, call, session>>
  BY DEF Handshake, Drop, SendMessage, Relay, Hear
<1>2. socket \in [Tabs -> SocketType] /\ socket[t] \in SocketType
      /\ page[t] \in PageType
  BY DEF TypeInv
<1>3. \A d \in Tabs : PageKept(d)
  BY <1>1 DEF PageKept
<1>4. ASSUME NEW d \in Tabs, SocketKept(d) PROVE Voice(d)'
  BY <1>3, <1>4, VoiceKept DEF VoiceInv
<1>5. SUFFICES /\ \A d \in Tabs \ {t} : SocketKept(d)
               /\ \A d \in Tabs : RightNames(socket'[d].down)
               /\ Voice(t)'
  BY <1>4 DEF VoiceInv
<1>6. Voice(t) /\ RightNames(socket[t].down) /\ NoSocket.pc = "none" /\ NoSocket.down = <<>>
  BY DEF VoiceInv, NoSocket
<1>7. CASE Handshake(t)
  <2> DEFINE u == SignedIn(t)
             open == [socket EXCEPT ![t].pc = "open", ![t].user = u]
             refused == [socket EXCEPT ![t].pc = "refused", ![t].up = <<>>]
  <2>1. socket[t].pc = "connecting"
    BY <1>7 DEF Handshake
  <2>2. CASE u = None
    <3>1. socket' = refused
      BY <1>7, <2>2 DEF Handshake
    <3>2. /\ socket'[t].pc = "refused" /\ socket'[t].up = <<>>
          /\ socket'[t].down = socket[t].down
          /\ \A d \in Tabs \ {t} : socket'[d] = socket[d]
      BY <1>2, <3>1 DEF SocketType
    <3>3. Voice(t)'
      BY <1>1, <1>6, <2>1, <3>2 DEF Voice
    <3> QED BY <3>2, <3>3 DEF VoiceInv, SocketKept
  <2>3. CASE u # None
    <3>1. u \in Someone /\ u = session[BrowserOf[t]]
      BY <2>3, SignedInType
    <3>0. page[t].astray = FALSE => u = page[t].user
      BY <1>6, <2>1, <2>3, <3>1 DEF Voice
    <3>2. open \in [Tabs -> SocketType]
          /\ open[t].pc = "open" /\ open[t].user = u
          /\ open[t].up = socket[t].up /\ open[t].down = socket[t].down
          /\ \A d \in Tabs \ {t} : open[d] = socket[d]
      BY <1>2, <3>1 DEF SocketType
    <3>3. Status(t, u) \in Message /\ RightName(Status(t, u))
      <4>1. page[t].astray = TRUE \/ page[t].astray = FALSE
        BY <1>2 DEF PageType
      <4> HIDE DEF u
      <4> QED BY <3>0, <3>1, <4>1, StatusType DEF RightName
    <3>4. socket' = Emit(open, t, Status(t, u))
      BY <1>7, <2>3 DEF Handshake
    <3> HIDE DEF u, open
    <3>5. /\ \A d \in Tabs \ {t} : SocketKept(d)
          /\ \A d \in Tabs : RightNames(socket'[d].down)
          /\ socket'[t].pc = "open" /\ socket'[t].user = u
          /\ socket'[t].up = socket[t].up
      BY <1>6, <3>2, <3>3, <3>4, EmitVoice
    <3>6. Voice(t)'
      BY <1>1, <1>6, <2>1, <2>3, <3>0, <3>1, <3>5 DEF Voice
    <3> QED BY <3>5, <3>6
  <2> QED BY <2>2, <2>3
<1>8. CASE Drop(t)
  <2> DEFINE next == [Connecting EXCEPT !.shown = socket[t].shown]
  <2>1. /\ next \in SocketType /\ next.pc = "connecting" /\ next.down = <<>>
        /\ next.up = <<>>
    <3>1. Connecting \in SocketType /\ Connecting.pc = "connecting" /\ None \in Someone
          /\ Connecting.up = <<>> /\ Connecting.down = <<>>
      BY ConnectType DEF Connecting, NoSocket, Someone
    <3> QED BY <3>1, <1>2 DEF SocketType
  <2>2. socket' = Disconnect(socket, t, next) /\ socket[t].pc = "open"
    BY <1>8 DEF Drop
  <2> HIDE DEF next
  <2>3. /\ \A d \in Tabs \ {t} : SocketKept(d)
        /\ \A d \in Tabs : RightNames(socket'[d].down)
        /\ socket'[t] = next
    BY <2>1, <2>2, DisconnectVoice
  <2>4. Voice(t)'
    BY <1>1, <1>6, <2>1, <2>2, <2>3 DEF Voice
  <2> QED BY <2>3, <2>4
<1>9. CASE SendMessage(t)
  <2> DEFINE m == [number |-> steps', username |-> None, sender |-> page[t].user,
                   astray |-> FALSE]
  <2>1. m \in Message /\ m.sender = page[t].user
    BY <1>2, <1>9 DEF Message, PageType, Someone, SendMessage, Step, TypeInv
  <2>2. socket' = [socket EXCEPT ![t].up = Append(@, m)]
        /\ socket[t].pc \in {"connecting", "open"}
    BY <1>9 DEF SendMessage
  <2> HIDE DEF m
  <2>3. /\ socket'[t].pc = socket[t].pc /\ socket'[t].user = socket[t].user
        /\ socket'[t].up = Append(socket[t].up, m) /\ socket'[t].down = socket[t].down
        /\ \A d \in Tabs \ {t} : socket'[d] = socket[d]
    BY <1>2, <2>2 DEF SocketType
  <2>4. socket[t].up \in Seq(Message)
    BY <1>2 DEF SocketType
  <2>5. (\A i \in DOMAIN socket[t].up : socket[t].up[i].sender = page[t].user) =>
          \A i \in DOMAIN socket'[t].up : socket'[t].up[i].sender = page[t].user
    BY <2>1, <2>3, <2>4
  <2>6. Voice(t)'
    BY <1>1, <1>6, <2>2, <2>3, <2>5 DEF Voice
  <2> QED BY <2>3, <2>6 DEF VoiceInv, SocketKept
<1>10. CASE Relay(t)
  <2> DEFINE h == Head(socket[t].up)
             m == [h EXCEPT !.username = socket[t].user, !.astray = page[t].astray]
             read == [socket EXCEPT ![t].up = Tail(@)]
  <2>1. /\ socket[t].up \in Seq(Message) /\ socket[t].up # <<>> /\ socket[t].pc = "open"
        /\ h \in Message /\ Tail(socket[t].up) \in Seq(Message)
    BY <1>2, <1>10 DEF Relay, SocketType
  <2>2. /\ m \in Message /\ m.username = socket[t].user /\ m.sender = h.sender
        /\ m.astray = page[t].astray
    <3>1. page[t].astray \in BOOLEAN /\ socket[t].user \in Someone
      BY <1>2 DEF PageType, SocketType
    <3> HIDE DEF h
    <3> QED BY <2>1, <3>1 DEF Message
  <2>3. RightName(m)
    <3>1. page[t].astray = TRUE \/ page[t].astray = FALSE
      BY <1>2 DEF PageType
    <3>2. h = socket[t].up[1] /\ 1 \in DOMAIN socket[t].up
      BY <2>1
    <3> HIDE DEF h, m
    <3> QED BY <1>6, <2>1, <2>2, <3>1, <3>2 DEF RightName, Voice
  <2>4. /\ read \in [Tabs -> SocketType]
        /\ read[t].pc = "open" /\ read[t].user = socket[t].user
        /\ read[t].up = Tail(socket[t].up) /\ read[t].down = socket[t].down
        /\ \A d \in Tabs \ {t} : read[d] = socket[d]
    BY <1>2, <2>1 DEF SocketType
  <2>5. socket' = Emit(read, t, m)
    BY <1>10 DEF Relay
  <2> HIDE DEF h, m, read
  <2>6. /\ \A d \in Tabs \ {t} : SocketKept(d)
        /\ \A d \in Tabs : RightNames(socket'[d].down)
        /\ socket'[t].pc = socket[t].pc /\ socket'[t].user = socket[t].user
        /\ socket'[t].up = Tail(socket[t].up)
    BY <1>6, <2>1, <2>2, <2>3, <2>4, <2>5, EmitVoice
  <2>7. (\A i \in DOMAIN socket[t].up : socket[t].up[i].sender = page[t].user) =>
          \A i \in DOMAIN socket'[t].up : socket'[t].up[i].sender = page[t].user
    BY <2>1, <2>6
  <2>8. Voice(t)'
    BY <1>1, <1>6, <2>1, <2>6, <2>7 DEF Voice
  <2> QED BY <2>6, <2>8
<1>11. CASE Hear(t)
  <2> DEFINE m == Head(socket[t].down)
             heard == IF page[t].view = "chat" /\ m.number # 0
                        THEN Append(socket[t].shown, m.number) ELSE socket[t].shown
  <2>1. socket' = [socket EXCEPT ![t] = [socket[t] EXCEPT !.down = Tail(@), !.shown = heard]]
        /\ socket[t].down # <<>> /\ socket[t].down \in Seq(Message)
    BY <1>2, <1>11 DEF Hear, SocketType
  <2> HIDE DEF m, heard
  <2>2. /\ socket'[t].pc = socket[t].pc /\ socket'[t].user = socket[t].user
        /\ socket'[t].up = socket[t].up /\ socket'[t].down = Tail(socket[t].down)
        /\ \A d \in Tabs \ {t} : socket'[d] = socket[d]
    BY <1>2, <2>1 DEF SocketType
  <2>3. RightNames(Tail(socket[t].down))
    BY <1>6, <2>1, TailRight
  <2>4. SocketKept(t)
    BY <1>6, <2>1, <2>2 DEF SocketKept
  <2> QED BY <1>4, <2>2, <2>3, <2>4 DEF VoiceInv, SocketKept
<1> QED BY <1>7, <1>8, <1>9, <1>10, <1>11

(* A page that is opened anew starts with the user of the session.         *)
LEMMA LeaveVoice ==
  ASSUME TypeInv, VoiceInv, NEW t \in Tabs, NEW u \in Someone, Leave(t, u),
         u # None => session'[BrowserOf[t]] = u,
         \A d \in Tabs : session'[BrowserOf[d]] \in {None, session[BrowserOf[d]]}
  PROVE  VoiceInv'
<1>1. Connect(u) \in SocketType /\ Connect(u).pc # "open" /\ Connect(u).down = <<>>
      /\ Connect(u).up = <<>> /\ (u = None => Connect(u) = NoSocket)
  BY ConnectType
<1>2. /\ \A c \in Tabs \ {t} : page'[c] = page[c]
      /\ page'[t].user = u
      /\ socket' = Disconnect(socket, t, Connect(u))
  BY LeaveFacts
<1>3. /\ \A d \in Tabs \ {t} : SocketKept(d)
      /\ \A d \in Tabs : RightNames(socket'[d].down)
      /\ socket'[t] = Connect(u)
  BY <1>1, <1>2, DisconnectVoice
<1>4. ASSUME NEW d \in Tabs \ {t} PROVE Voice(d)'
  <2>1. PageKept(d)
    BY <1>2 DEF PageKept
  <2> QED BY <1>3, <2>1, VoiceKept DEF VoiceInv
<1>5. Voice(t)'
  BY <1>1, <1>2, <1>3 DEF Voice
<1> QED BY <1>3, <1>4, <1>5 DEF VoiceInv

(* The page turns to another view or another user: it stays as it is, it   *)
(* comes astray, or it learns whose the session is.                        *)
LEMMA TurnVoice ==
  ASSUME TypeInv, VoiceInv, NEW t \in Tabs, NEW p \in PageType, Turn(t, p), Knowing(t, p),
         UNCHANGED session
  PROVE  VoiceInv'
<1>1. /\ page'[t].user = p.user /\ page'[t].astray = p.astray
      /\ \A c \in Tabs \ {t} : page'[c] = page[c] /\ socket'[c] = socket[c]
      /\ \/ socket[t].pc = "none" /\ socket'[t] = Connect(p.user)
         \/ /\ SocketKept(t) /\ socket'[t].down = socket[t].down
  BY TurnFacts DEF SocketKept
<1>2. ASSUME NEW d \in Tabs \ {t} PROVE Voice(d)' /\ RightNames(socket'[d].down)
  <2>1. PageKept(d) /\ SocketKept(d)
    BY <1>1 DEF PageKept, SocketKept
  <2> QED BY <1>1, <2>1, VoiceKept DEF VoiceInv
<1>3. /\ Connect(p.user).down = <<>> /\ Connect(p.user).up = <<>>
      /\ Connect(p.user).pc # "open"
      /\ p.user = None => Connect(p.user) = NoSocket
  BY ConnectType DEF PageType
<1>4. RightNames(socket'[t].down)
  BY <1>1, <1>3, EmptyRight DEF VoiceInv
<1>5. SUFFICES Voice(t)'
  BY <1>2, <1>4 DEF VoiceInv
<1>6. CASE p.astray = TRUE
  BY <1>1, <1>6 DEF Voice
<1>7. CASE p = page[t]
  <2>1. CASE SocketKept(t)
    <3>1. PageKept(t)
      BY <1>1, <1>7 DEF PageKept
    <3> QED BY <2>1, <3>1, VoiceKept DEF VoiceInv
  <2>2. CASE socket[t].pc = "none" /\ socket'[t] = Connect(p.user)
    BY <1>1, <1>3, <1>7, <2>2 DEF VoiceInv, Voice
  <2> QED BY <1>1, <2>1, <2>2
<1>8. CASE /\ p.astray = page[t].astray /\ p.astray = FALSE
           /\ page[t].user \in {None, p.user} /\ session[BrowserOf[t]] \in {None, p.user}
  <2>1. Voice(t) /\ page[t].astray = FALSE /\ page'[t].astray = FALSE
    BY <1>1, <1>8 DEF VoiceInv
  <2>2. CASE page[t].user = p.user
    <3>1. CASE SocketKept(t)
      <4>1. PageKept(t)
        BY <1>1, <1>8, <2>2 DEF PageKept
      <4> QED BY <2>1, <3>1, <4>1, VoiceKept
    <3>2. CASE socket'[t] = Connect(p.user)
      BY <1>1, <1>3, <1>8, <2>1, <3>2 DEF Voice
    <3> QED BY <1>1, <3>1, <3>2
  <2>3. CASE page[t].user = None /\ p.user # None
    <3>1. socket[t] = NoSocket
      BY <2>1, <2>3 DEF Voice
    <3>2. socket'[t].pc # "open" /\ socket'[t].up = <<>>
      BY <1>1, <1>3, <3>1 DEF SocketKept, NoSocket
    <3> QED BY <1>1, <1>8, <2>1, <2>3, <3>2 DEF Voice
  <2> QED BY <1>8, <2>2, <2>3
<1>9. p.astray = TRUE \/ p.astray = FALSE
  BY DEF PageType
<1> QED BY <1>6, <1>7, <1>8, <1>9 DEF Knowing

LEMMA VoiceStep == TypeInv /\ VoiceInv /\ [Next]_vars => VoiceInv'
<1> SUFFICES ASSUME TypeInv, VoiceInv, [Next]_vars PROVE VoiceInv'
  OBVIOUS
<1>1. ASSUME UNCHANGED socket, \A d \in Tabs : PageKept(d) PROVE VoiceInv'
  <2>1. \A d \in Tabs : SocketKept(d)
    BY <1>1 DEF SocketKept
  <2> QED BY <1>1, <2>1, VoiceKept DEF VoiceInv
<1>2. ASSUME UNCHANGED <<page, socket>>,
             \A d \in Tabs : session'[BrowserOf[d]] \in {None, session[BrowserOf[d]]}
      PROVE  VoiceInv'
  <2>1. \A d \in Tabs : PageKept(d)
    BY <1>2 DEF PageKept
  <2> QED BY <1>1, <1>2, <2>1
<1>3. ASSUME NEW b \in Browsers, session' = [session EXCEPT ![b] = None]
      PROVE  \A d \in Tabs : session'[BrowserOf[d]] \in {None, session[BrowserOf[d]]}
  BY <1>3, SiteAssumption DEF TypeInv
<1>4. ASSUME NEW t \in Tabs, Surf(t) PROVE VoiceInv'
  <2>1. CASE LoadPage(t)
    <3>1. Leave(t, SignedIn(t)) /\ UNCHANGED session
      BY <2>1 DEF LoadPage
    <3> QED BY <3>1, LeaveVoice, SignedInType
  <2>2. CASE Signout(t)
    <3>1. Leave(t, None) /\ BrowserOf[t] \in Browsers /\ None \in Someone
          /\ session' = [session EXCEPT ![BrowserOf[t]] = None]
      BY <2>2, SiteAssumption DEF Signout, Someone
    <3> QED BY <3>1, <1>3, LeaveVoice
  <2>3. ASSUME NEW view \in Visited, Go(t, view) PROVE VoiceInv'
    <3>1. "forbidden" \in Views /\ view \in Views /\ page[t] \in PageType
      BY VisitedAssumption DEF Views, CoreViews, TypeInv
    <3>2. Turn(t, page[t]) /\ UNCHANGED session /\ Knowing(t, page[t])
      BY <2>3, <3>1 DEF Go, Turn, Knowing
    <3> QED BY <3>1, <3>2, TurnVoice
  <2>4. CASE SendArticle(t) \/ SendRead(t) \/ SendRemoveProvider(t) \/ SendSignin(t)
    BY <2>4, SendStep, <1>2
  <2>5. CASE SendMessage(t)
    BY <2>5, ChatVoice
  <2> QED BY <1>4, <2>1, <2>2, <2>3, <2>4, <2>5 DEF Surf
<1>5. ASSUME NEW t \in Tabs, Serve(t) PROVE VoiceInv'
  <2>1. CASE Handshake(t) \/ Relay(t) \/ Hear(t)
    BY <2>1, ChatVoice
  <2>2. CASE Receive(t) \/ (Passes(t) /\ UNCHANGED socket)
    BY <2>2, <1>2 DEF Receive, Passes
  <2>3. CASE Ends(t) /\ UNCHANGED socket
    <3>1. PICK user \in Someone : Become(BrowserOf[t], user) /\ BrowserOf[t] \in Browsers
      BY <2>3, EndsFacts
    <3>2. \A d \in Tabs : PageKept(d)
      BY <3>1, BecomeFacts DEF PageKept
    <3> QED BY <2>3, <3>2, <1>1
  <2>4. CASE Answer(t)
    <3>1. CASE UNCHANGED <<page, socket>>
      BY <2>4, <3>1, AnswerFacts, <1>2
    <3>2. CASE \E p \in PageType : Turn(t, p) /\ Knowing(t, p)
      BY <2>4, <3>2, AnswerFacts, TurnVoice
    <3> QED BY <2>4, <3>1, <3>2, AnswerFacts
  <2>5. CASE Signin(t) \/ Read(t) \/ RemoveProvider(t) \/ Load(t) \/ Save(t) \/ SaveFails(t)
    <3>1. UNCHANGED socket
      BY <2>5 DEF Signin, Read, RemoveProvider, Load, Save, SaveFails
    <3> QED BY <2>2, <2>3, <2>5, <3>1, ServeEnds
  <2> QED BY <1>5, <2>1, <2>2, <2>4, <2>5 DEF Serve
<1>6. ASSUME NEW t \in Tabs, Drop(t) PROVE VoiceInv'
  BY <1>6, ChatVoice
<1>7. ASSUME NEW b \in Browsers, ExpireSession(b) PROVE VoiceInv'
  BY <1>7, <1>2, <1>3 DEF ExpireSession
<1>8. ASSUME NEW u \in Users, RemoveAccount(u) \/ ChangeRoles(u) PROVE VoiceInv'
  BY <1>8, <1>2 DEF RemoveAccount, ChangeRoles
<1>9. CASE UNCHANGED vars
  BY <1>9, <1>2 DEF vars
<1> QED BY <1>4, <1>5, <1>6, <1>7, <1>8, <1>9 DEF Next

LEMMA InitVoice == Init => VoiceInv
<1> SUFFICES ASSUME Init, NEW t \in Tabs PROVE Voice(t) /\ RightNames(socket[t].down)
  BY DEF VoiceInv
<1>1. /\ session[BrowserOf[t]] \in Someone /\ page[t].user = session[BrowserOf[t]]
      /\ socket[t] = Connect(session[BrowserOf[t]])
  BY SiteAssumption DEF Init, NewPage, Someone, SessionOf
<1> QED BY <1>1, ConnectType, EmptyRight DEF Voice

(* Whatever the number of browsers, of tabs that share their session, of   *)
(* requests that write it back late and of messages: the name on a message *)
(* is that of the user of the page it is about, unless that page has come  *)
(* astray.                                                                 *)
THEOREM SpeaksAsPageUserHolds == Spec => []SpeaksAsPageUser
<1>1. TypeInv /\ VoiceInv => SpeaksAsPageUser
  BY DEF VoiceInv, RightNames, RightName, SpeaksAsPageUser, Heard
<1> QED BY <1>1, InitVoice, VoiceStep, TypeCorrect, PTL DEF Spec
-----------------------------------------------------------------------------
(***************************************************************************)
(* The order of the chat                                                   *)
(***************************************************************************)

Numbers(messages) == [i \in DOMAIN messages |-> messages[i].number]

Holds(q, m) == \E i \in DOMAIN q : q[i] = m

(* A page has shown a message, or will hear it, and one before another.    *)
(* The number of the server's own messages is 0.                           *)
Knows(s, m) == m # 0 /\ (Holds(s.shown, m) \/ Holds(Numbers(s.down), m))

Comes(s, m, n) ==
  /\ m # 0 /\ n # 0
  /\ \/ Before(s.shown, m, n)
     \/ Holds(s.shown, m) /\ Holds(Numbers(s.down), n)
     \/ Before(Numbers(s.down), m, n)

(* No two pages get two messages in opposite orders; in particular none    *)
(* gets one twice.                                                         *)
OrderInv ==
  \A t, c \in Tabs : \A m, n \in Nat : Comes(socket[t], m, n) => ~Comes(socket[c], n, m)

(* A message that the server has not relayed is known to nobody, and has a *)
(* number of its own.                                                      *)
Unheard(t, i) ==
  LET m == socket[t].up[i].number
  IN  /\ m \in 1..steps
      /\ \A c \in Tabs : ~Knows(socket[c], m)
      /\ \A c \in Tabs : \A j \in DOMAIN socket[c].up :
           socket[c].up[j].number = m => t = c /\ i = j

FreshInv ==
  /\ \A t \in Tabs : \A i \in DOMAIN socket[t].up : Unheard(t, i)
  /\ \A t \in Tabs : \A m \in Nat : Knows(socket[t], m) => m <= steps

(* A socket t is s but for what has been dropped from it, and for k, which *)
(* may have been added at its end.                                         *)
Follows(t, s, k) ==
  /\ \A m \in Nat : Knows(t, m) => Knows(s, m) \/ m = k
  /\ \A m, n \in Nat : Comes(t, m, n) => Comes(s, m, n) \/ (n = k /\ Knows(s, m))

LEMMA EmptyHolds ==
  /\ Numbers(<<>>) = <<>>
  /\ \A m, n : ~Holds(<<>>, m) /\ ~Before(<<>>, m, n)
  BY DEF Numbers, Holds, Before

LEMMA AppendHolds ==
  ASSUME NEW q \in Seq(Nat), NEW x \in Nat
  PROVE  \A m, n : /\ Holds(Append(q, x), m) <=> Holds(q, m) \/ m = x
                   /\ Before(Append(q, x), m, n) <=> Before(q, m, n) \/ (Holds(q, m) /\ n = x)
<1> DEFINE r == Append(q, x)
           l == Len(q)
<1>1. /\ l \in Nat /\ DOMAIN q = 1..l /\ DOMAIN r = 1..(l + 1)
      /\ r[l + 1] = x /\ \A i \in 1..l : r[i] = q[i]
  OBVIOUS
<1> HIDE DEF r, l
<1>2. \A m : Holds(r, m) <=> Holds(q, m) \/ m = x
  BY <1>1 DEF Holds
<1>3. \A m, n : Before(r, m, n) <=> Before(q, m, n) \/ (Holds(q, m) /\ n = x)
  BY <1>1 DEF Holds, Before
<1> QED BY <1>2, <1>3 DEF r

LEMMA TailHolds ==
  ASSUME NEW q \in Seq(Nat), q # <<>>
  PROVE  \A m, n : /\ Holds(q, m) <=> m = Head(q) \/ Holds(Tail(q), m)
                   /\ Before(q, m, n) <=> \/ m = Head(q) /\ Holds(Tail(q), n)
                                          \/ Before(Tail(q), m, n)
<1> DEFINE r == Tail(q)
           l == Len(r)
<1>1. /\ l \in Nat /\ DOMAIN r = 1..l /\ DOMAIN q = 1..(l + 1)
      /\ q[1] = Head(q) /\ \A i \in 1..l : r[i] = q[i + 1]
  OBVIOUS
<1> HIDE DEF r, l
<1>2. \A i \in DOMAIN q : i = 1 \/ \E h \in DOMAIN r : i = h + 1 /\ q[i] = r[h]
  <2>1. ASSUME NEW i \in DOMAIN q, i # 1
        PROVE  i - 1 \in DOMAIN r /\ i = (i - 1) + 1 /\ q[i] = r[i - 1]
    BY <1>1, <2>1
  <2> QED BY <2>1
<1>3. \A i \in DOMAIN r : i + 1 \in DOMAIN q /\ 1 < i + 1 /\ q[i + 1] = r[i]
  BY <1>1
<1>4. 1 \in DOMAIN q
  BY <1>1
<1>5. ASSUME NEW m PROVE Holds(q, m) <=> m = Head(q) \/ Holds(r, m)
  <2>1. ASSUME Holds(q, m) PROVE m = Head(q) \/ Holds(r, m)
    BY <1>1, <1>2, <2>1 DEF Holds
  <2>2. ASSUME m = Head(q) PROVE Holds(q, m)
    BY <1>1, <1>4, <2>2 DEF Holds
  <2>3. ASSUME Holds(r, m) PROVE Holds(q, m)
    BY <1>3, <2>3 DEF Holds
  <2> QED BY <2>1, <2>2, <2>3
<1>6. ASSUME NEW m, NEW n
      PROVE  Before(q, m, n) <=> (m = Head(q) /\ Holds(r, n)) \/ Before(r, m, n)
  <2>1. ASSUME Before(q, m, n) PROVE (m = Head(q) /\ Holds(r, n)) \/ Before(r, m, n)
    <3>1. PICK i \in DOMAIN q, j \in DOMAIN q : i < j /\ q[i] = m /\ q[j] = n
      BY <2>1 DEF Before
    <3>2. j # 1
      BY <1>1, <3>1
    <3>3. PICK h \in DOMAIN r : j = h + 1 /\ n = r[h]
      BY <1>2, <3>1, <3>2
    <3>4. CASE i = 1
      BY <1>1, <3>1, <3>3, <3>4 DEF Holds
    <3>5. CASE i # 1
      <4>1. PICK g \in DOMAIN r : i = g + 1 /\ m = r[g]
        BY <1>2, <3>1, <3>5
      <4>2. g < h
        BY <1>1, <3>1, <3>3, <4>1
      <4> QED BY <3>3, <4>1, <4>2 DEF Before
    <3> QED BY <3>4, <3>5
  <2>2. ASSUME m = Head(q), Holds(r, n) PROVE Before(q, m, n)
    <3>1. PICK h \in DOMAIN r : r[h] = n
      BY <2>2 DEF Holds
    <3> QED BY <1>1, <1>3, <1>4, <2>2, <3>1 DEF Before
  <2>3. ASSUME Before(r, m, n) PROVE Before(q, m, n)
    <3>1. PICK g \in DOMAIN r, h \in DOMAIN r : g < h /\ r[g] = m /\ r[h] = n
      BY <2>3 DEF Before
    <3>2. g + 1 < h + 1
      BY <1>1, <3>1
    <3> QED BY <1>3, <3>1, <3>2 DEF Before
  <2> QED BY <2>1, <2>2, <2>3
<1> QED BY <1>5, <1>6 DEF r

LEMMA NumbersFacts ==
  ASSUME NEW d \in Seq(Message)
  PROVE  /\ Numbers(d) \in Seq(Nat)
         /\ \A m \in Message : Numbers(Append(d, m)) = Append(Numbers(d), m.number)
         /\ d # <<>> => /\ Numbers(d) # <<>> /\ Head(Numbers(d)) = Head(d).number
                        /\ Numbers(Tail(d)) = Tail(Numbers(d))
<1>1. Numbers(d) \in Seq(Nat) /\ Len(Numbers(d)) = Len(d)
  <2>1. Len(d) \in Nat /\ DOMAIN d = 1..Len(d) /\ \A i \in 1..Len(d) : d[i] \in Message
    OBVIOUS
  <2>2. Numbers(d) \in [1..Len(d) -> Nat]
    BY <2>1 DEF Numbers, Message
  <2> QED BY <2>1, <2>2
<1>2. ASSUME NEW m \in Message
      PROVE  Numbers(Append(d, m)) = Append(Numbers(d), m.number)
  BY <1>1 DEF Numbers, Message
<1>3. ASSUME d # <<>>
      PROVE  /\ Numbers(d) # <<>> /\ Head(Numbers(d)) = Head(d).number
             /\ Numbers(Tail(d)) = Tail(Numbers(d))
  BY <1>1, <1>3 DEF Numbers
<1> QED BY <1>1, <1>2, <1>3

(* A socket that loses all it has shown, or all that is on its way to it.  *)
LEMMA FollowsEmptied ==
  ASSUME NEW s, NEW t, t.shown \in {s.shown, <<>>}, t.down \in {s.down, <<>>}, NEW k
  PROVE  Follows(t, s, k)
  BY EmptyHolds DEF Follows, Knows, Comes

(* A message is put at the end of what is on its way to a page.            *)
LEMMA FollowsAppended ==
  ASSUME NEW s \in SocketType, NEW t, NEW m \in Message,
         t.shown = s.shown, t.down = Append(s.down, m)
  PROVE  Follows(t, s, m.number)
<1> DEFINE d == Numbers(s.down)
           k == m.number
<1>1. d \in Seq(Nat) /\ k \in Nat /\ Numbers(t.down) = Append(d, k)
  BY NumbersFacts DEF SocketType, Message
<1> HIDE DEF d, k
<1>2. \A n, l : /\ Holds(Append(d, k), n) <=> Holds(d, n) \/ n = k
                /\ Before(Append(d, k), n, l) <=> Before(d, n, l) \/ (Holds(d, n) /\ l = k)
  BY <1>1, AppendHolds
<1>3. d = Numbers(s.down) /\ k = m.number
  BY DEF d, k
<1> QED BY <1>1, <1>2, <1>3 DEF Follows, Knows, Comes

(* A message reaches a page: it is shown or dropped, and those behind it   *)
(* move up.                                                                *)
LEMMA FollowsHeard ==
  ASSUME NEW s \in SocketType, NEW t, s.down # <<>>, t.down = Tail(s.down),
         t.shown = Append(s.shown, Head(s.down).number) \/ t.shown = s.shown
  PROVE  Follows(t, s, 0)
<1> DEFINE d == Numbers(s.down)
           x == Head(s.down).number
<1>1. /\ d \in Seq(Nat) /\ d # <<>> /\ Numbers(t.down) = Tail(d) /\ Head(d) = x
      /\ x \in Nat /\ s.shown \in Seq(Nat)
  <2>1. s.down \in Seq(Message) /\ s.shown \in Seq(Nat \ {0})
    BY DEF SocketType
  <2>3. s.shown \in [1..Len(s.shown) -> Nat] /\ Len(s.shown) \in Nat
    BY <2>1
  <2>4. s.shown \in Seq(Nat)
    BY <2>3
  <2>2. Head(s.down) \in Message
    BY <2>1
  <2> QED BY <2>1, <2>2, <2>4, NumbersFacts DEF Message
<1> HIDE DEF d, x
<1>2. \A n, l : /\ Holds(d, n) <=> n = x \/ Holds(Tail(d), n)
                /\ Before(d, n, l) <=> (n = x /\ Holds(Tail(d), l)) \/ Before(Tail(d), n, l)
  BY <1>1, TailHolds
<1>3. \A n, l : /\ Holds(Append(s.shown, x), n) <=> Holds(s.shown, n) \/ n = x
                /\ Before(Append(s.shown, x), n, l) <=>
                     Before(s.shown, n, l) \/ (Holds(s.shown, n) /\ l = x)
  BY <1>1, AppendHolds
<1>4. d = Numbers(s.down) /\ x = Head(s.down).number
  BY DEF d, x
<1> QED BY <1>1, <1>2, <1>3, <1>4 DEF Follows, Knows, Comes

LEMMA FollowsSame ==
  ASSUME NEW s, NEW k
  PROVE  Follows(s, s, k)
  BY DEF Follows

LEMMA FollowsAny ==
  ASSUME NEW s, NEW t, Follows(t, s, 0), NEW k
  PROVE  Follows(t, s, k)
  BY DEF Follows, Knows, Comes

LEMMA ComesKnown ==
  ASSUME NEW s, NEW m, NEW n, Comes(s, m, n)
  PROVE  m # 0 /\ n # 0 /\ Knows(s, m) /\ Knows(s, n)
  BY DEF Comes, Knows, Holds, Before

(* The order is kept by every step that puts at most one message at the    *)
(* end of what is on its way, and that one is new to all.                  *)
LEMMA OrderKept ==
  ASSUME OrderInv, NEW k \in Nat,
         \A t \in Tabs : Follows(socket'[t], socket[t], k),
         k # 0 => \A t \in Tabs : ~Knows(socket[t], k)
  PROVE  OrderInv'
<1> SUFFICES ASSUME NEW t \in Tabs, NEW c \in Tabs, NEW m \in Nat, NEW n \in Nat,
                    Comes(socket'[t], m, n), Comes(socket'[c], n, m)
             PROVE  FALSE
  BY DEF OrderInv
<1>1. m # 0 /\ n # 0
  BY ComesKnown
<1>2. /\ Comes(socket[t], m, n) \/ (n = k /\ Knows(socket[t], m))
      /\ Comes(socket[c], n, m) \/ (m = k /\ Knows(socket[c], n))
  BY DEF Follows
<1>3. CASE n = k /\ Knows(socket[t], m)
  BY <1>1, <1>2, <1>3, ComesKnown
<1>4. CASE m = k /\ Knows(socket[c], n)
  BY <1>1, <1>2, <1>4, ComesKnown
<1> QED BY <1>2, <1>3, <1>4 DEF OrderInv

(* What waits in a page stays, loses its head, or is lost.                 *)
UpKept(t) == socket'[t].up \in {socket[t].up, Tail(socket[t].up), <<>>}

LEMMA FreshKept ==
  ASSUME TypeInv, FreshInv, NEW k \in Nat, steps' \in Nat, steps <= steps',
         \A t \in Tabs : UpKept(t) /\ Follows(socket'[t], socket[t], k),
         k # 0 => k <= steps /\ \A t \in Tabs : \A i \in DOMAIN socket'[t].up :
                                  socket'[t].up[i].number # k
  PROVE  FreshInv'
<1>1. socket \in [Tabs -> SocketType] /\ steps \in Nat
  BY DEF TypeInv
<1>2. ASSUME NEW t \in Tabs
      PROVE  \E d \in {0, 1} : \A i \in DOMAIN socket'[t].up :
               /\ i \in Nat /\ i + d \in DOMAIN socket[t].up
               /\ socket'[t].up[i] = socket[t].up[i + d]
  <2>1. socket[t].up \in Seq(Message)
    BY <1>1 DEF SocketType
  <2>2. CASE socket'[t].up = socket[t].up
    <3>1. \A i \in DOMAIN socket'[t].up :
               /\ i \in Nat /\ i + 0 \in DOMAIN socket[t].up
               /\ socket'[t].up[i] = socket[t].up[i + 0]
      BY <2>1, <2>2
    <3> QED BY <3>1
  <2>3. CASE socket'[t].up = <<>>
    BY <2>3
  <2>4. CASE socket'[t].up = Tail(socket[t].up) /\ socket[t].up # <<>>
    <3>1. \A i \in DOMAIN socket'[t].up :
               /\ i \in Nat /\ i + 1 \in DOMAIN socket[t].up
               /\ socket'[t].up[i] = socket[t].up[i + 1]
      BY <2>1, <2>4
    <3> QED BY <3>1
  <2>5. CASE socket'[t].up = Tail(socket[t].up) /\ socket[t].up = <<>>
    <3>1. Tail(<<>>) = <<>>
      OBVIOUS
    <3> QED BY <3>1, <2>3, <2>5
  <2> QED BY <2>2, <2>3, <2>4, <2>5 DEF UpKept
<1>3. ASSUME NEW t \in Tabs, NEW i \in DOMAIN socket'[t].up PROVE Unheard(t, i)'
  <2> DEFINE m == socket'[t].up[i].number
  <2>1. PICK d \in {0, 1} : \A j \in DOMAIN socket'[t].up :
               /\ j \in Nat /\ j + d \in DOMAIN socket[t].up
               /\ socket'[t].up[j] = socket[t].up[j + d]
    BY <1>2
  <2>2. Unheard(t, i + d) /\ m = socket[t].up[i + d].number
    BY <2>1 DEF FreshInv
  <2>3. m \in 1..steps /\ m \in 1..steps' /\ m \in Nat /\ m # 0
    BY <1>1, <2>2 DEF Unheard
  <2>4. m # k
    BY <2>3
  <2>5. \A c \in Tabs : ~Knows(socket'[c], m)
    BY <2>2, <2>3, <2>4 DEF Follows, Unheard
  <2>6. ASSUME NEW c \in Tabs, NEW j \in DOMAIN socket'[c].up, socket'[c].up[j].number = m
        PROVE  t = c /\ i = j
    <3>1. PICK e \in {0, 1} : \A h \in DOMAIN socket'[c].up :
               /\ h \in Nat /\ h + e \in DOMAIN socket[c].up
               /\ socket'[c].up[h] = socket[c].up[h + e]
      BY <1>2
    <3>2. t = c /\ i + d = j + e
      BY <2>2, <2>6, <3>1 DEF Unheard
    <3>3. socket'[t].up[i] = socket'[t].up[j] /\ i \in Nat /\ j \in Nat
      BY <2>1, <3>1, <3>2
    <3>4. socket[t].up[j + d].number = m /\ j + d \in DOMAIN socket[t].up
      BY <2>1, <2>6, <3>2
    <3>5. j + d = i + d
      BY <2>2, <3>4 DEF Unheard
    <3> QED BY <3>2, <3>3, <3>5
  <2> HIDE DEF m
  <2>7. m = socket'[t].up[i].number
    BY DEF m
  <2> QED BY <2>3, <2>5, <2>6, <2>7 DEF Unheard
<1>4. ASSUME NEW t \in Tabs, NEW m \in Nat, Knows(socket'[t], m) PROVE m <= steps'
  <2>1. m # 0 /\ (Knows(socket[t], m) \/ m = k)
    BY <1>4 DEF Follows, Knows
  <2>2. m <= steps
    BY <2>1 DEF FreshInv
  <2> QED BY <1>1, <2>2
<1> QED BY <1>3, <1>4 DEF FreshInv

(* A message that a page sends is new to all.                              *)
LEMMA SendOrder ==
  ASSUME TypeInv, OrderInv, FreshInv, NEW t \in Tabs, SendMessage(t)
  PROVE  OrderInv' /\ FreshInv'
<1>1. socket \in [Tabs -> SocketType] /\ steps \in Nat /\ steps' = steps + 1
  BY DEF TypeInv, SendMessage, Step
<1> DEFINE m == [number |-> steps', username |-> None, sender |-> page[t].user,
                 astray |-> FALSE]
           up == Append(socket[t].up, m)
<1>2. socket' = [socket EXCEPT ![t] = [socket[t] EXCEPT !.up = up]]
  BY <1>1 DEF SendMessage, SocketType
<1>3. m.number = steps + 1
  BY <1>1
<1>4. /\ socket[t].up \in Seq(Message) /\ Len(socket[t].up) \in Nat
      /\ DOMAIN socket[t].up = 1..Len(socket[t].up)
  BY <1>1 DEF SocketType
<1>5. /\ DOMAIN up = 1..(Len(socket[t].up) + 1) /\ up[Len(socket[t].up) + 1] = m
      /\ \A i \in 1..Len(socket[t].up) : up[i] = socket[t].up[i]
  BY <1>4
<1> HIDE DEF m, up
<1>6. /\ \A c \in Tabs : socket'[c].shown = socket[c].shown /\ socket'[c].down = socket[c].down
      /\ \A c \in Tabs \ {t} : socket'[c] = socket[c]
      /\ socket'[t].up = up
  BY <1>1, <1>2 DEF SocketType
<1>7. \A c \in Tabs : Follows(socket'[c], socket[c], 0)
  BY <1>6, FollowsEmptied
<1>8. OrderInv'
  BY <1>7, OrderKept
<1>9. \A c \in Tabs : \A n \in Nat : Knows(socket'[c], n) <=> Knows(socket[c], n)
  BY <1>6 DEF Knows
<1>10. ASSUME NEW c \in Tabs, NEW i \in DOMAIN socket'[c].up
       PROVE  \/ i \in DOMAIN socket[c].up /\ socket'[c].up[i] = socket[c].up[i]
                 /\ Unheard(c, i) /\ socket'[c].up[i].number \in 1..steps
              \/ /\ c = t /\ i = Len(socket[t].up) + 1
                 /\ socket'[c].up[i].number = steps + 1
  <2>1. CASE c = t /\ i = Len(socket[t].up) + 1
    BY <1>3, <1>5, <1>6, <2>1
  <2>2. CASE ~(c = t /\ i = Len(socket[t].up) + 1)
    <3>1. i \in DOMAIN socket[c].up /\ socket'[c].up[i] = socket[c].up[i]
      BY <1>4, <1>5, <1>6, <2>2
    <3> QED BY <3>1 DEF FreshInv, Unheard
  <2> QED BY <2>1, <2>2
<1>11. ASSUME NEW c \in Tabs, NEW i \in DOMAIN socket'[c].up PROVE Unheard(c, i)'
  <2> DEFINE n == socket'[c].up[i].number
  <2>1. n \in 1..(steps + 1) /\ n \in Nat
    BY <1>1, <1>10
  <2>2. \A d \in Tabs : ~Knows(socket'[d], n)
    <3>1. CASE n = steps + 1
      BY <1>1, <1>9, <2>1, <3>1 DEF FreshInv
    <3>2. CASE n # steps + 1
      BY <1>9, <1>10, <2>1, <3>2 DEF Unheard
    <3> QED BY <3>1, <3>2
  <2>3. ASSUME NEW d \in Tabs, NEW j \in DOMAIN socket'[d].up,
               socket'[d].up[j].number = n
        PROVE  c = d /\ i = j
    <3>1. CASE n = steps + 1
      BY <1>1, <1>10, <2>3, <3>1
    <3>2. CASE n # steps + 1
      <4>1. /\ i \in DOMAIN socket[c].up /\ socket[c].up[i].number = n /\ Unheard(c, i)
            /\ j \in DOMAIN socket[d].up /\ socket[d].up[j].number = n
        BY <1>10, <2>3, <3>2
      <4> QED BY <4>1 DEF Unheard
    <3> QED BY <3>1, <3>2
  <2> HIDE DEF n
  <2>4. n = socket'[c].up[i].number
    BY DEF n
  <2> QED BY <1>1, <2>1, <2>2, <2>3, <2>4 DEF Unheard
<1>12. ASSUME NEW c \in Tabs, NEW n \in Nat, Knows(socket'[c], n) PROVE n <= steps'
  BY <1>1, <1>9, <1>12 DEF FreshInv
<1>13. FreshInv'
  BY <1>11, <1>12 DEF FreshInv
<1> QED BY <1>8, <1>13

(* What the server sends to all.                                           *)
LEMMA EmitFollows ==
  ASSUME NEW sockets \in [Tabs -> SocketType], NEW from, NEW m \in Message,
         NEW t \in Tabs, NEW s \in SocketType,
         s.shown = sockets[t].shown, s.down = sockets[t].down
  PROVE  /\ Follows(Emit(sockets, from, m)[t], s, m.number)
         /\ Emit(sockets, from, m)[t].up = sockets[t].up
<1> DEFINE e == Emit(sockets, from, m)[t]
<1>1. /\ e.up = sockets[t].up /\ e.shown = s.shown
      /\ e.down = s.down \/ e.down = Append(s.down, m)
  BY EmitFacts
<1> HIDE DEF e
<1>2. CASE e.down = s.down
  <2>1. e.shown \in {s.shown, <<>>} /\ e.down \in {s.down, <<>>}
    BY <1>1, <1>2
  <2>2. Follows(e, s, m.number)
    BY <2>1, FollowsEmptied
  <2> QED BY <1>1, <2>2 DEF e
<1>3. CASE e.down = Append(s.down, m)
  <2>1. Follows(e, s, m.number)
    BY <1>1, <1>3, FollowsAppended
  <2> QED BY <1>1, <2>1 DEF e
<1> QED BY <1>1, <1>2, <1>3

LEMMA DisconnectFollows ==
  ASSUME TypeInv, NEW t \in Tabs, NEW next \in SocketType, next.pc # "open",
         next.up = <<>>, next.shown \in {socket[t].shown, <<>>}, next.down = <<>>,
         socket' = Disconnect(socket, t, next)
  PROVE  \A c \in Tabs : UpKept(c) /\ Follows(socket'[c], socket[c], 0)
<1>1. socket \in [Tabs -> SocketType]
  BY DEF TypeInv
<1> DEFINE bye == Status(t, socket[t].user)
<1>2. bye \in Message /\ bye.number = 0
  BY <1>1, StatusType DEF SocketType
<1> HIDE DEF bye
<1>3. UpKept(t) /\ Follows(socket'[t], socket[t], 0)
  <2>1. socket'[t] = next
    BY <1>1, DisconnectFacts
  <2> QED BY <2>1, FollowsEmptied DEF UpKept
<1>4. ASSUME NEW c \in Tabs \ {t} PROVE UpKept(c) /\ Follows(socket'[c], socket[c], 0)
  <2>1. /\ socket'[c].up = socket[c].up /\ socket'[c].shown = socket[c].shown
        /\ socket'[c].down = socket[c].down \/ socket'[c].down = Append(socket[c].down, bye)
    BY <1>1, DisconnectFacts DEF bye
  <2>2. socket[c] \in SocketType
    BY <1>1
  <2>3. CASE socket'[c].down = socket[c].down
    BY <2>1, <2>3, FollowsEmptied DEF UpKept
  <2>4. CASE socket'[c].down = Append(socket[c].down, bye)
    <3>1. Follows(socket'[c], socket[c], bye.number)
      BY <1>2, <2>1, <2>2, <2>4, FollowsAppended
    <3> QED BY <1>2, <2>1, <3>1 DEF UpKept
  <2> QED BY <2>1, <2>3, <2>4
<1> QED BY <1>3, <1>4

LEMMA LeaveFollows ==
  ASSUME TypeInv, NEW t \in Tabs, NEW u \in Someone, Leave(t, u)
  PROVE  \A c \in Tabs : UpKept(c) /\ Follows(socket'[c], socket[c], 0)
<1>1. /\ Connect(u) \in SocketType /\ Connect(u).pc # "open"
      /\ Connect(u).up = <<>> /\ Connect(u).down = <<>> /\ Connect(u).shown = <<>>
  BY ConnectType
<1>2. socket' = Disconnect(socket, t, Connect(u))
  BY LeaveFacts
<1> QED BY <1>1, <1>2, DisconnectFollows

LEMMA TurnFollows ==
  ASSUME TypeInv, NEW t \in Tabs, NEW p \in PageType, Turn(t, p)
  PROVE  \A c \in Tabs : UpKept(c) /\ Follows(socket'[c], socket[c], 0)
<1>1. /\ \A c \in Tabs \ {t} : socket'[c] = socket[c]
      /\ \/ socket'[t] = Connect(p.user)
         \/ /\ socket'[t].up = socket[t].up /\ socket'[t].down = socket[t].down
            /\ socket'[t].shown \in {socket[t].shown, <<>>}
  BY TurnFacts
<1>2. /\ Connect(p.user).up = <<>> /\ Connect(p.user).down = <<>>
      /\ Connect(p.user).shown = <<>>
  BY ConnectType DEF PageType
<1>3. \A c \in Tabs \ {t} : UpKept(c) /\ Follows(socket'[c], socket[c], 0)
  BY <1>1, FollowsSame DEF UpKept
<1>4. /\ socket'[t].up \in {socket[t].up, <<>>} /\ socket'[t].down \in {socket[t].down, <<>>}
      /\ socket'[t].shown \in {socket[t].shown, <<>>}
  BY <1>1, <1>2
<1>5. UpKept(t) /\ Follows(socket'[t], socket[t], 0)
  BY <1>4, FollowsEmptied DEF UpKept
<1> QED BY <1>3, <1>5

(* The chat's own steps, but for the sending.                              *)
LEMMA ChatOrder ==
  ASSUME TypeInv, OrderInv, FreshInv, NEW t \in Tabs,
         Handshake(t) \/ Drop(t) \/ Relay(t) \/ Hear(t)
  PROVE  OrderInv' /\ FreshInv'
<1>1. socket \in [Tabs -> SocketType] /\ steps \in Nat /\ socket[t] \in SocketType
  BY DEF TypeInv
<1>2. steps' \in Nat /\ steps <= steps'
  BY <1>1 DEF Handshake, Drop, Relay, Hear, Step
<1>3. ASSUME \A c \in Tabs : UpKept(c) /\ Follows(socket'[c], socket[c], 0)
      PROVE  OrderInv' /\ FreshInv'
  BY <1>2, <1>3, OrderKept, FreshKept
<1>4. CASE Handshake(t)
  <2> DEFINE u == SignedIn(t)
             open == [socket EXCEPT ![t].pc = "open", ![t].user = u]
             refused == [socket EXCEPT ![t].pc = "refused", ![t].up = <<>>]
  <2>1. u \in Someone
    BY SignedInType
  <2>2. open \in [Tabs -> SocketType]
    BY <1>1, <2>1 DEF SocketType
  <2>3. \A c \in Tabs : /\ open[c].up = socket[c].up /\ open[c].down = socket[c].down
                            /\ open[c].shown = socket[c].shown
    BY <1>1 DEF SocketType
  <2>4. \A c \in Tabs : /\ refused[c].up \in {socket[c].up, <<>>}
                            /\ refused[c].down = socket[c].down
                            /\ refused[c].shown = socket[c].shown
    BY <1>1 DEF SocketType
  <2>5. Status(t, u) \in Message /\ Status(t, u).number = 0
    BY <2>1, StatusType
  <2>6. socket' = refused \/ socket' = Emit(open, t, Status(t, u))
    BY <1>4 DEF Handshake
  <2> HIDE DEF open, refused, u
  <2>7. CASE socket' = refused
    BY <2>4, <2>7, <1>3, FollowsEmptied DEF UpKept
  <2>8. CASE socket' = Emit(open, t, Status(t, u))
    <3>1. ASSUME NEW c \in Tabs PROVE UpKept(c) /\ Follows(socket'[c], socket[c], 0)
      <4>1. socket[c] \in SocketType
        BY <1>1
      <4>2. /\ Follows(Emit(open, t, Status(t, u))[c], socket[c], Status(t, u).number)
            /\ Emit(open, t, Status(t, u))[c].up = open[c].up
        BY <2>2, <2>3, <2>5, <4>1, EmitFollows
      <4> QED BY <2>3, <2>5, <2>8, <4>2 DEF UpKept
    <3> QED BY <3>1, <1>3
  <2> QED BY <2>6, <2>7, <2>8
<1>5. CASE Drop(t)
  <2> DEFINE next == [Connecting EXCEPT !.shown = socket[t].shown]
  <2>1. /\ Connecting \in SocketType /\ Connecting.pc = "connecting"
        /\ Connecting.up = <<>> /\ Connecting.down = <<>>
    <3>1. Connecting \in SocketType /\ None \in Someone
      BY ConnectType DEF Someone
    <3> QED BY <3>1 DEF Connecting, NoSocket
  <2>2. /\ next \in SocketType /\ next.pc # "open" /\ next.shown = socket[t].shown
        /\ next.up = <<>> /\ next.down = <<>>
    BY <1>1, <2>1 DEF SocketType
  <2>3. socket' = Disconnect(socket, t, next)
    BY <1>5 DEF Drop
  <2> HIDE DEF next
  <2> QED BY <2>2, <2>3, <1>3, DisconnectFollows
<1>6. CASE Relay(t)
  <2> DEFINE h == Head(socket[t].up)
             m == [h EXCEPT !.username = socket[t].user, !.astray = page[t].astray]
             read == [socket EXCEPT ![t].up = Tail(@)]
             k == h.number
  <2>1. /\ socket[t].up \in Seq(Message) /\ socket[t].up # <<>>
        /\ h \in Message /\ Tail(socket[t].up) \in Seq(Message)
    BY <1>1, <1>6 DEF Relay, SocketType
  <2>2. m \in Message /\ m.number = k /\ k \in Nat
    BY <1>1, <2>1 DEF Message, SocketType, TypeInv, PageType
  <2>3. read \in [Tabs -> SocketType]
    BY <1>1, <2>1 DEF SocketType
  <2>4. /\ \A c \in Tabs : /\ read[c].down = socket[c].down
                               /\ read[c].shown = socket[c].shown
        /\ \A c \in Tabs \ {t} : read[c].up = socket[c].up
        /\ read[t].up = Tail(socket[t].up)
    BY <1>1, <2>1 DEF SocketType
  <2>5. socket' = Emit(read, t, m)
    BY <1>6 DEF Relay
  <2>6. 1 \in DOMAIN socket[t].up /\ socket[t].up[1].number = k
    BY <2>1
  <2>7. /\ k \in 1..steps /\ \A c \in Tabs : ~Knows(socket[c], k)
        /\ \A c \in Tabs : \A j \in DOMAIN socket[c].up :
             socket[c].up[j].number = k => t = c /\ j = 1
    BY <2>6 DEF FreshInv, Unheard
  <2> HIDE DEF h, m, read, k
  <2>8. ASSUME NEW c \in Tabs
        PROVE  Follows(socket'[c], socket[c], k) /\ socket'[c].up = read[c].up
    <3>1. socket[c] \in SocketType
      BY <1>1
    <3>2. /\ Follows(Emit(read, t, m)[c], socket[c], m.number)
          /\ Emit(read, t, m)[c].up = read[c].up
      BY <2>2, <2>3, <2>4, <3>1, EmitFollows
    <3> QED BY <2>2, <2>5, <3>2
  <2>9. \A c \in Tabs : UpKept(c)
    BY <2>4, <2>8 DEF UpKept
  <2>10. ASSUME NEW c \in Tabs, NEW i \in DOMAIN socket'[c].up
         PROVE  socket'[c].up[i].number # k
    <3>1. CASE c # t
      BY <2>4, <2>7, <2>8, <3>1
    <3>2. CASE c = t
      <4>1. i + 1 \in DOMAIN socket[t].up /\ i + 1 # 1
            /\ socket'[t].up[i] = socket[t].up[i + 1]
        <5>1. i \in DOMAIN Tail(socket[t].up) /\ socket'[t].up = Tail(socket[t].up)
          BY <2>4, <2>8, <2>10, <3>2
        <5> QED BY <2>1, <5>1
      <4> QED BY <2>7, <3>2, <4>1
    <3> QED BY <3>1, <3>2
  <2>11. OrderInv'
    BY <2>2, <2>7, <2>8, OrderKept
  <2>12. k <= steps
    BY <1>1, <2>7
  <2>13. FreshInv'
    BY <1>2, <2>2, <2>8, <2>9, <2>10, <2>12, FreshKept
  <2> QED BY <2>11, <2>13
<1>7. CASE Hear(t)
  <2> DEFINE x == Head(socket[t].down).number
             heard == IF page[t].view = "chat" /\ x # 0
                        THEN Append(socket[t].shown, x) ELSE socket[t].shown
  <2>1. socket' = [socket EXCEPT ![t] = [socket[t] EXCEPT !.down = Tail(@), !.shown = heard]]
        /\ socket[t].down # <<>>
    BY <1>1, <1>7 DEF Hear, SocketType
  <2>2. heard \in {Append(socket[t].shown, x), socket[t].shown}
    OBVIOUS
  <2> HIDE DEF heard
  <2>3. /\ \A c \in Tabs \ {t} : socket'[c] = socket[c]
        /\ socket'[t].up = socket[t].up /\ socket'[t].down = Tail(socket[t].down)
        /\ socket'[t].shown = heard
    BY <1>1, <2>1 DEF SocketType
  <2>4. Follows(socket'[t], socket[t], 0)
    BY <1>1, <2>1, <2>2, <2>3, FollowsHeard
  <2>5. \A c \in Tabs \ {t} : Follows(socket'[c], socket[c], 0)
    BY <2>3, FollowsSame
  <2> QED BY <1>3, <2>3, <2>4, <2>5 DEF UpKept
<1> QED BY <1>4, <1>5, <1>6, <1>7

LEMMA OrderStep == TypeInv /\ OrderInv /\ FreshInv /\ [Next]_vars => OrderInv' /\ FreshInv'
<1> SUFFICES ASSUME TypeInv, OrderInv, FreshInv, [Next]_vars PROVE OrderInv' /\ FreshInv'
  OBVIOUS
<1>1. steps \in Nat
  BY DEF TypeInv
<1>2. ASSUME \A c \in Tabs : UpKept(c) /\ Follows(socket'[c], socket[c], 0),
             steps' \in {steps, steps + 1}
      PROVE  OrderInv' /\ FreshInv'
  <2>1. steps' \in Nat /\ steps <= steps'
    BY <1>1, <1>2
  <2> QED BY <1>2, <2>1, OrderKept, FreshKept
<1>3. ASSUME UNCHANGED socket, steps' \in {steps, steps + 1} PROVE OrderInv' /\ FreshInv'
  <2>1. \A c \in Tabs : UpKept(c) /\ Follows(socket'[c], socket[c], 0)
    BY <1>3, FollowsSame DEF UpKept
  <2> QED BY <1>2, <1>3, <2>1
<1>4. ASSUME NEW t \in Tabs, Surf(t) PROVE OrderInv' /\ FreshInv'
  <2>1. CASE LoadPage(t) \/ Signout(t)
    <3>1. PICK u \in Someone : Leave(t, u)
      BY <2>1, SignedInType DEF LoadPage, Signout, Someone
    <3>2. steps' \in {steps, steps + 1}
      BY <2>1 DEF LoadPage, Signout, Step
    <3> QED BY <3>1, <3>2, <1>2, LeaveFollows
  <2>2. ASSUME NEW view \in Visited, Go(t, view) PROVE OrderInv' /\ FreshInv'
    <3>1. "forbidden" \in Views /\ view \in Views /\ page[t] \in PageType
      BY VisitedAssumption DEF Views, CoreViews, TypeInv
    <3>2. Turn(t, page[t])
      BY <2>2, <3>1 DEF Go, Turn
    <3>3. steps' \in {steps, steps + 1}
      BY <2>2 DEF Go, Step
    <3> QED BY <3>1, <3>2, <3>3, <1>2, TurnFollows
  <2>3. CASE SendArticle(t) \/ SendRead(t) \/ SendRemoveProvider(t) \/ SendSignin(t)
    <3>1. UNCHANGED socket
      BY <2>3, SendStep
    <3>2. steps' \in {steps, steps + 1}
      BY <2>3 DEF SendArticle, SendRead, SendRemoveProvider, SendSignin, Send, Step
    <3> QED BY <3>1, <3>2, <1>3
  <2>4. CASE SendMessage(t)
    BY <2>4, SendOrder
  <2> QED BY <1>4, <2>1, <2>2, <2>3, <2>4 DEF Surf
<1>5. ASSUME NEW t \in Tabs, Serve(t) PROVE OrderInv' /\ FreshInv'
  <2>1. CASE Handshake(t) \/ Relay(t) \/ Hear(t)
    BY <2>1, ChatOrder
  <2>2. CASE \/ Signin(t) \/ Read(t) \/ RemoveProvider(t) \/ Receive(t)
             \/ Load(t) \/ Save(t) \/ SaveFails(t)
    BY <2>2, <1>3 DEF Signin, Read, RemoveProvider, Receive, Load, Save, SaveFails
  <2>3. CASE Answer(t)
    <3>1. UNCHANGED steps
      BY <2>3 DEF Answer
    <3>2. CASE UNCHANGED <<page, socket>>
      BY <3>1, <3>2, <1>3
    <3>3. ASSUME NEW p \in PageType, Turn(t, p) PROVE OrderInv' /\ FreshInv'
      BY <3>1, <3>3, <1>2, TurnFollows
    <3> QED BY <2>3, <3>2, <3>3, AnswerFacts
  <2> QED BY <1>5, <2>1, <2>2, <2>3 DEF Serve
<1>6. ASSUME NEW t \in Tabs, Drop(t) PROVE OrderInv' /\ FreshInv'
  BY <1>6, ChatOrder
<1>7. ASSUME NEW b \in Browsers, ExpireSession(b) PROVE OrderInv' /\ FreshInv'
  BY <1>7, <1>3 DEF ExpireSession, Step
<1>8. ASSUME NEW u \in Users, RemoveAccount(u) \/ ChangeRoles(u) PROVE OrderInv' /\ FreshInv'
  BY <1>8, <1>3 DEF RemoveAccount, ChangeRoles, Step
<1>9. CASE UNCHANGED vars
  BY <1>9, <1>3 DEF vars
<1> QED BY <1>4, <1>5, <1>6, <1>7, <1>8, <1>9 DEF Next

LEMMA InitOrder == Init => OrderInv /\ FreshInv
<1> SUFFICES ASSUME Init PROVE OrderInv /\ FreshInv
  OBVIOUS
<1>1. ASSUME NEW t \in Tabs
      PROVE  /\ socket[t].up = <<>> /\ socket[t].down = <<>> /\ socket[t].shown = <<>>
  BY SiteAssumption, ConnectType DEF Init, Someone, SessionOf
<1>2. \A t \in Tabs : \A m, n : ~Knows(socket[t], m) /\ ~Comes(socket[t], m, n)
  BY <1>1, EmptyHolds DEF Knows, Comes
<1>3. OrderInv
  BY <1>2 DEF OrderInv
<1>4. FreshInv
  BY <1>1, <1>2 DEF FreshInv
<1> QED BY <1>3, <1>4

(* Whatever the number of browsers and messages, and however often         *)
(* connections break: two chat views never show two messages in opposite   *)
(* orders.                                                                 *)
THEOREM SameOrderHolds == Spec => []SameOrder
<1>1. ASSUME TypeInv, FreshInv, OrderInv PROVE SameOrder
  <2> SUFFICES ASSUME NEW t \in Tabs, NEW c \in Tabs,
                      NEW i \in DOMAIN socket[t].shown, NEW j \in DOMAIN socket[t].shown,
                      i < j, Before(socket[c].shown, socket[t].shown[j], socket[t].shown[i])
               PROVE  FALSE
    BY DEF SameOrder
  <2> DEFINE m == socket[t].shown[i]
             n == socket[t].shown[j]
  <2>1. m \in Nat \ {0} /\ n \in Nat \ {0}
    <3>1. socket[t].shown \in Seq(Nat \ {0})
      BY <1>1 DEF TypeInv, SocketType
    <3> QED BY <3>1
  <2>2. Before(socket[t].shown, m, n)
    BY DEF Before
  <2>3. Before(socket[c].shown, n, m)
    OBVIOUS
  <2> HIDE DEF m, n
  <2>4. Comes(socket[t], m, n) /\ Comes(socket[c], n, m)
    BY <2>1, <2>2, <2>3 DEF Comes
  <2> QED BY <1>1, <2>1, <2>4 DEF OrderInv
<1> QED BY <1>1, InitOrder, OrderStep, TypeCorrect, PTL DEF Spec
=============================================================================
