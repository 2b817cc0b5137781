-------------------------------- MODULE Site --------------------------------
(***************************************************************************)
(* The MEAN.JS site as its visitors use it: the views of the single page   *)
(* and the roles they ask for, the articles with their access policy, and  *)
(* the chat over Socket.io (clefos/meanjs/files/modules/core, articles and *)
(* chat, config/lib/socket.io.js).                                         *)
(*                                                                         *)
(* Three copies of "who is signed in" are kept apart by the code and may   *)
(* disagree: the session in the database, which all tabs of a browser      *)
(* share, every request reads when it comes in and writes back when it     *)
(* ends; the user in the page of a tab, put there when the page was        *)
(* rendered or by a sign-in; and the user of the tab's socket, read once   *)
(* at its handshake.                                                       *)
(***************************************************************************)
EXTENDS Naturals, Sequences, FiniteSets

CONSTANTS
  Users, Browsers, Tabs, Articles,
  BrowserOf,        \* the browser of each tab
  InitialRoles,     \* the roles of each account at first
  InitialAuthors,   \* the articles there are at first, with their authors
  InitialSessions,  \* who may be signed in at first
  Visited,          \* bound: the views users go to of themselves
  MaxSteps,         \* bound: what users do and what befalls them
  None

ASSUME SiteAssumption ==
  /\ InitialRoles \in [Users -> SUBSET {"user", "admin"}]
  /\ DOMAIN InitialAuthors \subseteq Articles
  /\ \A a \in DOMAIN InitialAuthors : InitialAuthors[a] \in Users
  /\ BrowserOf \in [Tabs -> Browsers]
  /\ InitialSessions \subseteq [Browsers -> Users \cup {None}]
  /\ MaxSteps \in Nat
  /\ None \notin Users

VARIABLES
  roles,     \* from the accounts there are to their roles
  session,   \* the account each browser's session is signed in to, or None
  page,      \* the page each tab has open; it is astray once the session
             \* has been another user's than its own, or a 401 has taken its
             \* user out, until the tab loads a page again
  call,      \* the request of each tab that is under way
  articles,  \* the articles there have been: the author, what it says, and
             \* whether it is still there
  socket,    \* the socket of each page, on both ends
  steps      \* how many steps of users there have been

vars == <<roles, session, page, call, articles, socket, steps>>

(* The views of each module, and those whose state lists roles.            *)
CoreViews    == {"home", "forbidden"}
UserViews    == {"settings.accounts", "authentication.signin"}
ArticleViews == {"articles.list", "articles.create", "articles.edit", "articles.view"}
ChatViews    == {"chat"}
Views   == CoreViews \cup UserViews \cup ArticleViews \cup ChatViews
Guarded == Views \ (CoreViews \cup {"articles.list", "articles.view",
                                   "authentication.signin"})

ASSUME VisitedAssumption == Visited \subseteq Views

Step == steps < MaxSteps /\ steps' = steps + 1

SessionOf(t) == session[BrowserOf[t]]

(* passport.session: the user of a request.                                *)
SignedIn(t) == IF SessionOf(t) \in DOMAIN roles THEN SessionOf(t) ELSE None

RolesOf(u) == IF u \in DOMAIN roles THEN roles[u] ELSE {}

(***************************************************************************)
(* Whose session it is.  When a request signs somebody in, or writes back  *)
(* what it read, the pages of other users come astray, which no code sees. *)
(***************************************************************************)
Become(browser, u) ==
  /\ session' = [session EXCEPT ![browser] = u]
  /\ page' = [t \in Tabs |->
       IF BrowserOf[t] = browser /\ u # None /\ page[t].user \notin {None, u}
         THEN [page[t] EXCEPT !.astray = TRUE] ELSE page[t]]

(***************************************************************************)
(* The chat.  up and down hold the messages on their way from the page to  *)
(* the server and back, shown the numbers of those in the chat view, in    *)
(* the order they came.  A message knows the user its page had when it was *)
(* sent and whether the page was astray when the server put a name on it,  *)
(* which no code sees either.                                              *)
(***************************************************************************)
NoSocket   == [pc |-> "none", user |-> None, up |-> <<>>, down |-> <<>>, shown |-> <<>>]
Connecting == [NoSocket EXCEPT !.pc = "connecting"]

(* Socket.connect connects only when there is a user in the page.          *)
Connect(user) == IF user = None THEN NoSocket ELSE Connecting

(* The server's own message about a page: that it has come or gone.        *)
Status(t, user) == [number |-> 0, username |-> user, sender |-> page[t].user,
                    astray |-> page[t].astray]

(* Mutant: the sender's page shows its message at once; the others get it. *)
BroadcastToOthers(sockets, from, message) ==
  [t \in Tabs |->
     IF sockets[t].pc # "open" THEN sockets[t]
     ELSE IF t = from
       THEN [sockets[t] EXCEPT !.shown = IF message.number # 0 THEN Append(@, message.number)
                                         ELSE @]
     ELSE [sockets[t] EXCEPT !.down = Append(@, message)]]

(* io.emit: to every socket that is connected.                             *)
Emit(sockets, from, message) ==
  [t \in Tabs |-> IF sockets[t].pc = "open"
                        THEN [sockets[t] EXCEPT !.down = Append(@, message)]
                        ELSE sockets[t]]

(* A socket goes: what is on its way is lost, and the server tells the     *)
(* others.                                                                 *)
Disconnect(sockets, t, next) ==
  LET left == [sockets EXCEPT ![t] = next]
  IN  IF sockets[t].pc = "open" THEN Emit(left, t, Status(t, sockets[t].user)) ELSE left

(* io.use: the session of the browser is read, then its user; without one  *)
(* the socket is refused, for good.  Otherwise the user is the socket's.   *)
Handshake(t) ==
  /\ socket[t].pc = "connecting"
  /\ LET u == SignedIn(t)
         open == [socket EXCEPT ![t].pc = "open", ![t].user = u]
     IN  socket' = IF u = None THEN [socket EXCEPT ![t].pc = "refused", ![t].up = <<>>]
                   ELSE Emit(open, t, Status(t, u))
  /\ UNCHANGED <<roles, session, page, call, articles, steps>>

(* The connection breaks; the client library connects again.               *)
Drop(t) ==
  /\ Step
  /\ socket[t].pc = "open"
  /\ socket' = Disconnect(socket, t, [Connecting EXCEPT !.shown = socket[t].shown])
  /\ UNCHANGED <<roles, session, page, call, articles>>

(* ChatController.sendMessage; the library keeps what is sent while it     *)
(* connects.                                                               *)
SendMessage(t) ==
  /\ Step
  /\ page[t].view = "chat" /\ socket[t].pc \in {"connecting", "open"}
  /\ socket' = [socket EXCEPT ![t].up = Append(@,
       [number |-> steps', username |-> None, sender |-> page[t].user, astray |-> FALSE])]
  /\ UNCHANGED <<roles, session, page, call, articles>>

(* socket.on('chatMessage'): the server puts the name of the socket's user *)
(* on the message and sends it to all.                                     *)
Relay(t) ==
  /\ socket[t].pc = "open" /\ socket[t].up # <<>>
  /\ socket' = Emit([socket EXCEPT ![t].up = Tail(@)], t,
                    [Head(socket[t].up) EXCEPT !.username = socket[t].user,
                                               !.astray = page[t].astray])
  /\ UNCHANGED <<roles, session, page, call, articles, steps>>

(* A message reaches a page; without a chat view nobody listens.           *)
Hear(t) ==
  /\ socket[t].down # <<>>
  /\ LET m == Head(socket[t].down)
     IN  socket' = [socket EXCEPT
           ![t].down = Tail(@),
           ![t].shown = IF page[t].view = "chat" /\ m.number # 0 THEN Append(@, m.number) ELSE @]
  /\ UNCHANGED <<roles, session, page, call, articles, steps>>

(***************************************************************************)
(* Pages and views                                                         *)
(***************************************************************************)

(* Authentication.user of a page is the account and the roles it had.      *)
NewPage(u) == [user |-> u, roles |-> RolesOf(u), view |-> "home", previous |-> "home",
               astray |-> FALSE]

(* $stateChangeStart: a view whose state lists roles is for users who have *)
(* one of them.  Others are sent to 'forbidden', visitors too: the user in *)
(* their page is null, whose type is object.                               *)
Allowed(p, view) == view \in Guarded => p.roles \cap {"user", "admin"} # {}

(* ChatController: a new one makes sure there is a socket, and one that    *)
(* goes takes its listener and its messages with it.                       *)
ChatController(t, p, view) ==
  IF view = "chat" /\ socket[t].pc = "none" THEN Connect(p.user)
  ELSE IF view = page[t].view THEN socket[t]
  ELSE [socket[t] EXCEPT !.shown = <<>>]

(* The page goes from its view to another, and records where it comes from *)
(* unless that is to be ignored.                                           *)
Show(t, p, view) ==
  /\ page' = [page EXCEPT ![t] = [p EXCEPT
       !.view = view,
       !.previous = IF p.view \in {view, "forbidden"} THEN @ ELSE p.view]]
  /\ socket' = [socket EXCEPT ![t] = ChatController(t, p, view)]

Go(t, view) ==
  /\ Step
  /\ view \notin {page[t].view, "forbidden"}
  /\ view = "authentication.signin" => page[t].user = None
  /\ Show(t, page[t], IF Allowed(page[t], view) THEN view ELSE "forbidden")
  /\ UNCHANGED <<roles, session, call, articles>>

(* The tab opens the site anew: the server renders the page with the user  *)
(* of the session; what the old page waited for is no one's.               *)
Leave(t, u) ==
  /\ page' = [page EXCEPT ![t] = NewPage(u)]
  /\ call' = [call EXCEPT ![t].dropped = TRUE]
  /\ socket' = Disconnect(socket, t, Connect(u))

LoadPage(t) ==
  /\ Step
  /\ Leave(t, SignedIn(t))
  /\ UNCHANGED <<roles, session, articles>>

(* Mutant: signing out is a request of the page, which stays.              *)
SignoutInPage(t) ==
  /\ Step
  /\ page[t].user # None
  /\ session' = [session EXCEPT ![BrowserOf[t]] = None]
  /\ Show(t, [page[t] EXCEPT !.user = None, !.roles = {}], "authentication.signin")
  /\ UNCHANGED <<roles, call, articles>>

(* The link to signout leaves the page, and the server sends the browser   *)
(* to the home page.  The other tabs are not told.                         *)
Signout(t) ==
  /\ Step
  /\ page[t].user # None
  /\ session' = [session EXCEPT ![BrowserOf[t]] = None]
  /\ Leave(t, None)
  /\ UNCHANGED <<roles, articles>>

(***************************************************************************)
(* Requests of a page: one at a time is the bound.  user and roles are     *)
(* those read when the request came in, and those of the account after a   *)
(* sign-in; article is the one articleByID has loaded, or the account to   *)
(* sign in.                                                                *)
(***************************************************************************)
NoCall == [pc |-> "none", kind |-> "none", user |-> None, roles |-> {},
           article |-> None, content |-> 0, status |-> 0, dropped |-> FALSE]

Send(t, kind, article) ==
  /\ Step
  /\ call[t].pc = "none"
  /\ call' = [call EXCEPT ![t] = [NoCall EXCEPT !.pc = "sent", !.kind = kind,
                                                !.article = article,
                                                !.content = steps']]
  /\ UNCHANGED <<roles, session, page, articles, socket>>

(* The forms of the article views.  The button that removes an article is  *)
(* not shown to everybody, but the server does not rely on it.             *)
SendArticle(t) ==
  \/ page[t].view = "articles.create" /\ Send(t, "post", None)
  \/ page[t].view = "articles.edit" /\ \E a \in Articles : Send(t, "put", a)
  \/ page[t].view = "articles.view" /\ \E a \in Articles : Send(t, "delete", a)

(* The views of articles fetch what they show.                             *)
SendRead(t) ==
  page[t].view \in {"articles.list", "articles.view", "articles.edit"} /\ Send(t, "read", None)

SendRemoveProvider(t) == page[t].view = "settings.accounts" /\ Send(t, "accounts", None)

SendSignin(t) ==
  /\ page[t].view = "authentication.signin"
  /\ \E u \in DOMAIN roles : Send(t, "signin", u)

(* The request comes in: the session's user is read.                       *)
Receive(t) ==
  /\ call[t].pc = "sent"
  /\ call' = [call EXCEPT ![t].pc = "received", ![t].user = SignedIn(t),
                          ![t].roles = RolesOf(SignedIn(t))]
  /\ UNCHANGED <<roles, session, page, articles, socket, steps>>

(* The end of a request.  The session is saved as the request knows it,    *)
(* changed or not, over what others have made of it meanwhile (resave).    *)
Respond(t, status, user, held) ==
  /\ call' = [call EXCEPT ![t].pc = "answered", ![t].status = status,
                          ![t].user = user, ![t].roles = held]
  /\ Become(BrowserOf[t], user)

Reply(t, status) == Respond(t, status, call[t].user, call[t].roles)

(* A sign-in: the session becomes the account's.                           *)
Signin(t) ==
  LET u == call[t].article
  IN  /\ call[t].pc = "received" /\ call[t].kind = "signin"
      /\ \/ u \in DOMAIN roles /\ Respond(t, 200, u, roles[u])
         \/ Reply(t, 400)
      /\ UNCHANGED <<roles, articles, socket, steps>>

(* list and read are for everybody; an article that is gone is one of the  *)
(* failures.                                                               *)
Read(t) ==
  /\ call[t].pc = "received" /\ call[t].kind = "read"
  /\ \E status \in {200, 400} : Reply(t, status)
  /\ UNCHANGED <<roles, articles, socket, steps>>

(* removeOAuthProvider: without a user it answers 401.                     *)
RemoveProvider(t) ==
  /\ call[t].pc = "received" /\ call[t].kind = "accounts"
  /\ IF call[t].user = None THEN Reply(t, 401)
     ELSE \E status \in {200, 400} : Reply(t, status)
  /\ UNCHANGED <<roles, articles, socket, steps>>

(* What the roles of articles.server.policy.js are allowed.                *)
RoleMay(role, kind) ==
  \/ role = "admin"
  \/ role = "user" /\ kind = "post"

(* Mutant: users may what admins may.                                      *)
AnyUserMay(user, held, kind, article) == held # {}

(* isAllowed: whoever wrote the article may do anything with it; otherwise *)
(* it depends on the roles of the request's user.  An author whose account *)
(* is gone has become null.                                                *)
IsAllowed(user, held, kind, article) ==
  \/ /\ article # None /\ user # None
     /\ articles[article].author \in DOMAIN roles
     /\ articles[article].author = user
  \/ \E role \in held : RoleMay(role, kind)

(* articleByID loads the article with its author, and the policy decides.  *)
Load(t) ==
  LET c == call[t]
      found == c.kind = "post" \/ c.article \in {a \in DOMAIN articles : articles[a].there}
      allowed == IsAllowed(c.user, c.roles, c.kind, c.article)
  IN  /\ c.pc = "received" /\ c.kind \in {"post", "put", "delete"}
      /\ \/ found /\ allowed
            /\ call' = [call EXCEPT ![t].pc = "save"] /\ UNCHANGED <<session, page>>
         \/ found /\ ~allowed /\ Reply(t, 403)
         \/ ~found /\ Reply(t, 404)
      /\ UNCHANGED <<roles, articles, socket, steps>>

NewArticle(author, content) == [author |-> author, content |-> content, there |-> TRUE]

(* create, update and delete.  A save writes the title and the content of  *)
(* the document, if there still is one.                                    *)
Save(t) ==
  LET c == call[t]
  IN  /\ c.pc = "save"
      /\ \/ /\ c.kind = "post"
            /\ \E a \in Articles \ DOMAIN articles :
                 articles' = [x \in DOMAIN articles \cup {a} |->
                   IF x = a THEN NewArticle(c.user, c.content) ELSE articles[x]]
         \/ /\ c.kind = "put"
            /\ articles' = IF articles[c.article].there
                             THEN [articles EXCEPT ![c.article].content = c.content]
                             ELSE articles
         \/ /\ c.kind = "delete"
            /\ articles' = [articles EXCEPT ![c.article].there = FALSE]
      /\ Reply(t, 200)
      /\ UNCHANGED <<roles, socket, steps>>

(* The database fails.                                                     *)
SaveFails(t) ==
  /\ call[t].pc \in {"received", "save"} /\ call[t].kind \in {"post", "put", "delete"}
  /\ Reply(t, 400)
  /\ UNCHANGED <<roles, articles, socket, steps>>

(* The answer reaches the page, unless it is gone.  The interceptor turns  *)
(* 401 into a page without a user, and 403 into 'forbidden'; a sign-in and *)
(* a removed provider put the user they are sent into the page; all but    *)
(* the latter go on to another view, the sign-in to where the user came    *)
(* from.                                                                   *)
Answer(t) ==
  LET c == call[t]
      p == page[t]
      out == [p EXCEPT !.user = None, !.roles = {}, !.astray = TRUE]
      known == [p EXCEPT !.user = c.user, !.roles = c.roles,
                         !.astray = @ \/ ~ {p.user, SessionOf(t)} \subseteq {None, c.user}]
  IN  /\ c.pc = "answered"
      /\ call' = [call EXCEPT ![t] = NoCall]
      /\ \/ c.dropped /\ UNCHANGED <<page, socket>>
         \/ /\ ~c.dropped
            /\ CASE c.status = 401 -> Show(t, out, "authentication.signin")
                 [] c.status = 403 -> Show(t, p, "forbidden")
                 [] c.status = 200 /\ c.kind = "signin" ->
                      Show(t, known, IF Allowed(known, p.previous) THEN p.previous
                                     ELSE "forbidden")
                 [] c.status = 200 /\ c.kind = "accounts" ->
                      page' = [page EXCEPT ![t] = known] /\ UNCHANGED socket
                 [] c.status = 200 /\ c.kind \in {"post", "put"} ->
                      Show(t, p, "articles.view")
                 [] c.status = 200 /\ c.kind = "delete" -> Show(t, p, "articles.list")
                 [] OTHER -> UNCHANGED <<page, socket>>
      /\ UNCHANGED <<roles, session, articles, steps>>

(***************************************************************************)
(* What befalls accounts and sessions                                      *)
(***************************************************************************)
RemoveAccount(u) ==
  /\ Step
  /\ u \in DOMAIN roles
  /\ roles' = [v \in DOMAIN roles \ {u} |-> roles[v]]
  /\ UNCHANGED <<session, page, call, articles, socket>>

ChangeRoles(u) ==
  /\ Step
  /\ u \in DOMAIN roles
  /\ \E held \in {{"user"}, {"user", "admin"}} \ {roles[u]} :
       roles' = [roles EXCEPT ![u] = held]
  /\ UNCHANGED <<session, page, call, articles, socket>>

(* A session lives for a day.                                              *)
ExpireSession(b) ==
  /\ Step
  /\ session[b] # None
  /\ session' = [session EXCEPT ![b] = None]
  /\ UNCHANGED <<roles, page, call, articles, socket>>

(***************************************************************************)
(* The specification                                                       *)
(***************************************************************************)
Init ==
  /\ roles = InitialRoles
  /\ session \in InitialSessions
  /\ page = [t \in Tabs |-> NewPage(SessionOf(t))]
  /\ call = [t \in Tabs |-> NoCall]
  /\ articles = [a \in DOMAIN InitialAuthors |-> NewArticle(InitialAuthors[a], 0)]
  /\ socket = [t \in Tabs |-> Connect(SessionOf(t))]
  /\ steps = 0

Surf(t) ==
  \/ LoadPage(t) \/ Signout(t) \/ (\E view \in Visited : Go(t, view))
  \/ SendArticle(t) \/ SendRead(t) \/ SendRemoveProvider(t) \/ SendSignin(t) \/ SendMessage(t)

Serve(t) ==
  \/ Handshake(t) \/ Relay(t) \/ Hear(t)
  \/ Receive(t) \/ Signin(t) \/ Read(t) \/ RemoveProvider(t)
  \/ Load(t) \/ Save(t) \/ SaveFails(t) \/ Answer(t)

Next ==
  \/ \E t \in Tabs : Surf(t) \/ Serve(t) \/ Drop(t)
  \/ \E b \in Browsers : ExpireSession(b)
  \/ \E u \in Users : RemoveAccount(u) \/ ChangeRoles(u)

Spec == Init /\ [][Next]_vars

(***************************************************************************)
(* Properties                                                              *)
(***************************************************************************)

(* An article is written or removed only for its author, or for somebody   *)
(* who was an admin when the request came in, however the request, the     *)
(* changes of roles and the other requests interleave; and it keeps its    *)
(* author for its life, also when an admin edits it                        *)
(* (articles.server.policy.js:53, articles.server.controller.js:42).       *)
OnlyAuthorOrAdmin ==
  [][articles' # articles => \A a \in DOMAIN articles :
       /\ a \in DOMAIN articles' /\ articles'[a].author = articles[a].author
       /\ articles'[a] # articles[a] =>
            \E t \in Tabs :
              /\ call[t].pc = "save" /\ call'[t].pc = "answered" /\ call[t].article = a
              /\ call[t].user = articles[a].author \/ "admin" \in call[t].roles]_vars

Heard == UNION {{socket[t].down[i] : i \in DOMAIN socket[t].down} : t \in Tabs}

(* The name on a chat message, and on the news that a page has come or     *)
(* gone, is that of the user whose page it is about, though page, session  *)
(* and socket each learnt of the user at a time of their own.  The         *)
(* exception is a page that has come astray.  A 401 takes the user out of  *)
(* a page and leaves it the socket (auth.interceptor.client.service.js:11, *)
(* chat.client.controller.js:24).  And the session may become another      *)
(* user's while the page stays: by a sign-in in another tab, in a form     *)
(* that was left, or a second one in a form that stayed open, and by any   *)
(* request that ends after a sign-in and had come in before it             *)
(* (express.js:112); the page's next handshake then reads that user        *)
(* (socket.io.js:88).  Nothing else leads to a message under another name: *)
(* not a sign-out, here or in another tab, not the end of a session, not a *)
(* removed account, not a connection that breaks, in whatever order.       *)
SpeaksAsPageUser == \A m \in Heard : m.astray \/ m.username = m.sender

Before(s, m, n) == \E i, j \in DOMAIN s : i < j /\ s[i] = m /\ s[j] = n

(* Two chat views never show two messages in opposite orders, whatever     *)
(* connections break meanwhile (chat.server.socket.config.js:22).          *)
SameOrder ==
  \A t, s \in Tabs : \A i, j \in DOMAIN socket[t].shown :
    i < j => ~Before(socket[s].shown, socket[t].shown[j], socket[t].shown[i])
=============================================================================
