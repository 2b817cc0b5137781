------------------------------ MODULE Accounts ------------------------------
(***************************************************************************)
(* The accounts of the MEAN.JS server (clefos/meanjs/files/modules/users): *)
(* sign-up, sign-in, OAuth, forgotten passwords, the profile pages and the *)
(* administration pages, with the browser code that calls them.            *)
(*                                                                         *)
(* Node runs one callback at a time, so a request is a sequence of atomic  *)
(* steps with a call to MongoDB, to the mail server or to an OAuth         *)
(* provider between any two of them; the steps of requests interleave.  A  *)
(* request works on the document it has read, which may be stale by the    *)
(* time it is saved, and mongoose writes only the fields it has modified.  *)
(***************************************************************************)
EXTENDS Integers, FiniteSets

CONSTANTS
  Ids,           \* the ids MongoDB may give to accounts
  Browsers,      \* the browsers, each with one page open and one session
  NumRequests,   \* bound: the requests of a behaviour
  MaxInFlight,   \* bound: the requests served at the same time
  Routes,        \* bound: the routes each of the requests may take
  Identities,    \* who users are at the OAuth providers
  Profile,       \* the profile the provider has of each: [provider, username,
                 \* address, person], person being a name made of first and
                 \* last name; username and address may be None
  LocalPart,     \* of each address, what is before the @
  Typed,         \* the passwords users may type; request r's new one is r
  Edits,         \* what a user may type over a field of the profile form
  InitialUsers,  \* the accounts the database holds at first
  InitialSessions,  \* who may be signed in at first
  None

ASSUME AccountsAssumption ==
  /\ \A i \in Identities : Profile[i].provider \in
       {"facebook", "github", "google", "linkedin", "paypal", "twitter"}
  /\ \A i \in Identities : Profile[i].address \in DOMAIN LocalPart \cup {None}
  /\ NumRequests \in Nat /\ MaxInFlight \in Nat
  /\ Typed \subseteq 0 .. NumRequests
  /\ DOMAIN InitialUsers \subseteq Ids
  /\ \A u \in DOMAIN InitialUsers : InitialUsers[u].id = u
  /\ InitialSessions \subseteq [Browsers -> DOMAIN InitialUsers \cup {None}]
  /\ None \notin Ids /\ None \notin Nat

VARIABLES
  users,     \* the users collection: from the ids of the present accounts
  gone,      \* the ids of the accounts that were deleted
  session,   \* the account each browser's session is signed in to, or None
  page,      \* Authentication.user of each browser: a copy of an account
  reqs,      \* the requests, in the order they were sent
  mailed,    \* the reset tokens that were sent by mail
  expired    \* the reset tokens whose hour is over

vars == <<users, gone, session, page, reqs, mailed, expired>>

Requests  == 1 .. NumRequests
Tokens    == 0 .. NumRequests      \* request r draws token r; 0 is older
ProviderOf(i) == Profile[i].provider
Providers == {ProviderOf(i) : i \in Identities}
NoLinks   == [p \in Providers |-> None]

(***************************************************************************)
(* The model User                                                          *)
(***************************************************************************)

Plain(p) == <<"plain", p>>
Hash(password) == <<"pbkdf2", password>>

(* Mutant: the hook is not called.                                         *)
StoreAsTyped(changes) == changes

(* The document as it is stored: pre('save') hashes a password that has    *)
(* been modified and is not empty.                                         *)
PreSave(changes) ==
  IF "password" \in DOMAIN changes
    THEN [changes EXCEPT !.password = IF @ = None THEN None ELSE Hash(@)]
    ELSE changes

(* An account without a password has '' for one, which no form sends.      *)
Authenticates(doc, p) == doc.password = Hash(Plain(p))

Merge(changes, doc) ==
  [f \in DOMAIN doc |-> IF f \in DOMAIN changes THEN changes[f] ELSE doc[f]]

(* What JSON leaves out: a field that is not set, and of the joined        *)
(* providers an empty object, which mongoose takes out.                    *)
Absent(f, value) ==
  \/ f \in {"token", "identity"} /\ value = None
  \/ f = "linked" /\ value = NoLinks

(* The fields a document would save after _.extend(doc, body).  The body's *)
(* roles are deleted first, and a field that is not in the body, or has    *)
(* the value it had, is not modified.                                      *)
Extend(doc, body) ==
  [f \in {g \in DOMAIN body \ {"roles"} : ~Absent(g, body[g]) /\ body[g] # doc[g]} |->
     body[f]]

(* The unique indexes on username and email; an account without an address *)
(* has '' for one, which is a value like another.                          *)
Duplicate(u, changes) ==
  \E other \in DOMAIN users \ {u} : \E f \in {"username", "email"} \cap DOMAIN changes :
    users[other][f] = changes[f]

NewAccount == [id |-> None, provider |-> "local", identity |-> None,
               username |-> None, email |-> None, password |-> None,
               token |-> None, profile |-> 0, picture |-> 0,
               linked |-> NoLinks, roles |-> {"user"}]

(***************************************************************************)
(* What a browser gets to see: res.json(user) has every field but the      *)
(* password and its salt, a page load puts fewer fields in window.user.    *)
(***************************************************************************)
View(doc, fields) == [f \in fields |-> doc[f]]

JsonFields == {"id", "provider", "identity", "username", "email", "token",
               "profile", "picture", "linked", "roles"}
PageFields == {"provider", "username", "email", "profile", "picture", "roles"}

(***************************************************************************)
(* Requests.  kind is the route, user what passport's deserializeUser read *)
(* when the request came in, account and doc the document the handler      *)
(* works on, changes its modified fields, token the reset token the        *)
(* request generates, presents or writes back.                             *)
(***************************************************************************)
Unused == [kind |-> "none", pc |-> "unused", browser |-> None, user |-> None,
           account |-> None, doc |-> None, changes |-> <<>>, arg |-> None,
           token |-> None, saved |-> FALSE]

InFlight == {r \in Requests : reqs[r].pc \notin {"unused", "done", "lost"}}

(* deserializeUser: no user is signed in with a session whose account is   *)
(* gone.                                                                   *)
SignedIn(b) == IF session[b] \in DOMAIN users THEN users[session[b]] ELSE None

(* A request is forgotten when it has been answered; of one that saved a   *)
(* document, the kind and the token are kept for the properties.           *)
Answered(q) == IF q.saved
                 THEN [Unused EXCEPT !.kind = q.kind, !.token = q.token,
                                     !.pc = "done", !.saved = TRUE]
                 ELSE [Unused EXCEPT !.pc = "done"]

(* One that never will be.                                                 *)
Lost(q) == [Answered(q) EXCEPT !.pc = "lost"]

(* Requests are numbered in the order they come in.                        *)
Arrives(r, kind) ==
  /\ reqs[r].pc = "unused" /\ kind \in Routes[r]
  /\ \A earlier \in 1 .. r - 1 : reqs[earlier].pc # "unused"
  /\ Cardinality(InFlight) < MaxInFlight

(* A request comes in; the session middleware reads its session and its    *)
(* user.                                                                   *)
Receive(r, b, q) ==
  /\ Arrives(r, q.kind)
  /\ reqs' = [reqs EXCEPT ![r] = Merge([browser |-> b, user |-> SignedIn(b)], q)]

(* A request that is answered as soon as it has come in.                   *)
AnswerAtOnce(r, kind) ==
  /\ Arrives(r, kind)
  /\ reqs' = [reqs EXCEPT ![r] = Answered([Unused EXCEPT !.kind = kind])]

Go(r, pc, fields) ==
  reqs' = [reqs EXCEPT ![r] = Merge(fields, [reqs[r] EXCEPT !.pc = pc])]

Close(r) == reqs' = [reqs EXCEPT ![r] = Answered(reqs[r])]

(* A handler that works on req.user: it refuses when nobody is signed in,  *)
(* and otherwise goes on to save changes to the document it was given.     *)
ReceiveSigned(r, b, kind, changes, token, arg) ==
  LET me == SignedIn(b)
  IN  \/ me = None /\ AnswerAtOnce(r, kind)
      \/ /\ me # None
         /\ Receive(r, b, [Unused EXCEPT !.kind = kind, !.pc = "save", !.account = me.id,
                                         !.doc = me, !.changes = changes,
                                         !.token = token, !.arg = arg])

(***************************************************************************)
(* Sign-up and sign-in (users.authentication.server.controller.js)         *)
(***************************************************************************)

(* The form of a page nobody is signed in to.  A visitor uses an address   *)
(* she has at a provider, and what is before the @ for a name.             *)
Signup(r, b) ==
  /\ page[b] = None
  /\ \E i \in {j \in Identities : Profile[j].address # None} :
       Receive(r, b, [Unused EXCEPT
         !.kind = "signup", !.pc = "save",
         !.changes = [NewAccount EXCEPT !.username = <<LocalPart[Profile[i].address], 0>>,
                                        !.email = Profile[i].address,
                                        !.password = Plain(r), !.profile = r]])
  /\ UNCHANGED <<users, gone, session, page, mailed, expired>>

SendSignin(r, b) ==
  /\ page[b] = None
  /\ \E u \in DOMAIN users, p \in Typed :
       Receive(r, b, [Unused EXCEPT !.kind = "signin", !.pc = "query",
                                    !.arg = [username |-> users[u].username,
                                             password |-> p]])
  /\ UNCHANGED <<users, gone, session, page, mailed, expired>>

(* The local strategy: an unknown name and a wrong password are refused.   *)
Signin(r) ==
  LET q == reqs[r]
      found == {u \in DOMAIN users : users[u].username = q.arg.username}
  IN  /\ q.pc = "query" /\ q.kind = "signin"
      /\ \/ \E u \in found : /\ Authenticates(users[u], q.arg.password)
                             /\ Go(r, "answer", [account |-> u, doc |-> users[u]])
         \/ /\ \A u \in found : ~Authenticates(users[u], q.arg.password)
            /\ Close(r)
      /\ UNCHANGED <<users, gone, session, page, mailed, expired>>

(* The link to signout leaves the page.                                    *)
Signout(r, b) ==
  /\ page[b] # None
  /\ AnswerAtOnce(r, "signout")
  /\ session' = [session EXCEPT ![b] = None]
  /\ page' = [page EXCEPT ![b] = None]
  /\ UNCHANGED <<users, gone, mailed, expired>>

(***************************************************************************)
(* Passwords (users.password.server.controller.js)                         *)
(***************************************************************************)

SendForgot(r, b) ==
  /\ page[b] = None
  /\ \E u \in DOMAIN users :
       Receive(r, b, [Unused EXCEPT !.kind = "forgot", !.pc = "query",
                                    !.arg = users[u].username])
  /\ UNCHANGED <<users, gone, session, page, mailed, expired>>

(* Only local accounts have passwords to forget.  The new token replaces   *)
(* the one the account had; its hour starts now.                           *)
Forgot(r) ==
  LET q == reqs[r]
      found == {u \in DOMAIN users : users[u].username = q.arg
                                     /\ users[u].provider = "local"}
  IN  /\ q.pc = "query" /\ q.kind = "forgot"
      /\ \/ \E u \in found :
              Go(r, "save", [account |-> u, doc |-> users[u], token |-> r,
                             changes |-> [token |-> r]])
         \/ found = {} /\ Close(r)
      /\ UNCHANGED <<users, gone, session, page, mailed, expired>>

(* The token has been saved when its mail is sent, and stays when the mail *)
(* fails.                                                                  *)
SendMail(r) ==
  /\ reqs[r].pc = "mail"
  /\ \/ Close(r) /\ mailed' = mailed \cup {reqs[r].token}
     \/ Close(r) /\ UNCHANGED mailed
  /\ UNCHANGED <<users, gone, session, page, expired>>

WithToken(t) == {u \in DOMAIN users : users[u].token = t /\ t \notin expired}

(* The link of a mail is opened: validateResetToken only looks, and sends  *)
(* the browser to the form or to a page that says the token is invalid.    *)
ValidateResetToken(r, b) ==
  /\ mailed # {}
  /\ AnswerAtOnce(r, "validate")
  /\ UNCHANGED <<users, gone, session, page, mailed, expired>>

SendReset(r, b) ==
  /\ page[b] = None
  /\ \E t \in mailed : Receive(r, b, [Unused EXCEPT !.kind = "reset", !.pc = "query",
                                                    !.token = t])
  /\ UNCHANGED <<users, gone, session, page, mailed, expired>>

(* Mutant: the token is not cleared.                                       *)
KeepToken(r) == [password |-> Plain(r)]

(* What a reset changes: the token goes with the old password.             *)
NewPassword(r) == [password |-> Plain(r), token |-> None]

Reset(r) ==
  LET q == reqs[r]
  IN  /\ q.pc = "query" /\ q.kind = "reset"
      /\ \/ \E u \in WithToken(q.token) :
              Go(r, "save", [account |-> u, doc |-> users[u],
                             changes |-> NewPassword(r)])
         \/ WithToken(q.token) = {} /\ Close(r)
      /\ UNCHANGED <<users, gone, session, page, mailed, expired>>

SendChangePassword(r, b) ==
  /\ page[b] # None
  /\ \E p \in Typed :
       LET me == SignedIn(b)
       IN  \/ me = None /\ AnswerAtOnce(r, "change")
           \/ /\ me # None
              /\ Receive(r, b, [Unused EXCEPT !.kind = "change", !.pc = "query",
                                              !.account = me.id, !.arg = p])
  /\ UNCHANGED <<users, gone, session, page, mailed, expired>>

(* req.user has no password: the account is read again to check the        *)
(* current one.                                                            *)
ChangePassword(r) ==
  LET q == reqs[r]
      right == /\ q.account \in DOMAIN users
               /\ Authenticates(users[q.account], q.arg)
  IN  /\ q.pc = "query" /\ q.kind = "change"
      /\ \/ right /\ Go(r, "save", [doc |-> users[q.account], changes |-> [password |-> Plain(r)]])
         \/ ~right /\ Close(r)
      /\ UNCHANGED <<users, gone, session, page, mailed, expired>>

(***************************************************************************)
(* OAuth (saveOAuthUserProfile, removeOAuthProvider)                       *)
(***************************************************************************)

(* What each strategy passes on of a profile.  Three of them take the      *)
(* first of its addresses without a look, and throw when there is none.    *)
Passed(username, email) == [username |-> username, email |-> email]

Facebook(p) ==
  Passed(IF p.username # None THEN p.username
         ELSE IF p.address # None THEN LocalPart[p.address] ELSE p.person, p.address)

Github(p) == IF p.address = None THEN None ELSE Passed(p.username, p.address)

Google(p) == IF p.address = None THEN None ELSE Passed(p.username, p.address)

LinkedIn(p) == IF p.address = None THEN None ELSE Passed(p.username, p.address)

PayPal(p) == Passed(p.username, p.address)

Twitter(p) == Passed(p.username, None)

ProviderUserProfile(i) ==
  LET p == Profile[i]
  IN  CASE p.provider = "facebook" -> Facebook(p) [] p.provider = "github"   -> Github(p)
        [] p.provider = "google"   -> Google(p)   [] p.provider = "linkedin" -> LinkedIn(p)
        [] p.provider = "paypal"   -> PayPal(p)   [] p.provider = "twitter"  -> Twitter(p)

(* The user name to begin with; there may be none.                         *)
PossibleUsername(passed) ==
  IF passed.username # None THEN passed.username
  ELSE IF passed.email # None THEN LocalPart[passed.email] ELSE None

(* Mutant: the additional provider data start afresh with every join.      *)
JoinedAlone(links, p, i) == [NoLinks EXCEPT ![p] = i]

(* The additional provider data of an account that joins another profile.  *)
Joined(links, p, i) == [links EXCEPT ![p] = i]

(* The provider sends the browser back with a profile.  Whoever is signed  *)
(* in joins the profile to the account the request was deserialized with;  *)
(* anybody else signs in with it.                                          *)
OauthCallback(r, b) ==
  \E i \in Identities :
    LET p  == ProviderOf(i)
        me == SignedIn(b)
        q  == [Unused EXCEPT !.kind = "oauth", !.arg = [identity |-> i, suffix |-> 0]]
    IN  /\ CASE ProviderUserProfile(i) = None -> AnswerAtOnce(r, "oauth")
             [] ProviderUserProfile(i) # None /\ me = None ->
                  Receive(r, b, [q EXCEPT !.pc = "query"])
             [] ProviderUserProfile(i) # None /\ me # None /\ me.provider # p /\ me.linked[p] = None ->
                  Receive(r, b, [q EXCEPT !.pc = "save", !.account = me.id, !.doc = me,
                                          !.changes = [linked |-> Joined(me.linked, p, i)]])
             [] OTHER -> AnswerAtOnce(r, "oauth")
        /\ page' = [page EXCEPT ![b] = None]
        /\ UNCHANGED <<users, gone, session, mailed, expired>>

(* The accounts that have the profile, as their own or as a joined one.    *)
(* findOne returns any of them.                                            *)
WithIdentity(i) ==
  {u \in DOMAIN users : \/ /\ users[u].provider = ProviderOf(i)
                           /\ users[u].identity = i
                        \/ users[u].linked[ProviderOf(i)] = i}

OauthSignin(r) ==
  LET q == reqs[r]
      found == WithIdentity(q.arg.identity)
  IN  /\ q.pc = "query" /\ q.kind = "oauth"
      /\ \/ \E u \in found : Go(r, "answer", [account |-> u, doc |-> users[u]])
         \/ found = {} /\ Go(r, "name", <<>>)
      /\ UNCHANGED <<users, gone, session, page, mailed, expired>>

NewUser(r, i, name) ==
  [NewAccount EXCEPT !.provider = ProviderOf(i), !.identity = i, !.username = name,
                     !.email = ProviderUserProfile(i).email, !.profile = r, !.picture = r]

(* findUniqueUsername looks for the name, the name with 1, with 2, ...     *)
FindUniqueUsername(r) ==
  LET q == reqs[r]
      i == q.arg.identity
      name == <<PossibleUsername(ProviderUserProfile(i)), q.arg.suffix>>
      taken == \E u \in DOMAIN users : users[u].username = name
  IN  /\ q.pc = "name"
      /\ \/ taken /\ Go(r, "name", [arg |-> [q.arg EXCEPT !.suffix = @ + 1]])
         \/ ~taken /\ Go(r, "save", [changes |-> NewUser(r, i, name)])
      /\ UNCHANGED <<users, gone, session, page, mailed, expired>>

NoName == <<None, 0>>

(* Mutant: the callback is called with names only.                         *)
NoCallback(r) ==
  /\ reqs[r].pc = "name"
  /\ Go(r, "nothing", <<>>)
  /\ UNCHANGED <<users, gone, session, page, mailed, expired>>

(* Looking for a name fails: the callback gets null for a name, and the    *)
(* account is not saved for it.                                            *)
NameFails(r) ==
  /\ reqs[r].pc = "name"
  /\ Go(r, "save", [changes |-> NewUser(r, reqs[r].arg.identity, NoName)])
  /\ UNCHANGED <<users, gone, session, page, mailed, expired>>

(* The page offers the button for joined providers.  Without one in the    *)
(* document the handler throws, and express answers for it.                *)
RemoveOAuthProvider(r, b) ==
  /\ page[b] # None
  /\ \E p \in Providers :
       LET me == SignedIn(b)
       IN  IF me = None \/ me.linked = NoLinks
             THEN AnswerAtOnce(r, "remove")
             ELSE ReceiveSigned(r, b, "remove",
                    IF me.linked[p] = None THEN <<>>
                      ELSE [linked |-> [me.linked EXCEPT ![p] = None]], None, p)
  /\ UNCHANGED <<users, gone, session, page, mailed, expired>>

(***************************************************************************)
(* The profile pages (users.profile.server.controller.js)                  *)
(***************************************************************************)

(* The form sends the whole of Authentication.user with what was typed.    *)
FormBody(r, b, edit) == Merge(edit, [page[b] EXCEPT !.profile = r])

UpdateProfile(r, b) ==
  /\ page[b] # None
  /\ \E edit \in Edits :
       LET body == FormBody(r, b, edit)
           me == SignedIn(b)
           changes == IF me = None THEN <<>> ELSE Extend(me, body)
       IN  ReceiveSigned(r, b, "update", changes,
             IF "token" \in DOMAIN changes THEN changes.token ELSE None, None)
  /\ UNCHANGED <<users, gone, session, page, mailed, expired>>

ChangeProfilePicture(r, b) ==
  LET me == SignedIn(b)
  IN  /\ page[b] # None
      /\ \/ me = None /\ AnswerAtOnce(r, "picture")
         \/ /\ me # None
            /\ Receive(r, b, [Unused EXCEPT !.kind = "picture", !.pc = "upload",
                                            !.account = me.id, !.doc = me])
      /\ UNCHANGED <<users, gone, session, page, mailed, expired>>

(* The callback of multer: the form has come in, with a picture.           *)
Upload(r) ==
  /\ reqs[r].pc = "upload"
  /\ Go(r, "save", [changes |-> [picture |-> r]])
  /\ UNCHANGED <<users, gone, session, page, mailed, expired>>

(* The upload is cut off, too large, or has a field of another name.       *)
UploadFails(r) ==
  /\ reqs[r].pc = "upload"
  /\ Close(r)
  /\ UNCHANGED <<users, gone, session, page, mailed, expired>>

(***************************************************************************)
(* Administration (admin.server.controller.js, admin.server.policy.js)     *)
(***************************************************************************)

IsAdmin(user) == user # None /\ "admin" \in user.roles

SendAdmin(r, b) ==
  /\ IsAdmin(page[b])
  /\ \E u \in DOMAIN users :
       \/ Receive(r, b, [Unused EXCEPT !.kind = "adminDelete", !.pc = "query", !.account = u])
       \/ \E roles \in {{"user"}, {"user", "admin"}} :
            Receive(r, b, [Unused EXCEPT !.kind = "adminUpdate", !.pc = "query",
                                         !.account = u, !.arg = roles])
  /\ UNCHANGED <<users, gone, session, page, mailed, expired>>

(* userByID loads the account before the policy looks at the roles of      *)
(* req.user, which were read when the request came in.                     *)
AdminLoad(r) ==
  LET q == reqs[r]
      loaded == q.account \in DOMAIN users /\ IsAdmin(q.user)
  IN  /\ q.pc = "query" /\ q.kind \in {"adminUpdate", "adminDelete"}
      /\ \/ /\ loaded /\ q.kind = "adminDelete"
            /\ Go(r, "remove", [doc |-> users[q.account]])
         \/ /\ loaded /\ q.kind = "adminUpdate"
            /\ Go(r, "save", [doc |-> users[q.account],
                              changes |-> [profile |-> r, roles |-> q.arg]])
         \/ ~loaded /\ Close(r)
      /\ UNCHANGED <<users, gone, session, page, mailed, expired>>

AdminDelete(r) ==
  LET u == reqs[r].account
  IN  /\ reqs[r].pc = "remove"
      /\ users' = [v \in DOMAIN users \ {u} |-> users[v]]
      /\ gone' = gone \cup {u}
      /\ Close(r)
      /\ UNCHANGED <<session, page, mailed, expired>>

(***************************************************************************)
(* What the handlers share                                                 *)
(***************************************************************************)

(* Mutant: a save writes the whole document as it was read.                *)
WholeDocument(u, changes, read) ==
  [v \in DOMAIN users |-> IF v = u THEN Merge(changes, read) ELSE users[v]]

(* Mutant: a save of a document that is gone inserts it.                   *)
Upsert(u, changes, read) ==
  [v \in DOMAIN users \cup {u} |->
     IF v # u THEN users[v]
     ELSE IF u \in DOMAIN users THEN Merge(changes, users[u]) ELSE Merge(changes, read)]

(* The collection after the save of a document read as read: the modified  *)
(* fields are set in the account, if there still is one.                   *)
Updated(u, changes, read) ==
  [v \in DOMAIN users |-> IF v = u THEN Merge(changes, users[v]) ELSE users[v]]

FreeIds == Ids \ (DOMAIN users \cup gone)

(* What is not saved: a user name is required, MongoDB refuses another _id *)
(* and what another account has.  That no id is left is a bound.           *)
Refused(account, stored) ==
  \/ Duplicate(account, stored)
  \/ account = None /\ (stored.username = NoName \/ FreeIds = {})
  \/ account # None /\ "id" \in DOMAIN stored

(* user.save: inserts the document the request made, or writes the         *)
(* modified fields of the document it read; when that one is gone, nothing *)
(* is written and nothing is said.                                         *)
Save(r) ==
  LET q == reqs[r]
      stored == PreSave(q.changes)
      after == IF q.kind = "forgot" THEN "mail" ELSE "answer"
  IN  /\ q.pc = "save"
      /\ ~Refused(q.account, stored)
      /\ \/ /\ q.account = None
            /\ \E u \in FreeIds :
                 LET doc == [stored EXCEPT !.id = u]
                 IN  /\ users' = [v \in DOMAIN users \cup {u} |->
                                    IF v = u THEN doc ELSE users[v]]
                     /\ Go(r, after, [account |-> u, doc |-> doc, changes |-> <<>>,
                                      saved |-> TRUE])
         \/ /\ q.account # None
            /\ users' = Updated(q.account, stored, q.doc)
            /\ Go(r, after, [doc |-> Merge(stored, q.doc), changes |-> <<>>, saved |-> TRUE])
      /\ UNCHANGED <<gone, session, page, mailed, expired>>

(* The database fails to save, or a validator refuses the document.        *)
SaveFails(r) ==
  /\ reqs[r].pc = "save"
  /\ Close(r)
  /\ UNCHANGED <<users, gone, session, page, mailed, expired>>

SaveRefused(r) ==
  /\ reqs[r].pc = "save" /\ Refused(reqs[r].account, PreSave(reqs[r].changes))
  /\ SaveFails(r)

(* The database fails to find an account, or to remove one.                *)
QueryFails(r) ==
  /\ reqs[r].pc \in {"query", "remove"}
  /\ Close(r)
  /\ UNCHANGED <<users, gone, session, page, mailed, expired>>

(* An exception in a callback that nobody catches ends the process, and    *)
(* with it every request under way; it is started again.  changeProfile-   *)
(* Picture reads the name of a picture that a form may not have, forgot    *)
(* the bytes that randomBytes may have failed to make.                     *)
Throw(r) ==
  /\ \/ reqs[r].pc = "upload"
     \/ reqs[r].pc = "query" /\ reqs[r].kind = "forgot"
  /\ reqs' = [s \in Requests |-> IF s \in InFlight THEN Lost(reqs[s]) ELSE reqs[s]]
  /\ UNCHANGED <<users, gone, session, page, mailed, expired>>

(* The answer.  req.login stores the id of the document, whatever has      *)
(* become of the account; a page that gets the document keeps it.          *)
Answer(r) ==
  LET q == reqs[r]
  IN  /\ q.pc = "answer"
      /\ session' = IF q.kind = "adminUpdate" THEN session
                    ELSE [session EXCEPT ![q.browser] = q.account]
      /\ page' = IF q.kind \in {"signup", "signin", "reset", "update", "picture", "remove"}
                   THEN [page EXCEPT ![q.browser] = View(q.doc, JsonFields)]
                   ELSE page
      /\ Close(r)
      /\ UNCHANGED <<users, gone, mailed, expired>>

(* req.login fails when the session cannot be stored.                      *)
LoginFails(r) ==
  /\ reqs[r].pc = "answer" /\ reqs[r].kind # "adminUpdate"
  /\ Close(r)
  /\ UNCHANGED <<users, gone, session, page, mailed, expired>>

(***************************************************************************)
(* Page loads and time                                                     *)
(***************************************************************************)

LoadPage(b) ==
  /\ page[b] = None /\ SignedIn(b) # None
  /\ page' = [page EXCEPT ![b] = View(SignedIn(b), PageFields)]
  /\ UNCHANGED <<users, gone, session, reqs, mailed, expired>>

Expire(t) ==
  /\ t \notin expired
  /\ \E u \in DOMAIN users : users[u].token = t
  /\ expired' = expired \cup {t}
  /\ UNCHANGED <<users, gone, session, page, reqs, mailed>>

(***************************************************************************)
(* What the database may hold at first                                     *)
(***************************************************************************)

(* The names and addresses of the providers, of the sign-up form, of the   *)
(* profile form and of the accounts there are; findUniqueUsername puts a   *)
(* number after a name.                                                    *)
Usernames ==
  ({PossibleUsername(ProviderUserProfile(i)) :
      i \in {j \in Identities : ProviderUserProfile(j) # None}} \X Nat)
  \cup {<<LocalPart[a], 0>> : a \in DOMAIN LocalPart}
  \cup {e.username : e \in {f \in Edits : "username" \in DOMAIN f}}
  \cup {InitialUsers[u].username : u \in DOMAIN InitialUsers}

Addresses ==
  {None} \cup DOMAIN LocalPart
  \cup {e.email : e \in {f \in Edits : "email" \in DOMAIN f}}
  \cup {InitialUsers[u].email : u \in DOMAIN InitialUsers}

Account == [id : Ids, provider : Providers \cup {"local"},
            identity : Identities \cup {None},
            username : Usernames, email : Addresses,
            password : {None} \cup {Hash(Plain(p)) : p \in Tokens},
            token : Tokens \cup {None},
            profile : Tokens, picture : Tokens,
            linked : [Providers -> Identities \cup {None}],
            roles : {{"user"}, {"user", "admin"}}]

(* Documents fit the schema.  A token is drawn at random: no two accounts  *)
(* have the same.  The profile form is for names and addresses.            *)
ASSUME DocumentsAssumption ==
  /\ \A u \in DOMAIN InitialUsers :
       InitialUsers[u] \in Account /\ InitialUsers[u].token \in {0, None}
  /\ \A u, v \in DOMAIN InitialUsers :
       InitialUsers[u].token = 0 /\ InitialUsers[v].token = 0 => u = v
  /\ \A edit \in Edits : DOMAIN edit \subseteq {"username", "email"}

(***************************************************************************)
(* The specification                                                       *)
(***************************************************************************)

(* The server starts with a database that was in use: sessions outlive the *)
(* process in their own collection, pages stay open, and a reset token may *)
(* have been mailed.                                                       *)
Init ==
  /\ users = InitialUsers
  /\ gone = {}
  /\ session \in InitialSessions
  /\ page = [b \in Browsers |-> IF session[b] = None THEN None
                                ELSE View(users[session[b]], JsonFields)]
  /\ reqs = [r \in Requests |-> Unused]
  /\ mailed = {0}
  /\ expired = {}

Send(r, b) ==
  \/ Signup(r, b) \/ SendSignin(r, b) \/ Signout(r, b)
  \/ SendForgot(r, b) \/ ValidateResetToken(r, b) \/ SendReset(r, b)
  \/ SendChangePassword(r, b) \/ OauthCallback(r, b) \/ RemoveOAuthProvider(r, b)
  \/ UpdateProfile(r, b) \/ ChangeProfilePicture(r, b) \/ SendAdmin(r, b)

(* A call of the request returns and its callback runs.                    *)
Return(r) ==
  \/ Signin(r) \/ Forgot(r) \/ SendMail(r) \/ Reset(r) \/ ChangePassword(r)
  \/ OauthSignin(r) \/ FindUniqueUsername(r) \/ Upload(r)
  \/ AdminLoad(r) \/ AdminDelete(r) \/ Save(r) \/ SaveRefused(r)
  \/ Answer(r)

Fail(r) ==
  \/ QueryFails(r) \/ NameFails(r) \/ UploadFails(r) \/ SaveFails(r) \/ LoginFails(r)
  \/ Throw(r)

Next ==
  \/ \E r \in Requests : Return(r) \/ Fail(r) \/ \E b \in Browsers : Send(r, b)
  \/ \E b \in Browsers : LoadPage(b)
  \/ \E t \in Tokens : Expire(t)

(* The event loop goes on while some call returns; none has to fail.       *)
Spec == Init /\ [][Next]_vars /\ WF_vars(\E r \in Requests : Return(r))

(***************************************************************************)
(* Properties                                                              *)
(***************************************************************************)

(* Type invariant.  Every document in the collection fits the schema under *)
(* its own id, and its password is hashed exactly once                     *)
(* (user.server.model.js:106).                                             *)
TypeOK ==
  /\ DOMAIN users \subseteq Ids
  /\ \A u \in DOMAIN users : users[u] \in Account /\ users[u].id = u
  /\ gone \subseteq Ids
  /\ session \in [Browsers -> Ids \cup {None}]
  /\ mailed \subseteq Tokens /\ expired \subseteq Tokens

(* The requests that write each field.  The profile form writes the        *)
(* provider when its page was rendered for another account than the        *)
(* session has become since, and that one's name is free by then.          *)
Writers == [provider |-> {"update"}, identity |-> {},
            username |-> {"update"}, email |-> {"update"},
            password |-> {"reset", "change"},
            token    |-> {"forgot", "reset", "update"},
            profile  |-> {"update", "adminUpdate"},
            picture  |-> {"picture", "update"},
            linked   |-> {"oauth", "remove", "update"},
            roles    |-> {"adminUpdate"}]

Saves(r) == reqs[r].pc = "save" /\ reqs'[r].saved

(* A field of an account changes only when a request of a kind that is     *)
(* about that field is saved: a request that read the account earlier and  *)
(* saves it now does not bring back the roles, the password or the token   *)
(* of then, and nobody gets another identity at a provider                 *)
(* (admin.server.controller.js:24, profile:27, password:47).               *)
OwnedFields ==
  [][users' # users => \A u \in DOMAIN users \cap DOMAIN users' : \A f \in DOMAIN Writers :
       users'[u][f] # users[u][f] =>
         \E r \in Requests : Saves(r) /\ reqs[r].kind \in Writers[f]]_vars

(* An account that an administrator has deleted does not come back when a  *)
(* request that had read it is saved (admin.server.controller.js:47).      *)
DeletedStaysDeleted == [][gone' \cap DOMAIN users' = {} /\ gone \subseteq gone']_vars

(* An account loses a provider it has joined only when the user removes    *)
(* that one, when a profile page writes back what it had, or when the      *)
(* saving request had read the account before it was joined: joining or    *)
(* removing one provider keeps the others                                  *)
(* (users.authentication.server.controller.js:187 and 223).                *)
LinksKept ==
  [][users' # users => \A u \in DOMAIN users \cap DOMAIN users' : \A p \in Providers :
       users[u].linked[p] # None /\ users'[u].linked[p] # users[u].linked[p] =>
         \E r \in Requests :
           /\ Saves(r)
           /\ \/ reqs[r].kind = "remove" /\ reqs[r].arg = p
              \/ reqs[r].kind = "update"
              \/ reqs[r].doc.linked[p] # users[u].linked[p]]_vars

(* A reset token works once (users.password.server.controller.js:131): a   *)
(* reset that finds an account by its token comes after no other reset     *)
(* that saved with it, unless a profile page that was opened before has    *)
(* written the token back.                                                 *)
UsedTokenIsSpent ==
  [][\A r \in Requests :
       /\ reqs[r].kind = "reset" /\ reqs[r].pc = "query" /\ reqs'[r].pc = "save"
       => \A q \in Requests :
            reqs[q].kind = "reset" /\ reqs[q].token = reqs[r].token /\ reqs[q].saved
            => \E w \in Requests : /\ reqs[w].kind = "update" /\ reqs[w].saved
                                   /\ reqs[w].token = reqs[r].token]_vars

(* Every request is answered, whatever fails on the way: each branch of    *)
(* each handler, the errors of its calls included, answers or makes        *)
(* another call that does (users.authentication.server.controller.js:151,  *)
(* user.server.model.js:151).  The exception is an exception that nobody   *)
(* catches: a form without a picture (users.profile.server.controller.js:  *)
(* 72) and a failing randomBytes (users.password.server.controller.js:25)  *)
(* end the process, and the requests of everybody else with it.  Requests  *)
(* being finitely many, all are answered or lost if again and again none   *)
(* is under way.                                                           *)
RequestsAreAnswered == []<>(InFlight = {})
=============================================================================
