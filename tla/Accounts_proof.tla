---------------------------- MODULE Accounts_proof ----------------------------
(***************************************************************************)
(* Proofs about Accounts, for any number of accounts, browsers, profiles   *)
(* and requests under way: what becomes of deleted accounts, of the fields *)
(* of the others and of their reset tokens, and what documents look like.  *)
(***************************************************************************)
EXTENDS Accounts, TLAPS

(***************************************************************************)
(* Deletion                                                                *)
(***************************************************************************)

GoneInv == gone \cap DOMAIN users = {}

(* Only a save and a deletion change which accounts there are.             *)
LEMMA OnlySavesAndDeletions ==
  ASSUME Next
  PROVE  \/ UNCHANGED <<users, gone>>
         \/ \E r \in Requests : Save(r) \/ AdminDelete(r)
<1>1. ASSUME NEW r \in Requests, NEW b \in Browsers, Send(r, b)
      PROVE  UNCHANGED <<users, gone>>
  BY <1>1 DEF Send, Signup, SendSignin, Signout, SendForgot, ValidateResetToken, SendReset,
              SendChangePassword, OauthCallback, RemoveOAuthProvider, UpdateProfile,
              ChangeProfilePicture, SendAdmin
<1>2. ASSUME NEW r \in Requests, Return(r) \/ Fail(r), ~Save(r), ~AdminDelete(r)
      PROVE  UNCHANGED <<users, gone>>
  BY <1>2 DEF Return, Fail, Signin, Forgot, SendMail, Reset, ChangePassword, OauthSignin,
              FindUniqueUsername, Upload, AdminLoad, SaveRefused, Answer, QueryFails,
              NameFails, UploadFails, SaveFails, LoginFails, Throw
<1>3. ASSUME NEW b \in Browsers, LoadPage(b) PROVE UNCHANGED <<users, gone>>
  BY <1>3 DEF LoadPage
<1>4. ASSUME NEW t \in Tokens, Expire(t) PROVE UNCHANGED <<users, gone>>
  BY <1>4 DEF Expire
<1> QED BY <1>1, <1>2, <1>3, <1>4 DEF Next

(* A save adds no account but a new one, under an id that was never used.  *)
LEMMA SaveAdds ==
  ASSUME NEW r \in Requests, Save(r)
  PROVE  /\ gone' = gone
         /\ \/ DOMAIN users' = DOMAIN users
            \/ \E u \in Ids \ (DOMAIN users \cup gone) : DOMAIN users' = DOMAIN users \cup {u}
<1>1. gone' = gone
  BY DEF Save
<1>2. CASE reqs[r].account = None
  BY <1>1, <1>2 DEF Save, FreeIds
<1>3. CASE reqs[r].account # None
  <2>1. users' = Updated(reqs[r].account, PreSave(reqs[r].changes), reqs[r].doc)
    BY <1>3 DEF Save
  <2> QED BY <1>1, <2>1 DEF Updated
<1> QED BY <1>2, <1>3

LEMMA GoneStep ==
  ASSUME GoneInv, [Next]_vars
  PROVE  GoneInv' /\ gone \subseteq gone'
<1>1. CASE UNCHANGED <<users, gone>>
  BY <1>1 DEF GoneInv
<1>2. ASSUME NEW r \in Requests, Save(r) PROVE GoneInv' /\ gone \subseteq gone'
  BY <1>2, SaveAdds DEF GoneInv
<1>3. ASSUME NEW r \in Requests, AdminDelete(r) PROVE GoneInv' /\ gone \subseteq gone'
  BY <1>3 DEF AdminDelete, GoneInv
<1> QED BY <1>1, <1>2, <1>3, OnlySavesAndDeletions DEF vars

(* Whatever requests had read an account before it was deleted: none of    *)
(* them brings it back.                                                    *)
THEOREM DeletedStaysDeletedHolds == Spec => DeletedStaysDeleted
<1>1. Init => GoneInv
  BY DEF Init, GoneInv
<1>2. GoneInv /\ [Next]_vars => GoneInv'
  BY GoneStep
<1>3. GoneInv /\ [Next]_vars => [gone' \cap DOMAIN users' = {} /\ gone \subseteq gone']_vars
  BY GoneStep DEF GoneInv
<1> QED BY <1>1, <1>2, <1>3, PTL DEF Spec, DeletedStaysDeleted

-----------------------------------------------------------------------------
(***************************************************************************)
(* What requests write                                                     *)
(***************************************************************************)

DocFields == {"id", "provider", "identity", "username", "email", "password", "token",
              "profile", "picture", "linked", "roles"}
ReqFields == {"kind", "pc", "browser", "user", "account", "doc", "changes", "arg",
              "token", "saved"}

UsersInv ==
  /\ DOMAIN users \subseteq Ids
  /\ \A u \in DOMAIN users : /\ DOMAIN users[u] = DocFields /\ users[u].id = u
                            /\ DOMAIN users[u].linked = Providers

(* A copy of an account, fresh or stale: its id is not one that a new      *)
(* account may get, and the identity of an account never changes.          *)
CopyOf(d) ==
  /\ {"id", "identity", "linked"} \subseteq DOMAIN d
  /\ d.id \in DOMAIN users \cup gone
  /\ d.id \in DOMAIN users => d.identity = users[d.id].identity
  /\ DOMAIN d.linked = Providers

PageOK(p) == p # None => \/ DOMAIN p = PageFields
                         \/ DOMAIN p = JsonFields /\ CopyOf(p)

PagesInv == DOMAIN page = Browsers /\ \A b \in Browsers : PageOK(page[b])

(* What a request is about to write when it will be let: only fields it is *)
(* about, and of the joined providers only the one it joins or removes,    *)
(* unless it is the profile form.                                          *)
Modifies(q) ==
  /\ CopyOf(q.doc)
  /\ DOMAIN q.changes \subseteq DocFields
  /\ "id" \notin DOMAIN q.changes => \A f \in DOMAIN q.changes : q.kind \in Writers[f]
  /\ "linked" \in DOMAIN q.changes =>
       /\ DOMAIN q.changes.linked = Providers
       /\ \/ q.kind = "update"
          \/ \A p \in Providers : \/ q.changes.linked[p] = q.doc.linked[p]
                                  \/ q.doc.linked[p] = None
                                  \/ q.kind = "remove" /\ q.arg = p

ReqOK(q) ==
  /\ DOMAIN q = ReqFields
  /\ q.pc = "answer" => CopyOf(q.doc)
  /\ q.pc = "name" => q.account = None
  /\ q.pc = "query" /\ q.kind = "oauth" => q.account = None
  /\ q.pc = "upload" => q.kind = "picture" /\ q.account # None /\ CopyOf(q.doc)
  /\ q.pc = "save" /\ q.account = None => DOMAIN q.changes = DocFields
                                           /\ DOMAIN q.changes.linked = Providers
  /\ q.pc = "save" /\ q.account # None => Modifies(q)

ReqsInv == DOMAIN reqs = Requests /\ \A r \in Requests : ReqOK(reqs[r])

WriteInv == UsersInv /\ GoneInv /\ PagesInv /\ ReqsInv

-----------------------------------------------------------------------------
(***************************************************************************)
(* Facts about the operators                                               *)
(***************************************************************************)
LEMMA UnusedFacts ==
  /\ DOMAIN Unused = ReqFields
  /\ Unused.account = None /\ Unused.pc = "unused" /\ Unused.saved = FALSE
BY DEF Unused, ReqFields

LEMMA NewAccountFacts == DOMAIN NewAccount = DocFields /\ DOMAIN NewAccount.linked = Providers
BY DEF NewAccount, DocFields, NoLinks

LEMMA AccountFacts ==
  ASSUME NEW d \in Account
  PROVE  /\ DOMAIN d = DocFields /\ DOMAIN d.linked = Providers
         /\ d = [f \in DocFields |-> d[f]]
<1>1. DOMAIN d = DocFields
  BY DEF Account, DocFields
<1>2. d.linked \in [Providers -> Identities \cup {None}]
  BY DEF Account
<1>3. d = [f \in DocFields |-> d[f]]
  BY <1>1 DEF Account
<1> QED BY <1>1, <1>2, <1>3

LEMMA MergeFacts ==
  ASSUME NEW changes, NEW doc
  PROVE  /\ DOMAIN Merge(changes, doc) = DOMAIN doc
         /\ \A f \in DOMAIN doc : Merge(changes, doc)[f] = IF f \in DOMAIN changes THEN changes[f]
                                                           ELSE doc[f]
BY DEF Merge

LEMMA PreSaveFacts ==
  ASSUME NEW changes
  PROVE  /\ DOMAIN PreSave(changes) = DOMAIN changes
         /\ \A f \in DOMAIN changes \ {"password"} : PreSave(changes)[f] = changes[f]
<1>1. CASE "password" \in DOMAIN changes
  <2>1. \E p : PreSave(changes) = [changes EXCEPT !["password"] = p]
    BY <1>1 DEF PreSave
  <2>2. PICK p : PreSave(changes) = [changes EXCEPT !["password"] = p]
    BY <2>1
  <2>3. ASSUME NEW c, c = [f \in DOMAIN changes |-> IF f = "password" THEN p ELSE changes[f]]
        PROVE  DOMAIN c = DOMAIN changes /\ \A f \in DOMAIN changes \ {"password"} : c[f] = changes[f]
    BY <2>3
  <2> QED BY <2>2, <2>3
<1>2. CASE "password" \notin DOMAIN changes
  BY <1>2 DEF PreSave
<1> QED BY <1>1, <1>2

(* What becomes of a request that comes in, goes on or is answered.        *)
LEMMA ReceiveFacts ==
  ASSUME NEW b, NEW q, DOMAIN q = ReqFields
  PROVE  LET n == Merge([browser |-> b, user |-> SignedIn(b)], q)
         IN  /\ DOMAIN n = ReqFields
             /\ n.pc = q.pc /\ n.kind = q.kind /\ n.account = q.account /\ n.doc = q.doc
             /\ n.changes = q.changes /\ n.arg = q.arg /\ n.token = q.token /\ n.saved = q.saved
<1>1. DOMAIN [browser |-> b, user |-> SignedIn(b)] = {"browser", "user"}
  OBVIOUS
<1> QED BY <1>1, MergeFacts DEF ReqFields

LEMMA GoFacts ==
  ASSUME WriteInv, NEW r \in Requests, NEW pc, NEW fields, "pc" \notin DOMAIN fields
  PROVE  LET n == Merge(fields, [reqs[r] EXCEPT !.pc = pc])
         IN  /\ DOMAIN n = ReqFields /\ n.pc = pc
             /\ \A f \in ReqFields \ {"pc"} : n[f] = IF f \in DOMAIN fields THEN fields[f]
                                                     ELSE reqs[r][f]
<1> DEFINE m == [reqs[r] EXCEPT !.pc = pc]
<1>1. DOMAIN reqs[r] = ReqFields
  BY DEF WriteInv, ReqsInv, ReqOK
<1>2. m = [f \in ReqFields |-> IF f = "pc" THEN pc ELSE reqs[r][f]]
  BY <1>1
<1> HIDE DEF m
<1>3. DOMAIN m = ReqFields /\ m["pc"] = pc /\ \A f \in ReqFields \ {"pc"} : m[f] = reqs[r][f]
  BY <1>2 DEF ReqFields
<1>4. Merge(fields, m)["pc"] = pc
  BY <1>3, MergeFacts DEF ReqFields
<1> QED BY <1>3, <1>4, MergeFacts DEF m

LEMMA AnsweredOK ==
  ASSUME NEW q
  PROVE  ReqOK(Answered(q)) /\ (q.saved = FALSE => Answered(q).saved = FALSE)
BY DEF Answered, Unused, ReqOK, ReqFields

LEMMA LostFacts ==
  ASSUME NEW q
  PROVE  /\ DOMAIN Lost(q) = ReqFields /\ Lost(q).pc = "lost"
         /\ \A f \in ReqFields \ {"pc"} : Lost(q)[f] = Answered(q)[f]
<1>1. DOMAIN Answered(q) = ReqFields
  BY AnsweredOK DEF ReqOK
<1>2. Lost(q) = [f \in ReqFields |-> IF f = "pc" THEN "lost" ELSE Answered(q)[f]]
  BY <1>1 DEF Lost
<1> QED BY <1>2 DEF ReqFields

LEMMA SignedInFacts ==
  ASSUME WriteInv, NEW b, SignedIn(b) # None
  PROVE  /\ SignedIn(b).id \in DOMAIN users /\ SignedIn(b) = users[SignedIn(b).id]
         /\ SignedIn(b).id # None /\ CopyOf(SignedIn(b)) /\ DOMAIN SignedIn(b) = DocFields
BY AccountsAssumption DEF SignedIn, WriteInv, UsersInv, CopyOf, DocFields

LEMMA UserFacts ==
  ASSUME WriteInv, NEW u \in DOMAIN users
  PROVE  u # None /\ CopyOf(users[u])
BY AccountsAssumption DEF WriteInv, UsersInv, CopyOf, DocFields

-----------------------------------------------------------------------------
(***************************************************************************)
(* Steps that leave the collection alone                                   *)
(***************************************************************************)

(* A request gets on, and no page changes or one is left.                  *)
LEMMA RequestStep ==
  ASSUME WriteInv, NEW r \in Requests, NEW n, ReqOK(n), reqs' = [reqs EXCEPT ![r] = n],
         UNCHANGED <<users, gone>>,
         DOMAIN page' = Browsers, \A b \in Browsers : page'[b] \in {page[b], None}
  PROVE  WriteInv'
<1>1. \A d : CopyOf(d) => CopyOf(d)'
  BY DEF CopyOf
<1>2. \A q : ReqOK(q) => ReqOK(q)'
  BY <1>1 DEF ReqOK, Modifies
<1>3. ReqsInv'
  <2>1. \A s \in Requests : reqs'[s] = IF s = r THEN n ELSE reqs[s]
    BY DEF WriteInv, ReqsInv
  <2>2. \A s \in Requests : ReqOK(reqs[s])'
    BY <1>2, <2>1 DEF WriteInv, ReqsInv
  <2>3. DOMAIN reqs' = Requests
    BY DEF WriteInv, ReqsInv
  <2> QED BY <2>2, <2>3 DEF ReqsInv
<1>4. PagesInv'
  BY <1>1 DEF WriteInv, PagesInv, PageOK
<1>5. UsersInv' /\ GoneInv'
  BY DEF WriteInv, UsersInv, GoneInv
<1> QED BY <1>3, <1>4, <1>5 DEF WriteInv

LEMMA AnsweredStep ==
  ASSUME WriteInv, NEW r \in Requests, NEW q, reqs' = [reqs EXCEPT ![r] = Answered(q)],
         UNCHANGED <<users, gone>>,
         DOMAIN page' = Browsers, \A b \in Browsers : page'[b] \in {page[b], None}
  PROVE  WriteInv'
BY RequestStep, AnsweredOK

LEMMA ReceivedStep ==
  ASSUME WriteInv, NEW r \in Requests, NEW b, NEW q, ReqOK(q), Receive(r, b, q),
         UNCHANGED <<users, gone>>,
         DOMAIN page' = Browsers, \A c \in Browsers : page'[c] \in {page[c], None}
  PROVE  WriteInv'
<1> DEFINE n == Merge([browser |-> b, user |-> SignedIn(b)], q)
<1>1. reqs' = [reqs EXCEPT ![r] = n]
  BY DEF Receive
<1>2. DOMAIN q = ReqFields
  BY DEF ReqOK
<1>3. /\ DOMAIN n = ReqFields
      /\ n.pc = q.pc /\ n.kind = q.kind /\ n.account = q.account /\ n.doc = q.doc
      /\ n.changes = q.changes /\ n.arg = q.arg
  BY <1>2, ReceiveFacts
<1> HIDE DEF n
<1>4. ReqOK(n)
  BY <1>3 DEF ReqOK, Modifies
<1> QED BY <1>1, <1>4, RequestStep

LEMMA SamePages ==
  ASSUME WriteInv, UNCHANGED page
  PROVE  DOMAIN page' = Browsers /\ \A b \in Browsers : page'[b] \in {page[b], None}
BY DEF WriteInv, PagesInv

(* A request that is to save changes to a document it has read.            *)
LEMMA SavingOK ==
  ASSUME NEW kind, NEW account, NEW doc, NEW changes, NEW arg, NEW q,
         DOMAIN q = ReqFields, q.pc = "save", q.kind = kind, q.account = account,
         q.doc = doc, q.changes = changes, q.arg = arg,
         account # None, CopyOf(doc), DOMAIN changes \subseteq DocFields,
         "id" \notin DOMAIN changes => \A f \in DOMAIN changes : kind \in Writers[f],
         "linked" \in DOMAIN changes =>
           /\ DOMAIN changes.linked = Providers
           /\ \/ kind = "update"
              \/ \A p \in Providers : \/ changes.linked[p] = doc.linked[p]
                                      \/ doc.linked[p] = None
                                      \/ kind = "remove" /\ arg = p
  PROVE  ReqOK(q)
BY DEF ReqOK, Modifies

LEMMA ReceiveSignedStep ==
  ASSUME WriteInv, NEW r \in Requests, NEW b, NEW kind, NEW changes, NEW token, NEW arg,
         ReceiveSigned(r, b, kind, changes, token, arg),
         UNCHANGED <<users, gone, page>>,
         SignedIn(b) # None =>
           /\ DOMAIN changes \subseteq DocFields
           /\ "id" \notin DOMAIN changes => \A f \in DOMAIN changes : kind \in Writers[f]
           /\ "linked" \in DOMAIN changes =>
                /\ DOMAIN changes.linked = Providers
                /\ \/ kind = "update"
                   \/ \A p \in Providers : \/ changes.linked[p] = SignedIn(b).linked[p]
                                           \/ SignedIn(b).linked[p] = None
                                           \/ kind = "remove" /\ arg = p
  PROVE  WriteInv'
<1>1. CASE AnswerAtOnce(r, kind)
  BY <1>1, AnsweredStep, SamePages DEF AnswerAtOnce
<1>2. CASE SignedIn(b) # None /\ ~AnswerAtOnce(r, kind)
  <2> DEFINE me == SignedIn(b)
             q == [Unused EXCEPT !.kind = kind, !.pc = "save", !.account = me.id, !.doc = me,
                                 !.changes = changes, !.token = token, !.arg = arg]
  <2>1. Receive(r, b, q)
    BY <1>2 DEF ReceiveSigned
  <2>2. /\ DOMAIN q = ReqFields /\ q.pc = "save" /\ q.kind = kind /\ q.account = me.id
        /\ q.doc = me /\ q.changes = changes /\ q.arg = arg
    BY DEF Unused, ReqFields
  <2>3. me.id # None /\ CopyOf(me)
    BY <1>2, SignedInFacts
  <2> HIDE DEF q
  <2>4. ReqOK(q)
    <3> HIDE DEF me
    <3> QED BY <1>2, <2>2, <2>3, SavingOK DEF me
  <2> QED BY <2>1, <2>4, ReceivedStep, SamePages
<1> QED BY <1>1, <1>2 DEF ReceiveSigned

LEMMA SendStep ==
  ASSUME WriteInv, NEW r \in Requests, NEW b \in Browsers, Send(r, b)
  PROVE  WriteInv'
<1>1. CASE Signup(r, b)
  <2>1. PICK i \in Identities :
          Receive(r, b, [Unused EXCEPT
            !.kind = "signup", !.pc = "save",
            !.changes = [NewAccount EXCEPT !.username = <<LocalPart[Profile[i].address], 0>>,
                                           !.email = Profile[i].address,
                                           !.password = Plain(r), !.profile = r]])
    BY <1>1 DEF Signup
  <2> DEFINE c == [NewAccount EXCEPT !.username = <<LocalPart[Profile[i].address], 0>>,
                                     !.email = Profile[i].address,
                                     !.password = Plain(r), !.profile = r]
             q == [Unused EXCEPT !.kind = "signup", !.pc = "save", !.changes = c]
  <2>2. DOMAIN c = DocFields /\ DOMAIN c.linked = Providers
    BY DEF NewAccount, NoLinks, DocFields
  <2> HIDE DEF c
  <2>3. /\ DOMAIN q = ReqFields /\ q.pc = "save" /\ q.account = None /\ q.changes = c
    BY DEF Unused, ReqFields
  <2>4. Receive(r, b, q)
    BY <2>1 DEF c
  <2> HIDE DEF q
  <2>5. ReqOK(q)
    BY <2>2, <2>3 DEF ReqOK
  <2> QED BY <1>1, <2>4, <2>5, ReceivedStep, SamePages DEF Signup
<1>2. ASSUME NEW q, q.pc = "query", q.kind # "oauth", DOMAIN q = ReqFields, Receive(r, b, q),
             UNCHANGED <<users, gone, page>>
      PROVE  WriteInv'
  <2>1. ReqOK(q)
    BY <1>2 DEF ReqOK
  <2> QED BY <1>2, <2>1, ReceivedStep, SamePages
<1>3. CASE SendSignin(r, b)
  <2>1. PICK u \in DOMAIN users, p \in Typed :
          Receive(r, b, [Unused EXCEPT !.kind = "signin", !.pc = "query",
                                       !.arg = [username |-> users[u].username, password |-> p]])
    BY <1>3 DEF SendSignin
  <2> DEFINE q == [Unused EXCEPT !.kind = "signin", !.pc = "query",
                                 !.arg = [username |-> users[u].username, password |-> p]]
  <2>2. q.pc = "query" /\ q.kind = "signin" /\ DOMAIN q = ReqFields
    BY DEF Unused, ReqFields
  <2> HIDE DEF q
  <2>3. Receive(r, b, q)
    BY <2>1 DEF q
  <2> QED BY <1>2, <1>3, <2>2, <2>3 DEF SendSignin
<1>4. CASE Signout(r, b)
  <2>1. DOMAIN page' = Browsers /\ \A c \in Browsers : page'[c] \in {page[c], None}
    BY <1>4 DEF Signout, WriteInv, PagesInv
  <2> QED BY <1>4, <2>1, AnsweredStep DEF Signout, AnswerAtOnce
<1>5. CASE SendForgot(r, b)
  <2>1. PICK u \in DOMAIN users :
          Receive(r, b, [Unused EXCEPT !.kind = "forgot", !.pc = "query", !.arg = users[u].username])
    BY <1>5 DEF SendForgot
  <2> DEFINE q == [Unused EXCEPT !.kind = "forgot", !.pc = "query", !.arg = users[u].username]
  <2>2. q.pc = "query" /\ q.kind = "forgot" /\ DOMAIN q = ReqFields
    BY DEF Unused, ReqFields
  <2> HIDE DEF q
  <2>3. Receive(r, b, q)
    BY <2>1 DEF q
  <2> QED BY <1>2, <1>5, <2>2, <2>3 DEF SendForgot
<1>6. CASE ValidateResetToken(r, b)
  BY <1>6, AnsweredStep, SamePages DEF ValidateResetToken, AnswerAtOnce
<1>7. CASE SendReset(r, b)
  <2>1. PICK t \in mailed :
          Receive(r, b, [Unused EXCEPT !.kind = "reset", !.pc = "query", !.token = t])
    BY <1>7 DEF SendReset
  <2> DEFINE q == [Unused EXCEPT !.kind = "reset", !.pc = "query", !.token = t]
  <2>2. q.pc = "query" /\ q.kind = "reset" /\ DOMAIN q = ReqFields
    BY DEF Unused, ReqFields
  <2> HIDE DEF q
  <2>3. Receive(r, b, q)
    BY <2>1 DEF q
  <2> QED BY <1>2, <1>7, <2>2, <2>3 DEF SendReset
<1>8. CASE SendChangePassword(r, b)
  <2>1. CASE AnswerAtOnce(r, "change")
    BY <1>8, <2>1, AnsweredStep, SamePages DEF SendChangePassword, AnswerAtOnce
  <2>2. CASE ~AnswerAtOnce(r, "change")
    <3>1. PICK p \in Typed :
            Receive(r, b, [Unused EXCEPT !.kind = "change", !.pc = "query",
                                         !.account = SignedIn(b).id, !.arg = p])
      BY <1>8, <2>2 DEF SendChangePassword
    <3> DEFINE q == [Unused EXCEPT !.kind = "change", !.pc = "query",
                                   !.account = SignedIn(b).id, !.arg = p]
    <3>2. q.pc = "query" /\ q.kind = "change" /\ DOMAIN q = ReqFields
      BY DEF Unused, ReqFields
    <3> HIDE DEF q
    <3>3. Receive(r, b, q)
      BY <3>1 DEF q
    <3> QED BY <1>2, <1>8, <3>2, <3>3 DEF SendChangePassword
  <2> QED BY <2>1, <2>2
<1>9. CASE OauthCallback(r, b)
  <2>1. DOMAIN page' = Browsers /\ \A c \in Browsers : page'[c] \in {page[c], None}
    BY <1>9 DEF OauthCallback, WriteInv, PagesInv
  <2>2. UNCHANGED <<users, gone>>
    BY <1>9 DEF OauthCallback
  <2>3. CASE AnswerAtOnce(r, "oauth")
    BY <2>1, <2>2, <2>3, AnsweredStep DEF AnswerAtOnce
  <2>4. CASE ~AnswerAtOnce(r, "oauth")
    <3> DEFINE me == SignedIn(b)
               arg(i) == [identity |-> i, suffix |-> 0]
               q1(i) == [Unused EXCEPT !.kind = "oauth", !.arg = arg(i), !.pc = "query"]
               links(i) == Joined(me.linked, ProviderOf(i), i)
               q2(i) == [Unused EXCEPT !.kind = "oauth", !.arg = arg(i), !.pc = "save",
                                       !.account = me.id, !.doc = me,
                                       !.changes = [linked |-> links(i)]]
    <3>1. PICK i \in Identities :
            \/ me = None /\ Receive(r, b, q1(i))
            \/ me # None /\ me.linked[ProviderOf(i)] = None /\ Receive(r, b, q2(i))
      BY <1>9, <2>4 DEF OauthCallback
    <3>2. CASE me = None /\ Receive(r, b, q1(i))
      <4>1. DOMAIN q1(i) = ReqFields /\ q1(i).pc = "query" /\ q1(i).account = None
        BY DEF Unused, ReqFields
      <4> HIDE DEF q1
      <4>2. ReqOK(q1(i))
        BY <4>1 DEF ReqOK
      <4> QED BY <2>1, <2>2, <3>2, <4>2, ReceivedStep
    <3>3. CASE me # None /\ me.linked[ProviderOf(i)] = None /\ Receive(r, b, q2(i))
      <4>1. /\ DOMAIN q2(i) = ReqFields /\ q2(i).pc = "save" /\ q2(i).kind = "oauth"
            /\ q2(i).account = me.id /\ q2(i).doc = me /\ q2(i).changes = [linked |-> links(i)]
        BY DEF Unused, ReqFields
      <4>2. me.id # None /\ CopyOf(me)
        BY <3>3, SignedInFacts
      <4>3. /\ DOMAIN links(i) = Providers
            /\ \A p \in Providers : links(i)[p] = me.linked[p] \/ me.linked[p] = None
        BY <3>3, <4>2 DEF Joined, CopyOf
      <4> DEFINE c == [linked |-> links(i)]
      <4> HIDE DEF q2, links
      <4>4. DOMAIN c = {"linked"} /\ c.linked = links(i)
        OBVIOUS
      <4>5. "oauth" \in Writers["linked"]
        BY DEF Writers
      <4> HIDE DEF c, me
      <4>6. ReqOK(q2(i))
        BY <4>1, <4>2, <4>3, <4>4, <4>5 DEF ReqOK, Modifies, DocFields, c
      <4> QED BY <2>1, <2>2, <3>3, <4>6, ReceivedStep
    <3> QED BY <3>1, <3>2, <3>3
  <2> QED BY <2>3, <2>4
<1>10. CASE RemoveOAuthProvider(r, b)
  <2>1. CASE AnswerAtOnce(r, "remove")
    BY <1>10, <2>1, AnsweredStep, SamePages DEF RemoveOAuthProvider, AnswerAtOnce
  <2>2. CASE ~AnswerAtOnce(r, "remove")
    <3> DEFINE me == SignedIn(b)
               c(p) == IF me.linked[p] = None THEN <<>>
                       ELSE [linked |-> [me.linked EXCEPT ![p] = None]]
    <3>1. PICK p \in Providers : me # None /\ ReceiveSigned(r, b, "remove", c(p), None, p)
      BY <1>10, <2>2 DEF RemoveOAuthProvider
    <3>2. DOMAIN me.linked = Providers
      BY <3>1, SignedInFacts DEF CopyOf
    <3>3. DOMAIN c(p) \subseteq {"linked"}
      <4>1. DOMAIN <<>> = {}
        OBVIOUS
      <4> QED BY <4>1
    <3>4. "linked" \in DOMAIN c(p) => c(p).linked = [me.linked EXCEPT ![p] = None]
      <4>1. DOMAIN <<>> = {}
        OBVIOUS
      <4> QED BY <4>1
    <3>5. "linked" \in DOMAIN c(p) =>
            /\ DOMAIN c(p).linked = Providers
            /\ \A o \in Providers : c(p).linked[o] = me.linked[o] \/ p = o
      BY <3>2, <3>4
    <3> HIDE DEF c
    <3>6. "remove" \in Writers["linked"]
      BY DEF Writers
    <3> QED BY <1>10, <3>1, <3>3, <3>5, <3>6, ReceiveSignedStep DEF RemoveOAuthProvider, DocFields
  <2> QED BY <2>1, <2>2
<1>11. CASE UpdateProfile(r, b)
  <2> DEFINE me == SignedIn(b)
             body(e) == FormBody(r, b, e)
             c(e) == IF me = None THEN <<>> ELSE Extend(me, body(e))
  <2>1. page[b] # None /\ UNCHANGED <<users, gone, page>>
    BY <1>11 DEF UpdateProfile
  <2>2. PICK e \in Edits : \E t : ReceiveSigned(r, b, "update", c(e), t, None)
    BY <1>11 DEF UpdateProfile
  <2>3. ASSUME me # None
        PROVE  /\ DOMAIN c(e) \subseteq DocFields
               /\ "id" \notin DOMAIN c(e) => \A f \in DOMAIN c(e) : "update" \in Writers[f]
               /\ "linked" \in DOMAIN c(e) => DOMAIN c(e).linked = Providers
    <3> DEFINE sent == [page[b] EXCEPT !.profile = r]
               B == body(e)
    <3>1. PageOK(page[b]) /\ DOMAIN page[b] \in {JsonFields, PageFields}
      BY <2>1 DEF WriteInv, PagesInv, PageOK
    <3>2. DOMAIN e \subseteq {"username", "email"}
      BY DocumentsAssumption
    <3>3. DOMAIN sent = DOMAIN page[b] /\ \A f \in DOMAIN page[b] \ {"profile"} : sent[f] = page[b][f]
      <4>1. sent = [f \in DOMAIN page[b] |-> IF f = "profile" THEN r ELSE page[b][f]]
        OBVIOUS
      <4> HIDE DEF sent
      <4> QED BY <4>1
    <3>4. B = Merge(e, sent)
      BY DEF FormBody
    <3> HIDE DEF B, sent
    <3>5. /\ DOMAIN B = DOMAIN page[b]
          /\ \A f \in DOMAIN page[b] \ {"profile", "username", "email"} : B[f] = page[b][f]
      BY <3>2, <3>3, <3>4, MergeFacts
    <3>6. /\ DOMAIN c(e) = {g \in DOMAIN B \ {"roles"} : ~Absent(g, B[g]) /\ B[g] # me[g]}
          /\ \A f \in DOMAIN c(e) : c(e)[f] = B[f]
      BY <2>3 DEF Extend, B
    <3> HIDE DEF c, body
    <3>7. CopyOf(me) /\ me.id \in DOMAIN users /\ me = users[me.id]
      BY <2>3, SignedInFacts
    <3>8. DOMAIN page[b] \subseteq DocFields
      BY <3>1 DEF JsonFields, PageFields, DocFields
    <3>9. \A f \in {"provider", "username", "email", "token", "profile", "picture", "linked"} :
            "update" \in Writers[f]
      BY DEF Writers
    <3>10. CASE DOMAIN page[b] = PageFields
      BY <3>5, <3>6, <3>8, <3>9, <3>10 DEF PageFields
    <3>11. CASE DOMAIN page[b] = JsonFields
      <4>1. CopyOf(page[b])
        BY <2>1, <3>1, <3>11 DEF PageOK, JsonFields, PageFields
      <4>2. {"id", "identity", "linked"} \subseteq DOMAIN page[b]
        BY <3>11 DEF JsonFields
      <4>3. B.id = page[b].id /\ B.identity = page[b].identity /\ B.linked = page[b].linked
        BY <3>5, <4>2
      <4>4. "id" \notin DOMAIN c(e) => "identity" \notin DOMAIN c(e)
        <5>1. ASSUME "id" \notin DOMAIN c(e) PROVE page[b].id = me.id
          BY <3>5, <3>6, <4>2, <4>3, <5>1 DEF Absent
        <5>2. ASSUME page[b].id = me.id PROVE "identity" \notin DOMAIN c(e)
          BY <3>6, <3>7, <4>1, <4>3, <5>2 DEF CopyOf
        <5> QED BY <5>1, <5>2
      <4>5. "linked" \in DOMAIN c(e) => DOMAIN c(e).linked = Providers
        BY <3>6, <4>1, <4>3 DEF CopyOf
      <4> QED BY <3>5, <3>6, <3>8, <3>9, <3>11, <4>4, <4>5 DEF JsonFields
    <3> QED BY <3>1, <3>10, <3>11
  <2> HIDE DEF c
  <2> QED BY <2>1, <2>2, <2>3, ReceiveSignedStep
<1>12. CASE ChangeProfilePicture(r, b)
  <2>1. CASE AnswerAtOnce(r, "picture")
    BY <1>12, <2>1, AnsweredStep, SamePages DEF ChangeProfilePicture, AnswerAtOnce
  <2>2. CASE ~AnswerAtOnce(r, "picture")
    <3> DEFINE me == SignedIn(b)
               q == [Unused EXCEPT !.kind = "picture", !.pc = "upload", !.account = me.id,
                                   !.doc = me]
    <3>1. me # None /\ Receive(r, b, q)
      BY <1>12, <2>2 DEF ChangeProfilePicture
    <3>2. me.id # None /\ CopyOf(me)
      BY <3>1, SignedInFacts
    <3>3. /\ DOMAIN q = ReqFields /\ q.pc = "upload" /\ q.kind = "picture"
          /\ q.account = me.id /\ q.doc = me
      BY DEF Unused, ReqFields
    <3> HIDE DEF q, me
    <3>4. ReqOK(q)
      BY <3>2, <3>3 DEF ReqOK
    <3> QED BY <1>12, <3>1, <3>4, ReceivedStep, SamePages DEF ChangeProfilePicture
  <2> QED BY <2>1, <2>2
<1>13. CASE SendAdmin(r, b)
  <2> DEFINE q1(u) == [Unused EXCEPT !.kind = "adminDelete", !.pc = "query", !.account = u]
             q2(u, held) == [Unused EXCEPT !.kind = "adminUpdate", !.pc = "query",
                                           !.account = u, !.arg = held]
  <2>1. PICK u \in DOMAIN users : \E roles :
          Receive(r, b, q1(u)) \/ Receive(r, b, q2(u, roles))
    BY <1>13 DEF SendAdmin
  <2>3. PICK held : Receive(r, b, q1(u)) \/ Receive(r, b, q2(u, held))
    BY <2>1
  <2>2. /\ DOMAIN q1(u) = ReqFields /\ q1(u).pc = "query" /\ q1(u).kind = "adminDelete"
        /\ DOMAIN q2(u, held) = ReqFields /\ q2(u, held).pc = "query"
        /\ q2(u, held).kind = "adminUpdate"
    BY DEF Unused, ReqFields
  <2> HIDE DEF q1, q2
  <2> QED BY <1>2, <1>13, <2>2, <2>3 DEF SendAdmin
<1> QED BY <1>1, <1>3, <1>4, <1>5, <1>6, <1>7, <1>8, <1>9, <1>10, <1>11, <1>12, <1>13 DEF Send

(* A request that goes on to another call with new fields.                 *)
LEMMA GoStep ==
  ASSUME WriteInv, NEW r \in Requests, NEW pc, NEW fields, Go(r, pc, fields),
         "pc" \notin DOMAIN fields, UNCHANGED <<users, gone, page>>,
         ReqOK(Merge(fields, [reqs[r] EXCEPT !.pc = pc]))
  PROVE  WriteInv'
BY RequestStep, SamePages DEF Go

LEMMA CloseStep ==
  ASSUME WriteInv, NEW r \in Requests, Close(r), UNCHANGED <<users, gone, page>>
  PROVE  WriteInv'
BY AnsweredStep, SamePages DEF Close

(* One that goes on to its answer with a copy of an account.               *)
LEMMA GoAnswer ==
  ASSUME WriteInv, NEW r \in Requests, NEW u \in DOMAIN users,
         Go(r, "answer", [account |-> u, doc |-> users[u]]),
         UNCHANGED <<users, gone, page>>
  PROVE  WriteInv'
<1> DEFINE fields == [account |-> u, doc |-> users[u]]
           n == Merge(fields, [reqs[r] EXCEPT !.pc = "answer"])
<1>1. DOMAIN fields = {"account", "doc"} /\ fields.doc = users[u]
  OBVIOUS
<1>2. DOMAIN n = ReqFields /\ n.pc = "answer" /\ n.doc = users[u]
  <2> HIDE DEF fields
  <2> QED BY <1>1, GoFacts DEF ReqFields
<1> HIDE DEF n, fields
<1>3. ReqOK(n)
  BY <1>2, UserFacts DEF ReqOK
<1> QED BY <1>1, <1>3, GoStep DEF n, fields

(* One that goes on to save changes to a document it has just read, none   *)
(* of them to its id or its providers.                                     *)
LEMMA GoSave ==
  ASSUME WriteInv, NEW r \in Requests, NEW fields, NEW u \in DOMAIN users,
         Go(r, "save", fields), UNCHANGED <<users, gone, page>>,
         DOMAIN fields \subseteq {"account", "doc", "changes", "token"},
         {"doc", "changes"} \subseteq DOMAIN fields, fields.doc = users[u],
         \/ "account" \in DOMAIN fields /\ fields.account = u
         \/ "account" \notin DOMAIN fields /\ reqs[r].account = u,
         DOMAIN fields.changes \subseteq DocFields \ {"id", "linked"},
         \A f \in DOMAIN fields.changes : reqs[r].kind \in Writers[f]
  PROVE  WriteInv'
<1> DEFINE n == Merge(fields, [reqs[r] EXCEPT !.pc = "save"])
<1>1. /\ DOMAIN n = ReqFields /\ n.pc = "save"
      /\ n.doc = users[u] /\ n.changes = fields.changes /\ n.account = u
      /\ n.kind = reqs[r].kind
  BY GoFacts DEF ReqFields
<1> HIDE DEF n
<1>2. ReqOK(n)
  BY <1>1, UserFacts DEF ReqOK, Modifies
<1> QED BY <1>2, GoStep DEF n

LEMMA CallStep ==
  ASSUME WriteInv, NEW r \in Requests,
         \/ Signin(r) \/ Forgot(r) \/ SendMail(r) \/ Reset(r) \/ ChangePassword(r)
         \/ OauthSignin(r) \/ FindUniqueUsername(r) \/ Upload(r) \/ AdminLoad(r)
         \/ QueryFails(r) \/ NameFails(r) \/ UploadFails(r) \/ SaveFails(r) \/ LoginFails(r)
  PROVE  WriteInv'
<1>0. UNCHANGED <<users, gone, page>>
  BY DEF Signin, Forgot, SendMail, Reset, ChangePassword, OauthSignin, FindUniqueUsername,
         Upload, AdminLoad, QueryFails, NameFails, UploadFails, SaveFails, LoginFails
<1>1. CASE Close(r)
  BY <1>0, <1>1, CloseStep
<1>2. CASE Signin(r) /\ ~Close(r)
  BY <1>0, <1>2, GoAnswer DEF Signin
<1>3. CASE Forgot(r) /\ ~Close(r)
  <2>1. reqs[r].kind = "forgot"
    BY <1>3 DEF Forgot
  <2>2. PICK u \in DOMAIN users :
          Go(r, "save", [account |-> u, doc |-> users[u], token |-> r, changes |-> [token |-> r]])
    BY <1>3 DEF Forgot
  <2> DEFINE fields == [account |-> u, doc |-> users[u], token |-> r, changes |-> [token |-> r]]
  <2>3. /\ DOMAIN fields = {"account", "doc", "changes", "token"}
        /\ fields.doc = users[u] /\ fields.account = u /\ DOMAIN fields.changes = {"token"}
    OBVIOUS
  <2>4. "forgot" \in Writers["token"]
    BY DEF Writers
  <2> HIDE DEF fields
  <2> QED BY <1>0, <2>1, <2>2, <2>3, <2>4, GoSave DEF fields, DocFields
<1>4. CASE Reset(r) /\ ~Close(r)
  <2>1. reqs[r].kind = "reset"
    BY <1>4 DEF Reset
  <2>2. PICK u \in DOMAIN users :
          Go(r, "save", [account |-> u, doc |-> users[u], changes |-> NewPassword(r)])
    BY <1>4 DEF Reset, WithToken
  <2> DEFINE fields == [account |-> u, doc |-> users[u], changes |-> NewPassword(r)]
  <2>3. /\ DOMAIN fields = {"account", "doc", "changes"}
        /\ fields.doc = users[u] /\ fields.account = u
        /\ DOMAIN fields.changes = {"password", "token"}
    BY DEF NewPassword
  <2>4. "reset" \in Writers["token"] /\ "reset" \in Writers["password"]
    BY DEF Writers
  <2> HIDE DEF fields
  <2> QED BY <1>0, <2>1, <2>2, <2>3, <2>4, GoSave DEF fields, DocFields
<1>5. CASE ChangePassword(r) /\ ~Close(r)
  <2> DEFINE u == reqs[r].account
             fields == [doc |-> users[u], changes |-> [password |-> Plain(r)]]
  <2>1. reqs[r].kind = "change" /\ u \in DOMAIN users /\ Go(r, "save", fields)
    BY <1>5 DEF ChangePassword
  <2>2. /\ DOMAIN fields = {"doc", "changes"}
        /\ fields.doc = users[u] /\ DOMAIN fields.changes = {"password"}
    OBVIOUS
  <2>3. "change" \in Writers["password"]
    BY DEF Writers
  <2> HIDE DEF fields
  <2> QED BY <1>0, <2>1, <2>2, <2>3, GoSave DEF DocFields
<1>6. CASE OauthSignin(r) /\ ~Close(r)
  <2>1. CASE \E u \in WithIdentity(reqs[r].arg.identity) :
               Go(r, "answer", [account |-> u, doc |-> users[u]])
    BY <1>0, <2>1, GoAnswer DEF WithIdentity
  <2>2. CASE Go(r, "name", <<>>)
    <3> DEFINE n == Merge(<<>>, [reqs[r] EXCEPT !.pc = "name"])
    <3>1. DOMAIN <<>> = {}
      OBVIOUS
    <3>2. DOMAIN n = ReqFields /\ n.pc = "name" /\ n.account = reqs[r].account
      BY <3>1, GoFacts DEF ReqFields
    <3>3. reqs[r].account = None
      BY <1>6 DEF OauthSignin, WriteInv, ReqsInv, ReqOK
    <3> HIDE DEF n
    <3>4. ReqOK(n)
      BY <3>2, <3>3 DEF ReqOK
    <3> QED BY <1>0, <2>2, <3>1, <3>4, GoStep DEF n
  <2> QED BY <1>6, <2>1, <2>2 DEF OauthSignin
<1>7. CASE FindUniqueUsername(r) \/ NameFails(r)
  <2> DEFINE next == [reqs[r].arg EXCEPT !.suffix = @ + 1]
             again == [arg |-> next]
             m == Merge(again, [reqs[r] EXCEPT !.pc = "name"])
             fields(c) == [changes |-> c]
             n(c) == Merge(fields(c), [reqs[r] EXCEPT !.pc = "save"])
  <2>1. reqs[r].account = None
    BY <1>7 DEF FindUniqueUsername, NameFails, WriteInv, ReqsInv, ReqOK
  <2>2. CASE Go(r, "name", again)
    <3> HIDE DEF next
    <3>1. DOMAIN again = {"arg"}
      OBVIOUS
    <3>2. DOMAIN m = ReqFields /\ m.pc = "name" /\ m.account = None
      <4> HIDE DEF again
      <4> QED BY <2>1, <3>1, GoFacts DEF ReqFields
    <3> HIDE DEF m
    <3>3. ReqOK(m)
      BY <3>2 DEF ReqOK
    <3> QED BY <1>0, <2>2, <3>1, <3>3, GoStep DEF m
  <2>3. ASSUME NEW i, NEW name, Go(r, "save", [changes |-> NewUser(r, i, name)])
        PROVE  WriteInv'
    <3> DEFINE c == NewUser(r, i, name)
    <3>1. DOMAIN c = DocFields /\ DOMAIN c.linked = Providers
      BY DEF NewUser, NewAccount, NoLinks, DocFields
    <3> HIDE DEF c
    <3>2. DOMAIN fields(c) = {"changes"} /\ fields(c).changes = c
      OBVIOUS
    <3>3. DOMAIN n(c) = ReqFields /\ n(c).pc = "save" /\ n(c).account = None /\ n(c).changes = c
      <4> HIDE DEF fields
      <4> QED BY <2>1, <3>2, GoFacts DEF ReqFields
    <3>4. Go(r, "save", fields(c))
      BY <2>3 DEF c
    <3> HIDE DEF n
    <3>5. ReqOK(n(c))
      BY <3>1, <3>3 DEF ReqOK
    <3> HIDE DEF fields
    <3> QED BY <1>0, <3>2, <3>4, <3>5, GoStep DEF n
  <2> QED BY <1>7, <2>2, <2>3 DEF FindUniqueUsername, NameFails
<1>10. CASE Upload(r)
  <2> DEFINE c == [picture |-> r]
             fields == [changes |-> c]
             n == Merge(fields, [reqs[r] EXCEPT !.pc = "save"])
  <2>1. reqs[r].kind = "picture" /\ reqs[r].account # None /\ CopyOf(reqs[r].doc)
    BY <1>10 DEF Upload, WriteInv, ReqsInv, ReqOK
  <2>2. DOMAIN c = {"picture"}
    OBVIOUS
  <2>3. "picture" \in Writers["picture"]
    BY DEF Writers
  <2>4. Go(r, "save", fields)
    BY <1>10 DEF Upload
  <2> HIDE DEF c
  <2>5. DOMAIN fields = {"changes"} /\ fields.changes = c
    OBVIOUS
  <2>6. /\ DOMAIN n = ReqFields /\ n.pc = "save" /\ n.kind = reqs[r].kind
        /\ n.account = reqs[r].account /\ n.doc = reqs[r].doc /\ n.changes = c
    <3> HIDE DEF fields
    <3> QED BY <2>5, GoFacts DEF ReqFields
  <2> HIDE DEF n
  <2>7. ReqOK(n)
    BY <2>1, <2>2, <2>3, <2>6 DEF ReqOK, Modifies, DocFields
  <2> HIDE DEF fields
  <2> QED BY <1>0, <2>4, <2>5, <2>7, GoStep DEF n
<1>8. CASE AdminLoad(r) /\ ~Close(r)
  <2> DEFINE u == reqs[r].account
             fields == [doc |-> users[u], changes |-> [profile |-> r, roles |-> reqs[r].arg]]
             gets == [doc |-> users[u]]
             n == Merge(gets, [reqs[r] EXCEPT !.pc = "remove"])
  <2>1. CASE Go(r, "remove", gets)
    <3>1. DOMAIN gets = {"doc"}
      OBVIOUS
    <3>2. DOMAIN n = ReqFields /\ n.pc = "remove"
      <4> HIDE DEF gets
      <4> QED BY <3>1, GoFacts DEF ReqFields
    <3> HIDE DEF n
    <3>3. ReqOK(n)
      BY <3>2 DEF ReqOK
    <3> QED BY <1>0, <2>1, <3>1, <3>3, GoStep DEF n
  <2>2. CASE reqs[r].kind = "adminUpdate" /\ u \in DOMAIN users /\ Go(r, "save", fields)
    <3>1. /\ DOMAIN fields = {"doc", "changes"}
          /\ fields.doc = users[u] /\ DOMAIN fields.changes = {"profile", "roles"}
      OBVIOUS
    <3>2. "adminUpdate" \in Writers["profile"] /\ "adminUpdate" \in Writers["roles"]
      BY DEF Writers
    <3> HIDE DEF fields
    <3> QED BY <1>0, <2>2, <3>1, <3>2, GoSave DEF DocFields
  <2> QED BY <1>8, <2>1, <2>2 DEF AdminLoad
<1>9. CASE SendMail(r) \/ QueryFails(r) \/ UploadFails(r) \/ SaveFails(r) \/ LoginFails(r)
  BY <1>1, <1>9 DEF SendMail, QueryFails, UploadFails, SaveFails, LoginFails
<1> QED BY <1>1, <1>2, <1>3, <1>4, <1>5, <1>6, <1>7, <1>8, <1>9, <1>10

(* The process ends, and the requests under way with it.                   *)
LEMMA ThrowStep ==
  ASSUME WriteInv, NEW r \in Requests, Throw(r)
  PROVE  WriteInv'
<1>1. UNCHANGED <<users, gone, page>>
  BY DEF Throw
<1>2. \A s \in Requests : reqs'[s] \in {reqs[s], Lost(reqs[s])}
  BY DEF Throw
<1>3. DOMAIN reqs' = Requests
  BY DEF Throw
<1>4. \A d : CopyOf(d) => CopyOf(d)'
  BY <1>1 DEF CopyOf
<1>5. \A q : ReqOK(q) => ReqOK(q)'
  BY <1>4 DEF ReqOK, Modifies
<1>6. \A q : ReqOK(Lost(q))
  BY LostFacts DEF ReqOK
<1>7. \A s \in Requests : ReqOK(reqs'[s])
  BY <1>2, <1>6 DEF WriteInv, ReqsInv
<1>8. \A s \in Requests : ReqOK(reqs[s])'
  BY <1>5, <1>7
<1>9. ReqsInv'
  BY <1>3, <1>8 DEF ReqsInv
<1> QED BY <1>1, <1>4, <1>9 DEF WriteInv, UsersInv, GoneInv, PagesInv, PageOK

(* A page that gets a copy of an account.                                  *)
LEMMA PageStep ==
  ASSUME WriteInv, UNCHANGED <<users, gone>>, ReqsInv', DOMAIN page' = Browsers,
         \A b \in Browsers : PageOK(page'[b])
  PROVE  WriteInv'
<1>1. \A p : PageOK(p) => PageOK(p)'
  BY DEF PageOK, CopyOf
<1>2. \A b \in Browsers : PageOK(page[b])'
  BY <1>1
<1> QED BY <1>2 DEF WriteInv, UsersInv, GoneInv, PagesInv

LEMMA AnswerStep ==
  ASSUME WriteInv, NEW r \in Requests, Answer(r)
  PROVE  WriteInv'
<1> DEFINE d == reqs[r].doc
           v == View(d, JsonFields)
<1>1. CopyOf(d)
  BY DEF Answer, WriteInv, ReqsInv, ReqOK
<1>2. PageOK(v)
  <2>1. DOMAIN v = JsonFields /\ \A f \in JsonFields : v[f] = d[f]
    BY DEF View
  <2> HIDE DEF v, d
  <2> QED BY <1>1, <2>1 DEF PageOK, CopyOf, JsonFields
<1>3. DOMAIN page' = Browsers /\ \A b \in Browsers : PageOK(page'[b])
  <2>1. page' = page \/ page' = [page EXCEPT ![reqs[r].browser] = v]
    BY DEF Answer
  <2> HIDE DEF v
  <2> QED BY <1>2, <2>1 DEF WriteInv, PagesInv
<1>4. ReqsInv'
  <2>1. \A q : ReqOK(q) => ReqOK(q)'
    BY DEF Answer, ReqOK, Modifies, CopyOf
  <2>2. \A s \in Requests : ReqOK(reqs'[s])
    BY AnsweredOK DEF Answer, Close, WriteInv, ReqsInv
  <2>3. DOMAIN reqs' = Requests
    BY DEF Answer, Close, WriteInv, ReqsInv
  <2>4. \A s \in Requests : ReqOK(reqs[s])'
    BY <2>1, <2>2
  <2> QED BY <2>3, <2>4 DEF ReqsInv
<1> QED BY <1>3, <1>4, PageStep DEF Answer

LEMMA LoadPageStep ==
  ASSUME WriteInv, NEW b \in Browsers, LoadPage(b)
  PROVE  WriteInv'
<1> DEFINE v == View(SignedIn(b), PageFields)
<1>1. PageOK(v)
  BY DEF View, PageOK
<1> HIDE DEF v
<1>2. page' = [page EXCEPT ![b] = v]
  BY DEF LoadPage, v
<1>3. DOMAIN page' = Browsers /\ \A c \in Browsers : PageOK(page'[c])
  BY <1>1, <1>2 DEF WriteInv, PagesInv
<1>4. ReqsInv'
  <2>1. \A q : ReqOK(q) => ReqOK(q)'
    BY DEF LoadPage, ReqOK, Modifies, CopyOf
  <2>2. \A s \in Requests : ReqOK(reqs[s])'
    BY <2>1 DEF LoadPage, WriteInv, ReqsInv
  <2> QED BY <2>2 DEF LoadPage, WriteInv, ReqsInv
<1> QED BY <1>3, <1>4, PageStep DEF LoadPage

-----------------------------------------------------------------------------
(***************************************************************************)
(* Steps that change the collection                                        *)
(***************************************************************************)

(* Copies stay copies, and one request gets on.                            *)
LEMMA CollectionStep ==
  ASSUME WriteInv, NEW r \in Requests, NEW n, reqs' = [reqs EXCEPT ![r] = n],
         UNCHANGED page, UsersInv', GoneInv', ReqOK(reqs[r])',
         \A d : CopyOf(d) => CopyOf(d)'
  PROVE  WriteInv'
<1>1. \A q : ReqOK(q) => ReqOK(q)'
  BY DEF ReqOK, Modifies
<1>2. DOMAIN reqs' = Requests /\ \A s \in Requests \ {r} : reqs'[s] = reqs[s]
  BY DEF WriteInv, ReqsInv
<1>3. \A s \in Requests \ {r} : ReqOK(reqs[s])'
  BY <1>1, <1>2 DEF WriteInv, ReqsInv
<1>4. ReqsInv'
  BY <1>2, <1>3 DEF ReqsInv
<1>5. PagesInv'
  BY DEF WriteInv, PagesInv, PageOK
<1> QED BY <1>4, <1>5 DEF WriteInv

LEMMA AdminDeleteStep ==
  ASSUME WriteInv, NEW r \in Requests, AdminDelete(r)
  PROVE  WriteInv'
<1> DEFINE u == reqs[r].account
<1>1. /\ DOMAIN users' = DOMAIN users \ {u} /\ gone' = gone \cup {u}
      /\ \A v \in DOMAIN users' : users'[v] = users[v]
  BY DEF AdminDelete
<1>2. reqs' = [reqs EXCEPT ![r] = Answered(reqs[r])] /\ UNCHANGED page
  BY DEF AdminDelete, Close
<1>3. UsersInv' /\ GoneInv'
  BY <1>1 DEF WriteInv, UsersInv, GoneInv
<1>4. \A d : CopyOf(d) => CopyOf(d)'
  BY <1>1 DEF CopyOf
<1>5. ReqOK(reqs[r])'
  <2>1. \A q : ReqOK(Answered(q))'
    BY DEF Answered, Unused, ReqOK, ReqFields
  <2>2. reqs'[r] = Answered(reqs[r])
    BY <1>2 DEF WriteInv, ReqsInv
  <2> QED BY <2>1, <2>2
<1> QED BY <1>2, <1>3, <1>4, <1>5, CollectionStep

(* What a request becomes when its document is saved.                      *)
LEMMA SavedFacts ==
  ASSUME WriteInv, NEW r \in Requests, NEW pc, NEW fields, Go(r, pc, fields),
         DOMAIN fields \subseteq {"account", "doc", "changes", "saved"},
         "doc" \in DOMAIN fields, "saved" \in DOMAIN fields, fields.saved = TRUE
  PROVE  /\ reqs'[r].pc = pc /\ DOMAIN reqs'[r] = ReqFields
         /\ reqs'[r].doc = fields.doc /\ reqs'[r].saved
         /\ \E n : reqs' = [reqs EXCEPT ![r] = n]
<1> DEFINE n == Merge(fields, [reqs[r] EXCEPT !.pc = pc])
<1>1. DOMAIN n = ReqFields /\ n.pc = pc /\ n.doc = fields.doc /\ n.saved = TRUE
  BY GoFacts DEF ReqFields
<1>2. reqs' = [reqs EXCEPT ![r] = n]
  BY DEF Go
<1> HIDE DEF n
<1>3. reqs'[r] = n
  BY <1>2 DEF WriteInv, ReqsInv
<1> QED BY <1>1, <1>2, <1>3

(* A save inserts a new account, or writes the modified fields of one.     *)
Inserts(r) ==
  LET doc == reqs'[r].doc
  IN  \E u \in Ids \ (DOMAIN users \cup gone) :
        /\ users' = [v \in DOMAIN users \cup {u} |-> IF v = u THEN doc ELSE users[v]]
        /\ DOMAIN doc = DocFields /\ doc.id = u /\ DOMAIN doc.linked = Providers

Updates(r) ==
  LET u == reqs[r].account
      stored == PreSave(reqs[r].changes)
  IN  /\ u # None
      /\ users' = Updated(u, stored, reqs[r].doc)
      /\ Modifies(reqs[r]) /\ "id" \notin DOMAIN stored
      /\ reqs'[r].doc = Merge(stored, reqs[r].doc)

LEMMA SaveFacts ==
  ASSUME WriteInv, NEW r \in Requests, Save(r)
  PROVE  /\ Saves(r) /\ reqs'[r].pc \in {"mail", "answer"} /\ DOMAIN reqs'[r] = ReqFields
         /\ \E n : reqs' = [reqs EXCEPT ![r] = n]
         /\ UNCHANGED <<gone, page>>
         /\ Inserts(r) \/ Updates(r)
<1> DEFINE q == reqs[r]
           stored == PreSave(q.changes)
           after == IF q.kind = "forgot" THEN "mail" ELSE "answer"
<1>1. q.pc = "save" /\ UNCHANGED <<gone, page>> /\ after \in {"mail", "answer"}
  BY DEF Save
<1>2. CASE q.account = None
  <2> DEFINE doc(u) == [stored EXCEPT !.id = u]
             fields(u) == [account |-> u, doc |-> doc(u), changes |-> <<>>, saved |-> TRUE]
  <2>1. PICK u \in Ids \ (DOMAIN users \cup gone) :
          /\ users' = [v \in DOMAIN users \cup {u} |-> IF v = u THEN doc(u) ELSE users[v]]
          /\ Go(r, after, fields(u))
    BY <1>2 DEF Save, FreeIds
  <2>2. DOMAIN q.changes = DocFields /\ DOMAIN q.changes.linked = Providers
    BY <1>1, <1>2 DEF WriteInv, ReqsInv, ReqOK
  <2>3. DOMAIN stored = DocFields /\ DOMAIN stored.linked = Providers
    BY <2>2, PreSaveFacts DEF DocFields
  <2>4. DOMAIN doc(u) = DocFields /\ doc(u).id = u /\ DOMAIN doc(u).linked = Providers
    <3> HIDE DEF stored
    <3> QED BY <2>3 DEF DocFields
  <2> HIDE DEF doc
  <2>5. /\ DOMAIN fields(u) = {"account", "doc", "changes", "saved"}
        /\ fields(u).doc = doc(u) /\ fields(u).saved = TRUE
    OBVIOUS
  <2> HIDE DEF fields, after
  <2>6. /\ reqs'[r].pc = after /\ DOMAIN reqs'[r] = ReqFields
        /\ reqs'[r].doc = doc(u) /\ reqs'[r].saved
        /\ \E n : reqs' = [reqs EXCEPT ![r] = n]
    BY <2>1, <2>5, SavedFacts
  <2>7. Inserts(r)
    BY <2>1, <2>4, <2>6 DEF Inserts
  <2> QED BY <1>1, <2>6, <2>7 DEF Saves
<1>3. CASE q.account # None
  <2> DEFINE doc == Merge(stored, q.doc)
             fields == [doc |-> doc, changes |-> <<>>, saved |-> TRUE]
  <2>1. /\ "id" \notin DOMAIN stored
        /\ users' = Updated(q.account, stored, q.doc)
        /\ Go(r, after, fields)
    BY <1>3 DEF Save, Refused
  <2> HIDE DEF doc
  <2>2. DOMAIN fields = {"doc", "changes", "saved"} /\ fields.doc = doc /\ fields.saved = TRUE
    OBVIOUS
  <2> HIDE DEF fields, after
  <2>3. /\ reqs'[r].pc = after /\ DOMAIN reqs'[r] = ReqFields
        /\ reqs'[r].doc = doc /\ reqs'[r].saved
        /\ \E n : reqs' = [reqs EXCEPT ![r] = n]
    BY <2>1, <2>2, SavedFacts
  <2>4. Modifies(q)
    BY <1>1, <1>3 DEF WriteInv, ReqsInv, ReqOK
  <2>5. Updates(r)
    BY <1>3, <2>1, <2>3, <2>4 DEF Updates, doc
  <2> QED BY <1>1, <2>3, <2>5 DEF Saves
<1> QED BY <1>2, <1>3

(* An update keeps every account's id and identity.                        *)
LEMMA UpdateFacts ==
  ASSUME WriteInv, NEW r \in Requests, Updates(r)
  PROVE  /\ DOMAIN users' = DOMAIN users
         /\ \A v \in DOMAIN users :
              /\ v # reqs[r].account => users'[v] = users[v]
              /\ DOMAIN users'[v] = DocFields
              /\ users'[v].id = users[v].id /\ users'[v].identity = users[v].identity
              /\ DOMAIN users'[v].linked = Providers
         /\ {"id", "identity", "linked"} \subseteq DOMAIN reqs'[r].doc
         /\ reqs'[r].doc.id = reqs[r].doc.id
         /\ reqs'[r].doc.identity = reqs[r].doc.identity
         /\ DOMAIN reqs'[r].doc.linked = Providers
<1> DEFINE u == reqs[r].account
           c == reqs[r].changes
           stored == PreSave(c)
           d == reqs[r].doc
<1>1. /\ users' = [v \in DOMAIN users |-> IF v = u THEN Merge(stored, users[v]) ELSE users[v]]
      /\ Modifies(reqs[r]) /\ reqs'[r].doc = Merge(stored, d) /\ "id" \notin DOMAIN stored
  BY DEF Updates, Updated
<1>2. /\ DOMAIN stored = DOMAIN c
      /\ \A f \in DOMAIN c \ {"password"} : stored[f] = c[f]
  BY PreSaveFacts
<1>3. "identity" \notin DOMAIN stored
  <2>1. Writers["identity"] = {}
    BY DEF Writers
  <2> QED BY <1>1, <1>2, <2>1 DEF Modifies
<1>4. "linked" \in DOMAIN stored => DOMAIN stored.linked = Providers
  BY <1>1, <1>2 DEF Modifies
<1>5. CopyOf(d)
  BY <1>1 DEF Modifies
<1> HIDE DEF stored, c, d
<1>6. \A doc : {"id", "identity", "linked"} \subseteq DOMAIN doc /\ DOMAIN doc.linked = Providers =>
        LET m == Merge(stored, doc)
        IN  /\ DOMAIN m = DOMAIN doc /\ m.id = doc.id /\ m.identity = doc.identity
            /\ DOMAIN m.linked = Providers
  <2> TAKE doc
  <2> HAVE {"id", "identity", "linked"} \subseteq DOMAIN doc /\ DOMAIN doc.linked = Providers
  <2> DEFINE m == Merge(stored, doc)
  <2>1. /\ DOMAIN m = DOMAIN doc
        /\ \A f \in DOMAIN doc : m[f] = IF f \in DOMAIN stored THEN stored[f] ELSE doc[f]
    BY MergeFacts
  <2> HIDE DEF m
  <2>2. DOMAIN m = DOMAIN doc /\ m.id = doc.id /\ m.identity = doc.identity
        /\ DOMAIN m.linked = Providers
    BY <1>1, <1>3, <1>4, <2>1 DEF stored, c
  <2> QED BY <2>2 DEF m
<1>7. /\ {"id", "identity", "linked"} \subseteq DOMAIN reqs'[r].doc
      /\ reqs'[r].doc.id = d.id /\ reqs'[r].doc.identity = d.identity
      /\ DOMAIN reqs'[r].doc.linked = Providers
  BY <1>1, <1>5, <1>6 DEF CopyOf
<1>8. \A v \in DOMAIN users : DOMAIN users[v] = DocFields /\ DOMAIN users[v].linked = Providers
  BY DEF WriteInv, UsersInv
<1>9. DOMAIN users' = DOMAIN users /\ \A v \in DOMAIN users \ {u} : users'[v] = users[v]
  BY <1>1
<1>10. ASSUME u \in DOMAIN users
       PROVE  /\ DOMAIN users'[u] = DocFields
              /\ users'[u].id = users[u].id /\ users'[u].identity = users[u].identity
              /\ DOMAIN users'[u].linked = Providers
  <2>1. users'[u] = Merge(stored, users[u])
    BY <1>1, <1>10
  <2>2. {"id", "identity", "linked"} \subseteq DOMAIN users[u]
    BY <1>8, <1>10 DEF DocFields
  <2> QED BY <1>6, <1>8, <1>10, <2>1, <2>2
<1> QED BY <1>7, <1>8, <1>9, <1>10 DEF d, stored, c

LEMMA SaveStep ==
  ASSUME WriteInv, NEW r \in Requests, Save(r)
  PROVE  WriteInv'
<1>1. /\ reqs'[r].pc \in {"mail", "answer"} /\ DOMAIN reqs'[r] = ReqFields
      /\ UNCHANGED <<gone, page>>
  BY SaveFacts
<1>2. PICK n : reqs' = [reqs EXCEPT ![r] = n]
  BY SaveFacts
<1>3. CopyOf(reqs[r].doc)' => ReqOK(reqs[r])'
  BY <1>1 DEF ReqOK
<1>4. CASE Inserts(r)
  <2> DEFINE doc == reqs'[r].doc
  <2>1. PICK u \in Ids \ (DOMAIN users \cup gone) :
          /\ users' = [v \in DOMAIN users \cup {u} |-> IF v = u THEN doc ELSE users[v]]
          /\ DOMAIN doc = DocFields /\ doc.id = u /\ DOMAIN doc.linked = Providers
    BY <1>4 DEF Inserts
  <2>2. /\ DOMAIN users' = DOMAIN users \cup {u} /\ users'[u] = doc
        /\ \A v \in DOMAIN users : users'[v] = users[v]
    BY <2>1
  <2>3. UsersInv' /\ GoneInv'
    BY <1>1, <2>1, <2>2 DEF WriteInv, UsersInv, GoneInv
  <2>4. \A d : CopyOf(d) => CopyOf(d)'
    BY <1>1, <2>1, <2>2 DEF CopyOf
  <2>5. CopyOf(reqs[r].doc)'
    BY <2>1, <2>2 DEF CopyOf, DocFields
  <2> QED BY <1>1, <1>2, <1>3, <2>3, <2>4, <2>5, CollectionStep
<1>5. CASE Updates(r)
  <2>1. /\ DOMAIN users' = DOMAIN users
        /\ \A v \in DOMAIN users :
             /\ DOMAIN users'[v] = DocFields
             /\ users'[v].id = users[v].id /\ users'[v].identity = users[v].identity
             /\ DOMAIN users'[v].linked = Providers
    BY <1>5, UpdateFacts
  <2>2. UsersInv' /\ GoneInv'
    BY <1>1, <2>1 DEF WriteInv, UsersInv, GoneInv
  <2>3. \A d : CopyOf(d) => CopyOf(d)'
    BY <1>1, <2>1 DEF CopyOf
  <2>4. CopyOf(reqs[r].doc)
    BY <1>5 DEF Updates, Modifies
  <2>5. CopyOf(reqs[r].doc)'
    <3>1. /\ {"id", "identity", "linked"} \subseteq DOMAIN reqs'[r].doc
          /\ reqs'[r].doc.id = reqs[r].doc.id
          /\ reqs'[r].doc.identity = reqs[r].doc.identity
          /\ DOMAIN reqs'[r].doc.linked = Providers
      BY <1>5, UpdateFacts
    <3> QED BY <1>1, <2>1, <2>4, <3>1 DEF CopyOf
  <2> QED BY <1>1, <1>2, <1>3, <2>2, <2>3, <2>5, CollectionStep
<1> QED BY <1>4, <1>5, SaveFacts

LEMMA WriteInit == Init => WriteInv
<1> SUFFICES ASSUME Init PROVE WriteInv
  OBVIOUS
<1>1. UsersInv /\ GoneInv
  BY AccountsAssumption, DocumentsAssumption, AccountFacts DEF Init, UsersInv, GoneInv
<1>2. ReqsInv
  BY UnusedFacts DEF Init, ReqsInv, ReqOK
<1>3. PagesInv
  <2>1. ASSUME NEW b \in Browsers, page[b] # None PROVE PageOK(page[b])
    <3>1. /\ session[b] \in DOMAIN users /\ page[b] = View(users[session[b]], JsonFields)
      BY <2>1, AccountsAssumption DEF Init
    <3>2. \A u \in DOMAIN users : PageOK(View(users[u], JsonFields))
      BY <1>1, NewAccountFacts DEF UsersInv, PageOK, CopyOf, View, JsonFields, DocFields
    <3> QED BY <3>1, <3>2
  <2> QED BY <2>1 DEF Init, PagesInv, PageOK
<1> QED BY <1>1, <1>2, <1>3 DEF WriteInv

LEMMA WriteStep == WriteInv /\ [Next]_vars => WriteInv'
<1> SUFFICES ASSUME WriteInv, [Next]_vars PROVE WriteInv'
  OBVIOUS
<1>1. ASSUME NEW r \in Requests, NEW b \in Browsers, Send(r, b) PROVE WriteInv'
  BY <1>1, SendStep
<1>2. ASSUME NEW r \in Requests, Return(r) \/ Fail(r) PROVE WriteInv'
  BY <1>2, CallStep, AdminDeleteStep, SaveStep, AnswerStep, ThrowStep
     DEF Return, Fail, SaveRefused
<1>3. ASSUME NEW b \in Browsers, LoadPage(b) PROVE WriteInv'
  BY <1>3, LoadPageStep
<1>4. CASE (\E t \in Tokens : Expire(t)) \/ UNCHANGED vars
  <2>1. UNCHANGED <<users, gone, page, reqs>>
    BY <1>4 DEF Expire, vars
  <2> QED BY <2>1 DEF WriteInv, UsersInv, GoneInv, PagesInv, PageOK, ReqsInv, ReqOK, Modifies,
                      CopyOf
<1> QED BY <1>1, <1>2, <1>3, <1>4 DEF Next

-----------------------------------------------------------------------------
(***************************************************************************)
(* The theorems                                                            *)
(***************************************************************************)

(* What a step may do to an account that stays: nothing, or the update     *)
(* of a request that is saved.                                             *)
LEMMA OnlyUpdates ==
  ASSUME WriteInv, Next, NEW u \in DOMAIN users \cap DOMAIN users', users'[u] # users[u]
  PROVE  \E r \in Requests : Saves(r) /\ Updates(r) /\ reqs[r].account = u
<1>1. PICK r \in Requests : Save(r)
  BY OnlySavesAndDeletions DEF AdminDelete
<1>2. Saves(r) /\ (Inserts(r) \/ Updates(r))
  BY <1>1, SaveFacts
<1>3. ~Inserts(r)
  BY DEF Inserts
<1>4. reqs[r].account = u
  BY <1>2, <1>3, UpdateFacts
<1> QED BY <1>2, <1>3, <1>4

(* Whatever the requests under way had read, and however their steps       *)
(* interleave, a field of an account changes only with the save of a       *)
(* request that is about that field, and no account gets another identity. *)
THEOREM OwnedFieldsHolds == Spec => OwnedFields
<1> DEFINE Owned == users' # users =>
             \A u \in DOMAIN users \cap DOMAIN users' : \A f \in DOMAIN Writers :
               users'[u][f] # users[u][f] =>
                 \E r \in Requests : Saves(r) /\ reqs[r].kind \in Writers[f]
<1>1. WriteInv /\ [Next]_vars => [Owned]_vars
  <2> SUFFICES ASSUME WriteInv, Next, NEW u \in DOMAIN users \cap DOMAIN users',
                      NEW f \in DOMAIN Writers, users'[u][f] # users[u][f]
               PROVE  \E r \in Requests : Saves(r) /\ reqs[r].kind \in Writers[f]
    OBVIOUS
  <2>1. PICK r \in Requests : Saves(r) /\ Updates(r) /\ reqs[r].account = u
    BY OnlyUpdates
  <2>2. f \in DocFields
    BY DEF Writers, DocFields
  <2>3. "id" \notin DOMAIN reqs[r].changes
    BY <2>1, PreSaveFacts DEF Updates
  <2>4. f \in DOMAIN reqs[r].changes
    <3>1. users'[u] = Merge(PreSave(reqs[r].changes), users[u])
      BY <2>1 DEF Updates, Updated
    <3>2. DOMAIN users[u] = DocFields
      BY DEF WriteInv, UsersInv
    <3> QED BY <2>2, <3>1, <3>2, MergeFacts, PreSaveFacts
  <2>5. reqs[r].kind \in Writers[f]
    BY <2>1, <2>3, <2>4 DEF Updates, Modifies
  <2> QED BY <2>1, <2>5
<1>2. Spec => [][Owned]_vars
  BY WriteInit, WriteStep, <1>1, PTL DEF Spec
<1> QED BY <1>2 DEF OwnedFields

(* However joins and removals of providers interleave, an account loses a  *)
(* joined provider only to a removal of it, to a profile form, or to a     *)
(* request that had read the account before it was joined.                 *)
THEOREM LinksKeptHolds == Spec => LinksKept
<1> DEFINE Kept == users' # users =>
             \A u \in DOMAIN users \cap DOMAIN users' : \A p \in Providers :
               users[u].linked[p] # None /\ users'[u].linked[p] # users[u].linked[p] =>
                 \E r \in Requests :
                   /\ Saves(r)
                   /\ \/ reqs[r].kind = "remove" /\ reqs[r].arg = p
                      \/ reqs[r].kind = "update"
                      \/ reqs[r].doc.linked[p] # users[u].linked[p]
<1>1. WriteInv /\ [Next]_vars => [Kept]_vars
  <2> SUFFICES ASSUME WriteInv, Next, NEW u \in DOMAIN users \cap DOMAIN users',
                      NEW p \in Providers, users[u].linked[p] # None,
                      users'[u].linked[p] # users[u].linked[p]
               PROVE  \E r \in Requests :
                        /\ Saves(r)
                        /\ \/ reqs[r].kind = "remove" /\ reqs[r].arg = p
                           \/ reqs[r].kind = "update"
                           \/ reqs[r].doc.linked[p] # users[u].linked[p]
    OBVIOUS
  <2>1. PICK r \in Requests : Saves(r) /\ Updates(r) /\ reqs[r].account = u
    BY OnlyUpdates
  <2> DEFINE c == reqs[r].changes
  <2>2. "linked" \in DOMAIN c /\ users'[u].linked = c.linked
    <3>1. users'[u] = Merge(PreSave(c), users[u])
      BY <2>1 DEF Updates, Updated
    <3>2. DOMAIN users[u] = DocFields
      BY DEF WriteInv, UsersInv
    <3>3. "linked" \in DOMAIN users[u] /\ users'[u].linked # users[u].linked
      BY <3>2 DEF DocFields
    <3> QED BY <3>1, <3>3, MergeFacts, PreSaveFacts
  <2>3. \/ reqs[r].kind = "update"
        \/ c.linked[p] = reqs[r].doc.linked[p]
        \/ reqs[r].doc.linked[p] = None
        \/ reqs[r].kind = "remove" /\ reqs[r].arg = p
    BY <2>1, <2>2 DEF Updates, Modifies
  <2> QED BY <2>1, <2>2, <2>3
<1>2. Spec => [][Kept]_vars
  BY WriteInit, WriteStep, <1>1, PTL DEF Spec
<1> QED BY <1>2 DEF LinksKept

-----------------------------------------------------------------------------
(***************************************************************************)
(* Reset tokens                                                            *)
(***************************************************************************)

(* A token that is out: it was there before the server started, or the     *)
(* request that drew it has been saved.                                    *)
Drawn(rs, t) ==
  \/ t = 0
  \/ /\ t \in Requests /\ rs[t].kind = "forgot"
     /\ rs[t].pc \in {"mail", "done", "lost"} /\ rs[t].saved = TRUE

(* Account u has the token t, is about to be given it again, or is in a    *)
(* copy or in the reset that the token was presented for.                  *)
PageHolds(p, u, t) == p # None /\ DOMAIN p = JsonFields /\ p.id = u /\ p.token = t

DocHolds(q, u, t) ==
  /\ q.pc \in {"upload", "save", "answer"} /\ q.account # None
  /\ q.doc.id = u /\ q.doc.token = t

ChangeHolds(q, u, t) ==
  /\ q.pc = "save" /\ q.kind # "forgot" /\ q.account # None /\ q.account = u
  /\ "id" \notin DOMAIN q.changes /\ "token" \in DOMAIN q.changes /\ q.changes.token = t

ResetHolds(q, u, t) == q.kind = "reset" /\ q.pc = "save" /\ q.account = u /\ q.token = t

ReqHolds(q, u, t) == DocHolds(q, u, t) \/ ChangeHolds(q, u, t) \/ ResetHolds(q, u, t)

UserHolds(u, t) == u \in DOMAIN users /\ users[u].token = t

Holds(u, t) ==
  \/ UserHolds(u, t)
  \/ \E b \in Browsers : PageHolds(page[b], u, t)
  \/ \E r \in Requests : ReqHolds(reqs[r], u, t)

(* Whatever holds a token that is out holds it for the same account.       *)
HoldInv ==
  /\ \A u, t : t # None /\ Holds(u, t) => Drawn(reqs, t)
  /\ \A u, v, t : t # None /\ Holds(u, t) /\ Holds(v, t) => u = v

(* What request r does with tokens.                                        *)
TokenOK(r, q) ==
  /\ q.saved \in BOOLEAN
  /\ q.pc \notin {"mail", "answer", "done", "lost"} => q.saved = FALSE
  /\ q.pc = "name" => q.kind = "oauth"
  /\ q.pc = "answer" => q.account # None
  /\ q.pc \in {"upload", "save", "answer"} /\ q.account # None =>
       DOMAIN q.doc = DocFields /\ q.doc.id = q.account
  /\ q.pc = "save" /\ q.account = None =>
       q.changes.token = None /\ q.kind \notin {"forgot", "reset", "update"}
  /\ q.pc = "save" /\ q.kind = "forgot" => q.changes = [token |-> r] /\ q.token = r
  /\ q.pc = "mail" => q.kind = "forgot" /\ q.saved = TRUE /\ q.token = r
  /\ q.pc = "save" /\ q.kind = "reset" => q.changes = NewPassword(r)
  /\ q.pc = "save" /\ q.kind = "update" /\ "token" \in DOMAIN q.changes =>
       q.token = q.changes.token

ResetsInv == \A r \in Requests : reqs[r].kind = "reset" => Drawn(reqs, reqs[r].token)

(* A profile form has written the token back.                              *)
WrittenBack(rs, t) ==
  \E w \in Requests : rs[w].kind = "update" /\ rs[w].saved /\ rs[w].token = t

(* A token that a reset was saved with is no account's any more.           *)
Spent ==
  \A q \in Requests : reqs[q].kind = "reset" /\ reqs[q].saved =>
    \A u \in DOMAIN users : users[u].token = reqs[q].token => WrittenBack(reqs, reqs[q].token)

TokenInv ==
  /\ \A r \in Requests : TokenOK(r, reqs[r])
  /\ \A t \in mailed : Drawn(reqs, t)
  /\ HoldInv
  /\ ResetsInv
  /\ Spent

LEMMA DrawnFacts == \A t : Drawn(reqs, t) => t # None
BY AccountsAssumption DEF Drawn, Requests

LEMMA Replaced ==
  ASSUME WriteInv, NEW r \in Requests, NEW n, reqs' = [reqs EXCEPT ![r] = n]
  PROVE  reqs'[r] = n /\ \A s \in Requests \ {r} : reqs'[s] = reqs[s]
BY DEF WriteInv, ReqsInv

(* Nothing holds more than before.                                         *)
LEMMA HoldsFrom ==
  ASSUME WriteInv, NEW r \in Requests, NEW n, reqs' = [reqs EXCEPT ![r] = n],
         \A u \in DOMAIN users' : u \in DOMAIN users /\ users'[u].token = users[u].token,
         \A b \in Browsers : \A u, t : t # None /\ PageHolds(page'[b], u, t) => Holds(u, t),
         \A u, t : t # None /\ ReqHolds(n, u, t) => Holds(u, t)
  PROVE  \A u, t : t # None /\ Holds(u, t)' => Holds(u, t)
<1> SUFFICES ASSUME NEW u, NEW t, t # None, Holds(u, t)' PROVE Holds(u, t)
  OBVIOUS
<1>1. CASE u \in DOMAIN users' /\ users'[u].token = t
  BY <1>1 DEF Holds, UserHolds
<1>2. CASE \E b \in Browsers : PageHolds(page'[b], u, t)
  BY <1>2
<1>3. ASSUME NEW s \in Requests, ReqHolds(reqs'[s], u, t) PROVE Holds(u, t)
  BY <1>3, Replaced DEF Holds
<1>4. \/ u \in DOMAIN users' /\ users'[u].token = t
      \/ \E b \in Browsers : PageHolds(page'[b], u, t)
      \/ \E s \in Requests : ReqHolds(reqs'[s], u, t)
  BY DEF Holds, UserHolds, PageHolds, ReqHolds, DocHolds, ChangeHolds, ResetHolds
<1> QED BY <1>1, <1>2, <1>3, <1>4

LEMMA HoldStep ==
  ASSUME HoldInv, \A t : Drawn(reqs, t) => Drawn(reqs', t),
         \A u, t : t # None /\ Holds(u, t)' => Holds(u, t)
  PROVE  HoldInv'
BY DEF HoldInv

(* A request that comes in or goes on, and is not saved yet.               *)
LEMMA TokenUnsaved ==
  ASSUME WriteInv, TokenInv, NEW r \in Requests, NEW n, reqs' = [reqs EXCEPT ![r] = n],
         reqs[r].saved = FALSE, n.saved = FALSE, TokenOK(r, n),
         n.kind = "reset" => Drawn(reqs, n.token),
         \A u, t : t # None /\ ReqHolds(n, u, t) => Holds(u, t),
         UNCHANGED <<users, mailed>>, \A b \in Browsers : page'[b] \in {page[b], None}
  PROVE  TokenInv'
<1>1. reqs'[r] = n /\ \A s \in Requests \ {r} : reqs'[s] = reqs[s]
  BY Replaced
<1>2. \A t : Drawn(reqs, t) => Drawn(reqs', t)
  BY <1>1 DEF Drawn
<1>3. \A b \in Browsers : \A u, t : t # None /\ PageHolds(page'[b], u, t) => Holds(u, t)
  BY DEF PageHolds, Holds
<1>4. HoldInv'
  <2>1. \A u, t : t # None /\ Holds(u, t)' => Holds(u, t)
    BY <1>3, HoldsFrom
  <2> QED BY <1>2, <2>1, HoldStep DEF TokenInv
<1>5. ASSUME NEW s \in Requests PROVE TokenOK(s, reqs[s])'
  <2>1. TokenOK(s, reqs'[s])
    BY <1>1 DEF TokenInv
  <2> QED BY <2>1 DEF TokenOK
<1>6. ResetsInv'
  <2> SUFFICES ASSUME NEW s \in Requests, reqs'[s].kind = "reset" PROVE Drawn(reqs', reqs'[s].token)
    BY DEF ResetsInv
  <2>1. Drawn(reqs, reqs'[s].token)
    BY <1>1 DEF TokenInv, ResetsInv
  <2> QED BY <1>2, <2>1
<1>7. \A t : WrittenBack(reqs, t) => WrittenBack(reqs', t)
  BY <1>1 DEF WrittenBack
<1>8. Spent'
  <2> SUFFICES ASSUME NEW q \in Requests, reqs'[q].kind = "reset", reqs'[q].saved,
                      NEW u \in DOMAIN users, users[u].token = reqs'[q].token
               PROVE  WrittenBack(reqs', reqs'[q].token)
    BY DEF Spent
  <2>1. reqs'[q] = reqs[q]
    BY <1>1
  <2>2. WrittenBack(reqs, reqs[q].token)
    BY <2>1 DEF TokenInv, Spent
  <2> QED BY <1>7, <2>1, <2>2
<1>9. \A t \in mailed' : Drawn(reqs', t)
  BY <1>2 DEF TokenInv
<1> QED BY <1>4, <1>5, <1>6, <1>8, <1>9 DEF TokenInv

(* A request that is answered.                                             *)
LEMMA TokenAnswered ==
  ASSUME WriteInv, TokenInv, NEW r \in Requests, Close(r),
         \A u \in DOMAIN users' : u \in DOMAIN users /\ users'[u].token = users[u].token,
         \A b \in Browsers : \A u, t : t # None /\ PageHolds(page'[b], u, t) => Holds(u, t),
         \A t \in mailed' : t \in mailed \/ (t = r /\ reqs[r].pc = "mail")
  PROVE  TokenInv'
<1> DEFINE q == reqs[r]
           n == Answered(q)
<1>1. /\ n.pc = "done" /\ n.saved = q.saved /\ q.saved \in BOOLEAN
      /\ q.saved = TRUE => n.kind = q.kind /\ n.token = q.token
      /\ q.saved = FALSE => n.kind = "none"
  BY DEF Answered, Unused, TokenInv, TokenOK
<1>2. reqs' = [reqs EXCEPT ![r] = n]
  BY DEF Close
<1> HIDE DEF n
<1>3. reqs'[r] = n /\ \A s \in Requests \ {r} : reqs'[s] = reqs[s]
  BY <1>2, Replaced
<1>4. \A t : Drawn(reqs, t) => Drawn(reqs', t)
  BY <1>1, <1>3 DEF Drawn
<1>5. HoldInv'
  <2>1. \A u, t : ~ReqHolds(n, u, t)
    BY <1>1 DEF ReqHolds, DocHolds, ChangeHolds, ResetHolds
  <2>2. \A u, t : t # None /\ Holds(u, t)' => Holds(u, t)
    BY <1>2, <2>1, HoldsFrom
  <2> QED BY <1>4, <2>2, HoldStep DEF TokenInv
<1>6. ASSUME NEW s \in Requests PROVE TokenOK(s, reqs[s])'
  <2>1. TokenOK(s, reqs'[s])
    BY <1>1, <1>3 DEF TokenInv, TokenOK
  <2> QED BY <2>1 DEF TokenOK
<1>7. ResetsInv'
  <2> SUFFICES ASSUME NEW s \in Requests, reqs'[s].kind = "reset" PROVE Drawn(reqs', reqs'[s].token)
    BY DEF ResetsInv
  <2>1. reqs'[s].token = reqs[s].token /\ reqs[s].kind = "reset"
    BY <1>1, <1>3
  <2> QED BY <1>4, <2>1 DEF TokenInv, ResetsInv
<1>8. \A t : WrittenBack(reqs, t) => WrittenBack(reqs', t)
  BY <1>1, <1>3 DEF WrittenBack
<1>9. Spent'
  <2> SUFFICES ASSUME NEW s \in Requests, reqs'[s].kind = "reset", reqs'[s].saved,
                      NEW u \in DOMAIN users', users'[u].token = reqs'[s].token
               PROVE  WrittenBack(reqs', reqs'[s].token)
    BY DEF Spent
  <2>1. reqs'[s].token = reqs[s].token /\ reqs[s].kind = "reset" /\ reqs[s].saved
    BY <1>1, <1>3
  <2>2. WrittenBack(reqs, reqs[s].token)
    BY <2>1 DEF TokenInv, Spent
  <2> QED BY <1>8, <2>1, <2>2
<1>10. \A t \in mailed' : Drawn(reqs', t)
  <2>1. reqs[r].pc = "mail" => Drawn(reqs, r)
    BY DEF TokenInv, TokenOK, Drawn
  <2> QED BY <1>4, <2>1 DEF TokenInv
<1> QED BY <1>5, <1>6, <1>7, <1>9, <1>10 DEF TokenInv

LEMMA UserHoldsToo == \A u \in DOMAIN users : \A t : users[u].token = t => Holds(u, t)
BY DEF Holds, UserHolds

(* A request that comes in and is not saved at once asks the database for  *)
(* something, or is about a document that was just read.                   *)
LEMMA TokenReceived ==
  ASSUME WriteInv, TokenInv, NEW r \in Requests, NEW b, NEW q, DOMAIN q = ReqFields,
         Receive(r, b, q), q.saved = FALSE, TokenOK(r, q), q.kind = "reset" => q.token \in mailed,
         \A u, t : t # None /\ ReqHolds(q, u, t) => Holds(u, t),
         UNCHANGED <<users, mailed>>, \A c \in Browsers : page'[c] \in {page[c], None}
  PROVE  TokenInv'
<1> DEFINE n == Merge([browser |-> b, user |-> SignedIn(b)], q)
<1>1. reqs' = [reqs EXCEPT ![r] = n] /\ reqs[r].pc = "unused"
  BY DEF Receive, Arrives
<1>2. /\ n.pc = q.pc /\ n.kind = q.kind /\ n.account = q.account /\ n.doc = q.doc
      /\ n.changes = q.changes /\ n.token = q.token /\ n.saved = q.saved
  BY ReceiveFacts
<1> HIDE DEF n
<1>3. reqs[r].saved = FALSE
  BY <1>1 DEF TokenInv, TokenOK
<1>4. TokenOK(r, n)
  BY <1>2 DEF TokenOK
<1>5. n.kind = "reset" => Drawn(reqs, n.token)
  BY <1>2 DEF TokenInv
<1>6. \A u, t : ReqHolds(n, u, t) => ReqHolds(q, u, t)
  BY <1>2 DEF ReqHolds, DocHolds, ChangeHolds, ResetHolds
<1> QED BY <1>1, <1>2, <1>3, <1>4, <1>5, <1>6, TokenUnsaved

LEMMA TokenQuery ==
  ASSUME WriteInv, TokenInv, NEW r \in Requests, NEW b, NEW q, DOMAIN q = ReqFields,
         Receive(r, b, q), q.saved = FALSE, q.pc = "query", q.kind = "reset" => q.token \in mailed,
         UNCHANGED <<users, mailed>>, \A c \in Browsers : page'[c] \in {page[c], None}
  PROVE  TokenInv'
<1>1. TokenOK(r, q)
  BY DEF TokenOK
<1>2. \A u, t : ~ReqHolds(q, u, t)
  BY DEF ReqHolds, DocHolds, ChangeHolds, ResetHolds
<1> QED BY <1>1, <1>2, TokenReceived

LEMMA TokenAtOnce ==
  ASSUME WriteInv, TokenInv, NEW r \in Requests, NEW kind, AnswerAtOnce(r, kind),
         UNCHANGED <<users, mailed>>, \A c \in Browsers : page'[c] \in {page[c], None}
  PROVE  TokenInv'
<1> DEFINE n == Answered([Unused EXCEPT !.kind = kind])
<1>1. reqs' = [reqs EXCEPT ![r] = n] /\ reqs[r].pc = "unused"
  BY DEF AnswerAtOnce, Arrives
<1>2. n.pc = "done" /\ n.saved = FALSE /\ n.kind = "none"
  BY DEF Answered, Unused
<1> HIDE DEF n
<1>3. reqs[r].saved = FALSE
  BY <1>1 DEF TokenInv, TokenOK
<1>4. TokenOK(r, n)
  BY <1>2 DEF TokenOK
<1>5. \A u, t : ~ReqHolds(n, u, t)
  BY <1>2 DEF ReqHolds, DocHolds, ChangeHolds, ResetHolds
<1> QED BY <1>1, <1>2, <1>3, <1>4, <1>5, TokenUnsaved

(* A request that is to save what the page of the signed in user sent.     *)
LEMMA TokenOfSigned ==
  ASSUME WriteInv, TokenInv, NEW q, NEW u \in DOMAIN users,
         q.kind \notin {"forgot", "reset"},
         q.account = u, q.doc = users[u],
         "token" \in DOMAIN q.changes /\ "id" \notin DOMAIN q.changes /\ q.changes.token # None =>
           Holds(u, q.changes.token)
  PROVE  \A v, t : t # None /\ ReqHolds(q, v, t) => Holds(v, t)
<1> SUFFICES ASSUME NEW v, NEW t, t # None, ReqHolds(q, v, t) PROVE Holds(v, t)
  OBVIOUS
<1>1. users[u].id = u
  BY DEF WriteInv, UsersInv
<1>2. CASE DocHolds(q, v, t)
  BY <1>1, <1>2, UserHoldsToo DEF DocHolds
<1>3. CASE ChangeHolds(q, v, t)
  BY <1>3 DEF ChangeHolds
<1>4. ~ResetHolds(q, v, t)
  BY DEF ResetHolds
<1> QED BY <1>2, <1>3, <1>4 DEF ReqHolds

LEMMA TokenSigned ==
  ASSUME WriteInv, TokenInv, NEW r \in Requests, NEW b, NEW kind, NEW changes, NEW token, NEW arg,
         ReceiveSigned(r, b, kind, changes, token, arg),
         kind \notin {"forgot", "reset"},
         SignedIn(b) # None /\ "token" \in DOMAIN changes =>
           /\ kind = "update" => token = changes.token
           /\ "id" \notin DOMAIN changes /\ changes.token # None =>
                Holds(SignedIn(b).id, changes.token),
         UNCHANGED <<users, mailed, page>>
  PROVE  TokenInv'
<1>1. CASE AnswerAtOnce(r, kind)
  BY <1>1, TokenAtOnce
<1>2. CASE SignedIn(b) # None /\ ~AnswerAtOnce(r, kind)
  <2> DEFINE me == SignedIn(b)
             q == [Unused EXCEPT !.kind = kind, !.pc = "save", !.account = me.id, !.doc = me,
                                 !.changes = changes, !.token = token, !.arg = arg]
  <2>1. Receive(r, b, q)
    BY <1>2 DEF ReceiveSigned
  <2>2. /\ DOMAIN q = ReqFields /\ q.pc = "save" /\ q.kind = kind /\ q.account = me.id
        /\ q.doc = me /\ q.changes = changes /\ q.token = token /\ q.saved = FALSE
    BY DEF Unused, ReqFields
  <2>3. me.id \in DOMAIN users /\ me = users[me.id] /\ me.id # None /\ DOMAIN me = DocFields
    BY <1>2, SignedInFacts
  <2> HIDE DEF q, me
  <2>4. TokenOK(r, q)
    BY <1>2, <2>2, <2>3 DEF TokenOK, me
  <2>5. \A u, t : t # None /\ ReqHolds(q, u, t) => Holds(u, t)
    BY <1>2, <2>2, <2>3, TokenOfSigned DEF me
  <2> QED BY <2>1, <2>2, <2>4, <2>5, TokenReceived
<1> QED BY <1>1, <1>2 DEF ReceiveSigned

(* A request that is to insert a new account, which has no token.          *)
LEMMA TokenOfNew ==
  ASSUME NEW r, NEW q, q.pc = "save", q.kind \notin {"forgot", "reset", "update"},
         q.account = None, q.changes.token = None, q.saved = FALSE
  PROVE  TokenOK(r, q) /\ \A u, t : t # None => ~ReqHolds(q, u, t)
BY DEF TokenOK, ReqHolds, DocHolds, ChangeHolds, ResetHolds

LEMMA TokenSend ==
  ASSUME WriteInv, TokenInv, NEW r \in Requests, NEW b \in Browsers, Send(r, b)
  PROVE  TokenInv'
<1>0. /\ UNCHANGED <<users, mailed>>
      /\ \A c \in Browsers : page'[c] \in {page[c], None}
  BY DEF Send, Signup, SendSignin, Signout, SendForgot, ValidateResetToken, SendReset,
         SendChangePassword, OauthCallback, RemoveOAuthProvider, UpdateProfile,
         ChangeProfilePicture, SendAdmin, WriteInv, PagesInv
<1>1. CASE Signup(r, b)
  <2>1. PICK i \in Identities :
          Receive(r, b, [Unused EXCEPT
            !.kind = "signup", !.pc = "save",
            !.changes = [NewAccount EXCEPT !.username = <<LocalPart[Profile[i].address], 0>>,
                                           !.email = Profile[i].address,
                                           !.password = Plain(r), !.profile = r]])
    BY <1>1 DEF Signup
  <2> DEFINE c == [NewAccount EXCEPT !.username = <<LocalPart[Profile[i].address], 0>>,
                                     !.email = Profile[i].address,
                                     !.password = Plain(r), !.profile = r]
             q == [Unused EXCEPT !.kind = "signup", !.pc = "save", !.changes = c]
  <2>2. c.token = None
    BY DEF NewAccount
  <2> HIDE DEF c
  <2>3. /\ DOMAIN q = ReqFields /\ q.pc = "save" /\ q.account = None /\ q.changes = c
        /\ q.kind = "signup" /\ q.saved = FALSE
    BY DEF Unused, ReqFields
  <2>4. Receive(r, b, q)
    BY <2>1 DEF c
  <2> HIDE DEF q
  <2> QED BY <1>0, <2>2, <2>3, <2>4, TokenOfNew, TokenReceived
<1>2. ASSUME NEW q, q.pc = "query", q.kind = "reset" => q.token \in mailed, DOMAIN q = ReqFields,
             q.saved = FALSE, Receive(r, b, q)
      PROVE  TokenInv'
  BY <1>0, <1>2, TokenQuery
<1>3. CASE SendSignin(r, b)
  <2>1. PICK u \in DOMAIN users, p \in Typed :
          Receive(r, b, [Unused EXCEPT !.kind = "signin", !.pc = "query",
                                       !.arg = [username |-> users[u].username, password |-> p]])
    BY <1>3 DEF SendSignin
  <2> DEFINE q == [Unused EXCEPT !.kind = "signin", !.pc = "query",
                                 !.arg = [username |-> users[u].username, password |-> p]]
  <2>2. q.pc = "query" /\ q.kind = "signin" /\ DOMAIN q = ReqFields /\ q.saved = FALSE
    BY DEF Unused, ReqFields
  <2> HIDE DEF q
  <2> QED BY <1>2, <2>1, <2>2 DEF q
<1>4. CASE Signout(r, b)
  BY <1>0, <1>4, TokenAtOnce DEF Signout
<1>5. CASE SendForgot(r, b)
  <2>1. PICK u \in DOMAIN users :
          Receive(r, b, [Unused EXCEPT !.kind = "forgot", !.pc = "query", !.arg = users[u].username])
    BY <1>5 DEF SendForgot
  <2> DEFINE q == [Unused EXCEPT !.kind = "forgot", !.pc = "query", !.arg = users[u].username]
  <2>2. q.pc = "query" /\ q.kind = "forgot" /\ DOMAIN q = ReqFields /\ q.saved = FALSE
    BY DEF Unused, ReqFields
  <2> HIDE DEF q
  <2> QED BY <1>2, <2>1, <2>2 DEF q
<1>6. CASE ValidateResetToken(r, b)
  BY <1>0, <1>6, TokenAtOnce DEF ValidateResetToken
<1>7. CASE SendReset(r, b)
  <2>1. PICK t \in mailed :
          Receive(r, b, [Unused EXCEPT !.kind = "reset", !.pc = "query", !.token = t])
    BY <1>7 DEF SendReset
  <2> DEFINE q == [Unused EXCEPT !.kind = "reset", !.pc = "query", !.token = t]
  <2>2. q.pc = "query" /\ q.token = t /\ DOMAIN q = ReqFields /\ q.saved = FALSE
    BY DEF Unused, ReqFields
  <2> HIDE DEF q
  <2> QED BY <1>2, <2>1, <2>2 DEF q
<1>8. CASE SendChangePassword(r, b)
  <2>1. CASE AnswerAtOnce(r, "change")
    BY <1>0, <2>1, TokenAtOnce
  <2>2. CASE ~AnswerAtOnce(r, "change")
    <3>1. PICK p \in Typed :
            Receive(r, b, [Unused EXCEPT !.kind = "change", !.pc = "query",
                                         !.account = SignedIn(b).id, !.arg = p])
      BY <1>8, <2>2 DEF SendChangePassword
    <3> DEFINE q == [Unused EXCEPT !.kind = "change", !.pc = "query",
                                   !.account = SignedIn(b).id, !.arg = p]
    <3>2. q.pc = "query" /\ q.kind = "change" /\ DOMAIN q = ReqFields /\ q.saved = FALSE
      BY DEF Unused, ReqFields
    <3> HIDE DEF q
    <3> QED BY <1>2, <3>1, <3>2 DEF q
  <2> QED BY <2>1, <2>2
<1>9. CASE OauthCallback(r, b)
  <2>1. CASE AnswerAtOnce(r, "oauth")
    BY <1>0, <2>1, TokenAtOnce
  <2>2. CASE ~AnswerAtOnce(r, "oauth")
    <3> DEFINE me == SignedIn(b)
               arg(i) == [identity |-> i, suffix |-> 0]
               q1(i) == [Unused EXCEPT !.kind = "oauth", !.arg = arg(i), !.pc = "query"]
               links(i) == Joined(me.linked, ProviderOf(i), i)
               q2(i) == [Unused EXCEPT !.kind = "oauth", !.arg = arg(i), !.pc = "save",
                                       !.account = me.id, !.doc = me,
                                       !.changes = [linked |-> links(i)]]
    <3>1. PICK i \in Identities :
            Receive(r, b, q1(i)) \/ (me # None /\ Receive(r, b, q2(i)))
      BY <1>9, <2>2 DEF OauthCallback
    <3>2. CASE Receive(r, b, q1(i))
      <4>1. DOMAIN q1(i) = ReqFields /\ q1(i).pc = "query" /\ q1(i).kind = "oauth"
            /\ q1(i).saved = FALSE
        BY DEF Unused, ReqFields
      <4> HIDE DEF q1
      <4> QED BY <1>2, <3>2, <4>1
    <3>3. CASE me # None /\ Receive(r, b, q2(i))
      <4> DEFINE c == [linked |-> links(i)]
      <4>1. DOMAIN c = {"linked"}
        OBVIOUS
      <4> HIDE DEF links
      <4>2. /\ DOMAIN q2(i) = ReqFields /\ q2(i).pc = "save" /\ q2(i).kind = "oauth"
            /\ q2(i).account = me.id /\ q2(i).doc = me /\ q2(i).changes = c
            /\ q2(i).saved = FALSE
        BY DEF Unused, ReqFields
      <4>3. me.id \in DOMAIN users /\ me = users[me.id] /\ me.id # None /\ DOMAIN me = DocFields
        BY <3>3, SignedInFacts
      <4> HIDE DEF q2, c, me
      <4>4. TokenOK(r, q2(i))
        BY <4>1, <4>2, <4>3 DEF TokenOK
      <4>5. \A u, t : t # None /\ ReqHolds(q2(i), u, t) => Holds(u, t)
        BY <4>1, <4>2, <4>3, TokenOfSigned
      <4> QED BY <1>0, <3>3, <4>2, <4>4, <4>5, TokenReceived
    <3> QED BY <3>1, <3>2, <3>3
  <2> QED BY <2>1, <2>2
<1>10. CASE RemoveOAuthProvider(r, b)
  <2>1. CASE AnswerAtOnce(r, "remove")
    BY <1>0, <2>1, TokenAtOnce
  <2>2. CASE ~AnswerAtOnce(r, "remove")
    <3> DEFINE me == SignedIn(b)
               c(p) == IF me.linked[p] = None THEN <<>>
                       ELSE [linked |-> [me.linked EXCEPT ![p] = None]]
    <3>1. PICK p \in Providers : ReceiveSigned(r, b, "remove", c(p), None, p)
      BY <1>10, <2>2 DEF RemoveOAuthProvider
    <3>2. "token" \notin DOMAIN c(p)
      <4>1. DOMAIN <<>> = {}
        OBVIOUS
      <4> QED BY <4>1
    <3> HIDE DEF c
    <3> QED BY <1>10, <3>1, <3>2, TokenSigned DEF RemoveOAuthProvider
  <2> QED BY <2>1, <2>2
<1>11. CASE UpdateProfile(r, b)
  <2> DEFINE me == SignedIn(b)
             body(e) == FormBody(r, b, e)
             c(e) == IF me = None THEN <<>> ELSE Extend(me, body(e))
             given(e) == IF "token" \in DOMAIN c(e) THEN c(e).token ELSE None
  <2>1. page[b] # None /\ UNCHANGED <<users, mailed, page>>
    BY <1>11 DEF UpdateProfile
  <2>2. PICK e \in Edits : ReceiveSigned(r, b, "update", c(e), given(e), None)
    BY <1>11 DEF UpdateProfile
  <2>3. ASSUME me # None, "token" \in DOMAIN c(e), "id" \notin DOMAIN c(e), c(e).token # None
        PROVE  Holds(me.id, c(e).token)
    <3> DEFINE sent == [page[b] EXCEPT !.profile = r]
               B == body(e)
    <3>1. DOMAIN page[b] \in {JsonFields, PageFields}
      BY <2>1 DEF WriteInv, PagesInv, PageOK
    <3>2. DOMAIN e \subseteq {"username", "email"}
      BY DocumentsAssumption
    <3>3. DOMAIN sent = DOMAIN page[b] /\ \A f \in DOMAIN page[b] \ {"profile"} : sent[f] = page[b][f]
      <4>1. sent = [f \in DOMAIN page[b] |-> IF f = "profile" THEN r ELSE page[b][f]]
        OBVIOUS
      <4> HIDE DEF sent
      <4> QED BY <4>1
    <3>4. B = Merge(e, sent)
      BY DEF FormBody
    <3> HIDE DEF B, sent
    <3>5. /\ DOMAIN B = DOMAIN page[b]
          /\ \A f \in DOMAIN page[b] \ {"profile", "username", "email"} : B[f] = page[b][f]
      BY <3>2, <3>3, <3>4, MergeFacts
    <3>6. /\ DOMAIN c(e) = {g \in DOMAIN B \ {"roles"} : ~Absent(g, B[g]) /\ B[g] # me[g]}
          /\ \A f \in DOMAIN c(e) : c(e)[f] = B[f]
      BY <2>3 DEF Extend, B
    <3> HIDE DEF c, body
    <3>7. DOMAIN page[b] = JsonFields
      BY <2>3, <3>1, <3>5, <3>6 DEF PageFields
    <3>8. B.id = page[b].id /\ B.token = page[b].token /\ "id" \in DOMAIN B
      BY <3>5, <3>7 DEF JsonFields
    <3>9. page[b].id = me.id
      BY <2>3, <3>6, <3>8 DEF Absent
    <3>10. PageHolds(page[b], me.id, c(e).token)
      BY <2>1, <2>3, <3>6, <3>7, <3>8, <3>9 DEF PageHolds
    <3> QED BY <3>10 DEF Holds
  <2>4. "token" \in DOMAIN c(e) => given(e) = c(e).token
    OBVIOUS
  <2> HIDE DEF c, given
  <2> QED BY <2>1, <2>2, <2>3, <2>4, TokenSigned
<1>12. CASE ChangeProfilePicture(r, b)
  <2>1. CASE AnswerAtOnce(r, "picture")
    BY <1>0, <2>1, TokenAtOnce
  <2>2. CASE ~AnswerAtOnce(r, "picture")
    <3> DEFINE me == SignedIn(b)
               q == [Unused EXCEPT !.kind = "picture", !.pc = "upload", !.account = me.id,
                                   !.doc = me]
    <3>1. me # None /\ Receive(r, b, q)
      BY <1>12, <2>2 DEF ChangeProfilePicture
    <3>2. me.id \in DOMAIN users /\ me = users[me.id] /\ me.id # None /\ DOMAIN me = DocFields
      BY <3>1, SignedInFacts
    <3>3. DOMAIN <<>> = {}
      OBVIOUS
    <3>4. /\ DOMAIN q = ReqFields /\ q.pc = "upload" /\ q.kind = "picture"
          /\ q.account = me.id /\ q.doc = me /\ DOMAIN q.changes = {} /\ q.saved = FALSE
      BY <3>3 DEF Unused, ReqFields
    <3> HIDE DEF q, me
    <3>5. TokenOK(r, q)
      BY <3>2, <3>4 DEF TokenOK
    <3>6. \A u, t : t # None /\ ReqHolds(q, u, t) => Holds(u, t)
      BY <3>2, <3>4, TokenOfSigned
    <3> QED BY <1>0, <3>1, <3>4, <3>5, <3>6, TokenReceived
  <2> QED BY <2>1, <2>2
<1>13. CASE SendAdmin(r, b)
  <2> DEFINE q1(u) == [Unused EXCEPT !.kind = "adminDelete", !.pc = "query", !.account = u]
             q2(u, held) == [Unused EXCEPT !.kind = "adminUpdate", !.pc = "query",
                                           !.account = u, !.arg = held]
  <2>1. PICK u \in DOMAIN users : \E roles :
          Receive(r, b, q1(u)) \/ Receive(r, b, q2(u, roles))
    BY <1>13 DEF SendAdmin
  <2>2. PICK held : Receive(r, b, q1(u)) \/ Receive(r, b, q2(u, held))
    BY <2>1
  <2>3. /\ DOMAIN q1(u) = ReqFields /\ q1(u).pc = "query" /\ q1(u).kind = "adminDelete"
        /\ q1(u).saved = FALSE
        /\ DOMAIN q2(u, held) = ReqFields /\ q2(u, held).pc = "query"
        /\ q2(u, held).kind = "adminUpdate" /\ q2(u, held).saved = FALSE
    BY DEF Unused, ReqFields
  <2> HIDE DEF q1, q2
  <2> QED BY <1>2, <2>2, <2>3
<1> QED BY <1>1, <1>3, <1>4, <1>5, <1>6, <1>7, <1>8, <1>9, <1>10, <1>11, <1>12, <1>13 DEF Send

-----------------------------------------------------------------------------
(***************************************************************************)
(* A request that goes on: what it has read is the account's own.          *)
(***************************************************************************)
LEMMA TokenGo ==
  ASSUME WriteInv, TokenInv, NEW r \in Requests, NEW pc, NEW fields, NEW n,
         Go(r, pc, fields), n = Merge(fields, [reqs[r] EXCEPT !.pc = pc]),
         n.kind = "reset" => n.kind = reqs[r].kind /\ n.token = reqs[r].token,
         n.saved = reqs[r].saved, reqs[r].pc \in {"query", "name", "upload"},
         TokenOK(r, n), \A u, t : t # None /\ ReqHolds(n, u, t) => Holds(u, t),
         UNCHANGED <<users, mailed, page>>
  PROVE  TokenInv'
<1>1. reqs' = [reqs EXCEPT ![r] = n]
  BY DEF Go
<1>2. reqs[r].saved = FALSE
  BY DEF TokenInv, TokenOK
<1>3. n.kind = "reset" => Drawn(reqs, n.token)
  BY DEF TokenInv, ResetsInv
<1>4. \A b \in Browsers : page'[b] \in {page[b], None}
  OBVIOUS
<1> QED BY <1>1, <1>2, <1>3, <1>4, TokenUnsaved

LEMMA GoSaveFields ==
  ASSUME WriteInv, NEW r \in Requests, NEW fields,
         DOMAIN fields \subseteq {"account", "doc", "changes", "token"},
         {"doc", "changes"} \subseteq DOMAIN fields
  PROVE  LET n == Merge(fields, [reqs[r] EXCEPT !.pc = "save"])
         IN  /\ DOMAIN n = ReqFields /\ n.pc = "save" /\ n.doc = fields.doc
             /\ n.changes = fields.changes /\ n.kind = reqs[r].kind /\ n.saved = reqs[r].saved
             /\ n.account = IF "account" \in DOMAIN fields THEN fields.account ELSE reqs[r].account
             /\ n.token = IF "token" \in DOMAIN fields THEN fields.token ELSE reqs[r].token
BY GoFacts DEF ReqFields

(* To save changes to account u, which has just been read.                 *)
LEMMA TokenGoSave ==
  ASSUME WriteInv, TokenInv, NEW r \in Requests, NEW fields, NEW u \in DOMAIN users,
         Go(r, "save", fields), reqs[r].pc \in {"query", "name"},
         DOMAIN fields \subseteq {"account", "doc", "changes", "token"},
         {"doc", "changes"} \subseteq DOMAIN fields, fields.doc = users[u],
         \/ "account" \in DOMAIN fields /\ fields.account = u
         \/ "account" \notin DOMAIN fields /\ reqs[r].account = u,
         reqs[r].kind # "update",
         reqs[r].kind = "forgot" => /\ "token" \in DOMAIN fields /\ fields.token = r
                                    /\ fields.changes = [token |-> r],
         reqs[r].kind = "reset" => /\ "token" \notin DOMAIN fields
                                   /\ users[u].token = reqs[r].token
                                   /\ fields.changes = NewPassword(r),
         reqs[r].kind \notin {"forgot", "reset"} => "token" \notin DOMAIN fields.changes,
         UNCHANGED <<users, mailed, page>>
  PROVE  TokenInv'
<1> DEFINE n == Merge(fields, [reqs[r] EXCEPT !.pc = "save"])
<1>1. /\ DOMAIN n = ReqFields /\ n.pc = "save" /\ n.doc = users[u] /\ n.changes = fields.changes
      /\ n.account = u /\ n.kind = reqs[r].kind /\ n.saved = reqs[r].saved
      /\ "token" \in DOMAIN fields => n.token = fields.token
      /\ "token" \notin DOMAIN fields => n.token = reqs[r].token
  BY GoSaveFields
<1>2. users[u].id = u /\ u # None /\ DOMAIN users[u] = DocFields
  BY UserFacts DEF WriteInv, UsersInv
<1>3. reqs[r].saved = FALSE
  BY DEF TokenInv, TokenOK
<1> HIDE DEF n
<1>4. TokenOK(r, n)
  BY <1>1, <1>2, <1>3 DEF TokenOK
<1>5. ASSUME NEW v, NEW t, t # None, ReqHolds(n, v, t) PROVE Holds(v, t)
  <2>1. CASE DocHolds(n, v, t)
    BY <1>1, <1>2, <2>1, UserHoldsToo DEF DocHolds
  <2>2. CASE ResetHolds(n, v, t)
    BY <1>1, <2>2, UserHoldsToo DEF ResetHolds
  <2>3. ~ChangeHolds(n, v, t)
    <3>1. NewPassword(r).token = None
      BY DEF NewPassword
    <3> QED BY <1>1, <1>5, <3>1 DEF ChangeHolds
  <2> QED BY <1>5, <2>1, <2>2, <2>3 DEF ReqHolds
<1> QED BY <1>1, <1>4, <1>5, TokenGo DEF n

LEMMA TokenGoAnswer ==
  ASSUME WriteInv, TokenInv, NEW r \in Requests, NEW u \in DOMAIN users,
         Go(r, "answer", [account |-> u, doc |-> users[u]]), reqs[r].pc \in {"query", "name"},
         UNCHANGED <<users, mailed, page>>
  PROVE  TokenInv'
<1> DEFINE fields == [account |-> u, doc |-> users[u]]
           n == Merge(fields, [reqs[r] EXCEPT !.pc = "answer"])
<1>1. DOMAIN fields = {"account", "doc"} /\ fields.doc = users[u] /\ fields.account = u
  OBVIOUS
<1>2. /\ n.pc = "answer" /\ n.doc = users[u] /\ n.account = u
      /\ n.kind = reqs[r].kind /\ n.saved = reqs[r].saved /\ n.token = reqs[r].token
  <2> HIDE DEF fields
  <2> QED BY <1>1, GoFacts DEF ReqFields
<1>3. users[u].id = u /\ u # None /\ DOMAIN users[u] = DocFields
  BY UserFacts DEF WriteInv, UsersInv
<1> HIDE DEF n, fields
<1>4. TokenOK(r, n)
  BY <1>2, <1>3 DEF TokenOK, TokenInv
<1>5. \A v, t : ReqHolds(n, v, t) => Holds(v, t)
  BY <1>2, <1>3, UserHoldsToo DEF ReqHolds, DocHolds, ChangeHolds, ResetHolds
<1> QED BY <1>2, <1>4, <1>5, TokenGo DEF n, fields

(* To another query, or to remove what it has read.                        *)
LEMMA TokenGoOn ==
  ASSUME WriteInv, TokenInv, NEW r \in Requests, NEW pc \in {"name", "remove"}, NEW fields,
         Go(r, pc, fields), reqs[r].pc \in {"query", "name"},
         DOMAIN fields \subseteq {"doc", "arg"}, pc = "name" => reqs[r].kind = "oauth",
         UNCHANGED <<users, mailed, page>>
  PROVE  TokenInv'
<1> DEFINE n == Merge(fields, [reqs[r] EXCEPT !.pc = pc])
<1>1. /\ n.pc = pc /\ n.kind = reqs[r].kind /\ n.saved = reqs[r].saved
      /\ n.token = reqs[r].token
  <2>1. "pc" \notin DOMAIN fields
    OBVIOUS
  <2> QED BY <2>1, GoFacts DEF ReqFields
<1>2. reqs[r].saved = FALSE
  BY DEF TokenInv, TokenOK
<1> HIDE DEF n
<1>3. TokenOK(r, n)
  BY <1>1, <1>2 DEF TokenOK
<1>4. \A v, t : ~ReqHolds(n, v, t)
  BY <1>1 DEF ReqHolds, DocHolds, ChangeHolds, ResetHolds
<1> QED BY <1>1, <1>3, <1>4, TokenGo DEF n

LEMMA TokenCall ==
  ASSUME WriteInv, TokenInv, NEW r \in Requests,
         \/ Signin(r) \/ Forgot(r) \/ SendMail(r) \/ Reset(r) \/ ChangePassword(r)
         \/ OauthSignin(r) \/ FindUniqueUsername(r) \/ Upload(r) \/ AdminLoad(r)
         \/ QueryFails(r) \/ NameFails(r) \/ UploadFails(r) \/ SaveFails(r) \/ LoginFails(r)
  PROVE  TokenInv'
<1>0. UNCHANGED <<users, page>> /\ (SendMail(r) \/ UNCHANGED mailed)
  BY DEF Signin, Forgot, SendMail, Reset, ChangePassword, OauthSignin, FindUniqueUsername,
         Upload, AdminLoad, QueryFails, NameFails, UploadFails, SaveFails, LoginFails
<1>1. CASE Close(r)
  <2>1. \A t \in mailed' : t \in mailed \/ (t = r /\ reqs[r].pc = "mail")
    <3>1. CASE SendMail(r)
      <4>1. reqs[r].pc = "mail" /\ mailed' \in {mailed, mailed \cup {reqs[r].token}}
        BY <3>1 DEF SendMail
      <4>2. reqs[r].token = r
        BY <4>1 DEF TokenInv, TokenOK
      <4> QED BY <4>1, <4>2
    <3> QED BY <1>0, <3>1
  <2>2. \A b \in Browsers : \A u, t : PageHolds(page'[b], u, t) => Holds(u, t)
    BY <1>0 DEF PageHolds, Holds
  <2> QED BY <1>0, <1>1, <2>1, <2>2, TokenAnswered
<1>2. CASE Signin(r) /\ ~Close(r)
  BY <1>2, TokenGoAnswer DEF Signin
<1>3. CASE Forgot(r) /\ ~Close(r)
  <2>1. reqs[r].kind = "forgot" /\ reqs[r].pc = "query" /\ UNCHANGED <<users, mailed, page>>
    BY <1>3 DEF Forgot
  <2>2. PICK u \in DOMAIN users :
          Go(r, "save", [account |-> u, doc |-> users[u], token |-> r, changes |-> [token |-> r]])
    BY <1>3 DEF Forgot
  <2> DEFINE fields == [account |-> u, doc |-> users[u], token |-> r, changes |-> [token |-> r]]
  <2>3. /\ DOMAIN fields = {"account", "doc", "changes", "token"} /\ fields.token = r
        /\ fields.doc = users[u] /\ fields.account = u /\ fields.changes = [token |-> r]
    OBVIOUS
  <2> HIDE DEF fields
  <2> QED BY <2>1, <2>2, <2>3, TokenGoSave DEF fields
<1>4. CASE Reset(r) /\ ~Close(r)
  <2>1. reqs[r].kind = "reset" /\ reqs[r].pc = "query" /\ UNCHANGED <<users, mailed, page>>
    BY <1>4 DEF Reset
  <2>2. PICK u \in DOMAIN users :
          /\ users[u].token = reqs[r].token
          /\ Go(r, "save", [account |-> u, doc |-> users[u], changes |-> NewPassword(r)])
    BY <1>4 DEF Reset, WithToken
  <2> DEFINE fields == [account |-> u, doc |-> users[u], changes |-> NewPassword(r)]
  <2>3. /\ DOMAIN fields = {"account", "doc", "changes"}
        /\ fields.doc = users[u] /\ fields.account = u /\ fields.changes = NewPassword(r)
    OBVIOUS
  <2> HIDE DEF fields
  <2> QED BY <2>1, <2>2, <2>3, TokenGoSave DEF fields
<1>5. CASE ChangePassword(r) /\ ~Close(r)
  <2> DEFINE u == reqs[r].account
             fields == [doc |-> users[u], changes |-> [password |-> Plain(r)]]
  <2>1. /\ reqs[r].kind = "change" /\ reqs[r].pc = "query" /\ u \in DOMAIN users
        /\ Go(r, "save", fields) /\ UNCHANGED <<users, mailed, page>>
    BY <1>5 DEF ChangePassword
  <2>2. /\ DOMAIN fields = {"doc", "changes"}
        /\ fields.doc = users[u] /\ DOMAIN fields.changes = {"password"}
    OBVIOUS
  <2> HIDE DEF fields
  <2> QED BY <2>1, <2>2, TokenGoSave
<1>6. CASE OauthSignin(r) /\ ~Close(r)
  <2>0. reqs[r].pc = "query" /\ reqs[r].kind = "oauth" /\ UNCHANGED <<users, mailed, page>>
    BY <1>6 DEF OauthSignin
  <2>1. CASE \E u \in WithIdentity(reqs[r].arg.identity) :
               Go(r, "answer", [account |-> u, doc |-> users[u]])
    BY <2>0, <2>1, TokenGoAnswer DEF WithIdentity
  <2>2. CASE Go(r, "name", <<>>)
    <3>1. DOMAIN <<>> = {}
      OBVIOUS
    <3> QED BY <2>0, <2>2, <3>1, TokenGoOn
  <2> QED BY <1>6, <2>1, <2>2 DEF OauthSignin
<1>7. CASE FindUniqueUsername(r) \/ NameFails(r)
  <2> DEFINE again == [arg |-> [reqs[r].arg EXCEPT !.suffix = @ + 1]]
             fields(c) == [changes |-> c]
             n(c) == Merge(fields(c), [reqs[r] EXCEPT !.pc = "save"])
  <2>0. reqs[r].pc = "name" /\ UNCHANGED <<users, mailed, page>>
    BY <1>7 DEF FindUniqueUsername, NameFails
  <2>1. reqs[r].account = None /\ reqs[r].saved = FALSE /\ reqs[r].kind = "oauth"
    BY <2>0 DEF WriteInv, ReqsInv, ReqOK, TokenInv, TokenOK
  <2>2. CASE Go(r, "name", again)
    <3>1. DOMAIN again = {"arg"}
      OBVIOUS
    <3> HIDE DEF again
    <3> QED BY <2>0, <2>1, <2>2, <3>1, TokenGoOn
  <2>3. ASSUME NEW i, NEW name, Go(r, "save", [changes |-> NewUser(r, i, name)])
        PROVE  TokenInv'
    <3> DEFINE c == NewUser(r, i, name)
    <3>1. c.token = None
      BY DEF NewUser, NewAccount
    <3> HIDE DEF c
    <3>2. DOMAIN fields(c) = {"changes"} /\ fields(c).changes = c
      OBVIOUS
    <3>3. /\ n(c).pc = "save" /\ n(c).account = None /\ n(c).changes = c
          /\ n(c).saved = FALSE /\ n(c).kind = reqs[r].kind /\ n(c).token = reqs[r].token
      <4> HIDE DEF fields
      <4> QED BY <2>1, <3>2, GoFacts DEF ReqFields
    <3>4. Go(r, "save", fields(c))
      BY <2>3 DEF c
    <3>5. reqs[r].kind \notin {"forgot", "reset", "update"}
      BY <2>0 DEF TokenInv, TokenOK
    <3> HIDE DEF n
    <3>6. TokenOK(r, n(c)) /\ \A u, t : t # None => ~ReqHolds(n(c), u, t)
      BY <3>1, <3>3, <3>5, TokenOfNew
    <3> HIDE DEF fields
    <3> QED BY <2>0, <2>1, <3>3, <3>4, <3>6, TokenGo DEF n
  <2> QED BY <1>7, <2>2, <2>3 DEF FindUniqueUsername, NameFails
<1>8. CASE AdminLoad(r) /\ ~Close(r)
  <2> DEFINE u == reqs[r].account
             fields == [doc |-> users[u], changes |-> [profile |-> r, roles |-> reqs[r].arg]]
             gets == [doc |-> users[u]]
  <2>0. reqs[r].pc = "query" /\ UNCHANGED <<users, mailed, page>>
    BY <1>8 DEF AdminLoad
  <2>1. CASE Go(r, "remove", gets)
    <3>1. DOMAIN gets = {"doc"}
      OBVIOUS
    <3> HIDE DEF gets
    <3> QED BY <2>0, <2>1, <3>1, TokenGoOn
  <2>2. CASE reqs[r].kind = "adminUpdate" /\ u \in DOMAIN users /\ Go(r, "save", fields)
    <3>1. /\ DOMAIN fields = {"doc", "changes"}
          /\ fields.doc = users[u] /\ DOMAIN fields.changes = {"profile", "roles"}
      OBVIOUS
    <3> HIDE DEF fields
    <3> QED BY <2>0, <2>2, <3>1, TokenGoSave
  <2> QED BY <1>8, <2>1, <2>2 DEF AdminLoad
<1>9. CASE SendMail(r) \/ QueryFails(r) \/ UploadFails(r) \/ SaveFails(r) \/ LoginFails(r)
  BY <1>1, <1>9 DEF SendMail, QueryFails, UploadFails, SaveFails, LoginFails
<1>10. CASE Upload(r)
  <2> DEFINE q == reqs[r]
             c == [picture |-> r]
             fields == [changes |-> c]
             n == Merge(fields, [q EXCEPT !.pc = "save"])
  <2>1. q.pc = "upload" /\ Go(r, "save", fields) /\ UNCHANGED <<users, mailed, page>>
    BY <1>10 DEF Upload
  <2>2. q.kind = "picture" /\ q.account # None
    BY <2>1 DEF WriteInv, ReqsInv, ReqOK
  <2>3. q.saved = FALSE /\ DOMAIN q.doc = DocFields /\ q.doc.id = q.account
    BY <2>1, <2>2 DEF TokenInv, TokenOK
  <2>4. DOMAIN c = {"picture"}
    OBVIOUS
  <2> HIDE DEF c
  <2>5. DOMAIN fields = {"changes"} /\ fields.changes = c
    OBVIOUS
  <2>6. /\ n.pc = "save" /\ n.kind = q.kind /\ n.account = q.account /\ n.doc = q.doc
        /\ n.changes = c /\ n.saved = q.saved /\ n.token = q.token
    <3> HIDE DEF fields
    <3> QED BY <2>5, GoFacts DEF ReqFields
  <2> HIDE DEF n
  <2>7. TokenOK(r, n)
    BY <2>2, <2>3, <2>4, <2>6 DEF TokenOK
  <2>8. \A u, t : ReqHolds(n, u, t) => DocHolds(q, u, t)
    BY <2>1, <2>2, <2>4, <2>6 DEF ReqHolds, DocHolds, ChangeHolds, ResetHolds
  <2>9. \A u, t : t # None /\ ReqHolds(n, u, t) => Holds(u, t)
    BY <2>8 DEF Holds, ReqHolds
  <2> QED BY <2>1, <2>2, <2>6, <2>7, <2>9, TokenGo DEF n
<1> QED BY <1>1, <1>2, <1>3, <1>4, <1>5, <1>6, <1>7, <1>8, <1>9, <1>10

(* The requests under way are lost with the process.                       *)
LEMMA TokenThrow ==
  ASSUME WriteInv, TokenInv, NEW r \in Requests, Throw(r)
  PROVE  TokenInv'
<1>1. UNCHANGED <<users, mailed, page>>
  BY DEF Throw
<1>2. ASSUME NEW s \in Requests PROVE reqs'[s] = reqs[s] \/ reqs'[s] = Lost(reqs[s])
  BY DEF Throw
<1>4. \A s \in Requests : reqs[s].saved \in BOOLEAN
  BY DEF TokenInv, TokenOK
<1>5. ASSUME NEW s \in Requests
      PROVE  \/ reqs'[s] = reqs[s]
             \/ /\ reqs'[s].pc = "lost" /\ reqs'[s].saved = reqs[s].saved
                /\ reqs[s].saved = TRUE => /\ reqs'[s].kind = reqs[s].kind
                                           /\ reqs'[s].token = reqs[s].token
                /\ reqs[s].saved = FALSE => reqs'[s].kind = "none"
  <2>1. CASE reqs'[s] = Lost(reqs[s])
    <3> DEFINE q == reqs[s]
    <3>1. q.saved \in BOOLEAN
      BY <1>4
    <3>2. reqs'[s] = Lost(q)
      BY <2>1
    <3> HIDE DEF q
    <3>3. /\ Lost(q).pc = "lost" /\ Lost(q).saved = q.saved
          /\ q.saved = TRUE => Lost(q).kind = q.kind /\ Lost(q).token = q.token
          /\ q.saved = FALSE => Lost(q).kind = "none"
      BY <3>1 DEF Lost, Answered, Unused
    <3>4. reqs'[s].pc = Lost(q).pc /\ reqs'[s].saved = Lost(q).saved
          /\ reqs'[s].kind = Lost(q).kind /\ reqs'[s].token = Lost(q).token
      BY <3>2
    <3> QED BY <3>3, <3>4, Zenon DEF q
  <2> QED BY <1>2, <2>1
<1>6. \A t : Drawn(reqs, t) => Drawn(reqs', t)
  BY <1>5 DEF Drawn
<1>7. HoldInv'
  <2>1. ASSUME NEW s \in Requests, NEW u, NEW t, ReqHolds(reqs'[s], u, t)
        PROVE  ReqHolds(reqs[s], u, t)
    BY <1>5, <2>1 DEF ReqHolds, DocHolds, ChangeHolds, ResetHolds
  <2>2. ASSUME NEW u, NEW t, t # None, Holds(u, t)' PROVE Holds(u, t)
    <3>1. \/ UserHolds(u, t) \/ \E b \in Browsers : PageHolds(page[b], u, t)
          \/ \E s \in Requests : ReqHolds(reqs'[s], u, t)
      BY <1>1, <2>2 DEF Holds, UserHolds, PageHolds, ReqHolds, DocHolds, ChangeHolds, ResetHolds
    <3> QED BY <2>1, <3>1 DEF Holds
  <2> QED BY <1>6, <2>2, HoldStep DEF TokenInv
<1>8. ASSUME NEW s \in Requests PROVE TokenOK(s, reqs[s])'
  <2>1. TokenOK(s, reqs'[s])
    <3>1. CASE reqs'[s] = reqs[s]
      BY <3>1 DEF TokenInv
    <3>2. CASE reqs'[s].pc = "lost" /\ reqs'[s].saved = reqs[s].saved
      BY <1>4, <3>2 DEF TokenOK
    <3> QED BY <1>5, <3>1, <3>2
  <2> QED BY <2>1 DEF TokenOK
<1>9. \A s \in Requests : reqs'[s].kind = "reset" =>
        reqs[s].kind = "reset" /\ reqs[s].token = reqs'[s].token /\ reqs[s].saved = reqs'[s].saved
  BY <1>4, <1>5
<1>10. ResetsInv'
  BY <1>6, <1>9 DEF TokenInv, ResetsInv
<1>11. \A t : WrittenBack(reqs, t) => WrittenBack(reqs', t)
  BY <1>4, <1>5 DEF WrittenBack
<1>12. Spent'
  BY <1>1, <1>9, <1>11 DEF TokenInv, Spent
<1>13. \A t \in mailed' : Drawn(reqs', t)
  BY <1>1, <1>6 DEF TokenInv
<1> QED BY <1>7, <1>8, <1>10, <1>12, <1>13 DEF TokenInv

LEMMA TokenDelete ==
  ASSUME WriteInv, TokenInv, NEW r \in Requests, AdminDelete(r)
  PROVE  TokenInv'
<1>1. /\ Close(r) /\ UNCHANGED <<page, mailed>>
      /\ \A u \in DOMAIN users' : u \in DOMAIN users /\ users'[u].token = users[u].token
  BY DEF AdminDelete
<1>2. \A b \in Browsers : \A u, t : PageHolds(page'[b], u, t) => Holds(u, t)
  BY <1>1 DEF Holds
<1> QED BY <1>1, <1>2, TokenAnswered

LEMMA TokenAnswer ==
  ASSUME WriteInv, TokenInv, NEW r \in Requests, Answer(r)
  PROVE  TokenInv'
<1> DEFINE q == reqs[r]
           v == View(q.doc, JsonFields)
<1>1. Close(r) /\ UNCHANGED <<users, mailed>> /\ q.pc = "answer"
  BY DEF Answer
<1>2. q.account # None
  BY <1>1 DEF TokenInv, TokenOK
<1>3. v.id = q.doc.id /\ v.token = q.doc.token
  BY DEF View, JsonFields
<1>4. page' = page \/ page' = [page EXCEPT ![q.browser] = v]
  BY DEF Answer
<1>5. \A u, t : PageHolds(v, u, t) => Holds(u, t)
  BY <1>1, <1>2, <1>3 DEF PageHolds, Holds, ReqHolds, DocHolds
<1>6. \A b \in Browsers : \A u, t : PageHolds(page'[b], u, t) => Holds(u, t)
  <2> SUFFICES ASSUME NEW b \in Browsers, NEW u, NEW t, PageHolds(page'[b], u, t)
               PROVE  Holds(u, t)
    OBVIOUS
  <2> HIDE DEF v, q
  <2>1. page'[b] = page[b] \/ page'[b] = v
    BY <1>4 DEF WriteInv, PagesInv
  <2>2. PageHolds(page[b], u, t) => Holds(u, t)
    BY DEF Holds
  <2> QED BY <1>5, <2>1, <2>2
<1> QED BY <1>1, <1>6, TokenAnswered

(* A page load, and the passing of time.                                   *)
LEMMA TokenStill ==
  ASSUME TokenInv, UNCHANGED <<users, reqs, mailed>>,
         \A b \in Browsers : \A u, t : PageHolds(page'[b], u, t) => PageHolds(page[b], u, t)
  PROVE  TokenInv'
<1>1. \A u, t : Holds(u, t)' => Holds(u, t)
  BY DEF Holds, UserHolds, PageHolds, ReqHolds, DocHolds, ChangeHolds, ResetHolds
<1>2. HoldInv'
  BY <1>1, HoldStep DEF TokenInv
<1>3. ResetsInv' /\ Spent'
  BY DEF TokenInv, ResetsInv, Spent
<1>4. \A t \in mailed' : Drawn(reqs', t)
  BY DEF TokenInv
<1>5. ASSUME NEW s \in Requests PROVE TokenOK(s, reqs[s])'
  BY DEF TokenInv, TokenOK
<1> QED BY <1>2, <1>3, <1>4, <1>5 DEF TokenInv

LEMMA TokenLoad ==
  ASSUME WriteInv, TokenInv, NEW b \in Browsers, LoadPage(b)
  PROVE  TokenInv'
<1> DEFINE v == View(SignedIn(b), PageFields)
<1>1. UNCHANGED <<users, reqs, mailed>> /\ page' = [page EXCEPT ![b] = v]
  BY DEF LoadPage
<1>2. DOMAIN v # JsonFields
  BY DEF View, PageFields, JsonFields
<1> HIDE DEF v
<1>3. \A c \in Browsers : \A u, t : PageHolds(page'[c], u, t) => PageHolds(page[c], u, t)
  BY <1>1, <1>2 DEF PageHolds, WriteInv, PagesInv
<1> QED BY <1>1, <1>3, TokenStill

-----------------------------------------------------------------------------
(***************************************************************************)
(* The save of a document                                                  *)
(***************************************************************************)

(* What is saved has the id of the document, and the token unless that is  *)
(* about to change.                                                        *)
LEMMA MergedToken ==
  ASSUME NEW changes, NEW doc, DOMAIN doc = DocFields, "id" \notin DOMAIN changes
  PROVE  LET m == Merge(PreSave(changes), doc)
         IN  /\ DOMAIN m = DocFields /\ m.id = doc.id
             /\ m.token = IF "token" \in DOMAIN changes THEN changes.token ELSE doc.token
<1>1. "id" \in DocFields /\ "token" \in DocFields
  BY DEF DocFields
<1> DEFINE stored == PreSave(changes)
           m == Merge(stored, doc)
<1>2. /\ DOMAIN stored = DOMAIN changes
      /\ "token" \in DOMAIN changes => stored["token"] = changes["token"]
  BY PreSaveFacts
<1> HIDE DEF stored
<1>3. DOMAIN m = DocFields /\ m["id"] = doc["id"]
  BY <1>1, <1>2, MergeFacts
<1>4. m["token"] = IF "token" \in DOMAIN changes THEN changes["token"] ELSE doc["token"]
  BY <1>1, <1>2, MergeFacts
<1> QED BY <1>3, <1>4 DEF stored

(* The request after a save, and the account that was inserted.            *)
SavedNew(q, p) ==
  \E u \in Ids \ (DOMAIN users \cup gone) :
    /\ p.account = u /\ DOMAIN p.doc = DocFields /\ p.doc.id = u
    /\ p.doc.token = q.changes.token
    /\ p.doc = [PreSave(q.changes) EXCEPT !.id = u]
    /\ users' = [v \in DOMAIN users \cup {u} |-> IF v = u THEN p.doc ELSE users[v]]

SavedOld(q, p) ==
  /\ q.account # None /\ p.account = q.account /\ Modifies(q) /\ "id" \notin DOMAIN q.changes
  /\ p.doc = Merge(PreSave(q.changes), q.doc)
  /\ users' = Updated(q.account, PreSave(q.changes), q.doc)

LEMMA SavedRequest ==
  ASSUME WriteInv, NEW r \in Requests, Save(r)
  PROVE  LET q == reqs[r]
             p == reqs'[r]
         IN  /\ reqs' = [reqs EXCEPT ![r] = p] /\ UNCHANGED <<page, mailed>>
             /\ q.pc = "save" /\ p.pc = IF q.kind = "forgot" THEN "mail" ELSE "answer"
             /\ p.kind = q.kind /\ p.token = q.token /\ p.saved = TRUE
             /\ (q.account = None /\ SavedNew(q, p)) \/ SavedOld(q, p)
<1> DEFINE q == reqs[r]
           p == reqs'[r]
           stored == PreSave(q.changes)
           after == IF q.kind = "forgot" THEN "mail" ELSE "answer"
<1>1. q.pc = "save" /\ UNCHANGED <<page, mailed>>
  BY DEF Save
<1>2. ASSUME NEW fields, Go(r, after, fields), "pc" \notin DOMAIN fields
      PROVE  /\ reqs' = [reqs EXCEPT ![r] = p] /\ p.pc = after
             /\ \A f \in ReqFields \ {"pc"} : p[f] = IF f \in DOMAIN fields THEN fields[f] ELSE q[f]
  <2> DEFINE n == Merge(fields, [reqs[r] EXCEPT !.pc = after])
  <2> HIDE DEF after
  <2>1. n.pc = after /\ \A f \in ReqFields \ {"pc"} : n[f] = IF f \in DOMAIN fields THEN fields[f]
                                                             ELSE reqs[r][f]
    <3>1. ASSUME NEW f \in ReqFields \ {"pc"}
          PROVE  n[f] = IF f \in DOMAIN fields THEN fields[f] ELSE reqs[r][f]
      BY <1>2, GoFacts
    <3>2. n.pc = after
      BY <1>2, GoFacts
    <3> QED BY <3>1, <3>2
  <2>2. reqs' = [reqs EXCEPT ![r] = n]
    BY <1>2 DEF Go
  <2> HIDE DEF n
  <2>3. reqs'[r] = n
    BY <2>2, Replaced
  <2> QED BY <2>1, <2>2, <2>3
<1>3. CASE q.account = None
  <2> DEFINE doc(u) == [stored EXCEPT !.id = u]
             fields(u) == [account |-> u, doc |-> doc(u), changes |-> <<>>, saved |-> TRUE]
  <2>1. PICK u \in Ids \ (DOMAIN users \cup gone) :
          /\ users' = [v \in DOMAIN users \cup {u} |-> IF v = u THEN doc(u) ELSE users[v]]
          /\ Go(r, after, fields(u))
    BY <1>3 DEF Save, FreeIds
  <2>2. DOMAIN q.changes = DocFields
    BY <1>1, <1>3 DEF WriteInv, ReqsInv, ReqOK
  <2>3. DOMAIN stored = DocFields /\ stored["token"] = q.changes["token"]
    BY <2>2, PreSaveFacts DEF DocFields
  <2>4. DOMAIN doc(u) = DocFields /\ doc(u).id = u /\ doc(u).token = q.changes.token
    <3> HIDE DEF stored
    <3> QED BY <2>3 DEF DocFields
  <2> HIDE DEF doc
  <2>5. /\ DOMAIN fields(u) = {"account", "doc", "changes", "saved"} /\ fields(u).account = u
        /\ fields(u).doc = doc(u) /\ fields(u).saved = TRUE
    OBVIOUS
  <2> HIDE DEF fields, after, p, q
  <2>6. /\ reqs' = [reqs EXCEPT ![r] = p] /\ p.pc = after
        /\ \A f \in ReqFields \ {"pc"} : p[f] = IF f \in DOMAIN fields(u) THEN fields(u)[f] ELSE q[f]
    BY <1>2, <2>1, <2>5
  <2>7. p.account = u /\ p.doc = doc(u) /\ p.saved = TRUE /\ p.kind = q.kind /\ p.token = q.token
    BY <2>5, <2>6 DEF ReqFields
  <2>8. SavedNew(q, p)
    BY <2>1, <2>4, <2>7 DEF SavedNew, doc, stored
  <2> QED BY <1>1, <1>3, <2>6, <2>7, <2>8 DEF p, q, after
<1>4. CASE q.account # None
  <2> DEFINE doc == Merge(stored, q.doc)
             fields == [doc |-> doc, changes |-> <<>>, saved |-> TRUE]
  <2>1. /\ "id" \notin DOMAIN stored /\ users' = Updated(q.account, stored, q.doc)
        /\ Go(r, after, fields)
    BY <1>4 DEF Save, Refused
  <2>2. "id" \notin DOMAIN q.changes
    BY <2>1, PreSaveFacts
  <2>3. Modifies(q)
    BY <1>1, <1>4 DEF WriteInv, ReqsInv, ReqOK
  <2> HIDE DEF doc
  <2>4. /\ DOMAIN fields = {"doc", "changes", "saved"}
        /\ fields.doc = doc /\ fields.saved = TRUE
    OBVIOUS
  <2> HIDE DEF fields, after, p, q
  <2>5. /\ reqs' = [reqs EXCEPT ![r] = p] /\ p.pc = after
        /\ \A f \in ReqFields \ {"pc"} : p[f] = IF f \in DOMAIN fields THEN fields[f] ELSE q[f]
    BY <1>2, <2>1, <2>4
  <2>6. /\ p.account = q.account /\ p.doc = doc /\ p.saved = TRUE /\ p.kind = q.kind
        /\ p.token = q.token
    BY <2>4, <2>5 DEF ReqFields
  <2>7. SavedOld(q, p)
    BY <1>4, <2>1, <2>2, <2>3, <2>6 DEF SavedOld, doc
  <2> QED BY <1>1, <2>5, <2>6, <2>7 DEF p, q, after
<1> QED BY <1>3, <1>4

(* Where the token of an account comes from after a save.                  *)
LEMMA SavedUser ==
  ASSUME WriteInv, TokenInv, NEW r \in Requests, Save(r),
         NEW u \in DOMAIN users', users'[u].token # None
  PROVE  /\ u \in DOMAIN users
         /\ \/ /\ users'[u].token = users[u].token
               /\ u = reqs[r].account => "token" \notin DOMAIN reqs[r].changes
            \/ /\ reqs[r].account = u /\ u # None /\ "id" \notin DOMAIN reqs[r].changes
               /\ "token" \in DOMAIN reqs[r].changes /\ users'[u].token = reqs[r].changes.token
               /\ reqs[r].kind \in {"forgot", "reset", "update"}
<1> DEFINE q == reqs[r]
           p == reqs'[r]
<1>1. CASE q.account = None /\ SavedNew(q, p)
  <2>1. q.changes.token = None
    BY <1>1, SavedRequest DEF TokenInv, TokenOK
  <2>2. u # None
    BY <1>1, AccountsAssumption DEF SavedNew, WriteInv, UsersInv
  <2> HIDE DEF q, p
  <2>3. u \in DOMAIN users /\ users'[u] = users[u]
    BY <1>1, <2>1 DEF SavedNew
  <2> QED BY <1>1, <2>2, <2>3 DEF q
<1>2. CASE SavedOld(q, p)
  <2>1. /\ DOMAIN users' = DOMAIN users
        /\ users'[u] = IF u = q.account THEN Merge(PreSave(q.changes), users[u]) ELSE users[u]
    BY <1>2 DEF SavedOld, Updated
  <2>2. DOMAIN users[u] = DocFields
    BY <2>1 DEF WriteInv, UsersInv
  <2>3. CASE u = q.account /\ "token" \in DOMAIN q.changes
    <3>1. users'[u].token = q.changes.token
      BY <1>2, <2>1, <2>2, <2>3, MergedToken DEF SavedOld
    <3>2. q.kind \in Writers["token"]
      BY <1>2, <2>3 DEF SavedOld, Modifies
    <3> QED BY <1>2, <2>1, <2>3, <3>1, <3>2 DEF SavedOld, Writers
  <2>4. CASE u = q.account /\ "token" \notin DOMAIN q.changes
    <3>1. users'[u].token = users[u].token
      BY <1>2, <2>1, <2>2, <2>4, MergedToken DEF SavedOld
    <3> QED BY <2>1, <2>4, <3>1
  <2> QED BY <2>1, <2>3, <2>4
<1> QED BY <1>1, <1>2, SavedRequest

(* A save makes nothing hold a token but the account that is to be mailed  *)
(* the one that was drawn.                                                 *)
LEMMA SaveHolds ==
  ASSUME WriteInv, TokenInv, NEW r \in Requests, Save(r), NEW u, NEW t, t # None, Holds(u, t)'
  PROVE  Holds(u, t) \/ (reqs[r].kind = "forgot" /\ t = r /\ u = reqs[r].account)
<1> DEFINE q == reqs[r]
           p == reqs'[r]
<1>1. /\ reqs' = [reqs EXCEPT ![r] = p] /\ UNCHANGED <<page, mailed>>
      /\ q.pc = "save" /\ p.pc = IF q.kind = "forgot" THEN "mail" ELSE "answer"
      /\ (q.account = None /\ SavedNew(q, p)) \/ SavedOld(q, p)
  BY SavedRequest
<1>2. TokenOK(r, q) /\ ReqOK(q)
  BY DEF TokenInv, WriteInv, ReqsInv
<1>3. \A s \in Requests \ {r} : reqs'[s] = reqs[s]
  BY <1>1, Replaced
<1> HIDE DEF q, p
<1>4. ASSUME q.account = u, u # None, "id" \notin DOMAIN q.changes, "token" \in DOMAIN q.changes,
             t = q.changes.token
      PROVE  Holds(u, t) \/ (q.kind = "forgot" /\ t = r /\ u = q.account)
  <2>1. CASE q.kind = "forgot"
    <3>1. q.changes = [token |-> r]
      BY <1>1, <1>2, <2>1 DEF TokenOK
    <3> QED BY <1>4, <2>1, <3>1
  <2>2. CASE q.kind # "forgot"
    <3>1. ChangeHolds(q, u, t)
      BY <1>1, <1>4, <2>2 DEF ChangeHolds
    <3> QED BY <3>1 DEF Holds, ReqHolds, q
  <2> QED BY <2>1, <2>2
<1>5. CASE u \in DOMAIN users' /\ users'[u].token = t
  BY <1>4, <1>5, SavedUser, UserHoldsToo DEF q
<1>6. CASE \E b \in Browsers : PageHolds(page'[b], u, t)
  BY <1>1, <1>6 DEF Holds
<1>7. ASSUME NEW s \in Requests, s # r, ReqHolds(reqs'[s], u, t) PROVE Holds(u, t)
  BY <1>3, <1>7 DEF Holds
<1>8. CASE ReqHolds(p, u, t)
  <2>1. p.pc = "answer" /\ p.doc.id = u /\ p.doc.token = t
    BY <1>1, <1>8 DEF ReqHolds, DocHolds, ChangeHolds, ResetHolds
  <2>2. ~(q.account = None /\ SavedNew(q, p))
    BY <1>1, <1>2, <2>1 DEF SavedNew, TokenOK
  <2>3. SavedOld(q, p)
    BY <1>1, <2>2
  <2>4. DOMAIN q.doc = DocFields /\ q.doc.id = q.account /\ q.account # None
    BY <1>1, <1>2, <2>3 DEF SavedOld, TokenOK
  <2>5. /\ p.doc.id = q.doc.id
        /\ p.doc.token = IF "token" \in DOMAIN q.changes THEN q.changes.token ELSE q.doc.token
    BY <2>3, <2>4, MergedToken DEF SavedOld
  <2>6. CASE "token" \in DOMAIN q.changes
    BY <1>4, <2>1, <2>3, <2>4, <2>5, <2>6 DEF SavedOld, q
  <2>7. CASE "token" \notin DOMAIN q.changes
    <3>1. DocHolds(q, u, t)
      BY <1>1, <2>1, <2>4, <2>5, <2>7 DEF DocHolds
    <3> QED BY <3>1 DEF Holds, ReqHolds, q
  <2> QED BY <2>6, <2>7
<1>9. \/ u \in DOMAIN users' /\ users'[u].token = t
      \/ \E b \in Browsers : PageHolds(page'[b], u, t)
      \/ \E s \in Requests : ReqHolds(reqs'[s], u, t)
  BY DEF Holds, UserHolds, PageHolds, ReqHolds, DocHolds, ChangeHolds, ResetHolds
<1> QED BY <1>5, <1>6, <1>7, <1>8, <1>9 DEF p, q

(* A token a reset was saved with is gone from its account, and only a     *)
(* profile form brings it back.                                            *)
LEMMA SaveSpends ==
  ASSUME WriteInv, TokenInv, NEW r \in Requests, Save(r)
  PROVE  Spent'
<1> DEFINE q == reqs[r]
           p == reqs'[r]
<1>1. /\ reqs' = [reqs EXCEPT ![r] = p] /\ q.pc = "save"
      /\ p.kind = q.kind /\ p.token = q.token /\ p.saved = TRUE
      /\ (q.account = None /\ SavedNew(q, p)) \/ SavedOld(q, p)
  BY SavedRequest
<1>2. TokenOK(r, q)
  BY DEF TokenInv
<1>3. \A s \in Requests \ {r} : reqs'[s] = reqs[s]
  BY <1>1, Replaced
<1>4. q.saved = FALSE
  BY <1>1, <1>2 DEF TokenOK
<1>5. \A t : WrittenBack(reqs, t) => WrittenBack(reqs', t)
  <2> HIDE DEF p
  <2>1. \A w \in Requests : reqs[w].saved => reqs'[w] = reqs[w]
    BY <1>3, <1>4
  <2> QED BY <2>1 DEF WrittenBack
<1> SUFFICES ASSUME NEW s \in Requests, reqs'[s].kind = "reset", reqs'[s].saved,
                    NEW u \in DOMAIN users', users'[u].token = reqs'[s].token
             PROVE  WrittenBack(reqs', reqs'[s].token)
  BY DEF Spent
<1> DEFINE t == users'[u].token
<1>6. reqs[s].kind = "reset" /\ reqs[s].token = t
  BY <1>1, <1>3
<1>7. Drawn(reqs, t) /\ t # None
  BY <1>6, DrawnFacts DEF TokenInv, ResetsInv
<1>8. ~Drawn(reqs, r)
  BY <1>1 DEF Drawn, Requests
<1> HIDE DEF p, q
<1>9. /\ u \in DOMAIN users
      /\ \/ /\ t = users[u].token
            /\ u = q.account => "token" \notin DOMAIN q.changes
         \/ /\ q.account = u /\ "token" \in DOMAIN q.changes /\ t = q.changes.token
            /\ q.kind \in {"forgot", "reset", "update"}
  BY <1>7, SavedUser DEF q
<1> HIDE DEF t
<1>10. q.kind = "reset" => q.changes = NewPassword(r)
  BY <1>1, <1>2 DEF TokenOK
<1>11. DOMAIN NewPassword(r) = {"password", "token"} /\ NewPassword(r).token = None
  BY DEF NewPassword
<1>12. CASE s # r
  <2>1. reqs[s].saved
    BY <1>3, <1>12
  <2>2. CASE t = users[u].token
    <3>1. WrittenBack(reqs, t)
      BY <1>6, <1>9, <2>1, <2>2 DEF TokenInv, Spent
    <3> QED BY <1>5, <3>1 DEF t
  <2>3. CASE /\ "token" \in DOMAIN q.changes /\ t = q.changes.token
             /\ q.kind \in {"forgot", "reset", "update"}
    <3>1. q.kind # "reset"
      BY <1>7, <1>10, <1>11, <2>3
    <3>2. q.kind # "forgot"
      <4>1. q.kind = "forgot" => q.changes = [token |-> r]
        BY <1>1, <1>2 DEF TokenOK
      <4> QED BY <1>7, <1>8, <2>3, <4>1
    <3>3. q.token = t
      BY <1>1, <1>2, <2>3, <3>1, <3>2 DEF TokenOK
    <3> QED BY <1>1, <2>3, <3>1, <3>2, <3>3 DEF WrittenBack, p, t
  <2> QED BY <1>9, <2>2, <2>3
<1>13. CASE s = r
  <2>1. q.kind = "reset" /\ q.token = t
    BY <1>6, <1>13 DEF q
  <2>2. q.account # None
    BY <1>1, <1>2, <2>1 DEF TokenOK
  <2>3. t = users[u].token /\ u # q.account
    BY <1>7, <1>9, <1>10, <1>11, <2>1
  <2>4. Holds(u, t)
    BY <1>9, <2>3, UserHoldsToo
  <2>5. Holds(q.account, t)
    BY <1>1, <2>1 DEF Holds, ReqHolds, ResetHolds, q
  <2> QED BY <1>7, <2>3, <2>4, <2>5 DEF TokenInv, HoldInv
<1> QED BY <1>12, <1>13

LEMMA TokenSave ==
  ASSUME WriteInv, TokenInv, NEW r \in Requests, Save(r)
  PROVE  TokenInv'
<1> DEFINE q == reqs[r]
           p == reqs'[r]
<1>1. /\ reqs' = [reqs EXCEPT ![r] = p] /\ UNCHANGED <<page, mailed>>
      /\ q.pc = "save" /\ p.pc = IF q.kind = "forgot" THEN "mail" ELSE "answer"
      /\ p.kind = q.kind /\ p.token = q.token /\ p.saved = TRUE
      /\ (q.account = None /\ SavedNew(q, p)) \/ SavedOld(q, p)
  BY SavedRequest
<1>2. TokenOK(r, q)
  BY DEF TokenInv
<1>3. \A s \in Requests \ {r} : reqs'[s] = reqs[s]
  BY <1>1, Replaced
<1>4. \A t : Drawn(reqs, t) => Drawn(reqs', t)
  <2>1. ~Drawn(reqs, r)
    BY <1>1 DEF Drawn, Requests
  <2> HIDE DEF p
  <2> QED BY <1>3, <2>1 DEF Drawn
<1>5. q.kind = "forgot" => Drawn(reqs', r)
  BY <1>1 DEF Drawn
<1>6. ~Drawn(reqs, r) /\ r # None
  BY <1>1, AccountsAssumption DEF Drawn, Requests
<1>7. HoldInv'
  <2>1. ASSUME NEW u, NEW t, t # None, Holds(u, t)' PROVE Drawn(reqs', t)
    BY <1>4, <1>5, <2>1, SaveHolds DEF TokenInv, HoldInv
  <2>2. ASSUME NEW u, NEW v, NEW t, t # None, Holds(u, t)', Holds(v, t)' PROVE u = v
    <3>1. Holds(u, t) \/ (q.kind = "forgot" /\ t = r /\ u = q.account)
      BY <2>2, SaveHolds
    <3>2. Holds(v, t) \/ (q.kind = "forgot" /\ t = r /\ v = q.account)
      BY <2>2, SaveHolds
    <3> HIDE DEF q
    <3>3. CASE t = r
      BY <1>6, <3>1, <3>2, <3>3 DEF TokenInv, HoldInv
    <3>4. CASE t # r
      BY <2>2, <3>1, <3>2, <3>4 DEF TokenInv, HoldInv
    <3> QED BY <3>3, <3>4
  <2>3. \A u, t : t # None /\ Holds(u, t)' => Drawn(reqs', t)
    BY <2>1
  <2> QED BY <2>2, <2>3 DEF HoldInv
<1>8. TokenOK(r, p)
  <2>1. CASE q.kind = "forgot"
    <3>1. p.pc = "mail" /\ q.token = r
      BY <1>1, <1>2, <2>1 DEF TokenOK
    <3> QED BY <1>1, <2>1, <3>1 DEF TokenOK
  <2>2. CASE q.kind # "forgot" /\ q.account = None /\ SavedNew(q, p)
    <3>1. p.pc = "answer" /\ DOMAIN p.doc = DocFields /\ p.doc.id = p.account /\ p.account # None
      BY <1>1, <2>2, AccountsAssumption DEF SavedNew
    <3> QED BY <1>1, <3>1 DEF TokenOK
  <2>3. CASE q.kind # "forgot" /\ SavedOld(q, p)
    <3>1. DOMAIN q.doc = DocFields /\ q.doc.id = q.account /\ q.account # None
      BY <1>1, <1>2, <2>3 DEF SavedOld, TokenOK
    <3>2. DOMAIN p.doc = DocFields /\ p.doc.id = q.doc.id /\ p.account = q.account
      BY <2>3, <3>1, MergedToken DEF SavedOld
    <3>3. p.pc = "answer"
      BY <1>1, <2>3
    <3> QED BY <1>1, <3>1, <3>2, <3>3 DEF TokenOK
  <2> QED BY <1>1, <2>1, <2>2, <2>3
<1>9. ASSUME NEW s \in Requests PROVE TokenOK(s, reqs[s])'
  <2>1. TokenOK(s, reqs'[s])
    BY <1>3, <1>8 DEF TokenInv
  <2> QED BY <2>1 DEF TokenOK
<1>10. ResetsInv'
  <2> SUFFICES ASSUME NEW s \in Requests, reqs'[s].kind = "reset" PROVE Drawn(reqs', reqs'[s].token)
    BY DEF ResetsInv
  <2>1. reqs'[s].token = reqs[s].token /\ reqs[s].kind = "reset"
    BY <1>1, <1>3
  <2> QED BY <1>4, <2>1 DEF TokenInv, ResetsInv
<1>11. \A t \in mailed' : Drawn(reqs', t)
  BY <1>1, <1>4 DEF TokenInv
<1> QED BY <1>7, <1>9, <1>10, <1>11, SaveSpends DEF TokenInv

-----------------------------------------------------------------------------
LEMMA TokenInit == Init => TokenInv
<1> SUFFICES ASSUME Init PROVE TokenInv
  OBVIOUS
<1>1. WriteInv
  BY WriteInit
<1>2. \A s \in Requests : reqs[s] = Unused
  BY DEF Init
<1>3. Unused.pc = "unused" /\ Unused.saved = FALSE /\ Unused.kind = "none"
  BY DEF Unused
<1>4. \A s \in Requests : TokenOK(s, reqs[s])
  BY <1>2, <1>3 DEF TokenOK
<1>5. \A u \in DOMAIN users : users[u].token \in {0, None} /\ users[u].id = u
  BY DocumentsAssumption, AccountsAssumption DEF Init
<1>6. \A u, t : t # None /\ Holds(u, t) => UserHolds(u, t)
  <2> SUFFICES ASSUME NEW u, NEW t, t # None, Holds(u, t) PROVE UserHolds(u, t)
    OBVIOUS
  <2>1. \A s \in Requests : ~ReqHolds(reqs[s], u, t)
    BY <1>2, <1>3 DEF ReqHolds, DocHolds, ChangeHolds, ResetHolds
  <2>2. ASSUME NEW b \in Browsers, PageHolds(page[b], u, t) PROVE UserHolds(u, t)
    <3>1. session[b] \in DOMAIN users /\ page[b] = View(users[session[b]], JsonFields)
      BY <2>2, AccountsAssumption DEF Init, PageHolds
    <3>2. page[b].id = users[session[b]].id /\ page[b].token = users[session[b]].token
      BY <3>1 DEF View, JsonFields
    <3> QED BY <1>5, <2>2, <3>1, <3>2 DEF PageHolds, UserHolds
  <2> QED BY <2>1, <2>2 DEF Holds
<1>7. \A u, t : t # None /\ UserHolds(u, t) => t = 0
  BY <1>5 DEF UserHolds
<1>8. \A u, v : UserHolds(u, 0) /\ UserHolds(v, 0) => u = v
  BY DocumentsAssumption DEF Init, UserHolds
<1>9. HoldInv
  BY <1>6, <1>7, <1>8 DEF HoldInv, Drawn
<1>10. ResetsInv /\ Spent
  BY <1>2, <1>3 DEF ResetsInv, Spent
<1>11. \A t \in mailed : Drawn(reqs, t)
  BY DEF Init, Drawn
<1> QED BY <1>4, <1>9, <1>10, <1>11 DEF TokenInv

LEMMA TokenStep == WriteInv /\ TokenInv /\ [Next]_vars => TokenInv'
<1> SUFFICES ASSUME WriteInv, TokenInv, [Next]_vars PROVE TokenInv'
  OBVIOUS
<1>1. ASSUME NEW r \in Requests, NEW b \in Browsers, Send(r, b) PROVE TokenInv'
  BY <1>1, TokenSend
<1>2. ASSUME NEW r \in Requests, Return(r) \/ Fail(r) PROVE TokenInv'
  BY <1>2, TokenCall, TokenDelete, TokenSave, TokenAnswer, TokenThrow
     DEF Return, Fail, SaveRefused
<1>3. ASSUME NEW b \in Browsers, LoadPage(b) PROVE TokenInv'
  BY <1>3, TokenLoad
<1>4. CASE (\E t \in Tokens : Expire(t)) \/ UNCHANGED vars
  <2>1. UNCHANGED <<users, page, reqs, mailed>>
    BY <1>4 DEF Expire, vars
  <2> QED BY <2>1, TokenStill
<1> QED BY <1>1, <1>2, <1>3, <1>4 DEF Next

(* Only the query by the token takes a reset to its save.                  *)
LEMMA OnlyResets ==
  ASSUME WriteInv, Next, NEW r \in Requests,
         reqs[r].kind = "reset", reqs[r].pc = "query", reqs'[r].pc = "save"
  PROVE  Reset(r) /\ ~Close(r)
<1>1. ASSUME NEW s \in Requests, NEW n, reqs' = [reqs EXCEPT ![s] = n] PROVE s = r /\ n.pc = "save"
  BY <1>1, Replaced
<1>2. ~Close(r)
  BY <1>1 DEF Close, Answered, Unused
<1>3. ASSUME NEW s \in Requests, NEW b, Send(s, b) PROVE FALSE
  <2>1. reqs[s].pc = "unused" /\ \E n : reqs' = [reqs EXCEPT ![s] = n]
    BY <1>3 DEF Send, Signup, SendSignin, Signout, SendForgot, ValidateResetToken, SendReset,
                SendChangePassword, OauthCallback, RemoveOAuthProvider, UpdateProfile,
                ChangeProfilePicture, SendAdmin, ReceiveSigned, Receive, AnswerAtOnce, Arrives
  <2> QED BY <1>1, <2>1
<1>4. ASSUME NEW s \in Requests PROVE ~Throw(s)
  <2>1. Lost(reqs[r]).pc = "lost"
    BY LostFacts
  <2> QED BY <2>1 DEF Throw
<1>5. ASSUME NEW s \in Requests, Return(s) \/ Fail(s) PROVE Reset(s) /\ s = r
  <2>1. \E n : reqs' = [reqs EXCEPT ![s] = n]
    BY <1>4, <1>5 DEF Return, Fail, Signin, Forgot, SendMail, Reset, ChangePassword, OauthSignin,
                FindUniqueUsername, Upload, AdminLoad, AdminDelete, Save, SaveRefused, Answer,
                QueryFails, NameFails, UploadFails, SaveFails, LoginFails, Go, Close
  <2>2. s = r
    BY <1>1, <2>1
  <2>3. Return(r) \/ Fail(r) => Reset(r)
    BY <1>2, <1>4 DEF Return, Fail, Signin, Forgot, SendMail, ChangePassword, OauthSignin,
              FindUniqueUsername, Upload, AdminLoad, AdminDelete, Save, SaveRefused, Answer,
              QueryFails, NameFails, UploadFails, SaveFails, LoginFails
  <2> QED BY <1>5, <2>2, <2>3
<1>6. ~\E b \in Browsers : LoadPage(b)
  BY DEF LoadPage
<1>7. ~\E t \in Tokens : Expire(t)
  BY DEF Expire
<1> QED BY <1>2, <1>3, <1>5, <1>6, <1>7 DEF Next

(* However requests interleave, whatever fails between a token's mail and  *)
(* its use, and whichever copies of the account are about: after a reset   *)
(* has been saved, no other reset finds an account by the same token,      *)
(* unless the profile form has written it back.                            *)
THEOREM UsedTokenIsSpentHolds == Spec => UsedTokenIsSpent
<1> DEFINE Once == \A r \in Requests :
             /\ reqs[r].kind = "reset" /\ reqs[r].pc = "query" /\ reqs'[r].pc = "save"
             => \A q \in Requests :
                  reqs[q].kind = "reset" /\ reqs[q].token = reqs[r].token /\ reqs[q].saved
                  => \E w \in Requests : /\ reqs[w].kind = "update" /\ reqs[w].saved
                                         /\ reqs[w].token = reqs[r].token
<1>1. WriteInv /\ TokenInv /\ [Next]_vars => [Once]_vars
  <2> SUFFICES ASSUME WriteInv, TokenInv, Next, NEW r \in Requests,
                      reqs[r].kind = "reset", reqs[r].pc = "query", reqs'[r].pc = "save",
                      NEW q \in Requests,
                      reqs[q].kind = "reset", reqs[q].token = reqs[r].token, reqs[q].saved
               PROVE  \E w \in Requests : /\ reqs[w].kind = "update" /\ reqs[w].saved
                                          /\ reqs[w].token = reqs[r].token
    OBVIOUS
  <2>1. Reset(r) /\ ~Close(r)
    BY OnlyResets
  <2>2. PICK u \in DOMAIN users : users[u].token = reqs[r].token
    BY <2>1 DEF Reset, WithToken
  <2> QED BY <2>2 DEF TokenInv, Spent, WrittenBack
<1>2. Spec => [][Once]_vars
  BY WriteInit, WriteStep, TokenInit, TokenStep, <1>1, PTL DEF Spec
<1> QED BY <1>2 DEF UsedTokenIsSpent

-----------------------------------------------------------------------------
(***************************************************************************)
(* Types                                                                   *)
(***************************************************************************)

FieldType == [id |-> Ids, provider |-> Providers \cup {"local"},
              identity |-> Identities \cup {None},
              username |-> Usernames, email |-> Addresses,
              password |-> {None} \cup {Hash(Plain(p)) : p \in Tokens},
              token |-> Tokens \cup {None},
              profile |-> Tokens, picture |-> Tokens,
              linked |-> [Providers -> Identities \cup {None}],
              roles |-> {{"user"}, {"user", "admin"}}]

(* A document, or what a page knows of one.                                *)
Fits(d) == \A f \in DOMAIN d : f \in DocFields /\ d[f] \in FieldType[f]

(* What is to be saved: passwords are still as they were typed, and there  *)
(* is no id yet, or one that is refused.                                   *)
ChangesFit(c) ==
  \A f \in DOMAIN c : /\ f \in DocFields
                      /\ f \notin {"id", "password"} => c[f] \in FieldType[f]
                      /\ f = "password" => c[f] = None \/ \E p \in Tokens : c[f] = Plain(p)

Profiled == {i \in Identities : ProviderUserProfile(i) # None}

ReqFits(q) ==
  /\ q.account \in Ids \cup {None}
  /\ q.pc \in {"upload", "save", "answer"} /\ q.account # None => Fits(q.doc)
  /\ q.pc = "save" => \/ ChangesFit(q.changes)
                      \/ q.account = None /\ q.changes.username = NoName
  /\ q.pc = "remove" => q.account # None
  /\ q.pc = "query" /\ q.kind = "adminUpdate" => q.arg \in {{"user"}, {"user", "admin"}}
  /\ q.pc \in {"query", "name"} /\ q.kind = "oauth" =>
       q.arg \in [identity : Profiled, suffix : Nat]

TypeInv ==
  /\ TypeOK
  /\ \A b \in Browsers : page[b] # None => Fits(page[b])
  /\ \A r \in Requests : ReqFits(reqs[r])

LEMMA FieldTypeFacts ==
  /\ FieldType["id"] = Ids /\ FieldType["provider"] = Providers \cup {"local"}
  /\ FieldType["identity"] = Identities \cup {None}
  /\ FieldType["username"] = Usernames /\ FieldType["email"] = Addresses
  /\ FieldType["password"] = {None} \cup {Hash(Plain(p)) : p \in Tokens}
  /\ FieldType["token"] = Tokens \cup {None}
  /\ FieldType["profile"] = Tokens /\ FieldType["picture"] = Tokens
  /\ FieldType["linked"] = [Providers -> Identities \cup {None}]
  /\ FieldType["roles"] = {{"user"}, {"user", "admin"}}
BY DEF FieldType

LEMMA FitsAccount ==
  ASSUME NEW d, d = [f \in DocFields |-> d[f]], Fits(d)
  PROVE  d \in Account
<1>1. \A f \in DocFields : d[f] \in FieldType[f]
  BY DEF Fits
<1>2. d = [id |-> d.id, provider |-> d.provider, identity |-> d.identity,
           username |-> d.username, email |-> d.email, password |-> d.password,
           token |-> d.token, profile |-> d.profile, picture |-> d.picture,
           linked |-> d.linked, roles |-> d.roles]
  BY DEF DocFields
<1>3. /\ d.id \in Ids /\ d.provider \in Providers \cup {"local"}
      /\ d.identity \in Identities \cup {None}
      /\ d.username \in Usernames /\ d.email \in Addresses
      /\ d.password \in {None} \cup {Hash(Plain(p)) : p \in Tokens}
      /\ d.token \in Tokens \cup {None}
      /\ d.profile \in Tokens /\ d.picture \in Tokens
      /\ d.linked \in [Providers -> Identities \cup {None}]
      /\ d.roles \in {{"user"}, {"user", "admin"}}
  BY <1>1, FieldTypeFacts DEF DocFields
<1> QED BY <1>2, <1>3 DEF Account

LEMMA AccountFits ==
  ASSUME NEW d \in Account
  PROVE  Fits(d)
<1>1. DOMAIN d = DocFields
  BY AccountFacts
<1>2. /\ d["id"] \in FieldType["id"] /\ d["provider"] \in FieldType["provider"]
      /\ d["identity"] \in FieldType["identity"]
      /\ d["username"] \in FieldType["username"] /\ d["email"] \in FieldType["email"]
      /\ d["password"] \in FieldType["password"] /\ d["token"] \in FieldType["token"]
      /\ d["profile"] \in FieldType["profile"] /\ d["picture"] \in FieldType["picture"]
      /\ d["linked"] \in FieldType["linked"] /\ d["roles"] \in FieldType["roles"]
  BY FieldTypeFacts DEF Account
<1> QED BY <1>1, <1>2 DEF Fits, DocFields

LEMMA RequestNumbers == Requests \subseteq Tokens /\ None \notin Requests
BY AccountsAssumption DEF Requests, Tokens

LEMMA PreSaveFits ==
  ASSUME NEW c, ChangesFit(c)
  PROVE  \A f \in DOMAIN PreSave(c) : /\ f \in DocFields
                                      /\ f # "id" => PreSave(c)[f] \in FieldType[f]
<1>1. DOMAIN PreSave(c) = DOMAIN c /\ \A f \in DOMAIN c \ {"password"} : PreSave(c)[f] = c[f]
  BY PreSaveFacts
<1>2. ASSUME "password" \in DOMAIN c PROVE PreSave(c)["password"] \in FieldType["password"]
  <2>1. PreSave(c)["password"] = IF c["password"] = None THEN None ELSE Hash(c["password"])
    BY <1>2 DEF PreSave
  <2>2. c["password"] = None \/ \E p \in Tokens : c["password"] = Plain(p)
    BY <1>2 DEF ChangesFit
  <2> QED BY <2>1, <2>2, FieldTypeFacts
<1> QED BY <1>1, <1>2 DEF ChangesFit

LEMMA MergeFits ==
  ASSUME NEW c, NEW d, Fits(d), "id" \notin DOMAIN c,
         \A f \in DOMAIN c : f # "id" => c[f] \in FieldType[f]
  PROVE  Fits(Merge(c, d)) /\ Merge(c, d) = [f \in DOMAIN d |-> Merge(c, d)[f]]
<1>1. Merge(c, d) = [f \in DOMAIN d |-> Merge(c, d)[f]]
  BY DEF Merge
<1> DEFINE m == Merge(c, d)
<1>2. DOMAIN m = DOMAIN d /\ \A f \in DOMAIN d : m[f] = IF f \in DOMAIN c THEN c[f] ELSE d[f]
  BY MergeFacts
<1> HIDE DEF m
<1>3. Fits(m)
  BY <1>2 DEF Fits
<1> QED BY <1>1, <1>3 DEF m

LEMMA ViewFits ==
  ASSUME NEW d, Fits(d), DOMAIN d = DocFields, NEW fields \in SUBSET DocFields
  PROVE  Fits(View(d, fields))
BY DEF Fits, View

(* A new account, whatever name, address, password and profile it gets.    *)
LEMMA NewAccountFits ==
  ASSUME NEW c, DOMAIN c = DocFields, c.provider \in Providers \cup {"local"},
         c.identity \in Identities \cup {None}, c.username \in Usernames, c.email \in Addresses,
         c.password = None \/ \E p \in Tokens : c.password = Plain(p),
         c.token = None, c.profile \in Tokens, c.picture \in Tokens, c.linked = NoLinks,
         c.roles = {"user"}
  PROVE  ChangesFit(c)
<1>1. c.linked \in [Providers -> Identities \cup {None}]
  BY DEF NoLinks
<1>2. /\ c["provider"] \in FieldType["provider"] /\ c["identity"] \in FieldType["identity"]
      /\ c["username"] \in FieldType["username"] /\ c["email"] \in FieldType["email"]
      /\ c["token"] \in FieldType["token"] /\ c["profile"] \in FieldType["profile"]
      /\ c["picture"] \in FieldType["picture"] /\ c["linked"] \in FieldType["linked"]
      /\ c["roles"] \in FieldType["roles"]
  BY <1>1, FieldTypeFacts
<1> QED BY <1>2 DEF ChangesFit, DocFields

(* What the providers pass on.                                             *)
LEMMA Passes ==
  ASSUME NEW i \in Profiled
  PROVE  /\ ProviderUserProfile(i).email \in Addresses
         /\ \A n \in Nat : <<PossibleUsername(ProviderUserProfile(i)), n>> \in Usernames
         /\ ProviderOf(i) \in Providers /\ i \in Identities
<1>1. Profile[i].address \in Addresses /\ None \in Addresses /\ i \in Identities
  BY AccountsAssumption DEF Profiled, Addresses
<1>2. ProviderUserProfile(i).email \in {Profile[i].address, None}
  BY <1>1, AccountsAssumption DEF ProviderUserProfile, Facebook, Github, Google, LinkedIn, PayPal,
     Twitter, Passed, Profiled
<1>3. \A n \in Nat : <<PossibleUsername(ProviderUserProfile(i)), n>> \in Usernames
  BY DEF Usernames, Profiled
<1> QED BY <1>1, <1>2, <1>3 DEF Providers

-----------------------------------------------------------------------------
LEMMA UsersFit ==
  ASSUME TypeInv, NEW u \in DOMAIN users
  PROVE  users[u] \in Account /\ users[u].id = u /\ u \in Ids /\ Fits(users[u])
BY AccountFits DEF TypeInv, TypeOK

(* A request gets on.                                                      *)
LEMMA TypeStep ==
  ASSUME WriteInv, TypeInv, NEW r \in Requests, NEW n, reqs' = [reqs EXCEPT ![r] = n], ReqFits(n),
         TypeOK', \A b \in Browsers : page'[b] # None => Fits(page'[b])
  PROVE  TypeInv'
<1>1. \A s \in Requests : ReqFits(reqs'[s])
  BY Replaced DEF TypeInv
<1>2. \A s \in Requests : ReqFits(reqs[s])'
  BY <1>1 DEF ReqFits, Fits, ChangesFit
<1>3. \A b \in Browsers : (page[b] # None => Fits(page[b]))'
  BY DEF Fits
<1> QED BY <1>2, <1>3 DEF TypeInv

(* A request gets on, and the collection is left alone.                    *)
LEMMA TypeSame ==
  ASSUME WriteInv, TypeInv, NEW r \in Requests, NEW n, reqs' = [reqs EXCEPT ![r] = n], ReqFits(n),
         UNCHANGED <<users, gone, mailed, expired>>,
         session' \in [Browsers -> Ids \cup {None}],
         \A b \in Browsers : page'[b] \in {page[b], None}
  PROVE  TypeInv'
<1>1. TypeOK'
  BY DEF TypeInv, TypeOK
<1>2. \A b \in Browsers : page'[b] # None => Fits(page'[b])
  BY DEF TypeInv
<1> QED BY <1>1, <1>2, TypeStep

LEMMA AnsweredFits ==
  ASSUME NEW q
  PROVE  ReqFits(Answered(q))
BY DEF Answered, Unused, ReqFits

LEMMA TypeReceived ==
  ASSUME WriteInv, TypeInv, NEW r \in Requests, NEW b, NEW q, DOMAIN q = ReqFields,
         Receive(r, b, q), ReqFits(q), UNCHANGED <<users, gone, mailed, expired>>,
         session' \in [Browsers -> Ids \cup {None}],
         \A c \in Browsers : page'[c] \in {page[c], None}
  PROVE  TypeInv'
<1> DEFINE n == Merge([browser |-> b, user |-> SignedIn(b)], q)
<1>1. reqs' = [reqs EXCEPT ![r] = n]
  BY DEF Receive
<1>2. /\ n.pc = q.pc /\ n.kind = q.kind /\ n.account = q.account /\ n.doc = q.doc
      /\ n.changes = q.changes /\ n.arg = q.arg
  BY ReceiveFacts
<1> HIDE DEF n
<1>3. ReqFits(n)
  BY <1>2 DEF ReqFits
<1> QED BY <1>1, <1>3, TypeSame

LEMMA TypeAtOnce ==
  ASSUME WriteInv, TypeInv, NEW r \in Requests, NEW kind, AnswerAtOnce(r, kind),
         UNCHANGED <<users, gone, mailed, expired>>,
         session' \in [Browsers -> Ids \cup {None}],
         \A c \in Browsers : page'[c] \in {page[c], None}
  PROVE  TypeInv'
BY AnsweredFits, TypeSame DEF AnswerAtOnce

LEMMA TypeSigned ==
  ASSUME WriteInv, TypeInv, NEW r \in Requests, NEW b, NEW kind, NEW changes, NEW token, NEW arg,
         ReceiveSigned(r, b, kind, changes, token, arg),
         SignedIn(b) # None => ChangesFit(changes),
         UNCHANGED <<users, gone, mailed, expired>>,
         session' \in [Browsers -> Ids \cup {None}],
         \A c \in Browsers : page'[c] \in {page[c], None}
  PROVE  TypeInv'
<1>1. CASE AnswerAtOnce(r, kind)
  BY <1>1, TypeAtOnce
<1>2. CASE SignedIn(b) # None /\ ~AnswerAtOnce(r, kind)
  <2> DEFINE me == SignedIn(b)
             q == [Unused EXCEPT !.kind = kind, !.pc = "save", !.account = me.id, !.doc = me,
                                 !.changes = changes, !.token = token, !.arg = arg]
  <2>1. Receive(r, b, q)
    BY <1>2 DEF ReceiveSigned
  <2>2. /\ DOMAIN q = ReqFields /\ q.pc = "save" /\ q.account = me.id
        /\ q.doc = me /\ q.changes = changes
    BY DEF Unused, ReqFields
  <2>3. me.id \in DOMAIN users /\ me = users[me.id]
    BY <1>2, SignedInFacts
  <2> HIDE DEF q, me
  <2>4. ReqFits(q)
    BY <1>2, <2>2, <2>3, UsersFit DEF ReqFits, me
  <2> QED BY <2>1, <2>2, <2>4, TypeReceived
<1> QED BY <1>1, <1>2 DEF ReceiveSigned

LEMMA TypeSend ==
  ASSUME WriteInv, TypeInv, NEW r \in Requests, NEW b \in Browsers, Send(r, b)
  PROVE  TypeInv'
<1>0. /\ UNCHANGED <<users, gone, mailed, expired>>
      /\ session' \in [Browsers -> Ids \cup {None}]
      /\ \A c \in Browsers : page'[c] \in {page[c], None}
  BY DEF Send, Signup, SendSignin, Signout, SendForgot, ValidateResetToken, SendReset,
         SendChangePassword, OauthCallback, RemoveOAuthProvider, UpdateProfile,
         ChangeProfilePicture, SendAdmin, WriteInv, PagesInv, TypeInv, TypeOK
<1>1. CASE Signup(r, b)
  <2>1. PICK i \in {j \in Identities : Profile[j].address # None} :
          Receive(r, b, [Unused EXCEPT
            !.kind = "signup", !.pc = "save",
            !.changes = [NewAccount EXCEPT !.username = <<LocalPart[Profile[i].address], 0>>,
                                           !.email = Profile[i].address,
                                           !.password = Plain(r), !.profile = r]])
    BY <1>1 DEF Signup
  <2> DEFINE c == [NewAccount EXCEPT !.username = <<LocalPart[Profile[i].address], 0>>,
                                     !.email = Profile[i].address,
                                     !.password = Plain(r), !.profile = r]
             q == [Unused EXCEPT !.kind = "signup", !.pc = "save", !.changes = c]
  <2>2. Profile[i].address \in DOMAIN LocalPart
    BY AccountsAssumption
  <2>3. /\ DOMAIN c = DocFields /\ c.provider = "local" /\ c.identity = None
        /\ c.username = <<LocalPart[Profile[i].address], 0>> /\ c.email = Profile[i].address
        /\ c.password = Plain(r) /\ c.token = None /\ c.profile = r /\ c.picture = 0
        /\ c.linked = NoLinks /\ c.roles = {"user"}
    BY DEF NewAccount, DocFields
  <2> HIDE DEF c
  <2>4. c.username \in Usernames /\ c.email \in Addresses /\ r \in Tokens /\ 0 \in Tokens
    BY <2>2, <2>3, RequestNumbers, AccountsAssumption DEF Usernames, Addresses, Tokens
  <2>5. ChangesFit(c)
    BY <2>3, <2>4, NewAccountFits
  <2>6. /\ DOMAIN q = ReqFields /\ q.pc = "save" /\ q.account = None /\ q.changes = c
    BY DEF Unused, ReqFields
  <2>7. Receive(r, b, q)
    BY <2>1 DEF c
  <2> HIDE DEF q
  <2>8. ReqFits(q)
    BY <2>5, <2>6 DEF ReqFits
  <2> QED BY <1>0, <2>6, <2>7, <2>8, TypeReceived
<1>2. ASSUME NEW q, q.pc = "query", DOMAIN q = ReqFields, Receive(r, b, q),
             q.account \in Ids \cup {None}, q.kind # "oauth",
             q.kind = "adminUpdate" => q.arg \in {{"user"}, {"user", "admin"}}
      PROVE  TypeInv'
  <2>1. ReqFits(q)
    BY <1>2 DEF ReqFits
  <2> QED BY <1>0, <1>2, <2>1, TypeReceived
<1>3. CASE SendSignin(r, b)
  <2>1. PICK u \in DOMAIN users, p \in Typed :
          Receive(r, b, [Unused EXCEPT !.kind = "signin", !.pc = "query",
                                       !.arg = [username |-> users[u].username, password |-> p]])
    BY <1>3 DEF SendSignin
  <2> DEFINE q == [Unused EXCEPT !.kind = "signin", !.pc = "query",
                                 !.arg = [username |-> users[u].username, password |-> p]]
  <2>2. q.pc = "query" /\ q.kind = "signin" /\ DOMAIN q = ReqFields /\ q.account = None
    BY DEF Unused, ReqFields
  <2> HIDE DEF q
  <2> QED BY <1>2, <2>1, <2>2 DEF q
<1>4. CASE Signout(r, b)
  BY <1>0, <1>4, TypeAtOnce DEF Signout
<1>5. CASE SendForgot(r, b)
  <2>1. PICK u \in DOMAIN users :
          Receive(r, b, [Unused EXCEPT !.kind = "forgot", !.pc = "query", !.arg = users[u].username])
    BY <1>5 DEF SendForgot
  <2> DEFINE q == [Unused EXCEPT !.kind = "forgot", !.pc = "query", !.arg = users[u].username]
  <2>2. q.pc = "query" /\ q.kind = "forgot" /\ DOMAIN q = ReqFields /\ q.account = None
    BY DEF Unused, ReqFields
  <2> HIDE DEF q
  <2> QED BY <1>2, <2>1, <2>2 DEF q
<1>6. CASE ValidateResetToken(r, b)
  BY <1>0, <1>6, TypeAtOnce DEF ValidateResetToken
<1>7. CASE SendReset(r, b)
  <2>1. PICK t \in mailed :
          Receive(r, b, [Unused EXCEPT !.kind = "reset", !.pc = "query", !.token = t])
    BY <1>7 DEF SendReset
  <2> DEFINE q == [Unused EXCEPT !.kind = "reset", !.pc = "query", !.token = t]
  <2>2. q.pc = "query" /\ q.kind = "reset" /\ DOMAIN q = ReqFields /\ q.account = None
    BY DEF Unused, ReqFields
  <2> HIDE DEF q
  <2> QED BY <1>2, <2>1, <2>2 DEF q
<1>8. CASE SendChangePassword(r, b)
  <2>1. CASE AnswerAtOnce(r, "change")
    BY <1>0, <2>1, TypeAtOnce
  <2>2. CASE ~AnswerAtOnce(r, "change")
    <3>1. PICK p \in Typed :
            /\ SignedIn(b) # None
            /\ Receive(r, b, [Unused EXCEPT !.kind = "change", !.pc = "query",
                                            !.account = SignedIn(b).id, !.arg = p])
      BY <1>8, <2>2 DEF SendChangePassword
    <3> DEFINE q == [Unused EXCEPT !.kind = "change", !.pc = "query",
                                   !.account = SignedIn(b).id, !.arg = p]
    <3>2. /\ q.pc = "query" /\ q.kind = "change" /\ DOMAIN q = ReqFields
          /\ q.account = SignedIn(b).id
      BY DEF Unused, ReqFields
    <3>3. SignedIn(b).id \in Ids
      BY <3>1, SignedInFacts, UsersFit
    <3> HIDE DEF q
    <3> QED BY <1>2, <3>1, <3>2, <3>3 DEF q
  <2> QED BY <2>1, <2>2
<1>9. CASE OauthCallback(r, b)
  <2>1. CASE AnswerAtOnce(r, "oauth")
    BY <1>0, <2>1, TypeAtOnce
  <2>2. CASE ~AnswerAtOnce(r, "oauth")
    <3> DEFINE me == SignedIn(b)
               arg(i) == [identity |-> i, suffix |-> 0]
               q1(i) == [Unused EXCEPT !.kind = "oauth", !.arg = arg(i), !.pc = "query"]
               links(i) == Joined(me.linked, ProviderOf(i), i)
               q2(i) == [Unused EXCEPT !.kind = "oauth", !.arg = arg(i), !.pc = "save",
                                       !.account = me.id, !.doc = me,
                                       !.changes = [linked |-> links(i)]]
    <3>1. PICK i \in Identities :
            /\ ProviderUserProfile(i) # None
            /\ Receive(r, b, q1(i)) \/ (me # None /\ Receive(r, b, q2(i)))
      BY <1>9, <2>2 DEF OauthCallback
    <3>2. CASE Receive(r, b, q1(i))
      <4>1. /\ DOMAIN q1(i) = ReqFields /\ q1(i).pc = "query" /\ q1(i).kind = "oauth"
            /\ q1(i).account = None /\ q1(i).arg = arg(i)
        BY DEF Unused, ReqFields
      <4>2. arg(i) \in [identity : Profiled, suffix : Nat]
        BY <3>1 DEF Profiled
      <4> HIDE DEF q1, arg
      <4>3. ReqFits(q1(i))
        BY <4>1, <4>2 DEF ReqFits
      <4> QED BY <1>0, <3>2, <4>1, <4>3, TypeReceived
    <3>3. CASE me # None /\ Receive(r, b, q2(i))
      <4> DEFINE c == [linked |-> links(i)]
      <4>1. DOMAIN c = {"linked"} /\ c["linked"] = links(i)
        OBVIOUS
      <4>2. me.id \in DOMAIN users /\ me = users[me.id] /\ DOMAIN me = DocFields
        BY <3>3, SignedInFacts
      <4>3. links(i) \in [Providers -> Identities \cup {None}]
        <5>1. me.linked \in [Providers -> Identities \cup {None}]
          <6>1. Fits(me)
            BY <4>2, UsersFit
          <6>2. me["linked"] \in FieldType["linked"]
            BY <4>2, <6>1 DEF Fits, DocFields
          <6> QED BY <6>2, FieldTypeFacts
        <5> QED BY <5>1 DEF Joined
      <4> HIDE DEF links
      <4>4. /\ DOMAIN q2(i) = ReqFields /\ q2(i).pc = "save" /\ q2(i).account = me.id
            /\ q2(i).doc = me /\ q2(i).changes = c
        BY DEF Unused, ReqFields
      <4> HIDE DEF q2, c, me
      <4>5. ChangesFit(c)
        BY <4>1, <4>3, FieldTypeFacts DEF ChangesFit, DocFields
      <4>6. ReqFits(q2(i))
        BY <4>2, <4>4, <4>5, UsersFit DEF ReqFits
      <4> QED BY <1>0, <3>3, <4>4, <4>6, TypeReceived
    <3> QED BY <3>1, <3>2, <3>3
  <2> QED BY <2>1, <2>2
<1>10. CASE RemoveOAuthProvider(r, b)
  <2>1. CASE AnswerAtOnce(r, "remove")
    BY <1>0, <2>1, TypeAtOnce
  <2>2. CASE ~AnswerAtOnce(r, "remove")
    <3> DEFINE me == SignedIn(b)
               without(p) == [me.linked EXCEPT ![p] = None]
               c(p) == IF me.linked[p] = None THEN <<>> ELSE [linked |-> without(p)]
    <3>1. PICK p \in Providers : me # None /\ ReceiveSigned(r, b, "remove", c(p), None, p)
      BY <1>10, <2>2 DEF RemoveOAuthProvider
    <3>2. without(p) \in [Providers -> Identities \cup {None}]
      <4>1. me \in Account
        BY <3>1, SignedInFacts, UsersFit
      <4>2. me.linked \in [Providers -> Identities \cup {None}]
        BY <4>1 DEF Account
      <4> QED BY <4>2
    <3> HIDE DEF without
    <3>3. DOMAIN c(p) \subseteq {"linked"} /\ ("linked" \in DOMAIN c(p) => c(p)["linked"] = without(p))
      <4>1. DOMAIN <<>> = {}
        OBVIOUS
      <4> QED BY <4>1
    <3> HIDE DEF c
    <3>4. ChangesFit(c(p))
      BY <3>2, <3>3, FieldTypeFacts DEF ChangesFit, DocFields
    <3> QED BY <1>0, <3>1, <3>4, TypeSigned
  <2> QED BY <2>1, <2>2
<1>11. CASE UpdateProfile(r, b)
  <2> DEFINE me == SignedIn(b)
             body(e) == FormBody(r, b, e)
             c(e) == IF me = None THEN <<>> ELSE Extend(me, body(e))
  <2>1. page[b] # None
    BY <1>11 DEF UpdateProfile
  <2>2. PICK e \in Edits : \E t : ReceiveSigned(r, b, "update", c(e), t, None)
    BY <1>11 DEF UpdateProfile
  <2>3. ASSUME me # None
        PROVE  ChangesFit(c(e))
    <3> DEFINE sent == [page[b] EXCEPT !.profile = r]
               B == body(e)
    <3>1. DOMAIN page[b] \in {JsonFields, PageFields} /\ Fits(page[b])
      BY <2>1 DEF WriteInv, PagesInv, PageOK, TypeInv
    <3>2. "password" \notin DOMAIN page[b] /\ "profile" \in DOMAIN page[b]
      BY <3>1 DEF JsonFields, PageFields
    <3>3. sent = [f \in DOMAIN page[b] |-> IF f = "profile" THEN r ELSE page[b][f]]
      BY <3>2
    <3> HIDE DEF sent
    <3>4. Fits(sent)
      BY <3>1, <3>3, FieldTypeFacts, RequestNumbers DEF Fits, DocFields
    <3>5. \A f \in DOMAIN e : f # "id" => e[f] \in FieldType[f]
      <4>1. DOMAIN e \subseteq {"username", "email"}
        BY DocumentsAssumption
      <4>2. "username" \in DOMAIN e => e["username"] \in Usernames
        BY DEF Usernames
      <4>3. "email" \in DOMAIN e => e["email"] \in Addresses
        BY DEF Addresses
      <4> QED BY <4>1, <4>2, <4>3, FieldTypeFacts
    <3>6. "id" \notin DOMAIN e
      BY DocumentsAssumption
    <3>7. B = Merge(e, sent)
      BY DEF FormBody, sent
    <3>8. Fits(B) /\ DOMAIN B = DOMAIN page[b]
      BY <3>3, <3>4, <3>5, <3>6, <3>7, MergeFits, MergeFacts
    <3> HIDE DEF B
    <3>9. /\ DOMAIN c(e) = {g \in DOMAIN B \ {"roles"} : ~Absent(g, B[g]) /\ B[g] # me[g]}
          /\ \A f \in DOMAIN c(e) : c(e)[f] = B[f]
      BY <2>3 DEF Extend, B
    <3> HIDE DEF c, body
    <3> QED BY <3>2, <3>8, <3>9 DEF ChangesFit, Fits
  <2> HIDE DEF c
  <2> QED BY <1>0, <2>2, <2>3, TypeSigned
<1>12. CASE ChangeProfilePicture(r, b)
  <2>1. CASE AnswerAtOnce(r, "picture")
    BY <1>0, <2>1, TypeAtOnce
  <2>2. CASE ~AnswerAtOnce(r, "picture")
    <3> DEFINE me == SignedIn(b)
               q == [Unused EXCEPT !.kind = "picture", !.pc = "upload", !.account = me.id,
                                   !.doc = me]
    <3>1. me # None /\ Receive(r, b, q)
      BY <1>12, <2>2 DEF ChangeProfilePicture
    <3>2. me.id \in DOMAIN users /\ me = users[me.id]
      BY <3>1, SignedInFacts
    <3>3. DOMAIN q = ReqFields /\ q.pc = "upload" /\ q.account = me.id /\ q.doc = me
      BY DEF Unused, ReqFields
    <3> HIDE DEF q, me
    <3>4. ReqFits(q)
      BY <3>2, <3>3, UsersFit DEF ReqFits
    <3> QED BY <1>0, <3>1, <3>3, <3>4, TypeReceived
  <2> QED BY <2>1, <2>2
<1>13. CASE SendAdmin(r, b)
  <2> DEFINE q1(u) == [Unused EXCEPT !.kind = "adminDelete", !.pc = "query", !.account = u]
             q2(u, held) == [Unused EXCEPT !.kind = "adminUpdate", !.pc = "query",
                                           !.account = u, !.arg = held]
  <2>1. PICK u \in DOMAIN users : \E roles \in {{"user"}, {"user", "admin"}} :
          Receive(r, b, q1(u)) \/ Receive(r, b, q2(u, roles))
    BY <1>13 DEF SendAdmin
  <2>2. PICK held \in {{"user"}, {"user", "admin"}} :
          Receive(r, b, q1(u)) \/ Receive(r, b, q2(u, held))
    BY <2>1
  <2>3. /\ DOMAIN q1(u) = ReqFields /\ q1(u).pc = "query" /\ q1(u).kind = "adminDelete"
        /\ q1(u).account = u
        /\ DOMAIN q2(u, held) = ReqFields /\ q2(u, held).pc = "query"
        /\ q2(u, held).kind = "adminUpdate" /\ q2(u, held).account = u /\ q2(u, held).arg = held
    BY DEF Unused, ReqFields
  <2>4. u \in Ids
    BY UsersFit
  <2> HIDE DEF q1, q2
  <2> QED BY <1>2, <2>2, <2>3, <2>4
<1> QED BY <1>1, <1>3, <1>4, <1>5, <1>6, <1>7, <1>8, <1>9, <1>10, <1>11, <1>12, <1>13 DEF Send

LEMMA TypeGo ==
  ASSUME WriteInv, TypeInv, NEW r \in Requests, NEW pc, NEW fields, NEW n,
         Go(r, pc, fields), n = Merge(fields, [reqs[r] EXCEPT !.pc = pc]), ReqFits(n),
         UNCHANGED <<users, gone, session, page, mailed, expired>>
  PROVE  TypeInv'
<1>1. reqs' = [reqs EXCEPT ![r] = n]
  BY DEF Go
<1>2. session' \in [Browsers -> Ids \cup {None}] /\ \A b \in Browsers : page'[b] \in {page[b], None}
  BY DEF TypeInv, TypeOK
<1> QED BY <1>1, <1>2, TypeSame

LEMMA TypeGoSave ==
  ASSUME WriteInv, TypeInv, NEW r \in Requests, NEW fields, NEW u \in DOMAIN users,
         Go(r, "save", fields),
         DOMAIN fields \subseteq {"account", "doc", "changes", "token"},
         {"doc", "changes"} \subseteq DOMAIN fields, fields.doc = users[u],
         \/ "account" \in DOMAIN fields /\ fields.account = u
         \/ "account" \notin DOMAIN fields /\ reqs[r].account = u,
         ChangesFit(fields.changes),
         UNCHANGED <<users, gone, session, page, mailed, expired>>
  PROVE  TypeInv'
<1> DEFINE n == Merge(fields, [reqs[r] EXCEPT !.pc = "save"])
<1>1. n.pc = "save" /\ n.doc = users[u] /\ n.changes = fields.changes /\ n.account = u
  BY GoSaveFields
<1> HIDE DEF n
<1>2. ReqFits(n)
  BY <1>1, UsersFit DEF ReqFits
<1> QED BY <1>2, TypeGo DEF n

LEMMA TypeGoAnswer ==
  ASSUME WriteInv, TypeInv, NEW r \in Requests, NEW u \in DOMAIN users,
         Go(r, "answer", [account |-> u, doc |-> users[u]]),
         UNCHANGED <<users, gone, session, page, mailed, expired>>
  PROVE  TypeInv'
<1> DEFINE fields == [account |-> u, doc |-> users[u]]
           n == Merge(fields, [reqs[r] EXCEPT !.pc = "answer"])
<1>1. DOMAIN fields = {"account", "doc"} /\ fields.doc = users[u] /\ fields.account = u
  OBVIOUS
<1>2. n.pc = "answer" /\ n.doc = users[u] /\ n.account = u
  <2> HIDE DEF fields
  <2>1. "pc" \notin DOMAIN fields
    BY <1>1
  <2>2. n.pc = "answer"
    BY <2>1, GoFacts
  <2>3. n["doc"] = users[u] /\ n["account"] = u
    BY <1>1, <2>1, GoFacts DEF ReqFields
  <2> QED BY <2>2, <2>3
<1> HIDE DEF n, fields
<1>3. ReqFits(n)
  BY <1>2, UsersFit DEF ReqFits
<1> QED BY <1>3, TypeGo DEF n, fields

LEMMA TypeCall ==
  ASSUME WriteInv, TokenInv, TypeInv, NEW r \in Requests,
         \/ Signin(r) \/ Forgot(r) \/ SendMail(r) \/ Reset(r) \/ ChangePassword(r)
         \/ OauthSignin(r) \/ FindUniqueUsername(r) \/ Upload(r) \/ AdminLoad(r)
         \/ QueryFails(r) \/ NameFails(r) \/ UploadFails(r) \/ SaveFails(r) \/ LoginFails(r)
  PROVE  TypeInv'
<1>0. UNCHANGED <<users, gone, session, page, expired>> /\ (SendMail(r) \/ UNCHANGED mailed)
  BY DEF Signin, Forgot, SendMail, Reset, ChangePassword, OauthSignin, FindUniqueUsername,
         Upload, AdminLoad, QueryFails, NameFails, UploadFails, SaveFails, LoginFails
<1>00. ReqFits(reqs[r]) /\ r \in Tokens
  BY RequestNumbers DEF TypeInv
<1>1. CASE Close(r)
  <2>1. mailed' \subseteq Tokens
    <3>1. CASE SendMail(r)
      <4>1. reqs[r].pc = "mail" /\ mailed' \in {mailed, mailed \cup {reqs[r].token}}
        BY <3>1 DEF SendMail
      <4>2. reqs[r].token = r
        BY <4>1 DEF TokenInv, TokenOK
      <4> QED BY <1>00, <4>1, <4>2 DEF TypeInv, TypeOK
    <3> QED BY <1>0, <3>1 DEF TypeInv, TypeOK
  <2>2. TypeOK'
    BY <1>0, <2>1 DEF TypeInv, TypeOK
  <2>3. reqs' = [reqs EXCEPT ![r] = Answered(reqs[r])]
    BY <1>1 DEF Close
  <2>4. \A b \in Browsers : page'[b] # None => Fits(page'[b])
    BY <1>0 DEF TypeInv
  <2> QED BY <2>2, <2>3, <2>4, AnsweredFits, TypeStep
<1>2. CASE Signin(r) /\ ~Close(r)
  BY <1>2, TypeGoAnswer DEF Signin
<1>3. CASE Forgot(r) /\ ~Close(r)
  <2>1. UNCHANGED <<users, gone, session, page, mailed, expired>>
    BY <1>3 DEF Forgot
  <2>2. PICK u \in DOMAIN users :
          Go(r, "save", [account |-> u, doc |-> users[u], token |-> r, changes |-> [token |-> r]])
    BY <1>3 DEF Forgot
  <2> DEFINE c == [token |-> r]
             fields == [account |-> u, doc |-> users[u], token |-> r, changes |-> c]
  <2>3. DOMAIN c = {"token"} /\ c["token"] = r
    OBVIOUS
  <2> HIDE DEF c
  <2>4. ChangesFit(c)
    BY <1>00, <2>3, FieldTypeFacts DEF ChangesFit, DocFields
  <2>5. /\ DOMAIN fields = {"account", "doc", "changes", "token"}
        /\ fields.doc = users[u] /\ fields.account = u /\ fields.changes = c
    OBVIOUS
  <2>6. Go(r, "save", fields)
    BY <2>2 DEF c
  <2> HIDE DEF fields
  <2> QED BY <2>1, <2>4, <2>5, <2>6, TypeGoSave
<1>4. CASE Reset(r) /\ ~Close(r)
  <2>1. UNCHANGED <<users, gone, session, page, mailed, expired>>
    BY <1>4 DEF Reset
  <2>2. PICK u \in DOMAIN users :
          Go(r, "save", [account |-> u, doc |-> users[u], changes |-> NewPassword(r)])
    BY <1>4 DEF Reset, WithToken
  <2> DEFINE c == NewPassword(r)
             fields == [account |-> u, doc |-> users[u], changes |-> c]
  <2>3. DOMAIN c = {"password", "token"} /\ c["token"] = None /\ c["password"] = Plain(r)
    BY DEF NewPassword
  <2> HIDE DEF c
  <2>4. ChangesFit(c)
    BY <1>00, <2>3, FieldTypeFacts DEF ChangesFit, DocFields
  <2>5. /\ DOMAIN fields = {"account", "doc", "changes"}
        /\ fields.doc = users[u] /\ fields.account = u /\ fields.changes = c
    OBVIOUS
  <2>6. Go(r, "save", fields)
    BY <2>2 DEF c
  <2> HIDE DEF fields
  <2> QED BY <2>1, <2>4, <2>5, <2>6, TypeGoSave
<1>5. CASE ChangePassword(r) /\ ~Close(r)
  <2> DEFINE u == reqs[r].account
             c == [password |-> Plain(r)]
             fields == [doc |-> users[u], changes |-> c]
  <2>1. /\ u \in DOMAIN users /\ Go(r, "save", fields)
        /\ UNCHANGED <<users, gone, session, page, mailed, expired>>
    BY <1>5 DEF ChangePassword
  <2>2. DOMAIN c = {"password"} /\ c["password"] = Plain(r)
    OBVIOUS
  <2> HIDE DEF c
  <2>3. ChangesFit(c)
    BY <1>00, <2>2, FieldTypeFacts DEF ChangesFit, DocFields
  <2>4. DOMAIN fields = {"doc", "changes"} /\ fields.doc = users[u] /\ fields.changes = c
    OBVIOUS
  <2> HIDE DEF fields
  <2> QED BY <2>1, <2>3, <2>4, TypeGoSave
<1>6. CASE OauthSignin(r) /\ ~Close(r)
  <2>0. /\ reqs[r].pc = "query" /\ reqs[r].kind = "oauth"
        /\ UNCHANGED <<users, gone, session, page, mailed, expired>>
    BY <1>6 DEF OauthSignin
  <2>1. CASE \E u \in WithIdentity(reqs[r].arg.identity) :
               Go(r, "answer", [account |-> u, doc |-> users[u]])
    BY <2>0, <2>1, TypeGoAnswer DEF WithIdentity
  <2>2. CASE Go(r, "name", <<>>)
    <3> DEFINE n == Merge(<<>>, [reqs[r] EXCEPT !.pc = "name"])
    <3>1. DOMAIN <<>> = {}
      OBVIOUS
    <3>2. /\ n.pc = "name" /\ n.account = reqs[r].account /\ n.arg = reqs[r].arg
          /\ n.kind = reqs[r].kind
      BY <3>1, GoFacts DEF ReqFields
    <3> HIDE DEF n
    <3>3. ReqFits(n)
      BY <1>00, <2>0, <3>2 DEF ReqFits
    <3> QED BY <2>0, <2>2, <3>3, TypeGo DEF n
  <2> QED BY <1>6, <2>1, <2>2 DEF OauthSignin
<1>7. CASE FindUniqueUsername(r)
  <2> DEFINE i == reqs[r].arg.identity
             next == [reqs[r].arg EXCEPT !.suffix = @ + 1]
             again == [arg |-> next]
             m == Merge(again, [reqs[r] EXCEPT !.pc = "name"])
             name == <<PossibleUsername(ProviderUserProfile(i)), reqs[r].arg.suffix>>
             c == NewUser(r, i, name)
             fields == [changes |-> c]
             n == Merge(fields, [reqs[r] EXCEPT !.pc = "save"])
  <2>0. /\ reqs[r].pc = "name"
        /\ UNCHANGED <<users, gone, session, page, mailed, expired>>
        /\ Go(r, "name", again) \/ Go(r, "save", fields)
    BY <1>7 DEF FindUniqueUsername
  <2>1. reqs[r].kind = "oauth" /\ reqs[r].account = None
    BY <2>0 DEF TokenInv, TokenOK, WriteInv, ReqsInv, ReqOK
  <2>2. reqs[r].arg \in [identity : Profiled, suffix : Nat]
    BY <1>00, <2>0, <2>1 DEF ReqFits
  <2>3. next \in [identity : Profiled, suffix : Nat] /\ i \in Profiled /\ reqs[r].arg.suffix \in Nat
    BY <2>2
  <2>4. CASE Go(r, "name", again)
    <3> HIDE DEF next
    <3>1. DOMAIN again = {"arg"} /\ again.arg = next
      OBVIOUS
    <3>2. m.pc = "name" /\ m.account = None /\ m.arg = next /\ m.kind = "oauth"
      <4> HIDE DEF again
      <4> QED BY <2>1, <3>1, GoFacts DEF ReqFields
    <3> HIDE DEF m
    <3>3. ReqFits(m)
      BY <2>3, <3>2 DEF ReqFits
    <3> QED BY <2>0, <2>4, <3>3, TypeGo DEF m
  <2>5. CASE Go(r, "save", fields)
    <3>1. name \in Usernames /\ ProviderUserProfile(i).email \in Addresses
          /\ ProviderOf(i) \in Providers /\ i \in Identities
      BY <2>3, Passes
    <3> HIDE DEF name, i
    <3>2. /\ DOMAIN c = DocFields /\ c.provider = ProviderOf(i) /\ c.identity = i
          /\ c.username = name /\ c.email = ProviderUserProfile(i).email
          /\ c.password = None /\ c.token = None /\ c.profile = r /\ c.picture = r
          /\ c.linked = NoLinks /\ c.roles = {"user"}
      BY DEF NewUser, NewAccount, DocFields
    <3> HIDE DEF c
    <3>3. ChangesFit(c)
      BY <1>00, <3>1, <3>2, NewAccountFits
    <3>4. DOMAIN fields = {"changes"} /\ fields.changes = c
      OBVIOUS
    <3>5. n.pc = "save" /\ n.account = None /\ n.changes = c
      <4> HIDE DEF fields
      <4> QED BY <2>1, <3>4, GoFacts DEF ReqFields
    <3> HIDE DEF n
    <3>6. ReqFits(n)
      BY <3>3, <3>5 DEF ReqFits
    <3> HIDE DEF fields
    <3> QED BY <2>0, <2>5, <3>6, TypeGo DEF n
  <2> QED BY <2>0, <2>4, <2>5
<1>8. CASE AdminLoad(r) /\ ~Close(r)
  <2> DEFINE u == reqs[r].account
             c == [profile |-> r, roles |-> reqs[r].arg]
             fields == [doc |-> users[u], changes |-> c]
             gets == [doc |-> users[u]]
             n == Merge(gets, [reqs[r] EXCEPT !.pc = "remove"])
  <2>0. /\ reqs[r].pc = "query" /\ u \in DOMAIN users
        /\ UNCHANGED <<users, gone, session, page, mailed, expired>>
        /\ Go(r, "remove", gets) \/ (reqs[r].kind = "adminUpdate" /\ Go(r, "save", fields))
    BY <1>8 DEF AdminLoad
  <2>1. CASE Go(r, "remove", gets)
    <3>1. DOMAIN gets = {"doc"}
      OBVIOUS
    <3>2. n.pc = "remove" /\ n.account = u
      <4> HIDE DEF gets
      <4> QED BY <3>1, GoFacts DEF ReqFields
    <3> HIDE DEF n
    <3>3. ReqFits(n)
      BY <2>0, <3>2, UserFacts, UsersFit DEF ReqFits
    <3> QED BY <2>0, <2>1, <3>3, TypeGo DEF n
  <2>2. CASE reqs[r].kind = "adminUpdate" /\ Go(r, "save", fields)
    <3>1. reqs[r].arg \in {{"user"}, {"user", "admin"}}
      BY <1>00, <2>0, <2>2 DEF ReqFits
    <3>2. DOMAIN c = {"profile", "roles"} /\ c["profile"] = r /\ c["roles"] = reqs[r].arg
      OBVIOUS
    <3> HIDE DEF c
    <3>3. ChangesFit(c)
      BY <1>00, <3>1, <3>2, FieldTypeFacts DEF ChangesFit, DocFields
    <3>4. DOMAIN fields = {"doc", "changes"} /\ fields.doc = users[u] /\ fields.changes = c
      OBVIOUS
    <3> HIDE DEF fields
    <3> QED BY <2>0, <2>2, <3>3, <3>4, TypeGoSave
  <2> QED BY <2>0, <2>1, <2>2
<1>9. CASE SendMail(r) \/ QueryFails(r) \/ UploadFails(r) \/ SaveFails(r) \/ LoginFails(r)
  BY <1>1, <1>9 DEF SendMail, QueryFails, UploadFails, SaveFails, LoginFails
<1>10. CASE NameFails(r)
  <2> DEFINE c == NewUser(r, reqs[r].arg.identity, NoName)
             fields == [changes |-> c]
             n == Merge(fields, [reqs[r] EXCEPT !.pc = "save"])
  <2>1. /\ reqs[r].pc = "name" /\ Go(r, "save", fields)
        /\ UNCHANGED <<users, gone, session, page, mailed, expired>>
    BY <1>10 DEF NameFails
  <2>2. reqs[r].account = None
    BY <2>1 DEF WriteInv, ReqsInv, ReqOK
  <2>3. c.username = NoName
    BY DEF NewUser, NewAccount
  <2> HIDE DEF c
  <2>4. DOMAIN fields = {"changes"} /\ fields.changes = c
    OBVIOUS
  <2>5. n.pc = "save" /\ n.account = None /\ n.changes = c
    <3> HIDE DEF fields
    <3> QED BY <2>2, <2>4, GoFacts DEF ReqFields
  <2> HIDE DEF n
  <2>6. ReqFits(n)
    BY <2>3, <2>5 DEF ReqFits
  <2> QED BY <2>1, <2>6, TypeGo DEF n
<1>11. CASE Upload(r)
  <2> DEFINE c == [picture |-> r]
             fields == [changes |-> c]
             n == Merge(fields, [reqs[r] EXCEPT !.pc = "save"])
  <2>1. /\ reqs[r].pc = "upload" /\ Go(r, "save", fields)
        /\ UNCHANGED <<users, gone, session, page, mailed, expired>>
    BY <1>11 DEF Upload
  <2>2. DOMAIN c = {"picture"} /\ c["picture"] = r
    OBVIOUS
  <2> HIDE DEF c
  <2>3. ChangesFit(c)
    BY <1>00, <2>2, FieldTypeFacts DEF ChangesFit, DocFields
  <2>4. DOMAIN fields = {"changes"} /\ fields.changes = c
    OBVIOUS
  <2>5. /\ n.pc = "save" /\ n.account = reqs[r].account /\ n.doc = reqs[r].doc
        /\ n.changes = c
    <3> HIDE DEF fields
    <3>1. n.pc = "save" /\ n.changes = c
      BY <2>4, GoFacts DEF ReqFields
    <3>2. n.account = reqs[r].account
      BY <2>4, GoFacts DEF ReqFields
    <3>3. n.doc = reqs[r].doc
      BY <2>4, GoFacts DEF ReqFields
    <3> QED BY <3>1, <3>2, <3>3
  <2> HIDE DEF n
  <2>6. ReqFits(n)
    BY <1>00, <2>1, <2>3, <2>5 DEF ReqFits
  <2> QED BY <2>1, <2>6, TypeGo DEF n
<1> QED BY <1>1, <1>2, <1>3, <1>4, <1>5, <1>6, <1>7, <1>8, <1>9, <1>10, <1>11

(* The requests under way are lost with the process.                       *)
LEMMA TypeThrow ==
  ASSUME TypeInv, NEW r \in Requests, Throw(r)
  PROVE  TypeInv'
<1>1. UNCHANGED <<users, gone, session, page, mailed, expired>>
  BY DEF Throw
<1>2. \A s \in Requests : reqs'[s] \in {reqs[s], Lost(reqs[s])}
  BY DEF Throw
<1>3. ASSUME NEW q PROVE ReqFits(Lost(q))
  <2>1. Lost(q).pc = "lost" /\ Lost(q).account = None
    BY DEF Lost, Answered, Unused
  <2> QED BY <2>1 DEF ReqFits
<1>4. \A s \in Requests : ReqFits(reqs'[s])
  BY <1>2, <1>3 DEF TypeInv
<1>5. \A s \in Requests : ReqFits(reqs[s])'
  BY <1>4 DEF ReqFits, Fits, ChangesFit
<1> QED BY <1>1, <1>5 DEF TypeInv, TypeOK, Fits

(* The document of a request is one: it has the fields and their types.    *)
LEMMA DocumentFits ==
  ASSUME TokenInv, TypeInv, NEW r \in Requests, reqs[r].pc \in {"save", "answer"},
         reqs[r].account # None
  PROVE  /\ Fits(reqs[r].doc) /\ DOMAIN reqs[r].doc = DocFields
         /\ reqs[r].doc.id = reqs[r].account /\ reqs[r].account \in Ids
BY DEF TokenInv, TokenOK, TypeInv, ReqFits

LEMMA TypeDelete ==
  ASSUME WriteInv, TypeInv, NEW r \in Requests, AdminDelete(r)
  PROVE  TypeInv'
<1> DEFINE u == reqs[r].account
<1>1. /\ DOMAIN users' \subseteq DOMAIN users /\ gone' = gone \cup {u}
      /\ \A v \in DOMAIN users' : users'[v] = users[v]
      /\ UNCHANGED <<session, page, mailed, expired>> /\ Close(r)
  BY DEF AdminDelete
<1>2. u \in Ids
  BY DEF AdminDelete, TypeInv, ReqFits
<1>3. TypeOK'
  BY <1>1, <1>2 DEF TypeInv, TypeOK
<1>4. \A b \in Browsers : page'[b] # None => Fits(page'[b])
  BY <1>1 DEF TypeInv
<1> QED BY <1>1, <1>3, <1>4, AnsweredFits, TypeStep DEF Close

LEMMA TypeAnswer ==
  ASSUME WriteInv, TokenInv, TypeInv, NEW r \in Requests, Answer(r)
  PROVE  TypeInv'
<1> DEFINE q == reqs[r]
           v == View(q.doc, JsonFields)
<1>1. /\ Close(r) /\ UNCHANGED <<users, gone, mailed, expired>> /\ q.pc = "answer"
      /\ session' \in {session, [session EXCEPT ![q.browser] = q.account]}
      /\ page' \in {page, [page EXCEPT ![q.browser] = v]}
  BY DEF Answer
<1>2. q.account # None
  BY <1>1 DEF TokenInv, TokenOK
<1>3. Fits(v) /\ q.account \in Ids
  BY <1>1, <1>2, DocumentFits, ViewFits DEF JsonFields, DocFields
<1> HIDE DEF v, q
<1>4. TypeOK'
  BY <1>1, <1>3 DEF TypeInv, TypeOK
<1>5. \A b \in Browsers : page'[b] # None => Fits(page'[b])
  BY <1>1, <1>3 DEF TypeInv, WriteInv, PagesInv
<1> QED BY <1>1, <1>4, <1>5, AnsweredFits, TypeStep DEF Close

LEMMA TypeLoad ==
  ASSUME WriteInv, TypeInv, NEW b \in Browsers, LoadPage(b)
  PROVE  TypeInv'
<1> DEFINE v == View(SignedIn(b), PageFields)
<1>1. UNCHANGED <<users, gone, session, reqs, mailed, expired>> /\ page' = [page EXCEPT ![b] = v]
  BY DEF LoadPage
<1>2. SignedIn(b).id \in DOMAIN users /\ SignedIn(b) = users[SignedIn(b).id]
      /\ DOMAIN SignedIn(b) = DocFields
  BY SignedInFacts DEF LoadPage
<1>3. Fits(v)
  <2>1. Fits(SignedIn(b))
    BY <1>2, UsersFit
  <2> QED BY <1>2, <2>1, ViewFits DEF PageFields, DocFields
<1> HIDE DEF v
<1>4. \A c \in Browsers : page'[c] # None => Fits(page'[c])
  BY <1>1, <1>3 DEF TypeInv, WriteInv, PagesInv
<1>5. \A c \in Browsers : (page[c] # None => Fits(page[c]))'
  BY <1>4 DEF Fits
<1>6. TypeOK' /\ \A s \in Requests : ReqFits(reqs[s])'
  BY <1>1 DEF TypeInv, TypeOK, ReqFits, Fits, ChangesFit
<1> QED BY <1>5, <1>6 DEF TypeInv

LEMMA TypeSave ==
  ASSUME WriteInv, TokenInv, TypeInv, NEW r \in Requests, Save(r)
  PROVE  TypeInv'
<1> DEFINE q == reqs[r]
           p == reqs'[r]
           stored == PreSave(q.changes)
<1>1. /\ reqs' = [reqs EXCEPT ![r] = p] /\ UNCHANGED <<page, mailed>>
      /\ q.pc = "save" /\ p.pc \in {"mail", "answer"}
      /\ (q.account = None /\ SavedNew(q, p)) \/ SavedOld(q, p)
  BY SavedRequest
<1>2. UNCHANGED <<gone, session, expired>>
  BY DEF Save
<1>3. \A f \in DOMAIN stored : f \in DocFields /\ (f # "id" => stored[f] \in FieldType[f])
  <2>1. ASSUME q.account = None PROVE q.changes["username"] # NoName
    <3>1. stored.username # NoName
      BY <2>1 DEF Save, Refused
    <3>2. "username" \in DOMAIN q.changes
      BY <1>1, <2>1 DEF WriteInv, ReqsInv, ReqOK, DocFields
    <3> QED BY <3>1, <3>2, PreSaveFacts
  <2>2. ChangesFit(q.changes)
    BY <1>1, <2>1 DEF TypeInv, ReqFits
  <2> QED BY <2>2, PreSaveFits
<1>4. \A u \in DOMAIN users : users[u] \in Account /\ users[u].id = u /\ u \in Ids
  BY UsersFit
<1>5. CASE q.account = None /\ SavedNew(q, p)
  <2>1. PICK u \in Ids \ (DOMAIN users \cup gone) :
          /\ p.account = u /\ DOMAIN p.doc = DocFields /\ p.doc.id = u
          /\ p.doc = [stored EXCEPT !.id = u]
          /\ users' = [v \in DOMAIN users \cup {u} |-> IF v = u THEN p.doc ELSE users[v]]
    BY <1>5 DEF SavedNew
  <2>2. DOMAIN stored = DocFields
    BY <1>1, <1>5, PreSaveFacts DEF WriteInv, ReqsInv, ReqOK
  <2> HIDE DEF stored, p, q
  <2>3. p.doc = [f \in DocFields |-> IF f = "id" THEN u ELSE stored[f]]
    BY <2>1, <2>2
  <2>4. p.doc = [f \in DocFields |-> p.doc[f]] /\ Fits(p.doc)
    BY <1>3, <2>2, <2>3, FieldTypeFacts DEF Fits
  <2>5. p.doc \in Account
    BY <2>4, FitsAccount
  <2>6. DOMAIN users' \subseteq Ids /\ \A v \in DOMAIN users' : users'[v] \in Account /\ users'[v].id = v
    BY <1>4, <2>1, <2>5
  <2>7. TypeOK'
    BY <1>1, <1>2, <2>6 DEF TypeInv, TypeOK
  <2>8. ReqFits(p)
    BY <1>1, <2>1, <2>4 DEF ReqFits
  <2>9. \A b \in Browsers : page'[b] # None => Fits(page'[b])
    BY <1>1 DEF TypeInv
  <2> QED BY <1>1, <2>7, <2>8, <2>9, TypeStep
<1>6. CASE SavedOld(q, p)
  <2> DEFINE a == q.account
  <2>1. /\ a # None /\ p.account = a /\ "id" \notin DOMAIN q.changes
        /\ p.doc = Merge(stored, q.doc)
        /\ users' = [v \in DOMAIN users |-> IF v = a THEN Merge(stored, users[v]) ELSE users[v]]
    BY <1>6 DEF SavedOld, Updated
  <2>2. Fits(q.doc) /\ a \in Ids
    BY <1>1, <2>1, DocumentFits
  <2>3. "id" \notin DOMAIN stored
    BY <2>1, PreSaveFacts
  <2> HIDE DEF p
  <2>4. Fits(p.doc)
    <3> HIDE DEF stored
    <3> QED BY <1>3, <2>1, <2>2, <2>3, MergeFits
  <2>5. ASSUME NEW v \in DOMAIN users
        PROVE  Merge(stored, users[v]) \in Account /\ Merge(stored, users[v]).id = v
    <3> DEFINE d == users[v]
               m == Merge(stored, d)
    <3>1. Fits(d) /\ DOMAIN d = DocFields /\ d.id = v
      BY AccountFacts, UsersFit
    <3>2. m.id = v
      BY <2>1, <3>1, MergedToken
    <3> HIDE DEF d, stored
    <3>3. Fits(m) /\ m = [f \in DocFields |-> m[f]]
      BY <1>3, <2>3, <3>1, MergeFits
    <3> HIDE DEF m
    <3>4. m \in Account
      BY <3>3, FitsAccount
    <3> QED BY <3>2, <3>4 DEF m, d
  <2> HIDE DEF stored, q
  <2>6. DOMAIN users' \subseteq Ids /\ \A v \in DOMAIN users' : users'[v] \in Account /\ users'[v].id = v
    BY <1>4, <2>1, <2>5
  <2>7. TypeOK'
    BY <1>1, <1>2, <2>6 DEF TypeInv, TypeOK
  <2>8. ReqFits(p)
    BY <1>1, <2>1, <2>2, <2>4 DEF ReqFits
  <2>9. \A b \in Browsers : page'[b] # None => Fits(page'[b])
    BY <1>1 DEF TypeInv
  <2> QED BY <1>1, <2>7, <2>8, <2>9, TypeStep
<1> QED BY <1>1, <1>5, <1>6

LEMMA TypeInit == Init => TypeInv
<1> SUFFICES ASSUME Init PROVE TypeInv
  OBVIOUS
<1>1. \A s \in Requests : ReqFits(reqs[s])
  <2>1. ReqFits(Unused)
    BY DEF Unused, ReqFits
  <2> QED BY <2>1 DEF Init
<1>2. \A u \in DOMAIN users : users[u] \in Account /\ users[u].id = u /\ u \in Ids
  BY AccountsAssumption, DocumentsAssumption DEF Init
<1>3. TypeOK
  <2>1. session \in [Browsers -> Ids \cup {None}]
    BY AccountsAssumption DEF Init
  <2>2. mailed \subseteq Tokens
    BY AccountsAssumption DEF Init, Tokens
  <2> QED BY <1>2, <2>1, <2>2 DEF TypeOK, Init
<1>4. ASSUME NEW b \in Browsers, page[b] # None PROVE Fits(page[b])
  <2>1. session[b] \in DOMAIN users /\ page[b] = View(users[session[b]], JsonFields)
    BY <1>4, AccountsAssumption DEF Init
  <2>2. Fits(users[session[b]]) /\ DOMAIN users[session[b]] = DocFields
    BY <1>2, <2>1, AccountFits, AccountFacts
  <2> QED BY <2>1, <2>2, ViewFits DEF JsonFields, DocFields
<1> QED BY <1>1, <1>3, <1>4 DEF TypeInv

LEMMA TypesStep == WriteInv /\ TokenInv /\ TypeInv /\ [Next]_vars => TypeInv'
<1> SUFFICES ASSUME WriteInv, TokenInv, TypeInv, [Next]_vars PROVE TypeInv'
  OBVIOUS
<1>1. ASSUME NEW r \in Requests, NEW b \in Browsers, Send(r, b) PROVE TypeInv'
  BY <1>1, TypeSend
<1>2. ASSUME NEW r \in Requests, Return(r) \/ Fail(r) PROVE TypeInv'
  BY <1>2, TypeCall, TypeDelete, TypeSave, TypeAnswer, TypeThrow DEF Return, Fail, SaveRefused
<1>3. ASSUME NEW b \in Browsers, LoadPage(b) PROVE TypeInv'
  BY <1>3, TypeLoad
<1>4. CASE (\E t \in Tokens : Expire(t)) \/ UNCHANGED vars
  <2>1. UNCHANGED <<users, gone, session, page, reqs, mailed>> /\ expired' \subseteq Tokens
    BY <1>4 DEF Expire, vars, TypeInv, TypeOK
  <2> QED BY <2>1 DEF TypeInv, TypeOK, ReqFits, Fits, ChangesFit
<1> QED BY <1>1, <1>2, <1>3, <1>4 DEF Next

(* Every document in the collection fits the schema under its own id, and  *)
(* its password is hashed exactly once: what is read in one call, changed  *)
(* by a form or a page and saved by another never puts a hash of a hash,   *)
(* or a password as it was typed, into the collection.                     *)
THEOREM TypeCorrect == Spec => []TypeOK
<1>1. Spec => []TypeInv
  BY WriteInit, WriteStep, TokenInit, TokenStep, TypeInit, TypesStep, PTL DEF Spec
<1>2. TypeInv => TypeOK
  BY DEF TypeInv
<1> QED BY <1>1, <1>2, PTL
=============================================================================
