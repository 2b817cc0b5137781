----------------------------- MODULE MCAccounts -----------------------------
(***************************************************************************)
(* Accounts with a user who has a reset link in her mail, an administrator *)
(* and two OAuth profiles: one of a person with the user's name, one       *)
(* without an e-mail address.                                              *)
(***************************************************************************)
EXTENDS Accounts, TLC

CONSTANTS ann, root, fresh, fb, tw, b1, b2

MCProfile ==
  (fb :> [provider |-> "facebook", username |-> None, address |-> "ann@facebook",
          person |-> "asmith"]) @@
  (tw :> [provider |-> "twitter", username |-> "bob", address |-> None, person |-> "bjones"])
MCLocalPart == [a \in {"ann@facebook", "ann@mail", "root@mail"} |->
                  IF a = "root@mail" THEN "root" ELSE "ann"]

MCEdits == {[email |-> "ann@mail"], [email |-> "ann@facebook"]}

MCInitialUsers ==
  (ann  :> [NewAccount EXCEPT !.id = ann, !.username = <<"ann", 0>>, !.email = "ann@mail",
                              !.password = Hash(Plain(0)), !.token = 0]) @@
  (root :> [NewAccount EXCEPT !.id = root, !.username = <<"root", 0>>, !.email = "root@mail",
                              !.password = Hash(Plain(0)), !.roles = {"user", "admin"}])

(* Two requests of any kind, and a reset.                                  *)
AllRoutes == {"signup", "signin", "signout", "forgot", "validate", "reset", "change",
              "oauth", "remove", "update", "picture", "adminUpdate", "adminDelete"}
MCRoutes == <<AllRoutes, AllRoutes, {"reset"}>>

MCInitialSessions == {(b1 :> s) @@ (b2 :> root) : s \in {ann, None}}
=============================================================================
