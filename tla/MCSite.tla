------------------------------- MODULE MCSite -------------------------------
(***************************************************************************)
(* Two users, one of them an admin, and an article of hers; two tabs of    *)
(* one browser, in which the other is signed in at first, or nobody.       *)
(***************************************************************************)
EXTENDS Site, TLC

CONSTANTS alice, root, b1, t1, t2, a1, a2

MCInitialRoles == alice :> {"user"} @@ root :> {"user", "admin"}
MCInitialAuthors == a1 :> root
MCBrowserOf == t1 :> b1 @@ t2 :> b1
MCInitialSessions == {b1 :> alice, b1 :> None}
MCVisited == {"chat", "settings.accounts", "authentication.signin",
              "articles.create", "articles.edit"}
MCTabs == Permutations({t1, t2})
=============================================================================
