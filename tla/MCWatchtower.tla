------------------------------ MODULE MCWatchtower ------------------------------
(***************************************************************************)
(* Command lines and links for small hosts.                                *)
(***************************************************************************)
EXTENDS Watchtower

CONSTANTS db, api, web, img, img2, img3

Options(names, noRestart, cleanup) ==
  [names |-> names, noPull |-> FALSE, noRestart |-> noRestart, cleanup |-> cleanup]

(* A chain web -> api -> db, forks in both directions, and a circle.       *)
ChainLinks ==
  {[x \in Container |-> CASE x = api -> <<db>> [] x = web -> <<api>> [] OTHER -> <<>>],
   [x \in Container |-> IF x \in {web, db} THEN <<api>> ELSE <<>>],
   [x \in Container |-> IF x = web THEN <<db, api>> ELSE <<>>],
   [x \in Container |-> CASE x = db -> <<api>> [] x = api -> <<db>> [] OTHER -> <<>>]}
NoLinks == {[x \in Container |-> <<>>]}
(* db and web are made from one image.                                     *)
SharedImage == [x \in App |-> IF x = api THEN img2 ELSE img]
OneImageEach == [x \in App |-> CASE x = db -> img [] x = api -> img2 [] x = web -> img3]

All == {Options({}, FALSE, FALSE)}
Various == All \cup {Options({}, FALSE, TRUE), Options({db}, FALSE, FALSE), Options({}, TRUE, TRUE)}
CleanOrNot == {Options({}, FALSE, cl) : cl \in BOOLEAN}
================================================================================
