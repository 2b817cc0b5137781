------------------------------ MODULE MCStartup ------------------------------
(***************************************************************************)
(* The seeds and a visitor, who may take a name or an address of theirs;   *)
(* an empty database, or one in which the visitor is the admin.            *)
(***************************************************************************)
EXTENDS Startup, TLC

MCNames == {"user", "admin", "eve"}
MCEmails == {"user@localhost", "admin@localhost", "eve@home"}
MCSeedUser == [username |-> "user", email |-> "user@localhost"]
MCSeedAdmin == [username |-> "admin", email |-> "admin@localhost"]
MCNodeEnvs == {"production", "test", "staging"}
MCEnvironments == {"production", "test", "development", "cloud-foundry"}
MCInitialUsers == {[n \in {} |-> n],
                   "admin" :> [email |-> "eve@home", password |-> Own("admin")]}
=============================================================================
