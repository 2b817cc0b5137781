------------------------------- MODULE Startup -------------------------------
(***************************************************************************)
(* The start of the MEAN.JS server and the seeding of its database         *)
(* (clefos/meanjs/files/config): configuration, models, the connection to  *)
(* MongoDB, express; and the promises of seed.js, which go on while the    *)
(* server connects and then answers its first requests.  The process may   *)
(* end at any time and is started again, with a database that remembers.   *)
(***************************************************************************)
EXTENDS Naturals, Sequences

CONSTANTS
  Names,         \* user names, those of the seeds among them
  Emails,        \* e-mail addresses
  SeedUser, SeedAdmin,  \* the two seeds: [username, email]
  NodeEnvs,      \* what NODE_ENV may be set to
  Environments,  \* the environments that have a file in config/env
  InitialUsers,  \* the accounts the database may hold at first
  MaxStarts,     \* bound: the times the process is started
  MaxRequests,   \* bound: the requests that change accounts
  None

ASSUME StartupAssumption ==
  /\ \A s \in {SeedUser, SeedAdmin} : s.username \in Names /\ s.email \in Emails
  /\ SeedUser.username # SeedAdmin.username
  /\ {"development", "production"} \subseteq Environments
  /\ MaxStarts \in Nat /\ MaxRequests \in Nat

VARIABLES
  users,      \* from the user names of the accounts to their address and password
  nodeEnv,    \* NODE_ENV of the process, as it was set
  env,        \* the environment it has been configured for, or None
  pc,         \* how far the start has come
  seeding,    \* seed.start(): the step it is at, and the seeds it has to do
  announced,  \* the passwords the log has announced, by user name
  changed,    \* the passwords of accounts that a request has since changed,
              \* renamed or deleted
  starts, requests

vars == <<users, nodeEnv, env, pc, seeding, announced, changed, starts, requests>>

NoSeeding == [pc |-> "off", todo |-> <<>>]
Forgotten == [n \in Names |-> None]

Mail(n) == users[n].email
Own(n)  == <<0, n>>        \* a password its user has chosen

(* The unique indexes of the model.                                        *)
Taken(username, email) ==
  username \in DOMAIN users \/ \E n \in DOMAIN users : Mail(n) = email

WithUser(username, email, password) ==
  [n \in DOMAIN users \cup {username} |->
     IF n = username THEN [email |-> email, password |-> password] ELSE users[n]]

WithoutUser(username) == [n \in DOMAIN users \ {username} |-> users[n]]

(***************************************************************************)
(* The process                                                             *)
(***************************************************************************)

(* The process is started, with the NODE_ENV of its container or its shell.*)
Start ==
  /\ pc = "down" /\ starts < MaxStarts
  /\ starts' = starts + 1
  /\ pc' = "config"
  /\ nodeEnv' \in IF nodeEnv = None THEN NodeEnvs ELSE {nodeEnv}
  /\ UNCHANGED <<users, env, seeding, announced, changed, requests>>

(* validateEnvironmentVariable: development unless there is a file for the *)
(* environment.                                                            *)
Environment(name) == IF name \in Environments THEN name ELSE "development"

(* The seeds of a start: in production the admin only.                     *)
Seeds(environment) ==
  IF environment = "production" THEN <<SeedAdmin>> ELSE <<SeedUser, SeedAdmin>>

(* When the models have been loaded, seedDB starts the seeding if it is    *)
(* configured.  Outside production it will announce new passwords.         *)
SeedDB ==
  \/ /\ seeding' = [pc |-> "passphrase", todo |-> Seeds(env')]
     /\ announced' = IF env' = "production" THEN announced ELSE Forgotten
  \/ UNCHANGED <<seeding, announced>>

(* config.js, then app.js.                                                 *)
Configure ==
  /\ pc = "config"
  /\ env' = Environment(nodeEnv)
  /\ pc' = "connecting"
  /\ SeedDB
  /\ UNCHANGED <<users, nodeEnv, changed, starts, requests>>

(* mongoose.connect succeeds: express is set up and listens.               *)
Listen ==
  /\ pc = "connecting"
  /\ pc' = "listening"
  /\ UNCHANGED <<users, nodeEnv, env, seeding, announced, changed, starts, requests>>

(* The connection fails, which is logged; nothing keeps the process then.  *)
(* It may also end at any other time.                                      *)
Exit ==
  /\ pc # "down"
  /\ pc' = "down"
  /\ seeding' = NoSeeding
  /\ env' = None
  /\ UNCHANGED <<users, nodeEnv, announced, changed, starts, requests>>

(***************************************************************************)
(* Seeding.  mongoose keeps what the models ask for until it is connected, *)
(* so that every step but the first waits for that.                        *)
(***************************************************************************)

Seed == Head(seeding.todo)
SeedStep(next) == seeding' = [seeding EXCEPT !.pc = next]
Password == <<starts, Seed.username>>

(* generateRandomPassphrase: none is found to be weak only by accident.    *)
Passphrase ==
  /\ seeding.pc = "passphrase"
  /\ \/ SeedStep("clear") \/ SeedStep("failed")
  /\ UNCHANGED <<users, nodeEnv, env, pc, announced, changed, starts, requests>>

(* Mutant: the environment is not looked at.                               *)
AlwaysReplaces == TRUE

(* seedTheUser replaces an account of that name, except for the admin in   *)
(* production.                                                             *)
Replaces == ~(Seed.username = SeedAdmin.username /\ env = "production")

(* Mutant: the promise is settled only if there was an account to remove.  *)
RemoveUserFound ==
  /\ seeding.pc = "clear" /\ pc = "listening"
  /\ Replaces /\ Seed.username \in DOMAIN users
  /\ SeedStep("save") /\ users' = WithoutUser(Seed.username)
  /\ UNCHANGED <<nodeEnv, env, pc, announced, changed, starts, requests>>

RemoveUser ==
  /\ seeding.pc = "clear" /\ pc = "listening"
  /\ Replaces
  /\ \/ SeedStep("save") /\ users' = WithoutUser(Seed.username)
     \/ SeedStep("failed") /\ UNCHANGED users
  /\ UNCHANGED <<nodeEnv, env, pc, announced, changed, starts, requests>>

CheckUserNotExists ==
  /\ seeding.pc = "clear" /\ pc = "listening"
  /\ ~Replaces
  /\ \/ Seed.username \notin DOMAIN users /\ SeedStep("save")
     \/ SeedStep("failed")
  /\ UNCHANGED <<users, nodeEnv, env, pc, announced, changed, starts, requests>>

(* Mutant: the error of the save is not looked at.                         *)
SaveUserAnyway ==
  /\ seeding.pc = "save"
  /\ users' = IF Taken(Seed.username, Seed.email) THEN users
              ELSE WithUser(Seed.username, Seed.email, Password)
  /\ SeedStep("report")
  /\ UNCHANGED <<nodeEnv, env, pc, announced, changed, starts, requests>>

(* saveUser: the account is in the database before its callback runs; the  *)
(* seeds after one that fails are not tried.                               *)
SaveUser ==
  /\ seeding.pc = "save"
  /\ \/ /\ ~Taken(Seed.username, Seed.email)
        /\ users' = WithUser(Seed.username, Seed.email, Password)
        /\ SeedStep("report")
     \/ SeedStep("failed") /\ UNCHANGED users
  /\ UNCHANGED <<nodeEnv, env, pc, announced, changed, starts, requests>>

(* reportSuccess: the log has the user's name and the password, whatever   *)
(* has become of the account meanwhile; then comes the next seed.          *)
ReportSuccess ==
  /\ seeding.pc = "report"
  /\ announced' = [announced EXCEPT ![Seed.username] = Password]
  /\ seeding' = [pc |-> IF Len(seeding.todo) > 1 THEN "passphrase" ELSE "done",
                 todo |-> Tail(seeding.todo)]
  /\ UNCHANGED <<users, nodeEnv, env, pc, changed, starts, requests>>

(***************************************************************************)
(* Requests                                                                *)
(***************************************************************************)
Request == /\ pc = "listening" /\ requests < MaxRequests
           /\ requests' = requests + 1
           /\ UNCHANGED <<nodeEnv, env, pc, seeding, announced, starts>>

Outdate(username) == changed' = changed \cup {users[username].password}

Signup(username, email) ==
  /\ Request
  /\ ~Taken(username, email)
  /\ users' = WithUser(username, email, Own(username))
  /\ UNCHANGED changed

ChangePassword(username) ==
  /\ Request
  /\ username \in DOMAIN users
  /\ users' = [users EXCEPT ![username].password = Own(username)]
  /\ Outdate(username)

(* The profile form: another name or address, unless somebody has it.      *)
EditProfile(username, to, email) ==
  /\ Request
  /\ username \in DOMAIN users
  /\ to \notin DOMAIN users \ {username}
  /\ \A n \in DOMAIN users \ {username} : Mail(n) # email
  /\ users' = [n \in (DOMAIN users \ {username}) \cup {to} |->
       IF n = to THEN [users[username] EXCEPT !.email = email] ELSE users[n]]
  /\ IF to = username THEN UNCHANGED changed ELSE Outdate(username)

DeleteUser(username) ==
  /\ Request
  /\ username \in DOMAIN users
  /\ users' = WithoutUser(username)
  /\ Outdate(username)

(***************************************************************************)
(* The specification                                                       *)
(***************************************************************************)
Init ==
  /\ users \in InitialUsers
  /\ nodeEnv = None /\ env = None
  /\ pc = "down"
  /\ seeding = NoSeeding
  /\ announced = Forgotten /\ changed = {}
  /\ starts = 0 /\ requests = 0

SeedingStep == Passphrase \/ RemoveUser \/ CheckUserNotExists \/ SaveUser \/ ReportSuccess

Next ==
  \/ Start \/ Configure \/ Listen \/ Exit
  \/ SeedingStep
  \/ \E n \in Names : \/ ChangePassword(n) \/ DeleteUser(n)
                      \/ \E e \in Emails : \/ Signup(n, e)
                                           \/ \E m \in Names : EditProfile(n, m, e)

(* mongoose.connect calls back with a connection or an error.              *)
ConnectReturns == pc = "connecting" /\ (Listen \/ Exit)

(* The event loop goes on as long as the process does.                     *)
Spec == /\ Init /\ [][Next]_vars
        /\ WF_vars(Configure) /\ WF_vars(ConnectReturns) /\ WF_vars(SeedingStep)

(***************************************************************************)
(* Properties                                                              *)
(***************************************************************************)

(* Seeding takes away or changes no account but one with the name of the   *)
(* seed it is at, and in production none at all, however sign-ups come     *)
(* between its steps and wherever the process ended before (seed.js:76).   *)
SeedsReplaceThemselves ==
  [][SeedingStep /\ users' # users => \A n \in DOMAIN users :
       \/ n \in DOMAIN users' /\ users'[n] = users[n]
       \/ n = Seed.username /\ env # "production"]_vars

(* The password the log has announced for a seed is the one to sign in     *)
(* with, unless since it was saved the account has changed it, has changed *)
(* its name or was deleted, or a start outside production announces        *)
(* others; in production also after the process has ended and was started  *)
(* again, as the password is to be copied and saved (README.md:128,        *)
(* seed.js:57).                                                            *)
AnnouncedPasswordWorks ==
  \A n \in Names : announced[n] \notin {None} \cup changed =>
    n \in DOMAIN users /\ users[n].password = announced[n]

(* Seeding comes to an end: every promise of the chain is settled, and an  *)
(* error anywhere ends the chain (seed.js:99 and 153).                     *)
SeedingEnds == seeding.pc = "passphrase" ~> seeding.pc \in {"done", "failed", "off"}

(* README.md:122 of MEAN.JS says of the seeds: "If one of the user already *)
(* exists, it will display an error message on the console."  Outside      *)
(* production the code removes the account and makes another (seed.js:87). *)
ExistingUsersAreKept ==
  [][SeedingStep => \A n \in DOMAIN users : n \in DOMAIN users' /\ users'[n] = users[n]]_vars
=============================================================================
