---------------------------- MODULE Startup_proof ----------------------------
(***************************************************************************)
(* Proofs about Startup, for any accounts in the database, any number of   *)
(* starts of the process and any sign-ups between its steps: what seeding  *)
(* does to accounts, and what the passwords it announces are good for.     *)
(***************************************************************************)
EXTENDS Startup, TLAPS

(* The promises are at one of the seeds.                                   *)
Seeding == seeding.pc \in {"passphrase", "clear", "save", "report"}

SeedLists == {<<SeedUser, SeedAdmin>>, <<SeedAdmin>>}

(* The seeds that are still to be done: the admin alone in production, and *)
(* elsewhere none whose password has been announced.                       *)
TodoInv ==
  /\ Seeding => seeding.todo \in SeedLists
  /\ Seeding /\ env = "production" => seeding.todo = <<SeedAdmin>>
  /\ Seeding /\ env # "production" =>
       \A i \in DOMAIN seeding.todo : announced[seeding.todo[i].username] = None

(* A password that is about to be announced works, or has been changed.    *)
ReportInv ==
  seeding.pc = "report" =>
    \/ Password \in changed
    \/ Seed.username \in DOMAIN users /\ users[Seed.username].password = Password

(* There is no seeding before the process has been configured.             *)
IInv ==
  /\ DOMAIN seeding = {"pc", "todo"} /\ seeding = [pc |-> seeding.pc, todo |-> seeding.todo]
  /\ pc \in {"down", "config"} => seeding.pc = "off"
  /\ announced = [n \in Names |-> announced[n]]
  /\ TodoInv
  /\ ReportInv
  /\ AnnouncedPasswordWorks

-----------------------------------------------------------------------------
LEMMA SeedFacts ==
  ASSUME TodoInv, Seeding
  PROVE  /\ Seed \in {SeedUser, SeedAdmin} /\ Seed.username \in Names
         /\ env = "production" => ~Replaces
         /\ env # "production" => announced[Seed.username] = None
         /\ Len(seeding.todo) > 1 =>
              /\ seeding.todo = <<SeedUser, SeedAdmin>> /\ Tail(seeding.todo) = <<SeedAdmin>>
              /\ Seed = SeedUser /\ env # "production"
<1>1. seeding.todo \in SeedLists
  BY DEF TodoInv
<1>2. CASE seeding.todo = <<SeedAdmin>>
  BY <1>2, StartupAssumption DEF TodoInv, Seed, Replaces
<1>3. CASE seeding.todo = <<SeedUser, SeedAdmin>>
  <2>1. env # "production"
    <3>1. <<SeedUser, SeedAdmin>> # <<SeedAdmin>>
      <4>1. Len(<<SeedUser, SeedAdmin>>) = 2 /\ Len(<<SeedAdmin>>) = 1
        OBVIOUS
      <4> QED BY <4>1
    <3> QED BY <1>3, <3>1 DEF TodoInv
  <2>2. Seed = SeedUser /\ Tail(seeding.todo) = <<SeedAdmin>> /\ Len(seeding.todo) = 2
        /\ 1 \in DOMAIN seeding.todo /\ seeding.todo[1] = SeedUser
    BY <1>3 DEF Seed
  <2> QED BY <1>3, <2>1, <2>2, StartupAssumption DEF TodoInv
<1> QED BY <1>1, <1>2, <1>3 DEF SeedLists

(* The step of a seed changes the accounts of other names only by adding.  *)
LEMMA SeedingFacts ==
  ASSUME TodoInv, SeedingStep
  PROVE  /\ Seeding
         /\ \A n \in DOMAIN users :
              \/ n \in DOMAIN users' /\ users'[n] = users[n]
              \/ n = Seed.username /\ env # "production"
<1>1. CASE Passphrase \/ CheckUserNotExists \/ ReportSuccess
  BY <1>1 DEF Passphrase, CheckUserNotExists, ReportSuccess, Seeding
<1>2. CASE RemoveUser
  <2>1. Seeding /\ Replaces
    BY <1>2 DEF RemoveUser, Seeding
  <2>2. env # "production"
    BY <2>1, SeedFacts
  <2> QED BY <1>2, <2>1, <2>2 DEF RemoveUser, WithoutUser
<1>3. CASE SaveUser
  <2>1. Seeding
    BY <1>3 DEF SaveUser, Seeding
  <2>2. CASE UNCHANGED users
    BY <2>1, <2>2
  <2>3. CASE /\ Seed.username \notin DOMAIN users
             /\ users' = WithUser(Seed.username, Seed.email, Password)
    BY <2>1, <2>3 DEF WithUser
  <2> QED BY <1>3, <2>2, <2>3 DEF SaveUser, Taken
<1> QED BY <1>1, <1>2, <1>3 DEF SeedingStep

LEMMA InitInv == Init => IInv
  BY DEF Init, IInv, TodoInv, ReportInv, Seeding, NoSeeding, Forgotten, AnnouncedPasswordWorks

(* The step of a seed to another state leaves what it has to do.           *)
LEMMA SeedStepInv ==
  ASSUME IInv, NEW next \in {"clear", "save", "report", "failed"}, Seeding, SeedStep(next),
         UNCHANGED <<env, pc, announced, changed, starts>>, AnnouncedPasswordWorks',
         next = "report" =>
           Seed.username \in DOMAIN users' /\ users'[Seed.username].password = Password
  PROVE  IInv'
<1>1. seeding' = [pc |-> next, todo |-> seeding.todo]
  BY DEF IInv, SeedStep
<1>2. seeding'.pc = next /\ seeding'.todo = seeding.todo
  BY <1>1
<1>3. TodoInv'
  BY <1>2 DEF IInv, TodoInv, Seeding
<1>4. pc \notin {"down", "config"}
  BY DEF IInv, Seeding
<1>5. ReportInv'
  BY <1>2 DEF ReportInv, Seed, Password
<1> QED BY <1>1, <1>2, <1>3, <1>4, <1>5 DEF IInv

LEMMA AnnouncedNames == IInv => DOMAIN announced = Names
<1> SUFFICES ASSUME IInv PROVE DOMAIN announced = Names
  OBVIOUS
<1> DEFINE a == announced
<1>1. a = [m \in Names |-> a[m]] => DOMAIN a = Names
  OBVIOUS
<1> QED BY <1>1 DEF IInv

(* The log announces what has been saved.                                  *)
LEMMA ReportSuccessInv ==
  ASSUME IInv, ReportSuccess
  PROVE  IInv'
<1>1. /\ TodoInv /\ ReportInv /\ AnnouncedPasswordWorks /\ Seeding
      /\ pc \notin {"down", "config"} /\ seeding.pc = "report"
  BY DEF IInv, ReportSuccess, Seeding
<1>2. /\ Seed \in {SeedUser, SeedAdmin} /\ Seed.username \in Names
      /\ Len(seeding.todo) > 1 =>
           /\ seeding.todo = <<SeedUser, SeedAdmin>> /\ Tail(seeding.todo) = <<SeedAdmin>>
           /\ Seed = SeedUser /\ env # "production"
  BY <1>1, SeedFacts
<1>3. /\ announced' = [announced EXCEPT ![Seed.username] = Password]
      /\ announced' = [n \in Names |-> announced'[n]]
      /\ announced'[Seed.username] = Password
      /\ \A n \in Names : n # Seed.username => announced'[n] = announced[n]
  BY <1>2, AnnouncedNames DEF ReportSuccess
<1>4. /\ DOMAIN seeding' = {"pc", "todo"}
      /\ seeding' = [pc |-> seeding'.pc, todo |-> seeding'.todo]
      /\ seeding'.pc \in {"passphrase", "done"}
      /\ seeding'.pc = "passphrase" => Len(seeding.todo) > 1 /\ seeding'.todo = Tail(seeding.todo)
  BY DEF ReportSuccess
<1>5. UNCHANGED <<users, env, pc, changed>>
  BY DEF ReportSuccess
<1>6. AnnouncedPasswordWorks'
  <2> SUFFICES ASSUME NEW n \in Names, announced'[n] \notin {None} \cup changed
               PROVE  n \in DOMAIN users /\ users[n].password = announced'[n]
    BY <1>5 DEF AnnouncedPasswordWorks
  <2>1. CASE n = Seed.username
    BY <1>1, <1>3, <2>1 DEF ReportInv
  <2>2. CASE n # Seed.username
    BY <1>1, <1>3, <2>2 DEF AnnouncedPasswordWorks
  <2> QED BY <2>1, <2>2
<1>7. TodoInv'
  <2>1. ASSUME seeding'.pc = "passphrase"
        PROVE  /\ seeding'.todo = <<SeedAdmin>> /\ env # "production"
               /\ \A i \in DOMAIN seeding'.todo : announced'[seeding'.todo[i].username] = None
    <3>1. /\ seeding.todo = <<SeedUser, SeedAdmin>> /\ seeding'.todo = <<SeedAdmin>>
          /\ Seed = SeedUser /\ env # "production"
      BY <1>2, <1>4, <2>1
    <3>2. 2 \in DOMAIN seeding.todo /\ seeding.todo[2] = SeedAdmin
      BY <3>1
    <3>3. announced[SeedAdmin.username] = None
      BY <1>1, <3>1, <3>2 DEF TodoInv
    <3>4. announced'[SeedAdmin.username] = None
      BY <1>3, <3>1, <3>3, StartupAssumption
    <3>5. \A i \in DOMAIN <<SeedAdmin>> : <<SeedAdmin>>[i] = SeedAdmin
      OBVIOUS
    <3> QED BY <3>1, <3>4, <3>5
  <2> QED BY <1>4, <1>5, <2>1 DEF TodoInv, Seeding, SeedLists
<1>8. ReportInv'
  BY <1>4 DEF ReportInv
<1> QED BY <1>1, <1>3, <1>4, <1>5, <1>6, <1>7, <1>8 DEF IInv

LEMMA SeedingInv ==
  ASSUME IInv, SeedingStep
  PROVE  IInv'
<1>1. TodoInv /\ AnnouncedPasswordWorks /\ Seeding
  BY SeedingFacts DEF IInv
<1>2. /\ Seed.username \in Names
      /\ env = "production" => ~Replaces
      /\ env # "production" => announced[Seed.username] = None
  BY <1>1, SeedFacts
<1>3. CASE Passphrase \/ CheckUserNotExists
  <2>1. UNCHANGED <<users, env, pc, announced, changed, starts>>
    BY <1>3 DEF Passphrase, CheckUserNotExists
  <2>2. AnnouncedPasswordWorks'
    BY <1>1, <2>1 DEF AnnouncedPasswordWorks
  <2>3. PICK next \in {"clear", "save", "failed"} : SeedStep(next)
    BY <1>3 DEF Passphrase, CheckUserNotExists
  <2> QED BY <1>1, <2>1, <2>2, <2>3, SeedStepInv
<1>4. CASE RemoveUser
  <2>1. UNCHANGED <<env, pc, announced, changed, starts>> /\ Replaces
    BY <1>4 DEF RemoveUser
  <2>2. announced[Seed.username] = None
    BY <1>2, <2>1
  <2>3. users' = users \/ users' = WithoutUser(Seed.username)
    BY <1>4 DEF RemoveUser
  <2>4. AnnouncedPasswordWorks'
    BY <1>1, <2>1, <2>2, <2>3 DEF AnnouncedPasswordWorks, WithoutUser
  <2>5. PICK next \in {"clear", "save", "failed"} : SeedStep(next)
    BY <1>4 DEF RemoveUser
  <2> QED BY <1>1, <2>1, <2>4, <2>5, SeedStepInv
<1>5. CASE SaveUser
  <2>1. UNCHANGED <<env, pc, announced, changed, starts>>
    BY <1>5 DEF SaveUser
  <2>2. CASE SeedStep("failed") /\ UNCHANGED users
    <3>1. AnnouncedPasswordWorks'
      BY <1>1, <2>1, <2>2 DEF AnnouncedPasswordWorks
    <3> QED BY <1>1, <2>1, <2>2, <3>1, SeedStepInv
  <2>3. CASE /\ ~Taken(Seed.username, Seed.email) /\ SeedStep("report")
             /\ users' = WithUser(Seed.username, Seed.email, Password)
    <3>1. /\ Seed.username \in DOMAIN users' /\ users'[Seed.username].password = Password
          /\ Seed.username \notin DOMAIN users
          /\ \A n \in DOMAIN users : n \in DOMAIN users' /\ users'[n] = users[n]
      BY <2>3 DEF WithUser, Taken
    <3>2. AnnouncedPasswordWorks'
      BY <1>1, <2>1, <3>1 DEF AnnouncedPasswordWorks
    <3> QED BY <1>1, <2>1, <2>3, <3>1, <3>2, SeedStepInv
  <2> QED BY <1>5, <2>2, <2>3 DEF SaveUser
<1>6. CASE ReportSuccess
  BY <1>6, ReportSuccessInv
<1> QED BY <1>3, <1>4, <1>5, <1>6 DEF SeedingStep

(* The requests: a password that no longer works after one is recorded as  *)
(* changed.                                                                *)
LEMMA RequestInv ==
  ASSUME IInv, NEW n \in Names,
         \/ ChangePassword(n) \/ DeleteUser(n)
         \/ \E e \in Emails : Signup(n, e) \/ \E m \in Names : EditProfile(n, m, e)
  PROVE  IInv'
<1>1. UNCHANGED <<env, pc, seeding, announced, starts>>
  BY DEF ChangePassword, DeleteUser, Signup, EditProfile, Request
<1>2. TodoInv /\ ReportInv /\ AnnouncedPasswordWorks
  BY DEF IInv
<1>3. /\ changed \subseteq changed'
      /\ \A m \in DOMAIN users :
           \/ users[m].password \in changed'
           \/ m \in DOMAIN users' /\ users'[m].password = users[m].password
  <2>1. CASE \E e \in Emails : Signup(n, e)
    BY <2>1 DEF Signup, Taken, WithUser
  <2>2. CASE ChangePassword(n)
    BY <2>2 DEF ChangePassword, Outdate
  <2>3. CASE DeleteUser(n)
    BY <2>3 DEF DeleteUser, WithoutUser, Outdate
  <2>4. CASE \E e \in Emails, m \in Names : EditProfile(n, m, e)
    <3>1. PICK e \in Emails, m \in Names : EditProfile(n, m, e)
      BY <2>4
    <3> DEFINE edited == [users[n] EXCEPT !.email = e]
    <3>2. edited.password = users[n].password
      OBVIOUS
    <3>3. /\ DOMAIN users' = (DOMAIN users \ {n}) \cup {m}
          /\ users'[m] = edited
          /\ \A l \in DOMAIN users \ {n, m} : users'[l] = users[l]
          /\ m \notin DOMAIN users \ {n} /\ n \in DOMAIN users
      BY <3>1 DEF EditProfile
    <3>4. (m = n /\ changed' = changed) \/ changed' = changed \cup {users[n].password}
      BY <3>1 DEF EditProfile, Outdate
    <3> HIDE DEF edited
    <3> QED BY <3>2, <3>3, <3>4
  <2> QED BY <2>1, <2>2, <2>3, <2>4
<1>4. AnnouncedPasswordWorks'
  BY <1>1, <1>2, <1>3 DEF AnnouncedPasswordWorks
<1>5. ReportInv'
  BY <1>1, <1>2, <1>3 DEF ReportInv, Seed, Password
<1>6. TodoInv'
  BY <1>1, <1>2 DEF TodoInv, Seeding
<1> QED BY <1>1, <1>4, <1>5, <1>6 DEF IInv

LEMMA StepInv == IInv /\ [Next]_vars => IInv'
<1> SUFFICES ASSUME IInv, [Next]_vars PROVE IInv'
  OBVIOUS
<1>1. CASE Start
  BY <1>1 DEF Start, IInv, TodoInv, ReportInv, Seeding, AnnouncedPasswordWorks
<1>2. CASE Configure
  <2>1. seeding.pc = "off" /\ UNCHANGED <<users, changed>> /\ pc' = "connecting"
    BY <1>2 DEF Configure, IInv
  <2>2. CASE UNCHANGED <<seeding, announced>>
    BY <2>1, <2>2 DEF IInv, TodoInv, ReportInv, Seeding, AnnouncedPasswordWorks
  <2>3. CASE /\ seeding' = [pc |-> "passphrase", todo |-> Seeds(env')]
             /\ announced' = IF env' = "production" THEN announced ELSE Forgotten
    <3>1. seeding'.todo = Seeds(env') /\ seeding'.pc = "passphrase"
      BY <2>3
    <3>2. TodoInv'
      <4>1. ASSUME NEW todo \in SeedLists, NEW i \in DOMAIN todo
            PROVE  todo[i].username \in Names
        BY StartupAssumption DEF SeedLists
      <4>2. Seeds(env') \in SeedLists
        BY DEF Seeds, SeedLists
      <4> QED BY <2>3, <3>1, <4>1, <4>2 DEF TodoInv, Seeding, Seeds, Forgotten
    <3>3. AnnouncedPasswordWorks' /\ announced' = [n \in Names |-> announced'[n]]
      BY <2>1, <2>3 DEF IInv, AnnouncedPasswordWorks, Forgotten
    <3> QED BY <2>1, <2>3, <3>1, <3>2, <3>3 DEF IInv, ReportInv
  <2> QED BY <1>2, <2>2, <2>3 DEF Configure, SeedDB
<1>3. CASE Listen
  BY <1>3 DEF Listen, IInv, TodoInv, ReportInv, Seed, Password, Seeding, AnnouncedPasswordWorks
<1>4. CASE Exit
  BY <1>4 DEF Exit, NoSeeding, IInv, TodoInv, ReportInv, Seeding, AnnouncedPasswordWorks
<1>5. CASE SeedingStep
  BY <1>5, SeedingInv
<1>6. CASE UNCHANGED vars
  BY <1>6 DEF vars, IInv, TodoInv, ReportInv, Seed, Password, Seeding, AnnouncedPasswordWorks
<1> QED BY <1>1, <1>2, <1>3, <1>4, <1>5, <1>6, RequestInv DEF Next

LEMMA Inductive == Spec => []IInv
  BY InitInv, StepInv, PTL DEF Spec

(* A password the log has announced works until the account is changed,    *)
(* whatever was in the database and however often the process starts.      *)
THEOREM AnnouncedPasswordWorksHolds == Spec => []AnnouncedPasswordWorks
  BY Inductive, PTL DEF IInv

(* Seeding touches no account but that of the seed, in production none.    *)
THEOREM SeedsReplaceThemselvesHolds == Spec => SeedsReplaceThemselves
<1> DEFINE Replaced == SeedingStep /\ users' # users => \A n \in DOMAIN users :
       \/ n \in DOMAIN users' /\ users'[n] = users[n]
       \/ n = Seed.username /\ env # "production"
<1>1. IInv /\ [Next]_vars => [Replaced]_vars
  BY SeedingFacts DEF IInv
<1>2. (Spec => [][Replaced]_vars) <=> (Spec => SeedsReplaceThemselves)
  BY DEF SeedsReplaceThemselves
<1> QED BY <1>1, <1>2, Inductive, PTL DEF Spec
=============================================================================
