------------------------- MODULE ContainerClient_proof -------------------------
(***************************************************************************)
(* The safety of the replacement of one container, for any number of       *)
(* networks and of failing calls.  All of it follows from who may have the *)
(* name at each call of the client, and from what it did before.           *)
(***************************************************************************)
EXTENDS ContainerClient, TLAPS

Calls == {"kill", "await_exit", "remove", "await_removal", "create",
          "disconnect", "connect", "start", "started", "start_failed"}

(* The part of the type that the arguments below use. *)
Places ==
  /\ slot \in Slots
  /\ pc \in Calls
  /\ outcome \in {"none", "nil", "error"}

Counts ==
  /\ networks \in 0 .. MaxNetworks
  /\ attached \in 0 .. MaxNetworks
  /\ faults \in 0 .. MaxFaults

Flags ==
  /\ autoRemove \in AutoRemoves
  /\ hostMode \in BOOLEAN
  /\ expired \in BOOLEAN

(* How far the networks of the new container are. *)
Attaching ==
  /\ pc = "disconnect" => networks > 0
  /\ pc = "connect" => attached < networks

(* The new container has the name only after its creation. *)
OldBeforeNew ==
  /\ pc \in {"kill", "await_exit", "remove", "await_removal", "create"} =>
       slot.who # "new"
  /\ pc \in {"disconnect", "connect", "start"} => slot = New("created")

(* What ContainerRemove returned without error for is gone. *)
GoneOnceRemoved == pc = "await_removal" /\ ~autoRemove => slot.who # "old"

(* As long as no call failed by itself the client meets what it expects,   *)
(* but for a container that had exited before the kill.                    *)
AsExpected ==
  faults = 0 /\ ~autoRemove =>
    /\ pc \in {"kill", "await_exit", "remove"} => slot.who = "old"
    /\ pc = "create" => slot \in {Free, Old("exited")}
    /\ pc = "start_failed" => slot = Old("exited")

(* The removal of a running container comes after the grace. *)
GraceGiven ==
  pc = "remove" /\ slot = Old("running") => expired \/ faults > 0

ClientInv ==
  /\ Attaching
  /\ OldBeforeNew
  /\ GoneOnceRemoved
  /\ AsExpected
  /\ GraceGiven
  /\ StopNilMeansGone
  /\ StartedOnAllNetworks
--------------------------------------------------------------------------------
(* Each step keeps the types.  Connect adds a network only as long as one  *)
(* is missing, by Attaching.                                               *)
LEMMA TypeStep ==
  ASSUME Places, Counts, Flags, Attaching, [Next]_vars
  PROVE  (Places /\ Counts /\ Flags /\ Attaching)'
<1> USE BoundsAssumption DEF Calls, Slots, Free, Old, New, OldIn
<1>1. Flags'
  BY Zenon DEF Flags, Next, Client, Kill, AwaitExit, Remove, AwaitRemoval,
     Create, Disconnect, Connect, Start, Exit, Reap, Expire, Const, vars
<1>2. Places'
  <2> USE DEF Places
  <2>1. CASE Kill
    BY <2>1 DEF Kill, Call, Refused
  <2>2. CASE AwaitExit
    BY <2>2 DEF AwaitExit
  <2>3. CASE Remove
    BY <2>3 DEF Remove, Call, Refused
  <2>4. CASE AwaitRemoval
    BY <2>4 DEF AwaitRemoval
  <2>5. CASE Create
    BY <2>5 DEF Create, Call, Refused
  <2>6. CASE Disconnect
    BY <2>6 DEF Disconnect, Call
  <2>7. CASE Connect
    BY <2>7 DEF Connect, Call
  <2>8. CASE Start
    BY <2>8 DEF Start, Call
  <2>9. CASE Exit
    BY <2>9 DEF Exit
  <2>10. CASE Reap
    BY <2>10 DEF Reap
  <2>11. CASE Expire \/ UNCHANGED vars
    BY <2>11 DEF Expire, vars
  <2> QED
    BY <2>1, <2>2, <2>3, <2>4, <2>5, <2>6, <2>7, <2>8, <2>9, <2>10, <2>11
    DEF Next, Client
<1>3. (Counts /\ Attaching)'
  <2> USE DEF Counts, Attaching
  <2>1. CASE Kill
    BY <2>1 DEF Kill, Call, Refused, Const
  <2>2. CASE AwaitExit
    BY <2>2 DEF AwaitExit, Poll, Const
  <2>3. CASE Remove
    BY <2>3 DEF Remove, Call, Refused, Const
  <2>4. CASE AwaitRemoval
    BY <2>4 DEF AwaitRemoval, Poll, Const
  <2>5. CASE Create
    BY <2>5 DEF Create, Call, Refused, Simple, Const
  <2>6. CASE Disconnect
    BY <2>6 DEF Disconnect, Call, Const
  <2>7. CASE Connect
    BY <2>7 DEF Connect, Call, Const
  <2>8. CASE Start
    BY <2>8 DEF Start, Call, Const
  <2>9. CASE Exit \/ Reap \/ Expire \/ UNCHANGED vars
    BY <2>9 DEF Exit, Reap, Expire, vars, Const
  <2> QED
    BY <2>1, <2>2, <2>3, <2>4, <2>5, <2>6, <2>7, <2>8, <2>9 DEF Next, Client
<1> QED
  BY <1>1, <1>2, <1>3

(* Every field keeps its type, for any number of networks and of failing   *)
(* calls; in particular no network is connected twice.                     *)
THEOREM TypeCorrect == Spec => []TypeOK
<1> DEFINE Typed == Places /\ Counts /\ Flags /\ Attaching
<1>1. Init => Typed
  <2> SUFFICES ASSUME Init PROVE Typed
    OBVIOUS
  <2>1. Flags
    BY Zenon DEF Init, Flags
  <2>2. Places /\ Counts /\ Attaching
    BY BoundsAssumption DEF Init, Places, Counts, Attaching, Calls, Slots, Old
  <2> QED
    BY <2>1, <2>2
<1>2. Typed /\ [Next]_vars => Typed'
  BY TypeStep
<1>3. Typed => TypeOK
  BY Zenon DEF Places, Counts, Flags, TypeOK, Calls
<1> QED
  BY <1>1, <1>2, <1>3, PTL DEF Spec
--------------------------------------------------------------------------------
(* The new container gets the name by Create only; the old one loses it by *)
(* Remove or, with AutoRemove, by Reap.                                    *)
LEMMA NameStep ==
  ASSUME Places, OldBeforeNew, GoneOnceRemoved, [Next]_vars
  PROVE  (OldBeforeNew /\ GoneOnceRemoved)'
<1> USE DEF Places, Calls, Slots, Free, Old, New, OldIn, OldBeforeNew,
            GoneOnceRemoved, Const
<1>1. CASE Kill
  BY <1>1 DEF Kill, Call, Refused
<1>2. CASE AwaitExit
  BY <1>2 DEF AwaitExit
<1>3. CASE Remove
  BY <1>3 DEF Remove, Call, Refused
<1>4. CASE AwaitRemoval
  BY <1>4 DEF AwaitRemoval
<1>5. CASE Create
  BY <1>5 DEF Create, Call, Refused
<1>6. CASE Disconnect \/ Connect \/ Start
  BY <1>6 DEF Disconnect, Connect, Start, Call
<1>7. CASE Exit
  BY <1>7 DEF Exit
<1>8. CASE Reap
  BY <1>8 DEF Reap
<1>9. CASE Expire \/ UNCHANGED vars
  BY <1>9 DEF Expire, vars
<1> QED
  BY <1>1, <1>2, <1>3, <1>4, <1>5, <1>6, <1>7, <1>8, <1>9 DEF Next, Client

(* A call that fails by itself ends the claim, as faults never decreases.  *)
LEMMA ExpectedStep ==
  ASSUME Places, Counts, OldBeforeNew, GoneOnceRemoved, AsExpected,
         [Next]_vars
  PROVE  AsExpected'
<1> USE BoundsAssumption DEF Places, Counts, Calls, Slots, Free, Old, New,
    OldIn, OldBeforeNew, GoneOnceRemoved, AsExpected, Const
<1>1. CASE Kill
  BY <1>1 DEF Kill, Call, Refused
<1>2. CASE AwaitExit
  BY <1>2 DEF AwaitExit, Poll
<1>3. CASE Remove
  BY <1>3 DEF Remove, Call, Refused
<1>4. CASE AwaitRemoval
  BY <1>4 DEF AwaitRemoval, Poll
<1>5. CASE Create
  BY <1>5 DEF Create, Call, Refused
<1>6. CASE Disconnect \/ Connect \/ Start
  BY <1>6 DEF Disconnect, Connect, Start, Call
<1>7. CASE Exit
  BY <1>7 DEF Exit
<1>8. CASE Reap
  BY <1>8 DEF Reap
<1>9. CASE Expire \/ UNCHANGED vars
  BY <1>9 DEF Expire, vars
<1> QED
  BY <1>1, <1>2, <1>3, <1>4, <1>5, <1>6, <1>7, <1>8, <1>9 DEF Next, Client

(* The first wait ends with the container still running only by its timer  *)
(* or by an inspection that fails.                                         *)
LEMMA GraceStep ==
  ASSUME Places, Counts, GraceGiven, [Next]_vars
  PROVE  GraceGiven'
<1> USE BoundsAssumption DEF Places, Counts, Calls, Slots, Free, Old, New,
    OldIn, GraceGiven, Const
<1>1. CASE AwaitExit
  BY <1>1 DEF AwaitExit, Poll
<1>2. CASE Kill \/ Remove \/ Create
  BY <1>2 DEF Kill, Remove, Create, Call, Refused
<1>3. CASE AwaitRemoval
  BY <1>3 DEF AwaitRemoval
<1>4. CASE Disconnect \/ Connect \/ Start
  BY <1>4 DEF Disconnect, Connect, Start, Call
<1>5. CASE Exit \/ Reap \/ Expire \/ UNCHANGED vars
  BY <1>5 DEF Exit, Reap, Expire, vars
<1> QED
  BY <1>1, <1>2, <1>3, <1>4, <1>5 DEF Next, Client

(* The second wait alone makes the outcome nil, when the inspection fails; *)
(* once the old container is gone it stays gone.                           *)
LEMMA NilStep ==
  ASSUME Places, Counts, OldBeforeNew, GoneOnceRemoved, StopNilMeansGone,
         [Next]_vars
  PROVE  StopNilMeansGone'
<1> USE BoundsAssumption DEF Places, Counts, Calls, Slots, Free, Old, New,
    OldIn, OldBeforeNew, GoneOnceRemoved, StopNilMeansGone, Const
<1>1. CASE AwaitRemoval
  BY <1>1 DEF AwaitRemoval, Poll
<1>2. CASE Kill
  BY <1>2 DEF Kill, Call, Refused
<1>3. CASE Remove \/ Create
  BY <1>3 DEF Remove, Create, Call, Refused
<1>4. CASE AwaitExit
  BY <1>4 DEF AwaitExit, Poll
<1>5. CASE Disconnect \/ Connect \/ Start
  BY <1>5 DEF Disconnect, Connect, Start, Call
<1>6. CASE Exit
  BY <1>6 DEF Exit
<1>7. CASE Reap
  BY <1>7 DEF Reap
<1>8. CASE Expire \/ UNCHANGED vars
  BY <1>8 DEF Expire, vars
<1> QED
  BY <1>1, <1>2, <1>3, <1>4, <1>5, <1>6, <1>7, <1>8 DEF Next, Client

(* Only Connect comes to start, and only with the last of the networks;    *)
(* without networks, or with the host's, Create does.                      *)
LEMMA NetworksStep ==
  ASSUME Places, Counts, Attaching, StartedOnAllNetworks, [Next]_vars
  PROVE  StartedOnAllNetworks'
<1> USE BoundsAssumption DEF Places, Counts, Calls, Attaching,
    StartedOnAllNetworks, Const
<1>1. CASE Create
  BY <1>1 DEF Create, Call, Refused, Simple
<1>2. CASE Connect
  BY <1>2 DEF Connect, Call
<1>3. CASE Kill \/ Remove \/ Disconnect
  BY <1>3 DEF Kill, Remove, Disconnect, Call, Refused
<1>4. CASE Start
  BY <1>4 DEF Start, Call
<1>5. CASE AwaitExit \/ AwaitRemoval
  BY <1>5 DEF AwaitExit, AwaitRemoval
<1>6. CASE Exit \/ Reap \/ Expire \/ UNCHANGED vars
  BY <1>6 DEF Exit, Reap, Expire, vars
<1> QED
  BY <1>1, <1>2, <1>3, <1>4, <1>5, <1>6 DEF Next, Client

(* The inductive invariant: who may have the name at each call.            *)
THEOREM ClientInvariant == Spec => [](Places /\ Counts /\ Flags /\ ClientInv)
<1> DEFINE Inv == Places /\ Counts /\ Flags /\ ClientInv
<1>1. Init => Inv
  <2> SUFFICES ASSUME Init PROVE Inv
    OBVIOUS
  <2>1. Flags
    BY Zenon DEF Init, Flags
  <2>2. Places /\ Counts /\ Attaching
    BY BoundsAssumption DEF Init, Places, Counts, Attaching, Calls, Slots, Old
  <2>3. ClientInv
    BY <2>2 DEF Init, ClientInv, OldBeforeNew, GoneOnceRemoved, AsExpected,
       GraceGiven, StopNilMeansGone, StartedOnAllNetworks, Old, New, Free
  <2> QED
    BY <2>1, <2>2, <2>3
<1>2. Inv /\ [Next]_vars => Inv'
  BY TypeStep, NameStep, ExpectedStep, GraceStep, NilStep, NetworksStep
  DEF ClientInv
<1> QED
  BY <1>1, <1>2, PTL DEF Spec
--------------------------------------------------------------------------------
(* When StopContainer returns nil the old container is gone, but for an    *)
(* AutoRemove container with an inspection that failed.                    *)
THEOREM NilMeansGone == Spec => []StopNilMeansGone
<1>1. ClientInv => StopNilMeansGone
  BY DEF ClientInv
<1> QED
  BY <1>1, ClientInvariant, PTL

(* A container without AutoRemove is always replaced if no call fails by   *)
(* itself, unless it had exited before the kill.                           *)
THEOREM FailuresExplained == Spec => []FailureHasCause
<1>1. ClientInv => FailureHasCause
  BY DEF ClientInv, AsExpected, FailureHasCause
<1> QED
  BY <1>1, ClientInvariant, PTL

(* The detour over one network at the creation loses none of them.         *)
THEOREM NoNetworkLost == Spec => []StartedOnAllNetworks
<1>1. ClientInv => StartedOnAllNetworks
  BY DEF ClientInv
<1> QED
  BY <1>1, ClientInvariant, PTL

(* Force is used only after the grace, unless a call failed by itself.     *)
THEOREM GraceFirst == Spec => GraceBeforeForce
<1> DEFINE Forced == slot = Old("running") /\ slot' = Free
           Late == expired \/ faults > 0
<1>1. Places /\ ClientInv /\ [Next]_vars => [Forced => Late]_vars
  <2> SUFFICES ASSUME Places, ClientInv, [Next]_vars, Forced
               PROVE  Late
    OBVIOUS
  <2> USE DEF Places, ClientInv, GraceGiven, Calls, Slots, Free, Old, New, OldIn
  <2>1. CASE Remove
    BY <2>1 DEF Remove
  <2>2. CASE Kill \/ Create \/ Disconnect \/ Connect \/ Start
    BY <2>2 DEF Kill, Create, Disconnect, Connect, Start, Call, Refused
  <2>3. CASE AwaitExit \/ AwaitRemoval
    BY <2>3 DEF AwaitExit, AwaitRemoval
  <2>4. CASE Exit
    BY <2>4 DEF Exit
  <2>5. CASE Reap
    BY <2>5 DEF Reap
  <2>6. CASE Expire \/ UNCHANGED vars
    BY <2>6 DEF Expire, vars
  <2> QED
    BY <2>1, <2>2, <2>3, <2>4, <2>5, <2>6 DEF Next, Client
<1> QED
  BY <1>1, ClientInvariant, PTL DEF Spec, GraceBeforeForce
================================================================================
