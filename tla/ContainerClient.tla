---------------------------- MODULE ContainerClient ----------------------------
(***************************************************************************)
(* What one update of watchtower does to one stale container through the   *)
(* Docker API: client.StopContainer followed, whatever it returned, by     *)
(* client.StartContainer (container/client.go).  Each API call is a step,  *)
(* so that the daemon, the container and the timer of waitForStop can move *)
(* between any two.  The container and its replacement share one name; the *)
(* daemon gives the name to one container at a time.                       *)
(***************************************************************************)
EXTENDS Naturals, Sequences

CONSTANTS
  AutoRemoves,  (* the values HostConfig.AutoRemove may have               *)
  MaxNetworks,  (* how many networks the container may be on               *)
  MaxFaults     (* how many API calls may fail for reasons of their own    *)

ASSUME AutoRemovesAssumption == AutoRemoves \subseteq BOOLEAN
ASSUME BoundsAssumption == MaxNetworks \in Nat /\ MaxFaults \in Nat

VARIABLES
  autoRemove,   (* HostConfig.AutoRemove, constant                         *)
  hostMode,     (* hostConfig.NetworkMode.IsHost(), constant               *)
  networks,     (* how many networks the container is on, constant         *)
  slot,         (* the container that has the name, and its state          *)
  pc,           (* the API call the client makes next, or its result       *)
  attached,     (* how many networks the new container is on               *)
  expired,      (* the timer of the current waitForStop has fired          *)
  outcome,      (* what StopContainer returned                             *)
  faults        (* API calls that failed so far without cause              *)

Const == <<autoRemove, hostMode, networks>>
vars == <<Const, slot, pc, attached, expired, outcome, faults>>

Free == [who |-> "none", state |-> "none"]
Old(s) == [who |-> "old", state |-> s]
New(s) == [who |-> "new", state |-> s]
Slots == {Free, Old("running"), Old("exited"),
          New("created"), New("running"), New("exited")}

Init ==
  /\ autoRemove \in AutoRemoves
  /\ hostMode \in BOOLEAN
  /\ networks \in 0 .. MaxNetworks
  /\ slot = Old("running")
  /\ pc = "kill"
  /\ attached = 0
  /\ expired = FALSE
  /\ outcome = "none"
  /\ faults = 0

--------------------------------------------------------------------------------
(* The daemon and the containers. *)

(* The process of a container ends: it obeyed the signal, or it crashed. *)
Exit ==
  /\ slot.state = "running"
  /\ slot' = [slot EXCEPT !.state = "exited"]
  /\ UNCHANGED <<Const, pc, attached, expired, outcome, faults>>

(* The daemon removes an AutoRemove container some time after its exit. *)
Reap ==
  /\ autoRemove
  /\ slot.state = "exited"
  /\ slot' = Free
  /\ UNCHANGED <<Const, pc, attached, expired, outcome, faults>>

Waits == {"await_exit", "await_removal"}

Expire ==
  /\ pc \in Waits
  /\ ~expired
  /\ expired' = TRUE
  /\ UNCHANGED <<Const, slot, pc, attached, outcome, faults>>
--------------------------------------------------------------------------------
(* The result of an API call: it succeeds with its effect on the container *)
(* and the client goes on at next; or, if something is wrong, it fails     *)
(* without the effect; or its reply is lost after it took effect.  The     *)
(* client cannot tell the last two apart and goes on at onError.           *)
Call(effect, next, onError) ==
  \/ /\ slot' = effect
     /\ pc' = next
     /\ UNCHANGED faults
  \/ /\ faults < MaxFaults
     /\ faults' = faults + 1
     /\ slot' \in {slot, effect}
     /\ pc' = onError

(* A call the daemon refuses has no effect. *)
Refused(onError) ==
  /\ pc' = onError
  /\ UNCHANGED <<slot, faults>>

OldIn(states) == slot.who = "old" /\ slot.state \in states

(* ContainerKill delivers the signal, which by itself changes nothing; the *)
(* daemon refuses it for a container that is not running.                  *)
Kill ==
  /\ pc = "kill"
  /\ IF OldIn({"running"})
       THEN Call(slot, "await_exit", "create")
       ELSE Refused("create")
  /\ expired' = FALSE
  /\ outcome' = IF pc' = "create" THEN "error" ELSE outcome
  /\ UNCHANGED <<Const, attached>>

(* Mutant: the timer is ignored. *)
PollForever(result) ==
  \/ /\ UNCHANGED faults
     /\ result = CASE OldIn({"running"}) -> "again"
                   [] OldIn({"exited"}) -> "nil"
                   [] OTHER -> "error"
  \/ /\ faults < MaxFaults
     /\ faults' = faults + 1
     /\ result = "error"

(* One turn of the loop of waitForStop.  result is "nil" when the timer    *)
(* has fired or the container is found not running, "error" when the       *)
(* inspection fails, and "again" when the container runs.                  *)
Poll(result) ==
  IF expired
    THEN result = "nil" /\ UNCHANGED faults
    ELSE \/ /\ UNCHANGED faults
            /\ result = CASE OldIn({"running"}) -> "again"
                          [] OldIn({"exited"}) -> "nil"
                          [] OTHER -> "error"
         \/ /\ faults < MaxFaults
            /\ faults' = faults + 1
            /\ result = "error"

(* Mutant: the container is not waited for. *)
NoAwaitExit ==
  /\ pc = "await_exit"
  /\ pc' = IF autoRemove THEN "await_removal" ELSE "remove"
  /\ expired' = IF autoRemove THEN FALSE ELSE expired
  /\ UNCHANGED <<Const, slot, attached, outcome, faults>>

(* The first wait: whatever it returns, the container is removed next,     *)
(* except an AutoRemove one, which the daemon is to remove.                *)
AwaitExit ==
  /\ pc = "await_exit"
  /\ \E result \in {"nil", "error"} : Poll(result)
  /\ pc' = IF autoRemove THEN "await_removal" ELSE "remove"
  /\ expired' = IF autoRemove THEN FALSE ELSE expired
  /\ UNCHANGED <<Const, slot, attached, outcome>>

(* Mutant: ContainerRemove without Force. *)
RemoveUnforced ==
  /\ pc = "remove"
  /\ IF OldIn({"exited"})
       THEN Call(Free, "await_removal", "create")
       ELSE Refused("create")
  /\ outcome' = IF pc' = "create" THEN "error" ELSE outcome
  /\ expired' = FALSE
  /\ UNCHANGED <<Const, attached>>

(* ContainerRemove with Force takes a running container, too. *)
Remove ==
  /\ pc = "remove"
  /\ IF OldIn({"running", "exited"})
       THEN Call(Free, "await_removal", "create")
       ELSE Refused("create")
  /\ outcome' = IF pc' = "create" THEN "error" ELSE outcome
  /\ expired' = FALSE
  /\ UNCHANGED <<Const, attached>>

(* Mutant: the result of the second wait is returned as it is. *)
AwaitRemovalPlain ==
  /\ pc = "await_removal"
  /\ \E result \in {"nil", "error"} : Poll(result) /\ outcome' = result
  /\ pc' = "create"
  /\ expired' = FALSE
  /\ UNCHANGED <<Const, slot, attached>>

(* The second wait: an error is good news, nil is "could not be removed". *)
AwaitRemoval ==
  /\ pc = "await_removal"
  /\ \E result \in {"nil", "error"} :
       /\ Poll(result)
       /\ outcome' = IF result = "error" THEN "nil" ELSE "error"
  /\ pc' = "create"
  /\ expired' = FALSE
  /\ UNCHANGED <<Const, slot, attached>>

(* The networks of simpleNetworkConfig: one, if there is any. *)
Simple == IF networks = 0 THEN 0 ELSE 1

(* ContainerCreate attaches the container to that one network.  The name   *)
(* conflicts if a container still has it.                                  *)
Create ==
  /\ pc = "create"
  /\ IF slot = Free
       THEN Call(New("created"),
                 IF hostMode \/ networks = 0 THEN "start" ELSE "disconnect",
                 "start_failed")
       ELSE Refused("start_failed")
  /\ attached' = IF pc' = "start_failed" THEN 0 ELSE Simple
  /\ UNCHANGED <<Const, expired, outcome>>

(* Mutant: the container is started when it is disconnected. *)
DisconnectOnly ==
  /\ pc = "disconnect"
  /\ Call(slot, "start", "start_failed")
  /\ attached' = 0
  /\ UNCHANGED <<Const, expired, outcome>>

(* Mutant: one network too many is connected. *)
ConnectOneMore ==
  /\ pc = "connect"
  /\ Call(slot, IF attached = networks THEN "start" ELSE "connect",
          "start_failed")
  /\ attached' = attached + 1
  /\ UNCHANGED <<Const, expired, outcome>>

(* The one network is disconnected and then all of them are connected. *)
Disconnect ==
  /\ pc = "disconnect"
  /\ Call(slot, "connect", "start_failed")
  /\ attached' = 0
  /\ UNCHANGED <<Const, expired, outcome>>

Connect ==
  /\ pc = "connect"
  /\ Call(slot, IF attached + 1 = networks THEN "start" ELSE "connect",
          "start_failed")
  /\ attached' = attached + 1
  /\ UNCHANGED <<Const, expired, outcome>>

Start ==
  /\ pc = "start"
  /\ Call(New("running"), "started", "start_failed")
  /\ UNCHANGED <<Const, attached, expired, outcome>>

Client ==
  Kill \/ AwaitExit \/ Remove \/ AwaitRemoval \/ Create \/ Disconnect
    \/ Connect \/ Start

Next == Client \/ Exit \/ Reap \/ Expire

(* The client is a running goroutine and timers fire; that calls fail is   *)
(* not what makes it go on.  A container that ignores the signal may never *)
(* exit; one that exited is reaped in time.                                *)
Spec == Init /\ [][Next]_vars
FairSpec ==
  /\ Spec
  /\ WF_vars(Client /\ UNCHANGED faults)
  /\ WF_vars(Expire)
  /\ WF_vars(Reap)
--------------------------------------------------------------------------------
(* Every field keeps its type. *)
TypeOK ==
  /\ autoRemove \in AutoRemoves
  /\ hostMode \in BOOLEAN
  /\ networks \in 0 .. MaxNetworks
  /\ slot \in Slots
  /\ pc \in {"kill", "await_exit", "remove", "await_removal", "create",
            "disconnect", "connect", "start", "started", "start_failed"}
  /\ attached \in 0 .. MaxNetworks
  /\ expired \in BOOLEAN
  /\ outcome \in {"none", "nil", "error"}
  /\ faults \in 0 .. MaxFaults

(* StopContainer returns nil only when the old container is gone and its   *)
(* name is free.  For an AutoRemove container this also takes an inspect   *)
(* call that does not fail by itself, because any error of the second wait *)
(* is read as "removed".                                                   *)
StopNilMeansGone ==
  outcome = "nil" /\ (autoRemove => faults = 0) => slot.who # "old"

(* If no API call fails by itself, a container that is not AutoRemove is   *)
(* always replaced, however long it takes to stop.  The one exception is a *)
(* container that had ended by itself before the kill: the daemon refuses  *)
(* the kill, the container is left behind and keeps the name.              *)
FailureHasCause ==
  pc = "start_failed" /\ faults = 0 /\ ~autoRemove => slot = Old("exited")

(* A container that does not use the host's network is on all of its       *)
(* networks when it is started: each one                                   *)
(* detached for the sake of creation has been attached again.              *)
StartedOnAllNetworks ==
  pc \in {"start", "started"} /\ ~hostMode => attached = networks

(* A running container is removed by force only when it was given all the  *)
(* time waitForStop grants, unless an API call failed.                     *)
GraceBeforeForce ==
  [][slot = Old("running") /\ slot' = Free => expired \/ faults > 0]_vars

(* The client always comes back to Update: the waits are bounded by their  *)
(* timers, even if the container ignores the signal.                       *)
ClientReturns == <>(pc \in {"started", "start_failed"})

(* "Wait for container to be removed" (client.go:114): unless the wait     *)
(* times out, it ends only when the container is gone.                     *)
StopAwaitsRemoval ==
  [][pc = "await_removal" /\ pc' # pc /\ ~expired => slot.who # "old"]_vars
================================================================================
