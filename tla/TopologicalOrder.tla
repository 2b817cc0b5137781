---------------------------- MODULE TopologicalOrder ----------------------------
(***************************************************************************)
(* What the comment above SortByDependencies promises: containers without  *)
(* outgoing links come first and a container with links comes after all of *)
(* its dependencies, or the links are circular and there is no order.      *)
(***************************************************************************)
EXTENDS LinkGraph

VARIABLES
  links,      (* the links of every container                              *)
  listed,     (* the set of containers to order                            *)
  order,      (* the containers put in order so far                        *)
  outcome     (* "sorting", then "sorted" or "circular"                    *)

vars == <<links, listed, order, outcome>>

Init ==
  /\ order = <<>>
  /\ outcome = "sorting"

(* Any container all of whose dependencies are in order may come next. *)
Emit(c) ==
  /\ outcome = "sorting"
  /\ c \in listed \ ToSet(order)
  /\ Deps(links, listed, c) \subseteq ToSet(order)
  /\ order' = Append(order, c)
  /\ UNCHANGED <<links, listed, outcome>>

Succeed ==
  /\ outcome = "sorting"
  /\ ToSet(order) = listed
  /\ outcome' = "sorted"
  /\ UNCHANGED <<links, listed, order>>

Refuse ==
  /\ outcome = "sorting"
  /\ HasCycle(links, listed)
  /\ order' = <<>>
  /\ outcome' = "circular"
  /\ UNCHANGED <<links, listed>>

Next == (\E c \in listed : Emit(c)) \/ Succeed \/ Refuse

Spec == Init /\ [][Next]_vars
================================================================================
