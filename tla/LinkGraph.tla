------------------------------- MODULE LinkGraph -------------------------------
(***************************************************************************)
(* The links between the containers watchtower lists.  links[c] is the     *)
(* sequence Container.Links returns for c (container.go), names of other   *)
(* containers whether or not they are in the list.                         *)
(***************************************************************************)
EXTENDS Naturals, Sequences, SequencesExt

(* The containers of present that c links to. *)
Deps(links, present, c) ==
  {links[c][i] : i \in DOMAIN links[c]} \cap present

(* A finite set of containers has a circular link exactly if it has a      *)
(* nonempty part in which every container links to one of that part.       *)
HasCycle(links, present) ==
  \E part \in SUBSET present :
    part # {} /\ \A c \in part : Deps(links, part, c) # {}

(* Every container of order comes after all it links to. *)
DependenciesFirst(links, present, order) ==
  \A i \in DOMAIN order : \A d \in Deps(links, present, order[i]) :
    \E j \in 1 .. (i - 1) : order[j] = d

(* Mutant: the list is not sorted. *)
UnsortedOrders(links, present) == SetToSeqs(present)

DependencyOrders(links, present) ==
  {order \in SetToSeqs(present) : DependenciesFirst(links, present, order)}

(* Whoever links to a member of S is a member of S. *)
ClosedUnderDependents(links, present, S) ==
  \A c \in present : Deps(links, present, c) \cap S # {} => c \in S

(* Mutant: staleness is not spread. *)
StaleItself(links, present, stale) == stale

(* The least set that holds stale and is closed under dependents. *)
StaleClosure(links, present, stale) ==
  {c \in present : \A S \in SUBSET present :
     stale \subseteq S /\ ClosedUnderDependents(links, present, S) => c \in S}
================================================================================
