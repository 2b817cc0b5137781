------------------------------- MODULE UpdatePlan -------------------------------
(***************************************************************************)
(* How actions.Update of watchtower turns the containers it listed into a  *)
(* plan: SortByDependencies (container/sort.go), a depth-first walk of the *)
(* links with an error for a circular reference, then checkDependencies    *)
(* (actions/update.go), which spreads staleness to dependents.  The call   *)
(* stack of the recursive visit is the variable stack; a frame is the      *)
(* container visited and the index of the next of its links.               *)
(***************************************************************************)
EXTENDS LinkGraph

CONSTANTS
  Name,   (* names of containers                                           *)
  Lists,  (* the lists ListContainers may return, without duplicate names  *)
  Links   (* the links the containers may have                             *)

ASSUME ListsAssumption ==
  \A l \in Lists : l \in Seq(Name) /\ IsInjective(l)

ASSUME LinksAssumption == Links \subseteq [Name -> Seq(Name)]

VARIABLES
  containers, (* the argument of Sort, constant                            *)
  links,      (* constant                                                  *)
  found,      (* the containers IsContainerStale found stale, constant     *)
  unvisited, marked, sorted, (* the fields of dependencySorter             *)
  stack,      (* the frames of visit, the innermost last                   *)
  stale,      (* the containers whose Stale flag is set                    *)
  cursor,     (* the loop index of checkDependencies                       *)
  pc          (* "sort", "check", then "planned"; or "circular"            *)

input == <<containers, links, found>>
sorter == <<unvisited, marked, sorted, stack>>
vars == <<input, sorter, stale, cursor, pc>>

listed == ToSet(containers)
Top == stack[Len(stack)]

(* Mutant: the loop index starts at zero. *)
InitFromZero ==
  /\ containers \in Lists
  /\ links \in Links
  /\ found \in SUBSET ToSet(containers)
  /\ unvisited = containers
  /\ marked = {}
  /\ sorted = <<>>
  /\ stack = <<>>
  /\ stale = found
  /\ cursor = 0
  /\ pc = "sort"

Init ==
  /\ containers \in Lists
  /\ links \in Links
  /\ found \in SUBSET ToSet(containers)
  /\ unvisited = containers
  /\ marked = {}
  /\ sorted = <<>>
  /\ stack = <<>>
  /\ stale = found
  /\ cursor = 1
  /\ pc = "sort"
--------------------------------------------------------------------------------
(* Mutant: the last link is not followed. *)
MoreLinksButOne == Top.next < Len(links[Top.name])

MoreLinks == Top.next <= Len(links[Top.name])
NextLink == links[Top.name][Top.next]

(* The container, if any, that visit is about to be called on: from the    *)
(* loop of Sort the first unvisited one, from visit the next linked one    *)
(* that findUnvisited returns.                                             *)
Callee ==
  IF stack = <<>>
    THEN IF unvisited = <<>> THEN {} ELSE {unvisited[1]}
    ELSE IF MoreLinks THEN {NextLink} \cap ToSet(unvisited) ELSE {}

(* The caller's frame moves past the link it follows. *)
Advanced ==
  IF stack = <<>> THEN stack ELSE [stack EXCEPT ![Len(stack)].next = @ + 1]

Visit(c) ==
  /\ pc = "sort"
  /\ c \in Callee \ marked
  /\ marked' = marked \cup {c}
  /\ stack' = Append(Advanced, [name |-> c, next |-> 1])
  /\ UNCHANGED <<input, unvisited, sorted, stale, cursor, pc>>

(* The error unwinds every visit, whose deferred deletes clear the marks;  *)
(* Sort and Update return it and the partial order is dropped.             *)
CircularReference(c) ==
  /\ pc = "sort"
  /\ c \in Callee \cap marked
  /\ pc' = "circular"
  /\ marked' = {}
  /\ stack' = <<>>
  /\ sorted' = <<>>
  /\ UNCHANGED <<input, unvisited, stale, cursor>>

(* findUnvisited returned nil: the linked container is not listed, or is   *)
(* in order already.                                                       *)
SkipLink ==
  /\ pc = "sort"
  /\ stack # <<>>
  /\ MoreLinks
  /\ Callee = {}
  /\ stack' = Advanced
  /\ UNCHANGED <<input, unvisited, marked, sorted, stale, cursor, pc>>

(* Mutant: the container to remove is not looked for. *)
IndexOfFirst(c) == 1

(* removeUnvisited drops the first container of that name, and the first   *)
(* container of all if there is none.                                      *)
IndexOf(c) ==
  IF c \in ToSet(unvisited)
    THEN CHOOSE i \in DOMAIN unvisited :
           unvisited[i] = c /\ \A j \in 1 .. (i - 1) : unvisited[j] # c
    ELSE 1

Leave ==
  /\ pc = "sort"
  /\ stack # <<>>
  /\ ~MoreLinks
  /\ unvisited' = RemoveAt(unvisited, IndexOf(Top.name))
  /\ sorted' = Append(sorted, Top.name)
  /\ marked' = marked \ {Top.name}
  /\ stack' = SubSeq(stack, 1, Len(stack) - 1)
  /\ UNCHANGED <<input, stale, cursor, pc>>

SortReturns ==
  /\ pc = "sort"
  /\ stack = <<>>
  /\ unvisited = <<>>
  /\ pc' = "check"
  /\ UNCHANGED <<input, sorter, stale, cursor>>

(* Mutant: the links of the containers that were found stale are followed, *)
(* but not of those that become stale.                                     *)
CheckDirect ==
  /\ pc = "check"
  /\ cursor <= Len(sorted)
  /\ stale' = IF Deps(links, ToSet(sorted), sorted[cursor]) \cap found # {}
                THEN stale \cup {sorted[cursor]}
                ELSE stale
  /\ cursor' = cursor + 1
  /\ UNCHANGED <<input, sorter, pc>>

(* Mutant: the index does not move past a container that is stale already. *)
CheckStuck ==
  /\ pc = "check"
  /\ cursor <= Len(sorted)
  /\ stale' = IF Deps(links, ToSet(sorted), sorted[cursor]) \cap stale # {}
                THEN stale \cup {sorted[cursor]}
                ELSE stale
  /\ cursor' = IF sorted[cursor] \in stale THEN cursor ELSE cursor + 1
  /\ UNCHANGED <<input, sorter, pc>>

(* One iteration of the outer loop of checkDependencies: a container that  *)
(* links to a stale one becomes stale.                                     *)
CheckDependencies ==
  /\ pc = "check"
  /\ cursor <= Len(sorted)
  /\ stale' = IF Deps(links, ToSet(sorted), sorted[cursor]) \cap stale # {}
                THEN stale \cup {sorted[cursor]}
                ELSE stale
  /\ cursor' = cursor + 1
  /\ UNCHANGED <<input, sorter, pc>>

CheckReturns ==
  /\ pc = "check"
  /\ cursor > Len(sorted)
  /\ pc' = "planned"
  /\ UNCHANGED <<input, sorter, stale, cursor>>

Next ==
  \/ \E c \in Name : Visit(c) \/ CircularReference(c)
  \/ SkipLink
  \/ Leave
  \/ SortReturns
  \/ CheckDependencies
  \/ CheckReturns

Spec == Init /\ [][Next]_vars
FairSpec == Spec /\ WF_vars(Next)
--------------------------------------------------------------------------------
Frame == [name : Name, next : Nat \ {0}]

(* Every field keeps its type.  The list, the links and the staleness that *)
(* was found are never changed.                                            *)
TypeOK ==
  /\ containers \in Lists
  /\ links \in Links
  /\ found \subseteq listed
  /\ unvisited \in Seq(Name)
  /\ marked \subseteq Name
  /\ sorted \in Seq(Name)
  /\ stack \in Seq(Frame)
  /\ stale \subseteq Name
  /\ cursor \in Nat \ {0}
  /\ pc \in {"sort", "check", "planned", "circular"}

(* At any time the order built so far has every container after those it   *)
(* links to: what Update starts is never started before a dependency, and  *)
(* what it stops, in reverse, never after one.                             *)
SortedDependenciesFirst == DependenciesFirst(links, listed, sorted)

(* The plan stops and restarts the containers found stale and all that     *)
(* depend on one through any chain of links, and nothing else: one pass of *)
(* checkDependencies in sorted order reaches the fixpoint.                 *)
PlanIsClosure ==
  pc = "planned" => stale = StaleClosure(links, listed, found)

(* The walk implements the abstract order: each container is emitted once, *)
(* after its dependencies; the error is raised only if there is a cycle.   *)
Topological == INSTANCE TopologicalOrder WITH
  order <- sorted,
  outcome <- CASE pc = "sort" -> "sorting"
               [] pc \in {"check", "planned"} -> "sorted"
               [] OTHER -> "circular"

ImplementsTopologicalOrder == Topological!Spec

(* Neither the recursion nor the loops run forever, whatever the links:    *)
(* the update is planned, or refused because of a circular reference.      *)
PlanEnds == <>(pc \in {"planned", "circular"})
================================================================================
