----------------------------- MODULE Visualizer -----------------------------
(***************************************************************************)
(* docker-swarm-visualizer: a page that polls the Docker API through the   *)
(* visualizer's server and draws the nodes of a swarm with the tasks on    *)
(* them (clefos/docker-swarm-visualizer/files).                            *)
(*                                                                         *)
(* A poll is three independent requests, for the nodes, the tasks and the  *)
(* services, so what it brings is no snapshot of the swarm.  A poll starts *)
(* every MS milliseconds whether or not the ones before it have come back, *)
(* so they are applied in any order, all to the same structure.            *)
(***************************************************************************)
EXTENDS Naturals

CONSTANTS
  Nodes, Tasks, Services,
  ServiceOf,     \* the service each task belongs to
  InitialSwarms, \* the swarms the page may be opened for
  Polls,         \* bound: the polls that are under way at the same time
  MaxEvents      \* bound: the changes of the swarm and the requests that
                 \* fail in a behaviour, together

ASSUME VisualizerAssumption ==
  /\ ServiceOf \in [Tasks -> Services]
  /\ \A s \in InitialSwarms :
       /\ DOMAIN s.nodes \subseteq Nodes /\ DOMAIN s.tasks \subseteq Tasks
       /\ \A n \in DOMAIN s.nodes : s.nodes[n] \in {"ready", "down"}
       /\ \A t \in DOMAIN s.tasks : /\ s.tasks[t] \in DOMAIN s.nodes
                                    /\ ServiceOf[t] \in s.services
  /\ MaxEvents \in Nat

VARIABLES
  swarm,    \* nodes: the state of each node, tasks: the node of each task
            \* that is to run, services: the services there are
  polls,    \* what the three requests of each poll have brought
  starting, \* the poll of DataProvider.start(), while it is under way
  made,     \* whether PHYSICAL_STRUCT has been made
  struct,   \* PHYSICAL_STRUCT: the nodes it knows, by ID
  shown,    \* what was drawn last
  events    \* how many of them there have been

vars == <<swarm, polls, starting, made, struct, shown, events>>

Idle    == [pc |-> "idle"]
Parts   == {"nodes", "tasks", "services"}
Empty   == [n \in {} |-> n]

(***************************************************************************)
(* The swarm.  Only its states and their changes are modelled; the tasks   *)
(* of a node that fails or leaves are started elsewhere or not at all.     *)
(***************************************************************************)
Change(nodes, tasks, services) ==
  /\ events < MaxEvents /\ events' = events + 1
  /\ swarm' = [nodes |-> nodes, tasks |-> tasks, services |-> services]
  /\ UNCHANGED <<polls, starting, made, struct, shown>>

Without(f, set) == [x \in DOMAIN f \ set |-> f[x]]
With(f, x, v)   == [y \in DOMAIN f \cup {x} |-> IF y = x THEN v ELSE f[y]]

TasksOn(n) == {t \in DOMAIN swarm.tasks : swarm.tasks[t] = n}

NodeReady(n) ==
  /\ n \in DOMAIN swarm.nodes => swarm.nodes[n] = "down"
  /\ Change(With(swarm.nodes, n, "ready"), swarm.tasks, swarm.services)

NodeDown(n) ==
  /\ n \in DOMAIN swarm.nodes /\ swarm.nodes[n] = "ready"
  /\ Change(With(swarm.nodes, n, "down"), Without(swarm.tasks, TasksOn(n)), swarm.services)

NodeLeaves(n) ==
  /\ n \in DOMAIN swarm.nodes
  /\ Change(Without(swarm.nodes, {n}), Without(swarm.tasks, TasksOn(n)), swarm.services)

TaskStarts(t, n) ==
  /\ t \notin DOMAIN swarm.tasks
  /\ n \in DOMAIN swarm.nodes /\ swarm.nodes[n] = "ready"
  /\ Change(swarm.nodes, With(swarm.tasks, t, n), swarm.services \cup {ServiceOf[t]})

ServiceRemoved(s) ==
  /\ s \in swarm.services
  /\ Change(swarm.nodes, Without(swarm.tasks, {t \in Tasks : ServiceOf[t] = s}),
            swarm.services \ {s})

(***************************************************************************)
(* Requests                                                                *)
(***************************************************************************)

NewPoll == [pc |-> "open", have |-> {}, nodes |-> Empty, tasks |-> Empty, services |-> {}]

(* DataProvider.reload, called every MS milliseconds.                      *)
Reload(p) ==
  /\ polls[p].pc = "idle"
  /\ polls' = [polls EXCEPT ![p] = NewPoll]
  /\ UNCHANGED <<swarm, starting, made, struct, shown, events>>

(* The proxy of server.js answers with what the Docker API says now.       *)
Answers(q, part) ==
  [q EXCEPT !.have = @ \cup {part},
            !.nodes    = IF part = "nodes"    THEN swarm.nodes    ELSE @,
            !.tasks    = IF part = "tasks"    THEN swarm.tasks    ELSE @,
            !.services = IF part = "services" THEN swarm.services ELSE @]

Receive(p, part) ==
  /\ polls[p].pc = "open" /\ part \notin polls[p].have
  /\ polls' = [polls EXCEPT ![p] = Answers(@, part)]
  /\ UNCHANGED <<swarm, starting, made, struct, shown, events>>

(* The API answers with an error: an object without a length, which is     *)
(* read as an empty list.                                                  *)
ReceiveError(p, part) ==
  /\ polls[p].pc = "open" /\ part \notin polls[p].have
  /\ events < MaxEvents /\ events' = events + 1
  /\ polls' = [polls EXCEPT ![p].have = @ \cup {part}]
  /\ UNCHANGED <<swarm, starting, made, struct, shown>>

(* The server cannot reach Docker and never answers: the poll comes to     *)
(* nothing.                                                                *)
NoAnswer(p) ==
  /\ polls[p].pc = "open" /\ polls[p].have # Parts
  /\ events < MaxEvents /\ events' = events + 1
  /\ polls' = [polls EXCEPT ![p] = Idle]
  /\ starting' = starting \ {p}
  /\ UNCHANGED <<swarm, made, struct, shown>>

(***************************************************************************)
(* The structure (physicalStructProvider).  A node of it has the state it  *)
(* is drawn with, whether its Spec is known, and its tasks: from the tasks *)
(* to whether the name of their service is known.                          *)
(***************************************************************************)

(* The structure a first answer makes; addContainer has no services yet.   *)
NewStruct(q) ==
  [n \in DOMAIN q.nodes |->
     [state |-> q.nodes[n], spec |-> TRUE,
      tasks |-> [t \in {u \in DOMAIN q.tasks : q.tasks[u] = n} |-> FALSE]]]

(* Mutant: a node that is known does not get its Spec back.                *)
UpdateNodesStateOnly(known, q) ==
  [n \in DOMAIN known \cup DOMAIN q.nodes |->
     IF n \notin DOMAIN known THEN [state |-> "ready", spec |-> FALSE, tasks |-> Empty]
     ELSE IF n \in DOMAIN q.nodes THEN [known[n] EXCEPT !.state = q.nodes[n]]
     ELSE [known[n] EXCEPT !.state = "down", !.spec = FALSE]]

(* Mutant: a node that is not listed stays as it was.                      *)
UpdateNodesListed(known, q) ==
  [n \in DOMAIN known \cup DOMAIN q.nodes |->
     IF n \notin DOMAIN known THEN [state |-> "ready", spec |-> FALSE, tasks |-> Empty]
     ELSE IF n \in DOMAIN q.nodes
       THEN [known[n] EXCEPT !.state = q.nodes[n], !.spec = TRUE]
       ELSE known[n]]

(* updateNodes: a node that is new is ready whatever its state, and        *)
(* updateNode leaves it without a Spec; a known node gets the state and    *)
(* the Spec that were listed, and one that is not listed is down, without  *)
(* a Spec.                                                                 *)
UpdateNodes(known, q) ==
  [n \in DOMAIN known \cup DOMAIN q.nodes |->
     IF n \notin DOMAIN known THEN [state |-> "ready", spec |-> FALSE, tasks |-> Empty]
     ELSE IF n \in DOMAIN q.nodes
       THEN [known[n] EXCEPT !.state = q.nodes[n], !.spec = TRUE]
       ELSE [known[n] EXCEPT !.state = "down", !.spec = FALSE]]

(* The tasks updateContainers throws at: those whose service was not       *)
(* listed, and those on a node without a Spec.  Every task is taken to     *)
(* belong to a service and to have a ContainerStatus.                      *)
Unusable(known, q) ==
  {t \in DOMAIN q.tasks : \/ ServiceOf[t] \notin q.services
                          \/ /\ q.tasks[t] \in DOMAIN known
                             /\ ~known[q.tasks[t]].spec}

(* Mutant: the nodes are not emptied first.                                *)
AddTasks(known, q, tasks) ==
  [n \in DOMAIN known |->
     [known[n] EXCEPT !.tasks = [t \in DOMAIN @ \cup {u \in tasks : q.tasks[u] = n} |-> TRUE]]]

(* updateContainers: all nodes are emptied, then the tasks are put on      *)
(* their nodes one by one.                                                 *)
WithTasks(known, q, tasks) ==
  [n \in DOMAIN known |->
     [known[n] EXCEPT !.tasks = [t \in {u \in tasks : q.tasks[u] = n} |-> TRUE]]]

(* What the page shows of the structure: the nodes with their states and   *)
(* the tasks on them.                                                      *)
Draw(known) == [n \in DOMAIN known |-> [state |-> known[n].state, tasks |-> known[n].tasks]]

(* The answer of start() makes a new structure, whatever reloads have made *)
(* of the old one.                                                         *)
ApplyStart(p) ==
  /\ polls[p].pc = "open" /\ polls[p].have = Parts /\ p \in starting
  /\ struct' = NewStruct(polls[p]) /\ made' = TRUE
  /\ shown' = Draw(struct')
  /\ polls' = [polls EXCEPT ![p] = Idle]
  /\ starting' = {}
  /\ UNCHANGED <<swarm, events>>

Known(q) == IF made THEN struct ELSE NewStruct(q)

(* The answer of a reload, when every task can be placed: the page is      *)
(* drawn.                                                                  *)
ApplyReload(p) ==
  LET q == polls[p]
      known == UpdateNodes(Known(q), q)
  IN  /\ q.pc = "open" /\ q.have = Parts /\ p \notin starting
      /\ Unusable(known, q) = {}
      /\ struct' = WithTasks(known, q, DOMAIN q.tasks) /\ made' = TRUE
      /\ shown' = Draw(struct')
      /\ polls' = [polls EXCEPT ![p] = Idle]
      /\ UNCHANGED <<swarm, starting, events>>

(* Otherwise updateContainers throws at the first task it cannot place:    *)
(* the structure has the tasks that came before it in the list, and the    *)
(* page stays as it was.                                                   *)
ReloadThrows(p) ==
  LET q == polls[p]
      known == UpdateNodes(Known(q), q)
      bad == Unusable(known, q)
  IN  /\ q.pc = "open" /\ q.have = Parts /\ p \notin starting
      /\ bad # {}
      /\ \E before \in SUBSET (DOMAIN q.tasks \ bad) :
           struct' = WithTasks(known, q, before)
      /\ made' = TRUE
      /\ polls' = [polls EXCEPT ![p] = Idle]
      /\ UNCHANGED <<swarm, starting, shown, events>>

(***************************************************************************)
(* The specification.  main.js starts the provider and polls at once: the  *)
(* page opens with the request of start() under way.                       *)
(***************************************************************************)
Init ==
  /\ swarm \in InitialSwarms
  /\ \E first \in Polls : /\ polls = [p \in Polls |-> IF p = first THEN NewPoll ELSE Idle]
                          /\ starting = {first}
  /\ struct = Empty /\ made = FALSE
  /\ shown = Empty
  /\ events = 0

SwarmStep ==
  \/ \E n \in Nodes : NodeReady(n) \/ NodeDown(n) \/ NodeLeaves(n)
  \/ \E t \in Tasks, n \in Nodes : TaskStarts(t, n)
  \/ \E s \in Services : ServiceRemoved(s)

Apply(p) == ApplyStart(p) \/ ApplyReload(p) \/ ReloadThrows(p)

PollStep(p) == Reload(p) \/ (\E part \in Parts : Receive(p, part)) \/ Apply(p)

Next ==
  \/ SwarmStep
  \/ \E p \in Polls : \/ PollStep(p) \/ NoAnswer(p)
                      \/ \E part \in Parts : ReceiveError(p, part)

(* The timer goes on, and the requests of every poll that are answered are *)
(* answered some time.                                                     *)
Fairness == \A p \in Polls : WF_vars(PollStep(p))

Spec == Init /\ [][Next]_vars /\ Fairness

(***************************************************************************)
(* Properties                                                              *)
(***************************************************************************)

NodeRecord(r) == /\ r.state \in {"ready", "down"}
                 /\ DOMAIN r.tasks \subseteq Tasks
                 /\ \A t \in DOMAIN r.tasks : r.tasks[t] \in BOOLEAN

(* Type invariant.  The structure and the page hold well-formed nodes, and *)
(* no task is on two nodes, however the answers of polls follow each other *)
(* (data-provider.js:200 empties the nodes before it fills them).          *)
TypeOK ==
  /\ \A s \in {struct, shown} :
       /\ DOMAIN s \subseteq Nodes
       /\ \A n \in DOMAIN s : NodeRecord(s[n])
       /\ \A m, n \in DOMAIN s : m # n => DOMAIN s[m].tasks \cap DOMAIN s[n].tasks = {}
  /\ starting \subseteq Polls
  /\ ~made => struct = Empty /\ shown = Empty
  /\ events \in 0 .. MaxEvents

(* A reload is lost to an exception only because of something it brings    *)
(* that the page has yet to learn, or that its own answers do not agree    *)
(* on: a task whose service they do not list, a task on a node they do not *)
(* list, or a task on a node that is new to the page.  The next poll does  *)
(* not fail for the same node (data-provider.js:94, 166 and 207).          *)
FailsOnlyOnNews ==
  [][\A p \in Polls : ReloadThrows(p) =>
       \E t \in DOMAIN polls[p].tasks :
         LET n == polls[p].tasks[t]
         IN  \/ ServiceOf[t] \notin polls[p].services
             \/ n \notin DOMAIN polls[p].nodes
             \/ n \notin DOMAIN Known(polls[p])]_vars

(* What the page should show: the nodes of the swarm with their states and *)
(* their tasks, each with its service's name; nodes that have left, as     *)
(* down and empty.                                                         *)
Accurate ==
  /\ \A n \in DOMAIN swarm.nodes :
       /\ n \in DOMAIN shown
       /\ shown[n].state = swarm.nodes[n]
       /\ shown[n].tasks = [t \in TasksOn(n) |-> TRUE]
  /\ \A n \in DOMAIN shown \ DOMAIN swarm.nodes :
       shown[n].state = "down" /\ shown[n].tasks = Empty

(* Once the swarm is left alone, the page comes to show it and goes on     *)
(* showing it: late answers of old polls, of start() above all, and        *)
(* exceptions in reloads are made good by the polls after them             *)
(* (main.js:33).                                                           *)
EventuallyAccurate == <>[]Accurate
=============================================================================
