-------------------------- MODULE Visualizer_proof --------------------------
(***************************************************************************)
(* Theorems about Visualizer, for any nodes, tasks, services and polls,    *)
(* and their proofs.                                                       *)
(***************************************************************************)
EXTENDS Visualizer, TLAPS

States == {"ready", "down"}

NodesType(f) == DOMAIN f \subseteq Nodes /\ \A n \in DOMAIN f : f[n] \in States
TasksType(f) == DOMAIN f \subseteq Tasks

PollType(q) ==
  q # Idle => /\ DOMAIN q = {"pc", "have", "nodes", "tasks", "services"}
              /\ NodesType(q.nodes) /\ TasksType(q.tasks)

(* A structure that data-provider.js may have made: no task is on two      *)
(* nodes.                                                                  *)
StructType(s) ==
  /\ DOMAIN s \subseteq Nodes
  /\ \A n \in DOMAIN s : DOMAIN s[n] = {"state", "spec", "tasks"} /\ NodeRecord(s[n])
  /\ \A m, n \in DOMAIN s : m # n => DOMAIN s[m].tasks \cap DOMAIN s[n].tasks = {}

ShownType(s) ==
  /\ DOMAIN s \subseteq Nodes
  /\ \A n \in DOMAIN s : NodeRecord(s[n])
  /\ \A m, n \in DOMAIN s : m # n => DOMAIN s[m].tasks \cap DOMAIN s[n].tasks = {}

(* The inductive invariant: what the structure becomes depends on the      *)
(* answers that are under way, and those on the swarm.                     *)
TypeInv ==
  /\ NodesType(swarm.nodes) /\ TasksType(swarm.tasks)
  /\ DOMAIN polls = Polls /\ \A p \in Polls : PollType(polls[p])
  /\ StructType(struct) /\ ShownType(shown)
  /\ starting \subseteq Polls
  /\ ~made => struct = Empty /\ shown = Empty
  /\ events \in 0 .. MaxEvents

-----------------------------------------------------------------------------
(***************************************************************************)
(* Facts about the operators                                               *)
(***************************************************************************)

(* A task of a list is on one node, so that those of different nodes are   *)
(* different.                                                              *)
LEMMA NewStructType ==
  ASSUME NEW q, NodesType(q.nodes), TasksType(q.tasks)
  PROVE  StructType(NewStruct(q))
<1> DEFINE On(n) == {u \in DOMAIN q.tasks : q.tasks[u] = n}
           s == NewStruct(q)
<1>1. DOMAIN s = DOMAIN q.nodes
  BY DEF NewStruct
<1>2. \A n \in DOMAIN s : s[n] = [state |-> q.nodes[n], spec |-> TRUE,
                                  tasks |-> [t \in On(n) |-> FALSE]]
  BY DEF NewStruct
<1> HIDE DEF s
<1>3. \A n \in DOMAIN s : /\ DOMAIN s[n] = {"state", "spec", "tasks"}
                          /\ s[n].state = q.nodes[n]
                          /\ s[n].tasks = [t \in On(n) |-> FALSE]
  <2> SUFFICES ASSUME NEW n \in DOMAIN s
               PROVE  /\ DOMAIN s[n] = {"state", "spec", "tasks"}
                      /\ s[n].state = q.nodes[n]
                      /\ s[n].tasks = [t \in On(n) |-> FALSE]
    OBVIOUS
  <2> DEFINE none == [t \in On(n) |-> FALSE]
  <2>1. s[n] = [state |-> q.nodes[n], spec |-> TRUE, tasks |-> none]
    BY <1>2
  <2> HIDE DEF none
  <2>2. DOMAIN s[n] = {"state", "spec", "tasks"} /\ s[n].state = q.nodes[n] /\ s[n].tasks = none
    BY <2>1
  <2> QED BY <2>2 DEF none
<1>4. \A n \in DOMAIN s : DOMAIN s[n].tasks = On(n) /\ \A t \in On(n) : s[n].tasks[t] = FALSE
  BY <1>3
<1>5. \A n \in DOMAIN s : NodeRecord(s[n])
  BY <1>1, <1>3, <1>4 DEF NodeRecord, NodesType, TasksType, States
<1>6. \A m, n \in DOMAIN s : m # n => DOMAIN s[m].tasks \cap DOMAIN s[n].tasks = {}
  BY <1>4
<1> QED BY <1>1, <1>3, <1>5, <1>6 DEF StructType, NodesType, s

LEMMA KnownType ==
  ASSUME TypeInv, NEW p \in Polls, polls[p] # Idle
  PROVE  StructType(Known(polls[p]))
BY NewStructType DEF TypeInv, PollType, Known

(* updateNodes keeps the form of the nodes; their tasks are set next.      *)
LEMMA UpdateNodesType ==
  ASSUME NEW known, StructType(known), NEW q, NodesType(q.nodes)
  PROVE  /\ DOMAIN UpdateNodes(known, q) = DOMAIN known \cup DOMAIN q.nodes
         /\ \A n \in DOMAIN UpdateNodes(known, q) :
              /\ DOMAIN UpdateNodes(known, q)[n] = {"state", "spec", "tasks"}
              /\ UpdateNodes(known, q)[n].state \in States
              /\ n \in DOMAIN known /\ n \in DOMAIN q.nodes => UpdateNodes(known, q)[n].spec = TRUE
<1> DEFINE u == UpdateNodes(known, q)
<1>1. DOMAIN u = DOMAIN known \cup DOMAIN q.nodes
  BY DEF UpdateNodes
<1>2. ASSUME NEW n \in DOMAIN u
      PROVE  /\ DOMAIN u[n] = {"state", "spec", "tasks"} /\ u[n].state \in States
             /\ n \in DOMAIN known /\ n \in DOMAIN q.nodes => u[n].spec = TRUE
  <2>1. CASE n \notin DOMAIN known
    <3>1. u[n] = [state |-> "ready", spec |-> FALSE, tasks |-> Empty]
      BY <1>1, <1>2, <2>1 DEF UpdateNodes
    <3> QED BY <3>1, <2>1 DEF States
  <2>2. CASE n \in DOMAIN known /\ n \in DOMAIN q.nodes
    <3>1. u[n] = [known[n] EXCEPT !.state = q.nodes[n], !.spec = TRUE]
      BY <1>1, <1>2, <2>2 DEF UpdateNodes
    <3>2. DOMAIN known[n] = {"state", "spec", "tasks"}
      BY <2>2 DEF StructType
    <3> QED BY <3>1, <3>2, <2>2 DEF NodesType
  <2>3. CASE n \in DOMAIN known /\ n \notin DOMAIN q.nodes
    <3>1. u[n] = [known[n] EXCEPT !.state = "down", !.spec = FALSE]
      BY <1>1, <1>2, <2>3 DEF UpdateNodes
    <3>2. DOMAIN known[n] = {"state", "spec", "tasks"}
      BY <2>3 DEF StructType
    <3> QED BY <3>1, <3>2, <2>3 DEF States
  <2> QED BY <2>1, <2>2, <2>3
<1> QED BY <1>1, <1>2

LEMMA WithTasksType ==
  ASSUME NEW known, NEW q, NEW tasks, DOMAIN known \subseteq Nodes,
         \A n \in DOMAIN known : /\ DOMAIN known[n] = {"state", "spec", "tasks"}
                                 /\ known[n].state \in States,
         TasksType(q.tasks), tasks \subseteq DOMAIN q.tasks
  PROVE  StructType(WithTasks(known, q, tasks))
<1> DEFINE On(n) == {u \in tasks : q.tasks[u] = n}
           s == WithTasks(known, q, tasks)
<1>1. DOMAIN s = DOMAIN known
  BY DEF WithTasks
<1>2. ASSUME NEW n \in DOMAIN s
      PROVE  /\ DOMAIN s[n] = {"state", "spec", "tasks"} /\ s[n].state = known[n].state
             /\ s[n].tasks = [t \in On(n) |-> TRUE]
  <2>1. s[n] = [known[n] EXCEPT !.tasks = [t \in On(n) |-> TRUE]]
    BY <1>1, <1>2 DEF WithTasks
  <2>2. DOMAIN known[n] = {"state", "spec", "tasks"}
    BY <1>1, <1>2
  <2> HIDE DEF s
  <2> QED BY <2>1, <2>2
<1> HIDE DEF s
<1>3. \A n \in DOMAIN s : DOMAIN s[n].tasks = On(n) /\ \A t \in On(n) : s[n].tasks[t] = TRUE
  BY <1>2
<1>4. \A n \in DOMAIN s : NodeRecord(s[n])
  BY <1>1, <1>2, <1>3 DEF NodeRecord, TasksType, States
<1>5. \A m, n \in DOMAIN s : m # n => DOMAIN s[m].tasks \cap DOMAIN s[n].tasks = {}
  BY <1>3
<1> QED BY <1>1, <1>2, <1>4, <1>5 DEF StructType, s

LEMMA DrawType ==
  ASSUME NEW s, StructType(s)
  PROVE  ShownType(Draw(s))
<1>1. /\ DOMAIN Draw(s) = DOMAIN s
      /\ \A n \in DOMAIN s : /\ Draw(s)[n].state = s[n].state
                             /\ Draw(s)[n].tasks = s[n].tasks
  BY DEF Draw
<1> QED BY <1>1 DEF StructType, ShownType, NodeRecord

(* What a reload makes of the structure, with all tasks or some of them.   *)
LEMMA ReloadType ==
  ASSUME TypeInv, NEW p \in Polls, polls[p] # Idle, NEW tasks,
         tasks \subseteq DOMAIN polls[p].tasks
  PROVE  StructType(WithTasks(UpdateNodes(Known(polls[p]), polls[p]), polls[p], tasks))
<1>1. NodesType(polls[p].nodes) /\ TasksType(polls[p].tasks)
  BY DEF TypeInv, PollType
<1>2. StructType(Known(polls[p]))
  BY KnownType
<1>3. DOMAIN UpdateNodes(Known(polls[p]), polls[p]) \subseteq Nodes
  <2>1. DOMAIN UpdateNodes(Known(polls[p]), polls[p]) = DOMAIN Known(polls[p]) \cup DOMAIN polls[p].nodes
    BY <1>1, <1>2, UpdateNodesType
  <2>2. DOMAIN Known(polls[p]) \subseteq Nodes /\ DOMAIN polls[p].nodes \subseteq Nodes
    BY <1>1, <1>2 DEF NodesType, StructType
  <2> QED BY <2>1, <2>2
<1> DEFINE q == polls[p]
           known == Known(q)
           u == UpdateNodes(known, q)
<1>4. StructType(known) /\ NodesType(q.nodes) /\ TasksType(q.tasks) /\ DOMAIN u \subseteq Nodes
      /\ tasks \subseteq DOMAIN q.tasks
  BY <1>1, <1>2, <1>3
<1>5. \A n \in DOMAIN u : DOMAIN u[n] = {"state", "spec", "tasks"} /\ u[n].state \in States
  <2> HIDE DEF known, q
  <2>1. /\ DOMAIN u = DOMAIN known \cup DOMAIN q.nodes
        /\ \A n \in DOMAIN u :
             /\ DOMAIN u[n] = {"state", "spec", "tasks"}
             /\ u[n].state \in States
             /\ n \in DOMAIN known /\ n \in DOMAIN q.nodes => u[n].spec = TRUE
    BY <1>4, UpdateNodesType, Zenon
  <2> QED BY <2>1
<1> HIDE DEF u, known, q
<1>6. StructType(WithTasks(u, q, tasks))
  BY <1>4, <1>5, WithTasksType
<1> QED BY <1>6 DEF u, known, q

-----------------------------------------------------------------------------
(***************************************************************************)
(* Type correctness                                                        *)
(***************************************************************************)

LEMMA OpenIsNotIdle ==
  ASSUME NEW q, q.pc = "open"
  PROVE  q # Idle
BY DEF Idle

LEMMA SwarmKeepsType ==
  ASSUME TypeInv, SwarmStep
  PROVE  TypeInv'
<1>1. ASSUME NEW nodes, NEW tasks, NEW services, NodesType(nodes), TasksType(tasks),
             Change(nodes, tasks, services)
      PROVE  TypeInv'
  <2>1. swarm'.nodes = nodes /\ swarm'.tasks = tasks
    BY <1>1 DEF Change
  <2>2. events' \in 0 .. MaxEvents
    BY <1>1, VisualizerAssumption DEF Change, TypeInv
  <2> QED BY <1>1, <2>1, <2>2 DEF Change, TypeInv
<1>2. ASSUME NEW n \in Nodes, NEW v \in States
      PROVE  NodesType(With(swarm.nodes, n, v))
  BY DEF With, NodesType, TypeInv
<1>3. ASSUME NEW set
      PROVE  NodesType(Without(swarm.nodes, set)) /\ TasksType(Without(swarm.tasks, set))
  BY DEF Without, NodesType, TasksType, TypeInv
<1>4. ASSUME NEW n \in Nodes, NodeReady(n) \/ NodeDown(n) \/ NodeLeaves(n)
      PROVE  TypeInv'
  BY <1>1, <1>2, <1>3, <1>4 DEF NodeReady, NodeDown, NodeLeaves, States, TypeInv
<1>5. ASSUME NEW t \in Tasks, NEW n \in Nodes, TaskStarts(t, n)
      PROVE  TypeInv'
  <2>1. TasksType(With(swarm.tasks, t, n))
    BY DEF With, TasksType, TypeInv
  <2> QED BY <1>1, <1>5, <2>1 DEF TaskStarts, TypeInv
<1>6. ASSUME NEW s \in Services, ServiceRemoved(s)
      PROVE  TypeInv'
  BY <1>1, <1>3, <1>6 DEF ServiceRemoved, TypeInv
<1> QED BY <1>4, <1>5, <1>6 DEF SwarmStep

(* A poll that starts or gets an answer.                                   *)
LEMMA PollKeepsType ==
  ASSUME TypeInv, NEW p \in Polls, NEW q, PollType(q), polls' = [polls EXCEPT ![p] = q],
         UNCHANGED <<swarm, made, struct, shown>>, starting' \subseteq starting,
         events' \in 0 .. MaxEvents
  PROVE  TypeInv'
<1>1. DOMAIN polls' = Polls /\ \A r \in Polls : PollType(polls'[r])
  BY DEF TypeInv
<1> QED BY <1>1 DEF TypeInv

LEMMA AnswersType ==
  ASSUME TypeInv, NEW p \in Polls, polls[p] # Idle, NEW part
  PROVE  PollType(Answers(polls[p], part))
<1> DEFINE q == polls[p]
           a == Answers(q, part)
<1>1. DOMAIN q = {"pc", "have", "nodes", "tasks", "services"}
  BY DEF TypeInv, PollType
<1>2. /\ DOMAIN a = {"pc", "have", "nodes", "tasks", "services"}
      /\ a.nodes \in {swarm.nodes, q.nodes} /\ a.tasks \in {swarm.tasks, q.tasks}
  BY <1>1 DEF Answers
<1>3. NodesType(q.nodes) /\ TasksType(q.tasks) /\ NodesType(swarm.nodes) /\ TasksType(swarm.tasks)
  BY DEF TypeInv, PollType
<1> HIDE DEF a, q
<1>4. NodesType(a.nodes) /\ TasksType(a.tasks)
  BY <1>2, <1>3
<1>5. PollType(a)
  BY <1>2, <1>4 DEF PollType
<1> QED BY <1>5 DEF a, q

LEMMA RequestsKeepType ==
  ASSUME TypeInv, NEW p \in Polls,
         \/ Reload(p) \/ NoAnswer(p)
         \/ \E part \in Parts : Receive(p, part) \/ ReceiveError(p, part)
  PROVE  TypeInv'
<1>1. CASE Reload(p)
  <2>1. PollType(NewPoll)
    BY DEF NewPoll, PollType, NodesType, TasksType, Empty
  <2> QED BY <1>1, <2>1, PollKeepsType DEF Reload, TypeInv
<1>2. CASE NoAnswer(p)
  <2>1. events' \in 0 .. MaxEvents
    BY <1>2, VisualizerAssumption DEF NoAnswer, TypeInv
  <2> QED BY <1>2, <2>1, PollKeepsType DEF NoAnswer, PollType
<1>3. ASSUME NEW part \in Parts, Receive(p, part)
      PROVE  TypeInv'
  <2>1. PollType(Answers(polls[p], part))
    BY <1>3, AnswersType, OpenIsNotIdle DEF Receive
  <2>2. polls' = [polls EXCEPT ![p] = Answers(polls[p], part)]
    BY <1>3 DEF Receive, TypeInv
  <2> QED BY <1>3, <2>1, <2>2, PollKeepsType DEF Receive, TypeInv
<1>4. ASSUME NEW part \in Parts, ReceiveError(p, part)
      PROVE  TypeInv'
  <2> DEFINE q == [polls[p] EXCEPT !.have = @ \cup {part}]
  <2>1. DOMAIN polls[p] = {"pc", "have", "nodes", "tasks", "services"}
    BY <1>4, OpenIsNotIdle DEF ReceiveError, TypeInv, PollType
  <2>2. DOMAIN q = DOMAIN polls[p] /\ q.nodes = polls[p].nodes /\ q.tasks = polls[p].tasks
    BY <2>1
  <2>3. polls' = [polls EXCEPT ![p] = q]
    BY <1>4 DEF ReceiveError, TypeInv
  <2>4. PollType(q)
    <3> HIDE DEF q
    <3> QED BY <1>4, <2>1, <2>2, OpenIsNotIdle DEF ReceiveError, TypeInv, PollType
  <2>5. events' \in 0 .. MaxEvents
    BY <1>4, VisualizerAssumption DEF ReceiveError, TypeInv
  <2> HIDE DEF q
  <2> QED BY <1>4, <2>3, <2>4, <2>5, PollKeepsType DEF ReceiveError
<1> QED BY <1>1, <1>2, <1>3, <1>4

LEMMA ApplyKeepsType ==
  ASSUME TypeInv, NEW p \in Polls, Apply(p)
  PROVE  TypeInv'
<1>1. polls[p] # Idle
  BY OpenIsNotIdle DEF Apply, ApplyStart, ApplyReload, ReloadThrows
<1>2. DOMAIN polls' = Polls /\ \A r \in Polls : PollType(polls'[r])
  BY DEF Apply, ApplyStart, ApplyReload, ReloadThrows, TypeInv, PollType
<1>3. StructType(struct')
  <2>1. CASE ApplyStart(p)
    BY <1>1, <2>1, NewStructType DEF ApplyStart, TypeInv, PollType
  <2>2. CASE ApplyReload(p)
    BY <1>1, <2>2, ReloadType DEF ApplyReload
  <2>3. CASE ReloadThrows(p)
    BY <1>1, <2>3, ReloadType DEF ReloadThrows
  <2> QED BY <2>1, <2>2, <2>3 DEF Apply
<1>4. ShownType(shown')
  BY <1>3, DrawType DEF Apply, ApplyStart, ApplyReload, ReloadThrows, TypeInv
<1>5. made' = TRUE /\ starting' \subseteq Polls /\ UNCHANGED <<swarm, events>>
  BY DEF Apply, ApplyStart, ApplyReload, ReloadThrows, TypeInv
<1> QED BY <1>2, <1>3, <1>4, <1>5 DEF TypeInv

LEMMA InitType == Init => TypeInv
<1> SUFFICES ASSUME Init PROVE TypeInv
  OBVIOUS
<1>1. NodesType(swarm.nodes) /\ TasksType(swarm.tasks)
  BY VisualizerAssumption DEF Init, NodesType, TasksType, States
<1>2. DOMAIN polls = Polls /\ starting \subseteq Polls /\ \A p \in Polls : PollType(polls[p])
  BY DEF Init, NewPoll, PollType, NodesType, TasksType, Empty
<1>3. StructType(Empty) /\ ShownType(Empty)
  BY DEF StructType, ShownType, Empty
<1> QED BY <1>1, <1>2, <1>3, VisualizerAssumption DEF Init, TypeInv

LEMMA TypeStep ==
  ASSUME TypeInv, [Next]_vars
  PROVE  TypeInv'
<1>1. CASE UNCHANGED vars
  BY <1>1 DEF vars, TypeInv
<1>2. CASE SwarmStep
  BY <1>2, SwarmKeepsType
<1>3. ASSUME NEW p \in Polls,
             PollStep(p) \/ NoAnswer(p) \/ \E part \in Parts : ReceiveError(p, part)
      PROVE  TypeInv'
  BY <1>3, RequestsKeepType, ApplyKeepsType DEF PollStep
<1> QED BY <1>1, <1>2, <1>3 DEF Next

(* Type correctness of the visualizer: in particular no task is ever drawn *)
(* on two nodes.                                                           *)
THEOREM TypeCorrect == Spec => []TypeOK
<1>1. TypeInv /\ [Next]_vars => TypeInv'
  BY TypeStep
<1>2. TypeInv => TypeOK
  BY DEF TypeInv, TypeOK, StructType, ShownType
<1> QED BY <1>1, <1>2, InitType, PTL DEF Spec

-----------------------------------------------------------------------------
(* For any swarm and any polls a reload throws only at news: updateNodes   *)
(* gives every node that was known and is listed its Spec back.            *)
THEOREM FailsOnlyOnNewsHolds == Spec => FailsOnlyOnNews
<1> DEFINE News(p) ==
      \E t \in DOMAIN polls[p].tasks :
         LET n == polls[p].tasks[t]
         IN  \/ ServiceOf[t] \notin polls[p].services
             \/ n \notin DOMAIN polls[p].nodes
             \/ n \notin DOMAIN Known(polls[p])
<1>1. ASSUME TypeInv, NEW p \in Polls, ReloadThrows(p)
      PROVE  News(p)
  <2> DEFINE known == UpdateNodes(Known(polls[p]), polls[p])
  <2>1. PICK t \in DOMAIN polls[p].tasks :
          \/ ServiceOf[t] \notin polls[p].services
          \/ polls[p].tasks[t] \in DOMAIN known /\ ~known[polls[p].tasks[t]].spec
    BY <1>1 DEF ReloadThrows, Unusable
  <2>2. polls[p] # Idle
    BY <1>1, OpenIsNotIdle DEF ReloadThrows
  <2>3. StructType(Known(polls[p])) /\ NodesType(polls[p].nodes)
    BY <1>1, <2>2, KnownType DEF TypeInv, PollType
  <2>4. \A n \in DOMAIN known :
          n \in DOMAIN Known(polls[p]) /\ n \in DOMAIN polls[p].nodes => known[n].spec = TRUE
    BY <2>3, UpdateNodesType
  <2> HIDE DEF known
  <2> QED BY <2>1, <2>4
<1>2. TypeInv /\ [Next]_vars => [\A p \in Polls : ReloadThrows(p) => News(p)]_vars
  BY <1>1
<1>3. Init => TypeInv
  BY InitType
<1>4. TypeInv /\ [Next]_vars => TypeInv'
  BY TypeStep
<1>5. (Spec => [][\A p \in Polls : ReloadThrows(p) => News(p)]_vars) => (Spec => FailsOnlyOnNews)
  BY DEF FailsOnlyOnNews
<1> QED BY <1>2, <1>3, <1>4, <1>5, PTL DEF Spec
=============================================================================
