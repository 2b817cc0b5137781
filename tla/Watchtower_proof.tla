--------------------------- MODULE Watchtower_proof ---------------------------
(***************************************************************************)
(* Proofs about watchtower, for any number of containers and instances,    *)
(* any links, images and command lines and any faults.                     *)
(*                                                                         *)
(* The host keeps a watchtower: instances that stop each other, each from  *)
(* a list that may be old, do not stop all (PurgeInv).                     *)
(*                                                                         *)
(* An update takes no container down silently (DownInv), stops what        *)
(* depends on a container first, and has its failures follow the links     *)
(* (UpdateInv).  These hold for a watchtower that is alone on its host,    *)
(* and in general where its instances keep out of each other's way:        *)
(* NoneCutShort and OneAtATime say what they need of that.                 *)
(***************************************************************************)
EXTENDS Watchtower, FiniteSetTheorems, WellFoundedInduction, TLAPS

ProcFields == {"pc", "term", "stops", "starts", "seen"}

(* An instance that runs, or whose container is left after it exited.      *)
There(w) == wt[w].state \in {"running", "exited"}

Shape ==
  /\ DOMAIN wt = Instance /\ \A w \in Instance : DOMAIN wt[w] = {"state", "name", "version"}
  /\ DOMAIN proc = Instance /\ \A i \in Instance : DOMAIN proc[i] = ProcFields

(* Each instance that is to be stopped has a younger one that is there:    *)
(* when that one is removed first, it was on a list itself.                *)
YoungerThere(s) ==
  /\ s \in Seq(Instance)
  /\ \A k \in 1 .. Len(s) : \E w \in Instance : w > s[k] /\ There(w)

PurgeInv ==
  /\ Shape
  /\ \A i \in Instance : proc[i].pc = "off" => ~There(i)
  /\ \A i \in Instance : proc[i].pc = "purging" => YoungerThere(proc[i].stops)
  /\ \E w \in Instance : There(w)

-----------------------------------------------------------------------------
(***************************************************************************)
(* Lists                                                                   *)
(***************************************************************************)

LEMMA InstanceFacts ==
  /\ Cardinality(Instance) \in Nat /\ 1 \in Instance
  /\ Instance = 1 .. Cardinality(Instance) /\ Instance \subseteq Nat
<1>1. Cardinality(Instance) \in Nat
  BY InstanceAssumption, FS_CardinalityType
<1> QED BY <1>1, InstanceAssumption

(* The youngest of the instances that run: a least upper bound.            *)
LEMMA MaxFacts ==
  ASSUME NEW S \in SUBSET Instance, S # {}
  PROVE  Max(S) \in S /\ \A y \in S : Max(S) >= y
<1> DEFINE U == {n \in Nat : \A y \in S : y <= n}
           R == OpToRel(<, Nat)
<1>1. Cardinality(Instance) \in U
  BY InstanceFacts
<1>2. PICK m \in U : \A n \in U : <<n, m>> \notin R
  <2>1. U \subseteq Nat /\ U # {}
    BY <1>1
  <2> HIDE DEF U
  <2> QED BY <2>1, NatLessThanWellFounded, WFMin
<1>3. \A n \in U : ~(n < m)
  BY <1>2 DEF OpToRel
<1>4. m \in S
  <2> SUFFICES ASSUME m \notin S PROVE FALSE
    OBVIOUS
  <2>1. PICK y \in S : TRUE
    OBVIOUS
  <2>2. S \subseteq Nat /\ 1 <= y /\ y <= m /\ m \in Nat
    BY InstanceFacts
  <2>3. m - 1 \in U
    BY <2>2
  <2> QED BY <1>3, <2>2, <2>3
<1>5. \E x \in S : \A y \in S : x >= y
  BY <1>4, InstanceFacts
<1> QED BY <1>5 DEF Max

(* What CheckPrereqs is going to stop.                                     *)
LEMMA OlderFacts ==
  ASSUME Shape, NEW s \in ByCreated(Older)
  PROVE  YoungerThere(s)
<1>1. RunningInstances \subseteq Instance /\ Older \subseteq RunningInstances
  BY DEF RunningInstances, Older
<1>2. Cardinality(Older) \in Nat
  BY <1>1, InstanceAssumption, FS_Subset, FS_CardinalityType
<1>3. s \in [1 .. Cardinality(Older) -> Older]
  BY DEF ByCreated
<1>4. s \in Seq(Instance) /\ Len(s) = Cardinality(Older)
  BY <1>1, <1>2, <1>3
<1>5. ASSUME NEW k \in 1 .. Len(s) PROVE \E w \in Instance : w > s[k] /\ There(w)
  <2>1. s[k] \in Older
    BY <1>3, <1>4, <1>5
  <2>2. s[k] \in RunningInstances /\ s[k] # Max(RunningInstances)
    BY <2>1 DEF Older
  <2>3. Max(RunningInstances) \in RunningInstances /\ Max(RunningInstances) >= s[k]
    BY <1>1, <2>2, MaxFacts
  <2>4. Max(RunningInstances) > s[k]
    <3>1. Max(RunningInstances) \in Nat /\ s[k] \in Nat
      BY <1>1, <2>2, <2>3, InstanceFacts
    <3> QED BY <2>2, <2>3, <3>1
  <2> QED BY <1>1, <2>3, <2>4 DEF RunningInstances, There
<1> QED BY <1>4, <1>5 DEF YoungerThere

-----------------------------------------------------------------------------
(***************************************************************************)
(* Steps                                                                   *)
(***************************************************************************)

(* What a process may become.                                              *)
ProcOK(q) ==
  /\ DOMAIN q = ProcFields /\ q.pc # "off"
  /\ q.pc = "purging" => YoungerThere(q.stops)

LEMMA Frame ==
  ASSUME PurgeInv, Shape', (\E w \in Instance : There(w))',
         \A s : YoungerThere(s) => YoungerThere(s)',
         \A j \in Instance : \/ proc'[j] = proc[j] /\ (There(j)' => There(j))
                             \/ ProcOK(proc'[j])
  PROVE  PurgeInv'
<1>1. ASSUME NEW j \in Instance, proc'[j].pc = "off" PROVE ~There(j)'
  BY <1>1 DEF PurgeInv, ProcOK
<1>2. ASSUME NEW j \in Instance, proc'[j].pc = "purging" PROVE YoungerThere(proc[j].stops)'
  <2>1. YoungerThere(proc'[j].stops)
    BY <1>2 DEF PurgeInv, ProcOK
  <2>2. \A s : s = proc'[j].stops => YoungerThere(s)'
    BY <2>1
  <2> QED BY <2>2
<1> QED BY <1>1, <1>2 DEF PurgeInv

(* As long as no instance goes, lists stay good.                           *)
LEMMA NobodyGoes ==
  ASSUME PurgeInv, \A w \in Instance : There(w) => There(w)'
  PROVE  /\ (\E w \in Instance : There(w))'
         /\ \A s : YoungerThere(s) => YoungerThere(s)'
BY DEF PurgeInv, YoungerThere

(* One process takes a step; its instance may start or exit, and names may *)
(* change.                                                                 *)
LEMMA Moves ==
  ASSUME PurgeInv, NEW i \in Instance, NEW q, ProcOK(q), proc' = [proc EXCEPT ![i] = q],
         DOMAIN wt' = Instance, \A w \in Instance : DOMAIN wt'[w] = {"state", "name", "version"},
         \A w \in Instance : There(w) => There(w)',
         \A w \in Instance \ {i} : There(w)' => There(w)
  PROVE  PurgeInv'
<1>1. /\ DOMAIN proc' = Instance /\ proc'[i] = q
      /\ \A j \in Instance \ {i} : proc'[j] = proc[j]
  BY DEF PurgeInv, Shape
<1>2. Shape'
  BY <1>1 DEF PurgeInv, Shape, ProcOK
<1>3. \A j \in Instance : \/ proc'[j] = proc[j] /\ (There(j)' => There(j))
                          \/ ProcOK(proc'[j])
  BY <1>1
<1> QED BY <1>2, <1>3, NobodyGoes, Frame

LEMMA MovesAlone ==
  ASSUME PurgeInv, NEW i \in Instance, NEW q, ProcOK(q), proc' = [proc EXCEPT ![i] = q],
         UNCHANGED wt
  PROVE  PurgeInv'
BY Moves DEF PurgeInv, Shape, There

LEMMA Stays ==
  ASSUME PurgeInv, UNCHANGED <<wt, proc>>
  PROVE  PurgeInv'
BY DEF PurgeInv, Shape, YoungerThere, There

LEMMA StatesFacts ==
  /\ DOMAIN Off = ProcFields /\ DOMAIN Booting = ProcFields /\ DOMAIN Ended = ProcFields
  /\ Booting.pc = "prereqs" /\ Ended.pc = "ended"
  /\ ProcOK(Booting) /\ ProcOK(Ended)
BY DEF Off, Booting, Ended, ProcFields, ProcOK

LEMMA LaunchStep ==
  ASSUME PurgeInv, NEW i \in Instance, Launch(i)
  PROVE  PurgeInv'
<1> DEFINE new == [state |-> "running", name |-> FreshName, version |-> local[Own]]
<1>1. wt' = [wt EXCEPT ![i] = new] /\ proc' = [proc EXCEPT ![i] = Booting]
  BY DEF Launch
<1>2. DOMAIN new = {"state", "name", "version"} /\ new.state = "running"
  OBVIOUS
<1> HIDE DEF new
<1>3. /\ DOMAIN wt' = Instance /\ wt'[i] = new
      /\ \A w \in Instance \ {i} : wt'[w] = wt[w]
  BY <1>1 DEF PurgeInv, Shape
<1>4. /\ \A w \in Instance : DOMAIN wt'[w] = {"state", "name", "version"}
      /\ \A w \in Instance : There(w) => There(w)'
      /\ \A w \in Instance \ {i} : There(w)' => There(w)
  BY <1>2, <1>3 DEF PurgeInv, Shape, There
<1> QED BY <1>1, <1>3, <1>4, StatesFacts, Moves

LEMMA CheckPrereqsStep ==
  ASSUME PurgeInv, NEW i \in Instance, CheckPrereqs(i)
  PROVE  PurgeInv'
<1>1. PICK older \in ByCreated(Older) :
        proc' = [proc EXCEPT ![i].pc = "purging", ![i].stops = older]
  BY DEF CheckPrereqs
<1>2. UNCHANGED wt
  BY DEF CheckPrereqs, host
<1> DEFINE q == [proc[i] EXCEPT !.pc = "purging", !.stops = older]
<1>3. DOMAIN proc[i] = ProcFields
  BY DEF PurgeInv, Shape
<1>4. DOMAIN q = ProcFields /\ q.pc = "purging" /\ q.stops = older
  BY <1>3 DEF ProcFields
<1>5. proc' = [proc EXCEPT ![i] = q]
  BY <1>1 DEF PurgeInv, Shape
<1> HIDE DEF q
<1>6. ProcOK(q)
  BY <1>4, OlderFacts DEF ProcOK, PurgeInv
<1> QED BY <1>2, <1>5, <1>6, MovesAlone

(* The instance exits and its container stays.                             *)
LEMMA Exits ==
  ASSUME PurgeInv, NEW i \in Instance, proc' = [proc EXCEPT ![i] = Ended],
         wt' = [wt EXCEPT ![i].state = "exited"]
  PROVE  PurgeInv'
<1> DEFINE new == [wt[i] EXCEPT !.state = "exited"]
<1>1. DOMAIN wt[i] = {"state", "name", "version"}
  BY DEF PurgeInv, Shape
<1>2. DOMAIN new = {"state", "name", "version"} /\ new.state = "exited"
  BY <1>1
<1>3. wt' = [wt EXCEPT ![i] = new]
  OBVIOUS
<1> HIDE DEF new
<1>4. /\ DOMAIN wt' = Instance /\ wt'[i] = new
      /\ \A w \in Instance \ {i} : wt'[w] = wt[w]
  BY <1>3 DEF PurgeInv, Shape
<1>5. /\ \A w \in Instance : DOMAIN wt'[w] = {"state", "name", "version"}
      /\ \A w \in Instance : There(w) => There(w)'
      /\ \A w \in Instance \ {i} : There(w)' => There(w)
  BY <1>2, <1>4 DEF PurgeInv, Shape, There
<1> QED BY <1>4, <1>5, StatesFacts, Moves

LEMMA TailFacts ==
  ASSUME NEW s, YoungerThere(s), s # <<>>
  PROVE  /\ YoungerThere(Tail(s))
         /\ Head(s) \in Instance /\ \E w \in Instance : w > Head(s) /\ There(w)
<1>1. /\ s \in Seq(Instance) /\ Len(s) \in Nat \ {0} /\ Head(s) = s[1]
      /\ Tail(s) \in Seq(Instance) /\ Len(Tail(s)) = Len(s) - 1
      /\ \A k \in 1 .. Len(Tail(s)) : Tail(s)[k] = s[k + 1]
  BY DEF YoungerThere
<1>2. \A k \in 1 .. Len(s) : s[k] \in Instance /\ \E w \in Instance : w > s[k] /\ There(w)
  BY <1>1 DEF YoungerThere
<1>3. \A k \in 1 .. Len(Tail(s)) : \E w \in Instance : w > Tail(s)[k] /\ There(w)
  BY <1>1, <1>2
<1> QED BY <1>1, <1>2, <1>3 DEF YoungerThere

(* An instance stops an older one, or fails to.  Of those that are there   *)
(* only that one goes, and a younger one is there.                         *)
LEMMA PurgeStep ==
  ASSUME PurgeInv, NEW i \in Instance, Purge(i)
  PROVE  PurgeInv'
<1> DEFINE v == Head(proc[i].stops)
           q == [proc[i] EXCEPT !.stops = Tail(@)]
           next == [proc EXCEPT ![i] = q]
           removed == [wt EXCEPT ![v].state = "none"]
           exited == [wt EXCEPT ![v].state = "exited"]
           gone == [next EXCEPT ![v] = Ended]
           told == [next EXCEPT ![v].term = TRUE]
<1>1. YoungerThere(proc[i].stops) /\ proc[i].stops # <<>> /\ DOMAIN proc[i] = ProcFields
  BY DEF Purge, PurgeInv, Shape
<1>2. v \in Instance /\ YoungerThere(Tail(proc[i].stops))
  BY <1>1, TailFacts
<1>3. PICK y \in Instance : y > v /\ There(y)
  BY <1>1, TailFacts
<1>4. ProcOK(q)
  <2>1. DOMAIN q = ProcFields /\ q.stops = Tail(proc[i].stops) /\ q.pc = "purging"
    BY <1>1 DEF Purge, ProcFields
  <2> HIDE DEF q
  <2> QED BY <1>2, <2>1 DEF ProcOK
<1>5. \/ UNCHANGED wt /\ proc' = next
      \/ wt[v].state = "running" /\ wt' \in {removed, exited} /\ proc' = gone
      \/ wt[v].state = "running" /\ UNCHANGED wt /\ proc' = told
  BY DEF Purge
<1>6. CASE UNCHANGED wt /\ proc' = next
  BY <1>4, <1>6, MovesAlone
<1>7. CASE wt[v].state = "running" /\ wt' \in {removed, exited, wt} /\ proc' \in {gone, told}
  <2> HIDE DEF q, v
  <2>1. /\ DOMAIN next = Instance /\ next[i] = q
        /\ \A j \in Instance \ {i} : next[j] = proc[j]
    BY DEF PurgeInv, Shape
  <2>2. There(v) /\ ProcOK(next[v])
    <3>1. There(v)
      BY <1>7 DEF There
    <3>2. ProcOK(proc[v])
      BY <1>2, <3>1 DEF PurgeInv, Shape, ProcOK
    <3> QED BY <1>2, <1>4, <2>1, <3>1, <3>2
  <2>3. /\ DOMAIN proc' = Instance
        /\ \A j \in Instance \ {v} : proc'[j] = next[j]
        /\ proc'[v] \in {Ended, [next[v] EXCEPT !.term = TRUE]}
    <3> HIDE DEF next
    <3> QED BY <1>2, <1>7, <2>1
  <2>4. ProcOK([next[v] EXCEPT !.term = TRUE])
    <3> DEFINE o == next[v]
               m == [o EXCEPT !.term = TRUE]
    <3>1. DOMAIN o = ProcFields
      BY <2>2 DEF ProcOK
    <3> HIDE DEF o
    <3>2. DOMAIN m = ProcFields /\ m.pc = o.pc /\ m.stops = o.stops
      BY <3>1 DEF ProcFields
    <3> HIDE DEF m
    <3>3. ProcOK(m)
      BY <2>2, <3>2 DEF ProcOK, o
    <3> QED BY <3>3 DEF m, o
  <2>5. \A j \in Instance : proc'[j] = proc[j] \/ ProcOK(proc'[j])
    <3> HIDE DEF next
    <3> QED BY <1>4, <2>1, <2>3, <2>4, StatesFacts
  <2>6. /\ DOMAIN wt' = Instance
        /\ \A w \in Instance \ {v} : wt'[w] = wt[w]
        /\ DOMAIN wt'[v] = {"state", "name", "version"}
    <3>1. DOMAIN wt = Instance /\ DOMAIN wt[v] = {"state", "name", "version"}
      BY <1>2 DEF PurgeInv, Shape
    <3> QED BY <1>2, <1>7, <3>1
  <2>7. Shape'
    BY <2>3, <2>5, <2>6 DEF PurgeInv, Shape, ProcOK
  <2>8. /\ \A w \in Instance \ {v} : There(w)' <=> There(w)
        /\ There(y)' /\ v \in Nat /\ y \in Nat
    <3>1. \A w \in Instance \ {v} : There(w)' <=> There(w)
      BY <2>6 DEF There
    <3>2. v \in Nat /\ y \in Nat
      BY <1>2, InstanceFacts
    <3> QED BY <1>3, <3>1, <3>2
  <2>9. ASSUME NEW s, YoungerThere(s) PROVE YoungerThere(s)'
    <3>1. ASSUME NEW k \in 1 .. Len(s) PROVE \E w \in Instance : w > s[k] /\ There(w)'
      <4>1. PICK w \in Instance : w > s[k] /\ There(w)
        BY <2>9, <3>1 DEF YoungerThere
      <4>2. s[k] \in Nat /\ w \in Nat
        BY <2>9, <3>1, InstanceFacts DEF YoungerThere
      <4>3. CASE w = v
        <5>1. y > s[k]
          BY <1>3, <2>8, <4>1, <4>2, <4>3
        <5> QED BY <2>8, <5>1
      <4>4. CASE w # v
        BY <2>8, <4>1, <4>4
      <4> QED BY <4>3, <4>4
    <3> QED BY <2>9, <3>1 DEF YoungerThere
  <2>10. \A j \in Instance : \/ proc'[j] = proc[j] /\ (There(j)' => There(j))
                             \/ ProcOK(proc'[j])
    BY <2>2, <2>5, <2>8
  <2> QED BY <2>7, <2>8, <2>9, <2>10, Frame
<1> QED BY <1>5, <1>6, <1>7

LEMMA PlanStep ==
  ASSUME PurgeInv, NEW i \in Instance, NEW pulled, NEW compared, Plan(i, pulled, compared)
  PROVE  PurgeInv'
<1> DEFINE q(order, stale) ==
             [pc |-> "updating", term |-> FALSE,
              stops |-> Reverse(order), starts |-> order, seen |-> Seen(stale)]
<1>1. UNCHANGED wt /\ (UNCHANGED proc \/ \E order, stale : proc' = [proc EXCEPT ![i] = q(order, stale)])
  BY DEF Plan
<1>2. \A order, stale : ProcOK(q(order, stale))
  BY DEF ProcOK, ProcFields
<1> HIDE DEF q
<1> QED BY <1>1, <1>2, MovesAlone, Stays

LEMMA RestartedFacts ==
  ASSUME PurgeInv, NEW i \in Instance
  PROVE  ProcOK(Restarted(i))
<1>1. DOMAIN proc[i] = ProcFields
  BY DEF PurgeInv, Shape
<1> QED BY <1>1 DEF Restarted, ProcOK, ProcFields

(* The steps of an update, but for the start of another instance.          *)
LEMMA UpdateStep ==
  ASSUME PurgeInv, NEW i \in Instance,
         PurgeReturns(i) \/ PassOver(i) \/ Stop(i) \/ NotRestarted(i) \/ Start(i) \/ CleanUp(i)
  PROVE  PurgeInv'
<1>1. DOMAIN proc[i] = ProcFields
  BY DEF PurgeInv, Shape
<1>2. UNCHANGED wt
  BY DEF PurgeReturns, PassOver, Stop, NotRestarted, Start, CleanUp, host
<1>3. CASE PurgeReturns(i)
  <2>1. proc' = [proc EXCEPT ![i] = [proc[i] EXCEPT !.pc = "idle"]]
    BY <1>3 DEF PurgeReturns
  <2>2. ProcOK([proc[i] EXCEPT !.pc = "idle"])
    BY <1>1 DEF ProcOK, ProcFields
  <2> QED BY <1>2, <2>1, <2>2, MovesAlone
<1>4. CASE PassOver(i) \/ Stop(i)
  <2>1. proc' = [proc EXCEPT ![i] = StopLoopGoesOn(i)]
    BY <1>4 DEF PassOver, Stop
  <2>2. ProcOK(StopLoopGoesOn(i))
    BY <1>1, <1>4 DEF PassOver, Stop, StopLoopGoesOn, ProcOK, ProcFields
  <2> QED BY <1>2, <2>1, <2>2, MovesAlone
<1>5. CASE NotRestarted(i) \/ Start(i)
  <2>1. proc' = [proc EXCEPT ![i] = Restarted(i)]
    BY <1>5 DEF NotRestarted, Start
  <2> QED BY <1>2, <2>1, RestartedFacts, MovesAlone
<1>6. CASE CleanUp(i)
  <2> DEFINE q == [proc[i] EXCEPT !.pc = "updating", !.starts = Tail(@)]
  <2>1. proc' = [proc EXCEPT ![i] = q]
    BY <1>6 DEF CleanUp, PurgeInv, Shape
  <2>2. ProcOK(q)
    BY <1>1 DEF ProcOK, ProcFields
  <2> QED BY <1>2, <2>1, <2>2, MovesAlone
<1> QED BY <1>3, <1>4, <1>5, <1>6

LEMMA RenameStep ==
  ASSUME PurgeInv, NEW i \in Instance, Rename(i)
  PROVE  PurgeInv'
<1> DEFINE c == Head(proc[i].starts)
           goesOn == [proc[i] EXCEPT !.pc = "renamed"]
           leaves == [proc[i] EXCEPT !.starts = Tail(@)]
<1>1. DOMAIN proc[i] = ProcFields /\ proc[i].pc = "updating"
  BY DEF Rename, Restarting, PurgeInv, Shape
<1>2. ProcOK(goesOn) /\ ProcOK(leaves)
  BY <1>1 DEF ProcOK, ProcFields
<1>3. CASE UNCHANGED wt /\ proc' = [proc EXCEPT ![i] = leaves]
  BY <1>2, <1>3, MovesAlone
<1>4. CASE c \in Instance /\ wt' = [wt EXCEPT ![c].name = FreshName]
           /\ proc' = [proc EXCEPT ![i] = goesOn]
  <2> DEFINE new == [wt[c] EXCEPT !.name = FreshName]
  <2> HIDE DEF c
  <2>1. DOMAIN wt[c] = {"state", "name", "version"}
    BY <1>4 DEF PurgeInv, Shape
  <2>2. DOMAIN new = {"state", "name", "version"} /\ new.state = wt[c].state
    BY <2>1
  <2>3. wt' = [wt EXCEPT ![c] = new]
    BY <1>4
  <2> HIDE DEF new
  <2>4. /\ DOMAIN wt' = Instance /\ wt'[c] = new
        /\ \A w \in Instance \ {c} : wt'[w] = wt[w]
    BY <1>4, <2>3 DEF PurgeInv, Shape
  <2>5. /\ \A w \in Instance : DOMAIN wt'[w] = {"state", "name", "version"}
        /\ \A w \in Instance : There(w) <=> There(w)'
    BY <2>2, <2>4 DEF PurgeInv, Shape, There
  <2> HIDE DEF goesOn
  <2> QED BY <1>2, <1>4, <2>4, <2>5, Moves
<1> QED BY <1>3, <1>4 DEF Rename

(* The replacement has never been there before.                            *)
LEMMA StartInstanceStep ==
  ASSUME PurgeInv, NEW i \in Instance, StartInstance(i)
  PROVE  PurgeInv'
<1> DEFINE c == Head(proc[i].starts)
           new(s) == [state |-> s, name |-> proc[i].seen[c].name, version |-> local[Own]]
           after == [proc EXCEPT ![i] = Restarted(i)]
<1>1. \/ UNCHANGED wt /\ proc' = after
      \/ \E n \in NextInstance :
           \/ wt' = [wt EXCEPT ![n] = new("running")] /\ proc' = [after EXCEPT ![n] = Booting]
           \/ wt' = [wt EXCEPT ![n] = new("created")] /\ proc' = [after EXCEPT ![n] = Ended]
  BY DEF StartInstance
<1>2. CASE UNCHANGED wt /\ proc' = after
  BY <1>2, RestartedFacts, MovesAlone
<1>3. ASSUME NEW n \in NextInstance, NEW s, NEW p,
             wt' = [wt EXCEPT ![n] = new(s)], proc' = [after EXCEPT ![n] = p], ProcOK(p)
      PROVE  PurgeInv'
  <2>1. n \in Instance /\ proc[n].pc = "off"
    BY DEF NextInstance, Unborn
  <2>2. ~There(n)
    BY <2>1 DEF PurgeInv
  <2>3. /\ DOMAIN after = Instance /\ after[i] = Restarted(i)
        /\ \A j \in Instance \ {i} : after[j] = proc[j]
    BY DEF PurgeInv, Shape
  <2>4. ProcOK(Restarted(i))
    BY RestartedFacts
  <2> HIDE DEF after
  <2>5. /\ DOMAIN proc' = Instance /\ proc'[n] = p
        /\ \A j \in Instance \ {n} : proc'[j] = after[j]
    BY <1>3, <2>1, <2>3
  <2>6. \A j \in Instance \ {n} : proc'[j] = proc[j] \/ ProcOK(proc'[j])
    BY <2>3, <2>4, <2>5
  <2>7. DOMAIN new(s) = {"state", "name", "version"}
    OBVIOUS
  <2> HIDE DEF new
  <2>8. /\ DOMAIN wt' = Instance /\ wt'[n] = new(s)
        /\ \A w \in Instance \ {n} : wt'[w] = wt[w]
    BY <1>3, <2>1 DEF PurgeInv, Shape
  <2>9. Shape'
    BY <1>3, <2>5, <2>6, <2>7, <2>8 DEF PurgeInv, Shape, ProcOK
  <2>10. \A w \in Instance \ {n} : There(w) <=> There(w)'
    BY <2>8 DEF There
  <2>11. \A w \in Instance : There(w) => There(w)'
    BY <2>2, <2>10
  <2>12. \A j \in Instance : \/ proc'[j] = proc[j] /\ (There(j)' => There(j))
                             \/ ProcOK(proc'[j])
    BY <1>3, <2>5, <2>6, <2>10
  <2> QED BY <2>9, <2>11, <2>12, NobodyGoes, Frame
<1> HIDE DEF after, new
<1> QED BY <1>1, <1>2, <1>3, StatesFacts

LEMMA UpdateReturnsStep ==
  ASSUME PurgeInv, NEW i \in Instance, UpdateReturns(i)
  PROVE  PurgeInv'
<1>1. CASE proc[i].term
  BY <1>1, Exits DEF UpdateReturns
<1>2. CASE ~proc[i].term
  <2>1. UNCHANGED wt /\ proc' = [proc EXCEPT ![i] = [Off EXCEPT !.pc = "idle"]]
    BY <1>2 DEF UpdateReturns
  <2>2. ProcOK([Off EXCEPT !.pc = "idle"])
    BY DEF Off, ProcOK, ProcFields
  <2> QED BY <2>1, <2>2, MovesAlone
<1> QED BY <1>1, <1>2

LEMMA PurgeInvInit == Init => PurgeInv
<1> SUFFICES ASSUME Init PROVE PurgeInv
  OBVIOUS
<1>1. Shape
  BY DEF Init, Shape, Off, Booting, ProcFields
<1>2. There(1) /\ 1 \in Instance
  BY InstanceFacts DEF Init, There
<1>3. \A i \in Instance : /\ proc[i].pc = "off" => ~There(i)
                          /\ proc[i].pc # "purging"
  BY DEF Init, There, Off, Booting
<1> QED BY <1>1, <1>2, <1>3 DEF PurgeInv

LEMMA PurgeInvStep == PurgeInv /\ [Next]_vars => PurgeInv'
<1> SUFFICES ASSUME PurgeInv, [Next]_vars PROVE PurgeInv'
  OBVIOUS
<1>1. ASSUME NEW m \in Image, Push(m) PROVE PurgeInv'
  BY <1>1, Stays DEF Push, host
<1>2. ASSUME NEW a \in App, Crash(a) PROVE PurgeInv'
  BY <1>2, Stays DEF Crash
<1>3. ASSUME NEW i \in Instance, PlanUpdate(i) PROVE PurgeInv'
  BY <1>3, PlanStep DEF PlanUpdate
<1>4. ASSUME NEW i \in Instance, ListFails(i) PROVE PurgeInv'
  BY <1>4, Stays DEF ListFails, host
<1>5. ASSUME NEW i \in Instance, PrereqsFail(i) PROVE PurgeInv'
  BY <1>5, Exits DEF PrereqsFail
<1>6. ASSUME NEW i \in Instance, Step(i) PROVE PurgeInv'
  BY <1>3, <1>4, <1>5, <1>6, CheckPrereqsStep, PurgeStep, UpdateStep, RenameStep,
     StartInstanceStep, UpdateReturnsStep DEF Step
<1>7. CASE UNCHANGED vars
  BY <1>7, Stays DEF vars, host
<1> QED BY <1>1, <1>2, <1>6, <1>7, LaunchStep DEF Next

(* Instances stop each other from lists that may be old by then, fail,     *)
(* exit and replace themselves, in any order: a watchtower runs, or one    *)
(* exited by itself.                                                       *)
THEOREM SomeWatchtowerRunsHolds == Spec => []SomeWatchtowerRuns
<1>1. PurgeInv => SomeWatchtowerRuns
  BY DEF PurgeInv, There, SomeWatchtowerRuns, RunningInstances
<1> QED BY <1>1, PurgeInvInit, PurgeInvStep, PTL DEF Spec

-----------------------------------------------------------------------------
(***************************************************************************)
(* Types                                                                   *)
(***************************************************************************)

(* An update is under way.                                                 *)
Busy(q) == q.pc \in {"updating", "renamed", "cleaning"}

(* What the place a process is at says of its lists.                       *)
Phase(q) ==
  /\ ~Busy(q) => q.starts = <<>>
  /\ q.pc \notin {"purging", "updating"} => q.stops = <<>>
  /\ q.pc \in {"renamed", "cleaning"} => q.starts # <<>>
  /\ q.pc = "renamed" => Head(q.starts) \in Instance
  /\ q.pc = "purging" => ToSet(q.stops) \subseteq Instance
  /\ q.pc = "updating" => ToSet(q.stops) \subseteq ToSet(q.starts)

Proper(q) ==
  /\ DOMAIN q = ProcFields
  /\ q.pc \in PCs /\ q.term \in BOOLEAN
  /\ q.stops \in Seq(Container) /\ q.starts \in Seq(Container)
  /\ DOMAIN q.seen \subseteq Container /\ \A c \in DOMAIN q.seen : q.seen[c].name \in Nat
  /\ ToSet(q.starts) \subseteq DOMAIN q.seen
  /\ Phase(q)

States == {"running", "exited", "created", "none"}

Hosts ==
  /\ config \in Configs
  /\ links \in Links
  /\ box \in [App -> [state : States, id : Nat, version : 1 .. MaxVersion]]
  /\ wt \in [Instance -> [state : States, name : Nat, version : 0 .. MaxVersion]]
  /\ registry \in [Image -> 1 .. MaxVersion]
  /\ local \in [Image -> 0 .. MaxVersion]
  /\ faults \in 0 .. MaxFaults
  /\ faulty \subseteq App
  /\ failed \subseteq App

Procs == DOMAIN proc = Instance /\ \A i \in Instance : Proper(proc[i])

TypeInv == Hosts /\ Procs

LEMMA ListFacts ==
  ASSUME NEW s \in Seq(Container)
  PROVE  /\ ToSet(s) \subseteq Container
         /\ \A x : x \in ToSet(s) <=> \E k \in DOMAIN s : s[k] = x
         /\ s # <<>> => /\ Tail(s) \in Seq(Container) /\ Head(s) \in ToSet(s)
                         /\ ToSet(s) = {Head(s)} \cup ToSet(Tail(s))
<1>1. /\ ToSet(s) \subseteq Container
      /\ \A x : x \in ToSet(s) <=> \E k \in DOMAIN s : s[k] = x
  BY DEF ToSet
<1>2. ASSUME s # <<>>
      PROVE  /\ Tail(s) \in Seq(Container) /\ Head(s) \in ToSet(s)
             /\ ToSet(s) = {Head(s)} \cup ToSet(Tail(s))
  <2>1. /\ Len(s) \in Nat \ {0} /\ DOMAIN s = 1 .. Len(s) /\ Head(s) = s[1]
        /\ Tail(s) \in Seq(Container) /\ DOMAIN Tail(s) = 1 .. Len(s) - 1
        /\ \A k \in 1 .. Len(s) - 1 : Tail(s)[k] = s[k + 1]
    BY <1>2
  <2>2. \A x : x \in ToSet(Tail(s)) <=> \E k \in 1 .. Len(s) - 1 : s[k + 1] = x
    BY <2>1 DEF ToSet
  <2>3. \A x : x \in ToSet(s) <=> \E k \in 1 .. Len(s) : s[k] = x
    BY <1>1, <2>1
  <2>4. ASSUME NEW k \in 1 .. Len(s) PROVE k = 1 \/ (k - 1 \in 1 .. Len(s) - 1 /\ (k - 1) + 1 = k)
    BY <2>1
  <2>5. \A k \in 1 .. Len(s) - 1 : k + 1 \in 1 .. Len(s)
    BY <2>1
  <2>6. 1 \in 1 .. Len(s)
    BY <2>1
  <2>7. ToSet(s) \subseteq {Head(s)} \cup ToSet(Tail(s))
    BY <2>1, <2>2, <2>3, <2>4
  <2>8. {Head(s)} \cup ToSet(Tail(s)) \subseteq ToSet(s)
    BY <2>1, <2>2, <2>3, <2>5, <2>6
  <2> QED BY <2>1, <2>7, <2>8
<1> QED BY <1>1, <1>2

LEMMA NoNames == ToSet(<<>>) = {} /\ <<>> \in Seq(Container)
BY DEF ToSet

(* The smallest number that is not in a finite set is a number.            *)
LEMMA FreshFacts ==
  ASSUME NEW S \in SUBSET Nat, IsFiniteSet(S)
  PROVE  Min((0 .. Cardinality(S)) \ S) \in Nat
<1> DEFINE n == Cardinality(S)
           F == (0 .. n) \ S
           R == OpToRel(<, Nat)
<1>1. n \in Nat
  BY FS_CardinalityType
<1>2. F # {}
  <2> SUFFICES ASSUME F = {} PROVE FALSE
    OBVIOUS
  <2>1. (0 .. n) \in SUBSET S
    OBVIOUS
  <2>2. Cardinality(0 .. n) <= n
    BY <2>1, FS_Subset
  <2>3. Cardinality(0 .. n) = n + 1
    BY <1>1, FS_Interval
  <2> QED BY <1>1, <2>2, <2>3
<1>3. F \subseteq Nat
  BY <1>1
<1> HIDE DEF F
<1>4. PICK m \in F : \A k \in F : <<k, m>> \notin R
  BY <1>2, <1>3, NatLessThanWellFounded, WFMin
<1>5. \A k \in F : m <= k
  <2>1. \A k \in F : ~(k < m)
    BY <1>3, <1>4 DEF OpToRel
  <2> QED BY <1>3, <2>1
<1>6. Min(F) \in F
  BY <1>5 DEF Min
<1> QED BY <1>3, <1>6 DEF F

LEMMA FreshNameFacts == TypeInv => FreshName \in Nat
<1> SUFFICES ASSUME TypeInv PROVE FreshName \in Nat
  OBVIOUS
<1> DEFINE U == {j \in Instance : wt[j].state # "none"}
           f == [j \in U |-> wt[j].name]
           P == {p \in Instance \X Instance : p[2] \in DOMAIN proc[p[1]].seen}
           g == [p \in P |-> proc[p[1]].seen[p[2]].name]
<1>1. IsFiniteSet(U) /\ IsFiniteSet(P)
  <2>1. U \in SUBSET Instance /\ P \in SUBSET (Instance \X Instance)
    OBVIOUS
  <2>2. IsFiniteSet(Instance \X Instance)
    BY InstanceAssumption, FS_Product
  <2> QED BY <2>1, <2>2, InstanceAssumption, FS_Subset
<1>2. f \in Surjection(U, InUse) /\ InUse \subseteq Nat
  BY DEF InUse, Surjection, TypeInv, Hosts
<1>3. /\ \A x \in Pending : x \in Nat /\ \E p \in P : g[p] = x
      /\ \A p \in P : g[p] \in Pending
  <2>1. \A i \in Instance : \A c \in DOMAIN proc[i].seen : proc[i].seen[c].name \in Nat
    BY DEF TypeInv, Procs, Proper
  <2>2. ASSUME NEW x \in Pending PROVE x \in Nat /\ \E p \in P : g[p] = x
    <3>1. PICK i \in Instance : x \in {proc[i].seen[c].name : c \in DOMAIN proc[i].seen \cap Instance}
      BY DEF Pending
    <3>2. PICK c \in DOMAIN proc[i].seen \cap Instance : x = proc[i].seen[c].name
      BY <3>1
    <3>3. <<i, c>> \in P /\ g[<<i, c>>] = x
      BY <3>2
    <3> QED BY <2>1, <3>2, <3>3
  <2>3. ASSUME NEW p \in P PROVE g[p] \in Pending
    <3>1. p[1] \in Instance /\ p[2] \in DOMAIN proc[p[1]].seen \cap Instance
      OBVIOUS
    <3>2. g[p] \in {proc[p[1]].seen[c].name : c \in DOMAIN proc[p[1]].seen \cap Instance}
      BY <3>1
    <3> QED BY <3>1, <3>2 DEF Pending
  <2> HIDE DEF P, g
  <2> QED BY <2>2, <2>3
<1>4. g \in Surjection(P, Pending)
  <2>1. g \in [P -> Pending]
    BY <1>3
  <2> HIDE DEF P, g
  <2> QED BY <1>3, <2>1 DEF Surjection
<1>5. IsFiniteSet(InUse) /\ IsFiniteSet(Pending)
  <2> HIDE DEF U, P, f, g
  <2> QED BY <1>1, <1>2, <1>4, FS_Surjection
<1>6. IsFiniteSet(Taken) /\ Taken \in SUBSET Nat
  BY <1>2, <1>3, <1>5, FS_Union DEF Taken
<1> QED BY <1>6, FreshFacts DEF FreshName

(* What a step makes of a process.                                         *)
LEMMA StopsTail ==
  ASSUME NEW q, Proper(q), q.pc \in {"purging", "updating"}, q.stops # <<>>
  PROVE  LET r == [q EXCEPT !.stops = Tail(@)] IN
         /\ Proper(r) /\ r.stops = Tail(q.stops) /\ r.pc = q.pc
         /\ r.starts = q.starts /\ r.seen = q.seen
<1> DEFINE r == [q EXCEPT !.stops = Tail(@)]
<1>1. /\ DOMAIN r = ProcFields /\ r.stops = Tail(q.stops) /\ r.pc = q.pc /\ r.term = q.term
      /\ r.starts = q.starts /\ r.seen = q.seen
  BY DEF Proper, ProcFields
<1>2. Tail(q.stops) \in Seq(Container) /\ ToSet(Tail(q.stops)) \subseteq ToSet(q.stops)
  BY ListFacts DEF Proper
<1> HIDE DEF r
<1>3. Proper(r)
  BY <1>1, <1>2 DEF Proper, Phase, Busy
<1> QED BY <1>1, <1>3 DEF r

LEMMA Told ==
  ASSUME NEW q, Proper(q)
  PROVE  LET r == [q EXCEPT !.term = TRUE] IN
         /\ Proper(r) /\ r.stops = q.stops /\ r.pc = q.pc
         /\ r.starts = q.starts /\ r.seen = q.seen
<1> DEFINE r == [q EXCEPT !.term = TRUE]
<1>1. /\ DOMAIN r = ProcFields /\ r.stops = q.stops /\ r.pc = q.pc /\ r.term = TRUE
      /\ r.starts = q.starts /\ r.seen = q.seen
  BY DEF Proper, ProcFields
<1> HIDE DEF r
<1>2. Proper(r)
  BY <1>1 DEF Proper, Phase, Busy
<1> QED BY <1>1, <1>2 DEF r

LEMMA Renamed ==
  ASSUME NEW q, Proper(q), q.pc = "updating", q.stops = <<>>, q.starts # <<>>,
         Head(q.starts) \in Instance
  PROVE  LET r == [q EXCEPT !.pc = "renamed"] IN
         /\ Proper(r) /\ r.stops = <<>> /\ r.pc = "renamed"
         /\ r.starts = q.starts /\ r.seen = q.seen
<1> DEFINE r == [q EXCEPT !.pc = "renamed"]
<1>1. /\ DOMAIN r = ProcFields /\ r.stops = q.stops /\ r.pc = "renamed" /\ r.term = q.term
      /\ r.starts = q.starts /\ r.seen = q.seen
  BY DEF Proper, ProcFields
<1> HIDE DEF r
<1>2. Proper(r)
  BY <1>1, NoNames DEF Proper, Phase, Busy, PCs
<1> QED BY <1>1, <1>2 DEF r

LEMMA StartsTail ==
  ASSUME NEW q, Proper(q), Busy(q), q.stops = <<>>, q.starts # <<>>
  PROVE  LET r == [q EXCEPT !.pc = "updating", !.starts = Tail(@)] IN
         /\ Proper(r) /\ r.stops = <<>> /\ r.pc = "updating"
         /\ r.starts = Tail(q.starts) /\ r.seen = q.seen
<1> DEFINE r == [q EXCEPT !.pc = "updating", !.starts = Tail(@)]
<1>1. /\ DOMAIN r = ProcFields /\ r.stops = q.stops /\ r.pc = "updating" /\ r.term = q.term
      /\ r.starts = Tail(q.starts) /\ r.seen = q.seen
  BY DEF Proper, ProcFields
<1>2. Tail(q.starts) \in Seq(Container) /\ ToSet(Tail(q.starts)) \subseteq ToSet(q.starts)
  BY ListFacts DEF Proper
<1> HIDE DEF r
<1>3. Proper(r)
  BY <1>1, <1>2, NoNames DEF Proper, Phase, Busy, PCs
<1> QED BY <1>1, <1>3 DEF r

LEMMA AfterStart ==
  ASSUME NEW i \in Instance, Proper(proc[i]), Busy(proc[i]), proc[i].stops = <<>>,
         proc[i].starts # <<>>
  PROVE  LET r == Restarted(i) IN
         /\ Proper(r) /\ r.stops = <<>> /\ r.seen = proc[i].seen
         /\ \/ config.cleanup /\ r.pc = "cleaning" /\ r.starts = proc[i].starts
            \/ r.pc = "updating" /\ r.starts = Tail(proc[i].starts)
<1>1. CASE config.cleanup
  <2> DEFINE q == proc[i]
             r == [q EXCEPT !.pc = "cleaning"]
  <2>1. /\ DOMAIN r = ProcFields /\ r.stops = q.stops /\ r.pc = "cleaning" /\ r.term = q.term
        /\ r.starts = q.starts /\ r.seen = q.seen
    BY DEF Proper, ProcFields
  <2>2. r = Restarted(i)
    BY <1>1 DEF Restarted
  <2> HIDE DEF r
  <2>3. Proper(r)
    BY <2>1, NoNames DEF Proper, Phase, Busy, PCs
  <2> QED BY <1>1, <2>1, <2>2, <2>3
<1>2. CASE ~config.cleanup
  BY <1>2, StartsTail DEF Restarted
<1> QED BY <1>1, <1>2

LEMMA AfterNothing ==
  /\ Proper(Off) /\ Proper(Booting) /\ Proper(Ended) /\ Proper([Off EXCEPT !.pc = "idle"])
  /\ ~Busy(Off) /\ ~Busy(Booting) /\ ~Busy(Ended) /\ ~Busy([Off EXCEPT !.pc = "idle"])
<1> DEFINE P(q) == /\ DOMAIN q = ProcFields /\ q.pc \in {"off", "prereqs", "ended", "idle"}
                   /\ q.term = FALSE /\ q.stops = <<>> /\ q.starts = <<>> /\ q.seen = <<>>
<1>1. P(Off) /\ P(Booting) /\ P(Ended) /\ P([Off EXCEPT !.pc = "idle"])
  BY DEF Off, Booting, Ended, ProcFields
<1>2. DOMAIN <<>> = {}
  OBVIOUS
<1>3. ASSUME NEW q, P(q) PROVE Proper(q) /\ ~Busy(q)
  BY <1>2, <1>3, NoNames DEF Proper, Phase, Busy, PCs
<1> HIDE DEF P
<1> QED BY <1>1, <1>3

(* The lists of CheckPrereqs, and the end of its loop.                     *)
LEMMA Prerequisites ==
  ASSUME NEW q, Proper(q)
  PROVE  /\ q.pc = "prereqs" =>
              \A s : YoungerThere(s) =>
                LET r == [q EXCEPT !.pc = "purging", !.stops = s] IN Proper(r) /\ ~Busy(r)
         /\ q.pc = "purging" /\ q.stops = <<>> =>
              LET r == [q EXCEPT !.pc = "idle"] IN Proper(r) /\ ~Busy(r)
<1>1. ASSUME q.pc = "prereqs", NEW s, YoungerThere(s)
      PROVE  LET r == [q EXCEPT !.pc = "purging", !.stops = s] IN Proper(r) /\ ~Busy(r)
  <2> DEFINE r == [q EXCEPT !.pc = "purging", !.stops = s]
  <2>1. /\ DOMAIN r = ProcFields /\ r.stops = s /\ r.pc = "purging" /\ r.term = q.term
        /\ r.starts = q.starts /\ r.seen = q.seen
    BY DEF Proper, ProcFields
  <2>2. s \in Seq(Container) /\ ToSet(s) \subseteq Instance
    BY <1>1 DEF YoungerThere, Container, ToSet
  <2> HIDE DEF r
  <2>3. Proper(r) /\ ~Busy(r)
    BY <1>1, <2>1, <2>2 DEF Proper, Phase, Busy, PCs
  <2> QED BY <2>3 DEF r
<1>2. ASSUME q.pc = "purging", q.stops = <<>>
      PROVE  LET r == [q EXCEPT !.pc = "idle"] IN Proper(r) /\ ~Busy(r)
  <2> DEFINE r == [q EXCEPT !.pc = "idle"]
  <2>1. /\ DOMAIN r = ProcFields /\ r.stops = q.stops /\ r.pc = "idle" /\ r.term = q.term
        /\ r.starts = q.starts /\ r.seen = q.seen
    BY DEF Proper, ProcFields
  <2> HIDE DEF r
  <2>2. Proper(r) /\ ~Busy(r)
    BY <1>2, <2>1 DEF Proper, Phase, Busy, PCs
  <2> QED BY <2>2 DEF r
<1> QED BY <1>1, <1>2

(* The lists of a plan.                                                    *)
Planned(stale, order) ==
  [pc |-> "updating", term |-> FALSE, stops |-> Reverse(order), starts |-> order,
   seen |-> Seen(stale)]

LEMMA OrderFacts ==
  ASSUME NEW S \in SUBSET Container, NEW s \in SetToSeqs(S)
  PROVE  /\ s \in Seq(Container) /\ ToSet(s) = S
         /\ \A j, k \in DOMAIN s : s[j] = s[k] => j = k
         /\ Reverse(s) \in Seq(Container) /\ ToSet(Reverse(s)) = S /\ Len(Reverse(s)) = Len(s)
         /\ DOMAIN s = 1 .. Len(s) /\ Len(s) \in Nat
         /\ \A k \in 1 .. Len(s) : /\ Len(s) - k + 1 \in 1 .. Len(s)
                                   /\ Reverse(s)[k] = s[Len(s) - k + 1]
<1> DEFINE n == Cardinality(S)
<1>1. IsFiniteSet(S) /\ n \in Nat
  BY InstanceAssumption, AppAssumption, FS_Union, FS_Subset, FS_CardinalityType DEF Container
<1>2. s \in [1 .. n -> S] /\ \A j, k \in 1 .. n : j # k => s[j] # s[k]
  BY DEF SetToSeqs
<1> HIDE DEF n
<1>3. s \in Seq(Container) /\ Len(s) = n /\ DOMAIN s = 1 .. n
  BY <1>1, <1>2
<1>4. \A x \in S : \E k \in 1 .. n : s[k] = x
  <2>1. s \in Injection(1 .. n, S)
    BY <1>2 DEF Injection, IsInjective
  <2>2. Cardinality(1 .. n) = n /\ IsFiniteSet(1 .. n)
    BY <1>1, FS_Interval
  <2>3. s \in Surjection(1 .. n, S)
    BY <1>1, <2>1, <2>2, FS_Injection DEF n
  <2> QED BY <2>3 DEF Surjection
<1>5. /\ \A k \in 1 .. n : n - k + 1 \in 1 .. n /\ n - (n - k + 1) + 1 = k
      /\ Reverse(s) = [k \in 1 .. n |-> s[n - k + 1]]
  BY <1>1, <1>3 DEF Reverse
<1>6. /\ Reverse(s) \in Seq(Container) /\ Len(Reverse(s)) = n /\ DOMAIN Reverse(s) = 1 .. n
      /\ \A k \in 1 .. n : Reverse(s)[k] = s[n - k + 1]
  <2>1. Reverse(s) \in [1 .. n -> Container]
    BY <1>2, <1>5
  <2> QED BY <1>1, <1>5, <2>1
<1>7. ToSet(s) = S
  BY <1>2, <1>3, <1>4 DEF ToSet
<1>8. \A k \in 1 .. n : Reverse(s)[n - k + 1] = s[k]
  BY <1>5, <1>6
<1>9. ToSet(Reverse(s)) = S
  BY <1>2, <1>4, <1>5, <1>6, <1>8 DEF ToSet
<1> QED BY <1>1, <1>2, <1>3, <1>5, <1>6, <1>7, <1>9

LEMMA ListedFacts ==
  /\ Listed \subseteq Container /\ RunningApps \subseteq App /\ RunningInstances \subseteq Instance
  /\ \A C : StaleClosure(links, Listed, C) \subseteq Listed
BY DEF Listed, RunningApps, RunningInstances, Container, StaleClosure

LEMMA PlannedFacts ==
  ASSUME TypeInv, NEW S \in SUBSET Container, NEW s \in SetToSeqs(S)
  PROVE  LET r == Planned(S, s) IN
         /\ Proper(r) /\ r.pc = "updating" /\ r.stops = Reverse(s) /\ r.starts = s
         /\ r.seen = Seen(S)
<1> DEFINE r == Planned(S, s)
<1>1. /\ DOMAIN r = ProcFields /\ r.pc = "updating" /\ r.term = FALSE
      /\ r.stops = Reverse(s) /\ r.starts = s /\ r.seen = Seen(S)
  BY DEF Planned, ProcFields
<1>2. DOMAIN Seen(S) = S /\ \A c \in S : Seen(S)[c].name \in Nat
  BY DEF Seen, Container, TypeInv, Hosts
<1> HIDE DEF r
<1>3. /\ s \in Seq(Container) /\ ToSet(s) = S
      /\ Reverse(s) \in Seq(Container) /\ ToSet(Reverse(s)) = S
  BY OrderFacts
<1>4. Proper(r)
  BY <1>1, <1>2, <1>3 DEF Proper, Phase, Busy, PCs
<1> QED BY <1>1, <1>4 DEF r

LEMMA PlanMade ==
  ASSUME NEW i \in Instance, NEW pulled, NEW compared, Plan(i, pulled, compared)
  PROVE  \/ UNCHANGED proc
         \/ \E stale, s :
              /\ stale = StaleClosure(links, Listed, Found(pulled, compared))
              /\ s \in DependencyOrders(links, stale)
              /\ proc' = [proc EXCEPT ![i] = Planned(stale, s)]
BY DEF Plan, Planned

LEMMA OneProcess ==
  ASSUME Procs, NEW i \in Instance, NEW q, Proper(q), proc' = [proc EXCEPT ![i] = q]
  PROVE  Procs' /\ proc'[i] = q /\ \A j \in Instance \ {i} : proc'[j] = proc[j]
<1>1. /\ DOMAIN proc' = Instance /\ proc'[i] = q
      /\ \A j \in Instance \ {i} : proc'[j] = proc[j]
  BY DEF Procs
<1> QED BY <1>1 DEF Procs, Proper, Phase

(* What an update does to its own process.                                 *)
Makes(i, r) == Proper(r) /\ proc' = [proc EXCEPT ![i] = r]

LEMMA CheckPrereqsMakes ==
  ASSUME TypeInv, NEW i \in Instance, CheckPrereqs(i)
  PROVE  \E r : Makes(i, r) /\ ~Busy(r)
<1>1. PICK older \in ByCreated(Older) :
        proc' = [proc EXCEPT ![i].pc = "purging", ![i].stops = older]
  BY DEF CheckPrereqs
<1> DEFINE r == [proc[i] EXCEPT !.pc = "purging", !.stops = older]
<1>2. Shape
  BY DEF TypeInv, Procs, Hosts, Shape, Proper
<1>3. Proper(r) /\ ~Busy(r)
  BY <1>2, OlderFacts, Prerequisites DEF CheckPrereqs, TypeInv, Procs
<1>4. proc' = [proc EXCEPT ![i] = r]
  BY <1>1 DEF TypeInv, Procs
<1> HIDE DEF r
<1> QED BY <1>3, <1>4 DEF Makes

LEMMA PurgeReturnsMakes ==
  ASSUME TypeInv, NEW i \in Instance, PurgeReturns(i)
  PROVE  \E r : Makes(i, r) /\ ~Busy(r)
<1> DEFINE r == [proc[i] EXCEPT !.pc = "idle"]
<1>1. Proper(r) /\ ~Busy(r)
  BY Prerequisites DEF PurgeReturns, TypeInv, Procs
<1>2. proc' = [proc EXCEPT ![i] = r]
  BY DEF PurgeReturns, TypeInv, Procs
<1> HIDE DEF r
<1> QED BY <1>1, <1>2 DEF Makes

LEMMA PlanMakes ==
  ASSUME TypeInv, NEW i \in Instance, NEW pulled, NEW compared, Plan(i, pulled, compared)
  PROVE  \/ UNCHANGED proc
         \/ \E stale, s :
              /\ stale = StaleClosure(links, Listed, Found(pulled, compared))
              /\ s \in DependencyOrders(links, stale)
              /\ Makes(i, Planned(stale, s)) /\ Planned(stale, s).pc = "updating"
              /\ Planned(stale, s).stops = Reverse(s) /\ Planned(stale, s).starts = s
              /\ Planned(stale, s).seen = Seen(stale)
<1>1. CASE UNCHANGED proc
  BY <1>1
<1>2. CASE \E stale, s :
              /\ stale = StaleClosure(links, Listed, Found(pulled, compared))
              /\ s \in DependencyOrders(links, stale)
              /\ proc' = [proc EXCEPT ![i] = Planned(stale, s)]
  <2>1. PICK stale, s :
              /\ stale = StaleClosure(links, Listed, Found(pulled, compared))
              /\ s \in DependencyOrders(links, stale)
              /\ proc' = [proc EXCEPT ![i] = Planned(stale, s)]
    BY <1>2
  <2>2. stale \in SUBSET Container /\ s \in SetToSeqs(stale)
    BY <2>1, ListedFacts DEF DependencyOrders
  <2>3. LET r == Planned(stale, s) IN
         /\ Proper(r) /\ r.pc = "updating" /\ r.stops = Reverse(s) /\ r.starts = s
         /\ r.seen = Seen(stale)
    BY <2>2, PlannedFacts
  <2> QED BY <2>1, <2>3 DEF Makes
<1> QED BY <1>1, <1>2, PlanMade

LEMMA StopMakes ==
  ASSUME TypeInv, NEW i \in Instance, Stop(i) \/ PassOver(i)
  PROVE  LET q == proc[i]  r == StopLoopGoesOn(i) IN
         /\ Makes(i, r) /\ q.pc = "updating" /\ q.stops # <<>>
         /\ r.pc = q.pc /\ r.stops = Tail(q.stops) /\ r.starts = q.starts /\ r.seen = q.seen
<1>1. proc' = [proc EXCEPT ![i] = StopLoopGoesOn(i)] /\ proc[i].pc = "updating" /\ proc[i].stops # <<>>
  BY DEF Stop, PassOver
<1>2. Proper(proc[i])
  BY DEF TypeInv, Procs
<1> QED BY <1>1, <1>2, StopsTail DEF StopLoopGoesOn, Makes

LEMMA RenameMakes ==
  ASSUME TypeInv, NEW i \in Instance, Rename(i)
  PROVE  LET q == proc[i] IN
         /\ q.pc = "updating" /\ q.stops = <<>> /\ q.starts # <<>>
         /\ Head(q.starts) \in Instance
         /\ \E r : /\ Makes(i, r) /\ r.pc \in {"updating", "renamed"} /\ r.stops = <<>>
                   /\ r.starts \in {q.starts, Tail(q.starts)} /\ r.seen = q.seen
<1> DEFINE q == proc[i]
           goesOn == [q EXCEPT !.pc = "renamed"]
           leaves == [q EXCEPT !.pc = "updating", !.starts = Tail(@)]
<1>1. Proper(q)
  BY DEF TypeInv, Procs
<1>2. q.pc = "updating" /\ q.stops = <<>> /\ q.starts # <<>> /\ Head(q.starts) \in Instance
  BY DEF Rename, Restarting
<1>3. /\ Proper(goesOn) /\ goesOn.pc = "renamed" /\ goesOn.stops = <<>>
      /\ goesOn.starts = q.starts /\ goesOn.seen = q.seen
  BY <1>1, <1>2, Renamed
<1>4. /\ Proper(leaves) /\ leaves.pc = "updating" /\ leaves.stops = <<>>
      /\ leaves.starts = Tail(q.starts) /\ leaves.seen = q.seen
  BY <1>1, <1>2, StartsTail DEF Busy
<1>5. \/ proc' = [proc EXCEPT ![i] = goesOn]
      \/ proc' = [proc EXCEPT ![i] = [q EXCEPT !.starts = Tail(@)]]
  BY DEF Rename, TypeInv, Procs
<1>6. [q EXCEPT !.starts = Tail(@)] = leaves
  BY <1>1, <1>2 DEF Proper, ProcFields
<1> HIDE DEF goesOn, leaves
<1> QED BY <1>2, <1>3, <1>4, <1>5, <1>6 DEF Makes, Busy

LEMMA StartMakes ==
  ASSUME TypeInv, NEW i \in Instance, NotRestarted(i) \/ Start(i)
  PROVE  LET q == proc[i]  r == Restarted(i) IN
         /\ Busy(q) /\ q.pc # "cleaning" /\ q.stops = <<>> /\ q.starts # <<>>
         /\ Makes(i, r) /\ r.stops = <<>> /\ r.seen = q.seen
         /\ \/ config.cleanup /\ r.pc = "cleaning" /\ r.starts = q.starts
            \/ r.pc = "updating" /\ r.starts = Tail(q.starts)
<1>1. /\ proc' = [proc EXCEPT ![i] = Restarted(i)]
      /\ proc[i].pc \in {"updating", "renamed"} /\ (proc[i].pc = "updating" => Restarting(i))
  BY DEF NotRestarted, Start, Restarting
<1>2. Proper(proc[i])
  BY DEF TypeInv, Procs
<1>3. Busy(proc[i]) /\ proc[i].stops = <<>> /\ proc[i].starts # <<>>
  BY <1>1, <1>2 DEF Restarting, Proper, Phase, Busy
<1> QED BY <1>1, <1>2, <1>3, AfterStart DEF Makes

LEMMA CleanUpMakes ==
  ASSUME TypeInv, NEW i \in Instance, CleanUp(i)
  PROVE  LET q == proc[i] IN
         /\ Busy(q) /\ q.pc = "cleaning" /\ q.stops = <<>> /\ q.starts # <<>>
         /\ \E r : /\ Makes(i, r) /\ r.pc = "updating" /\ r.stops = <<>>
                   /\ r.starts = Tail(q.starts) /\ r.seen = q.seen
<1> DEFINE q == proc[i]
           r == [q EXCEPT !.pc = "updating", !.starts = Tail(@)]
<1>1. Proper(q) /\ q.pc = "cleaning"
  BY DEF TypeInv, Procs, CleanUp
<1>2. Busy(q) /\ q.stops = <<>> /\ q.starts # <<>>
  BY <1>1 DEF Proper, Phase, Busy
<1>3. /\ Proper(r) /\ r.pc = "updating" /\ r.stops = <<>>
      /\ r.starts = Tail(q.starts) /\ r.seen = q.seen
  BY <1>1, <1>2, StartsTail
<1>4. proc' = [proc EXCEPT ![i] = r]
  BY DEF CleanUp, TypeInv, Procs
<1> HIDE DEF r
<1> QED BY <1>1, <1>2, <1>3, <1>4 DEF Makes

(* An older instance is ended, or told to end, or left.                    *)
LEMMA PurgeMakes ==
  ASSUME TypeInv, NEW i \in Instance, Purge(i)
  PROVE  /\ ~Busy(proc[i]) /\ Head(proc[i].stops) \in Instance
         /\ Procs'
         /\ \A j \in Instance :
              \/ proc'[j] = Ended
              \/ /\ proc'[j].pc = proc[j].pc /\ proc'[j].starts = proc[j].starts
                 /\ proc'[j].seen = proc[j].seen
                 /\ j = i \/ proc'[j].stops = proc[j].stops
<1> DEFINE v == Head(proc[i].stops)
           q == [proc[i] EXCEPT !.stops = Tail(@)]
           next == [proc EXCEPT ![i] = q]
<1>1. Proper(proc[i]) /\ proc[i].pc = "purging" /\ proc[i].stops # <<>>
  BY DEF TypeInv, Procs, Purge
<1>2. v \in Instance
  BY <1>1, ListFacts DEF Proper, Phase
<1>3. /\ Proper(q) /\ q.pc = "purging" /\ q.starts = proc[i].starts /\ q.seen = proc[i].seen
  BY <1>1, StopsTail
<1>4. proc' \in {next, [next EXCEPT ![v] = Ended], [next EXCEPT ![v].term = TRUE]}
  BY DEF Purge
<1> HIDE DEF q, v
<1>5. /\ DOMAIN next = Instance /\ next[i] = q
      /\ \A j \in Instance \ {i} : next[j] = proc[j]
  BY DEF TypeInv, Procs
<1>6. \A j \in Instance :
        /\ Proper(next[j]) /\ next[j].pc = proc[j].pc /\ next[j].starts = proc[j].starts
        /\ next[j].seen = proc[j].seen /\ (j = i \/ next[j].stops = proc[j].stops)
  BY <1>1, <1>3, <1>5 DEF TypeInv, Procs
<1> HIDE DEF next
<1>7. /\ DOMAIN proc' = Instance
      /\ \A j \in Instance : proc'[j] \in {next[j], Ended, [next[j] EXCEPT !.term = TRUE]}
  BY <1>2, <1>4, <1>5
<1>8. ASSUME NEW j \in Instance
      PROVE  /\ Proper(proc'[j])
             /\ \/ proc'[j] = Ended
                \/ /\ proc'[j].pc = proc[j].pc /\ proc'[j].starts = proc[j].starts
                   /\ proc'[j].seen = proc[j].seen
                   /\ j = i \/ proc'[j].stops = proc[j].stops
  <2>1. LET r == [next[j] EXCEPT !.term = TRUE] IN
         /\ Proper(r) /\ r.stops = next[j].stops /\ r.pc = next[j].pc
         /\ r.starts = next[j].starts /\ r.seen = next[j].seen
    BY <1>6, Told
  <2> QED BY <1>6, <1>7, <2>1, AfterNothing
<1>9. Procs'
  BY <1>7, <1>8 DEF Procs, Proper, Phase
<1> QED BY <1>1, <1>2, <1>8, <1>9 DEF Busy, v

(* The update goes on, and its replacement may have started.               *)
LEMMA StartInstanceMakes ==
  ASSUME TypeInv, NEW i \in Instance, StartInstance(i)
  PROVE  LET q == proc[i]  r == Restarted(i) IN
         /\ q.pc = "renamed" /\ q.stops = <<>> /\ q.starts # <<>>
         /\ Head(q.starts) \in Instance /\ Head(q.starts) \in DOMAIN q.seen
         /\ Procs' /\ Proper(r) /\ proc'[i] = r /\ r.stops = <<>> /\ r.seen = q.seen
         /\ \/ config.cleanup /\ r.pc = "cleaning" /\ r.starts = q.starts
            \/ r.pc = "updating" /\ r.starts = Tail(q.starts)
         /\ \A j \in Instance \ {i} :
              proc'[j] = proc[j] \/ (proc[j].pc = "off" /\ proc'[j] \in {Booting, Ended})
<1> DEFINE q == proc[i]
           r == Restarted(i)
           after == [proc EXCEPT ![i] = r]
<1>1. Proper(q) /\ q.pc = "renamed"
  BY DEF TypeInv, Procs, StartInstance
<1>2. /\ Busy(q) /\ q.stops = <<>> /\ q.starts # <<>> /\ Head(q.starts) \in Instance
      /\ Head(q.starts) \in DOMAIN q.seen
  BY <1>1, ListFacts DEF Proper, Phase, Busy
<1>3. /\ Proper(r) /\ r.stops = <<>> /\ r.seen = q.seen
      /\ \/ config.cleanup /\ r.pc = "cleaning" /\ r.starts = q.starts
         \/ r.pc = "updating" /\ r.starts = Tail(q.starts)
  BY <1>1, <1>2, AfterStart
<1>4. \/ proc' = after
      \/ \E n \in NextInstance : proc' \in {[after EXCEPT ![n] = Booting], [after EXCEPT ![n] = Ended]}
  BY DEF StartInstance
<1>5. \A n \in NextInstance : n \in Instance /\ proc[n].pc = "off" /\ n # i
  BY <1>1 DEF NextInstance, Unborn
<1> HIDE DEF r
<1>6. /\ DOMAIN after = Instance /\ after[i] = r /\ \A j \in Instance \ {i} : after[j] = proc[j]
  BY DEF TypeInv, Procs
<1> HIDE DEF after
<1>7. /\ DOMAIN proc' = Instance /\ proc'[i] = r
      /\ \A j \in Instance \ {i} :
           proc'[j] = proc[j] \/ (proc[j].pc = "off" /\ proc'[j] \in {Booting, Ended})
  BY <1>4, <1>5, <1>6
<1>8. \A j \in Instance : Proper(proc'[j])
  BY <1>3, <1>7, AfterNothing DEF TypeInv, Procs
<1>9. Procs'
  BY <1>7, <1>8 DEF Procs, Proper, Phase
<1> QED BY <1>1, <1>2, <1>3, <1>7, <1>9 DEF r

LEMMA OtherwiseMakes ==
  ASSUME TypeInv, NEW i \in Instance
  PROVE  /\ UpdateReturns(i) =>
              /\ proc[i].pc = "updating" /\ proc[i].starts = <<>>
              /\ \E r : Makes(i, r) /\ ~Busy(r)
         /\ PrereqsFail(i) => ~Busy(proc[i]) /\ \E r : Makes(i, r) /\ ~Busy(r)
         /\ Launch(i) => proc[i].pc = "off" /\ \E r : Makes(i, r) /\ ~Busy(r)
BY AfterNothing DEF UpdateReturns, PrereqsFail, Launch, Makes, NextInstance, Unborn, Busy

(* The containers, images and faults after a step.                         *)
LEMMA FaultFacts ==
  ASSUME Hosts, NEW C \in SUBSET App, Fault(C) \/ NoFault
  PROVE  faults' \in 0 .. MaxFaults /\ faulty' \subseteq App
BY BoundsAssumption DEF Hosts, Fault, NoFault

LEMMA ImagesFacts ==
  ASSUME Hosts
  PROVE  /\ \A m, v, U : WithoutImage(m, v, U) \in [Image -> 0 .. MaxVersion]
         /\ \A C : Pulled(C) \in [Image -> 0 .. MaxVersion]
         /\ Own \in Image /\ \A a \in App : ImageOf[a] \in Image
         /\ \A c \in Container : ImageNameOf(c) \in Image
<1>1. Own \in Image /\ \A a \in App : ImageOf[a] \in Image
  BY DEF Image
<1>2. MaxVersion \in Nat
  BY BoundsAssumption
<1>3. ASSUME NEW m, NEW v, NEW U PROVE WithoutImage(m, v, U) \in [Image -> 0 .. MaxVersion]
  <2>1. local \in [Image -> 0 .. MaxVersion] /\ 0 \in 0 .. MaxVersion
    BY <1>2 DEF Hosts
  <2>2. [local EXCEPT ![m] = 0] \in [Image -> 0 .. MaxVersion]
    BY <2>1
  <2> QED BY <2>1, <2>2 DEF WithoutImage
<1>4. \A C : Pulled(C) \in [Image -> 0 .. MaxVersion]
  BY <1>2 DEF Pulled, Hosts
<1> QED BY <1>1, <1>3, <1>4 DEF ImageNameOf, Container

LEMMA CreatedFacts ==
  ASSUME Hosts, NEW c \in App, NEW t \in States, local[ImageOf[c]] # 0
  PROVE  Created(c, t) \in [App -> [state : States, id : Nat, version : 1 .. MaxVersion]]
<1>1. local[ImageOf[c]] \in 1 .. MaxVersion /\ box[c].id + 1 \in Nat
  BY ImagesFacts, BoundsAssumption DEF Hosts
<1> QED BY <1>1 DEF Created, Hosts

LEMMA StopHosts ==
  ASSUME TypeInv, NEW i \in Instance, Stop(i)
  PROVE  Hosts'
<1> DEFINE c == Head(proc[i].stops)
<1>1. c \in App
  BY DEF Stop
<1>2. Fault({c}) \/ NoFault
  BY DEF Stop
<1>3. failed' \in {failed, failed \cup {c}}
  BY DEF Stop
<1>4. box' = box \/ \E t \in States : box' = [box EXCEPT ![c].state = t]
  BY DEF Stop, States
<1>5. box' \in [App -> [state : States, id : Nat, version : 1 .. MaxVersion]]
  <2> HIDE DEF c
  <2> QED BY <1>1, <1>4 DEF TypeInv, Hosts
<1>6. UNCHANGED <<env, wt, registry, local>>
  BY DEF Stop
<1> HIDE DEF c
<1> QED BY <1>1, <1>2, <1>3, <1>5, <1>6, FaultFacts DEF TypeInv, Hosts, env

LEMMA StartBox ==
  ASSUME TypeInv, NEW i \in Instance, Start(i)
  PROVE  LET c == Head(proc[i].starts) IN
         /\ c \in App
         /\ \/ box' = box
            \/ box[c].state = "none" /\ local[ImageOf[c]] # 0
               /\ box' \in {Created(c, "running"), Created(c, "created")}
BY DEF Start

LEMMA StartHosts ==
  ASSUME TypeInv, NEW i \in Instance, Start(i)
  PROVE  Hosts'
<1> DEFINE c == Head(proc[i].starts)
<1>1. c \in App
  BY StartBox
<1>2. faults' \in 0 .. MaxFaults /\ faulty' \subseteq App
  <2>1. (Fault({c}) \/ NoFault) \/ (UNCHANGED faults /\ faulty' = faulty \ {c})
    BY DEF Start
  <2> HIDE DEF c
  <2> QED BY <1>1, <2>1, FaultFacts DEF TypeInv, Hosts
<1>3. failed' \in {failed \ {c}, failed \cup {c}}
  BY DEF Start
<1>4. box' \in [App -> [state : States, id : Nat, version : 1 .. MaxVersion]]
  <2>1. Hosts /\ "running" \in States /\ "created" \in States
    BY DEF TypeInv, States
  <2>2. box' = box \/ (local[ImageOf[c]] # 0 /\ \E t \in States : box' = Created(c, t))
    BY <2>1, StartBox
  <2>3. box \in [App -> [state : States, id : Nat, version : 1 .. MaxVersion]]
    BY <2>1 DEF Hosts
  <2> HIDE DEF c
  <2> QED BY <1>1, <2>1, <2>2, <2>3, CreatedFacts
<1>5. UNCHANGED <<env, wt, registry, local>>
  BY DEF Start
<1> HIDE DEF c
<1> QED BY <1>1, <1>2, <1>3, <1>4, <1>5 DEF TypeInv, Hosts, env

LEMMA PlanHosts ==
  ASSUME TypeInv, NEW i \in Instance, NEW pulled, NEW compared, Plan(i, pulled, compared)
  PROVE  Hosts'
<1>1. local' = Pulled(pulled) /\ UNCHANGED <<env, box, wt, registry, failed>>
  BY DEF Plan
<1>2. Fault((App \cap Listed) \ (pulled \cap compared)) \/ NoFault
  BY DEF Plan
<1>3. faults' \in 0 .. MaxFaults /\ faulty' \subseteq App
  BY <1>2, FaultFacts DEF TypeInv
<1> QED BY <1>1, <1>3, ImagesFacts DEF TypeInv, Hosts, env

WtSet == [Instance -> [state : States, name : Nat, version : 0 .. MaxVersion]]

LEMMA WtFacts ==
  ASSUME Hosts
  PROVE  /\ \A j \in Instance, t \in States, n \in Nat :
              [wt EXCEPT ![j] = [state |-> t, name |-> n, version |-> local[Own]]] \in WtSet
         /\ \A j \in Instance, t \in States : [wt EXCEPT ![j].state = t] \in WtSet
         /\ \A j \in Instance, n \in Nat : [wt EXCEPT ![j].name = n] \in WtSet
<1>1. local[Own] \in 0 .. MaxVersion /\ wt \in WtSet
  BY ImagesFacts DEF Hosts, WtSet
<1> QED BY <1>1 DEF WtSet

LEMMA PurgeHosts ==
  ASSUME TypeInv, NEW i \in Instance, Purge(i)
  PROVE  Hosts'
<1> DEFINE v == Head(proc[i].stops)
<1>1. v \in Instance
  BY PurgeMakes
<1>2. wt' \in {wt, [wt EXCEPT ![v].state = "none"], [wt EXCEPT ![v].state = "exited"]}
  BY DEF Purge
<1>3. wt' \in WtSet
  <2> HIDE DEF v
  <2>1. Hosts /\ "none" \in States /\ "exited" \in States /\ wt \in WtSet
    BY DEF TypeInv, States, Hosts, WtSet
  <2> QED BY <1>1, <1>2, <2>1, WtFacts
<1>4. faults' \in 0 .. MaxFaults /\ faulty' \subseteq App
  <2>1. Fault({}) \/ NoFault
    BY DEF Purge
  <2> QED BY <2>1, FaultFacts DEF TypeInv
<1>5. local' \in [Image -> 0 .. MaxVersion]
  <2>1. local' = local \/ \E m, x, U : local' = WithoutImage(m, x, U)
    BY DEF Purge
  <2> QED BY <2>1, ImagesFacts DEF TypeInv, Hosts
<1>6. UNCHANGED <<env, box, registry, failed>>
  BY DEF Purge
<1> QED BY <1>3, <1>4, <1>5, <1>6 DEF TypeInv, Hosts, WtSet, env

LEMMA StartInstanceHosts ==
  ASSUME TypeInv, NEW i \in Instance, StartInstance(i)
  PROVE  Hosts'
<1> DEFINE name == proc[i].seen[Head(proc[i].starts)].name
<1>1. name \in Nat
  BY StartInstanceMakes DEF TypeInv, Procs, Proper
<1>2. \/ wt' = wt
      \/ \E n \in NextInstance, t \in States :
           wt' = [wt EXCEPT ![n] = [state |-> t, name |-> name, version |-> local[Own]]]
  BY DEF StartInstance, States
<1>3. wt' \in WtSet
  <2>1. Hosts /\ wt \in WtSet /\ NextInstance \subseteq Instance
    BY DEF TypeInv, Hosts, WtSet, NextInstance, Unborn
  <2> HIDE DEF name
  <2> QED BY <1>1, <1>2, <2>1, WtFacts
<1>4. faults' \in 0 .. MaxFaults /\ faulty' \subseteq App
  <2>1. Fault({}) \/ NoFault
    BY DEF StartInstance
  <2> QED BY <2>1, FaultFacts DEF TypeInv
<1>5. UNCHANGED <<env, box, registry, local, failed>>
  BY DEF StartInstance
<1> QED BY <1>3, <1>4, <1>5 DEF TypeInv, Hosts, WtSet, env

LEMMA RenameHosts ==
  ASSUME TypeInv, NEW i \in Instance, Rename(i)
  PROVE  Hosts'
<1>1. wt' = wt \/ \E c \in Instance : wt' = [wt EXCEPT ![c].name = FreshName]
  BY DEF Rename
<1>2. wt' \in WtSet
  BY <1>1, FreshNameFacts, WtFacts DEF TypeInv, Hosts, WtSet
<1>3. faults' \in 0 .. MaxFaults /\ faulty' \subseteq App
  <2>1. Fault({}) \/ NoFault
    BY DEF Rename
  <2> QED BY <2>1, FaultFacts DEF TypeInv
<1>4. UNCHANGED <<env, box, registry, local, failed>>
  BY DEF Rename
<1> QED BY <1>2, <1>3, <1>4 DEF TypeInv, Hosts, WtSet, env

LEMMA LaunchHosts ==
  ASSUME TypeInv, NEW i \in Instance, Launch(i)
  PROVE  Hosts'
<1>1. wt' = [wt EXCEPT ![i] = [state |-> "running", name |-> FreshName, version |-> local[Own]]]
  BY DEF Launch
<1>2. wt' \in WtSet
  BY <1>1, FreshNameFacts, WtFacts DEF TypeInv, States
<1>3. UNCHANGED <<env, box, local, registry, history>>
  BY DEF Launch
<1> QED BY <1>2, <1>3 DEF TypeInv, Hosts, WtSet, env, history

(* An instance exits, or nothing happens to any container.                 *)
LEMMA ExitHosts ==
  ASSUME TypeInv, NEW i \in Instance, PrereqsFail(i) \/ UpdateReturns(i)
  PROVE  Hosts'
<1>1. wt' = wt \/ wt' = [wt EXCEPT ![i].state = "exited"]
  BY DEF PrereqsFail, UpdateReturns
<1>2. wt' \in WtSet
  <2>1. Hosts /\ "exited" \in States /\ wt \in WtSet
    BY DEF TypeInv, States, Hosts, WtSet
  <2> QED BY <1>1, <2>1, WtFacts
<1>3. faults' \in 0 .. MaxFaults /\ faulty' \subseteq App
  <2>1. Fault({}) \/ NoFault
    BY DEF PrereqsFail, UpdateReturns, history, NoFault
  <2> QED BY <2>1, FaultFacts DEF TypeInv
<1>4. UNCHANGED <<env, box, registry, local, failed>>
  BY DEF PrereqsFail, UpdateReturns, history
<1> QED BY <1>2, <1>3, <1>4 DEF TypeInv, Hosts, WtSet, env

LEMMA QuietHosts ==
  ASSUME TypeInv, NEW i \in Instance,
         CheckPrereqs(i) \/ PurgeReturns(i) \/ PassOver(i) \/ NotRestarted(i) \/ ListFails(i)
  PROVE  Hosts'
<1>1. Fault({}) \/ NoFault
  BY DEF CheckPrereqs, PurgeReturns, PassOver, NotRestarted, ListFails, history, NoFault
<1>2. faults' \in 0 .. MaxFaults /\ faulty' \subseteq App
  BY <1>1, FaultFacts DEF TypeInv
<1>3. UNCHANGED <<env, host, registry, failed>>
  BY DEF CheckPrereqs, PurgeReturns, PassOver, NotRestarted, ListFails, history
<1> QED BY <1>2, <1>3 DEF TypeInv, Hosts, env, host

LEMMA CleanUpHosts ==
  ASSUME TypeInv, NEW i \in Instance, CleanUp(i)
  PROVE  Hosts'
<1>1. local' = local \/ \E m, x, U : local' = WithoutImage(m, x, U)
  BY DEF CleanUp
<1>2. local' \in [Image -> 0 .. MaxVersion]
  BY <1>1, ImagesFacts DEF TypeInv, Hosts
<1>3. Fault({}) \/ NoFault
  BY DEF CleanUp
<1>4. faults' \in 0 .. MaxFaults /\ faulty' \subseteq App
  BY <1>3, FaultFacts DEF TypeInv
<1>5. UNCHANGED <<env, box, wt, registry, failed>>
  BY DEF CleanUp
<1> QED BY <1>2, <1>4, <1>5 DEF TypeInv, Hosts, env

LEMMA PushHosts ==
  ASSUME TypeInv, NEW m \in Image, Push(m)
  PROVE  TypeInv'
<1>1. registry' \in [Image -> 1 .. MaxVersion]
  BY BoundsAssumption DEF Push, TypeInv, Hosts
<1>2. UNCHANGED <<env, host, proc, history>>
  BY DEF Push
<1> QED BY <1>1, <1>2 DEF TypeInv, Hosts, Procs, Proper, Phase, env, host, history

LEMMA CrashHosts ==
  ASSUME TypeInv, NEW a \in App, Crash(a)
  PROVE  TypeInv'
<1>1. box' \in [App -> [state : States, id : Nat, version : 1 .. MaxVersion]]
  BY DEF Crash, TypeInv, Hosts, States
<1>2. faults' \in 0 .. MaxFaults /\ faulty' \subseteq App
  BY FaultFacts DEF Crash, TypeInv
<1>3. failed' \subseteq App /\ UNCHANGED <<env, wt, local, registry, proc>>
  BY DEF Crash, TypeInv, Hosts
<1> QED BY <1>1, <1>2, <1>3 DEF TypeInv, Hosts, Procs, Proper, Phase, env

LEMMA SameProcs == Procs /\ UNCHANGED proc => Procs'
<1> SUFFICES ASSUME Procs, UNCHANGED proc PROVE Procs'
  OBVIOUS
<1>1. ASSUME NEW j \in Instance PROVE Proper(proc[j])'
  <2>1. Proper(proc[j]) /\ proc'[j] = proc[j]
    BY DEF Procs
  <2> QED BY <2>1 DEF Proper, Phase, Busy
<1> QED BY <1>1 DEF Procs

LEMMA ProcsStep ==
  ASSUME TypeInv, NEW i \in Instance, Launch(i) \/ Step(i)
  PROVE  Procs'
<1>1. ASSUME NEW r, Makes(i, r) PROVE Procs'
  BY <1>1, OneProcess DEF Makes, TypeInv
<1>2. ASSUME NEW pulled, NEW compared, Plan(i, pulled, compared) PROVE Procs'
  BY <1>1, <1>2, PlanMakes, SameProcs DEF TypeInv
<1>3. PlanUpdate(i) => Procs'
  BY <1>2 DEF PlanUpdate
<1>4. ListFails(i) => Procs'
  BY SameProcs DEF ListFails, TypeInv
<1> QED BY <1>1, <1>3, <1>4, CheckPrereqsMakes, PurgeReturnsMakes, StopMakes, RenameMakes,
        StartMakes, CleanUpMakes, PurgeMakes, StartInstanceMakes, OtherwiseMakes DEF Step

LEMMA TypeStep == TypeInv /\ [Next]_vars => TypeInv'
<1> SUFFICES ASSUME TypeInv, [Next]_vars PROVE TypeInv'
  OBVIOUS
<1>1. ASSUME NEW i \in Instance, Launch(i) \/ Step(i) PROVE Hosts'
  <2>1. PlanUpdate(i) => Hosts'
    BY PlanHosts DEF PlanUpdate
  <2> QED BY <1>1, <2>1, LaunchHosts, ExitHosts, QuietHosts, PurgeHosts, StopHosts, StartHosts,
          RenameHosts, StartInstanceHosts, CleanUpHosts DEF Step
<1>2. CASE UNCHANGED vars
  BY <1>2 DEF vars, TypeInv, Hosts, Procs, Proper, Phase, env, history
<1> QED BY <1>1, <1>2, ProcsStep, PushHosts, CrashHosts DEF Next, TypeInv

LEMMA TypeInit == Init => TypeInv
<1> SUFFICES ASSUME Init PROVE TypeInv
  OBVIOUS
<1>1. MaxVersion \in Nat \ {0} /\ MaxFaults \in Nat
  BY BoundsAssumption
<1>2. Hosts
  BY <1>1 DEF Init, Hosts, States
<1>3. Procs
  BY AfterNothing DEF Init, Procs
<1> QED BY <1>2, <1>3 DEF TypeInv

(* Every field keeps its type: names of instances stay numbers, because    *)
(* a name that is not taken can always be found, and an update only stops  *)
(* and starts containers that it has listed.                               *)
THEOREM TypeCorrect == Spec => []TypeOK
<1>1. TypeInv => TypeOK
  <2> SUFFICES ASSUME TypeInv PROVE TypeOK
    OBVIOUS
  <2>1. ASSUME NEW i \in Instance
        PROVE  /\ wt[i].state \in {"running", "exited", "created", "none"}
               /\ wt[i].name \in Nat /\ wt[i].version \in 0 .. MaxVersion
               /\ proc[i].pc \in PCs /\ proc[i].term \in BOOLEAN
               /\ DOMAIN proc[i].seen \subseteq Container
               /\ ToSet(proc[i].starts) \subseteq DOMAIN proc[i].seen
               /\ proc[i].pc # "purging" => ToSet(proc[i].stops) \subseteq DOMAIN proc[i].seen
    <3>1. Proper(proc[i]) /\ wt[i] \in [state : States, name : Nat, version : 0 .. MaxVersion]
      BY DEF TypeInv, Procs, Hosts
    <3>2. proc[i].pc # "purging" => ToSet(proc[i].stops) \subseteq DOMAIN proc[i].seen
      BY <3>1, NoNames DEF Proper, Phase
    <3> QED BY <3>1, <3>2 DEF Proper, States
  <2>2. ASSUME NEW a \in App
        PROVE  /\ box[a].state \in {"running", "exited", "created", "none"}
               /\ box[a].id \in Nat /\ box[a].version \in 1 .. MaxVersion
    BY DEF TypeInv, Hosts, States
  <2> QED BY <2>1, <2>2 DEF TypeOK, TypeInv, Hosts
<1> QED BY <1>1, TypeInit, TypeStep, PTL DEF Spec

-----------------------------------------------------------------------------
(***************************************************************************)
(* What is down is about to be started                                     *)
(***************************************************************************)

(* The containers an update has not tried to start yet.                    *)
Rest(q) == ToSet(IF q.pc = "cleaning" THEN Tail(q.starts) ELSE q.starts)

(* No instance is ended while it has containers to start.  CheckPrereqs    *)
(* removes older instances by force and can do that: then the containers   *)
(* an update has stopped stay down and nobody logs it.                     *)
NoneCutShort ==
  \A i \in Instance : proc'[i].pc = "ended" => ToSet(proc[i].starts) \cap App = {}

DownInv ==
  ~config.noRestart =>
    \A a \in App : box[a].state # "running" =>
      a \in failed \/ \E i \in Instance : a \in Rest(proc[i])

LEMMA RestFacts ==
  ASSUME NEW q, Proper(q)
  PROVE  /\ Rest(q) \subseteq ToSet(q.starts) /\ ToSet(q.starts) \subseteq Container
         /\ q.starts = <<>> \/ ~Busy(q) => Rest(q) = {}
         /\ q.pc # "cleaning" => Rest(q) = ToSet(q.starts)
         /\ q.pc = "cleaning" => Rest(q) = ToSet(Tail(q.starts))
         /\ q.starts # <<>> => ToSet(q.starts) = {Head(q.starts)} \cup ToSet(Tail(q.starts))
<1>1. q.starts \in Seq(Container) /\ (q.pc = "cleaning" => q.starts # <<>>)
      /\ (~Busy(q) => q.starts = <<>>)
  BY DEF Proper, Phase, Busy
<1>2. /\ ToSet(q.starts) \subseteq Container
      /\ q.starts # <<>> => ToSet(q.starts) = {Head(q.starts)} \cup ToSet(Tail(q.starts))
  BY <1>1, ListFacts
<1>3. /\ q.pc # "cleaning" => Rest(q) = ToSet(q.starts)
      /\ q.pc = "cleaning" => Rest(q) = ToSet(Tail(q.starts))
  BY DEF Rest
<1> QED BY <1>1, <1>2, <1>3, NoNames

(* Which list is left depends on two fields only.                          *)
LEMMA SameRest == ASSUME NEW q, NEW r, r.pc = "cleaning" <=> q.pc = "cleaning", r.starts = q.starts
                  PROVE  Rest(r) = Rest(q)
BY DEF Rest

LEMMA RestAfter ==
  ASSUME TypeInv, NEW i \in Instance, NEW r, Makes(i, r), App \cap Rest(proc[i]) \subseteq Rest(r)
  PROVE  \A j \in Instance : App \cap Rest(proc[j]) \subseteq Rest(proc'[j])
BY OneProcess DEF TypeInv, Makes

(* Only an attempt to start a container takes it off the list.             *)
LEMMA NotStarted ==
  ASSUME TypeInv, NoneCutShort, NEW i \in Instance, Launch(i) \/ Step(i)
  PROVE  \/ Start(i) \/ NotRestarted(i)
         \/ \A j \in Instance : App \cap Rest(proc[j]) \subseteq Rest(proc'[j])
<1> DEFINE q == proc[i]
           Kept == \A j \in Instance : App \cap Rest(proc[j]) \subseteq Rest(proc'[j])
<1>1. Proper(q) /\ \A j \in Instance : Proper(proc[j])
  BY DEF TypeInv, Procs
<1>2. ASSUME NEW r, Makes(i, r), q.starts = <<>> \/ ~Busy(q) PROVE Kept
  BY <1>1, <1>2, RestFacts, RestAfter
<1>3. CASE CheckPrereqs(i) \/ PurgeReturns(i) \/ PrereqsFail(i) \/ UpdateReturns(i) \/ Launch(i)
  <2>1. q.starts = <<>> \/ ~Busy(q)
    BY <1>3, OtherwiseMakes DEF CheckPrereqs, PurgeReturns, PrereqsFail, Launch, NextInstance,
       Unborn, Busy
  <2>2. \E r : Makes(i, r)
    BY <1>3, CheckPrereqsMakes, PurgeReturnsMakes, OtherwiseMakes
  <2> QED BY <1>2, <2>1, <2>2
<1>4. CASE PlanUpdate(i)
  <2>1. ASSUME NEW pulled, NEW compared, Plan(i, pulled, compared) PROVE Kept
    <3>1. ~Busy(q) /\ (UNCHANGED proc \/ \E r : Makes(i, r))
      BY <2>1, PlanMakes DEF Plan, Busy
    <3> QED BY <1>2, <3>1
  <2> QED BY <1>4, <2>1 DEF PlanUpdate
<1>5. CASE ListFails(i)
  BY <1>5 DEF ListFails
<1>6. CASE Stop(i) \/ PassOver(i)
  BY <1>6, StopMakes, SameRest, RestAfter
<1>7. CASE Rename(i)
  <2>1. PICK r : /\ Makes(i, r) /\ r.pc \in {"updating", "renamed"}
                 /\ r.starts \in {q.starts, Tail(q.starts)}
    BY <1>7, RenameMakes
  <2>2. q.pc = "updating" /\ q.starts # <<>> /\ Head(q.starts) \notin App
    BY <1>7, RenameMakes, AppAssumption
  <2>3. Rest(r) = ToSet(r.starts) /\ Rest(q) = ToSet(q.starts)
    BY <1>1, <2>1, <2>2, RestFacts DEF Makes
  <2>4. App \cap Rest(q) \subseteq Rest(r)
    BY <1>1, <2>1, <2>2, <2>3, RestFacts
  <2> QED BY <2>1, <2>4, RestAfter
<1>8. CASE CleanUp(i)
  <2>1. PICK r : Makes(i, r) /\ r.pc = "updating" /\ r.starts = Tail(q.starts)
    BY <1>8, CleanUpMakes
  <2>2. q.pc = "cleaning"
    BY <1>8, CleanUpMakes
  <2>3. Rest(r) = Rest(q)
    BY <1>1, <2>1, <2>2, RestFacts DEF Makes
  <2> QED BY <2>1, <2>3, RestAfter
<1>9. CASE StartInstance(i)
  <2>1. /\ q.pc = "renamed" /\ q.starts # <<>> /\ Head(q.starts) \notin App
        /\ Proper(proc'[i])
        /\ \/ proc'[i].pc = "cleaning" /\ proc'[i].starts = q.starts
           \/ proc'[i].pc = "updating" /\ proc'[i].starts = Tail(q.starts)
    BY <1>9, StartInstanceMakes, AppAssumption
  <2>2. Rest(q) = ToSet(q.starts) /\ Rest(proc'[i]) = ToSet(Tail(q.starts))
    BY <1>1, <2>1, RestFacts
  <2>3. App \cap Rest(q) \subseteq Rest(proc'[i])
    BY <1>1, <2>1, <2>2, RestFacts
  <2>4. ASSUME NEW j \in Instance \ {i} PROVE App \cap Rest(proc[j]) \subseteq Rest(proc'[j])
    <3>1. proc'[j] = proc[j] \/ proc[j].pc = "off"
      BY <1>9, StartInstanceMakes
    <3> QED BY <1>1, <3>1, RestFacts DEF Busy
  <2> QED BY <2>3, <2>4
<1>10. CASE Purge(i)
  <2> SUFFICES ASSUME NEW j \in Instance PROVE App \cap Rest(proc[j]) \subseteq Rest(proc'[j])
    OBVIOUS
  <2>1. proc'[j] = Ended \/ (proc'[j].pc = proc[j].pc /\ proc'[j].starts = proc[j].starts)
    BY <1>10, PurgeMakes
  <2>2. CASE proc'[j] = Ended
    BY <1>1, <2>2, RestFacts, StatesFacts DEF NoneCutShort
  <2> QED BY <2>1, <2>2, SameRest
<1> QED BY <1>3, <1>4, <1>5, <1>6, <1>7, <1>8, <1>9, <1>10 DEF Step

LEMMA StartedRest ==
  ASSUME TypeInv, NEW i \in Instance, NotRestarted(i) \/ Start(i)
  PROVE  /\ Rest(proc[i]) = ToSet(proc[i].starts)
         /\ Rest(proc'[i]) = ToSet(Tail(proc[i].starts))
         /\ Rest(proc[i]) = {Head(proc[i].starts)} \cup Rest(proc'[i])
         /\ \A j \in Instance \ {i} : proc'[j] = proc[j]
<1> DEFINE q == proc[i]
           r == Restarted(i)
<1>1. /\ Busy(q) /\ q.pc # "cleaning" /\ q.starts # <<>> /\ Makes(i, r)
      /\ \/ r.pc = "cleaning" /\ r.starts = q.starts
         \/ r.pc = "updating" /\ r.starts = Tail(q.starts)
  BY StartMakes
<1>2. Proper(q) /\ Proper(r) /\ proc'[i] = r /\ \A j \in Instance \ {i} : proc'[j] = proc[j]
  BY <1>1, OneProcess DEF TypeInv, Procs, Makes
<1> HIDE DEF r
<1>3. Rest(q) = ToSet(q.starts) /\ Rest(r) = ToSet(Tail(q.starts))
  BY <1>1, <1>2, RestFacts
<1>4. ToSet(q.starts) = {Head(q.starts)} \cup ToSet(Tail(q.starts))
  BY <1>1, <1>2, RestFacts
<1> QED BY <1>2, <1>3, <1>4

(* The steps that may stop a container or start one.                       *)
LEMMA BoxKept ==
  ASSUME NEW i \in Instance, Launch(i) \/ Step(i)
  PROVE  /\ UNCHANGED env
         /\ Stop(i) \/ Start(i) \/ UNCHANGED <<box, failed>>
<1>1. PlanUpdate(i) => UNCHANGED <<env, box, failed>>
  BY DEF PlanUpdate, Plan
<1> QED BY <1>1 DEF Step, Launch, CheckPrereqs, PrereqsFail, Purge, PurgeReturns, ListFails, PassOver,
       Stop, Rename, NotRestarted, Start, StartInstance, CleanUp, UpdateReturns, host, history

LEMMA StopBox ==
  ASSUME TypeInv, NEW i \in Instance, Stop(i)
  PROVE  LET c == Head(proc[i].stops) IN
         /\ c \in App /\ c \in ToSet(proc[i].stops) /\ c \in ToSet(proc[i].starts)
         /\ failed' \in {failed, failed \cup {c}}
         /\ \A a \in App \ {c} : box'[a] = box[a]
         /\ box'[c].id = box[c].id
         /\ c \in failed' \/ box'[c].state = "none"
         /\ box[c].state # "running" => box'[c] = box[c]
<1> DEFINE c == Head(proc[i].stops)
<1>1. c \in App /\ proc[i].stops # <<>> /\ proc[i].pc = "updating" /\ Proper(proc[i])
  BY DEF Stop, TypeInv, Procs
<1>2. c \in ToSet(proc[i].stops)
  BY <1>1, ListFacts DEF Proper
<1>3. c \in ToSet(proc[i].starts)
  BY <1>1, <1>2 DEF Proper, Phase
<1>4. failed' \in {failed, failed \cup {c}}
  BY DEF Stop
<1>5. box \in [App -> [state : States, id : Nat, version : 1 .. MaxVersion]]
  BY DEF TypeInv, Hosts
<1>6. \/ box[c].state = "running" /\ \E s : box' = [box EXCEPT ![c].state = s] /\ (c \in failed' \/ s = "none")
      \/ c \in failed' /\ box' = box
  BY DEF Stop
<1> HIDE DEF c
<1>7. /\ \A a \in App \ {c} : box'[a] = box[a]
      /\ box'[c].id = box[c].id
      /\ c \in failed' \/ box'[c].state = "none"
      /\ box[c].state # "running" => box'[c] = box[c]
  BY <1>1, <1>5, <1>6
<1> QED BY <1>1, <1>2, <1>3, <1>4, <1>7 DEF c

LEMMA StartEffect ==
  ASSUME TypeInv, NEW i \in Instance, Start(i)
  PROVE  LET c == Head(proc[i].starts) IN
         /\ c \in App
         /\ \A a \in App \ {c} : box'[a] = box[a]
         /\ \/ /\ failed' = failed \ {c} /\ faulty' = faulty \ {c}
               /\ box'[c].state = "running" /\ box'[c].version = local[ImageOf[c]]
            \/ failed' = failed \cup {c} /\ faulty \subseteq faulty'
<1> DEFINE c == Head(proc[i].starts)
<1>1. c \in App
  BY DEF Start
<1>2. /\ box \in [App -> [state : States, id : Nat, version : 1 .. MaxVersion]]
      /\ UNCHANGED local
  BY DEF TypeInv, Hosts, Start
<1>3. box' = box \/ \E t : box' = Created(c, t)
  BY StartBox
<1>4. \/ failed' = failed \ {c} /\ faulty' = faulty \ {c} /\ box' = Created(c, "running")
      \/ failed' = failed \cup {c} /\ (faulty' = faulty \/ faulty' = faulty \cup {c})
  BY DEF Start, NoFault, Fault
<1> HIDE DEF c
<1>5. \A t : /\ Created(c, t)[c].state = t /\ Created(c, t)[c].version = local[ImageOf[c]]
            /\ \A a \in App \ {c} : Created(c, t)[a] = box[a]
  BY <1>1, <1>2 DEF Created
<1>6. \A a \in App \ {c} : box'[a] = box[a]
  BY <1>3, <1>5
<1> QED BY <1>1, <1>4, <1>5, <1>6 DEF c

LEMMA DownStep == TypeInv /\ DownInv /\ [Next]_vars /\ [NoneCutShort]_vars => DownInv'
<1> SUFFICES ASSUME TypeInv, DownInv, [Next]_vars, [NoneCutShort]_vars PROVE DownInv'
  OBVIOUS
<1>1. CASE UNCHANGED vars
  BY <1>1 DEF vars, env, DownInv, Rest, history
<1>2. ASSUME NEW m \in Image, Push(m) PROVE DownInv'
  BY <1>2 DEF Push, DownInv, Rest, env, host, history
<1>3. ASSUME NEW b \in App, Crash(b) PROVE DownInv'
  <2>1. \A a \in App \ {b} : box'[a] = box[a]
    BY <1>3 DEF Crash, TypeInv, Hosts
  <2>2. UNCHANGED <<config, proc>> /\ failed' = failed \cup {b}
    BY <1>3 DEF Crash, env
  <2> QED BY <2>1, <2>2 DEF DownInv, Rest
<1>4. ASSUME NEW i \in Instance, Launch(i) \/ Step(i), NoneCutShort PROVE DownInv'
  <2> SUFFICES ASSUME ~config.noRestart, NEW a \in App, box'[a].state # "running"
               PROVE  a \in failed' \/ \E j \in Instance : a \in Rest(proc'[j])
    BY <1>4, BoxKept DEF DownInv, env, Rest
  <2>1. box[a].state # "running" => a \in failed \/ \E j \in Instance : a \in Rest(proc[j])
    BY DEF DownInv
  <2>2. CASE Start(i)
    <3> DEFINE c == Head(proc[i].starts)
    <3>1. /\ \A x \in App \ {c} : box'[x] = box[x]
          /\ box'[c].state = "running" \/ c \in failed'
          /\ failed \ {c} \subseteq failed'
      BY <2>2, StartEffect
    <3>2. /\ Rest(proc[i]) = {c} \cup Rest(proc'[i])
          /\ \A j \in Instance \ {i} : proc'[j] = proc[j]
      BY <2>2, StartedRest
    <3>3. CASE a = c
      BY <3>1, <3>3
    <3>4. CASE a # c
      BY <2>1, <3>1, <3>2, <3>4
    <3> QED BY <3>3, <3>4
  <2>3. CASE Stop(i)
    <3> DEFINE c == Head(proc[i].stops)
    <3>1. /\ \A x \in App \ {c} : box'[x] = box[x]
          /\ c \in App /\ c \in ToSet(proc[i].starts) /\ failed \subseteq failed'
      BY <2>3, StopBox
    <3>2. Proper(proc[i]) /\ proc[i].pc = "updating"
      BY <2>3 DEF Stop, TypeInv, Procs
    <3>3. ~Start(i) /\ ~NotRestarted(i)
      BY <2>3 DEF Stop, Start, NotRestarted, Restarting
    <3>4. \A j \in Instance : App \cap Rest(proc[j]) \subseteq Rest(proc'[j])
      BY <1>4, <3>3, NotStarted
    <3>5. c \in Rest(proc'[i])
      BY <3>1, <3>2, <3>4, RestFacts
    <3> QED BY <2>1, <3>1, <3>4, <3>5
  <2>4. CASE ~Start(i) /\ ~Stop(i)
    <3>1. UNCHANGED <<box, failed>>
      BY <1>4, <2>4, BoxKept
    <3>2. ~NotRestarted(i)
      BY DEF NotRestarted
    <3>3. \A j \in Instance : App \cap Rest(proc[j]) \subseteq Rest(proc'[j])
      BY <1>4, <2>4, <3>2, NotStarted
    <3> QED BY <2>1, <3>1, <3>3
  <2> QED BY <2>2, <2>3, <2>4
<1> QED BY <1>1, <1>2, <1>3, <1>4 DEF Next

LEMMA DownInit == Init => DownInv
BY DEF Init, DownInv

LEMMA DownEnough == TypeInv /\ DownInv => DownIsReported
<1> SUFFICES ASSUME TypeInv, DownInv, ~config.noRestart, NEW a \in App, box[a].state # "running"
             PROVE  WillBeRestarted(a) \/ a \in failed
  BY DEF DownIsReported
<1>1. CASE a \in failed
  BY <1>1
<1>2. CASE \E i \in Instance : a \in Rest(proc[i])
  <2>1. PICK i \in Instance : a \in Rest(proc[i])
    BY <1>2
  <2>2. Proper(proc[i])
    BY DEF TypeInv, Procs
  <2>3. a \in ToSet(proc[i].starts) /\ Busy(proc[i])
    BY <2>1, <2>2, RestFacts
  <2> QED BY <2>3 DEF WillBeRestarted, Busy
<1> QED BY <1>1, <1>2 DEF DownInv

(* A container that is down is about to be restarted by an instance that   *)
(* runs, or an error was logged for it, however many instances update the  *)
(* host at the same time and whatever fails: unless one of them is ended   *)
(* in the middle of an update.                                             *)
THEOREM DownIsReportedHolds == Spec /\ [][NoneCutShort]_vars => []DownIsReported
BY TypeInit, TypeStep, DownInit, DownStep, DownEnough, PTL DEF Spec

(* Alone on the host, a watchtower has nothing to stop when it starts.     *)
LEMMA AloneUncut == Instance = {1} /\ TypeInv /\ PurgeInv /\ [Next]_vars => [NoneCutShort]_vars
<1> SUFFICES ASSUME Instance = {1}, TypeInv, PurgeInv, Next, proc'[1].pc = "ended"
             PROVE  ToSet(proc[1].starts) = {} \/ UNCHANGED vars
  BY DEF NoneCutShort
<1> DEFINE q == proc[1]
<1>1. 1 \in Instance /\ Proper(q)
  BY DEF TypeInv, Procs
<1>2. ~Busy(q) => ToSet(q.starts) = {}
  BY <1>1, NoNames DEF Proper, Phase, Busy
<1>3. proc' = proc => ToSet(q.starts) = {}
  BY <1>2 DEF Busy
<1>4. ~Purge(1)
  <2>1. Purge(1) => q.pc = "purging" /\ q.stops # <<>>
    BY DEF Purge
  <2>2. q.pc = "purging" => YoungerThere(q.stops)
    BY DEF PurgeInv
  <2>3. ~(1 > 1)
    OBVIOUS
  <2> QED BY <2>1, <2>2, <2>3, TailFacts
<1>5. UpdateReturns(1) => ToSet(q.starts) = {}
  BY NoNames DEF UpdateReturns
<1>6. ~(Stop(1) \/ PassOver(1))
  BY <1>1, StopMakes, OneProcess DEF TypeInv, Makes
<1>7. ~Rename(1)
  BY <1>1, RenameMakes, OneProcess DEF TypeInv, Makes
<1>8. ~(NotRestarted(1) \/ Start(1))
  BY <1>1, StartMakes, OneProcess DEF TypeInv, Makes
<1>9. ~CleanUp(1)
  BY <1>1, CleanUpMakes, OneProcess DEF TypeInv, Makes
<1>10. ~StartInstance(1)
  BY <1>1, StartInstanceMakes
<1>11. PlanUpdate(1) => ~Busy(q)
  BY DEF PlanUpdate, Plan, Busy
<1>12. CheckPrereqs(1) \/ PrereqsFail(1) \/ PurgeReturns(1) \/ ListFails(1) \/ Launch(1) => ~Busy(q)
  BY DEF CheckPrereqs, PrereqsFail, PurgeReturns, ListFails, Launch, NextInstance, Unborn, Busy
<1>13. (\E m \in Image : Push(m)) \/ (\E a \in App : Crash(a)) => proc' = proc
  BY DEF Push, Crash
<1> QED BY <1>2, <1>3, <1>4, <1>5, <1>6, <1>7, <1>8, <1>9, <1>10, <1>11, <1>12, <1>13 DEF Next, Step

(* A watchtower that is alone on its host takes no container down          *)
(* silently: whatever is listed, linked, pulled or fails.                  *)
THEOREM DownIsReportedAlone == Instance = {1} => (Spec => []DownIsReported)
<1> SUFFICES ASSUME Instance = {1} PROVE Spec => []DownIsReported
  OBVIOUS
<1>1. TypeInv /\ PurgeInv /\ [Next]_vars => [NoneCutShort]_vars
  BY AloneUncut
<1> QED BY <1>1, TypeInit, TypeStep, PurgeInvInit, PurgeInvStep, DownInit, DownStep, DownEnough,
        PTL DEF Spec

-----------------------------------------------------------------------------
(***************************************************************************)
(* One update at a time                                                    *)
(***************************************************************************)

(* What check.go promises and instances that start by themselves can       *)
(* break: while one updates, no other does or could begin to.              *)
OneAtATime ==
  \A i, j \in Instance :
    Busy(proc[i]) /\ (proc[j].pc = "idle" \/ Busy(proc[j])) => i = j

DistinctList(s) == \A j, k \in DOMAIN s : s[j] = s[k] => j = k

(* What a container links to is started before it.                         *)
LinkedBefore(s) == \A j, k \in DOMAIN s : s[k] \in ToSet(links[s[j]]) => k < j

Watches(d, c) == d \in App /\ c \in App /\ c \in ToSet(links[d]) /\ box[d].state = "running" /\ Monitored(d)

(* Who links to a container is stopped before it.                          *)
WatchedBefore(s) ==
  \A k \in DOMAIN s, d \in App : Watches(d, s[k]) =>
    d \in failed \/ \E h \in DOMAIN s : h < k /\ s[h] = d

Ordered(q) == DistinctList(q.starts) /\ DistinctList(q.stops) /\ LinkedBefore(q.starts)

(* A container is as it was listed until it is stopped, then it is gone.   *)
AsListed(q) ==
  \A a \in App \cap Rest(q) :
    \/ a \in failed
    \/ a \in ToSet(q.stops) /\ box[a].state = "running" /\ box[a].id = q.seen[a].id
    \/ a \notin ToSet(q.stops) /\ box[a].state = "none"

(* Its image is there to start it from, unless a pull failed or --cleanup  *)
(* took it.                                                                *)
HasImage(q) ==
  ~config.noRestart =>
    \A a \in App \cap Rest(q) :
      \/ local[ImageOf[a]] # 0
      \/ a \in faulty
      \/ /\ config.cleanup
         /\ \E c \in (failed \ Rest(q)) \cup Instance : ImageNameOf(c) = ImageOf[a]

(* What is cleaned up after is running, or failed to start.                *)
Cleans(q) ==
  q.pc = "cleaning" =>
    /\ config.cleanup
    /\ ~config.noRestart /\ Head(q.starts) \in App =>
         \/ Head(q.starts) \in failed
         \/ /\ box[Head(q.starts)].state = "running"
            /\ box[Head(q.starts)].version = local[ImageOf[Head(q.starts)]]

Good(q) == Ordered(q) /\ WatchedBefore(q.stops) /\ AsListed(q) /\ HasImage(q) /\ Cleans(q)

UpdateInv == \A i \in Instance : Busy(proc[i]) => Good(proc[i])

(* With --no-pull no image ever changes.                                   *)
NoPullInv ==
  config.noPull =>
    /\ \A m \in Image : local[m] \in {0, 1}
    /\ \A a \in App : box[a].version = 1
    /\ \A i \in Instance : proc[i].pc = "off" \/ wt[i].version = 1

LEMMA TailLists ==
  ASSUME NEW s \in Seq(Container), s # <<>>
  PROVE  /\ DistinctList(s) => DistinctList(Tail(s)) /\ Head(s) \notin ToSet(Tail(s))
         /\ LinkedBefore(s) =>
              LinkedBefore(Tail(s)) /\ \A x \in ToSet(s) : x \notin ToSet(links[Head(s)])
         /\ WatchedBefore(s) =>
              \A k \in DOMAIN Tail(s), d \in App : Watches(d, Tail(s)[k]) =>
                d \in failed \/ d = Head(s) \/ \E h \in DOMAIN Tail(s) : h < k /\ Tail(s)[h] = d
<1> DEFINE t == Tail(s)
           n == Len(s) - 1
<1>1. /\ n \in Nat /\ DOMAIN s = 1 .. n + 1 /\ Head(s) = s[1] /\ DOMAIN t = 1 .. n
      /\ \A k \in 1 .. n : t[k] = s[k + 1]
  OBVIOUS
<1>2. /\ \A x : x \in ToSet(t) <=> \E k \in 1 .. n : t[k] = x
      /\ \A x : x \in ToSet(s) <=> \E k \in 1 .. n + 1 : s[k] = x
  BY <1>1 DEF ToSet
<1> HIDE DEF t, n
<1>3. \A k \in 1 .. n : k + 1 \in 1 .. n + 1 /\ k + 1 # 1
  BY <1>1
<1>4. 1 \in 1 .. n + 1
  BY <1>1
<1>5. \A j, k \in 1 .. n : (j + 1 = k + 1 <=> j = k) /\ (j + 1 < k + 1 <=> j < k)
  BY <1>1
<1>6. ASSUME DistinctList(s) PROVE DistinctList(t) /\ Head(s) \notin ToSet(t)
  <2>1. ASSUME NEW j \in 1 .. n, NEW k \in 1 .. n, t[j] = t[k] PROVE j = k
    <3>1. j + 1 \in DOMAIN s /\ k + 1 \in DOMAIN s
      BY <1>1, <1>3
    <3>2. s[j + 1] = s[k + 1]
      BY <1>1, <2>1
    <3>3. j + 1 = k + 1
      BY <1>6, <3>1, <3>2 DEF DistinctList
    <3> QED BY <1>5, <3>3
  <2>2. ASSUME NEW k \in 1 .. n PROVE t[k] # s[1]
    <3>1. t[k] = s[1] => k + 1 = 1
      BY <1>1, <1>3, <1>4, <1>6 DEF DistinctList
    <3> QED BY <1>3, <3>1
  <2> QED BY <1>1, <1>2, <2>1, <2>2 DEF DistinctList
<1>7. ASSUME LinkedBefore(s) PROVE LinkedBefore(t) /\ \A x \in ToSet(s) : x \notin ToSet(links[Head(s)])
  <2>1. LinkedBefore(t)
    BY <1>1, <1>3, <1>5, <1>7 DEF LinkedBefore
  <2>2. ASSUME NEW k \in 1 .. n + 1 PROVE s[k] \notin ToSet(links[s[1]])
    <3>1. ~(k < 1)
      BY <1>1
    <3> QED BY <1>1, <1>4, <1>7, <3>1 DEF LinkedBefore
  <2> QED BY <1>1, <1>2, <2>1, <2>2
<1>8. ASSUME WatchedBefore(s), NEW k \in 1 .. n, NEW d \in App, Watches(d, t[k]), d \notin failed, d # s[1]
      PROVE  \E h \in 1 .. n : h < k /\ t[h] = d
  <2>1. PICK g \in 1 .. n + 1 : g < k + 1 /\ s[g] = d
    BY <1>1, <1>3, <1>8 DEF WatchedBefore
  <2>2. g - 1 \in 1 .. n /\ (g - 1) + 1 = g /\ g - 1 < k
    BY <1>1, <1>8, <2>1
  <2> QED BY <1>1, <2>1, <2>2
<1>9. WatchedBefore(s) =>
        \A k \in DOMAIN t, d \in App : Watches(d, t[k]) =>
          d \in failed \/ d = Head(s) \/ \E h \in DOMAIN t : h < k /\ t[h] = d
  BY <1>1, <1>8
<1> QED BY <1>6, <1>7, <1>9 DEF t

LEMMA NoLists == DistinctList(<<>>) /\ WatchedBefore(<<>>)
BY DEF DistinctList, WatchedBefore

LEMMA WithoutFacts ==
  ASSUME Hosts, NEW m, NEW v, NEW U, NEW n \in Image, WithoutImage(m, v, U)[n] # local[n]
  PROVE  n = m /\ local[m] = v /\ <<m, v>> \notin U
BY DEF Hosts, WithoutImage

(* Who does not take the step is not disturbed by it: containers only      *)
(* crash, and an image that goes is watchtower's, and out of use.          *)
LEMMA GoodKept ==
  ASSUME NEW j \in Instance, Good(proc[j]), UNCHANGED env,
         failed \subseteq failed', faulty \subseteq faulty',
         \A a \in App : /\ a \in failed' \/ box'[a] = box[a]
                        /\ box'[a].state = "running" => box[a].state = "running",
         \A a \in App : \/ local'[ImageOf[a]] = local[ImageOf[a]]
                        \/ /\ config.cleanup /\ ImageOf[a] = Own
                           /\ ~(box[a].state = "running" /\ box[a].version = local[ImageOf[a]]),
         proc'[j].pc = proc[j].pc, proc'[j].stops = proc[j].stops,
         proc'[j].starts = proc[j].starts, proc'[j].seen = proc[j].seen
  PROVE  Good(proc[j])'
<1>1. UNCHANGED <<config, links>>
  BY DEF env
<1>2. Rest(proc[j])' = Rest(proc[j])
  BY DEF Rest
<1>3. Ordered(proc[j])'
  BY <1>1 DEF Good, Ordered, DistinctList, LinkedBefore
<1>4. WatchedBefore(proc[j].stops)'
  <2>1. \A d \in App : \A c : Watches(d, c)' => Watches(d, c)
    BY <1>1 DEF Watches, Monitored
  <2> SUFFICES ASSUME NEW k \in DOMAIN proc[j].stops, NEW d \in App, Watches(d, proc[j].stops[k])',
                      d \notin failed'
               PROVE  \E h \in DOMAIN proc[j].stops : h < k /\ proc[j].stops[h] = d
    BY DEF WatchedBefore
  <2>2. Watches(d, proc[j].stops[k])
    BY <1>1 DEF Watches, Monitored
  <2> QED BY <2>2 DEF Good, WatchedBefore
<1>5. AsListed(proc[j])'
  <2> SUFFICES ASSUME NEW a \in App \cap Rest(proc[j]), a \notin failed'
               PROVE  \/ a \in ToSet(proc[j].stops) /\ box'[a].state = "running"
                         /\ box'[a].id = proc[j].seen[a].id
                      \/ a \notin ToSet(proc[j].stops) /\ box'[a].state = "none"
    BY <1>2 DEF AsListed
  <2> QED BY DEF Good, AsListed
<1>6. HasImage(proc[j])'
  <2> SUFFICES ASSUME ~config.noRestart, NEW a \in App \cap Rest(proc[j])
               PROVE  \/ local'[ImageOf[a]] # 0
                      \/ a \in faulty'
                      \/ /\ config.cleanup
                         /\ \E c \in (failed' \ Rest(proc[j])) \cup Instance : ImageNameOf(c) = ImageOf[a]
    BY <1>1, <1>2 DEF HasImage
  <2>1. \/ local[ImageOf[a]] # 0
        \/ a \in faulty
        \/ /\ config.cleanup
           /\ \E c \in (failed \ Rest(proc[j])) \cup Instance : ImageNameOf(c) = ImageOf[a]
    BY DEF Good, HasImage
  <2>2. ImageNameOf(j) = Own
    BY AppAssumption DEF ImageNameOf
  <2> QED BY <2>1, <2>2
<1>7. Cleans(proc[j])'
  <2> DEFINE c == Head(proc[j].starts)
  <2> SUFFICES ASSUME proc[j].pc = "cleaning"
               PROVE  /\ config.cleanup
                      /\ ~config.noRestart /\ c \in App =>
                           \/ c \in failed'
                           \/ box'[c].state = "running" /\ box'[c].version = local'[ImageOf[c]]
    BY <1>1 DEF Cleans
  <2>1. /\ config.cleanup
        /\ ~config.noRestart /\ c \in App =>
             \/ c \in failed
             \/ box[c].state = "running" /\ box[c].version = local[ImageOf[c]]
    BY DEF Good, Cleans
  <2> HIDE DEF c
  <2> QED BY <2>1
<1> QED BY <1>3, <1>4, <1>5, <1>6, <1>7 DEF Good

(* The stop loop.                                                          *)
LEMMA StopGood ==
  ASSUME TypeInv, NEW i \in Instance, Good(proc[i]), Stop(i) \/ PassOver(i)
  PROVE  Good(proc[i])'
<1> DEFINE q == proc[i]
           c == Head(q.stops)
           t == Tail(q.stops)
<1>1. /\ proc'[i].pc = "updating" /\ proc'[i].stops = t /\ proc'[i].starts = q.starts
      /\ proc'[i].seen = q.seen /\ q.pc = "updating" /\ q.stops # <<>> /\ Proper(q)
  BY StopMakes, OneProcess DEF TypeInv, Makes, Procs
<1>2. UNCHANGED <<config, links, local>> /\ faulty \subseteq faulty'
  BY DEF Stop, PassOver, env, host, history, NoFault, Fault
<1>3. /\ failed \subseteq failed'
      /\ \A a \in App \ {c} : box'[a] = box[a]
      /\ c \in App => c \in failed' \/ box'[c].state = "none"
  <2>1. CASE Stop(i)
    BY <2>1, StopBox
  <2>2. CASE PassOver(i)
    BY <2>2, AppAssumption DEF PassOver, host, history
  <2> QED BY <2>1, <2>2
<1>4. /\ DistinctList(q.stops) /\ DistinctList(q.starts) /\ LinkedBefore(q.starts)
      /\ WatchedBefore(q.stops) /\ AsListed(q) /\ HasImage(q)
  BY DEF Good, Ordered
<1>5. q.stops \in Seq(Container)
  BY <1>1 DEF Proper
<1>6. /\ DistinctList(t) /\ c \notin ToSet(t) /\ ToSet(q.stops) = {c} \cup ToSet(t)
      /\ \A k \in DOMAIN t, d \in App : Watches(d, t[k]) =>
           d \in failed \/ d = c \/ \E h \in DOMAIN t : h < k /\ t[h] = d
  BY <1>1, <1>4, <1>5, TailLists, ListFacts
<1> HIDE DEF c, t
<1>7. Rest(q)' = Rest(q)
  BY <1>1 DEF Rest
<1>8. Ordered(q)'
  <2>1. DistinctList(proc'[i].starts) /\ DistinctList(proc'[i].stops)
    BY <1>1, <1>4, <1>6
  <2>2. LinkedBefore(q.starts)'
    BY <1>1, <1>2, <1>4 DEF LinkedBefore
  <2> QED BY <2>1, <2>2 DEF Ordered, DistinctList
<1>9. WatchedBefore(q.stops)'
  <2> SUFFICES ASSUME NEW k \in DOMAIN t, NEW d \in App, d \notin failed', box'[d].state = "running",
                      t[k] \in App, t[k] \in ToSet(links[d]), Monitored(d)
               PROVE  \E h \in DOMAIN t : h < k /\ t[h] = d
    BY <1>1, <1>2 DEF WatchedBefore, Watches, Monitored
  <2>1. d # c
    BY <1>3
  <2>2. Watches(d, t[k])
    BY <1>3, <2>1 DEF Watches
  <2> QED BY <1>3, <1>6, <2>1, <2>2
<1>10. AsListed(q)'
  <2> SUFFICES ASSUME NEW a \in App \cap Rest(q), a \notin failed'
               PROVE  \/ a \in ToSet(t) /\ box'[a].state = "running" /\ box'[a].id = q.seen[a].id
                      \/ a \notin ToSet(t) /\ box'[a].state = "none"
    BY <1>1, <1>7 DEF AsListed, ToSet
  <2>1. CASE a = c
    BY <1>3, <1>6, <2>1
  <2>2. CASE a # c
    BY <1>3, <1>4, <1>6, <2>2 DEF AsListed
  <2> QED BY <2>1, <2>2
<1>11. HasImage(q)'
  <2> SUFFICES ASSUME ~config.noRestart, NEW a \in App \cap Rest(q)
               PROVE  \/ local[ImageOf[a]] # 0
                      \/ a \in faulty'
                      \/ /\ config.cleanup
                         /\ \E e \in (failed' \ Rest(q)) \cup Instance : ImageNameOf(e) = ImageOf[a]
    BY <1>2, <1>7 DEF HasImage
  <2> QED BY <1>2, <1>3, <1>4 DEF HasImage
<1>12. Cleans(q)'
  BY <1>1 DEF Cleans
<1> QED BY <1>8, <1>9, <1>10, <1>11, <1>12 DEF Good

(* The restart loop.  It touches nothing that is still to be started.      *)
LEMMA RestartGood ==
  ASSUME NEW i \in Instance, Good(proc[i]), Proper(proc[i]), UNCHANGED env,
         proc[i].stops = <<>>, proc[i].starts # <<>>,
         proc'[i].stops = <<>>, proc'[i].starts \in {proc[i].starts, Tail(proc[i].starts)},
         proc'[i].seen = proc[i].seen,
         Rest(proc'[i]) \subseteq Rest(proc[i]), failed \ Rest(proc[i]) \subseteq failed',
         \A a \in App \cap Rest(proc'[i]) :
           /\ box'[a] = box[a] /\ (a \in failed => a \in failed') /\ (a \in faulty => a \in faulty')
           /\ \/ config.noRestart
              \/ local'[ImageOf[a]] = local[ImageOf[a]]
              \/ /\ config.cleanup
                 /\ \E e \in (failed' \ Rest(proc'[i])) \cup Instance : ImageNameOf(e) = ImageOf[a],
         Cleans(proc[i])'
  PROVE  Good(proc[i])'
<1> DEFINE q == proc[i]
<1>1. UNCHANGED <<config, links>>
  BY DEF env
<1>2. /\ DistinctList(q.starts) /\ LinkedBefore(q.starts) /\ AsListed(q) /\ HasImage(q)
  BY DEF Good, Ordered
<1>3. Rest(q)' = Rest(proc'[i])
  BY DEF Rest
<1>4. DistinctList(proc'[i].starts) /\ LinkedBefore(proc'[i].starts)
  BY <1>2, TailLists DEF Proper
<1>5. Ordered(q)'
  <2>1. LinkedBefore(q.starts)'
    BY <1>1, <1>4 DEF LinkedBefore
  <2> QED BY <1>4, <2>1, NoLists DEF Ordered, DistinctList
<1>6. WatchedBefore(q.stops)'
  BY DEF WatchedBefore
<1>7. AsListed(q)'
  <2> SUFFICES ASSUME NEW a \in App \cap Rest(proc'[i]), a \notin failed'
               PROVE  a \notin ToSet(<<>>) /\ box'[a].state = "none"
    BY <1>3 DEF AsListed, ToSet
  <2> QED BY <1>2, NoNames DEF AsListed
<1>8. HasImage(q)'
  <2> SUFFICES ASSUME ~config.noRestart, NEW a \in App \cap Rest(proc'[i])
               PROVE  \/ local'[ImageOf[a]] # 0
                      \/ a \in faulty'
                      \/ /\ config.cleanup
                         /\ \E e \in (failed' \ Rest(proc'[i])) \cup Instance : ImageNameOf(e) = ImageOf[a]
    BY <1>1, <1>3 DEF HasImage
  <2>1. \/ local[ImageOf[a]] # 0
        \/ a \in faulty
        \/ /\ config.cleanup
           /\ \E e \in (failed \ Rest(q)) \cup Instance : ImageNameOf(e) = ImageOf[a]
    BY <1>2 DEF HasImage
  <2>2. failed \ Rest(q) \subseteq failed' \ Rest(proc'[i])
    OBVIOUS
  <2> QED BY <2>1, <2>2
<1> QED BY <1>5, <1>6, <1>7, <1>8 DEF Good

(* The steps of the restart loop that touch no container but watchtower's. *)
LEMMA QuietGood ==
  ASSUME TypeInv, NEW i \in Instance, Good(proc[i]),
         Rename(i) \/ NotRestarted(i) \/ StartInstance(i)
  PROVE  Good(proc[i])'
<1> DEFINE q == proc[i]
           r == proc'[i]
<1>1. Proper(q) /\ Proper(r)
  <2>1. Procs'
    BY ProcsStep DEF Step
  <2> QED BY <2>1 DEF TypeInv, Procs
<1>2. /\ q.pc # "cleaning" /\ q.stops = <<>> /\ q.starts # <<>>
      /\ r.stops = <<>> /\ r.seen = q.seen
      /\ \/ r.starts = Tail(q.starts) \/ r.starts = q.starts
      /\ r.pc = "cleaning" =>
           /\ config.cleanup /\ r.starts = q.starts
           /\ config.noRestart \/ Head(q.starts) \in Instance
  <2>1. CASE Rename(i)
    <3>1. PICK x : /\ Makes(i, x) /\ x.pc \in {"updating", "renamed"} /\ x.stops = <<>>
                   /\ x.starts \in {q.starts, Tail(q.starts)} /\ x.seen = q.seen
      BY <2>1, RenameMakes
    <3>2. r = x
      BY <3>1, OneProcess DEF TypeInv, Makes
    <3>3. q.pc = "updating" /\ q.stops = <<>> /\ q.starts # <<>>
      BY <2>1, RenameMakes
    <3> HIDE DEF q, r
    <3> QED BY <3>1, <3>2, <3>3
  <2>2. CASE NotRestarted(i)
    <3>1. config.noRestart
      BY <2>2 DEF NotRestarted
    <3> QED BY <2>2, <3>1, StartMakes, OneProcess DEF TypeInv, Makes
  <2>3. CASE StartInstance(i)
    BY <2>3, StartInstanceMakes
  <2> QED BY <2>1, <2>2, <2>3
<1>3. UNCHANGED <<env, box, local, failed>> /\ faulty \subseteq faulty'
  BY DEF Rename, NotRestarted, StartInstance, host, history, NoFault, Fault
<1>4. ToSet(q.starts) = {Head(q.starts)} \cup ToSet(Tail(q.starts)) /\ Rest(q) = ToSet(q.starts)
  BY <1>1, <1>2, RestFacts
<1>5. Rest(r) \subseteq ToSet(r.starts)
  BY <1>1, RestFacts
<1>6. Rest(r) \subseteq Rest(q)
  BY <1>2, <1>4, <1>5
<1>7. Cleans(proc[i])'
  <2> SUFFICES ASSUME r.pc = "cleaning"
               PROVE  config.cleanup /\ (config.noRestart \/ Head(r.starts) \notin App)
    BY <1>3 DEF Cleans, env
  <2>1. config.cleanup /\ r.starts = q.starts /\ (config.noRestart \/ Head(q.starts) \in Instance)
    BY <1>2
  <2>2. \A x : x \in Instance => x \notin App
    BY AppAssumption
  <2> HIDE DEF q, r
  <2> QED BY <2>1, <2>2
<1> QED BY <1>1, <1>2, <1>3, <1>6, <1>7, RestartGood

LEMMA StartGood ==
  ASSUME TypeInv, NEW i \in Instance, Good(proc[i]), Start(i)
  PROVE  Good(proc[i])'
<1> DEFINE q == proc[i]
           r == proc'[i]
           c == Head(q.starts)
<1>1. Proper(q)
  BY DEF TypeInv, Procs
<1>2. /\ q.pc # "cleaning" /\ q.stops = <<>> /\ q.starts # <<>>
      /\ r.stops = <<>> /\ r.seen = q.seen
      /\ \/ config.cleanup /\ r.pc = "cleaning" /\ r.starts = q.starts
         \/ r.pc = "updating" /\ r.starts = Tail(q.starts)
  BY StartMakes, OneProcess DEF TypeInv, Makes
<1>3. UNCHANGED <<env, local>>
  BY DEF Start
<1>4. /\ c \in App /\ \A a \in App \ {c} : box'[a] = box[a]
      /\ \/ /\ failed' = failed \ {c} /\ faulty' = faulty \ {c}
            /\ box'[c].state = "running" /\ box'[c].version = local[ImageOf[c]]
         \/ failed' = failed \cup {c} /\ faulty \subseteq faulty'
  BY StartEffect
<1>5. /\ Rest(q) = ToSet(q.starts) /\ Rest(r) = ToSet(Tail(q.starts))
      /\ Rest(q) = {c} \cup Rest(r)
  BY StartedRest
<1>6. c \notin Rest(r)
  <2>1. DistinctList(q.starts) /\ q.starts \in Seq(Container)
    BY <1>1 DEF Good, Ordered, Proper
  <2> QED BY <1>2, <1>5, <2>1, TailLists
<1>7. Cleans(proc[i])'
  <2>1. r.pc = "cleaning" => config.cleanup /\ Head(r.starts) = c
    BY <1>2
  <2>2. c \in failed' \/ (box'[c].state = "running" /\ box'[c].version = local'[ImageOf[c]])
    BY <1>3, <1>4
  <2> HIDE DEF c
  <2> QED BY <1>3, <2>1, <2>2 DEF Cleans, env
<1> HIDE DEF c
<1> QED BY <1>1, <1>2, <1>3, <1>4, <1>5, <1>6, <1>7, RestartGood

(* The image that goes is that of a container whose start was tried: it    *)
(* failed to start, or it is one of watchtower's.                          *)
LEMMA CleanUpGood ==
  ASSUME TypeInv, NEW i \in Instance, Good(proc[i]), CleanUp(i)
  PROVE  Good(proc[i])'
<1> DEFINE q == proc[i]
           r == proc'[i]
           c == Head(q.starts)
<1>1. /\ Proper(q) /\ Proper(r) /\ q.pc = "cleaning" /\ q.stops = <<>> /\ q.starts # <<>>
      /\ r.pc = "updating" /\ r.stops = <<>> /\ r.starts = Tail(q.starts) /\ r.seen = q.seen
  BY CleanUpMakes, OneProcess DEF TypeInv, Makes, Procs
<1>2. UNCHANGED <<env, box, failed>> /\ faulty \subseteq faulty'
  BY DEF CleanUp, NoFault, Fault
<1>3. Rest(q) = ToSet(Tail(q.starts)) /\ Rest(r) = Rest(q) /\ c \in Container
  <2>1. Rest(q) = ToSet(Tail(q.starts)) /\ Rest(r) = ToSet(r.starts)
    BY <1>1, RestFacts
  <2>2. c \in ToSet(q.starts) /\ ToSet(q.starts) \subseteq Container
    BY <1>1, ListFacts DEF Proper
  <2> QED BY <1>1, <2>1, <2>2
<1>4. c \notin Rest(r)
  <2>1. DistinctList(q.starts) /\ q.starts \in Seq(Container)
    BY <1>1 DEF Good, Ordered, Proper
  <2> QED BY <1>1, <1>3, <2>1, TailLists
<1>5. /\ config.cleanup
      /\ ~config.noRestart /\ c \in App =>
           c \in failed \/ (box[c].state = "running" /\ box[c].version = local[ImageOf[c]])
  BY <1>1 DEF Good, Cleans
<1>6. ASSUME NEW a \in App, ~config.noRestart, local'[ImageOf[a]] # local[ImageOf[a]]
      PROVE  ImageNameOf(c) = ImageOf[a] /\ (c \in failed \/ c \in Instance)
  <2>1. local' = WithoutImage(ImageNameOf(c), q.seen[c].version, ImagesInUse)
    BY <1>6 DEF CleanUp
  <2>2. ImageOf[a] \in Image /\ Hosts
    BY ImagesFacts DEF TypeInv
  <2>3. /\ ImageOf[a] = ImageNameOf(c) /\ local[ImageNameOf(c)] = q.seen[c].version
        /\ <<ImageNameOf(c), q.seen[c].version>> \notin ImagesInUse
    BY <1>6, <2>1, <2>2, WithoutFacts
  <2>4. c \in App => ImageNameOf(c) = ImageOf[c]
    BY DEF ImageNameOf
  <2>5. c \in App => c \in failed
    <3> SUFFICES ASSUME c \in App, c \notin failed PROVE FALSE
      OBVIOUS
    <3>1. box[c].state = "running" /\ box[c].version = local[ImageOf[c]]
      BY <1>5, <1>6
    <3>2. <<ImageOf[c], box[c].version>> \in ImagesInUse
      BY <3>1 DEF ImagesInUse, RunningApps
    <3> QED BY <2>3, <2>4, <3>1, <3>2
  <2> QED BY <1>3, <2>3, <2>5 DEF Container
<1>7. Cleans(proc[i])'
  BY <1>1 DEF Cleans
<1>8. ASSUME NEW a \in App \cap Rest(r)
      PROVE  /\ box'[a] = box[a] /\ (a \in failed => a \in failed') /\ (a \in faulty => a \in faulty')
             /\ \/ config.noRestart
                \/ local'[ImageOf[a]] = local[ImageOf[a]]
                \/ /\ config.cleanup
                   /\ \E e \in (failed' \ Rest(r)) \cup Instance : ImageNameOf(e) = ImageOf[a]
  <2> HIDE DEF c
  <2> QED BY <1>2, <1>4, <1>5, <1>6
<1> QED BY <1>1, <1>2, <1>3, <1>7, <1>8, RestartGood

(* With --no-pull an image goes or stays.                                  *)
LEMMA NoPullLocal ==
  ASSUME TypeInv, config.noPull, NEW i \in Instance, Launch(i) \/ Step(i), NEW m \in Image
  PROVE  local'[m] \in {local[m], 0}
<1>1. ASSUME NEW n, NEW v, NEW U PROVE WithoutImage(n, v, U)[m] \in {local[m], 0}
  <2>1. WithoutImage(n, v, U) \in {local, [local EXCEPT ![n] = 0]}
    BY DEF WithoutImage
  <2>2. m \in DOMAIN local /\ DOMAIN [local EXCEPT ![n] = 0] = DOMAIN local
    BY DEF TypeInv, Hosts
  <2>3. [local EXCEPT ![n] = 0][m] \in {local[m], 0}
    BY <2>2
  <2> QED BY <2>1, <2>3
<1>2. \A C : Pulled(C)[m] = local[m]
  BY DEF Pulled
<1>3. PlanUpdate(i) => local'[m] = local[m]
  BY <1>2 DEF PlanUpdate, Plan
<1>4. Purge(i) \/ CleanUp(i) => local' = local \/ \E n, v, U : local' = WithoutImage(n, v, U)
  <2>1. Purge(i) => local' = local \/ \E n, v, U : local' = WithoutImage(n, v, U)
    <3>1. Purge(i) => \/ local' = local
                      \/ local' = WithoutImage(Own, wt[Head(proc[i].stops)].version, ImagesInUse')
      BY DEF Purge
    <3> QED BY <3>1
  <2>2. CleanUp(i) => local' = local \/ \E n, v, U : local' = WithoutImage(n, v, U)
    BY DEF CleanUp
  <2> QED BY <2>1, <2>2
<1>5. Purge(i) \/ CleanUp(i) => local'[m] \in {local[m], 0}
  BY <1>1, <1>4
<1>6. \/ PlanUpdate(i) \/ Purge(i) \/ CleanUp(i) \/ UNCHANGED local
  BY DEF Step, Launch, CheckPrereqs, PrereqsFail, PurgeReturns, ListFails, PassOver, Stop, Rename,
         NotRestarted, Start, StartInstance, UpdateReturns, host
<1> QED BY <1>3, <1>5, <1>6

LEMMA NoPullBox ==
  ASSUME TypeInv, NEW i \in Instance, Launch(i) \/ Step(i), NEW a \in App
  PROVE  \/ box'[a].version = box[a].version
         \/ box'[a].version = local[ImageOf[a]] /\ local[ImageOf[a]] # 0
<1>1. box \in [App -> [state : States, id : Nat, version : 1 .. MaxVersion]]
  BY DEF TypeInv, Hosts
<1>2. CASE Stop(i)
  <2> DEFINE c == Head(proc[i].stops)
  <2>1. c \in App /\ (box' = box \/ \E t : box' = [box EXCEPT ![c].state = t])
    BY <1>2 DEF Stop
  <2> HIDE DEF c
  <2> QED BY <1>1, <2>1
<1>3. CASE Start(i)
  <2> DEFINE c == Head(proc[i].starts)
  <2>1. c \in App /\ (box' = box \/ (local[ImageOf[c]] # 0 /\ \E t : box' = Created(c, t)))
    BY <1>3, StartBox
  <2> HIDE DEF c
  <2> QED BY <1>1, <2>1 DEF Created
<1> QED BY <1>2, <1>3, BoxKept

(* A container of watchtower's is of the version it was created from.      *)
LEMMA NoPullWt ==
  ASSUME TypeInv, PurgeInv, NEW i \in Instance, Launch(i) \/ Step(i), NEW j \in Instance
  PROVE  \/ proc'[j].pc = "off"
         \/ wt'[j].version = local[Own] /\ local[Own] # 0
         \/ proc[j].pc # "off" /\ wt'[j].version = wt[j].version
<1>1. Hosts /\ Procs
  BY DEF TypeInv
<1>2. CASE Launch(i)
  <2>1. /\ wt' = [wt EXCEPT ![i] = [state |-> "running", name |-> FreshName, version |-> local[Own]]]
        /\ proc' = [proc EXCEPT ![i] = Booting] /\ local[Own] # 0
    BY <1>2 DEF Launch
  <2>2. j = i => wt'[j].version = local[Own]
    BY <1>1, <2>1 DEF Hosts
  <2>3. j # i => wt'[j].version = wt[j].version /\ proc'[j] = proc[j]
    BY <1>1, <2>1 DEF Hosts, Procs
  <2> QED BY <2>1, <2>2, <2>3
<1>3. CASE StartInstance(i)
  <2> DEFINE new(s) == [state |-> s, name |-> proc[i].seen[Head(proc[i].starts)].name, version |-> local[Own]]
             after == [proc EXCEPT ![i] = Restarted(i)]
  <2>1. \/ wt' = wt
        \/ local[Own] # 0 /\ \E n \in NextInstance : \E s : wt' = [wt EXCEPT ![n] = new(s)]
    BY <1>3 DEF StartInstance
  <2>2. wt'[j].version = wt[j].version \/ (local[Own] # 0 /\ wt'[j].version = local[Own])
    <3>1. CASE wt' = wt
      BY <3>1
    <3>2. CASE local[Own] # 0 /\ \E n \in NextInstance : \E s : wt' = [wt EXCEPT ![n] = new(s)]
      <4>1. PICK n, s : wt' = [wt EXCEPT ![n] = new(s)]
        BY <3>2
      <4>2. wt'[j] = wt[j] \/ wt'[j] = new(s)
        <5> HIDE DEF new
        <5> QED BY <1>1, <4>1 DEF Hosts
      <4> QED BY <3>2, <4>2
    <3> QED BY <2>1, <3>1, <3>2
  <2>3. proc[j].pc = "off" =>
          \/ proc'[j].pc = "off"
          \/ local[Own] # 0 /\ \E s : wt' = [wt EXCEPT ![j] = new(s)]
    <3> SUFFICES ASSUME proc[j].pc = "off", proc'[j].pc # "off"
                 PROVE  local[Own] # 0 /\ \E s : wt' = [wt EXCEPT ![j] = new(s)]
      OBVIOUS
    <3>1. j # i
      BY <1>3 DEF StartInstance
    <3>2. DOMAIN after = Instance /\ after[j] = proc[j]
      BY <1>1, <3>1 DEF Procs
    <3>3. proc' # after
      BY <3>2
    <3>4. PICK n \in NextInstance :
            /\ local[Own] # 0
            /\ \/ wt' = [wt EXCEPT ![n] = new("running")] /\ proc' = [after EXCEPT ![n] = Booting]
               \/ wt' = [wt EXCEPT ![n] = new("created")] /\ proc' = [after EXCEPT ![n] = Ended]
      BY <1>3, <3>3 DEF StartInstance
    <3>5. n = j
      <4> HIDE DEF after, new
      <4> QED BY <3>2, <3>4
    <3> QED BY <3>4, <3>5
  <2>4. \A s : [wt EXCEPT ![j] = new(s)][j].version = local[Own]
    BY <1>1 DEF Hosts
  <2> HIDE DEF new
  <2> QED BY <2>2, <2>3, <2>4
<1>4. CASE Step(i) /\ ~StartInstance(i)
  <2>1. PlanUpdate(i) => UNCHANGED wt
    BY DEF PlanUpdate, Plan
  <2>2. UNCHANGED wt \/ (\E k, t : wt' = [wt EXCEPT ![k].state = t]) \/ (\E k, n : wt' = [wt EXCEPT ![k].name = n])
    BY <1>4, <2>1 DEF Step, CheckPrereqs, PrereqsFail, Purge, PurgeReturns, ListFails, PassOver, Stop, Rename,
         NotRestarted, Start, CleanUp, UpdateReturns, host
  <2>3. wt'[j].version = wt[j].version
    <3>1. ASSUME NEW k, NEW t, wt' = [wt EXCEPT ![k].state = t] PROVE wt'[j].version = wt[j].version
      BY <1>1, <3>1 DEF Hosts
    <3>2. ASSUME NEW k, NEW n, wt' = [wt EXCEPT ![k].name = n] PROVE wt'[j].version = wt[j].version
      BY <1>1, <3>2 DEF Hosts
    <3> QED BY <2>2, <3>1, <3>2
  <2>4. ASSUME proc[j].pc = "off" PROVE proc'[j].pc = "off"
    <3>1. proc[i].pc # "off"
      <4>1. PlanUpdate(i) => proc[i].pc # "off"
        BY DEF PlanUpdate, Plan
      <4> QED BY <1>4, <4>1 DEF Step, CheckPrereqs, PrereqsFail, Purge, PurgeReturns, ListFails, PassOver, Stop,
            Rename, Restarting, NotRestarted, Start, CleanUp, UpdateReturns
    <3>2. ASSUME NEW r, Makes(i, r) PROVE proc'[j] = proc[j]
      BY <1>1, <2>4, <3>1, <3>2, OneProcess DEF Makes
    <3>3. PlanUpdate(i) => proc'[j] = proc[j]
      BY <3>2, PlanMakes DEF PlanUpdate
    <3>4. Purge(i) => proc'[j].pc = "off"
      <4>1. CASE Purge(i) /\ proc'[j] # Ended
        BY <2>4, <4>1, PurgeMakes
      <4>2. CASE Purge(i) /\ proc'[j] = Ended
        <5> DEFINE v == Head(proc[i].stops)
                   next == [proc EXCEPT ![i].stops = Tail(@)]
        <5>1. ~There(j)
          BY <2>4 DEF PurgeInv
        <5>2. j # i /\ DOMAIN next = Instance /\ next[j] = proc[j] /\ v \in Instance
          BY <1>1, <2>4, <3>1, <4>2, PurgeMakes DEF Procs
        <5>3. \/ proc' = next
              \/ wt[v].state = "running" /\ proc' \in {[next EXCEPT ![v] = Ended], [next EXCEPT ![v].term = TRUE]}
          BY <4>2 DEF Purge
        <5>4. wt[v].state = "running" => v # j
          BY <5>1 DEF There
        <5> HIDE DEF next, v
        <5> QED BY <2>4, <5>2, <5>3, <5>4
      <4> QED BY <4>1, <4>2
    <3>5. ListFails(i) => proc'[j] = proc[j]
      BY DEF ListFails
    <3> QED BY <1>4, <2>4, <3>2, <3>3, <3>4, <3>5, CheckPrereqsMakes, PurgeReturnsMakes, StopMakes, RenameMakes,
            StartMakes, CleanUpMakes, OtherwiseMakes DEF Step
  <2> QED BY <2>3, <2>4
<1> QED BY <1>2, <1>3, <1>4

LEMMA NoPullStep == TypeInv /\ PurgeInv /\ NoPullInv /\ [Next]_vars => NoPullInv'
<1> SUFFICES ASSUME TypeInv, PurgeInv, NoPullInv, [Next]_vars, config'.noPull
             PROVE  /\ \A m \in Image : local'[m] \in {0, 1}
                    /\ \A a \in App : box'[a].version = 1
                    /\ \A i \in Instance : proc'[i].pc = "off" \/ wt'[i].version = 1
  BY DEF NoPullInv
<1>1. UNCHANGED config
  BY BoxKept DEF Next, Push, Crash, vars, env
<1>2. config.noPull /\ \A m \in Image : local[m] \in {0, 1}
  BY <1>1 DEF NoPullInv
<1>3. Own \in Image /\ \A a \in App : ImageOf[a] \in Image
  BY ImagesFacts DEF TypeInv
<1>4. CASE UNCHANGED <<local, wt, proc>> /\ \A a \in App : box'[a].version = box[a].version
  BY <1>1, <1>4 DEF NoPullInv
<1>5. ASSUME NEW i \in Instance, Launch(i) \/ Step(i)
      PROVE  /\ \A m \in Image : local'[m] \in {0, 1}
             /\ \A a \in App : box'[a].version = 1
             /\ \A j \in Instance : proc'[j].pc = "off" \/ wt'[j].version = 1
  <2>1. \A m \in Image : local'[m] \in {0, 1}
    BY <1>2, <1>5, NoPullLocal
  <2>2. \A a \in App : box'[a].version = 1
    BY <1>2, <1>3, <1>5, NoPullBox DEF NoPullInv
  <2>3. \A j \in Instance : proc'[j].pc = "off" \/ wt'[j].version = 1
    BY <1>2, <1>3, <1>5, NoPullWt DEF NoPullInv
  <2> QED BY <2>1, <2>2, <2>3
<1>6. ASSUME NEW b \in App, Crash(b)
      PROVE  UNCHANGED <<local, wt, proc>> /\ \A a \in App : box'[a].version = box[a].version
  BY <1>6 DEF Crash, TypeInv, Hosts
<1>7. ASSUME NEW m \in Image, Push(m) PROVE UNCHANGED <<local, wt, proc, box>>
  BY <1>7 DEF Push, host
<1>8. CASE UNCHANGED vars
  BY <1>4, <1>8 DEF vars
<1> QED BY <1>4, <1>5, <1>6, <1>7, <1>8 DEF Next

LEMMA NoPullInit == Init => NoPullInv
<1> SUFFICES ASSUME Init PROVE NoPullInv
  OBVIOUS
<1>1. ASSUME NEW i \in Instance PROVE proc[i].pc = "off" \/ wt[i].version = 1
  BY DEF Init, Off
<1>2. (\A m \in Image : local[m] = 1) /\ (\A a \in App : box[a].version = 1)
  BY DEF Init
<1> QED BY <1>1, <1>2 DEF NoPullInv

(* Without pulls nothing is stale.                                         *)
LEMMA NothingStale ==
  ASSUME TypeInv, PurgeInv, NoPullInv, config.noPull, NEW pulled,
         NEW compared \in SUBSET Listed
  PROVE  Found(pulled, compared) = {}
<1> SUFFICES ASSUME NEW c \in compared,
                    Pulled(pulled)[ImageNameOf(c)] \notin {0, VersionOf(c)}
             PROVE  FALSE
  BY DEF Found
<1>1. c \in RunningApps \cup RunningInstances /\ c \in Container
  BY ListedFacts DEF Listed
<1>2. ImageNameOf(c) \in Image
  BY <1>1, ImagesFacts DEF TypeInv
<1>3. Pulled(pulled)[ImageNameOf(c)] \in {0, 1}
  BY <1>2 DEF Pulled, NoPullInv
<1>4. VersionOf(c) = 1
  <2>1. CASE c \in App
    BY <2>1 DEF VersionOf, NoPullInv
  <2>2. CASE c \notin App
    <3>1. c \in RunningInstances
      BY <1>1, <2>2 DEF RunningApps
    <3>2. c \in Instance /\ There(c)
      BY <3>1 DEF RunningInstances, There
    <3>3. proc[c].pc # "off"
      BY <3>2 DEF PurgeInv
    <3> QED BY <2>2, <3>2, <3>3 DEF VersionOf, NoPullInv
  <2> QED BY <2>1, <2>2
<1> QED BY <1>3, <1>4

LEMMA ClosureFacts ==
  ASSUME NEW C
  PROVE  LET S == StaleClosure(links, Listed, C) IN
         /\ C = {} => S = {}
         /\ \A d \in Listed, c \in S : c \in ToSet(links[d]) => d \in S
<1> DEFINE S == StaleClosure(links, Listed, C)
<1>1. ASSUME C = {}, NEW c \in S PROVE FALSE
  <2>1. ClosedUnderDependents(links, Listed, {})
    BY DEF ClosedUnderDependents
  <2> QED BY <1>1, <2>1 DEF StaleClosure
<1>2. ASSUME NEW d \in Listed, NEW c \in S, c \in ToSet(links[d]) PROVE d \in S
  <2> SUFFICES ASSUME NEW T \in SUBSET Listed, C \subseteq T, ClosedUnderDependents(links, Listed, T)
               PROVE  d \in T
    BY DEF StaleClosure
  <2>1. c \in T /\ c \in Listed
    BY DEF StaleClosure
  <2>2. c \in Deps(links, Listed, d)
    BY <1>2, <2>1 DEF Deps, ToSet
  <2> QED BY <2>1, <2>2 DEF ClosedUnderDependents
<1> QED BY <1>1, <1>2

LEMMA DependencyFacts ==
  ASSUME NEW S \in SUBSET Container, NEW s \in DependencyOrders(links, S)
  PROVE  /\ s \in SetToSeqs(S) /\ DistinctList(s) /\ DistinctList(Reverse(s)) /\ LinkedBefore(s)
<1>1. s \in SetToSeqs(S) /\ DependenciesFirst(links, S, s)
  BY DEF DependencyOrders
<1>2. DistinctList(s) /\ ToSet(s) = S /\ DOMAIN s = 1 .. Len(s) /\ Len(s) \in Nat
  BY <1>1, OrderFacts DEF DistinctList
<1>3. DistinctList(Reverse(s))
  <2> DEFINE n == Len(s)
  <2>1. /\ DOMAIN Reverse(s) = 1 .. n
        /\ \A k \in 1 .. n : n - k + 1 \in 1 .. n /\ Reverse(s)[k] = s[n - k + 1]
    BY <1>1, OrderFacts DEF Reverse
  <2> SUFFICES ASSUME NEW j \in 1 .. n, NEW k \in 1 .. n, Reverse(s)[j] = Reverse(s)[k] PROVE j = k
    BY <2>1 DEF DistinctList
  <2>2. s[n - j + 1] = s[n - k + 1] /\ n - j + 1 \in DOMAIN s /\ n - k + 1 \in DOMAIN s
    BY <1>2, <2>1
  <2>3. n - j + 1 = n - k + 1
    BY <1>2, <2>2 DEF DistinctList
  <2> QED BY <1>2, <2>3
<1>4. LinkedBefore(s)
  <2> SUFFICES ASSUME NEW j \in DOMAIN s, NEW k \in DOMAIN s, s[k] \in ToSet(links[s[j]])
               PROVE  k < j
    BY DEF LinkedBefore
  <2>1. s[k] \in S
    BY <1>2 DEF ToSet
  <2>2. s[k] \in Deps(links, S, s[j])
    BY <2>1 DEF Deps, ToSet
  <2>3. PICK h \in 1 .. (j - 1) : s[h] = s[k]
    BY <1>1, <2>2 DEF DependenciesFirst
  <2>4. h \in DOMAIN s /\ h < j
    BY <1>2, <2>3
  <2> QED BY <1>2, <2>3, <2>4 DEF DistinctList
<1> QED BY <1>1, <1>2, <1>3, <1>4

(* A new plan.  What is stale and can be started again has its image,      *)
(* because the pull that found it stale brought it.                        *)
LEMMA PlanGood ==
  ASSUME TypeInv, PurgeInv, NoPullInv, NEW i \in Instance, NEW pulled,
         NEW compared \in SUBSET Listed, Plan(i, pulled, compared), Busy(proc'[i])
  PROVE  Good(proc[i])'
<1>1. ~Busy(proc[i])
  BY DEF Plan, Busy
<1>2. PICK S, s :
        /\ S = StaleClosure(links, Listed, Found(pulled, compared))
        /\ s \in DependencyOrders(links, S)
        /\ proc'[i].pc = "updating" /\ proc'[i].stops = Reverse(s)
        /\ proc'[i].starts = s /\ proc'[i].seen = Seen(S)
  BY <1>1, PlanMakes, OneProcess DEF TypeInv, Makes
<1>3. S \in SUBSET Container /\ S \in SUBSET Listed
  BY <1>2, ListedFacts
<1>4. /\ s \in SetToSeqs(S) /\ DistinctList(s) /\ DistinctList(Reverse(s)) /\ LinkedBefore(s)
  BY <1>2, <1>3, DependencyFacts
<1>5. UNCHANGED <<config, links, box, failed>> /\ local' = Pulled(pulled) /\ faulty \subseteq faulty'
  BY DEF Plan, env, NoFault, Fault
<1>6. Rest(proc[i])' = S
  BY <1>2, <1>3, <1>4, OrderFacts DEF Rest
<1>7. Ordered(proc[i])'
  <2>1. LinkedBefore(proc[i].starts)'
    BY <1>2, <1>4, <1>5 DEF LinkedBefore
  <2> QED BY <1>2, <1>4, <2>1 DEF Ordered, DistinctList
<1>8. WatchedBefore(proc[i].stops)'
  <2> DEFINE n == Len(s)
             z == Reverse(s)
  <2>1. /\ n \in Nat /\ DOMAIN z = 1 .. n /\ DOMAIN s = 1 .. n
        /\ \A k \in 1 .. n : n - k + 1 \in 1 .. n /\ z[k] = s[n - k + 1]
        /\ \A x : x \in S <=> \E k \in 1 .. n : s[k] = x
    BY <1>3, <1>4, OrderFacts DEF Reverse, ToSet
  <2> SUFFICES ASSUME NEW k \in 1 .. n, NEW d \in App, box[d].state = "running",
                      z[k] \in App, z[k] \in ToSet(links[d]), Monitored(d)
               PROVE  \E h \in 1 .. n : h < k /\ z[h] = d
    BY <1>2, <1>5, <2>1 DEF WatchedBefore, Watches, Monitored
  <2>2. d \in Listed
    BY DEF Listed, RunningApps
  <2>3. z[k] = s[n - k + 1] /\ n - k + 1 \in 1 .. n /\ z[k] \in S
    BY <2>1
  <2>4. d \in S
    BY <1>2, <2>2, <2>3, ClosureFacts
  <2>5. PICK m \in 1 .. n : s[m] = d
    BY <2>1, <2>4
  <2>6. n - k + 1 < m
    BY <1>4, <2>1, <2>3, <2>5 DEF LinkedBefore
  <2>7. n - m + 1 \in 1 .. n /\ n - (n - m + 1) + 1 = m /\ n - m + 1 < k
    BY <2>1, <2>6
  <2>8. z[n - m + 1] = d
    BY <2>1, <2>5, <2>7
  <2> QED BY <2>7, <2>8
<1>9. AsListed(proc[i])'
  <2> SUFFICES ASSUME NEW a \in App \cap S
               PROVE  a \in ToSet(Reverse(s)) /\ box[a].state = "running" /\ box[a].id = Seen(S)[a].id
    BY <1>2, <1>5, <1>6 DEF AsListed, ToSet
  <2>1. a \in RunningApps
    BY <1>3, AppAssumption DEF Listed, RunningInstances
  <2>2. a \in ToSet(Reverse(s))
    BY <1>3, <1>4, OrderFacts
  <2> QED BY <2>1, <2>2 DEF RunningApps, Seen
<1>10. HasImage(proc[i])'
  <2> SUFFICES ASSUME NEW a \in App \cap S PROVE local'[ImageOf[a]] # 0 \/ a \in faulty'
    BY <1>6 DEF HasImage
  <2>1. ~config.noPull
    BY <1>2, NothingStale, ClosureFacts
  <2>2. ImageOf[a] \in Image /\ ImageNameOf(a) = ImageOf[a]
    BY ImagesFacts DEF TypeInv, ImageNameOf
  <2>3. CASE a \in pulled
    <3>1. local'[ImageOf[a]] = registry[ImageOf[a]]
      BY <1>5, <2>1, <2>2, <2>3 DEF Pulled
    <3> QED BY <2>2, <3>1 DEF TypeInv, Hosts
  <2>4. CASE a \notin pulled
    <3>1. a \in Listed /\ a \notin pulled \cap compared
      BY <1>3, <2>4
    <3>2. Fault((App \cap Listed) \ (pulled \cap compared))
      BY <3>1 DEF Plan
    <3> QED BY <3>1, <3>2 DEF Fault
  <2> QED BY <2>3, <2>4
<1>11. Cleans(proc[i])'
  BY <1>2 DEF Cleans
<1> QED BY <1>7, <1>8, <1>9, <1>10, <1>11 DEF Good

(* An older instance is stopped while another updates.                     *)
LEMMA PurgeGood ==
  ASSUME TypeInv, NEW i \in Instance, Purge(i), NEW j \in Instance,
         Busy(proc[j]) => Good(proc[j]), Busy(proc'[j])
  PROVE  Good(proc[j])'
<1>1. /\ j # i /\ proc'[j].pc = proc[j].pc /\ proc'[j].starts = proc[j].starts
      /\ proc'[j].seen = proc[j].seen /\ proc'[j].stops = proc[j].stops
  BY PurgeMakes, AfterNothing DEF Busy
<1>2. Good(proc[j])
  BY <1>1 DEF Busy
<1>3. UNCHANGED <<env, box, failed>> /\ faulty \subseteq faulty'
  BY DEF Purge, NoFault, Fault
<1>4. ASSUME NEW a \in App, local'[ImageOf[a]] # local[ImageOf[a]]
      PROVE  /\ config.cleanup /\ ImageOf[a] = Own
             /\ ~(box[a].state = "running" /\ box[a].version = local[ImageOf[a]])
  <2>1. config.cleanup /\ local' = WithoutImage(Own, wt[Head(proc[i].stops)].version, ImagesInUse')
    BY <1>4 DEF Purge
  <2>2. Hosts /\ ImageOf[a] \in Image
    BY ImagesFacts DEF TypeInv
  <2>3. /\ ImageOf[a] = Own /\ local[Own] = wt[Head(proc[i].stops)].version
        /\ <<Own, wt[Head(proc[i].stops)].version>> \notin ImagesInUse'
    BY <1>4, <2>1, <2>2, WithoutFacts
  <2>4. box[a].state = "running" => <<ImageOf[a], box[a].version>> \in ImagesInUse'
    BY <1>3 DEF ImagesInUse, RunningApps
  <2> QED BY <2>1, <2>3, <2>4
<1> QED BY <1>1, <1>2, <1>3, <1>4, GoodKept

LEMMA UpdateStepInv ==
  TypeInv /\ PurgeInv /\ NoPullInv /\ UpdateInv /\ OneAtATime /\ [Next]_vars => UpdateInv'
<1> SUFFICES ASSUME TypeInv, PurgeInv, NoPullInv, UpdateInv, OneAtATime, [Next]_vars,
                    NEW j \in Instance, Busy(proc'[j])
             PROVE  Good(proc[j])'
  BY DEF UpdateInv, Busy
<1>1. Procs /\ Hosts /\ (Busy(proc[j]) => Good(proc[j]))
  BY DEF TypeInv, UpdateInv
<1>2. ASSUME proc'[j] = proc[j], UNCHANGED <<env, box, local, failed>>, faulty \subseteq faulty'
      PROVE  Good(proc[j])'
  BY <1>1, <1>2, GoodKept
<1>3. CASE UNCHANGED vars \/ \E m \in Image : Push(m)
  BY <1>2, <1>3 DEF vars, Push, host, history
<1>4. ASSUME NEW b \in App, Crash(b) PROVE Good(proc[j])'
  <2>1. /\ UNCHANGED <<env, local, proc>> /\ failed' = failed \cup {b} /\ faulty \subseteq faulty'
        /\ box' = [box EXCEPT ![b].state = "exited"]
    BY <1>4 DEF Crash, Fault
  <2>2. /\ \A a \in App \ {b} : box'[a] = box[a]
        /\ box'[b].state = "exited"
    BY <1>1, <2>1 DEF Hosts
  <2>3. \A a \in App : /\ a \in failed' \/ box'[a] = box[a]
                       /\ box'[a].state = "running" => box[a].state = "running"
    BY <2>1, <2>2
  <2>4. Good(proc[j])
    BY <1>1, <2>1
  <2> QED BY <2>1, <2>3, <2>4, GoodKept
<1>5. ASSUME NEW i \in Instance, Launch(i) \/ Step(i) PROVE Good(proc[j])'
  <2>1. CASE \/ CheckPrereqs(i) \/ PrereqsFail(i) \/ PurgeReturns(i) \/ Launch(i)
             \/ UpdateReturns(i) \/ ListFails(i)
    <3>1. UNCHANGED <<env, box, local, failed>> /\ faulty \subseteq faulty'
      BY <2>1 DEF CheckPrereqs, PrereqsFail, PurgeReturns, Launch, UpdateReturns, ListFails, host, history,
         NoFault, Fault
    <3>2. UNCHANGED proc \/ \E r : Makes(i, r) /\ ~Busy(r)
      BY <2>1, CheckPrereqsMakes, PurgeReturnsMakes, OtherwiseMakes DEF ListFails
    <3>3. proc'[j] = proc[j]
      BY <1>1, <3>2, OneProcess DEF Makes
    <3> QED BY <1>2, <3>1, <3>3
  <2>2. CASE Purge(i)
    BY <1>1, <2>2, PurgeGood
  <2>3. ASSUME NEW pulled, NEW compared \in SUBSET Listed, Plan(i, pulled, compared)
        PROVE  Good(proc[j])'
    <3>1. proc[i].pc = "idle" /\ (UNCHANGED proc \/ \E r : Makes(i, r))
      BY <2>3, PlanMakes DEF Plan
    <3>2. \A k \in Instance : ~Busy(proc[k])
      BY <3>1 DEF OneAtATime, Busy
    <3>3. j = i
      BY <1>1, <3>1, <3>2, OneProcess DEF Makes
    <3> QED BY <2>3, <3>3, PlanGood
  <2>4. CASE PlanUpdate(i)
    BY <2>3, <2>4 DEF PlanUpdate
  <2>5. CASE \/ Stop(i) \/ PassOver(i) \/ Rename(i) \/ NotRestarted(i) \/ Start(i)
             \/ StartInstance(i) \/ CleanUp(i)
    <3>1. Busy(proc[i])
      BY <2>5 DEF Stop, PassOver, Rename, NotRestarted, Start, StartInstance, CleanUp, Restarting, Busy
    <3>2. ~StartInstance(i) => \E r : Makes(i, r)
      BY <2>5, StopMakes, RenameMakes, StartMakes, CleanUpMakes
    <3>3. \A k \in Instance \ {i} : proc'[k] = proc[k] \/ proc'[k] \in {Booting, Ended}
      BY <1>1, <3>2, OneProcess, StartInstanceMakes DEF Makes
    <3>4. j = i
      BY <3>1, <3>3, AfterNothing DEF OneAtATime
    <3>5. Good(proc[i])
      BY <3>1 DEF UpdateInv
    <3> QED BY <2>5, <3>4, <3>5, StopGood, QuietGood, StartGood, CleanUpGood
  <2> QED BY <1>5, <2>1, <2>2, <2>4, <2>5 DEF Step
<1> QED BY <1>3, <1>4, <1>5 DEF Next

LEMMA UpdateInit == Init => UpdateInv
BY DEF Init, UpdateInv, Busy, Off, Booting

-----------------------------------------------------------------------------
(***************************************************************************)
(* What depends on a container is stopped before it                        *)
(***************************************************************************)

DependentsFirst ==
  \A c, d \in App :
    /\ proc' # proc
    /\ box[c].state = "running" /\ box'[c].state # "running"
    /\ c \in ToSet(links[d]) /\ box[d].state = "running" /\ Monitored(d)
    => d \in failed

LEMMA StopTakesNext ==
  ASSUME TypeInv, NEW i \in Instance, Stop(i), Good(proc[i]), NEW c \in App, NEW d \in App,
         box[c].state = "running", box'[c].state # "running", Watches(d, c)
  PROVE  d \in failed
<1> DEFINE s == proc[i].stops
<1>1. s \in Seq(Container) /\ s # <<>>
  BY DEF Stop, TypeInv, Procs, Proper
<1>2. c = Head(s)
  BY StopBox
<1>3. 1 \in DOMAIN s /\ s[1] = c /\ \A h \in DOMAIN s : ~(h < 1)
  BY <1>1, <1>2
<1>4. WatchedBefore(s)
  BY DEF Good
<1> HIDE DEF s
<1> QED BY <1>3, <1>4 DEF WatchedBefore

LEMMA DependentsStep == TypeInv /\ UpdateInv /\ [Next]_vars => [DependentsFirst]_vars
<1> SUFFICES ASSUME TypeInv, UpdateInv, Next, NEW c \in App, NEW d \in App, proc' # proc,
                    box[c].state = "running", box'[c].state # "running",
                    c \in ToSet(links[d]), box[d].state = "running", Monitored(d)
             PROVE  d \in failed
  BY DEF DependentsFirst
<1>1. (\E m \in Image : Push(m)) \/ (\E a \in App : Crash(a)) => proc' = proc
  BY DEF Push, Crash
<1>2. PICK i \in Instance : Launch(i) \/ Step(i)
  BY <1>1 DEF Next
<1>3. ~Start(i)
  <2>1. ASSUME Start(i) PROVE Head(proc[i].starts) \in App
    BY <2>1 DEF Start
  <2>2. ASSUME Start(i), c = Head(proc[i].starts) PROVE FALSE
    <3>1. box' = box \/ box[c].state = "none"
      BY <2>2 DEF Start
    <3> QED BY <3>1
  <2>3. ASSUME Start(i), c # Head(proc[i].starts) PROVE FALSE
    BY <2>3, StartEffect
  <2> QED BY <2>2, <2>3
<1>4. Stop(i)
  BY <1>2, <1>3, BoxKept
<1>5. Good(proc[i]) /\ Watches(d, c)
  BY <1>4 DEF Stop, Busy, UpdateInv, Watches
<1> QED BY <1>4, <1>5, StopTakesNext

(* As long as no two instances update the host at the same time, a         *)
(* container is stopped only after every running one that is watched and   *)
(* links to it was stopped or failed to stop: for any links and images,    *)
(* whatever is pulled, crashes or fails.                                   *)
THEOREM DependentsStopFirst == Spec /\ []OneAtATime => StopsDependentsFirst
<1>1. [DependentsFirst]_vars <=>
        [\A c, d \in App :
           /\ proc' # proc
           /\ box[c].state = "running" /\ box'[c].state # "running"
           /\ c \in ToSet(links[d]) /\ box[d].state = "running" /\ Monitored(d)
           => d \in failed]_vars
  BY DEF DependentsFirst
<1> QED BY <1>1, TypeInit, TypeStep, PurgeInvInit, PurgeInvStep, NoPullInit, NoPullStep,
        UpdateInit, UpdateStepInv, DependentsStep, PTL DEF Spec, StopsDependentsFirst

LEMMA AloneAtATime == Instance = {1} => OneAtATime
BY DEF OneAtATime

(* A watchtower that is alone on its host stops what depends on a          *)
(* container before the container, without any condition.                  *)
THEOREM DependentsStopFirstAlone == Instance = {1} => (Spec => StopsDependentsFirst)
<1> SUFFICES ASSUME Instance = {1} PROVE Spec => StopsDependentsFirst
  OBVIOUS
<1>1. OneAtATime
  BY AloneAtATime
<1> QED BY <1>1, DependentsStopFirst, PTL

-----------------------------------------------------------------------------
(***************************************************************************)
(* Failures follow links                                                   *)
(***************************************************************************)

(* Why an error may be logged for a container.                             *)
Explained(a) ==
  \/ a \in faulty' \/ ToSet(links[a]) \cap failed # {}
  \/ /\ config.cleanup
     /\ \E c \in failed \cup Instance : ImageNameOf(c) = ImageOf[a]

FailuresExplained == \A a \in App : a \in failed' \ failed => Explained(a)

(* What was listed is as it was when its turn comes.                       *)
LEMMA StopExplained ==
  ASSUME TypeInv, NEW i \in Instance, Stop(i), Good(proc[i]), NEW a \in App, a \in failed' \ failed
  PROVE  Explained(a)
<1> DEFINE c == Head(proc[i].stops)
<1>1. /\ a = c /\ c \in ToSet(proc[i].stops) /\ c \in ToSet(proc[i].starts)
  BY StopBox
<1>2. Proper(proc[i]) /\ proc[i].pc = "updating"
  BY DEF Stop, TypeInv, Procs
<1>3. c \in App \cap Rest(proc[i])
  BY <1>1, <1>2, RestFacts
<1>4. box[c].state = "running" /\ box[c].id = proc[i].seen[c].id
  BY <1>1, <1>3 DEF Good, AsListed
<1>5. Fault({c})
  BY <1>1, <1>4 DEF Stop
<1> QED BY <1>1, <1>5 DEF Fault, Explained

LEMMA LinksFacts == Hosts => \A c \in App : ToSet(links[c]) \subseteq App
<1> SUFFICES ASSUME Hosts, NEW c \in App PROVE ToSet(links[c]) \subseteq App
  OBVIOUS
<1>1. links[c] \in Seq(App)
  BY LinksAssumption DEF Hosts, Container
<1> QED BY <1>1 DEF ToSet

(* What a container links to runs when its turn comes, or has failed: no   *)
(* update that is under way has it still to start.                         *)
LEMMA LinkedRun ==
  ASSUME TypeInv, DownInv, OneAtATime, NEW i \in Instance, Start(i), Good(proc[i]),
         NEW d \in ToSet(links[Head(proc[i].starts)]), d \notin failed
  PROVE  d \in App /\ box[d].state = "running"
<1> DEFINE s == proc[i].starts
           c == Head(s)
<1>1. /\ ~config.noRestart /\ c \in App /\ proc[i].pc = "updating" /\ s # <<>>
      /\ \A j \in Instance : Proper(proc[j])
  BY DEF Start, Restarting, TypeInv, Procs
<1>2. s \in Seq(Container)
  BY <1>1 DEF Proper
<1>3. d \in App
  BY <1>1, LinksFacts DEF TypeInv
<1>4. d \notin ToSet(s)
  BY <1>1, <1>2, TailLists DEF Good, Ordered
<1>5. ASSUME NEW j \in Instance, d \in Rest(proc[j]) PROVE FALSE
  <2>1. Busy(proc[j]) /\ d \in ToSet(proc[j].starts)
    BY <1>1, <1>5, RestFacts
  <2>2. j = i
    BY <1>1, <2>1 DEF OneAtATime, Busy
  <2> QED BY <1>4, <2>1, <2>2
<1> QED BY <1>1, <1>3, <1>5 DEF DownInv

LEMMA StartExplained ==
  ASSUME TypeInv, DownInv, OneAtATime, NEW i \in Instance, Start(i), Good(proc[i]),
         NEW a \in App, a \in failed' \ failed
  PROVE  Explained(a)
<1> DEFINE c == Head(proc[i].starts)
           targets == ToSet(links[c])
           creates == /\ box[c].state = "none"
                      /\ local[ImageOf[c]] # 0
                      /\ \A d \in targets : box[d].state # "none"
           starts == creates /\ targets \subseteq RunningApps
<1>1. /\ c \in App /\ ~config.noRestart /\ proc[i].stops = <<>>
      /\ proc[i].pc = "updating" /\ proc[i].starts # <<>>
  BY DEF Start, Restarting
<1>2. \/ failed' = failed \ {c}
      \/ ~starts /\ NoFault /\ failed' = failed \cup {c}
      \/ Fault({c}) /\ failed' = failed \cup {c}
  BY DEF Start
<1>3. a = c /\ (Fault({c}) \/ (~starts /\ NoFault))
  BY <1>2
<1>4. c \in App \cap Rest(proc[i])
  BY <1>1, StartedRest
<1>5. box[c].state = "none"
  <2>1. c \notin ToSet(proc[i].stops)
    BY <1>1, NoNames
  <2> QED BY <1>3, <1>4, <2>1 DEF Good, AsListed
<1>6. CASE Fault({c})
  BY <1>3, <1>6 DEF Fault, Explained
<1>7. CASE local[ImageOf[c]] = 0 /\ NoFault
  <2>1. \/ c \in faulty
        \/ /\ config.cleanup
           /\ \E e \in (failed \ Rest(proc[i])) \cup Instance : ImageNameOf(e) = ImageOf[c]
    BY <1>1, <1>4, <1>7 DEF Good, HasImage
  <2> QED BY <1>3, <1>7, <2>1 DEF NoFault, Explained
<1>8. CASE ~starts /\ local[ImageOf[c]] # 0
  <2>1. PICK d \in targets : d \notin RunningApps
    <3>1. targets \subseteq RunningApps => \A d \in targets : box[d].state # "none"
      BY DEF RunningApps
    <3> QED BY <1>5, <1>8, <3>1
  <2>2. d \in failed
    BY <2>1, LinkedRun DEF RunningApps
  <2> QED BY <1>3, <2>1, <2>2 DEF Explained
<1> QED BY <1>3, <1>6, <1>7, <1>8

LEMMA FailuresStep ==
  TypeInv /\ DownInv /\ UpdateInv /\ OneAtATime /\ [Next]_vars => [FailuresExplained]_vars
<1> SUFFICES ASSUME TypeInv, DownInv, UpdateInv, OneAtATime, Next, NEW a \in App, a \in failed' \ failed
             PROVE  Explained(a)
  BY DEF FailuresExplained
<1>1. CASE \E m \in Image : Push(m)
  BY <1>1 DEF Push, history
<1>2. CASE \E b \in App : Crash(b)
  BY <1>2 DEF Crash, Fault, Explained
<1>3. ASSUME NEW i \in Instance, Launch(i) \/ Step(i) PROVE Explained(a)
  <2>1. Stop(i) \/ Start(i)
    BY <1>3, BoxKept
  <2>2. Good(proc[i])
    BY <2>1 DEF Stop, Start, Restarting, Busy, UpdateInv
  <2> QED BY <2>1, <2>2, StopExplained, StartExplained
<1> QED BY <1>1, <1>2, <1>3 DEF Next

(* As long as no two instances update the host at the same time and none   *)
(* is ended in the middle of an update, an error is logged for a container *)
(* only if a fault hit it, one it links to has failed before, or --cleanup *)
(* took an image that it shares with one that failed or with watchtower.   *)
THEOREM FailuresFollow ==
  Spec /\ []OneAtATime /\ [][NoneCutShort]_vars => FailuresFollowLinks
<1>1. [FailuresExplained]_vars <=>
        [\A a \in App :
           a \in failed' \ failed =>
             \/ a \in faulty' \/ ToSet(links[a]) \cap failed # {}
             \/ /\ config.cleanup
                /\ \E c \in failed \cup Instance : ImageNameOf(c) = ImageOf[a]]_vars
  BY DEF FailuresExplained, Explained
<1> QED BY <1>1, TypeInit, TypeStep, PurgeInvInit, PurgeInvStep, NoPullInit, NoPullStep, DownInit,
        DownStep, UpdateInit, UpdateStepInv, FailuresStep, PTL DEF Spec, FailuresFollowLinks

(* For a watchtower that is alone on its host, failures spread along links *)
(* without any condition.                                                  *)
THEOREM FailuresFollowAlone == Instance = {1} => (Spec => FailuresFollowLinks)
<1> SUFFICES ASSUME Instance = {1} PROVE Spec => FailuresFollowLinks
  OBVIOUS
<1>1. OneAtATime
  BY AloneAtATime
<1>2. TypeInv /\ PurgeInv /\ [Next]_vars => [NoneCutShort]_vars
  BY AloneUncut
<1> QED BY <1>1, <1>2, TypeInit, TypeStep, PurgeInvInit, PurgeInvStep, FailuresFollow, PTL DEF Spec
=============================================================================
