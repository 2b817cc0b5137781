------------------------------- MODULE Watchtower -------------------------------
(***************************************************************************)
(* Watchtower and the Docker host it keeps up to date: the update of       *)
(* actions/update.go, one step per call of the Client interface, the start *)
(* of an instance (actions/check.go, main.go) and the replacement of an    *)
(* instance by its own update, with several instances on one host.  A call *)
(* is one step here; ContainerClient says what happens inside.  The plan   *)
(* of an update is any the sort may return, by UpdatePlan.                 *)
(***************************************************************************)
EXTENDS LinkGraph, FiniteSets, FiniteSetsExt

CONSTANTS
  App,         (* names of the containers that are not watchtower          *)
  Instance,    (* watchtower containers, 1 .. n in the order of Created    *)
  Launchable,  (* those of Instance that may be started by hand            *)
  ImageOf,     (* the name of the image of each of App                     *)
  Own,         (* the name of the image of watchtower                      *)
  Configs,     (* command lines: [names, noPull, noRestart, cleanup]       *)
  Links,       (* the links the containers may have; watchtower has none   *)
  MaxVersion,  (* how often an image is pushed                             *)
  MaxFaults    (* how many calls fail, or containers crash, by themselves  *)

Image == {ImageOf[a] : a \in App} \cup {Own}
Container == App \cup Instance

ASSUME InstanceAssumption ==
  IsFiniteSet(Instance) /\ Instance # {} /\ Instance = 1 .. Cardinality(Instance)
ASSUME AppAssumption == IsFiniteSet(App) /\ App \cap Instance = {}
ASSUME LinksAssumption ==
  \A l \in Links : /\ l \in [Container -> Seq(App)]
                  /\ \A i \in Instance : l[i] = <<>>
ASSUME BoundsAssumption == MaxVersion \in Nat \ {0} /\ MaxFaults \in Nat

VARIABLES
  config,    (* the options of every instance, constant                    *)
  links,     (* constant                                                   *)
  box,       (* the container that has the name, for each of App           *)
  wt,        (* the container of each instance                             *)
  registry,  (* newest version of each image that was pushed               *)
  local,     (* version the host has under the image's name, 0 if none     *)
  proc,      (* the process of each instance                               *)
  faults,    (* faults so far                                              *)
  faulty,    (* those of App that a fault hit since they were last started *)
  failed     (* those of App that an error was logged for since then, or   *)
             (* that ended by themselves, which nobody logs                *)

env == <<config, links>>
host == <<box, wt, local>>
history == <<faults, faulty, failed>>
vars == <<env, box, wt, registry, local, proc, history>>

ImageNameOf(c) == IF c \in App THEN ImageOf[c] ELSE Own
VersionOf(c) == IF c \in App THEN box[c].version ELSE wt[c].version
RunningApps == {a \in App : box[a].state = "running"}
RunningInstances == {i \in Instance : wt[i].state = "running"}

(* The local state of Update: the containers still to stop and to start,   *)
(* and what ListContainers told of each.                                   *)
Off == [pc |-> "off", term |-> FALSE, stops |-> <<>>, starts |-> <<>>, seen |-> <<>>]
Booting == [Off EXCEPT !.pc = "prereqs"]

Init ==
  /\ config \in Configs
  /\ links \in Links
  /\ box = [a \in App |-> [state |-> "running", id |-> 1, version |-> 1]]
  /\ wt = [i \in Instance |->
             IF i = 1 THEN [state |-> "running", name |-> 0, version |-> 1]
                      ELSE [state |-> "none", name |-> 0, version |-> 0]]
  /\ registry = [m \in Image |-> 1]
  /\ local = [m \in Image |-> 1]
  /\ proc = [i \in Instance |-> IF i = 1 THEN Booting ELSE Off]
  /\ faults = 0
  /\ faulty = {}
  /\ failed = {}
--------------------------------------------------------------------------------
(* The host. *)

Fault(C) ==
  /\ faults < MaxFaults
  /\ faults' = faults + 1
  /\ faulty' = faulty \cup C

NoFault == UNCHANGED <<faults, faulty>>

(* A container's name is taken until the container is removed. *)
InUse == {wt[i].name : i \in {j \in Instance : wt[j].state # "none"}}
Pending == UNION {{proc[i].seen[c].name : c \in DOMAIN proc[i].seen \cap Instance} :
                    i \in Instance}
Taken == InUse \cup Pending
FreshName == Min((0 .. Cardinality(Taken)) \ Taken)

(* Containers are numbered in the order in which they are created. *)
Unborn == {i \in Instance : proc[i].pc = "off"}
NextInstance == {i \in Unborn : \A j \in Unborn : i <= j}

ImagesInUse == {<<ImageOf[a], box[a].version>> : a \in RunningApps}
                 \cup {<<Own, wt[i].version>> : i \in RunningInstances}

(* ImageRemove with Force takes the image's name away, too; the daemon     *)
(* refuses it for an image that a running container uses.                  *)
WithoutImage(m, version, inUse) ==
  IF local[m] = version /\ <<m, version>> \notin inUse
    THEN [local EXCEPT ![m] = 0]
    ELSE local

Push(m) ==
  /\ registry[m] < MaxVersion
  /\ registry' = [registry EXCEPT ![m] = @ + 1]
  /\ UNCHANGED <<env, host, proc, history>>

(* A container ends by itself. *)
Crash(a) ==
  /\ box[a].state = "running"
  /\ Fault({a})
  /\ box' = [box EXCEPT ![a].state = "exited"]
  /\ failed' = failed \cup {a}
  /\ UNCHANGED <<env, wt, local, registry, proc>>
--------------------------------------------------------------------------------
(* The start of an instance. *)

(* Somebody runs one more watchtower container. *)
Launch(i) ==
  /\ i \in NextInstance \cap Launchable
  /\ local[Own] # 0
  /\ wt' = [wt EXCEPT ![i] = [state |-> "running", name |-> FreshName,
                              version |-> local[Own]]]
  /\ proc' = [proc EXCEPT ![i] = Booting]
  /\ UNCHANGED <<env, box, local, registry, history>>

Ended == [Off EXCEPT !.pc = "ended"]

(* Mutant: the last one is not spared. *)
NoneSpared == RunningInstances

(* Mutant: the first one is spared, too. *)
FirstSpared == RunningInstances \ {Min(RunningInstances), Max(RunningInstances)}

(* All but the last of the running watchtower containers, by Created. *)
Older == RunningInstances \ {Max(RunningInstances)}

(* The instances of S in the order in which they are stopped.              *)
ByCreated(S) ==
  {s \in [1 .. Cardinality(S) -> S] : \A j, k \in DOMAIN s : j < k => s[j] < s[k]}

CheckPrereqs(i) ==
  /\ proc[i].pc = "prereqs"
  /\ \E older \in ByCreated(Older) :
       proc' = [proc EXCEPT ![i].pc = "purging", ![i].stops = older]
  /\ UNCHANGED <<env, host, registry, history>>

(* If the list cannot be had, the error is fatal. *)
PrereqsFail(i) ==
  /\ proc[i].pc = "prereqs"
  /\ Fault({})
  /\ proc' = [proc EXCEPT ![i] = Ended]
  /\ wt' = [wt EXCEPT ![i].state = "exited"]
  /\ UNCHANGED <<env, box, local, registry, failed>>

(* A process that got SIGTERM exits when no update runs, and at once if    *)
(* signal.Notify has not been called yet.                                  *)
AtRest(i) == proc[i].pc \in {"prereqs", "purging", "idle"}

(* CheckPrereqs stops an older instance.  It grants 60 nanoseconds, so     *)
(* that an instance that is updating is removed by force, not waited for.  *)
(* Whether the call fails or not, CheckPrereqs goes on to the next; the    *)
(* image is removed if --cleanup is given.                                 *)
Purge(i) ==
  /\ proc[i].pc = "purging"
  /\ proc[i].stops # <<>>
  /\ LET v == Head(proc[i].stops)
         next == [proc EXCEPT ![i].stops = Tail(@)]
         removed == [wt EXCEPT ![v].state = "none"]
         gone == [next EXCEPT ![v] = Ended]
     IN \/ /\ wt[v].state = "running"
           /\ NoFault
           /\ wt' = removed
           /\ proc' = gone
        \/ /\ wt[v].state # "running"
           /\ NoFault
           /\ UNCHANGED wt
           /\ proc' = next
        \/ /\ wt[v].state = "running"
           /\ Fault({})
           /\ \/ wt' = removed /\ proc' = gone
              \/ wt' = wt /\ proc' = next
              \/ IF AtRest(v)
                   THEN wt' = [wt EXCEPT ![v].state = "exited"] /\ proc' = gone
                   ELSE wt' = wt /\ proc' = [next EXCEPT ![v].term = TRUE]
  /\ UNCHANGED <<env, box, registry, failed>>
  /\ local' = IF config.cleanup
                THEN WithoutImage(Own, wt[Head(proc[i].stops)].version, ImagesInUse')
                ELSE local

PurgeReturns(i) ==
  /\ proc[i].pc = "purging"
  /\ proc[i].stops = <<>>
  /\ proc' = [proc EXCEPT ![i].pc = "idle"]
  /\ UNCHANGED <<env, host, registry, history>>
--------------------------------------------------------------------------------
(* The update. *)

Monitored(a) == config.names = {} \/ a \in config.names

Listed == {a \in RunningApps : Monitored(a)}
            \cup (IF config.names = {} THEN RunningInstances ELSE {})

(* Mutant: the option --no-pull is taken the wrong way round. *)
PulledIfNot(C) ==
  [m \in Image |->
     IF config.noPull /\ \E c \in C : ImageNameOf(c) = m THEN registry[m]
                                                         ELSE local[m]]

(* What the host has under the images' names after IsContainerStale has    *)
(* pulled those of the containers C.                                       *)
Pulled(C) ==
  [m \in Image |->
     IF ~config.noPull /\ \E c \in C : ImageNameOf(c) = m THEN registry[m]
                                                          ELSE local[m]]

(* IsContainerStale of the containers compared, after the pulls of those   *)
(* in pulled: the image the name stands for is not the one the container   *)
(* was created from.                                                       *)
Found(pulled, compared) ==
  {c \in compared : Pulled(pulled)[ImageNameOf(c)] \notin {0, VersionOf(c)}}

(* Mutant: watchtower containers are left out. *)
SeenOfApps(C) ==
  [c \in C \cap App |-> [id |-> box[c].id, name |-> 0, version |-> VersionOf(c)]]

Seen(C) ==
  [c \in C |-> [id      |-> IF c \in App THEN box[c].id ELSE c,
                name    |-> IF c \in App THEN 0 ELSE wt[c].name,
                version |-> VersionOf(c)]]

(* A tick of cron finds no update running: the running containers are      *)
(* listed, their images pulled and compared, and the plan is made.  A      *)
(* container whose comparison fails is not stale.  Only the order of the   *)
(* stale ones matters; any dependency order of them is part of one of all  *)
(* that are listed.  Circular links end the update.                        *)
Plan(i, pulled, compared) ==
  /\ proc[i].pc = "idle"
  /\ IF pulled \cap compared = Listed
       THEN NoFault
       ELSE Fault((App \cap Listed) \ (pulled \cap compared))
  /\ local' = Pulled(pulled)
  /\ \/ HasCycle(links, Listed) /\ UNCHANGED proc
     \/ /\ ~HasCycle(links, Listed)
        /\ \E stale \in {StaleClosure(links, Listed, Found(pulled, compared))} :
             \E order \in DependencyOrders(links, stale) :
               proc' = [proc EXCEPT ![i] =
                 [pc     |-> "updating",
                  term   |-> FALSE,
                  stops  |-> Reverse(order),
                  starts |-> order,
                  seen   |-> Seen(stale)]]
  /\ UNCHANGED <<env, box, wt, registry, failed>>

(* For one container a call may fail: the pull, so that nothing is         *)
(* compared; the inspection after the pull; or the reading of the pull's   *)
(* response, which nobody checks, so that what there is is compared.       *)
PlanUpdate(i) ==
  \/ Plan(i, Listed, Listed)
  \/ \E c \in Listed :
       \/ Plan(i, Listed \ {c}, Listed \ {c})
       \/ Plan(i, Listed, Listed \ {c})
       \/ Plan(i, Listed \ {c}, Listed)

(* The list or the inspection of a listed container fails: no update. *)
ListFails(i) ==
  /\ proc[i].pc = "idle"
  /\ Fault({})
  /\ UNCHANGED <<env, host, registry, proc, failed>>

(* Mutant: an error of StopContainer ends the update. *)
StopLoopReturns(i) ==
  IF Head(proc[i].stops) \in failed'
    THEN [proc[i] EXCEPT !.stops = <<>>, !.starts = <<>>]
    ELSE [proc[i] EXCEPT !.stops = Tail(@)]

(* The stop loop goes on, error or not. *)
StopLoopGoesOn(i) == [proc[i] EXCEPT !.stops = Tail(@)]

(* The stop loop passes over watchtower's own containers.                  *)
PassOver(i) ==
  /\ proc[i].pc = "updating"
  /\ proc[i].stops # <<>> /\ Head(proc[i].stops) \in Instance
  /\ UNCHANGED <<env, host, registry, history>>
  /\ proc' = [proc EXCEPT ![i] = StopLoopGoesOn(i)]

(* StopContainer.  An error is logged and the loop goes on.  The call      *)
(* fails if the container that was listed does not run any more; if an API *)
(* call fails the container may run on, or be stopped, or be removed.      *)
Stop(i) ==
  /\ proc[i].pc = "updating"
  /\ proc[i].stops # <<>> /\ Head(proc[i].stops) \in App
  /\ LET c == Head(proc[i].stops)
         runs == box[c].state = "running" /\ box[c].id = proc[i].seen[c].id
     IN \/ /\ runs
           /\ NoFault
           /\ box' = [box EXCEPT ![c].state = "none"]
           /\ UNCHANGED failed
        \/ /\ ~runs
           /\ NoFault
           /\ failed' = failed \cup {c}
           /\ UNCHANGED box
        \/ /\ runs
           /\ Fault({c})
           /\ failed' = failed \cup {c}
           /\ \E s \in {"running", "exited", "none"} :
                box' = [box EXCEPT ![c].state = s]
  /\ proc' = [proc EXCEPT ![i] = StopLoopGoesOn(i)]
  /\ UNCHANGED <<env, wt, registry, local>>

Restarting(i) ==
  proc[i].pc = "updating" /\ proc[i].stops = <<>> /\ proc[i].starts # <<>>

(* An instance is not stopped: it gives its name to its replacement.  If   *)
(* that fails it is left as it is.                                         *)
Rename(i) ==
  /\ Restarting(i)
  /\ LET c == Head(proc[i].starts) IN
     /\ c \in Instance
     /\ \/ /\ wt[c].state # "none"
           /\ NoFault
           /\ wt' = [wt EXCEPT ![c].name = FreshName]
           /\ proc' = [proc EXCEPT ![i].pc = "renamed"]
        \/ /\ IF wt[c].state = "none" THEN NoFault ELSE Fault({})
           /\ proc' = [proc EXCEPT ![i].starts = Tail(@)]
           /\ UNCHANGED wt
  /\ UNCHANGED <<env, box, registry, local, failed>>

(* The image of the container is cleaned up next, if it is to be. *)
Restarted(i) ==
  IF config.cleanup
    THEN [proc[i] EXCEPT !.pc = "cleaning"]
    ELSE [proc[i] EXCEPT !.pc = "updating", !.starts = Tail(@)]

NotRestarted(i) ==
  /\ config.noRestart
  /\ \/ proc[i].pc = "renamed"
     \/ Restarting(i) /\ Head(proc[i].starts) \in App
  /\ proc' = [proc EXCEPT ![i] = Restarted(i)]
  /\ UNCHANGED <<env, host, registry, history>>

Created(c, s) ==
  [box EXCEPT ![c] = [state |-> s, id |-> @.id + 1, version |-> local[ImageOf[c]]]]

(* StartContainer.  The daemon creates a container if its name is free,    *)
(* its image is there and what it links to exists; it starts it if what it *)
(* links to runs.  An error is logged and the loop goes on.                *)
Start(i) ==
  /\ ~config.noRestart
  /\ Restarting(i)
  /\ LET c == Head(proc[i].starts)
         targets == ToSet(links[c])
         creates == /\ box[c].state = "none"
                    /\ local[ImageOf[c]] # 0
                    /\ \A d \in targets : box[d].state # "none"
         starts == creates /\ targets \subseteq RunningApps
     IN /\ c \in App
        /\ \/ /\ starts
              /\ UNCHANGED faults
              /\ box' = Created(c, "running")
              /\ failed' = failed \ {c}
              /\ faulty' = faulty \ {c}
           \/ /\ ~starts
              /\ NoFault
              /\ failed' = failed \cup {c}
              /\ box' = IF creates THEN Created(c, "created") ELSE box
           \/ /\ starts
              /\ Fault({c})
              /\ failed' = failed \cup {c}
              /\ box' \in {box, Created(c, "created"), Created(c, "running")}
  /\ proc' = [proc EXCEPT ![i] = Restarted(i)]
  /\ UNCHANGED <<env, wt, registry, local>>

(* The replacement of an instance gets the name it was listed with. *)
StartInstance(i) ==
  /\ ~config.noRestart
  /\ proc[i].pc = "renamed"
  /\ LET c == Head(proc[i].starts)
         name == proc[i].seen[c].name
         creates == local[Own] # 0 /\ name \notin InUse
         new(s) == [state |-> s, name |-> name, version |-> local[Own]]
         after == [proc EXCEPT ![i] = Restarted(i)]
     IN \/ \E n \in NextInstance :
             /\ creates
             /\ NoFault
             /\ wt' = [wt EXCEPT ![n] = new("running")]
             /\ proc' = [after EXCEPT ![n] = Booting]
        \/ /\ ~creates \/ NextInstance = {}
           /\ NoFault
           /\ proc' = after
           /\ UNCHANGED wt
        \/ \E n \in NextInstance :
             /\ creates
             /\ Fault({})
             /\ \/ wt' = wt /\ proc' = after
                \/ /\ wt' = [wt EXCEPT ![n] = new("created")]
                   /\ proc' = [after EXCEPT ![n] = Ended]
  /\ UNCHANGED <<env, box, registry, local, failed>>

(* RemoveImage, of the image the container was listed with.  An error is   *)
(* ignored.                                                                *)
CleanUp(i) ==
  /\ proc[i].pc = "cleaning"
  /\ LET c == Head(proc[i].starts) IN
     \/ /\ NoFault
        /\ local' = WithoutImage(ImageNameOf(c), proc[i].seen[c].version, ImagesInUse)
     \/ Fault({}) /\ UNCHANGED local
  /\ proc' = [proc EXCEPT ![i].pc = "updating", ![i].starts = Tail(@)]
  /\ UNCHANGED <<env, box, wt, registry, failed>>

(* Update returns.  A shutdown that waits for it ends the process. *)
UpdateReturns(i) ==
  /\ proc[i].pc = "updating"
  /\ proc[i].stops = <<>>
  /\ proc[i].starts = <<>>
  /\ IF proc[i].term
       THEN /\ proc' = [proc EXCEPT ![i] = Ended]
            /\ wt' = [wt EXCEPT ![i].state = "exited"]
       ELSE /\ proc' = [proc EXCEPT ![i] = [Off EXCEPT !.pc = "idle"]]
            /\ UNCHANGED wt
  /\ UNCHANGED <<env, box, registry, local, history>>
--------------------------------------------------------------------------------
Step(i) ==
  \/ CheckPrereqs(i) \/ PrereqsFail(i) \/ Purge(i) \/ PurgeReturns(i)
  \/ PlanUpdate(i) \/ ListFails(i)
  \/ PassOver(i) \/ Stop(i) \/ Rename(i) \/ NotRestarted(i) \/ Start(i) \/ StartInstance(i)
  \/ CleanUp(i) \/ UpdateReturns(i)

Next ==
  \/ \E m \in Image : Push(m)
  \/ \E a \in App : Crash(a)
  \/ \E i \in Instance : Launch(i) \/ Step(i)

(* cron ticks for ever and the calls of an instance return; images are     *)
(* pushed, containers crash and instances are launched or not.             *)
Spec == Init /\ [][Next]_vars
FairSpec == Spec /\ \A i \in Instance : WF_vars(Step(i))
--------------------------------------------------------------------------------
PCs == {"off", "prereqs", "purging", "idle", "updating", "renamed", "cleaning",
        "ended"}

(* Every field keeps its type. *)
TypeOK ==
  /\ config \in Configs
  /\ links \in Links
  /\ \A a \in App :
       /\ box[a].state \in {"running", "exited", "created", "none"}
       /\ box[a].id \in Nat
       /\ box[a].version \in 1 .. MaxVersion
  /\ \A i \in Instance :
       /\ wt[i].state \in {"running", "exited", "created", "none"}
       /\ wt[i].name \in Nat
       /\ wt[i].version \in 0 .. MaxVersion
       /\ proc[i].pc \in PCs
       /\ proc[i].term \in BOOLEAN
       /\ DOMAIN proc[i].seen \subseteq Container
       /\ ToSet(proc[i].starts) \subseteq DOMAIN proc[i].seen
       /\ proc[i].pc # "purging" => ToSet(proc[i].stops) \subseteq DOMAIN proc[i].seen
  /\ registry \in [Image -> 1 .. MaxVersion]
  /\ local \in [Image -> 0 .. MaxVersion]
  /\ faults \in 0 .. MaxFaults
  /\ faulty \subseteq App
  /\ failed \subseteq App

WillBeRestarted(a) ==
  \E i \in Instance : proc[i].pc # "ended" /\ a \in ToSet(proc[i].starts)

(* "it will stop/remove the container and then restart it" (README.md:23): *)
(* a container that is down is about to be restarted by an instance that   *)
(* runs, or an error was logged for that very container since it was last  *)
(* started, or it ended by itself.  A failure on one container takes down  *)
(* no other silently.                                                      *)
DownIsReported ==
  ~config.noRestart =>
    \A a \in App : box[a].state # "running" => WillBeRestarted(a) \/ a \in failed

(* An update that stops a container has before stopped, or failed to stop, *)
(* every running container that it watches and that links to it.           *)
StopsDependentsFirst ==
  [][\A c, d \in App :
       /\ proc' # proc
       /\ box[c].state = "running" /\ box'[c].state # "running"
       /\ c \in ToSet(links[d]) /\ box[d].state = "running" /\ Monitored(d)
       => d \in failed]_vars

(* Errors spread along links only: if an error is logged for a container,  *)
(* a fault hit it, or one it links to has failed before.  The exception is *)
(* --cleanup, which also removes an image that is still the newest one: a  *)
(* container shares it with one that failed before, or with watchtower.    *)
FailuresFollowLinks ==
  [][\A a \in App :
       a \in failed' \ failed =>
         \/ a \in faulty' \/ ToSet(links[a]) \cap failed # {}
         \/ /\ config.cleanup
            /\ \E c \in failed \cup Instance : ImageNameOf(c) = ImageOf[a]]_vars

Acyclic == ~HasCycle(links, App)

(* As long as an instance runs, in the end every watched container that    *)
(* runs is on the newest image.                                            *)
EventuallyUpToDate ==
  Acyclic /\ ~config.noPull /\ ~config.noRestart =>
    <>[](RunningInstances # {} =>
           \A a \in App : Monitored(a) /\ box[a].state = "running" =>
             box[a].version = registry[ImageOf[a]])

(* Instances stop older ones, and an instance starts its replacement and   *)
(* is stopped by it, yet the host is left without a watchtower only if an  *)
(* instance exited by itself, which stays so from then on: whatever other  *)
(* call fails, one runs.                                                   *)
SomeWatchtowerRuns ==
  RunningInstances # {} \/ \E i \in Instance : wt[i].state = "exited"

(* "there are not multiple instances of the watchtower running" (check.go: *)
(* 11): if no call fails, one instance is left in the end and serves.       *)
EventuallyOneWatchtower ==
  <>[](faults = 0 => /\ Cardinality(RunningInstances) = 1
                     /\ \A i \in RunningInstances : proc[i].pc \notin {"off", "ended"})
================================================================================
