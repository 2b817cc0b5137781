--------------------------- MODULE WatchtowerScheduler ---------------------------
(***************************************************************************)
(* The process of a watchtower container: start of main.go.  The main      *)
(* goroutine checks the prerequisites, starts cron and waits for a signal; *)
(* cron runs its function in a goroutine of its own on every tick; the     *)
(* one-place channel tryLockSem keeps updates from overlapping and lets    *)
(* the shutdown wait for a running update.                                 *)
(***************************************************************************)
EXTENDS Naturals, FiniteSets

CONSTANT Job   (* the goroutines cron has for running its function         *)

VARIABLES
  main,        (* where the main goroutine is                              *)
  cron,        (* cron fires on every tick                                 *)
  notified,    (* signal.Notify has been called                            *)
  interrupt,   (* number of signals in the channel of that name            *)
  tryLockSem,  (* number of values in the channel of that name             *)
  job          (* where each goroutine of cron is                          *)

vars == <<main, cron, notified, interrupt, tryLockSem, job>>

Ended == {"failed", "killed", "exited"}
MainStates == {"prereqs", "starting", "serving", "stopping", "waiting",
               "exiting"} \cup Ended
JobStates == {"idle", "fired", "updating", "reporting", "releasing", "skipped"}

Init ==
  /\ main = "prereqs"
  /\ cron = FALSE
  /\ notified = FALSE
  /\ interrupt = 0
  /\ tryLockSem = 0
  /\ job = [j \in Job |-> "idle"]

Alive == main \notin Ended
--------------------------------------------------------------------------------
(* The main goroutine. *)
Main(from, to) == main = from /\ main' = to

(* CheckPrereqs or AddFunc returned an error, which ends the process. *)
StartFails ==
  /\ Main("prereqs", "failed")
  /\ UNCHANGED <<cron, notified, interrupt, tryLockSem, job>>

(* tryLockSem is filled before cron can fire. *)
CronStart ==
  /\ Main("prereqs", "starting")
  /\ tryLockSem' = 1
  /\ cron' = TRUE
  /\ UNCHANGED <<notified, interrupt, job>>

Notify ==
  /\ Main("starting", "serving")
  /\ notified' = TRUE
  /\ UNCHANGED <<cron, interrupt, tryLockSem, job>>

ReceiveInterrupt ==
  /\ interrupt > 0
  /\ Main("serving", "stopping")
  /\ interrupt' = interrupt - 1
  /\ UNCHANGED <<cron, notified, tryLockSem, job>>

(* cron fires no more; goroutines it started run on. *)
CronStop ==
  /\ Main("stopping", "waiting")
  /\ cron' = FALSE
  /\ UNCHANGED <<notified, interrupt, tryLockSem, job>>

(* Mutant: the shutdown does not wait. *)
DoNotWait ==
  /\ Main("waiting", "exiting")
  /\ UNCHANGED <<cron, notified, interrupt, tryLockSem, job>>

WaitForUpdate ==
  /\ tryLockSem > 0
  /\ Main("waiting", "exiting")
  /\ tryLockSem' = tryLockSem - 1
  /\ UNCHANGED <<cron, notified, interrupt, job>>

Exit ==
  /\ Main("exiting", "exited")
  /\ UNCHANGED <<cron, notified, interrupt, tryLockSem, job>>
--------------------------------------------------------------------------------
(* The goroutines of cron.  They end with the process. *)
Step(j, from, to) ==
  /\ Alive
  /\ job[j] = from
  /\ job' = [job EXCEPT ![j] = to]

Tick(j) ==
  /\ cron
  /\ Step(j, "idle", "fired")
  /\ UNCHANGED <<main, cron, notified, interrupt, tryLockSem>>

(* Mutant: the value is not taken from the channel. *)
TryLockOnly(j) ==
  /\ tryLockSem > 0
  /\ Step(j, "fired", "updating")
  /\ UNCHANGED <<main, cron, notified, interrupt, tryLockSem>>

TryLock(j) ==
  /\ tryLockSem > 0
  /\ Step(j, "fired", "updating")
  /\ tryLockSem' = tryLockSem - 1
  /\ UNCHANGED <<main, cron, notified, interrupt>>

(* Mutant: the select has no default. *)
NeverSkip(j) == FALSE /\ UNCHANGED vars

(* The default of the select: only if the channel is empty. *)
Skip(j) ==
  /\ tryLockSem = 0
  /\ Step(j, "fired", "skipped")
  /\ UNCHANGED <<main, cron, notified, interrupt, tryLockSem>>

(* Mutant: nothing is deferred. *)
ReturnWithLock(j) ==
  /\ Step(j, "updating", "idle")
  /\ UNCHANGED <<main, cron, notified, interrupt, tryLockSem>>

(* Update returned; an error is printed. *)
UpdateReturns(j) ==
  /\ Step(j, "updating", "reporting")
  /\ UNCHANGED <<main, cron, notified, interrupt, tryLockSem>>

(* cron recovers from a panic; the deferred function runs first. *)
UpdatePanics(j) ==
  /\ Step(j, "updating", "releasing")
  /\ UNCHANGED <<main, cron, notified, interrupt, tryLockSem>>

(* The next run is logged, with the lock still held by who has it. *)
Report(j) ==
  /\ \/ Step(j, "reporting", "releasing")
     \/ Step(j, "skipped", "idle")
  /\ UNCHANGED <<main, cron, notified, interrupt, tryLockSem>>

(* The deferred function; the channel has one place. *)
Release(j) ==
  /\ tryLockSem < 1
  /\ Step(j, "releasing", "idle")
  /\ tryLockSem' = tryLockSem + 1
  /\ UNCHANGED <<main, cron, notified, interrupt>>
--------------------------------------------------------------------------------
(* Mutant: the channel has no bound. *)
SignalQueued ==
  /\ Alive
  /\ IF notified
       THEN interrupt' = interrupt + 1 /\ UNCHANGED main
       ELSE main' = "killed" /\ UNCHANGED interrupt
  /\ UNCHANGED <<cron, notified, tryLockSem, job>>

(* SIGINT or SIGTERM: kept in the channel if there is room, lost if not;   *)
(* before Notify it ends the process.                                      *)
Signal ==
  /\ Alive
  /\ IF notified
       THEN interrupt' = 1 /\ UNCHANGED main
       ELSE main' = "killed" /\ UNCHANGED interrupt
  /\ UNCHANGED <<cron, notified, tryLockSem, job>>

MainStep ==
  StartFails \/ CronStart \/ Notify \/ ReceiveInterrupt \/ CronStop
    \/ WaitForUpdate \/ Exit

JobStep(j) ==
  TryLock(j) \/ Skip(j) \/ UpdateReturns(j) \/ UpdatePanics(j) \/ Report(j)
    \/ Release(j)

Next == MainStep \/ Signal \/ \E j \in Job : Tick(j) \/ JobStep(j)

(* Goroutines run and an update returns, as its waits are bounded.  Ticks  *)
(* and signals may or may not come.                                        *)
Spec == Init /\ [][Next]_vars
FairSpec == Spec /\ WF_vars(MainStep) /\ \A j \in Job : WF_vars(JobStep(j))
--------------------------------------------------------------------------------
(* Every field keeps its type; neither channel holds more than its one     *)
(* place.                                                                  *)
TypeOK ==
  /\ main \in MainStates
  /\ cron \in BOOLEAN
  /\ notified \in BOOLEAN
  /\ interrupt \in 0 .. 1
  /\ tryLockSem \in 0 .. 1
  /\ job \in [Job -> JobStates]

Holders == {j \in Job : job[j] \in {"updating", "reporting", "releasing"}}

(* Two updates never overlap, however many ticks come while one runs. *)
OneUpdateAtATime ==
  \A j, k \in Job : job[j] = "updating" /\ job[k] = "updating" => j = k

(* A shutdown on a signal waits: when the process exits, no update is      *)
(* running, and none starts between the end of the wait and the exit.      *)
ExitsBetweenUpdates ==
  main \in {"exiting", "exited"} => \A j \in Job : job[j] # "updating"

(* Once started, the value of tryLockSem is never lost or duplicated: it   *)
(* is in the channel, with one update, or with the shutdown.               *)
LockAccountedFor ==
  main \notin {"prereqs", "failed", "killed"} =>
    \/ tryLockSem = 1 /\ Holders = {} /\ main \notin {"exiting", "exited"}
    \/ tryLockSem = 0 /\ main \in {"exiting", "exited"} /\ Holders = {}
    \/ /\ tryLockSem = 0
       /\ main \notin {"exiting", "exited"}
       /\ \E j \in Job : Holders = {j}

(* A signal is honoured: after it was received the process exits. *)
ShutdownCompletes == main = "stopping" ~> main = "exited"

(* No tick is left waiting for an update: its goroutine updates or skips,  *)
(* and is done.                                                            *)
TicksComplete == \A j \in Job : job[j] = "fired" ~> (job[j] = "idle" \/ ~Alive)
================================================================================
