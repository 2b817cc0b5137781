------------------------ MODULE WatchtowerScheduler_proof ------------------------
(***************************************************************************)
(* The safety of the watchtower process, for any number of goroutines of   *)
(* cron: updates never overlap, and the process exits between updates.     *)
(* Both follow from where the one value of tryLockSem is.                  *)
(***************************************************************************)
EXTENDS WatchtowerScheduler, TLAPS

(* Every field keeps its type, for any set of goroutines; neither channel  *)
(* ever holds more than one value.                                         *)
THEOREM TypeCorrect == Spec => []TypeOK
<1> DEFINE Flags == cron \in BOOLEAN /\ notified \in BOOLEAN
           Counts == interrupt \in 0 .. 1 /\ tryLockSem \in 0 .. 1
           Places == main \in MainStates /\ job \in [Job -> JobStates]
<1>1. TypeOK <=> Flags /\ Counts /\ Places
  BY Zenon DEF TypeOK
<1> USE DEF MainStates, JobStates, Ended
<1>2. Init => Flags /\ Counts /\ Places
  <2>1. Init => Flags
    BY Zenon DEF Init
  <2>2. Init => Counts
    BY DEF Init
  <2>3. Init => Places
    BY DEF Init
  <2> QED
    BY <2>1, <2>2, <2>3
<1>3. Flags /\ Counts /\ Places /\ [Next]_vars => (Flags /\ Counts /\ Places)'
  <2> SUFFICES ASSUME Flags, Counts, Places, [Next]_vars
               PROVE  (Flags /\ Counts /\ Places)'
    OBVIOUS
  <2>1. CASE MainStep
    <3> USE <2>1 DEF MainStep, StartFails, CronStart, Notify,
                     ReceiveInterrupt, CronStop, WaitForUpdate, Exit, Main
    <3>1. Flags'
      BY Zenon
    <3>2. Counts' /\ Places'
      OBVIOUS
    <3> QED
      BY <3>1, <3>2
  <2>2. CASE Signal
    BY <2>2 DEF Signal
  <2>3. ASSUME NEW j \in Job, Tick(j) \/ JobStep(j)
        PROVE  (Flags /\ Counts /\ Places)'
    BY <2>3 DEF Tick, JobStep, TryLock, Skip, UpdateReturns, UpdatePanics,
                Report, Release, Step
  <2>4. CASE UNCHANGED vars
    BY <2>4 DEF vars
  <2> QED
    BY <2>1, <2>2, <2>3, <2>4 DEF Next
<1> HIDE DEF Flags, Counts, Places
<1> QED
  BY <1>1, <1>2, <1>3, PTL DEF Spec

--------------------------------------------------------------------------------
Holds(j) == job[j] \in {"updating", "reporting", "releasing"}

(* Where the value of tryLockSem is: in no place before cron starts, then  *)
(* in exactly one of the channel, a goroutine and the main goroutine that  *)
(* has waited.  A process that was killed had not called Notify, so its    *)
(* goroutines may have been anywhere.                                      *)
NotYetMade ==
  main \in {"prereqs", "failed"} =>
    ~cron /\ tryLockSem = 0 /\ \A j \in Job : job[j] = "idle"
HeldOnce == \A j, k \in Job : Holds(j) /\ Holds(k) => j = k
HeldOrFree == \A j \in Job : Holds(j) => tryLockSem = 0
TakenForGood ==
  main \in {"exiting", "exited"} =>
    tryLockSem = 0 /\ \A j \in Job : ~Holds(j)
NeverLost ==
  main \in {"starting", "serving", "stopping", "waiting"} =>
    tryLockSem = 1 \/ \E j \in Job : Holds(j)

LockInv == NotYetMade /\ HeldOnce /\ HeldOrFree /\ TakenForGood /\ NeverLost

(* LockInv is inductive, given the types. *)
LEMMA LockInvStep == TypeOK /\ LockInv /\ [Next]_vars => LockInv'
<1> SUFFICES ASSUME TypeOK, LockInv, [Next]_vars
             PROVE  LockInv'
  OBVIOUS
<1> USE DEF TypeOK, LockInv, NotYetMade, HeldOnce, HeldOrFree, TakenForGood,
            NeverLost, Holds
<1>1. CASE MainStep
  <2>1. CASE StartFails
    BY <2>1 DEF StartFails, Main
  <2>2. CASE CronStart
    BY <2>2 DEF CronStart, Main
  <2>3. CASE Notify
    BY <2>3 DEF Notify, Main
  <2>4. CASE ReceiveInterrupt
    BY <2>4 DEF ReceiveInterrupt, Main
  <2>5. CASE CronStop
    BY <2>5 DEF CronStop, Main
  <2>6. CASE WaitForUpdate
    BY <2>6 DEF WaitForUpdate, Main
  <2>7. CASE Exit
    BY <2>7 DEF Exit, Main
  <2> QED
    BY <1>1, <2>1, <2>2, <2>3, <2>4, <2>5, <2>6, <2>7 DEF MainStep
<1>2. CASE Signal
  BY <1>2 DEF Signal, Alive, Ended
<1>3. ASSUME NEW j \in Job, Tick(j) \/ JobStep(j)
      PROVE  LockInv'
  <2>1. CASE Tick(j)
    BY <2>1 DEF Tick, Step
  <2>2. CASE TryLock(j)
    BY <2>2 DEF TryLock, Step
  <2>3. CASE Skip(j)
    BY <2>3 DEF Skip, Step
  <2>4. CASE UpdateReturns(j)
    BY <2>4 DEF UpdateReturns, Step
  <2>5. CASE UpdatePanics(j)
    BY <2>5 DEF UpdatePanics, Step
  <2>6. CASE Report(j)
    BY <2>6 DEF Report, Step
  <2>7. CASE Release(j)
    BY <2>7 DEF Release, Step
  <2> QED
    BY <1>3, <2>1, <2>2, <2>3, <2>4, <2>5, <2>6, <2>7 DEF JobStep
<1>4. CASE UNCHANGED vars
  BY <1>4 DEF vars
<1> QED
  BY <1>1, <1>2, <1>3, <1>4 DEF Next

(* The value of tryLockSem is in one place at any time. *)
THEOREM LockInvariant == Spec => []LockInv
<1>1. Init => LockInv
  BY DEF Init, LockInv, NotYetMade, HeldOnce, HeldOrFree, TakenForGood,
         NeverLost, Holds
<1> QED
  BY <1>1, LockInvStep, TypeCorrect, PTL DEF Spec

(* Two updates never overlap, however many goroutines cron starts. *)
THEOREM NoOverlap == Spec => []OneUpdateAtATime
<1>1. LockInv => OneUpdateAtATime
  BY DEF LockInv, HeldOnce, Holds, OneUpdateAtATime
<1> QED
  BY <1>1, LockInvariant, PTL

(* The value of tryLockSem is never lost or duplicated, as the run checks  *)
(* for three goroutines.                                                   *)
THEOREM LockKept == Spec => []LockAccountedFor
<1>1. TypeOK /\ LockInv => LockAccountedFor
  <2> SUFFICES ASSUME TypeOK, LockInv, main \notin {"prereqs", "failed", "killed"}
               PROVE  LockAccountedFor
    BY DEF LockAccountedFor
  <2> USE DEF TypeOK, LockInv, HeldOnce, HeldOrFree, TakenForGood, NeverLost,
              Holds, Holders, LockAccountedFor, MainStates, Ended
  <2>1. CASE main \in {"exiting", "exited"}
    BY <2>1
  <2>2. CASE main \notin {"exiting", "exited"} /\ tryLockSem = 1
    BY <2>2
  <2>3. CASE main \notin {"exiting", "exited"} /\ tryLockSem = 0
    <3>1. PICK j \in Job : Holds(j)
      BY <2>3
    <3>2. Holders = {j}
      BY <3>1
    <3> QED
      BY <2>3, <3>2
  <2> QED
    BY <2>1, <2>2, <2>3
<1> QED
  BY <1>1, TypeCorrect, LockInvariant, PTL

(* The process never exits while an update runs, nor does an update start  *)
(* once the shutdown has waited, although cron started its goroutine       *)
(* before.                                                                 *)
THEOREM GracefulExit == Spec => []ExitsBetweenUpdates
<1>1. LockInv => ExitsBetweenUpdates
  BY DEF LockInv, TakenForGood, Holds, ExitsBetweenUpdates
<1> QED
  BY <1>1, LockInvariant, PTL
================================================================================
