----------------------------- MODULE UpdatePlan_proof -----------------------------
(***************************************************************************)
(* The sort and checkDependencies are right for any containers and any     *)
(* links: the order has dependencies first, the walk implements the        *)
(* abstract order, and one pass over that order spreads staleness to all   *)
(* dependents.                                                             *)
(***************************************************************************)
EXTENDS UpdatePlan, SequenceTheorems, TLAPS

(* What is in a sequence. *)
LEMMA InSequence ==
  ASSUME NEW S, NEW s \in Seq(S), NEW x
  PROVE  x \in ToSet(s) <=> \E i \in 1 .. Len(s) : s[i] = x
BY DEF ToSet

(* Append adds one element. *)
LEMMA AppendAdds ==
  ASSUME NEW S, NEW s \in Seq(S), NEW x \in S
  PROVE  ToSet(Append(s, x)) = ToSet(s) \cup {x}
<1>1. /\ Append(s, x) \in Seq(S)
      /\ Len(Append(s, x)) = Len(s) + 1
      /\ \A i \in 1 .. Len(s) : Append(s, x)[i] = s[i]
      /\ Append(s, x)[Len(s) + 1] = x
  BY AppendProperties
<1>2. DOMAIN s = 1 .. Len(s) /\ DOMAIN Append(s, x) = 1 .. Len(s) + 1 /\ Len(s) \in Nat
  BY <1>1, LenProperties
<1> QED
  BY <1>1, <1>2 DEF ToSet

(* RemoveAt drops the element at i and keeps the others in order. *)
LEMMA RemoveAtProperties ==
  ASSUME NEW S, NEW s \in Seq(S), NEW i \in 1 .. Len(s)
  PROVE  /\ RemoveAt(s, i) \in Seq(S)
         /\ Len(RemoveAt(s, i)) = Len(s) - 1
         /\ \A k \in 1 .. (Len(s) - 1) :
              RemoveAt(s, i)[k] = IF k < i THEN s[k] ELSE s[k + 1]
<1> DEFINE l == SubSeq(s, 1, i - 1)
           r == SubSeq(s, i + 1, Len(s))
<1>1. Len(s) \in Nat /\ \A k \in 1 .. Len(s) : s[k] \in S
  BY LenProperties, ElementOfSeq
<1>2. l \in Seq(S) /\ Len(l) = i - 1 /\ \A k \in 1 .. (i - 1) : l[k] = s[k]
  <2>1. i - 1 \in Int /\ \A k \in 1 .. (i - 1) : s[k] \in S
    BY <1>1
  <2>2. /\ l \in Seq(S)
        /\ Len(l) = IF 1 <= i - 1 THEN (i - 1) - 1 + 1 ELSE 0
        /\ \A k \in 1 .. (i - 1) - 1 + 1 : l[k] = s[1 + k - 1]
    BY <2>1, SubSeqProperties
  <2> QED
    BY <2>2
<1>3. /\ r \in Seq(S) /\ Len(r) = Len(s) - i
      /\ \A k \in 1 .. (Len(s) - i) : r[k] = s[i + k]
  <2>1. i + 1 \in Int /\ Len(s) \in Int /\ \A k \in i + 1 .. Len(s) : s[k] \in S
    BY <1>1
  <2>2. /\ r \in Seq(S)
        /\ Len(r) = IF i + 1 <= Len(s) THEN Len(s) - (i + 1) + 1 ELSE 0
        /\ \A k \in 1 .. Len(s) - (i + 1) + 1 : r[k] = s[i + 1 + k - 1]
    BY <2>1, SubSeqProperties
  <2> QED
    BY <1>1, <2>2
<1> HIDE DEF l, r
<1>4. /\ l \o r \in Seq(S) /\ Len(l \o r) = Len(l) + Len(r)
      /\ \A k \in 1 .. Len(l) + Len(r) :
           (l \o r)[k] = IF k <= Len(l) THEN l[k] ELSE r[k - Len(l)]
  BY <1>2, <1>3, ConcatProperties
<1>5. RemoveAt(s, i) = l \o r
  BY DEF RemoveAt, l, r
<1>6. Len(l \o r) = Len(s) - 1
  BY <1>1, <1>2, <1>3, <1>4
<1>7. ASSUME NEW k \in 1 .. (Len(s) - 1)
      PROVE  (l \o r)[k] = IF k < i THEN s[k] ELSE s[k + 1]
  <2>1. (l \o r)[k] = IF k <= i - 1 THEN l[k] ELSE r[k - (i - 1)]
    BY <1>1, <1>2, <1>3, <1>4
  <2>2. CASE k < i
    BY <2>1, <2>2, <1>2
  <2>3. CASE ~(k < i)
    <3>1. k - (i - 1) \in 1 .. (Len(s) - i) /\ i + (k - (i - 1)) = k + 1
      BY <2>3, <1>1
    <3>2. r[k - (i - 1)] = s[i + (k - (i - 1))]
      BY <3>1, <1>3
    <3>3. (l \o r)[k] = r[k - (i - 1)]
      BY <2>1, <2>3, <1>1
    <3> QED
      BY <2>3, <3>1, <3>2, <3>3
  <2> QED
    BY <2>2, <2>3
<1> QED
  BY <1>4, <1>5, <1>6, <1>7

(* From a sequence without duplicates, RemoveAt takes just that element. *)
LEMMA RemoveAtSet ==
  ASSUME NEW S, NEW s \in Seq(S), NEW i \in 1 .. Len(s), IsInjective(s)
  PROVE  /\ ToSet(RemoveAt(s, i)) = ToSet(s) \ {s[i]}
         /\ IsInjective(RemoveAt(s, i))
<1> DEFINE t == RemoveAt(s, i)
<1>1. /\ t \in Seq(S)
      /\ Len(t) = Len(s) - 1
      /\ \A k \in 1 .. (Len(s) - 1) : t[k] = IF k < i THEN s[k] ELSE s[k + 1]
  BY RemoveAtProperties
<1> HIDE DEF t
<1>2. Len(s) \in Nat /\ DOMAIN s = 1 .. Len(s) /\ DOMAIN t = 1 .. (Len(s) - 1)
  BY <1>1, LenProperties
<1>3. ASSUME NEW k \in 1 .. Len(s), k # i
      PROVE  \E m \in 1 .. (Len(s) - 1) : t[m] = s[k]
  <2>1. CASE k < i
    <3>1. k \in 1 .. (Len(s) - 1) /\ t[k] = s[k]
      BY <2>1, <1>1, <1>2
    <3> QED
      BY <3>1
  <2>2. CASE k > i
    <3>1. k - 1 \in 1 .. (Len(s) - 1) /\ t[k - 1] = s[(k - 1) + 1]
      BY <2>2, <1>1, <1>2
    <3>2. (k - 1) + 1 = k
      OBVIOUS
    <3> QED
      BY <3>1, <3>2
  <2> QED
    BY <1>3, <2>1, <2>2
<1>4. ASSUME NEW m \in 1 .. (Len(s) - 1)
      PROVE  \E k \in 1 .. Len(s) : k # i /\ t[m] = s[k]
  <2>1. CASE m < i
    BY <2>1, <1>1, <1>2
  <2>2. CASE ~(m < i)
    <3>1. m + 1 \in 1 .. Len(s) /\ m + 1 # i /\ t[m] = s[m + 1]
      BY <2>2, <1>1, <1>2
    <3> QED
      BY <3>1
  <2> QED
    BY <2>1, <2>2
<1>5. ToSet(t) = ToSet(s) \ {s[i]}
  <2>1. ASSUME NEW x \in ToSet(t)
        PROVE  x \in ToSet(s) /\ x # s[i]
    BY <1>2, <1>4 DEF ToSet, IsInjective
  <2>2. ASSUME NEW x \in ToSet(s), x # s[i]
        PROVE  x \in ToSet(t)
    BY <2>2, <1>2, <1>3 DEF ToSet
  <2> QED
    BY <2>1, <2>2
<1>6. IsInjective(t)
  <2> SUFFICES ASSUME NEW m \in 1 .. (Len(s) - 1), NEW n \in 1 .. (Len(s) - 1),
                      t[m] = t[n]
               PROVE  m = n
    BY <1>2 DEF IsInjective
  <2> DEFINE at(k) == IF k < i THEN k ELSE k + 1
  <2>1. at(m) \in 1 .. Len(s) /\ at(n) \in 1 .. Len(s)
    BY <1>2
  <2>2. t[m] = s[at(m)] /\ t[n] = s[at(n)]
    BY <1>1
  <2>3. at(m) = at(n)
    BY <1>2, <2>1, <2>2 DEF IsInjective
  <2> QED
    BY <2>3
<1> QED
  BY <1>5, <1>6 DEF t
--------------------------------------------------------------------------------
Frames == 1 .. Len(stack)

(* Until an error drops the order, every listed container is in exactly    *)
(* one of unvisited and sorted.                                            *)
Partition ==
  /\ IsInjective(unvisited)
  /\ IsInjective(sorted)
  /\ pc # "circular" => /\ ToSet(unvisited) \cap ToSet(sorted) = {}
                        /\ ToSet(unvisited) \cup ToSet(sorted) = listed

(* A container is marked exactly while it is being visited, and visited    *)
(* once at a time.                                                         *)
OnStack ==
  /\ marked = {stack[k].name : k \in Frames}
  /\ \A k \in Frames : stack[k].name \in ToSet(unvisited)
  /\ \A k, m \in Frames : stack[k].name = stack[m].name => k = m

(* The container of a frame is linked from that of the frame below, by the *)
(* link before the next one.                                               *)
Called ==
  \A k \in Frames :
    k < Len(stack) =>
      /\ stack[k].next - 1 \in 1 .. Len(links[stack[k].name])
      /\ links[stack[k].name][stack[k].next - 1] = stack[k + 1].name

(* All links a frame has passed lead to containers in order or not listed, *)
(* but for the one being visited.                                          *)
Passed ==
  \A k \in Frames : \A n \in 1 .. Len(links[stack[k].name]) :
    n < stack[k].next =>
      \/ links[stack[k].name][n] \notin listed
      \/ links[stack[k].name][n] \in ToSet(sorted)
      \/ k < Len(stack) /\ n = stack[k].next - 1

(* What the phases leave behind. *)
Phases ==
  /\ pc # "sort" => stack = <<>>
  /\ pc \in {"check", "planned"} => unvisited = <<>>
  /\ pc = "circular" => sorted = <<>>
  /\ pc \in {"sort", "circular"} => stale = found /\ cursor = 1
  /\ pc = "planned" => cursor > Len(sorted)

(* The containers checkDependencies has passed are settled for good, as    *)
(* nothing after them in order can make them stale; nothing is stale that  *)
(* does not have to be.                                                    *)
Settled ==
  /\ found \subseteq stale
  /\ stale \subseteq listed
  /\ \A i \in 1 .. Len(sorted) :
       i < cursor /\ Deps(links, listed, sorted[i]) \cap stale # {} =>
         sorted[i] \in stale
  /\ \A S \in SUBSET listed :
       found \subseteq S /\ ClosedUnderDependents(links, listed, S) =>
         stale \subseteq S

WalkInv == Partition /\ OnStack /\ Called /\ Passed /\ SortedDependenciesFirst
PlanInv == WalkInv /\ Phases /\ Settled
--------------------------------------------------------------------------------
(* What the type invariant says of the inputs and of each frame. *)
LEMMA Typed ==
  ASSUME TypeOK
  PROVE  /\ containers \in Seq(Name) /\ IsInjective(containers)
         /\ links \in [Name -> Seq(Name)]
         /\ Len(stack) \in Nat
         /\ \A k \in Frames : /\ stack[k] = [name |-> stack[k].name,
                                            next |-> stack[k].next]
                              /\ stack[k].name \in Name
                              /\ stack[k].next \in Nat \ {0}
                              /\ links[stack[k].name] \in Seq(Name)
                              /\ Len(links[stack[k].name]) \in Nat
<1>1. containers \in Seq(Name) /\ IsInjective(containers)
  BY ListsAssumption DEF TypeOK
<1>2. links \in [Name -> Seq(Name)]
  BY LinksAssumption DEF TypeOK
<1>3. stack \in Seq(Frame) /\ Len(stack) \in Nat
  BY LenProperties DEF TypeOK
<1>4. ASSUME NEW k \in Frames
      PROVE  stack[k] \in Frame
  BY <1>3, ElementOfSeq DEF Frames
<1> QED
  BY <1>1, <1>2, <1>3, <1>4, LenProperties DEF Frame

(* The caller of a visit keeps its name and moves to its next link; other  *)
(* frames stay as they are.                                                *)
LEMMA AdvancedFrames ==
  ASSUME TypeOK
  PROVE  /\ Advanced \in Seq(Frame)
         /\ Len(Advanced) = Len(stack)
         /\ \A k \in Frames :
              Advanced[k] =
                [name |-> stack[k].name,
                 next |-> IF k = Len(stack) THEN stack[k].next + 1 ELSE stack[k].next]
<1>1. CASE stack = <<>>
  BY <1>1 DEF Advanced, TypeOK, Frames
<1>2. CASE stack # <<>>
  <2>1. stack \in Seq(Frame) /\ Len(stack) \in Nat \ {0} /\ Len(stack) \in Frames
    BY <1>2, EmptySeq, LenProperties DEF TypeOK, Frames
  <2> DEFINE top == [name |-> Top.name, next |-> Top.next + 1]
  <2>2. Top \in Frame
    BY <2>1, ElementOfSeq DEF Top, Frames
  <2>3. top \in Frame /\ [Top EXCEPT !.next = @ + 1] = top
    BY <2>2 DEF Frame
  <2>4. Advanced = [stack EXCEPT ![Len(stack)] = top]
    <3>1. [stack EXCEPT ![Len(stack)].next = @ + 1]
            = [stack EXCEPT ![Len(stack)] = [Top EXCEPT !.next = @ + 1]]
      BY DEF Top
    <3> QED
      BY <1>2, <2>3, <3>1 DEF Advanced
  <2> HIDE DEF top
  <2>5. /\ Advanced \in Seq(Frame)
        /\ Len(Advanced) = Len(stack)
        /\ \A k \in Frames :
             Advanced[k] = IF k = Len(stack) THEN top ELSE stack[k]
    <3>1. /\ [stack EXCEPT ![Len(stack)] = top] \in Seq(Frame)
          /\ Len([stack EXCEPT ![Len(stack)] = top]) = Len(stack)
          /\ \A k \in 1 .. Len(stack) : [stack EXCEPT ![Len(stack)] = top][k]
                                           = IF k = Len(stack) THEN top ELSE stack[k]
      BY <2>1, <2>3, ExceptSeq DEF Frames
    <3> QED
      BY <2>4, <3>1 DEF Frames
  <2>6. ASSUME NEW k \in Frames
        PROVE  Advanced[k] =
                 [name |-> stack[k].name,
                  next |-> IF k = Len(stack) THEN stack[k].next + 1 ELSE stack[k].next]
    <3>1. CASE k = Len(stack)
      BY <3>1, <2>5 DEF top, Top
    <3>2. CASE k # Len(stack)
      <4>1. Advanced[k] = stack[k]
        BY <3>2, <2>5
      <4>2. stack[k] = [name |-> stack[k].name, next |-> stack[k].next]
        BY Typed
      <4> QED
        BY <3>2, <4>1, <4>2
    <3> QED
      BY <3>1, <3>2
  <2> QED
    BY <2>5, <2>6
<1> QED
  BY <1>1, <1>2

(* Leave takes the innermost frame off the stack. *)
LEMMA LeaveFrames ==
  ASSUME TypeOK, stack # <<>>
  PROVE  LET rest == SubSeq(stack, 1, Len(stack) - 1) IN
         /\ Len(stack) \in Frames /\ Top \in Frame
         /\ rest \in Seq(Frame)
         /\ Len(rest) = Len(stack) - 1
         /\ \A k \in 1 .. (Len(stack) - 1) : rest[k] = stack[k]
<1>1. stack \in Seq(Frame) /\ Len(stack) \in Nat \ {0}
  BY EmptySeq DEF TypeOK
<1>2. Len(stack) \in Frames /\ \A k \in 1 .. Len(stack) : stack[k] \in Frame
  BY <1>1, ElementOfSeq DEF Frames
<1> DEFINE n == Len(stack) - 1
           rest == SubSeq(stack, 1, n)
<1>3. n \in Nat /\ \A k \in 1 .. n : stack[k] \in Frame
  BY <1>1, <1>2
<1>4. /\ rest \in Seq(Frame)
      /\ Len(rest) = IF 1 <= n THEN n - 1 + 1 ELSE 0
      /\ \A k \in 1 .. n - 1 + 1 : rest[k] = stack[1 + k - 1]
  <2> HIDE DEF n
  <2> QED
    BY <1>3, SubSeqProperties
<1>5. Len(rest) = n /\ \A k \in 1 .. n : rest[k] = stack[k]
  <2> HIDE DEF n, rest
  <2> QED
    BY <1>3, <1>4
<1> QED
  BY <1>2, <1>4, <1>5 DEF Top

(* removeUnvisited finds a container that is in the list. *)
LEMMA IndexOfFinds ==
  ASSUME NEW S, unvisited \in Seq(S), NEW c \in ToSet(unvisited), IsInjective(unvisited)
  PROVE  IndexOf(c) \in 1 .. Len(unvisited) /\ unvisited[IndexOf(c)] = c
<1>1. DOMAIN unvisited = 1 .. Len(unvisited) /\ Len(unvisited) \in Nat
  BY LenProperties
<1>2. PICK i \in DOMAIN unvisited : unvisited[i] = c
  BY DEF ToSet
<1>3. \A j \in 1 .. (i - 1) : unvisited[j] # c
  BY <1>1, <1>2 DEF IsInjective
<1> QED
  BY <1>1, <1>2, <1>3 DEF IndexOf
--------------------------------------------------------------------------------
(* What a visit does to the stack. *)
LEMMA VisitFrames ==
  ASSUME TypeOK, NEW c \in Name, Visit(c)
  PROVE  /\ stack' \in Seq(Frame)
         /\ Len(stack') = Len(stack) + 1
         /\ stack'[Len(stack) + 1] = [name |-> c, next |-> 1]
         /\ \A k \in Frames :
              stack'[k] =
                [name |-> stack[k].name,
                 next |-> IF k = Len(stack) THEN stack[k].next + 1 ELSE stack[k].next]
<1> DEFINE new == [name |-> c, next |-> 1]
<1>1. new \in Frame
  BY DEF Frame
<1> HIDE DEF new
<1>2. /\ Append(Advanced, new) \in Seq(Frame)
      /\ Len(Append(Advanced, new)) = Len(Advanced) + 1
      /\ \A k \in 1 .. Len(Advanced) : Append(Advanced, new)[k] = Advanced[k]
      /\ Append(Advanced, new)[Len(Advanced) + 1] = new
  BY <1>1, AdvancedFrames, AppendProperties
<1>3. stack' = Append(Advanced, new)
  BY DEF Visit, new
<1> QED
  BY <1>2, <1>3, AdvancedFrames DEF Frames, new

(* What leaving a visit does: the container moves from unvisited to the    *)
(* end of sorted.                                                          *)
LEMMA LeaveEffect ==
  ASSUME TypeOK, PlanInv, Leave
  PROVE  /\ Len(stack) \in Frames /\ Top \in Frame
         /\ stack' \in Seq(Frame) /\ Len(stack') = Len(stack) - 1
         /\ \A k \in 1 .. Len(stack') : stack'[k] = stack[k]
         /\ Top.name \in ToSet(unvisited)
         /\ unvisited' \in Seq(Name) /\ IsInjective(unvisited')
         /\ ToSet(unvisited') = ToSet(unvisited) \ {Top.name}
         /\ sorted' \in Seq(Name) /\ Len(sorted') = Len(sorted) + 1
         /\ \A i \in 1 .. Len(sorted) : sorted'[i] = sorted[i]
         /\ sorted'[Len(sorted) + 1] = Top.name
         /\ ToSet(sorted') = ToSet(sorted) \cup {Top.name}
<1>1. /\ Len(stack) \in Frames /\ Top \in Frame
      /\ stack' \in Seq(Frame) /\ Len(stack') = Len(stack) - 1
      /\ \A k \in 1 .. Len(stack') : stack'[k] = stack[k]
  <2>1. stack # <<>> /\ stack' = SubSeq(stack, 1, Len(stack) - 1)
    BY DEF Leave
  <2> QED
    BY <2>1, LeaveFrames
<1>2. unvisited \in Seq(Name) /\ sorted \in Seq(Name) /\ Top.name \in Name
  BY <1>1 DEF TypeOK, Frame
<1>3. Top.name \in ToSet(unvisited)
  BY <1>1 DEF PlanInv, WalkInv, OnStack, Top
<1>4. IsInjective(unvisited)
  BY DEF PlanInv, WalkInv, Partition
<1>5. IndexOf(Top.name) \in 1 .. Len(unvisited) /\ unvisited[IndexOf(Top.name)] = Top.name
  BY <1>2, <1>3, <1>4, IndexOfFinds
<1>6. unvisited' = RemoveAt(unvisited, IndexOf(Top.name)) /\ sorted' = Append(sorted, Top.name)
  BY DEF Leave
<1>7. /\ unvisited' \in Seq(Name) /\ IsInjective(unvisited')
      /\ ToSet(unvisited') = ToSet(unvisited) \ {Top.name}
  BY <1>2, <1>4, <1>5, <1>6, RemoveAtProperties, RemoveAtSet
<1>8. /\ sorted' \in Seq(Name) /\ Len(sorted') = Len(sorted) + 1
      /\ \A i \in 1 .. Len(sorted) : sorted'[i] = sorted[i]
      /\ sorted'[Len(sorted) + 1] = Top.name
  BY <1>2, <1>6, AppendProperties
<1>9. ToSet(sorted') = ToSet(sorted) \cup {Top.name}
  BY <1>2, <1>6, AppendAdds
<1> QED
  BY <1>1, <1>3, <1>7, <1>8, <1>9

(* Every step keeps the types, given the invariant. *)
LEMMA TypeStep == TypeOK /\ PlanInv /\ [Next]_vars => TypeOK'
<1> SUFFICES ASSUME TypeOK, PlanInv, [Next]_vars
             PROVE  TypeOK'
  OBVIOUS
<1> USE DEF input, sorter, listed
<1>1. ASSUME NEW c \in Name, Visit(c)
      PROVE  TypeOK'
  <2>1. stack' \in Seq(Frame)
    BY <1>1, VisitFrames
  <2> QED
    BY <1>1, <2>1 DEF Visit, TypeOK
<1>2. ASSUME NEW c \in Name, CircularReference(c)
      PROVE  TypeOK'
  BY <1>2, EmptySeq DEF CircularReference, TypeOK
<1>3. CASE SkipLink
  <2>1. stack' \in Seq(Frame)
    BY <1>3, AdvancedFrames DEF SkipLink
  <2> QED
    BY <1>3, <2>1 DEF SkipLink, TypeOK
<1>4. CASE Leave
  <2>1. stack' \in Seq(Frame) /\ unvisited' \in Seq(Name) /\ sorted' \in Seq(Name)
    BY <1>4, LeaveEffect
  <2> QED
    BY <1>4, <2>1 DEF Leave, TypeOK
<1>5. CASE SortReturns
  BY <1>5 DEF SortReturns, TypeOK
<1>6. CASE CheckDependencies
  <2>1. cursor \in 1 .. Len(sorted) /\ sorted \in Seq(Name)
    BY <1>6, LenProperties DEF CheckDependencies, TypeOK
  <2>2. sorted[cursor] \in Name
    BY <2>1, ElementOfSeq
  <2> QED
    BY <1>6, <2>2 DEF CheckDependencies, TypeOK
<1>7. CASE CheckReturns
  BY <1>7 DEF CheckReturns, TypeOK
<1>8. CASE UNCHANGED vars
  BY <1>8 DEF vars, TypeOK
<1> QED
  BY <1>1, <1>2, <1>3, <1>4, <1>5, <1>6, <1>7, <1>8 DEF Next
--------------------------------------------------------------------------------
(* A visit is called on a container that is not in order yet and that the  *)
(* innermost frame, if any, links to.                                      *)
LEMMA CalleeIsNext ==
  ASSUME TypeOK, PlanInv, NEW c \in Callee
  PROVE  /\ c \in ToSet(unvisited)
         /\ stack # <<>> => /\ Len(stack) \in Frames
                            /\ Top.next \in 1 .. Len(links[Top.name])
                            /\ links[Top.name][Top.next] = c
<1>1. CASE stack = <<>>
  <2>1. unvisited # <<>> /\ c = unvisited[1]
    BY <1>1 DEF Callee
  <2>2. 1 \in 1 .. Len(unvisited)
    BY <2>1, EmptySeq DEF TypeOK
  <2> QED
    BY <1>1, <2>1, <2>2, InSequence DEF TypeOK
<1>2. CASE stack # <<>>
  <2>1. Len(stack) \in Frames
    BY <1>2, EmptySeq DEF TypeOK, Frames
  <2>2. MoreLinks /\ c = NextLink /\ c \in ToSet(unvisited)
    BY <1>2 DEF Callee
  <2>3. Top.next \in Nat \ {0} /\ Len(links[Top.name]) \in Nat
    BY <2>1, Typed DEF Top
  <2> QED
    BY <2>1, <2>2, <2>3 DEF MoreLinks, NextLink
<1> QED
  BY <1>1, <1>2

LEMMA VisitKeeps ==
  ASSUME TypeOK, PlanInv, NEW c \in Name, Visit(c)
  PROVE  PlanInv'
<1> DEFINE n == Len(stack)
<1>1. /\ n \in Nat /\ Len(stack') = n + 1
      /\ Frames = 1 .. n /\ Frames' = 1 .. n + 1
      /\ stack'[n + 1] = [name |-> c, next |-> 1]
      /\ \A k \in 1 .. n : /\ stack'[k].name = stack[k].name
                          /\ stack'[k].next = IF k = n THEN stack[k].next + 1
                                                      ELSE stack[k].next
  <2>1. /\ n \in Nat /\ Len(stack') = n + 1
        /\ stack'[n + 1] = [name |-> c, next |-> 1]
    BY VisitFrames, Typed
  <2>2. Frames = 1 .. n /\ Frames' = 1 .. n + 1
    BY <2>1 DEF Frames
  <2>3. ASSUME NEW k \in 1 .. n
        PROVE  /\ stack'[k].name = stack[k].name
               /\ stack'[k].next = IF k = n THEN stack[k].next + 1
                                           ELSE stack[k].next
    <3>1. stack'[k] = [name |-> stack[k].name,
                       next |-> IF k = n THEN stack[k].next + 1 ELSE stack[k].next]
      BY <2>2, VisitFrames
    <3> HIDE DEF n
    <3> QED
      BY <3>1
  <2> QED
    BY <2>1, <2>2, <2>3
<1>2. UNCHANGED <<containers, links, found, unvisited, sorted, stale, cursor, pc>>
  BY DEF Visit, input
<1>3. /\ c \in ToSet(unvisited) /\ c \notin marked /\ marked' = marked \cup {c}
      /\ pc = "sort"
  BY CalleeIsNext DEF Visit
<1>4. n # 0 => stack[n].next \in 1 .. Len(links[stack[n].name])
               /\ links[stack[n].name][stack[n].next] = c
  <2>1. n # 0 => stack # <<>>
    BY EmptySeq
  <2> QED
    BY <2>1, CalleeIsNext DEF Visit, Top
<1>5. \A k \in 1 .. n : stack[k].next \in Nat /\ Len(links[stack[k].name]) \in Nat
  BY <1>1, Typed
<1> HIDE DEF n
<1>6. Partition' /\ SortedDependenciesFirst'
  BY <1>2 DEF PlanInv, WalkInv, Partition, SortedDependenciesFirst, listed
<1>7. OnStack'
  <2>1. OnStack
    BY DEF PlanInv, WalkInv
  <2>2. marked' = {stack'[k].name : k \in 1 .. n + 1}
    <3>1. marked = {stack[k].name : k \in 1 .. n}
      BY <1>1, <2>1 DEF OnStack
    <3>2. \A k \in 1 .. n + 1 : k \in 1 .. n \/ k = n + 1
      BY <1>1
    <3>3. 1 .. n \subseteq 1 .. n + 1 /\ n + 1 \in 1 .. n + 1
      BY <1>1
    <3> QED
      BY <1>1, <1>3, <3>1, <3>2, <3>3
  <2>3. \A k \in 1 .. n : stack[k].name # c
    BY <1>1, <1>3, <2>1 DEF OnStack
  <2>4. \A k \in 1 .. n + 1 : stack'[k].name \in ToSet(unvisited)
    BY <1>1, <1>3, <2>1 DEF OnStack
  <2>5. \A k, m \in 1 .. n + 1 : stack'[k].name = stack'[m].name => k = m
    BY <1>1, <2>1, <2>3 DEF OnStack
  <2> QED
    BY <1>1, <1>2, <2>2, <2>4, <2>5 DEF OnStack
<1>8. Called'
  <2> SUFFICES ASSUME NEW k \in 1 .. n
               PROVE  /\ stack'[k].next - 1 \in 1 .. Len(links[stack'[k].name])
                      /\ links[stack'[k].name][stack'[k].next - 1] = stack'[k + 1].name
    BY <1>1, <1>2 DEF Called
  <2>1. CASE k = n
    BY <2>1, <1>1, <1>4, <1>5
  <2>2. CASE k < n
    <3>1. /\ stack[k].next - 1 \in 1 .. Len(links[stack[k].name])
          /\ links[stack[k].name][stack[k].next - 1] = stack[k + 1].name
      BY <2>2, <1>1 DEF PlanInv, WalkInv, Called, n
    <3>2. k + 1 \in 1 .. n
      BY <2>2, <1>1
    <3>3. stack'[k + 1].name = stack[k + 1].name
      BY <3>2, <1>1
    <3>4. stack'[k].name = stack[k].name /\ stack'[k].next = stack[k].next
      BY <2>2, <1>1
    <3> QED
      BY <3>1, <3>3, <3>4
  <2> QED
    BY <2>1, <2>2, <1>1
<1>9. Passed'
  <2> SUFFICES ASSUME NEW k \in 1 .. n + 1,
                      NEW i \in 1 .. Len(links[stack'[k].name]), i < stack'[k].next
               PROVE  \/ links[stack'[k].name][i] \notin listed
                      \/ links[stack'[k].name][i] \in ToSet(sorted)
                      \/ k < n + 1 /\ i = stack'[k].next - 1
    BY <1>1, <1>2 DEF Passed, listed
  <2>1. CASE k = n + 1
    BY <2>1, <1>1
  <2>2. CASE k = n
    <3>1. stack'[k].name = stack[k].name /\ stack'[k].next = stack[k].next + 1
      BY <2>2, <1>1
    <3>2. CASE i < stack[k].next
      <4>1. k \in Frames /\ ~(k < Len(stack))
        BY <2>2, <1>1 DEF n
      <4>2. \/ links[stack[k].name][i] \notin listed
            \/ links[stack[k].name][i] \in ToSet(sorted)
        BY <3>1, <3>2, <4>1 DEF PlanInv, WalkInv, Passed
      <4> QED
        BY <3>1, <4>2
    <3>3. CASE ~(i < stack[k].next)
      BY <2>2, <3>1, <3>3, <1>1, <1>5
    <3> QED
      BY <3>2, <3>3
  <2>3. CASE k < n
    <3>1. stack'[k].name = stack[k].name /\ stack'[k].next = stack[k].next /\ k \in Frames
      BY <2>3, <1>1
    <3>2. \/ links[stack[k].name][i] \notin listed
          \/ links[stack[k].name][i] \in ToSet(sorted)
          \/ k < Len(stack) /\ i = stack[k].next - 1
      BY <3>1 DEF PlanInv, WalkInv, Passed
    <3> QED
      BY <2>3, <3>1, <3>2, <1>1
  <2> QED
    BY <2>1, <2>2, <2>3, <1>1
<1>10. Phases' /\ Settled'
  <2>1. pc = "sort" /\ pc' = "sort"
    BY <1>2, <1>3
  <2>2. Phases'
    BY <1>2, <2>1 DEF PlanInv, Phases
  <2>3. Settled'
    BY <1>2 DEF PlanInv, Settled, listed
  <2> QED
    BY <2>2, <2>3
<1> QED
  BY <1>6, <1>7, <1>8, <1>9, <1>10 DEF PlanInv, WalkInv

LEMMA CircularKeeps ==
  ASSUME TypeOK, PlanInv, NEW c \in Name, CircularReference(c)
  PROVE  PlanInv'
<1>1. /\ pc' = "circular" /\ marked' = {} /\ stack' = <<>> /\ sorted' = <<>>
      /\ UNCHANGED <<containers, links, found, unvisited, stale, cursor>>
      /\ pc = "sort"
  BY DEF CircularReference, input
<1>2. Len(stack') = 0 /\ Len(sorted') = 0 /\ DOMAIN sorted' = {}
  BY <1>1
<1>3. Frames' = {}
  BY <1>2 DEF Frames
<1>4. Partition'
  BY <1>1, <1>2 DEF PlanInv, WalkInv, Partition, IsInjective
<1>5. OnStack' /\ Called' /\ Passed'
  BY <1>1, <1>3 DEF OnStack, Called, Passed
<1>6. SortedDependenciesFirst'
  BY <1>2 DEF SortedDependenciesFirst, DependenciesFirst
<1>7. Phases'
  BY <1>1 DEF PlanInv, Phases
<1>8. Settled'
  BY <1>1, <1>2 DEF PlanInv, Settled, listed
<1> QED
  BY <1>4, <1>5, <1>6, <1>7, <1>8 DEF PlanInv, WalkInv

LEMMA SkipKeeps ==
  ASSUME TypeOK, PlanInv, SkipLink
  PROVE  PlanInv'
<1> DEFINE n == Len(stack)
<1>1. n \in Nat \ {0} /\ Frames = 1 .. n
  BY EmptySeq DEF TypeOK, Frames, SkipLink
<1>2. UNCHANGED <<containers, links, found, unvisited, marked, sorted, stale, cursor, pc>>
      /\ pc = "sort"
  BY DEF SkipLink, input
<1>3. Frames' = 1 .. n /\ Len(stack') = n
  BY <1>1, AdvancedFrames DEF SkipLink, Frames
<1>4. ASSUME NEW k \in 1 .. n
      PROVE  /\ stack'[k].name = stack[k].name
             /\ stack'[k].next = IF k = n THEN stack[k].next + 1 ELSE stack[k].next
             /\ stack[k].next \in Nat /\ Len(links[stack[k].name]) \in Nat
  <2>1. stack'[k] = [name |-> stack[k].name,
                     next |-> IF k = n THEN stack[k].next + 1 ELSE stack[k].next]
    BY <1>1, AdvancedFrames DEF SkipLink
  <2>2. stack[k].next \in Nat /\ Len(links[stack[k].name]) \in Nat
    BY <1>1, Typed
  <2> HIDE DEF n
  <2> QED
    BY <2>1, <2>2
<1>5. /\ stack[n].next \in 1 .. Len(links[stack[n].name])
      /\ links[stack[n].name][stack[n].next] \notin ToSet(unvisited)
  <2>1. /\ Top.next <= Len(links[Top.name])
        /\ links[Top.name][Top.next] \notin ToSet(unvisited)
    BY DEF SkipLink, Callee, MoreLinks, NextLink
  <2>2. n \in Frames
    BY <1>1
  <2>3. stack[n].next \in Nat \ {0} /\ Len(links[stack[n].name]) \in Nat
    <3> HIDE DEF n
    <3> QED
      BY <2>2, Typed
  <2> QED
    BY <2>1, <2>3 DEF Top
<1>6. \/ links[stack[n].name][stack[n].next] \notin listed
      \/ links[stack[n].name][stack[n].next] \in ToSet(sorted)
  BY <1>2, <1>5 DEF PlanInv, WalkInv, Partition
<1> HIDE DEF n
<1>7. Partition' /\ SortedDependenciesFirst'
  BY <1>2 DEF PlanInv, WalkInv, Partition, SortedDependenciesFirst, listed
<1>8. OnStack'
  <2>1. OnStack
    BY DEF PlanInv, WalkInv
  <2>2. marked' = {stack'[k].name : k \in 1 .. n}
    BY <1>1, <1>2, <1>4, <2>1 DEF OnStack
  <2>3. \A k \in 1 .. n : stack'[k].name = stack[k].name
    BY <1>4
  <2>4. /\ \A k \in 1 .. n : stack[k].name \in ToSet(unvisited)
        /\ \A k, m \in 1 .. n : stack[k].name = stack[m].name => k = m
    BY <1>1, <2>1 DEF OnStack
  <2> QED
    BY <1>2, <1>3, <2>2, <2>3, <2>4 DEF OnStack
<1>9. Called'
  <2> SUFFICES ASSUME NEW k \in 1 .. n, k < n
               PROVE  /\ stack'[k].next - 1 \in 1 .. Len(links[stack'[k].name])
                      /\ links[stack'[k].name][stack'[k].next - 1] = stack'[k + 1].name
    BY <1>2, <1>3 DEF Called
  <2>1. /\ stack[k].next - 1 \in 1 .. Len(links[stack[k].name])
        /\ links[stack[k].name][stack[k].next - 1] = stack[k + 1].name
    BY <1>1 DEF PlanInv, WalkInv, Called, n
  <2>2. k + 1 \in 1 .. n
    BY <1>1
  <2>3. stack'[k + 1].name = stack[k + 1].name
    BY <2>2, <1>4
  <2>4. stack'[k].name = stack[k].name /\ stack'[k].next = stack[k].next
    BY <1>4
  <2> QED
    BY <2>1, <2>3, <2>4
<1>10. Passed'
  <2> SUFFICES ASSUME NEW k \in 1 .. n,
                      NEW i \in 1 .. Len(links[stack'[k].name]), i < stack'[k].next
               PROVE  \/ links[stack'[k].name][i] \notin listed
                      \/ links[stack'[k].name][i] \in ToSet(sorted)
                      \/ k < n /\ i = stack'[k].next - 1
    BY <1>2, <1>3 DEF Passed, listed
  <2>1. stack'[k].name = stack[k].name
    BY <1>4
  <2>2. i < stack[k].next =>
          \/ links[stack[k].name][i] \notin listed
          \/ links[stack[k].name][i] \in ToSet(sorted)
          \/ k < n /\ i = stack[k].next - 1
    BY <1>1, <2>1 DEF PlanInv, WalkInv, Passed, n
  <2>3. CASE k = n
    <3>1. i < stack[n].next \/ i = stack[n].next
      BY <2>3, <1>4
    <3> QED
      BY <2>1, <2>2, <2>3, <3>1, <1>6
  <2>4. CASE k # n
    BY <2>1, <2>2, <2>4, <1>4
  <2> QED
    BY <2>3, <2>4
<1>11. Phases' /\ Settled'
  BY <1>2 DEF PlanInv, Phases, Settled, listed
<1> QED
  BY <1>7, <1>8, <1>9, <1>10, <1>11 DEF PlanInv, WalkInv

(* A container is left only when all it links to is in order. *)
LEMMA LeaveDependencies ==
  ASSUME TypeOK, PlanInv, Leave
  PROVE  Deps(links, listed, Top.name) \subseteq ToSet(sorted)
<1> DEFINE n == Len(stack)
<1>1. n \in Frames /\ n = Len(stack)
  BY LeaveEffect
<1>2. Top.next \in Nat /\ Len(links[Top.name]) \in Nat /\ links[Top.name] \in Seq(Name)
  BY <1>1, Typed DEF Top
<1>3. \A i \in 1 .. Len(links[Top.name]) : i < Top.next
  BY <1>2 DEF Leave, MoreLinks
<1>4. ASSUME NEW i \in 1 .. Len(links[Top.name])
      PROVE  links[Top.name][i] \notin listed \/ links[Top.name][i] \in ToSet(sorted)
  <2>1. ~(n < Len(stack))
    BY <1>1, Typed
  <2> HIDE DEF n
  <2> QED
    BY <1>1, <1>3, <2>1 DEF PlanInv, WalkInv, Passed, Top
<1>5. DOMAIN links[Top.name] = 1 .. Len(links[Top.name])
  BY <1>2, LenProperties
<1> QED
  BY <1>4, <1>5 DEF Deps

LEMMA LeaveKeeps ==
  ASSUME TypeOK, PlanInv, Leave
  PROVE  PlanInv'
<1> DEFINE n == Len(stack)
           t == Top.name
<1>1. UNCHANGED <<containers, links, found, stale, cursor, pc>> /\ pc = "sort"
      /\ marked' = marked \ {t}
  BY DEF Leave, input
<1>2. /\ n \in Nat \ {0} /\ Frames = 1 .. n /\ Frames' = 1 .. n - 1
      /\ Len(stack') = n - 1
      /\ \A k \in 1 .. n - 1 : stack'[k] = stack[k]
  <2>1. n \in Nat /\ Frames = 1 .. n
    BY Typed DEF Frames
  <2> QED
    BY <2>1, LeaveEffect DEF Frames
<1>3. /\ unvisited' \in Seq(Name) /\ IsInjective(unvisited')
      /\ t \in ToSet(unvisited)
      /\ ToSet(unvisited') = ToSet(unvisited) \ {t}
      /\ ToSet(sorted') = ToSet(sorted) \cup {t}
  BY LeaveEffect
<1>4. /\ sorted \in Seq(Name) /\ sorted' \in Seq(Name)
      /\ Len(sorted) \in Nat /\ Len(sorted') = Len(sorted) + 1
      /\ DOMAIN sorted = 1 .. Len(sorted) /\ DOMAIN sorted' = 1 .. Len(sorted) + 1
      /\ \A i \in 1 .. Len(sorted) : sorted'[i] = sorted[i]
      /\ sorted'[Len(sorted) + 1] = t
  BY LeaveEffect, LenProperties DEF TypeOK
<1>5. t = stack[n].name
  BY DEF Top
<1> HIDE DEF n, t
<1>6. t \notin ToSet(sorted)
  BY <1>1, <1>3 DEF PlanInv, WalkInv, Partition
<1>7. Partition'
  <2>1. IsInjective(sorted')
    <3>1. \A i \in 1 .. Len(sorted) : sorted[i] # t
      BY <1>4, <1>6, InSequence
    <3>2. IsInjective(sorted)
      BY DEF PlanInv, WalkInv, Partition
    <3> QED
      BY <1>4, <3>1, <3>2 DEF IsInjective
  <2>2. /\ ToSet(unvisited') \cap ToSet(sorted') = {}
        /\ ToSet(unvisited') \cup ToSet(sorted') = listed
    BY <1>1, <1>3 DEF PlanInv, WalkInv, Partition
  <2> QED
    BY <1>1, <1>3, <2>1, <2>2 DEF Partition, listed
<1>8. OnStack'
  <2>1. OnStack
    BY DEF PlanInv, WalkInv
  <2>2. \A k \in 1 .. n - 1 : stack[k].name # t
    BY <1>2, <1>5, <2>1 DEF OnStack
  <2>3. marked' = {stack[k].name : k \in 1 .. n - 1}
    <3>1. marked = {stack[k].name : k \in 1 .. n}
      BY <1>2, <2>1 DEF OnStack
    <3>2. \A k \in 1 .. n : k \in 1 .. n - 1 \/ k = n
      BY <1>2
    <3>3. 1 .. n - 1 \subseteq 1 .. n
      BY <1>2
    <3> QED
      BY <1>1, <1>5, <2>2, <3>1, <3>2, <3>3
  <2>4. marked' = {stack'[k].name : k \in 1 .. n - 1}
    BY <1>2, <2>3
  <2>5. \A k \in 1 .. n - 1 : stack'[k].name \in ToSet(unvisited')
    BY <1>2, <1>3, <2>1, <2>2 DEF OnStack
  <2>6. \A k, m \in 1 .. n - 1 : stack'[k].name = stack'[m].name => k = m
    BY <1>2, <2>1 DEF OnStack
  <2> QED
    BY <1>2, <2>4, <2>5, <2>6 DEF OnStack
<1>9. Called'
  <2> SUFFICES ASSUME NEW k \in 1 .. n - 1, k < n - 1
               PROVE  /\ stack'[k].next - 1 \in 1 .. Len(links[stack'[k].name])
                      /\ links[stack'[k].name][stack'[k].next - 1] = stack'[k + 1].name
    BY <1>1, <1>2 DEF Called
  <2>1. k \in Frames /\ k < Len(stack) /\ k + 1 \in 1 .. n - 1
    BY <1>2 DEF n
  <2>2. /\ stack[k].next - 1 \in 1 .. Len(links[stack[k].name])
        /\ links[stack[k].name][stack[k].next - 1] = stack[k + 1].name
    BY <2>1 DEF PlanInv, WalkInv, Called
  <2>3. stack'[k] = stack[k] /\ stack'[k + 1] = stack[k + 1]
    BY <1>2, <2>1
  <2> QED
    BY <2>2, <2>3
<1>10. Passed'
  <2> SUFFICES ASSUME NEW k \in 1 .. n - 1,
                      NEW i \in 1 .. Len(links[stack[k].name]), i < stack[k].next
               PROVE  \/ links[stack[k].name][i] \notin listed
                      \/ links[stack[k].name][i] \in ToSet(sorted')
                      \/ k < n - 1 /\ i = stack[k].next - 1
    BY <1>1, <1>2 DEF Passed, listed
  <2>1. k \in Frames /\ k < Len(stack)
    BY <1>2 DEF n
  <2>2. \/ links[stack[k].name][i] \notin listed
        \/ links[stack[k].name][i] \in ToSet(sorted)
        \/ i = stack[k].next - 1
    BY <2>1 DEF PlanInv, WalkInv, Passed
  <2>3. links[stack[k].name][stack[k].next - 1] = stack[k + 1].name
    BY <2>1 DEF PlanInv, WalkInv, Called
  <2>4. k = n - 1 => links[stack[k].name][stack[k].next - 1] = t
    BY <1>2, <1>5, <2>3
  <2>5. k = n - 1 \/ k < n - 1
    BY <1>2
  <2> QED
    BY <1>3, <2>2, <2>4, <2>5
<1>11. SortedDependenciesFirst'
  <2> SUFFICES ASSUME NEW i \in 1 .. Len(sorted) + 1,
                      NEW d \in Deps(links, listed, sorted'[i])
               PROVE  \E j \in 1 .. (i - 1) : sorted'[j] = d
    BY <1>1, <1>4 DEF SortedDependenciesFirst, DependenciesFirst, listed
  <2>1. CASE i \in 1 .. Len(sorted)
    <3>1. PICK j \in 1 .. (i - 1) : sorted[j] = d
      BY <1>4, <2>1 DEF PlanInv, WalkInv, SortedDependenciesFirst, DependenciesFirst
    <3>2. j \in 1 .. Len(sorted)
      BY <1>4, <2>1
    <3> QED
      BY <1>4, <3>1, <3>2
  <2>2. CASE i = Len(sorted) + 1
    <3>1. d \in ToSet(sorted)
      BY <1>4, <2>2, LeaveDependencies DEF t
    <3>2. PICK j \in 1 .. Len(sorted) : sorted[j] = d
      BY <1>4, <3>1, InSequence
    <3>3. j \in 1 .. (i - 1) /\ sorted'[j] = d
      BY <1>4, <2>2, <3>2
    <3> QED
      BY <3>3
  <2> QED
    BY <1>4, <2>1, <2>2
<1>12. Phases'
  BY <1>1 DEF PlanInv, Phases
<1>13. Settled'
  <2>1. cursor = 1
    BY <1>1 DEF PlanInv, Phases
  <2>2. \A i \in 1 .. Len(sorted') : ~(i < cursor')
    BY <1>1, <1>4, <2>1
  <2> QED
    BY <1>1, <2>2 DEF PlanInv, Settled, listed
<1> QED
  BY <1>7, <1>8, <1>9, <1>10, <1>11, <1>12, <1>13 DEF PlanInv, WalkInv

LEMMA SortReturnsKeeps ==
  ASSUME TypeOK, PlanInv, SortReturns
  PROVE  PlanInv'
<1>1. /\ UNCHANGED <<containers, links, found, unvisited, marked, sorted, stack, stale, cursor>>
      /\ stack = <<>> /\ unvisited = <<>> /\ pc = "sort" /\ pc' = "check"
  BY DEF SortReturns, input, sorter
<1>2. WalkInv'
  BY <1>1 DEF PlanInv, WalkInv, Partition, OnStack, Called, Passed, Frames,
              SortedDependenciesFirst, listed
<1>3. Phases'
  BY <1>1 DEF PlanInv, Phases
<1>4. Settled'
  BY <1>1 DEF PlanInv, Settled, listed
<1> QED
  BY <1>2, <1>3, <1>4 DEF PlanInv

(* When the sort has returned, all that is listed is in order. *)
LEMMA AllSorted ==
  ASSUME TypeOK, PlanInv, pc \in {"check", "planned"}
  PROVE  ToSet(sorted) = listed
<1>1. unvisited = <<>>
  BY DEF PlanInv, Phases
<1>2. ToSet(unvisited) = {}
  BY <1>1, EmptySeq DEF ToSet
<1> QED
  BY <1>2 DEF PlanInv, WalkInv, Partition

LEMMA CheckDependenciesKeeps ==
  ASSUME TypeOK, PlanInv, CheckDependencies
  PROVE  PlanInv'
<1> DEFINE c == sorted[cursor]
           D(x) == Deps(links, listed, x)
<1>1. /\ UNCHANGED <<containers, links, found, unvisited, marked, sorted, stack, pc>>
      /\ pc = "check" /\ cursor' = cursor + 1
  BY DEF CheckDependencies, input, sorter
<1>2. cursor \in 1 .. Len(sorted) /\ Len(sorted) \in Nat /\ DOMAIN sorted = 1 .. Len(sorted)
  BY LenProperties DEF CheckDependencies, TypeOK
<1>3. ToSet(sorted) = listed
  BY <1>1, AllSorted
<1>4. c \in listed
  BY <1>2, <1>3, InSequence DEF TypeOK
<1>5. \/ D(c) \cap stale # {} /\ stale' = stale \cup {c}
      \/ D(c) \cap stale = {} /\ stale' = stale
  BY <1>3 DEF CheckDependencies
<1>6. WalkInv'
  BY <1>1 DEF PlanInv, WalkInv, Partition, OnStack, Called, Passed, Frames,
              SortedDependenciesFirst, listed
<1>7. Phases'
  BY <1>1 DEF PlanInv, Phases
<1>8. Settled
  BY DEF PlanInv
<1>9. found \subseteq stale' /\ stale' \subseteq listed
  BY <1>4, <1>5, <1>8 DEF Settled
<1>10. ASSUME NEW i \in 1 .. Len(sorted), i < cursor + 1, D(sorted[i]) \cap stale' # {}
       PROVE  sorted[i] \in stale'
  <2>1. CASE i = cursor
    BY <1>5, <1>10, <2>1
  <2>2. CASE i < cursor
    <3>1. PICK d \in D(sorted[i]) : d \in stale'
      BY <1>10
    <3>2. CASE d \in stale
      <4>1. sorted[i] \in stale
        BY <1>8, <2>2, <3>1, <3>2 DEF Settled
      <4> QED
        BY <1>5, <4>1
    <3>3. CASE d \notin stale
      <4>1. d = c
        BY <1>5, <3>1, <3>3
      <4>2. PICK j \in 1 .. (i - 1) : sorted[j] = d
        BY <1>2, <3>1 DEF PlanInv, WalkInv, SortedDependenciesFirst, DependenciesFirst
      <4>3. j \in 1 .. Len(sorted) /\ j # cursor
        BY <1>2, <2>2, <4>2
      <4> QED
        BY <1>2, <4>1, <4>2, <4>3 DEF PlanInv, WalkInv, Partition, IsInjective
    <3> QED
      BY <3>2, <3>3
  <2> QED
    BY <1>2, <1>10, <2>1, <2>2
<1>11. ASSUME NEW S \in SUBSET listed, found \subseteq S,
              ClosedUnderDependents(links, listed, S)
       PROVE  stale' \subseteq S
  <2>1. stale \subseteq S
    BY <1>8, <1>11 DEF Settled
  <2>2. D(c) \cap stale # {} => c \in S
    BY <1>4, <1>11, <2>1 DEF ClosedUnderDependents
  <2> QED
    BY <1>5, <2>1, <2>2
<1>12. Settled'
  BY <1>1, <1>9, <1>10, <1>11 DEF Settled, listed
<1> QED
  BY <1>6, <1>7, <1>12 DEF PlanInv

LEMMA CheckReturnsKeeps ==
  ASSUME TypeOK, PlanInv, CheckReturns
  PROVE  PlanInv'
<1>1. /\ UNCHANGED <<containers, links, found, unvisited, marked, sorted, stack, stale, cursor>>
      /\ pc = "check" /\ pc' = "planned" /\ cursor > Len(sorted)
  BY DEF CheckReturns, input, sorter
<1>2. WalkInv'
  BY <1>1 DEF PlanInv, WalkInv, Partition, OnStack, Called, Passed, Frames,
              SortedDependenciesFirst, listed
<1>3. Phases' /\ Settled'
  BY <1>1 DEF PlanInv, Phases, Settled, listed
<1> QED
  BY <1>2, <1>3 DEF PlanInv

LEMMA PlanInvStep == TypeOK /\ PlanInv /\ [Next]_vars => PlanInv'
<1> SUFFICES ASSUME TypeOK, PlanInv, [Next]_vars
             PROVE  PlanInv'
  OBVIOUS
<1>1. ASSUME NEW c \in Name, Visit(c)
      PROVE  PlanInv'
  BY <1>1, VisitKeeps
<1>2. ASSUME NEW c \in Name, CircularReference(c)
      PROVE  PlanInv'
  BY <1>2, CircularKeeps
<1>3. CASE SkipLink
  BY <1>3, SkipKeeps
<1>4. CASE Leave
  BY <1>4, LeaveKeeps
<1>5. CASE SortReturns
  BY <1>5, SortReturnsKeeps
<1>6. CASE CheckDependencies
  BY <1>6, CheckDependenciesKeeps
<1>7. CASE CheckReturns
  BY <1>7, CheckReturnsKeeps
<1>8. CASE UNCHANGED vars
  BY <1>8 DEF vars, input, sorter, PlanInv, WalkInv, Partition, OnStack, Called,
              Passed, Frames, SortedDependenciesFirst, Phases, Settled, listed
<1> QED
  BY <1>1, <1>2, <1>3, <1>4, <1>5, <1>6, <1>7, <1>8 DEF Next

LEMMA PlanInit == Init => TypeOK /\ PlanInv
<1> SUFFICES ASSUME Init
             PROVE  TypeOK /\ PlanInv
  OBVIOUS
<1>1. /\ containers \in Lists /\ containers \in Seq(Name) /\ IsInjective(containers)
      /\ links \in Links /\ found \subseteq listed
  BY ListsAssumption DEF Init, listed
<1>2. /\ unvisited = containers /\ marked = {} /\ sorted = <<>> /\ stack = <<>>
      /\ stale = found /\ cursor = 1 /\ pc = "sort"
  BY DEF Init
<1>3. listed \subseteq Name
  BY <1>1, LenProperties, ElementOfSeq DEF listed, ToSet
<1>4. TypeOK
  BY <1>1, <1>2, <1>3, EmptySeq DEF TypeOK
<1>5. Frames = {} /\ Len(sorted) = 0 /\ DOMAIN sorted = {} /\ ToSet(sorted) = {}
  BY <1>2, EmptySeq DEF Frames, ToSet
<1>6. Partition
  BY <1>1, <1>2, <1>5 DEF Partition, IsInjective, listed
<1>7. OnStack /\ Called /\ Passed
  BY <1>2, <1>5 DEF OnStack, Called, Passed
<1>8. SortedDependenciesFirst
  BY <1>5 DEF SortedDependenciesFirst, DependenciesFirst
<1>9. Phases
  BY <1>2 DEF Phases
<1>10. Settled
  BY <1>1, <1>2, <1>5 DEF Settled
<1> QED
  BY <1>4, <1>6, <1>7, <1>8, <1>9, <1>10 DEF PlanInv, WalkInv
--------------------------------------------------------------------------------
(* Types and the invariant of the walk hold throughout, for any names, any *)
(* lists without duplicates and any links.                                 *)
THEOREM PlanInvariant == Spec => [](TypeOK /\ PlanInv)
<1>1. TypeOK /\ PlanInv /\ [Next]_vars => (TypeOK /\ PlanInv)'
  BY TypeStep, PlanInvStep
<1> QED
  BY <1>1, PlanInit, PTL DEF Spec

(* Every field keeps its type; the inputs of the sort are never changed.   *)
THEOREM TypeCorrect == Spec => []TypeOK
BY PlanInvariant, PTL

(* The order built by the sort has every container after its dependencies, *)
(* at any time and whatever the links.                                     *)
THEOREM SortIsTopological == Spec => []SortedDependenciesFirst
<1>1. PlanInv => SortedDependenciesFirst
  BY DEF PlanInv, WalkInv
<1> QED
  BY <1>1, PlanInvariant, PTL

(* One pass of checkDependencies finds exactly the containers that depend  *)
(* on a stale one through any chain of links.                              *)
THEOREM OnePassSuffices == Spec => []PlanIsClosure
<1>1. TypeOK /\ PlanInv => PlanIsClosure
  <2> SUFFICES ASSUME TypeOK, PlanInv, pc = "planned"
               PROVE  stale = StaleClosure(links, listed, found)
    BY DEF PlanIsClosure
  <2>1. /\ found \subseteq stale /\ stale \subseteq listed
        /\ \A S \in SUBSET listed :
             found \subseteq S /\ ClosedUnderDependents(links, listed, S) =>
               stale \subseteq S
    BY DEF PlanInv, Settled
  <2>2. ClosedUnderDependents(links, listed, stale)
    <3> SUFFICES ASSUME NEW c \in listed, Deps(links, listed, c) \cap stale # {}
                 PROVE  c \in stale
      BY DEF ClosedUnderDependents
    <3>1. PICK i \in 1 .. Len(sorted) : sorted[i] = c
      BY AllSorted, InSequence DEF TypeOK
    <3>2. i < cursor
      <4>1. cursor > Len(sorted) /\ cursor \in Nat /\ Len(sorted) \in Nat
        BY LenProperties DEF PlanInv, Phases, TypeOK
      <4> QED
        BY <4>1
    <3> QED
      BY <3>1, <3>2 DEF PlanInv, Settled
  <2>3. ASSUME NEW c \in StaleClosure(links, listed, found)
        PROVE  c \in stale
    BY <2>1, <2>2 DEF StaleClosure
  <2>4. ASSUME NEW c \in stale
        PROVE  c \in StaleClosure(links, listed, found)
    <3>1. c \in listed
      BY <2>1
    <3>2. ASSUME NEW S \in SUBSET listed, found \subseteq S,
                 ClosedUnderDependents(links, listed, S)
          PROVE  c \in S
      BY <2>1, <3>2
    <3>3. \A S \in SUBSET listed :
            found \subseteq S /\ ClosedUnderDependents(links, listed, S) => c \in S
      BY <3>2
    <3> QED
      BY <3>1, <3>3 DEF StaleClosure
  <2> QED
    BY <2>3, <2>4
<1> QED
  BY <1>1, PlanInvariant, PTL

--------------------------------------------------------------------------------
(* The frames from that of c to the innermost are a circle of links when   *)
(* the innermost links to c.                                               *)
LEMMA MarkedMeansCycle ==
  ASSUME TypeOK, PlanInv, NEW c \in Callee \cap marked
  PROVE  HasCycle(links, listed)
<1> DEFINE n == Len(stack)
<1>1. n \in Nat /\ Frames = 1 .. n
  BY Typed DEF Frames
<1>2. PICK m \in 1 .. n : stack[m].name = c
  BY <1>1 DEF PlanInv, WalkInv, OnStack
<1>3. stack # <<>>
  BY <1>2, EmptySeq
<1>4. /\ n \in 1 .. n
      /\ stack[n].next \in 1 .. Len(links[stack[n].name])
      /\ links[stack[n].name][stack[n].next] = c
  BY <1>1, <1>3, CalleeIsNext DEF Top
<1> DEFINE part == {stack[k].name : k \in m .. n}
<1>5. part # {} /\ part \subseteq listed
  <2>1. m \in m .. n
    BY <1>1
  <2>2. m .. n \subseteq Frames
    BY <1>1
  <2>3. \A k \in Frames : stack[k].name \in ToSet(unvisited)
    BY DEF PlanInv, WalkInv, OnStack
  <2>4. ToSet(unvisited) \subseteq listed
    <3>1. pc # "circular"
      BY <1>3 DEF PlanInv, Phases
    <3> QED
      BY <3>1 DEF PlanInv, WalkInv, Partition
  <2> QED
    BY <2>1, <2>2, <2>3, <2>4
<1>6. ASSUME NEW k \in m .. n
      PROVE  \E i \in 1 .. Len(links[stack[k].name]) : links[stack[k].name][i] \in part
  <2>1. CASE k = n
    <3>1. c \in part
      BY <1>1, <1>2
    <3> QED
      BY <2>1, <1>4, <3>1
  <2>2. CASE k # n
    <3>1. k \in Frames /\ k < n /\ k + 1 \in m .. n
      BY <2>2, <1>1
    <3>2. stack[k + 1].name \in part
      BY <3>1
    <3>3. /\ stack[k].next - 1 \in 1 .. Len(links[stack[k].name])
          /\ links[stack[k].name][stack[k].next - 1] = stack[k + 1].name
      BY <3>1 DEF PlanInv, WalkInv, Called
    <3> QED
      BY <3>2, <3>3
  <2> QED
    BY <2>1, <2>2
<1>7. ASSUME NEW k \in m .. n
      PROVE  Deps(links, part, stack[k].name) # {}
  <2>1. k \in Frames
    BY <1>1
  <2>2. DOMAIN links[stack[k].name] = 1 .. Len(links[stack[k].name])
    BY <2>1, Typed, LenProperties
  <2> HIDE DEF part
  <2> QED
    BY <1>6, <2>2 DEF Deps
<1>8. \A d \in part : Deps(links, part, d) # {}
  BY <1>7
<1> HIDE DEF part
<1> QED
  BY <1>5, <1>8 DEF HasCycle

(* The operators of the abstract specification are those of LinkGraph. *)
LEMMA SameGraph ==
  /\ \A l, S, c : Topological!Deps(l, S, c) = Deps(l, S, c)
  /\ \A l, S : Topological!HasCycle(l, S) = HasCycle(l, S)
  /\ \A q : Topological!ToSet(q) = ToSet(q)
BY DEF Topological!Deps, Deps, Topological!HasCycle, HasCycle, Topological!ToSet, ToSet

(* Every step of the walk is a step of the abstract order or changes       *)
(* nothing of it: leaving a visit emits a container, the circular          *)
(* reference refuses, the return of Sort succeeds.                         *)
LEMMA TopologicalStep ==
  TypeOK /\ PlanInv /\ [Next]_vars => [Topological!Next]_(Topological!vars)
<1> SUFFICES ASSUME TypeOK, PlanInv, [Next]_vars
             PROVE  [Topological!Next]_(Topological!vars)
  OBVIOUS
<1>1. ASSUME NEW c \in Name, Visit(c)
      PROVE  UNCHANGED Topological!vars
  BY <1>1 DEF Visit, input, listed, Topological!vars
<1>2. ASSUME NEW c \in Name, CircularReference(c)
      PROVE  Topological!Refuse
  BY <1>2, MarkedMeansCycle, SameGraph DEF CircularReference, input, listed, Topological!Refuse
<1>3. CASE SkipLink
  BY <1>3 DEF SkipLink, input, listed, Topological!vars
<1>4. CASE Leave
  <2>1. Top.name \in listed \ ToSet(sorted)
    BY <1>4, LeaveEffect DEF Leave, PlanInv, WalkInv, Partition
  <2>2. Topological!Emit(Top.name)
    BY <1>4, <2>1, LeaveDependencies, SameGraph DEF Leave, input, listed, Topological!Emit
  <2> QED
    BY <2>1, <2>2 DEF Topological!Next
<1>5. CASE SortReturns
  <2>1. ToSet(unvisited) = {}
    BY <1>5, EmptySeq DEF SortReturns, ToSet
  <2>2. ToSet(sorted) = listed
    BY <1>5, <2>1 DEF SortReturns, PlanInv, WalkInv, Partition
  <2>3. Topological!Succeed
    BY <1>5, <2>2, SameGraph DEF SortReturns, input, sorter, listed, Topological!Succeed
  <2> QED
    BY <2>3 DEF Topological!Next
<1>6. CASE CheckDependencies
  BY <1>6 DEF CheckDependencies, input, sorter, listed, Topological!vars
<1>7. CASE CheckReturns
  BY <1>7 DEF CheckReturns, input, sorter, listed, Topological!vars
<1>8. CASE UNCHANGED vars
  BY <1>8 DEF vars, input, sorter, listed, Topological!vars
<1> QED
  BY <1>1, <1>2, <1>3, <1>4, <1>5, <1>6, <1>7, <1>8 DEF Next, Topological!Next

(* The walk of sort.go implements the abstract topological order: each     *)
(* container is emitted once and after its dependencies, the sort succeeds *)
(* only with all of them, and reports a circular reference only if the     *)
(* links have a cycle.                                                     *)
THEOREM WalkImplementsOrder == Spec => ImplementsTopologicalOrder
<1>1. Init => Topological!Init
  BY DEF Init, Topological!Init
<1> QED
  BY <1>1, TopologicalStep, PlanInvariant, PTL
     DEF Spec, ImplementsTopologicalOrder, Topological!Spec
================================================================================
