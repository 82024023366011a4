------------------------ MODULE ConfirmLimiterProofs ------------------------
(***************************************************************************)
(* Proofs about ConfirmLimiter, for every set of tokens, keys and slots,   *)
(* all limits and windows of any length.                                   *)
(***************************************************************************)
EXTENDS ConfirmLimiter, TLAPS

-----------------------------------------------------------------------------
(***************************************************************************)
(* Lemmas on the operators.                                                *)
(***************************************************************************)

\* A call that counts is at a counter.
LEMMA AtIsCounter ==
  ASSUME TypeOK, NEW p \in Procs, Counting(p)
  PROVE  At(p) \in Counters
BY DEF TypeOK, Calls, Counting, At, Counters

\* The limits are numbers below MaxCount.
LEMMA LimitType ==
  ASSUME NEW c \in Counters
  PROVE  Limit(c) \in Nat /\ Limit(c) < MaxCount
BY LimitsAssumption, MaxCountAssumption DEF Limit

\* A history count stays one.
LEMMA CappedType ==
  ASSUME NEW n \in Nat
  PROVE  Capped(n) \in Nat /\ Capped(n) <= n + 1
BY MaxCountAssumption DEF Capped

\* What answering, going on to the next counter and retrying make of a call.
LEMMA CallTypes ==
  ASSUME TypeOK, NEW p \in Procs, NEW status \in Statuses
  PROVE  /\ Answer(p, status) \in [Procs -> Calls]
         /\ Advance(p) \in [Procs -> Calls]
         /\ [call EXCEPT ![p].tries = 1] \in [Procs -> Calls]
<1>1. "done" \in Steps /\ "key" \in Steps /\ "lookup" \in Steps
  BY DEF Steps
<1>2. call \in [Procs -> Calls] /\ call[p] \in Calls
  BY DEF TypeOK
<1>3. [call[p] EXCEPT !.pc = "done", !.tries = 0, !.status = status] \in Calls
  BY <1>1, <1>2 DEF Calls
<1>4. \A pc \in Steps : [call[p] EXCEPT !.pc = pc, !.tries = 0] \in Calls
  BY <1>2 DEF Calls
<1>5. [call[p] EXCEPT !.tries = 1] \in Calls
  BY <1>2 DEF Calls
<1>6. \A next \in Calls : [call EXCEPT ![p] = next] \in [Procs -> Calls]
  BY <1>2
<1>7. Answer(p, status) \in [Procs -> Calls]
  BY <1>3, <1>6 DEF Answer
<1>8. Advance(p) \in [Procs -> Calls]
  BY <1>1, <1>4, <1>6 DEF Advance
<1>9. [call EXCEPT ![p].tries = 1] \in [Procs -> Calls]
  BY <1>5, <1>6
<1> QED
  BY <1>7, <1>8, <1>9

-----------------------------------------------------------------------------
(***************************************************************************)
(* The inductive invariant: a counter that counts, and no other, has time  *)
(* left; and what it let through it has also counted.                      *)
(***************************************************************************)

Lives(c) == counter[c].n > 0 <=> counter[c].ttl > 0

Covers(c) == passed[c] <= counter[c].n /\ passed[c] <= Limit(c)

IInv == TypeOK /\ \A c \in Counters : Lives(c) /\ Covers(c)

\* One hit keeps a counter typed, counts up unless the count is held at
\* MaxCount, and sets the time only when it is the first.
LEMMA CountEffect ==
  ASSUME TypeOK, NEW c \in Counters, Lives(c), NEW n, count_in_window(c, n)
  PROVE  /\ counter' \in [Counters -> [n : 0..MaxCount, ttl : 0..Window]]
         /\ \A d \in Counters \ {c} : counter'[d] = counter[d]
         /\ counter'[c].n = n /\ n \in 1..MaxCount
         /\ n >= counter[c].n
         /\ n < MaxCount => n = counter[c].n + 1
         /\ counter[c].n = 0 => counter'[c].ttl = Window
         /\ counter[c].n > 0 => counter'[c].ttl = counter[c].ttl
<1>1. /\ counter[c] \in [n : 0..MaxCount, ttl : 0..Window]
      /\ counter[c].n \in 0..MaxCount /\ counter[c].ttl \in 0..Window
  BY DEF TypeOK
<1>2. /\ n \in 1..MaxCount
      /\ n >= counter[c].n
      /\ n < MaxCount => n = counter[c].n + 1
      /\ n = 1 <=> counter[c].n = 0
  BY <1>1, MaxCountAssumption DEF count_in_window
<1> DEFINE next == [n |-> n, ttl |-> IF n = 1 THEN Window ELSE counter[c].ttl]
<1>3. counter' = [counter EXCEPT ![c] = next]
  BY <1>1 DEF count_in_window, TypeOK
<1>4. next \in [n : 0..MaxCount, ttl : 0..Window]
  BY <1>1, <1>2, WindowAssumption
<1>5. /\ counter' \in [Counters -> [n : 0..MaxCount, ttl : 0..Window]]
      /\ \A d \in Counters \ {c} : counter'[d] = counter[d]
      /\ counter'[c] = next
  BY <1>3, <1>4 DEF TypeOK
<1> QED
  BY <1>1, <1>2, <1>5

\* What a step may do to the counters: hit one, on behalf of a call that
\* counts, or let time pass.  The history follows: only a hit within the limit
\* lets a call through.
LEMMA StepIsHitOrTick ==
  ASSUME IInv, [Next]_vars
  PROVE  \/ UNCHANGED <<counter, passed>>
         \/ \E c \in Counters, n \in 1..MaxCount :
              /\ count_in_window(c, n)
              /\ \/ UNCHANGED passed
                 \/ /\ n <= Limit(c)
                    /\ passed' = [passed EXCEPT ![c] = Capped(@)]
         \/ Tick
<1>1. ASSUME NEW p \in Procs, Hit(p)
      PROVE  \E c \in Counters, n \in 1..MaxCount :
               /\ count_in_window(c, n)
               /\ \/ UNCHANGED passed
                  \/ /\ n <= Limit(c)
                     /\ passed' = [passed EXCEPT ![c] = Capped(@)]
  BY <1>1, AtIsCounter DEF Hit, IInv
<1>2. ASSUME NEW p \in Procs, DropCount(p) \/ FailCount(p)
      PROVE  /\ UNCHANGED passed
             /\ \/ UNCHANGED counter
                \/ \E c \in Counters, n \in 1..MaxCount : count_in_window(c, n)
  BY <1>2, AtIsCounter DEF DropCount, FailCount, IInv
<1>3. ASSUME NEW p \in Procs,
             Lookup(p) \/ \E t \in ConfirmTokens, k \in Keys : Receive(p, t, k)
      PROVE  UNCHANGED <<counter, passed>>
  BY <1>3 DEF Lookup, Receive
<1>4. CASE UNCHANGED vars
  BY <1>4 DEF vars
<1> QED
  BY <1>1, <1>2, <1>3, <1>4 DEF Next

\* Time takes one tick from a counter, or all of it.
LEMMA TickEffect ==
  ASSUME IInv, Tick, NEW c \in Counters
  PROVE  \/ counter'[c] = Absent /\ passed'[c] = 0
         \/ /\ counter[c].ttl > 1
            /\ counter'[c] = [n |-> counter[c].n, ttl |-> counter[c].ttl - 1]
            /\ passed'[c] = passed[c]
<1>1. /\ counter[c] \in [n : 0..MaxCount, ttl : 0..Window]
      /\ counter[c].n \in 0..MaxCount /\ counter[c].ttl \in 0..Window
      /\ passed[c] \in Nat
  BY DEF IInv, TypeOK
<1>2. CASE counter[c].ttl = 1
  BY <1>2 DEF Tick
<1>3. CASE counter[c].ttl = 0
  <2>1. counter[c].n = 0 /\ passed[c] = 0
    BY <1>1, <1>3 DEF IInv, Lives, Covers
  <2>2. counter[c] = Absent
    BY <1>1, <1>3, <2>1 DEF Absent
  <2>3. counter'[c] = [counter[c] EXCEPT !.ttl = 0] /\ passed'[c] = passed[c]
    BY <1>3 DEF Tick
  <2> QED
    BY <2>1, <2>2, <2>3 DEF Absent
<1>4. CASE counter[c].ttl > 1
  BY <1>1, <1>4, WindowAssumption DEF Tick
<1> QED
  BY <1>1, <1>2, <1>3, <1>4, WindowAssumption

\* Every step keeps the invariant's types.
LEMMA NextKeepsType ==
  ASSUME IInv, [Next]_vars
  PROVE  TypeOK'
<1> USE DEF IInv
<1>1. SUFFICES ASSUME Next PROVE TypeOK'
  BY DEF TypeOK, vars
<1>2. counter' \in [Counters -> [n : 0..MaxCount, ttl : 0..Window]]
  <2>1. CASE Tick
    <3>1. ASSUME NEW c \in Counters
          PROVE  counter'[c] \in [n : 0..MaxCount, ttl : 0..Window]
      <4>1. counter[c].n \in 0..MaxCount /\ counter[c].ttl \in 0..Window
        BY DEF TypeOK
      <4>2. CASE counter'[c] = Absent
        BY <4>2, WindowAssumption, MaxCountAssumption DEF Absent
      <4>3. CASE /\ counter[c].ttl > 1
                 /\ counter'[c] = [n |-> counter[c].n, ttl |-> counter[c].ttl - 1]
        <5>1. counter[c].ttl - 1 \in 0..Window
          BY <4>1, <4>3, WindowAssumption
        <5> QED
          BY <4>1, <4>3, <5>1
      <4> QED
        BY <2>1, <4>2, <4>3, TickEffect
    <3> QED
      BY <2>1, <3>1 DEF Tick
  <2>2. CASE UNCHANGED <<counter, passed>>
    BY <2>2 DEF TypeOK
  <2>3. CASE \E c \in Counters, n \in 1..MaxCount : count_in_window(c, n)
    BY <2>3, CountEffect
  <2> QED
    BY <2>1, <2>2, <2>3, StepIsHitOrTick
<1>3. passed' \in [Counters -> Nat]
  <2>1. CASE Tick
    BY <2>1 DEF Tick, TypeOK
  <2>2. CASE UNCHANGED passed
    BY <2>2 DEF TypeOK
  <2>3. CASE \E c \in Counters : passed' = [passed EXCEPT ![c] = Capped(@)]
    BY <2>3, CappedType DEF TypeOK
  <2> QED
    BY <2>1, <2>2, <2>3, StepIsHitOrTick
<1>4. arrived' \in [Counters -> Nat]
  <2>1. CASE Tick
    BY <2>1 DEF Tick, TypeOK
  <2>2. CASE UNCHANGED arrived
    BY <2>2 DEF TypeOK
  <2>3. ASSUME NEW p \in Procs, Counting(p), Arrive(p)
        PROVE  arrived' \in [Counters -> Nat]
    BY <2>3, AtIsCounter, CappedType DEF Arrive, TypeOK
  <2> QED
    BY <1>1, <2>1, <2>2, <2>3 DEF Next, Hit, DropCount, FailCount, Lookup, Receive
<1>5. call' \in [Procs -> Calls]
  <2>1. CASE Tick
    BY <2>1 DEF Tick, TypeOK
  <2>2. ASSUME NEW p \in Procs, NEW t \in ConfirmTokens, NEW k \in Keys,
               Receive(p, t, k)
        PROVE  call' \in [Procs -> Calls]
    <3>1. [pc |-> "token", token |-> t, key |-> k, tries |-> 0, status |-> 0]
            \in Calls
      BY DEF Calls, Steps, Statuses
    <3> QED
      BY <2>2, <3>1 DEF Receive, TypeOK
  <2>3. ASSUME NEW p \in Procs,
               Hit(p) \/ DropCount(p) \/ FailCount(p) \/ Lookup(p)
        PROVE  call' \in [Procs -> Calls]
    <3>1. \/ \E status \in {200, 429, 500} : call' = Answer(p, status)
          \/ call' = Advance(p)
          \/ call' = [call EXCEPT ![p].tries = 1]
      BY <2>3 DEF Hit, DropCount, FailCount, Lookup
    <3>2. 0 \in Statuses /\ 200 \in Statuses /\ 429 \in Statuses /\ 500 \in Statuses
      BY DEF Statuses
    <3>3. \A status \in Statuses : /\ Answer(p, status) \in [Procs -> Calls]
                                   /\ Advance(p) \in [Procs -> Calls]
                                   /\ [call EXCEPT ![p].tries = 1] \in [Procs -> Calls]
      BY CallTypes
    <3> QED
      BY <3>1, <3>2, <3>3
  <2> QED
    BY <1>1, <2>1, <2>2, <2>3 DEF Next
<1> QED
  BY <1>2, <1>3, <1>4, <1>5 DEF TypeOK

\* The limit is met with equality at most: a hit that lets a call through has
\* a number that no call let through before had.
LEMMA NextKeepsInvariant ==
  ASSUME IInv, [Next]_vars
  PROVE  IInv'
<1>1. TypeOK'
  BY NextKeepsType
<1>2. ASSUME NEW d \in Counters PROVE (Lives(d) /\ Covers(d))'
  <2>1. /\ counter[d].n \in 0..MaxCount /\ counter[d].ttl \in 0..Window
        /\ passed[d] \in Nat /\ Lives(d) /\ Covers(d)
    BY DEF IInv, TypeOK
  <2>2. CASE UNCHANGED <<counter, passed>>
    BY <2>1, <2>2 DEF Lives, Covers
  <2>3. CASE Tick
    <3>1. CASE counter'[d] = Absent /\ passed'[d] = 0
      BY <3>1, LimitType DEF Absent, Lives, Covers
    <3>2. CASE /\ counter[d].ttl > 1
               /\ counter'[d] = [n |-> counter[d].n, ttl |-> counter[d].ttl - 1]
               /\ passed'[d] = passed[d]
      BY <2>1, <3>2 DEF Lives, Covers
    <3> QED
      BY <2>3, <3>1, <3>2, TickEffect
  <2>4. ASSUME NEW c \in Counters, NEW n \in 1..MaxCount, count_in_window(c, n),
               \/ UNCHANGED passed
               \/ /\ n <= Limit(c)
                  /\ passed' = [passed EXCEPT ![c] = Capped(@)]
        PROVE  (Lives(d) /\ Covers(d))'
    <3>1. passed \in [Counters -> Nat] /\ Lives(c)
      BY DEF IInv, TypeOK
    <3>2. CASE d # c
      BY <2>1, <2>4, <3>1, <3>2, CountEffect DEF IInv, Lives, Covers
    <3>3. CASE d = c
      <4>1. /\ counter'[d].n = n
            /\ n >= counter[d].n
            /\ n < MaxCount => n = counter[d].n + 1
            /\ counter[d].n = 0 => counter'[d].ttl = Window
            /\ counter[d].n > 0 => counter'[d].ttl = counter[d].ttl
        BY <2>4, <3>1, <3>3, CountEffect DEF IInv
      <4>2. Lives(d)'
        BY <2>1, <4>1, WindowAssumption DEF Lives
      <4>3. CASE UNCHANGED passed
        BY <2>1, <4>1, <4>2, <4>3, LimitType DEF Covers
      <4>4. CASE n <= Limit(c) /\ passed' = [passed EXCEPT ![c] = Capped(@)]
        <5>1. n = counter[d].n + 1 /\ passed'[d] = Capped(passed[d])
          BY <3>1, <3>3, <4>1, <4>4, LimitType, MaxCountAssumption
        <5>2. Capped(passed[d]) \in Nat /\ Capped(passed[d]) <= passed[d] + 1
          BY <2>1, CappedType
        <5> QED
          BY <2>1, <3>3, <4>1, <4>2, <4>4, <5>1, <5>2, LimitType DEF Covers
      <4> QED
        BY <2>4, <4>3, <4>4, <4>2
    <3> QED
      BY <3>2, <3>3
  <2> QED
    BY <2>2, <2>3, <2>4, StepIsHitOrTick
<1> QED
  BY <1>1, <1>2 DEF IInv

\* The invariant holds in every reachable state.
LEMMA Invariance == Spec => []IInv
<1>1. Init => IInv
  <2> SUFFICES ASSUME Init PROVE IInv
    OBVIOUS
  <2>1. Absent \in [n : 0..MaxCount, ttl : 0..Window]
    BY WindowAssumption, MaxCountAssumption DEF Absent
  <2>2. \A t \in ConfirmTokens, k \in Keys :
          [pc |-> "done", token |-> t, key |-> k, tries |-> 0, status |-> 0] \in Calls
    BY DEF Calls, Steps, Statuses
  <2>3. TypeOK
    BY <2>1, <2>2 DEF Init, TypeOK
  <2>4. \A c \in Counters : Lives(c) /\ Covers(c)
    BY LimitType DEF Init, Lives, Covers, Absent
  <2> QED
    BY <2>3, <2>4 DEF IInv
<1>2. IInv /\ [Next]_vars => IInv'
  BY NextKeepsInvariant
<1> QED
  BY <1>1, <1>2, PTL DEF Spec

-----------------------------------------------------------------------------

\* Every reachable state is well typed.
THEOREM TypeCorrect == Spec => []TypeOK
<1>1. IInv => TypeOK
  BY DEF IInv
<1> QED
  BY <1>1, Invariance, PTL

\* In no window does a counter let more calls through than its limit.
THEOREM LimitIsKept == Spec => []LimitHolds
<1>1. IInv => LimitHolds
  BY DEF IInv, Covers, LimitHolds
<1> QED
  BY <1>1, Invariance, PTL

\* A window that has begun has time left, of which a tick takes one and nothing
\* else takes any, and keeps its count until the last tick.
THEOREM WindowsShrink == Spec => WindowsOnlyShrink
<1> DEFINE Shrinks == \A c \in Counters :
       counter[c].n > 0 =>
         /\ counter[c].ttl > 0
         /\ \/ /\ Tick
               /\ counter'[c] = IF counter[c].ttl = 1 THEN Absent
                                ELSE [counter[c] EXCEPT !.ttl = counter[c].ttl - 1]
            \/ /\ ~Tick
               /\ counter'[c].ttl = counter[c].ttl
               /\ counter'[c].n >= counter[c].n
<1>1. IInv /\ [Next]_vars => [Shrinks]_vars
  <2> SUFFICES ASSUME IInv, [Next]_vars, NEW d \in Counters, counter[d].n > 0
               PROVE  /\ counter[d].ttl > 0
                      /\ \/ /\ Tick
                            /\ counter'[d] = IF counter[d].ttl = 1 THEN Absent
                                             ELSE [counter[d] EXCEPT !.ttl = counter[d].ttl - 1]
                         \/ /\ ~Tick
                            /\ counter'[d].ttl = counter[d].ttl
                            /\ counter'[d].n >= counter[d].n
    OBVIOUS
  <2>1. /\ counter[d].n \in 0..MaxCount /\ counter[d].ttl \in 0..Window
        /\ Lives(d)
    BY DEF IInv, TypeOK
  <2>2. counter[d].ttl > 0
    BY <2>1 DEF Lives
  <2>3. CASE Tick
    <3>1. counter[d].ttl = 1 => counter'[d] = Absent
      BY <2>3 DEF Tick
    <3>2. ASSUME counter[d].ttl # 1
          PROVE  counter'[d] = [counter[d] EXCEPT !.ttl = counter[d].ttl - 1]
      <4>1. counter[d].ttl # 0
        BY <2>1, <2>2
      <4>2. counter'[d] = [counter[d] EXCEPT !.ttl = counter[d].ttl - 1]
        BY <2>3, <3>2, <4>1 DEF Tick
      <4> QED
        BY <4>2
    <3>3. counter'[d] = IF counter[d].ttl = 1 THEN Absent
                        ELSE [counter[d] EXCEPT !.ttl = counter[d].ttl - 1]
      BY <3>1, <3>2
    <3> QED
      BY <2>2, <2>3, <3>3
  <2>4. CASE ~Tick
    <3>1. counter'[d].ttl = counter[d].ttl /\ counter'[d].n >= counter[d].n
      <4>1. CASE UNCHANGED <<counter, passed>>
        BY <2>1, <4>1
      <4>2. ASSUME NEW c \in Counters, NEW n \in 1..MaxCount, count_in_window(c, n)
            PROVE  counter'[d].ttl = counter[d].ttl /\ counter'[d].n >= counter[d].n
        <5>1. Lives(c) /\ TypeOK
          BY DEF IInv
        <5>2. CASE d # c
          BY <2>1, <4>2, <5>1, <5>2, CountEffect
        <5>3. CASE d = c
          BY <2>1, <4>2, <5>1, <5>3, CountEffect
        <5> QED
          BY <5>2, <5>3
      <4> QED
        BY <2>4, <4>1, <4>2, StepIsHitOrTick
    <3> QED
      BY <2>2, <2>4, <3>1
  <2> QED
    BY <2>3, <2>4
<1> QED
  BY <1>1, Invariance, PTL DEF Spec, WindowsOnlyShrink
=============================================================================
