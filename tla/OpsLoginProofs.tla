--------------------------- MODULE OpsLoginProofs ---------------------------
(***************************************************************************)
(* Proofs about OpsLogin, for every set of browsers, users and logins, and *)
(* all values of the two periods.                                          *)
(***************************************************************************)
EXTENDS OpsLogin, TLAPS

\* A stored login that a cleanup has just left has an age below TTL; until the
\* next cleanup it grows only as the time to that cleanup shrinks.
AgesBounded ==
  \A i \in Logins : Stored(i) => pending_auth[i] + wait <= TTL - 1 + Interval

IInv == TypeOK /\ AgesBounded

\* An age is no Nil, and one more is an age as long as the cleanup is not due.
LEMMA AgeType ==
  ASSUME IInv, NEW i \in Logins, Stored(i)
  PROVE  /\ pending_auth[i] \in Nat /\ pending_auth[i] \in Ages
         /\ wait > 0 => pending_auth[i] + 1 \in Ages
<1>1. /\ pending_auth[i] \in Ages /\ wait \in 0..Interval
      /\ pending_auth[i] + wait <= TTL - 1 + Interval
  BY DEF IInv, TypeOK, AgesBounded, Stored
<1> QED
  BY <1>1, TTLAssumption, IntervalAssumption DEF Ages

\* A stored login's age differs from an absent login.
LEMMA NoAgeIsNil == \A n \in Int : n # Nil
BY NilAssumption

-----------------------------------------------------------------------------

\* Every step keeps the types and the bound on the ages.
LEMMA NextKeepsInvariant ==
  ASSUME IInv, [Next]_vars
  PROVE  IInv'
<1> USE TTLAssumption, IntervalAssumption DEF IInv, TypeOK
<1>1. CASE UNCHANGED vars
  BY <1>1 DEF vars, browser, AgesBounded, Stored
<1>2. ASSUME NEW b \in Browsers, ops_oauth_login(b) PROVE IInv'
  <2>1. PICK i \in Logins :
          /\ pending_auth' = [pending_auth EXCEPT ![i] = 0]
          /\ csrf_id' = [csrf_id EXCEPT ![b] = i]
    BY <1>2 DEF ops_oauth_login
  <2>2. TypeOK'
    BY <1>2, <2>1 DEF ops_oauth_login, Ages
  <2>3. AgesBounded'
    BY <1>2, <2>1 DEF ops_oauth_login, AgesBounded, Stored
  <2> QED
    BY <2>2, <2>3
<1>3. ASSUME NEW b \in Browsers, NEW i \in Logins, ops_oauth_callback(b, i)
      PROVE  IInv'
  <2>1. TypeOK'
    BY <1>3 DEF ops_oauth_callback, browser
  <2>2. AgesBounded'
    BY <1>3 DEF ops_oauth_callback, AgesBounded, Stored
  <2> QED
    BY <2>1, <2>2
<1>4. ASSUME NEW b \in Browsers, NEW i \in Logins, FinishCallback(b, i)
      PROVE  IInv'
  BY <1>4, MembersAssumption DEF FinishCallback, AgesBounded, Stored
<1>5. ASSUME NEW b \in Browsers, ops_logout(b) PROVE IInv'
  BY <1>5 DEF ops_logout, AgesBounded, Stored
<1>6. CASE Tick
  <2>1. \A i \in Logins : pending_auth'[i] = IF Stored(i) THEN pending_auth[i] + 1
                                                        ELSE Nil
    BY <1>6 DEF Tick
  <2>2. \A i \in Logins : pending_auth'[i] \in Ages \cup {Nil}
    BY <1>6, <2>1, AgeType DEF Tick
  <2>3. TypeOK'
    BY <1>6, <2>2 DEF Tick, browser
  <2>4. AgesBounded'
    BY <1>6, <2>1, AgeType DEF Tick, AgesBounded, Stored
  <2> QED
    BY <2>3, <2>4
<1>7. CASE Cleanup
  <2>1. \A i \in Logins :
          pending_auth'[i] = IF Stored(i) /\ pending_auth[i] < TTL
                               THEN pending_auth[i] ELSE Nil
    BY <1>7 DEF Cleanup
  <2>2. TypeOK'
    BY <1>7, <2>1 DEF Cleanup, browser
  <2>3. AgesBounded'
    BY <1>7, <2>1, AgeType DEF Cleanup, AgesBounded, Stored
  <2> QED
    BY <2>2, <2>3
<1>8. CASE Restart
  BY <1>8 DEF Restart, browser, AgesBounded, Stored
<1> QED
  BY <1>1, <1>2, <1>3, <1>4, <1>5, <1>6, <1>7, <1>8 DEF Next

\* The invariant holds in every reachable state.
LEMMA Invariance == Spec => []IInv
<1>1. Init => IInv
  BY IntervalAssumption DEF Init, IInv, TypeOK, AgesBounded, Stored
<1>2. IInv /\ [Next]_vars => IInv'
  BY NextKeepsInvariant
<1> QED
  BY <1>1, <1>2, PTL DEF Spec

\* Every reachable state is well typed; in particular no login ever grows older
\* than one period of the cleanup past TTL.
THEOREM TypeCorrect == Spec => []TypeOK
<1>1. IInv => TypeOK
  BY DEF IInv
<1> QED
  BY <1>1, Invariance, PTL

-----------------------------------------------------------------------------

\* A login that is exchanged has been taken out, so no second callback finds
\* it, and a login that is started anew is one that nobody exchanges.
THEOREM OneExchangePerLogin == Spec => []ExchangedOnce
<1>1. Init => ExchangedOnce
  BY DEF Init, ExchangedOnce
<1>2. TypeOK /\ ExchangedOnce /\ [Next]_vars => ExchangedOnce'
  <2> SUFFICES ASSUME TypeOK, ExchangedOnce, [Next]_vars PROVE ExchangedOnce'
    OBVIOUS
  <2> USE DEF TypeOK, ExchangedOnce, Stored
  <2>1. CASE UNCHANGED <<pending_auth, exchanging>>
    BY <2>1
  <2>2. ASSUME NEW b \in Browsers, ops_oauth_login(b) PROVE ExchangedOnce'
    BY <2>2 DEF ops_oauth_login, Fresh
  <2>3. ASSUME NEW b \in Browsers, NEW i \in Logins, ops_oauth_callback(b, i)
        PROVE  ExchangedOnce'
    <3>1. csrf_id[b] \in Logins
            /\ pending_auth' = [pending_auth EXCEPT ![csrf_id[b]] = Nil]
      BY <2>3 DEF ops_oauth_callback
    <3>2. CASE Stored(csrf_id[b]) /\ csrf_id[b] = i
      <4>1. \A c \in Browsers : i \notin exchanging[c]
        BY <3>2
      <4>2. exchanging' = [exchanging EXCEPT ![b] = @ \cup {i}]
        BY <2>3, <3>2 DEF ops_oauth_callback
      <4> QED
        BY <3>1, <3>2, <4>1, <4>2
    <3>3. CASE ~(Stored(csrf_id[b]) /\ csrf_id[b] = i)
      BY <2>3, <3>1, <3>3 DEF ops_oauth_callback
    <3> QED
      BY <3>2, <3>3
  <2>4. ASSUME NEW b \in Browsers, NEW i \in Logins, FinishCallback(b, i)
        PROVE  ExchangedOnce'
    BY <2>4 DEF FinishCallback
  <2>5. CASE Tick \/ Cleanup
    BY <2>5 DEF Tick, Cleanup
  <2>6. CASE Restart
    BY <2>6 DEF Restart
  <2> QED
    BY <2>1, <2>2, <2>3, <2>4, <2>5, <2>6
       DEF Next, ops_logout, vars
<1> QED
  BY <1>1, <1>2, TypeCorrect, PTL DEF Spec

\* What takes a login out of memory: its own browser's callback, its age, or
\* the end of the process.
THEOREM LoginsLeaveAsTheyMay == Spec => LoginsAreKept
<1> DEFINE Kept == \A i \in Logins :
       Stored(i) /\ pending_auth'[i] = Nil =>
         \/ \E b \in Browsers : csrf_id[b] = i /\ \E j \in Logins :
              ops_oauth_callback(b, j)
         \/ pending_auth[i] >= TTL
         \/ Restart
<1>1. IInv /\ [Next]_vars => [Kept]_vars
  <2> SUFFICES ASSUME IInv, [Next]_vars, NEW i \in Logins,
                      Stored(i), pending_auth'[i] = Nil
               PROVE  \/ \E b \in Browsers : csrf_id[b] = i /\ \E j \in Logins :
                           ops_oauth_callback(b, j)
                      \/ pending_auth[i] >= TTL
                      \/ Restart
    OBVIOUS
  <2>1. CASE UNCHANGED pending_auth
    BY <2>1 DEF Stored
  <2>2. ASSUME NEW b \in Browsers, ops_oauth_login(b) PROVE FALSE
    BY <2>2, NoAgeIsNil DEF ops_oauth_login, IInv, TypeOK, Stored
  <2>3. ASSUME NEW b \in Browsers, NEW j \in Logins, ops_oauth_callback(b, j)
        PROVE  csrf_id[b] = i
    BY <2>3 DEF ops_oauth_callback, IInv, TypeOK, Stored
  <2>4. CASE Tick
    BY <2>4, AgeType, NoAgeIsNil DEF Tick
  <2>5. CASE Cleanup
    BY <2>5, AgeType, NoAgeIsNil, TTLAssumption DEF Cleanup
  <2> QED
    BY <2>1, <2>2, <2>3, <2>4, <2>5
       DEF Next, FinishCallback, ops_logout, vars
<1> QED
  BY <1>1, Invariance, PTL DEF Spec, LoginsAreKept
=============================================================================
