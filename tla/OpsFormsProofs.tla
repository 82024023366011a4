--------------------------- MODULE OpsFormsProofs ---------------------------
(***************************************************************************)
(* Proofs about OpsForms, for every set of servers, browsers, operators    *)
(* and tokens, and all values of the two periods.                          *)
(***************************************************************************)
EXTENDS OpsForms, TLAPS

-----------------------------------------------------------------------------
(***************************************************************************)
(* Type correctness.                                                       *)
(***************************************************************************)

\* Until the next cleanup an entry's age grows only as the time to it shrinks.
AgesBounded ==
  \A s \in Servers, u \in Members :
    Stored(s, u) => csrf_tokens[s][u].age + wait[s] <= TTL - 1 + Interval

TInv == TypeOK /\ AgesBounded

\* A stored entry differs from an absent one.
LEMMA NoEntryIsNil == Nil \notin Entries
BY NilAssumption, TTLAssumption, IntervalAssumption DEF Entries

\* A stored entry is one, and may age by one as long as no cleanup is due.
LEMMA EntryType ==
  ASSUME TInv, NEW s \in Servers, NEW u \in Members, Stored(s, u)
  PROVE  /\ csrf_tokens[s][u] \in Entries
         /\ csrf_tokens[s][u].token \in FormTokens
         /\ csrf_tokens[s][u].age \in Nat
         /\ wait[s] > 0 => [csrf_tokens[s][u] EXCEPT !.age = @ + 1] \in Entries
<1> DEFINE e == csrf_tokens[s][u]
<1>1. e \in Entries
  BY DEF TInv, TypeOK, Stored
<1>2. e.age + wait[s] <= TTL - 1 + Interval /\ wait[s] \in 0..Interval
  BY DEF TInv, TypeOK, AgesBounded
<1>3. e.age \in 0 .. TTL - 1 + Interval /\ e.token \in FormTokens
  BY <1>1 DEF Entries
<1> HIDE DEF e
<1>4. ASSUME wait[s] > 0 PROVE [e EXCEPT !.age = @ + 1] \in Entries
  <2>1. e.age + 1 \in 0 .. TTL - 1 + Interval
    BY <1>2, <1>3, <1>4, TTLAssumption, IntervalAssumption
  <2> QED
    BY <1>1, <2>1 DEF Entries
<1> QED
  BY <1>1, <1>3, <1>4, TTLAssumption, IntervalAssumption DEF e

\* A page ages as a page of the same operator with the same token.
LEMMA PageType ==
  ASSUME NEW page \in Pages
  PROVE  /\ page.user \in Members /\ page.token \in FormTokens
         /\ page.age \in 0..TTL
         /\ Older(page) \in Pages
         /\ Older(page).user = page.user /\ Older(page).token = page.token
         /\ Older(page).age = IF page.age < TTL THEN page.age + 1 ELSE TTL
         /\ [page EXCEPT !.age = TTL] \in Pages
         /\ [page EXCEPT !.age = TTL].user = page.user
         /\ [page EXCEPT !.age = TTL].token = page.token
         /\ [page EXCEPT !.age = TTL].age = TTL
<1>1. page.age \in 0..TTL
  BY DEF Pages
<1>2. (IF page.age < TTL THEN page.age + 1 ELSE TTL) \in 0..TTL /\ TTL \in 0..TTL
  BY <1>1, TTLAssumption
<1> QED
  BY <1>1, <1>2 DEF Pages, Older

\* What a page load does: the operator's entry gets age 0, and its token is the
\* stored one, or a fresh one when there was none.
LEMMA PageLoad ==
  ASSUME TInv, NEW s \in Servers, NEW b \in Browsers, ops_auth(s, b)
  PROVE  \E u \in Members, t \in FormTokens :
           /\ csrf_entry(s, u, t)
           /\ csrf_tokens' \in [Servers -> [Members -> Entries \cup {Nil}]]
           /\ csrf_tokens'[s][u] = [token |-> t, age |-> 0]
           /\ \A s2 \in Servers, u2 \in Members :
                <<s2, u2>> # <<s, u>> => csrf_tokens'[s2][u2] = csrf_tokens[s2][u2]
           /\ [user |-> u, token |-> t, age |-> 0] \in Pages
           /\ pages' = [pages EXCEPT ![b] =
                          @ \cup {[user |-> u, token |-> t, age |-> 0]}]
<1> DEFINE u == user_session[b]
<1>1. u \in Members
  BY DEF ops_auth, TInv, TypeOK
<1>2. PICK t \in FormTokens :
        /\ csrf_entry(s, u, t)
        /\ csrf_tokens' = [csrf_tokens EXCEPT ![s][u] = [token |-> t, age |-> 0]]
        /\ pages' = [pages EXCEPT ![b] =
                       @ \cup {[user |-> u, token |-> t, age |-> 0]}]
  BY DEF ops_auth
<1>3. [token |-> t, age |-> 0] \in Entries
  BY TTLAssumption, IntervalAssumption DEF Entries
<1>4. [user |-> u, token |-> t, age |-> 0] \in Pages
  BY <1>1, TTLAssumption DEF Pages
<1> HIDE DEF u
<1> QED
  BY <1>1, <1>2, <1>3, <1>4 DEF TInv, TypeOK

\* What the passing of time does to entries.
LEMMA TickEffect ==
  ASSUME TInv, Tick, NEW s \in Servers, NEW u \in Members
  PROVE  /\ wait[s] > 0 /\ wait'[s] = wait[s] - 1
         /\ ~Stored(s, u) => csrf_tokens'[s][u] = Nil
         /\ Stored(s, u) =>
              /\ csrf_tokens'[s][u] \in Entries
              /\ csrf_tokens'[s][u].token = csrf_tokens[s][u].token
              /\ csrf_tokens'[s][u].age = csrf_tokens[s][u].age + 1
<1>1. /\ wait[s] > 0 /\ wait'[s] = wait[s] - 1
      /\ csrf_tokens'[s][u] = IF Stored(s, u)
                                THEN [csrf_tokens[s][u] EXCEPT !.age = @ + 1]
                                ELSE Nil
  BY DEF Tick
<1>2. CASE Stored(s, u)
  <2> DEFINE e == csrf_tokens[s][u]
  <2>1. e \in Entries /\ [e EXCEPT !.age = @ + 1] \in Entries
    BY <1>1, <1>2, EntryType
  <2>2. csrf_tokens'[s][u] = [e EXCEPT !.age = @ + 1]
    BY <1>1, <1>2
  <2> HIDE DEF e
  <2>3. /\ [e EXCEPT !.age = @ + 1].token = e.token
        /\ [e EXCEPT !.age = @ + 1].age = e.age + 1
    BY <2>1 DEF Entries
  <2> QED
    BY <1>1, <1>2, <2>1, <2>2, <2>3 DEF e
<1> QED
  BY <1>1, <1>2

\* What a cleanup keeps, it keeps as it was.
LEMMA CleanupEffect ==
  ASSUME TInv, NEW s \in Servers, Cleanup(s), NEW s2 \in Servers, NEW u \in Members
  PROVE  csrf_tokens'[s2][u] =
           IF s2 = s /\ ~(Stored(s, u) /\ csrf_tokens[s][u].age < TTL)
             THEN Nil ELSE csrf_tokens[s2][u]
BY DEF Cleanup, TInv, TypeOK

\* The balancer sends a browser to servers only.
LEMMA ReachedServers == \A b \in Browsers : Reaches[b] \subseteq Servers
BY ReachesAssumption

\* A restart leaves a page as it was, or as old as a page gets.
LEMMA RestartEffect ==
  ASSUME TInv, NEW s \in Servers, Restart(s), NEW b \in Browsers,
         NEW page \in pages'[b]
  PROVE  \E old \in pages[b] :
           /\ old \in Pages /\ page \in Pages
           /\ page.user = old.user /\ page.token = old.token
           /\ IF s \in Reaches[b] THEN page.age = TTL ELSE page = old
<1>1. PICK old \in pages[b] :
        page = IF s \in Reaches[b] THEN [old EXCEPT !.age = TTL] ELSE old
  BY DEF Restart
<1>2. old \in Pages
  BY DEF TInv, TypeOK
<1>3. CASE s \in Reaches[b]
  <2>1. page = [old EXCEPT !.age = TTL]
    BY <1>1, <1>3
  <2> QED
    BY <1>2, <1>3, <2>1, PageType
<1>4. CASE s \notin Reaches[b]
  BY <1>1, <1>2, <1>4
<1> QED
  BY <1>3, <1>4

\* Every step keeps the types and the bound on the ages.
LEMMA NextKeepsType ==
  ASSUME TInv, [Next]_vars
  PROVE  TInv'
<1> USE TTLAssumption, IntervalAssumption
<1>1. CASE UNCHANGED vars
  BY <1>1 DEF vars, TInv, TypeOK, AgesBounded, Stored
<1>2. ASSUME NEW b \in Browsers,
             ops_logout(b) \/ \E u \in Members : SignIn(b, u)
      PROVE  TInv'
  BY <1>2 DEF ops_logout, SignIn, TInv, TypeOK, AgesBounded, Stored
<1>3. ASSUME NEW b \in Browsers, NEW s \in Servers, ops_auth(s, b) PROVE TInv'
  <2>1. PICK u \in Members, t \in FormTokens :
          /\ csrf_entry(s, u, t)
          /\ csrf_tokens' \in [Servers -> [Members -> Entries \cup {Nil}]]
          /\ csrf_tokens'[s][u] = [token |-> t, age |-> 0]
          /\ \A s2 \in Servers, u2 \in Members :
               <<s2, u2>> # <<s, u>> => csrf_tokens'[s2][u2] = csrf_tokens[s2][u2]
          /\ [user |-> u, token |-> t, age |-> 0] \in Pages
          /\ pages' = [pages EXCEPT ![b] =
                         @ \cup {[user |-> u, token |-> t, age |-> 0]}]
    BY <1>3, PageLoad
  <2>2. TypeOK'
    BY <1>3, <2>1 DEF ops_auth, TInv, TypeOK
  <2>3. ASSUME NEW s2 \in Servers, NEW u2 \in Members, Stored(s2, u2)'
        PROVE  csrf_tokens'[s2][u2].age + wait'[s2] <= TTL - 1 + Interval
    <3>1. wait' = wait /\ wait[s2] \in 0..Interval
      BY <1>3 DEF ops_auth, TInv, TypeOK
    <3>2. CASE <<s2, u2>> = <<s, u>>
      <4>1. csrf_tokens'[s2][u2].age = 0
        BY <2>1, <3>2
      <4> QED
        BY <3>1, <4>1
    <3>3. CASE <<s2, u2>> # <<s, u>>
      BY <2>1, <2>3, <3>1, <3>3 DEF TInv, AgesBounded, Stored
    <3> QED
      BY <3>2, <3>3
  <2> QED
    BY <2>2, <2>3 DEF TInv, AgesBounded
<1>4. ASSUME NEW b \in Browsers, NEW s \in Servers, NEW page \in pages[b],
             ops_form(s, b, page)
      PROVE  TInv'
  <2>1. page \in Pages /\ user_session[b] \in Members \cup {Nil}
    BY DEF TInv, TypeOK
  <2>2. \E o \in Outcomes : outcome' = [outcome EXCEPT ![b] = o]
    <3> DEFINE u == user_session[b]
    <3>1. [what |-> "login"] \in Outcomes /\ [what |-> "invalid_csrf"] \in Outcomes
      BY DEF Outcomes
    <3>2. CASE u = Nil
      BY <1>4, <3>1, <3>2 DEF ops_form
    <3>3. CASE u # Nil
      <4>1. [what |-> "acted", page |-> page, as |-> u] \in Outcomes
        BY <2>1, <3>3 DEF Outcomes
      <4> QED
        BY <1>4, <3>1, <3>3, <4>1 DEF ops_form
    <3> QED
      BY <3>2, <3>3
  <2> QED
    BY <1>4, <2>2 DEF ops_form, TInv, TypeOK, AgesBounded, Stored
<1>5. ASSUME NEW b \in Browsers, NEW page \in pages[b], ClosePage(b, page)
      PROVE  TInv'
  <2>1. TypeOK'
    BY <1>5 DEF ClosePage, TInv, TypeOK, Outcomes
  <2>2. AgesBounded'
    BY <1>5 DEF ClosePage, TInv, AgesBounded, Stored
  <2> QED
    BY <2>1, <2>2 DEF TInv
<1>6. CASE Tick
  <2>1. csrf_tokens' \in [Servers -> [Members -> Entries \cup {Nil}]]
    BY <1>6, TickEffect DEF Tick
  <2>2. wait' \in [Servers -> 0..Interval]
    BY <1>6 DEF Tick, TInv, TypeOK
  <2>3. pages' \in [Browsers -> SUBSET Pages]
    <3>1. \A b \in Browsers : {Older(page) : page \in pages[b]} \subseteq Pages
      BY PageType DEF TInv, TypeOK
    <3>2. pages' = [b \in Browsers |-> {Older(page) : page \in pages[b]}]
      BY <1>6 DEF Tick
    <3> HIDE DEF Older
    <3> QED
      BY <3>1, <3>2
  <2>4. TypeOK'
    BY <1>6, <2>1, <2>2, <2>3 DEF Tick, TInv, TypeOK, Outcomes
  <2>5. ASSUME NEW s \in Servers, NEW u \in Members, Stored(s, u)'
        PROVE  csrf_tokens'[s][u].age + wait'[s] <= TTL - 1 + Interval
    <3>1. Stored(s, u)
      BY <1>6, <2>5, TickEffect DEF Stored
    <3>2. /\ csrf_tokens[s][u].age + wait[s] <= TTL - 1 + Interval
          /\ csrf_tokens[s][u].age \in Nat /\ wait[s] \in 0..Interval
      BY <3>1, EntryType DEF TInv, AgesBounded, TypeOK
    <3> QED
      BY <1>6, <3>1, <3>2, TickEffect
  <2> QED
    BY <2>4, <2>5 DEF TInv, AgesBounded
<1>7. ASSUME NEW s \in Servers, Cleanup(s) PROVE TInv'
  <2>1. \A s2 \in Servers, u \in Members :
          csrf_tokens'[s2][u] \in {csrf_tokens[s2][u], Nil}
    BY <1>7, CleanupEffect
  <2>2. TypeOK'
    <3>1. csrf_tokens' \in [Servers -> [Members -> Entries \cup {Nil}]]
      BY <1>7 DEF Cleanup, TInv, TypeOK, Stored
    <3> QED
      BY <1>7, <3>1 DEF Cleanup, TInv, TypeOK
  <2>3. ASSUME NEW s2 \in Servers, NEW u \in Members, Stored(s2, u)'
        PROVE  csrf_tokens'[s2][u].age + wait'[s2] <= TTL - 1 + Interval
    <3>1. csrf_tokens'[s2][u] = csrf_tokens[s2][u] /\ Stored(s2, u)
      BY <2>1, <2>3 DEF Stored
    <3>2. csrf_tokens[s2][u].age \in Nat
      BY <3>1, EntryType
    <3>3. CASE s2 = s
      <4>1. csrf_tokens[s2][u].age < TTL
        <5>1. csrf_tokens'[s2][u] # Nil
          BY <2>3 DEF Stored
        <5> QED
          BY <1>7, <3>3, <5>1, CleanupEffect
      <4>2. wait'[s2] = Interval
        BY <1>7, <3>3 DEF Cleanup, TInv, TypeOK
      <4> QED
        BY <3>1, <3>2, <4>1, <4>2, IntervalAssumption, TTLAssumption
    <3>4. CASE s2 # s
      BY <1>7, <3>1, <3>4 DEF Cleanup, TInv, TypeOK, AgesBounded
    <3> QED
      BY <3>3, <3>4
  <2> QED
    BY <2>2, <2>3 DEF TInv, AgesBounded
<1>8. ASSUME NEW s \in Servers, Restart(s) PROVE TInv'
  <2>1. pages' \in [Browsers -> SUBSET Pages]
    <3>1. \A b \in Browsers : pages'[b] \subseteq Pages
      BY <1>8, RestartEffect
    <3>2. pages' = [b \in Browsers |-> pages'[b]]
      BY <1>8 DEF Restart
    <3> QED
      BY <3>1, <3>2
  <2>2. /\ csrf_tokens' \in [Servers -> [Members -> Entries \cup {Nil}]]
        /\ wait' \in [Servers -> 0..Interval]
    BY <1>8 DEF Restart, NoTokens, TInv, TypeOK
  <2>3. TypeOK'
    BY <1>8, <2>1, <2>2 DEF Restart, TInv, TypeOK, Outcomes
  <2>4. AgesBounded'
    BY <1>8 DEF Restart, NoTokens, TInv, TypeOK, AgesBounded, Stored
  <2> QED
    BY <2>3, <2>4 DEF TInv
<1> QED
  BY <1>1, <1>2, <1>3, <1>4, <1>5, <1>6, <1>7, <1>8, ReachedServers DEF Next

\* Types and bounded ages hold in every reachable state.
LEMMA TypeInvariance == Spec => []TInv
<1>1. Init => TInv
  BY TTLAssumption, IntervalAssumption
     DEF Init, TInv, TypeOK, AgesBounded, Stored, NoTokens, Outcomes
<1>2. TInv /\ [Next]_vars => TInv'
  BY NextKeepsType
<1> QED
  BY <1>1, <1>2, PTL DEF Spec

\* Every reachable state is well typed; in particular no token grows older than
\* one period of the cleanup past TTL.
THEOREM TypeCorrect == Spec => []TypeOK
<1>1. TInv => TypeOK
  BY DEF TInv
<1> QED
  BY <1>1, TypeInvariance, PTL

-----------------------------------------------------------------------------
(***************************************************************************)
(* A token is of one operator: whoever's entry holds it, every page and    *)
(* every other server's entry that has it is of the same operator.         *)
(***************************************************************************)

Held(u, t) == \E s \in Servers : Stored(s, u) /\ csrf_tokens[s][u].token = t

Shown(u, t) == \E b \in Browsers : \E page \in pages[b] :
                 page.user = u /\ page.token = t

TokensAreOwn ==
  \A u, v \in Members, t \in FormTokens :
    Held(u, t) /\ (Held(v, t) \/ Shown(v, t)) => u = v

\* Only a page load gives an operator a token, and only one that the operator
\* has already or that nobody has.
LEMMA StepsGiveTokens ==
  ASSUME TInv, [Next]_vars
  PROVE  \/ \A v \in Members, r \in FormTokens : /\ Held(v, r)' => Held(v, r)
                                                 /\ Shown(v, r)' => Shown(v, r)
         \/ \E u \in Members, t \in FormTokens :
              /\ Held(u, t) \/ \A v \in Members : ~Held(v, t) /\ ~Shown(v, t)
              /\ \A v \in Members, r \in FormTokens :
                   <<v, r>> # <<u, t>> => /\ Held(v, r)' => Held(v, r)
                                          /\ Shown(v, r)' => Shown(v, r)
<1> DEFINE NoneGiven == \A v \in Members, r \in FormTokens :
                          /\ Held(v, r)' => Held(v, r)
                          /\ Shown(v, r)' => Shown(v, r)
<1>1. CASE UNCHANGED <<csrf_tokens, pages>>
  BY <1>1 DEF Held, Shown, Stored
<1>2. ASSUME NEW b \in Browsers, NEW s \in Servers, ops_auth(s, b)
      PROVE  \E u \in Members, t \in FormTokens :
              /\ Held(u, t) \/ \A v \in Members : ~Held(v, t) /\ ~Shown(v, t)
              /\ \A v \in Members, r \in FormTokens :
                   <<v, r>> # <<u, t>> => /\ Held(v, r)' => Held(v, r)
                                          /\ Shown(v, r)' => Shown(v, r)
  <2>1. PICK u \in Members, t \in FormTokens :
          /\ csrf_entry(s, u, t)
          /\ csrf_tokens' \in [Servers -> [Members -> Entries \cup {Nil}]]
          /\ csrf_tokens'[s][u] = [token |-> t, age |-> 0]
          /\ \A s2 \in Servers, u2 \in Members :
               <<s2, u2>> # <<s, u>> => csrf_tokens'[s2][u2] = csrf_tokens[s2][u2]
          /\ [user |-> u, token |-> t, age |-> 0] \in Pages
          /\ pages' = [pages EXCEPT ![b] =
                         @ \cup {[user |-> u, token |-> t, age |-> 0]}]
    BY <1>2, PageLoad
  <2>2. Held(u, t) \/ \A v \in Members : ~Held(v, t) /\ ~Shown(v, t)
    BY <2>1 DEF csrf_entry, Fresh, Held, Shown
  <2>3. ASSUME NEW v \in Members, NEW r \in FormTokens, <<v, r>> # <<u, t>>,
               Held(v, r)'
        PROVE  Held(v, r)
    <3>1. PICK s2 \in Servers : Stored(s2, v)' /\ csrf_tokens'[s2][v].token = r
      BY <2>3 DEF Held
    <3>2. <<s2, v>> # <<s, u>>
      BY <2>1, <2>3, <3>1
    <3> QED
      BY <2>1, <3>1, <3>2 DEF Held, Stored
  <2>4. ASSUME NEW v \in Members, NEW r \in FormTokens, <<v, r>> # <<u, t>>,
               Shown(v, r)'
        PROVE  Shown(v, r)
    <3>0. PICK c \in Browsers : \E page \in pages'[c] :
                                   page.user = v /\ page.token = r
      BY <2>4 DEF Shown
    <3>1. PICK page \in pages'[c] : page.user = v /\ page.token = r
      BY <3>0
    <3>2. page # [user |-> u, token |-> t, age |-> 0]
      BY <2>4, <3>1
    <3>3. page \in pages[c]
      BY <2>1, <3>1, <3>2 DEF TInv, TypeOK
    <3> QED
      BY <3>1, <3>3 DEF Shown
  <2> QED
    BY <2>2, <2>3, <2>4
<1>3. ASSUME NEW b \in Browsers, NEW page \in pages[b], ClosePage(b, page)
      PROVE  NoneGiven
  BY <1>3 DEF ClosePage, Held, Shown, Stored, TInv, TypeOK
<1>4. CASE Tick
  <2>1. ASSUME NEW v \in Members, NEW r \in FormTokens, Held(v, r)'
        PROVE  Held(v, r)
    BY <1>4, <2>1, TickEffect DEF Held, Stored
  <2>2. ASSUME NEW v \in Members, NEW r \in FormTokens, Shown(v, r)'
        PROVE  Shown(v, r)
    <3>0. PICK c \in Browsers : \E page \in pages[c] :
            Older(page).user = v /\ Older(page).token = r
      BY <1>4, <2>2 DEF Tick, Shown
    <3>1. PICK page \in pages[c] : Older(page).user = v /\ Older(page).token = r
      BY <3>0
    <3> QED
      BY <3>1, PageType DEF Shown, TInv, TypeOK
  <2> QED
    BY <2>1, <2>2
<1>5. ASSUME NEW s \in Servers, Cleanup(s) PROVE NoneGiven
  <2>1. ASSUME NEW v \in Members, NEW r \in FormTokens, Held(v, r)'
        PROVE  Held(v, r)
    BY <1>5, <2>1, CleanupEffect DEF Held, Stored
  <2> QED
    BY <1>5, <2>1 DEF Cleanup, Shown
<1>6. ASSUME NEW s \in Servers, Restart(s) PROVE NoneGiven
  <2>1. ASSUME NEW v \in Members, NEW r \in FormTokens, Held(v, r)'
        PROVE  Held(v, r)
    BY <1>6, <2>1 DEF Restart, NoTokens, Held, Stored, TInv, TypeOK
  <2>2. ASSUME NEW v \in Members, NEW r \in FormTokens, Shown(v, r)'
        PROVE  Shown(v, r)
    <3>0. PICK c \in Browsers : \E page \in pages'[c] :
                                   page.user = v /\ page.token = r
      BY <2>2 DEF Shown
    <3>1. PICK page \in pages'[c] : page.user = v /\ page.token = r
      BY <3>0
    <3>2. PICK old \in pages[c] : old.user = page.user /\ old.token = page.token
      BY <1>6, RestartEffect
    <3> QED
      BY <3>1, <3>2 DEF Shown
  <2> QED
    BY <2>1, <2>2
<1> QED
  BY <1>1, <1>2, <1>3, <1>4, <1>5, <1>6, ReachedServers
     DEF Next, SignIn, ops_logout, ops_form, vars

\* So tokens stay their operators' own.
LEMMA NextKeepsOwn ==
  ASSUME TInv, TokensAreOwn, [Next]_vars
  PROVE  TokensAreOwn'
<1>1. CASE \A v \in Members, r \in FormTokens : /\ Held(v, r)' => Held(v, r)
                                                /\ Shown(v, r)' => Shown(v, r)
  BY <1>1 DEF TokensAreOwn
<1>2. ASSUME NEW u \in Members, NEW t \in FormTokens,
             Held(u, t) \/ \A v \in Members : ~Held(v, t) /\ ~Shown(v, t),
             \A v \in Members, r \in FormTokens :
               <<v, r>> # <<u, t>> => /\ Held(v, r)' => Held(v, r)
                                      /\ Shown(v, r)' => Shown(v, r)
      PROVE  TokensAreOwn'
  BY <1>2 DEF TokensAreOwn
<1> QED
  BY <1>1, <1>2, StepsGiveTokens

\* A form that acts carries the token in its session's entry, so its page is of
\* that operator.
LEMMA NextKeepsOutcomes ==
  ASSUME TInv, TokensAreOwn, FormsActForTheirUser, [Next]_vars
  PROVE  FormsActForTheirUser'
<1> USE DEF FormsActForTheirUser
<1>1. CASE UNCHANGED outcome
  BY <1>1
<1>2. ASSUME NEW b \in Browsers, NEW s \in Servers, NEW page \in pages[b],
             ops_form(s, b, page)
      PROVE  FormsActForTheirUser'
  <2> DEFINE u == user_session[b]
  <2>1. /\ page \in Pages /\ page.user \in Members /\ page.token \in FormTokens
        /\ u \in Members \cup {Nil}
    BY PageType DEF TInv, TypeOK
  <2>2. CASE u # Nil /\ csrf_ok(s, u, page.token)
    <3>1. Held(u, page.token) /\ Shown(page.user, page.token)
      BY <2>1, <2>2 DEF csrf_ok, Held, Shown
    <3>2. page.user = u
      BY <2>1, <2>2, <3>1 DEF TokensAreOwn
    <3>3. outcome' = [outcome EXCEPT ![b] =
                        [what |-> "acted", page |-> page, as |-> u]]
      BY <1>2, <2>2 DEF ops_form
    <3> QED
      BY <3>2, <3>3 DEF TInv, TypeOK
  <2>3. CASE ~(u # Nil /\ csrf_ok(s, u, page.token))
    <3>1. \E what \in {"login", "invalid_csrf"} :
            outcome' = [outcome EXCEPT ![b] = [what |-> what]]
      BY <1>2, <2>3 DEF ops_form
    <3> QED
      BY <3>1 DEF TInv, TypeOK
  <2> QED
    BY <2>2, <2>3
<1>3. ASSUME NEW b \in Browsers, NEW page \in pages[b], ClosePage(b, page)
      PROVE  FormsActForTheirUser'
  BY <1>3 DEF ClosePage, TInv, TypeOK
<1>4. CASE Tick
  BY <1>4 DEF Tick
<1>5. ASSUME NEW s \in Servers, Restart(s) PROVE FormsActForTheirUser'
  BY <1>5 DEF Restart
<1> QED
  BY <1>1, <1>2, <1>3, <1>4, <1>5, ReachedServers
     DEF Next, SignIn, ops_logout, ops_auth, Cleanup, vars

\* A form acts for the operator whose page it is, on any number of servers.
THEOREM FormsActForTheirOperator == Spec => []FormsActForTheirUser
<1>1. Init => TokensAreOwn /\ FormsActForTheirUser
  BY DEF Init, NoTokens, Stored, TokensAreOwn, Held, Shown, FormsActForTheirUser
<1>2. /\ TInv /\ TokensAreOwn /\ FormsActForTheirUser /\ [Next]_vars
      => TokensAreOwn' /\ FormsActForTheirUser'
  BY NextKeepsOwn, NextKeepsOutcomes
<1> QED
  BY <1>1, <1>2, TypeInvariance, PTL DEF Spec

-----------------------------------------------------------------------------
(***************************************************************************)
(* Cookie affinity: at the server its browser is sent to, a page is never  *)
(* younger than the last renewal of its token.                             *)
(***************************************************************************)

Affinity == \A b \in Browsers : \A s1, s2 \in Reaches[b] : s1 = s2

FreshPagesHaveEntries ==
  \A b \in Browsers : \A s \in Reaches[b], page \in pages[b] :
    page.age < TTL => /\ csrf_ok(s, page.user, page.token)
                      /\ csrf_tokens[s][page.user].age <= page.age

\* With affinity, every step keeps the entries of fresh pages.
LEMMA NextKeepsEntries ==
  ASSUME Affinity, TInv, FreshPagesHaveEntries, [Next]_vars
  PROVE  FreshPagesHaveEntries'
<1> SUFFICES ASSUME NEW c \in Browsers, NEW s \in Reaches[c],
                    NEW page \in pages'[c], page.age < TTL
             PROVE  /\ csrf_ok(s, page.user, page.token)'
                    /\ csrf_tokens'[s][page.user].age <= page.age
  BY DEF FreshPagesHaveEntries
<1>1. /\ s \in Servers
      /\ \A b \in Browsers : Reaches[b] \subseteq Servers
  BY ReachesAssumption
<1>2. ASSUME NEW old \in pages[c], old.age < TTL
      PROVE  /\ old \in Pages /\ old.user \in Members /\ old.token \in FormTokens
             /\ old.age \in 0..TTL
             /\ Stored(s, old.user) /\ csrf_tokens[s][old.user].token = old.token
             /\ csrf_tokens[s][old.user].age <= old.age
             /\ csrf_tokens[s][old.user].age \in Nat
  <2>1. old \in Pages
    BY DEF TInv, TypeOK
  <2>2. csrf_ok(s, old.user, old.token) /\ csrf_tokens[s][old.user].age <= old.age
    BY <1>1, <1>2 DEF FreshPagesHaveEntries
  <2> QED
    BY <1>1, <2>1, <2>2, PageType, EntryType DEF csrf_ok
<1>3. CASE UNCHANGED csrf_tokens /\ page \in pages[c]
  BY <1>2, <1>3 DEF csrf_ok, Stored
<1>4. ASSUME NEW b \in Browsers, NEW s0 \in Reaches[b], ops_auth(s0, b), s0 = s
      PROVE  /\ csrf_ok(s, page.user, page.token)'
             /\ csrf_tokens'[s][page.user].age <= page.age
  <2>1. PICK u \in Members, t \in FormTokens :
          /\ csrf_entry(s, u, t)
          /\ csrf_tokens' \in [Servers -> [Members -> Entries \cup {Nil}]]
          /\ csrf_tokens'[s][u] = [token |-> t, age |-> 0]
          /\ \A s2 \in Servers, u2 \in Members :
               <<s2, u2>> # <<s, u>> => csrf_tokens'[s2][u2] = csrf_tokens[s2][u2]
          /\ [user |-> u, token |-> t, age |-> 0] \in Pages
          /\ pages' = [pages EXCEPT ![b] =
                         @ \cup {[user |-> u, token |-> t, age |-> 0]}]
    BY <1>1, <1>4, PageLoad
  <2>2. [token |-> t, age |-> 0] # Nil
    BY NilAssumption
  <2>3. CASE page = [user |-> u, token |-> t, age |-> 0]
    BY <2>1, <2>2, <2>3 DEF csrf_ok, Stored
  <2>4. CASE page # [user |-> u, token |-> t, age |-> 0]
    <3>1. page \in pages[c]
      BY <2>1, <2>4 DEF TInv, TypeOK
    <3>2. CASE page.user = u
      <4>1. page.token = t
        BY <1>2, <2>1, <3>1, <3>2 DEF csrf_entry
      <4> QED
        BY <1>2, <2>1, <2>2, <3>1, <3>2, <4>1 DEF csrf_ok, Stored
    <3>3. CASE page.user # u
      BY <1>1, <1>2, <2>1, <3>1, <3>3 DEF csrf_ok, Stored
    <3> QED
      BY <3>2, <3>3
  <2> QED
    BY <2>3, <2>4
<1>5. ASSUME NEW b \in Browsers, NEW s0 \in Reaches[b], ops_auth(s0, b), s0 # s
      PROVE  /\ csrf_ok(s, page.user, page.token)'
             /\ csrf_tokens'[s][page.user].age <= page.age
  <2>1. b # c
    BY <1>5 DEF Affinity
  <2>2. /\ page \in pages[c]
        /\ \A u \in Members : csrf_tokens'[s][u] = csrf_tokens[s][u]
    BY <1>1, <1>5, <2>1 DEF ops_auth, TInv, TypeOK
  <2> QED
    BY <1>2, <2>2 DEF csrf_ok, Stored
<1>6. CASE Tick
  <2>1. PICK old \in pages[c] : page = Older(old)
    BY <1>6 DEF Tick
  <2>2. old \in Pages
    BY DEF TInv, TypeOK
  <2>3. /\ old.age < TTL /\ page.age = old.age + 1
        /\ page.user = old.user /\ page.token = old.token
    <3>1. /\ page.age = IF old.age < TTL THEN old.age + 1 ELSE TTL
          /\ page.user = old.user /\ page.token = old.token
      BY <2>1, <2>2, PageType
    <3> QED
      BY <3>1, TTLAssumption
  <2>4. /\ csrf_tokens'[s][old.user] \in Entries
        /\ csrf_tokens'[s][old.user].token = csrf_tokens[s][old.user].token
        /\ csrf_tokens'[s][old.user].age = csrf_tokens[s][old.user].age + 1
    BY <1>1, <1>2, <1>6, <2>3, TickEffect
  <2>5. csrf_ok(s, page.user, page.token)'
    BY <1>2, <2>3, <2>4, NoEntryIsNil DEF csrf_ok, Stored
  <2>6. csrf_tokens'[s][page.user].age <= page.age
    BY <1>2, <2>3, <2>4
  <2> QED
    BY <2>5, <2>6
<1>7. ASSUME NEW s0 \in Servers, Cleanup(s0)
      PROVE  /\ csrf_ok(s, page.user, page.token)'
             /\ csrf_tokens'[s][page.user].age <= page.age
  <2>1. page \in pages[c]
    BY <1>7 DEF Cleanup
  <2>2. /\ page.user \in Members /\ Stored(s, page.user)
        /\ csrf_tokens[s][page.user].age < TTL
    BY <1>2, <2>1, TTLAssumption
  <2>3. csrf_tokens'[s][page.user] = csrf_tokens[s][page.user]
    BY <1>1, <1>7, <2>2, CleanupEffect
  <2> QED
    BY <1>2, <2>1, <2>3 DEF csrf_ok, Stored
<1>8. ASSUME NEW s0 \in Servers, Restart(s0)
      PROVE  /\ csrf_ok(s, page.user, page.token)'
             /\ csrf_tokens'[s][page.user].age <= page.age
  <2>1. PICK old \in pages[c] :
          IF s0 \in Reaches[c] THEN page.age = TTL ELSE page = old
    BY <1>8, RestartEffect
  <2>2. s0 # s /\ page \in pages[c]
    BY <2>1, TTLAssumption
  <2>3. csrf_tokens'[s] = csrf_tokens[s]
    BY <1>1, <1>8, <2>2 DEF Restart, TInv, TypeOK
  <2> QED
    BY <1>2, <2>2, <2>3 DEF csrf_ok, Stored
<1>9. ASSUME NEW b \in Browsers, NEW old \in pages[b], ClosePage(b, old)
      PROVE  UNCHANGED csrf_tokens /\ page \in pages[c]
  BY <1>9 DEF ClosePage, TInv, TypeOK
<1> QED
  BY <1>3, <1>4, <1>6, <1>7, <1>8, <1>9, <1>5
     DEF Next, SignIn, ops_logout, ops_form, vars

\* When the balancer sends each browser to one server, whatever their number,
\* a form on a page loaded less than TTL ago works.  When it may send a browser
\* to two, it does not (the run `scaleout`).
THEOREM FreshFormsWorkWithAffinity ==
  ASSUME Affinity
  PROVE  Spec => []FreshFormsWork
<1>1. Init => FreshPagesHaveEntries
  BY DEF Init, FreshPagesHaveEntries
<1>2. TInv /\ FreshPagesHaveEntries /\ [Next]_vars => FreshPagesHaveEntries'
  BY NextKeepsEntries
<1>3. FreshPagesHaveEntries => FreshFormsWork
  BY DEF FreshPagesHaveEntries, FreshFormsWork
<1> QED
  BY <1>1, <1>2, <1>3, TypeInvariance, PTL DEF Spec

\* In particular, one server is enough.
THEOREM FreshFormsWorkOnOneServer ==
  ASSUME NEW s, Servers = {s}
  PROVE  Spec => []FreshFormsWork
<1>1. Affinity
  BY ReachedServers DEF Affinity
<1> QED
  BY <1>1, FreshFormsWorkWithAffinity
=============================================================================
