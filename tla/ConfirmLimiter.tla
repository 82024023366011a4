--------------------------- MODULE ConfirmLimiter ---------------------------
(***************************************************************************)
(* The rate limits of POST /api/confirm-email: a counter per bearer token  *)
(* and one per asked key, kept in Redis with an expiry, hit in that order  *)
(* before the record is looked up.  A counter's window starts at its first *)
(* hit.  Its expiry is modelled as the time left, so no clock is needed;   *)
(* the look-up itself is AuthServer's confirm_email.                       *)
(***************************************************************************)
EXTENDS Integers

CONSTANTS
  ConfirmTokens,  \* CONFIRM_TOKENS
  Keys,
  PerToken,       \* CONFIRM_RATE_PER_TOKEN
  PerKey,         \* CONFIRM_RATE_PER_KEY
  Window,         \* WINDOW_SECS, in ticks
  MaxCount,       \* bound: counts above every limit are held as this one
  Procs           \* handler slots

ASSUME LimitsAssumption == PerToken \in Nat /\ PerKey \in Nat
ASSUME WindowAssumption == Window \in Nat \ {0}
ASSUME MaxCountAssumption ==
  MaxCount \in Nat /\ MaxCount > 1 /\ MaxCount > PerToken /\ MaxCount > PerKey

VARIABLES
  counter,  \* counter[c]: hits in c's window, and the time until c expires
  call,     \* call[p]: the request slot p serves and how far it has come
  arrived,  \* arrived[c]: history: calls that reached c in its window
  passed    \* passed[c]: history: calls that c let through in its window

vars == <<counter, call, arrived, passed>>

Counters == [kind : {"tok"}, id : ConfirmTokens] \cup [kind : {"key"}, id : Keys]

\* A Redis key that does not exist; with a count and no time left it would
\* never expire.
Absent == [n |-> 0, ttl |-> 0]

Limit(c) == IF c.kind = "tok" THEN PerToken ELSE PerKey

Steps == {"token", "key", "lookup", "done"}
Statuses == {0, 200, 429, 500}

Calls == [pc : Steps, token : ConfirmTokens, key : Keys, tries : {0, 1},
          status : Statuses]

TypeOK == /\ counter \in [Counters -> [n : 0..MaxCount, ttl : 0..Window]]
          /\ call \in [Procs -> Calls]
          /\ arrived \in [Counters -> Nat]
          /\ passed \in [Counters -> Nat]

Init == /\ counter = [c \in Counters |-> Absent]
        /\ \E t \in ConfirmTokens, k \in Keys :
             call = [p \in Procs |-> [pc |-> "done", token |-> t, key |-> k,
                                      tries |-> 0, status |-> 0]]
        /\ arrived = [c \in Counters |-> 0]
        /\ passed = [c \in Counters |-> 0]

Counting(p) == call[p].pc \in {"token", "key"}

\* The counter the call is at.
At(p) == IF call[p].pc = "token" THEN [kind |-> "tok", id |-> call[p].token]
                                 ELSE [kind |-> "key", id |-> call[p].key]

-----------------------------------------------------------------------------

\* Mutant: every hit starts the window anew.
count_in_window_Slides(c, n) ==
  /\ n = IF counter[c].n = MaxCount THEN MaxCount ELSE counter[c].n + 1
  /\ counter' = [counter EXCEPT ![c] = [n |-> n, ttl |-> Window]]

\* Mutant: the window is one tick too long.
count_in_window_Long(c, n) ==
  /\ n = IF counter[c].n = MaxCount THEN MaxCount ELSE counter[c].n + 1
  /\ counter' = [counter EXCEPT ![c] =
                   [n |-> n, ttl |-> IF n = 1 THEN Window + 1 ELSE @.ttl]]

\* INCR, and EXPIRE on the first hit, in one script.
count_in_window(c, n) ==
  /\ n = IF counter[c].n = MaxCount THEN MaxCount ELSE counter[c].n + 1
  /\ counter' = [counter EXCEPT ![c] =
                   [n |-> n, ttl |-> IF n = 1 THEN Window ELSE @.ttl]]

Answer(p, status) == [call EXCEPT ![p] = [@ EXCEPT !.pc = "done", !.tries = 0,
                                                   !.status = status]]

\* On to the next counter, or to the record.
Advance(p) ==
  LET next == IF call[p].pc = "token" THEN "key" ELSE "lookup" IN
  [call EXCEPT ![p] = [@ EXCEPT !.pc = next, !.tries = 0]]

Capped(n) == IF n < MaxCount THEN n + 1 ELSE n

\* A first attempt tells the history that the call has arrived.
Arrive(p) == arrived' = [arrived EXCEPT ![At(p)] =
                           IF call[p].tries = 0 THEN Capped(@) ELSE @]

Receive(p, t, k) ==
  /\ call[p].pc = "done"
  /\ call' = [call EXCEPT ![p] = [pc |-> "token", token |-> t, key |-> k,
                                  tries |-> 0, status |-> 0]]
  /\ UNCHANGED <<counter, arrived, passed>>

\* Mutant: the comparison is off by one.
Hit_OneMore(p) ==
  /\ Counting(p)
  /\ Arrive(p)
  /\ \E n \in 1..MaxCount :
       /\ count_in_window(At(p), n)
       /\ \/ /\ n > Limit(At(p)) + 1
             /\ call' = Answer(p, 429)
             /\ UNCHANGED passed
          \/ /\ n <= Limit(At(p)) + 1
             /\ call' = Advance(p)
             /\ passed' = [passed EXCEPT ![At(p)] = Capped(@)]

Hit(p) ==
  /\ Counting(p)
  /\ Arrive(p)
  /\ \E n \in 1..MaxCount :
       /\ count_in_window(At(p), n)
       /\ \/ /\ n > Limit(At(p))
             /\ call' = Answer(p, 429)
             /\ UNCHANGED passed
          \/ /\ n <= Limit(At(p))
             /\ call' = Advance(p)
             /\ passed' = [passed EXCEPT ![At(p)] = Capped(@)]

\* The connection drops, before the script ran or after: with_connection runs
\* the script again, once.
DropCount(p) ==
  /\ Counting(p)
  /\ Arrive(p)
  /\ \/ UNCHANGED counter
     \/ \E n \in 1..MaxCount : count_in_window(At(p), n)
  /\ call' = IF call[p].tries = 0 THEN [call EXCEPT ![p].tries = 1]
                                  ELSE Answer(p, 500)
  /\ UNCHANGED passed

FailCount(p) ==
  /\ Counting(p)
  /\ Arrive(p)
  /\ \/ UNCHANGED counter
     \/ \E n \in 1..MaxCount : count_in_window(At(p), n)
  /\ call' = Answer(p, 500)
  /\ UNCHANGED passed

\* get_request and the answer; a retry of a read is not told apart.
Lookup(p) ==
  /\ call[p].pc = "lookup"
  /\ \E status \in {200, 500} : call' = Answer(p, status)
  /\ UNCHANGED <<counter, arrived, passed>>

\* One tick passes; Redis removes what has expired.
Tick ==
  LET expired == {c \in Counters : counter[c].ttl = 1}
      reset(f) == [c \in Counters |-> IF c \in expired THEN 0 ELSE f[c]]
  IN  /\ \E c \in Counters : counter[c].n > 0
      /\ counter' = [c \in Counters |->
                       IF c \in expired THEN Absent
                       ELSE [counter[c] EXCEPT !.ttl = IF @ = 0 THEN 0 ELSE @ - 1]]
      /\ arrived' = reset(arrived)
      /\ passed' = reset(passed)
      /\ UNCHANGED call

Next == \/ \E p \in Procs : \/ Hit(p)
                            \/ DropCount(p)
                            \/ FailCount(p)
                            \/ Lookup(p)
                            \/ \E t \in ConfirmTokens, k \in Keys : Receive(p, t, k)
        \/ Tick

Spec == Init /\ [][Next]_vars

-----------------------------------------------------------------------------

\* Within one window a counter lets at most its limit through, whoever calls:
\* all tokens together for a key, all handlers together for a token, and with
\* retries that count twice.
LimitHolds == \A c \in Counters : passed[c] <= Limit(c)

\* A window that has begun ends when its time is over and not before, so a
\* caller over its limit is let in again although it never stops calling, and
\* gets no fresh count before: a counter that counts has time left, a tick takes
\* one from it and nothing else, the last one takes the counter, and no hit,
\* retry or concurrent call moves its end or counts down.
WindowsOnlyShrink ==
  [][\A c \in Counters :
       counter[c].n > 0 =>
         /\ counter[c].ttl > 0
         /\ \/ /\ Tick
               /\ counter'[c] = IF counter[c].ttl = 1 THEN Absent
                                ELSE [counter[c] EXCEPT !.ttl = counter[c].ttl - 1]
            \/ /\ ~Tick
               /\ counter'[c].ttl = counter[c].ttl
               /\ counter'[c].n >= counter[c].n]_vars

\* README.md on CONFIRM_RATE_PER_TOKEN and CONFIRM_RATE_PER_KEY, and storage.rs
\* on count_in_window, "Counts a hit": a call is refused only when more
\* calls than the limit came in the window.
RefusedOnlyOverLimit ==
  [][\A p \in Procs :
       Counting(p) /\ call'[p].status = 429
         => arrived'[At(p)] > Limit(At(p))]_vars
=============================================================================
