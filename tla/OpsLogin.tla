------------------------------ MODULE OpsLogin ------------------------------
(***************************************************************************)
(* Operator login through GitHub: GET /ops/oauth-login stores a login in   *)
(* the server's memory (pending_auth) and names it in the browser's        *)
(* csrf_id cookie; GET /ops/oauth-callback takes it out again, compares    *)
(* the OAuth state and asks GitHub for the user.  A background task        *)
(* forgets logins that were never finished, and a restart forgets all.     *)
(*                                                                         *)
(* The random csrf_id and the random OAuth state are drawn together, so    *)
(* one value stands for both: `pending.state = query.state` is "the cookie *)
(* and the callback are of the same login".  GitHub itself is external.    *)
(***************************************************************************)
EXTENDS Integers

CONSTANTS
  Browsers,
  Users,     \* GitHub users
  Members,   \* those in GITHUB_TEAM; membership does not change here
  Logins,    \* the random values of a login; reused when nothing holds them
  TTL,       \* 15 minutes, in ticks
  Interval,  \* 5 minutes: the time between two runs of the cleanup task
  Nil

ASSUME MembersAssumption == Members \subseteq Users
ASSUME TTLAssumption == TTL \in Nat \ {0}
ASSUME IntervalAssumption == Interval \in Nat \ {0}
ASSUME NilAssumption == Nil \notin Users \cup Logins \cup Int

VARIABLES
  pending_auth,  \* pending_auth[i]: the age of login i, Nil when not stored
  wait,          \* the time until the cleanup task runs again
  csrf_id,       \* csrf_id[b]: the login named in b's cookie
  user_session,  \* user_session[b]: the user in b's session cookie
  exchanging     \* exchanging[b]: b's logins whose callback talks to GitHub

browser == <<csrf_id, user_session>>
vars == <<pending_auth, wait, browser, exchanging>>

\* What one cleanup keeps may be TTL - 1 old and ages until the next.
Ages == 0 .. TTL - 1 + Interval

TypeOK == /\ pending_auth \in [Logins -> Ages \cup {Nil}]
          /\ wait \in 0..Interval
          /\ csrf_id \in [Browsers -> Logins \cup {Nil}]
          /\ user_session \in [Browsers -> Users \cup {Nil}]
          /\ exchanging \in [Browsers -> SUBSET Logins]

\* tokio's interval ticks once at its start.
Init == /\ pending_auth = [i \in Logins |-> Nil]
        /\ wait = 0
        /\ csrf_id = [b \in Browsers |-> Nil]
        /\ user_session = [b \in Browsers |-> Nil]
        /\ exchanging = [b \in Browsers |-> {}]

Stored(i) == pending_auth[i] # Nil

\* A value no one holds: what a random draw yields.
Fresh(i) == /\ ~Stored(i)
            /\ \A b \in Browsers : i \notin exchanging[b] \cup {csrf_id[b]}

-----------------------------------------------------------------------------

ops_oauth_login(b) ==
  /\ \E i \in Logins :
       /\ Fresh(i)
       /\ pending_auth' = [pending_auth EXCEPT ![i] = 0]
       /\ csrf_id' = [csrf_id EXCEPT ![b] = i]
  /\ UNCHANGED <<wait, user_session, exchanging>>

\* Mutant: the login is looked up and not taken out.
ops_oauth_callback_Gets(b, i) ==
  /\ csrf_id[b] # Nil
  /\ exchanging' = IF Stored(csrf_id[b]) /\ csrf_id[b] = i
                     THEN [exchanging EXCEPT ![b] = @ \cup {i}]
                     ELSE exchanging
  /\ UNCHANGED <<pending_auth, wait, browser>>

\* b calls back with the OAuth state i in the query: that of the login it comes
\* from, of an older tab, of a page that is loaded again, or of somebody else's
\* login or link.  The login the cookie names is taken out whether or not it is
\* the one that came back.
ops_oauth_callback(b, i) ==
  /\ csrf_id[b] # Nil
  /\ pending_auth' = [pending_auth EXCEPT ![csrf_id[b]] = Nil]
  /\ exchanging' = IF Stored(csrf_id[b]) /\ csrf_id[b] = i
                     THEN [exchanging EXCEPT ![b] = @ \cup {i}]
                     ELSE exchanging
  /\ UNCHANGED <<wait, browser>>

\* The token exchange, the membership check and get_user are done: the session
\* cookie is set for a member, and nothing is when one of them fails.
FinishCallback(b, i) ==
  /\ i \in exchanging[b]
  /\ exchanging' = [exchanging EXCEPT ![b] = @ \ {i}]
  /\ \/ \E u \in Members : user_session' = [user_session EXCEPT ![b] = u]
     \/ UNCHANGED user_session
  /\ UNCHANGED <<pending_auth, wait, csrf_id>>

ops_logout(b) ==
  /\ user_session[b] # Nil
  /\ user_session' = [user_session EXCEPT ![b] = Nil]
  /\ UNCHANGED <<pending_auth, wait, csrf_id, exchanging>>

\* Time passes, not past the moment the cleanup task is due.
Tick == /\ wait > 0
        /\ wait' = wait - 1
        /\ pending_auth' = [i \in Logins |->
                              IF Stored(i) THEN pending_auth[i] + 1 ELSE Nil]
        /\ UNCHANGED <<browser, exchanging>>

\* Mutant: the comparison keeps what is exactly TTL old.
Cleanup_Late == /\ wait = 0
                /\ wait' = Interval
                /\ pending_auth' = [i \in Logins |->
                                      IF Stored(i) /\ pending_auth[i] <= TTL
                                        THEN pending_auth[i] ELSE Nil]
                /\ UNCHANGED <<browser, exchanging>>

\* Mutant: half the TTL.
Cleanup_Early == /\ wait = 0
                 /\ wait' = Interval
                 /\ pending_auth' = [i \in Logins |->
                                       IF Stored(i) /\ 2 * pending_auth[i] < TTL
                                         THEN pending_auth[i] ELSE Nil]
                 /\ UNCHANGED <<browser, exchanging>>

\* Mutant: looking at an entry counts as using it.
Cleanup_Refreshes == /\ wait = 0
                     /\ wait' = Interval
                     /\ pending_auth' = [i \in Logins |->
                                           IF Stored(i) /\ pending_auth[i] < TTL
                                             THEN 0 ELSE Nil]
                     /\ UNCHANGED <<browser, exchanging>>

Cleanup == /\ wait = 0
           /\ wait' = Interval
           /\ pending_auth' = [i \in Logins |->
                                 IF Stored(i) /\ pending_auth[i] < TTL
                                   THEN pending_auth[i] ELSE Nil]
           /\ UNCHANGED <<browser, exchanging>>

Restart == /\ pending_auth' = [i \in Logins |-> Nil]
           /\ exchanging' = [b \in Browsers |-> {}]
           /\ wait' = 0
           /\ UNCHANGED browser

Next == \/ \E b \in Browsers :
             \/ ops_oauth_login(b)
             \/ ops_logout(b)
             \/ \E i \in Logins : \/ ops_oauth_callback(b, i)
                                  \/ FinishCallback(b, i)
        \/ Tick
        \/ Cleanup
        \/ Restart

Spec == Init /\ [][Next]_vars

\* The task runs as long as the process does, and time passes.
FairSpec == Spec /\ WF_vars(Tick) /\ WF_vars(Cleanup)

-----------------------------------------------------------------------------

\* One login, one exchange: while a callback talks to GitHub its login is not
\* there for another, however often the page is loaded, and a browser exchanges
\* only a login that it started itself, whatever state its callback brings.
ExchangedOnce ==
  \A b, c \in Browsers : \A i \in exchanging[b] :
    ~Stored(i) /\ (i \in exchanging[c] => b = c)

\* A started login is there when the operator comes back within TTL: it leaves
\* the server's memory only by a callback of its own browser, by its age, or
\* with the process.  That a callback with another state takes it too is why
\* two login tabs spoil each other.
LoginsAreKept ==
  [][\A i \in Logins :
       Stored(i) /\ pending_auth'[i] = Nil =>
         \/ \E b \in Browsers : csrf_id[b] = i /\ \E j \in Logins :
              ops_oauth_callback(b, j)
         \/ pending_auth[i] >= TTL
         \/ Restart]_vars

\* Logins nobody finishes do not pile up.
UnfinishedLoginsAreForgotten == \A i \in Logins : Stored(i) ~> ~Stored(i)
=============================================================================
