------------------------------ MODULE OpsForms ------------------------------
(***************************************************************************)
(* The dashboard and its forms: GET /ops/auth hands the logged-in operator *)
(* a CSRF token kept per user in the server's memory (csrf_tokens), and    *)
(* POST /ops/approve, /ops/block and /ops/delete act only when the form    *)
(* carries it.  The cleanup task forgets tokens that no page load has      *)
(* touched for TTL; a restart forgets all.  What a form does to a key is   *)
(* OpsConsole's; logging in is OpsLogin.                                   *)
(*                                                                         *)
(* Behind a load balancer there are several servers.  They share the key   *)
(* that signs the session cookies, so each knows every operator, and which *)
(* of them a request is sent to is the balancer's choice (Reaches).        *)
(***************************************************************************)
EXTENDS Integers, FiniteSets

CONSTANTS
  Servers,     \* the server processes behind one address
  Browsers,
  Reaches,     \* Reaches[b]: the servers the balancer may send b's requests to
  Members,     \* the operators
  FormTokens,  \* random CSRF tokens; reused when nothing holds them
  TTL,         \* 15 minutes, in ticks
  Interval,    \* 5 minutes, the time between two runs of the cleanup task
  MaxPages,    \* bound: pages a browser has open at once
  Nil

ASSUME ReachesAssumption == Reaches \in [Browsers -> SUBSET Servers]
ASSUME MaxPagesAssumption == MaxPages \in Nat
ASSUME TTLAssumption == TTL \in Nat \ {0}
ASSUME IntervalAssumption == Interval \in Nat \ {0}
ASSUME NilAssumption == /\ Nil \notin Members \cup FormTokens
                        /\ Nil \notin [token : FormTokens, age : Nat]

VARIABLES
  csrf_tokens,   \* csrf_tokens[s][u]: u's token at s and its age, or Nil
  wait,          \* wait[s]: the time until the cleanup task of s runs again
  user_session,  \* user_session[b]: the user in b's session cookie
  pages,         \* pages[b]: the dashboards open in b's tabs
  outcome        \* outcome[b]: what b's last form came to

vars == <<csrf_tokens, wait, user_session, pages, outcome>>

\* What one cleanup keeps may be TTL - 1 old and ages until the next.
Entries == [token : FormTokens, age : 0 .. TTL - 1 + Interval]

\* An open page: whose it is, the token in its forms, and how long ago it was
\* loaded (history; TTL once it is that old or a server it may be sent to
\* restarted since).
Pages == [user : Members, token : FormTokens, age : 0..TTL]

\* "acted" names the page's user and the user the server took it for.
Outcomes == [what : {"none", "login", "invalid_csrf"}]
              \cup [what : {"acted"}, page : Pages, as : Members]

TypeOK == /\ csrf_tokens \in [Servers -> [Members -> Entries \cup {Nil}]]
          /\ wait \in [Servers -> 0..Interval]
          /\ user_session \in [Browsers -> Members \cup {Nil}]
          /\ pages \in [Browsers -> SUBSET Pages]
          /\ outcome \in [Browsers -> Outcomes]

NoTokens == [u \in Members |-> Nil]

Init == /\ csrf_tokens = [s \in Servers |-> NoTokens]
        /\ wait = [s \in Servers |-> 0]
        /\ user_session = [b \in Browsers |-> Nil]
        /\ pages = [b \in Browsers |-> {}]
        /\ outcome = [b \in Browsers |-> [what |-> "none"]]

Stored(s, u) == csrf_tokens[s][u] # Nil

\* A value no one holds: what a random draw yields.
Fresh(t) == /\ \A s \in Servers, u \in Members :
                   Stored(s, u) => csrf_tokens[s][u].token # t
            /\ \A b \in Browsers : \A page \in pages[b] : page.token # t

-----------------------------------------------------------------------------

\* What a finished OAuth callback and GET /ops/logout do to the cookie.
SignIn(b, u) == /\ user_session' = [user_session EXCEPT ![b] = u]
                /\ UNCHANGED <<csrf_tokens, wait, pages, outcome>>

ops_logout(b) == /\ user_session[b] # Nil
                 /\ user_session' = [user_session EXCEPT ![b] = Nil]
                 /\ UNCHANGED <<csrf_tokens, wait, pages, outcome>>

\* entry(username).or_insert_with(..), and created_at = now in either case.
csrf_entry(s, u, t) == IF Stored(s, u) THEN csrf_tokens[s][u].token = t
                                      ELSE Fresh(t)

\* Mutant: a page load does not renew the token's age.
ops_auth_NoRefresh(s, b) ==
  LET u == user_session[b] IN
  /\ u # Nil
  /\ Cardinality(pages[b]) < MaxPages
  /\ \E t \in FormTokens :
       /\ csrf_entry(s, u, t)
       /\ csrf_tokens' = [csrf_tokens EXCEPT ![s][u] =
                            [token |-> t, age |-> IF @ = Nil THEN 0 ELSE @.age]]
       /\ pages' = [pages EXCEPT ![b] =
                      @ \cup {[user |-> u, token |-> t, age |-> 0]}]
  /\ UNCHANGED <<wait, user_session, outcome>>

ops_auth(s, b) ==
  LET u == user_session[b] IN
  /\ u # Nil
  /\ Cardinality(pages[b]) < MaxPages
  /\ \E t \in FormTokens :
       /\ csrf_entry(s, u, t)
       /\ csrf_tokens' = [csrf_tokens EXCEPT ![s][u] = [token |-> t, age |-> 0]]
       /\ pages' = [pages EXCEPT ![b] =
                      @ \cup {[user |-> u, token |-> t, age |-> 0]}]
  /\ UNCHANGED <<wait, user_session, outcome>>

\* Mutant: any token will do as long as the operator has one.
csrf_ok_Present(s, u, token) == Stored(s, u)

csrf_ok(s, u, token) == Stored(s, u) /\ csrf_tokens[s][u].token = token

\* The forms check alike: ops_approve, ops_block, ops_delete.
ops_form(s, b, page) ==
  LET u == user_session[b] IN
  /\ page \in pages[b]
  /\ outcome' = [outcome EXCEPT ![b] =
                   IF u = Nil THEN [what |-> "login"]
                   ELSE IF csrf_ok(s, u, page.token)
                     THEN [what |-> "acted", page |-> page, as |-> u]
                     ELSE [what |-> "invalid_csrf"]]
  /\ UNCHANGED <<csrf_tokens, wait, user_session, pages>>

ClosePage(b, page) ==
  /\ page \in pages[b]
  /\ pages' = [pages EXCEPT ![b] = @ \ {page}]
  /\ outcome' = [outcome EXCEPT ![b] = [what |-> "none"]]
  /\ UNCHANGED <<csrf_tokens, wait, user_session>>

-----------------------------------------------------------------------------

\* Past TTL a page's age tells nothing more.
Older(page) == [page EXCEPT !.age = IF @ < TTL THEN @ + 1 ELSE TTL]

\* Time passes, not past the moment a cleanup task is due.
Tick == /\ \A s \in Servers : wait[s] > 0
        /\ wait' = [s \in Servers |-> wait[s] - 1]
        /\ csrf_tokens' = [s \in Servers |-> [u \in Members |->
                             IF Stored(s, u)
                               THEN [csrf_tokens[s][u] EXCEPT !.age = @ + 1]
                               ELSE Nil]]
        /\ pages' = [b \in Browsers |-> {Older(page) : page \in pages[b]}]
        /\ outcome' = [b \in Browsers |-> [what |-> "none"]]
        /\ UNCHANGED user_session

\* Mutant: the comparison keeps what is exactly TTL old.
Cleanup_Late(s) ==
  /\ wait[s] = 0
  /\ wait' = [wait EXCEPT ![s] = Interval]
  /\ csrf_tokens' = [csrf_tokens EXCEPT ![s] = [u \in Members |->
                       IF Stored(s, u) /\ @[u].age <= TTL THEN @[u] ELSE Nil]]
  /\ UNCHANGED <<user_session, pages, outcome>>

Cleanup(s) ==
  /\ wait[s] = 0
  /\ wait' = [wait EXCEPT ![s] = Interval]
  /\ csrf_tokens' = [csrf_tokens EXCEPT ![s] = [u \in Members |->
                       IF Stored(s, u) /\ @[u].age < TTL THEN @[u] ELSE Nil]]
  /\ UNCHANGED <<user_session, pages, outcome>>

\* Session cookies outlive the process, its tokens do not.
Restart(s) ==
  /\ csrf_tokens' = [csrf_tokens EXCEPT ![s] = NoTokens]
  /\ wait' = [wait EXCEPT ![s] = 0]
  /\ pages' = [b \in Browsers |->
                 {IF s \in Reaches[b] THEN [page EXCEPT !.age = TTL] ELSE page :
                    page \in pages[b]}]
  /\ outcome' = [b \in Browsers |-> [what |-> "none"]]
  /\ UNCHANGED user_session

Next == \/ \E b \in Browsers :
             \/ \E u \in Members : SignIn(b, u)
             \/ ops_logout(b)
             \/ \E s \in Reaches[b] : ops_auth(s, b)
             \/ \E page \in pages[b] :
                  \/ \E s \in Reaches[b] : ops_form(s, b, page)
                  \/ ClosePage(b, page)
        \/ Tick
        \/ \E s \in Servers : Cleanup(s) \/ Restart(s)

Spec == Init /\ [][Next]_vars

-----------------------------------------------------------------------------

\* A form on a page the operator loaded less than TTL ago works, in every tab
\* and browser of that operator, at whatever server it is sent to and however
\* page loads, logouts and cleanups interleave, unless that server restarted
\* since.  With one server it holds, and with several when the balancer sends a
\* browser to the same one always (cookie affinity); README.md, "The service is
\* stateless regarding session data (stored in signed cookies), allowing for
\* horizontal scaling behind a load balancer", promises it without affinity.
FreshFormsWork ==
  \A b \in Browsers : \A s \in Reaches[b], page \in pages[b] :
    page.age < TTL => csrf_ok(s, page.user, page.token)

\* A form acts for the operator whose page it is: a page left open by one does
\* nothing under the session of the next.
FormsActForTheirUser ==
  \A b \in Browsers :
    outcome[b].what = "acted" => outcome[b].page.user = outcome[b].as
=============================================================================
