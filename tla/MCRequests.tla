----------------------------- MODULE MCRequests -----------------------------
(***************************************************************************)
(* What the runs of AuthServer offer: every set is over all of Keys.        *)
(***************************************************************************)
EXTENDS AuthServer, TLC

SomeKey == CHOOSE k \in Keys : TRUE
SomePayload == CHOOSE x \in Payloads : TRUE
SomeClaim == CHOOSE c \in Claims : TRUE

Register(k) == [op |-> "request_auth", key |-> k, payload |-> SomePayload]
Authenticate(k) == [op |-> "authenticate", key |-> k]
Delete(k) == [op |-> "ops_delete", key |-> k]
Attest(k) == [op |-> "set_verified", key |-> k, claim |-> SomeClaim]
Confirm(k) == [op |-> "confirm_email", key |-> k, claim |-> SomeClaim]
Get(k) == [op |-> "api_get", key |-> k]
OpsMove(k, from, to) ==
  [op |-> "ops_move", key |-> k, from |-> from, to |-> to]
ApiMove(k, from, to) ==
  [op |-> "api_transition", key |-> k, from |-> from, to |-> to]

\* The moves the console page offers buttons for (templates/protected.html).
ConsoleMoves(k) == {OpsMove(k, "pending", "authorized"),
                    OpsMove(k, "pending", "blocked"),
                    OpsMove(k, "authorized", "blocked"),
                    OpsMove(k, "blocked", "authorized")}

\* Every kind of write against a login and a confirmation, on each key, and the
\* move to the state the key is in, where transition.lua's order of SREM and
\* SADD counts.
RaceRequests == UNION {{Register(k), Authenticate(k), Delete(k), Attest(k),
                        Confirm(k), ApiMove(k, "pending", "pending")}
                         \cup ConsoleMoves(k) : k \in Keys}

\* Registrations of every key against deletes that free room, and on one key an
\* approval, which frees room as well, and the logins and lookups that follow it.
CapRequests == UNION {{Register(k), Delete(k)} : k \in Keys}
                 \cup {OpsMove(SomeKey, "pending", "authorized"),
                       Authenticate(SomeKey), Get(SomeKey)}

\* Registrations with the admin API, which may move a key back to pending.
ApiRequests == UNION {{Register(k), Delete(k),
                       ApiMove(k, "pending", "authorized"),
                       ApiMove(k, "authorized", "pending")} : k \in Keys}

\* Every answer that tells something about a key, while the admin API moves it.
AnswerRequests == UNION {{Register(k), Authenticate(k), Get(k), Confirm(k),
                          Attest(k),
                          ApiMove(k, "pending", "authorized"),
                          ApiMove(k, "authorized", "blocked")} : k \in Keys}

ProcSymmetry == Permutations(Procs)
AnswerSymmetry == ProcSymmetry \cup Permutations(Tokens)
=============================================================================
