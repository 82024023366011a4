-------------------------- MODULE AuthRequirements --------------------------
(***************************************************************************)
(* What AuthServer must satisfy, apart from what it does.                  *)
(***************************************************************************)
EXTENDS AuthServer

\* The state sets and the hashes say the same: a key is in `state:{s}` exactly
\* when its hash holds state s, whatever handlers, retries and late commands
\* ran.  The console lists by the sets, every decision reads the hashes.
IndexConsistent ==
  \A k \in Keys, s \in States : k \in index[s] <=> hash[k].state = s

\* MAX_PENDING_REQUESTS bounds the pending registrations in storage
\* (add_pending.lua), as long as nobody moves a key back to pending.
PendingCap == Cardinality(index["pending"]) <= MaxPending

\* The requests a command may still be run for: those whose command is at Redis
\* and those whose command was given up on.
Outstanding == {call[p].req : p \in {q \in Procs : Sent(q)}}
                 \cup {cmd.req : cmd \in stray}

MoveRequested(k, from, to) ==
  \E r \in Outstanding : /\ r.op \in {"api_transition", "ops_move"}
                         /\ <<r.key, r.from, r.to>> = <<k, from, to>>

\* A key changes its state only as somebody asked: from one state to another
\* by a request that named both, so an operator who acts on a stale page or a
\* retried command never moves a key out of a state nobody was looking at; it
\* enters as pending by registering and leaves by a delete.  transition.lua
\* compares, add_pending.lua and delete.lua decide inside the script.
MovesWereRequested ==
  [][\A k \in Keys :
       LET from == hash[k].state
           to == hash'[k].state
       IN  \/ from = to
           \/ /\ from = Nil /\ to = "pending"
              /\ \E r \in Outstanding : r.op = "request_auth" /\ r.key = k
           \/ /\ from # Nil /\ to = Nil
              /\ \E r \in Outstanding : r.op = "ops_delete" /\ r.key = k
           \/ from # Nil /\ to # Nil /\ MoveRequested(k, from, to)]_vars

\* The records change by one whole command on one key at a time, also where a
\* handler needs two (a login) or runs twice, and a late login never writes a
\* record without a token.  KeyListing and OpsConsole take this for granted of
\* the other handlers.
RecordsChangeByCommands == [][\E k \in Keys : Update(k)]_store

\* The server implements the registry of KeyRegistry: the scripts, the retries
\* and the two-command authenticate amount to registrations, moves, removals
\* and attestations, each happening at once, and a login never loses a
\* `verified` write (storage.rs, set_verified's comment).
Registry == INSTANCE KeyRegistry WITH
  standing <- [k \in Keys |-> hash[k].state],
  claim <- [k \in Keys |-> IF hash[k].state = Nil THEN Nil
                                                   ELSE hash[k].verified]

ImplementsRegistry == Registry!Spec

\* Every request is answered, or dropped with its client or its server:
\* with_connection retries at most once, so no handler waits for ever however
\* often connections drop.
EveryCallEnds ==
  \A p \in Procs : InFlight(p) ~> ~InFlight(p)

\* What is left to a handler.  A login reads, has its HSET run and reads the
\* reply; anything else does less; and all of it happens once more at most.
StepsLeft(p) ==
  CASE ~InFlight(p)         -> 0
    [] call[p].pc = "send"  -> 3 + 3 * (1 - call[p].tries)
    [] call[p].pc = "write" -> 2 + 3 * (1 - call[p].tries)
    [] call[p].pc = "reply" -> 1 + 3 * (1 - call[p].tries)

\* Whatever happens to a handler brings it nearer to its end: between them, lost
\* connections, retries, a login's two commands and their replies come to six
\* steps at most.
HandlersRunOut ==
  [][\A p \in Procs :
       InFlight(p) /\ call'[p] # call[p] => StepsLeft(p)' < StepsLeft(p)]_vars

\* routes_client.rs on AlreadyRegistered: "The record already exists, so the
\* state the caller asked for already holds".  The script that makes a
\* registration answer 200 finds its key in some state, or puts it there.
RegisteredHasState ==
  [][\A p \in Procs :
       Sent(p) /\ call'[p].pc = "reply" /\ call'[p].req.op = "request_auth"
         /\ call'[p].status = 200
       => hash'[call'[p].req.key].state # Nil]_vars
=============================================================================
