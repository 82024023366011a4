----------------------------- MODULE AuthStore -----------------------------
(***************************************************************************)
(* The records the server keeps in Redis, and every command it runs on     *)
(* them: one `auth:{key}` hash per key and one `state:{s}` set per state.  *)
(* Redis runs a Lua script, an HMGET or an HSET with nothing in between,   *)
(* so each is one action.  An operator that can answer in more than one    *)
(* way takes the reply as a parameter that the action constrains.          *)
(*                                                                         *)
(* The hash's fields `updated`, `createdAt` and `lastAccess` are display   *)
(* data and are left out.                                                  *)
(***************************************************************************)
EXTENDS Integers, FiniteSets

CONSTANTS
  Keys,        \* the public keys clients register
  Payloads,    \* the caller-supplied `payload` of a registration
  Tokens,      \* the random 32-byte authTokens
  Claims,      \* the `verified` objects the admin API writes, told apart by the
               \* normalized email in them
  MaxPending,  \* MAX_PENDING_REQUESTS
  Nil          \* an absent hash field

ASSUME KeysAssumption == IsFiniteSet(Keys)
ASSUME MaxPendingAssumption == MaxPending \in Nat
ASSUME NilAssumption == /\ Nil \notin {"pending", "authorized", "blocked"}
                        /\ Nil \notin Tokens \cup Claims
                        /\ Nil \notin [payload : Payloads,
                                       token : Tokens \cup {Nil}]

VARIABLES
  hash,   \* hash[k]: the fields of `auth:{k}`
  index   \* index[s]: the members of `state:{s}`

store == <<hash, index>>

States == {"pending", "authorized", "blocked"}

\* What is kept of the `json` field: the payload, and the authToken that
\* authenticate_key adds.
Json == [payload : Payloads, token : Tokens \cup {Nil}]

Hashes == [state    : States \cup {Nil},
           json     : Json \cup {Nil},
           verified : Claims \cup {Nil}]

\* A Redis hash with no field is a key that does not exist.
NoHash == [state |-> Nil, json |-> Nil, verified |-> Nil]

Exists(k) == hash[k] # NoHash

StoreTypeOK == /\ hash \in [Keys -> Hashes]
               /\ index \in [States -> SUBSET Keys]

StoreInit == /\ hash = [k \in Keys |-> NoHash]
             /\ index = [s \in States |-> {}]

Srem(idx, s, k) == [idx EXCEPT ![s] = @ \ {k}]
Sadd(idx, s, k) == [idx EXCEPT ![s] = @ \cup {k}]

-----------------------------------------------------------------------------
(***************************************************************************)
(* The Lua scripts.                                                        *)
(***************************************************************************)

\* Mutant: the comparison is off by one.
add_pending_OneMore(k, payload, reply) ==
  \/ /\ Exists(k)
     /\ reply = "already_exists"
     /\ UNCHANGED store
  \/ /\ ~Exists(k)
     /\ Cardinality(index["pending"]) > MaxPending
     /\ reply = "limit_reached"
     /\ UNCHANGED store
  \/ /\ ~Exists(k)
     /\ Cardinality(index["pending"]) <= MaxPending
     /\ reply = "OK"
     /\ hash' = [hash EXCEPT ![k].state = "pending",
                             ![k].json = [payload |-> payload, token |-> Nil]]
     /\ index' = Sadd(index, "pending", k)

add_pending(k, payload, reply) ==
  \/ /\ Exists(k)
     /\ reply = "already_exists"
     /\ UNCHANGED store
  \/ /\ ~Exists(k)
     /\ Cardinality(index["pending"]) >= MaxPending
     /\ reply = "limit_reached"
     /\ UNCHANGED store
  \/ /\ ~Exists(k)
     /\ Cardinality(index["pending"]) < MaxPending
     /\ reply = "OK"
     /\ hash' = [hash EXCEPT ![k].state = "pending",
                             ![k].json = [payload |-> payload, token |-> Nil]]
     /\ index' = Sadd(index, "pending", k)

\* Mutant: SADD before SREM, which loses a key moved to the state it is in.
transition_AddsFirst(k, from, to, reply) ==
  \/ /\ hash[k].state = Nil
     /\ reply = "not_found"
     /\ UNCHANGED store
  \/ /\ hash[k].state \notin {Nil, from}
     /\ reply = "invalid_state"
     /\ UNCHANGED store
  \/ /\ hash[k].state = from
     /\ reply = "OK"
     /\ hash' = [hash EXCEPT ![k].state = to]
     /\ index' = Srem(Sadd(index, to, k), from, k)

\* Mutant: the expected state is not compared.
transition_Unchecked(k, from, to, reply) ==
  \/ /\ hash[k].state = Nil
     /\ reply = "not_found"
     /\ UNCHANGED store
  \/ /\ hash[k].state # Nil
     /\ reply = "OK"
     /\ hash' = [hash EXCEPT ![k].state = to]
     /\ index' = Sadd(Srem(index, hash[k].state, k), to, k)

transition(k, from, to, reply) ==
  \/ /\ hash[k].state = Nil
     /\ reply = "not_found"
     /\ UNCHANGED store
  \/ /\ hash[k].state \notin {Nil, from}
     /\ reply = "invalid_state"
     /\ UNCHANGED store
  \/ /\ hash[k].state = from
     /\ reply = "OK"
     /\ hash' = [hash EXCEPT ![k].state = to]
     /\ index' = Sadd(Srem(index, from, k), to, k)

delete(k, reply) ==
  /\ reply = "OK"
  /\ hash' = [hash EXCEPT ![k] = NoHash]
  /\ index' = IF hash[k].state = Nil THEN index
                                     ELSE Srem(index, hash[k].state, k)

set_verified(k, claim, reply) ==
  \/ /\ ~Exists(k)
     /\ reply = "none"
     /\ UNCHANGED store
  \/ /\ Exists(k)
     /\ reply = "OK"
     /\ hash' = [hash EXCEPT ![k].verified = claim]
     /\ UNCHANGED index

-----------------------------------------------------------------------------
(***************************************************************************)
(* The plain commands.  redis_get_object reads all three fields at once    *)
(* and yields a record only when both `state` and `json` are there.  The   *)
(* HSET of authenticate_key writes `json` alone, and, like every HSET,     *)
(* creates the hash when there is none.                                    *)
(***************************************************************************)

redis_get_object(k) ==
  IF hash[k].state # Nil /\ hash[k].json # Nil THEN hash[k] ELSE NoHash

\* Mutant: the login writes the record it read back, without `verified`.
hset_json_WholeRecord(k, json) ==
  /\ hash' = [hash EXCEPT ![k].json = json, ![k].verified = Nil]
  /\ UNCHANGED index

\* Mutant: a token that is stored already stays, whatever the login answers.
hset_json_FirstWins(k, json) ==
  /\ hash' = IF hash[k].json # Nil /\ hash[k].json.token # Nil
               THEN hash ELSE [hash EXCEPT ![k].json = json]
  /\ UNCHANGED index

hset_json(k, json) ==
  /\ hash' = [hash EXCEPT ![k].json = json]
  /\ UNCHANGED index

\* Any command that writes the record of k.  A login's HSET always carries a
\* token.
Update(k) ==
  \/ \E d \in Payloads : add_pending(k, d, "OK")
  \/ \E from, to \in States : transition(k, from, to, "OK")
  \/ delete(k, "OK")
  \/ \E claim \in Claims : set_verified(k, claim, "OK")
  \/ \E json \in Json : json.token # Nil /\ hset_json(k, json)
=============================================================================
