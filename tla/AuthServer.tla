----------------------------- MODULE AuthServer -----------------------------
(***************************************************************************)
(* The HTTP handlers that work on the records of AuthStore: the client     *)
(* routes, the admin API and the operators' forms.  Handlers run           *)
(* concurrently, each awaiting Redis through Storage::with_connection,     *)
(* which runs the whole operation once more when the connection dropped.   *)
(* Several server processes may share one Redis; a slot belongs to one.    *)
(*                                                                         *)
(* A request here has passed its checks (key format, signature, bearer     *)
(* token, session); one that has not is answered before storage is         *)
(* touched and changes nothing.                                            *)
(***************************************************************************)
EXTENDS AuthStore

CONSTANTS
  Procs,     \* handler slots: how many requests may be served at once
  Requests,  \* the requests a run offers
  MaxStray   \* bound: lost commands that Redis may still run

ConsoleOps == {"ops_move", "ops_delete"}
ReadOps == {"api_get", "confirm_email"}

\* "api_transition" is POST /api/transition, "ops_move" is POST /ops/approve
\* and POST /ops/block, which choose the target state by route.
AllRequests ==
  [op : {"request_auth"}, key : Keys, payload : Payloads]
    \cup [op : {"authenticate", "api_get", "ops_delete"}, key : Keys]
    \cup [op : {"api_transition"}, key : Keys, from : States, to : States]
    \cup [op : {"ops_move"}, key : Keys, from : States,
          to : {"authorized", "blocked"}]
    \cup [op : {"set_verified", "confirm_email"}, key : Keys, claim : Claims]

ASSUME RequestsAssumption == Requests \subseteq AllRequests
ASSUME NoRequestAssumption == Nil \notin AllRequests
ASSUME MaxStrayAssumption == MaxStray \in Nat

VARIABLES
  call,    \* call[p]: the request slot p serves and how far it has come
  minted,  \* tokens drawn from the random generator so far
  stray    \* commands whose sender stopped waiting, still able to run

vars == <<hash, index, call, minted, stray>>

\* A command on its way to Redis.  An authenticate is an HMGET while it has no
\* JSON to write and an HSET once it has.
Commands == [req : Requests, json : Json \cup {Nil}]

Statuses == {0, 200, 202, 303, 401, 404, 429, 500}
Bodies == Tokens \cup States \cup {"true", "false", Nil}

Calls == [pc     : {"idle", "send", "write", "reply", "done"},
          req    : Requests \cup {Nil},
          tries  : {0, 1},
          json   : Json \cup {Nil},
          status : Statuses,
          body   : Bodies]

Idle == [pc |-> "idle", req |-> Nil, tries |-> 0, json |-> Nil,
         status |-> 0, body |-> Nil]

TypeOK == /\ StoreTypeOK
          /\ call \in [Procs -> Calls]
          /\ \A p \in Procs : call[p].pc # "idle" => call[p].req \in Requests
          /\ minted \subseteq Tokens
          /\ stray \subseteq Commands

Init == /\ StoreInit
        /\ call = [p \in Procs |-> Idle]
        /\ minted = {}
        /\ stray = {}

\* The slot has a command at Redis that has not run.
Sent(p) == call[p].pc \in {"send", "write"}

\* The slot serves a request: its command has not run, or its reply is on its
\* way.
InFlight(p) == Sent(p) \/ call[p].pc = "reply"

Command(p) == [req |-> call[p].req, json |-> call[p].json]

\* Mutant: a login's HSET runs though nothing was read.
Writes_Unread(cmd) == cmd.req.op \notin ReadOps

Writes(cmd) == \/ cmd.req.op \notin ReadOps \cup {"authenticate"}
               \/ cmd.json # Nil

-----------------------------------------------------------------------------
(***************************************************************************)
(* What a writing command does to the records.                             *)
(***************************************************************************)

Replies == {"OK", "already_exists", "limit_reached", "not_found",
            "invalid_state", "none"}

Apply(cmd, reply) ==
  LET r == cmd.req IN
  \/ r.op = "request_auth" /\ add_pending(r.key, r.payload, reply)
  \/ /\ r.op \in {"api_transition", "ops_move"}
     /\ transition(r.key, r.from, r.to, reply)
  \/ r.op = "ops_delete" /\ delete(r.key, reply)
  \/ r.op = "set_verified" /\ set_verified(r.key, r.claim, reply)
  \/ /\ r.op = "authenticate"
     /\ reply = "OK"
     /\ hset_json(r.key, cmd.json)

(***************************************************************************)
(* The HTTP answers.  The console redirects whatever storage said.         *)
(***************************************************************************)

StatusOf(op, reply) ==
  CASE op \in ConsoleOps      -> 303
    [] op = "request_auth"    -> IF reply = "limit_reached" THEN 429 ELSE 200
    [] op = "api_transition"  -> IF reply = "OK" THEN 200 ELSE 500
    [] op = "set_verified"    -> IF reply = "OK" THEN 200 ELSE 404
    [] OTHER                  -> 200

ErrorStatus(op) == IF op \in ConsoleOps THEN 303 ELSE 500

Answered(p, status, body) ==
  [call EXCEPT ![p] = [Idle EXCEPT !.pc = "done", !.req = call[p].req,
                                   !.status = status, !.body = body]]

\* A command of p's has run; status and body are what its reply will make p
\* answer.
Ran(p, status, body) ==
  [call EXCEPT ![p] = [Idle EXCEPT !.pc = "reply", !.req = call[p].req,
                                   !.tries = call[p].tries,
                                   !.status = status, !.body = body]]

\* The body an authenticate answers with is the token it asked Redis to write.
BodyOf(cmd) == IF cmd.json = Nil THEN Nil ELSE cmd.json.token

-----------------------------------------------------------------------------
(***************************************************************************)
(* The steps of a handler.                                                 *)
(***************************************************************************)

Receive(p, r) ==
  /\ ~InFlight(p)
  /\ call' = [call EXCEPT ![p] = [Idle EXCEPT !.pc = "send", !.req = r]]
  /\ UNCHANGED <<store, minted, stray>>

\* Redis runs the command; others run before its reply is read.
Execute(p) ==
  /\ Sent(p)
  /\ Writes(Command(p))
  /\ \E reply \in Replies :
       /\ Apply(Command(p), reply)
       /\ call' = Ran(p, StatusOf(call[p].req.op, reply), BodyOf(Command(p)))
  /\ UNCHANGED <<minted, stray>>

\* The handler reads the reply and answers.
Reply(p) ==
  /\ call[p].pc = "reply"
  /\ call' = Answered(p, call[p].status, call[p].body)
  /\ UNCHANGED <<store, minted, stray>>

(***************************************************************************)
(* The reads.  Redis runs an HMGET and its reply is read in one step: what *)
(* it found is the handler's own until it answers or sends its next        *)
(* command, and a reply that is lost is a Drop or a Fail before the read.  *)
(***************************************************************************)

api_get(p) ==
  LET record == redis_get_object(call[p].req.key) IN
  /\ call[p].pc = "send"
  /\ call[p].req.op = "api_get"
  /\ call' = IF record = NoHash THEN Answered(p, 404, Nil)
                                ELSE Answered(p, 200, record.state)
  /\ UNCHANGED <<store, minted, stray>>

email_matches(record, claim) ==
  /\ record.state = "authorized"
  /\ record.verified = claim

\* The last step of confirm_email, once both rate-limit counters let it pass.
confirm_email(p) ==
  LET record == redis_get_object(call[p].req.key) IN
  /\ call[p].pc = "send"
  /\ call[p].req.op = "confirm_email"
  /\ call' = IF email_matches(record, call[p].req.claim)
               THEN Answered(p, 200, "true") ELSE Answered(p, 200, "false")
  /\ UNCHANGED <<store, minted, stray>>

\* Mutant: a stored token is handed out before the state is looked at.
authenticate_read_TokenFirst(p) ==
  LET record == redis_get_object(call[p].req.key) IN
  /\ call[p].pc = "send"
  /\ call[p].req.op = "authenticate"
  /\ \/ /\ record = NoHash
        /\ call' = Answered(p, 401, Nil)
        /\ UNCHANGED minted
     \/ /\ record # NoHash
        /\ record.json.token # Nil
        /\ call' = [call EXCEPT ![p].pc = "write", ![p].json = record.json]
        /\ UNCHANGED minted
     \/ /\ record # NoHash
        /\ record.json.token = Nil
        /\ record.state # "authorized"
        /\ call' = Answered(p, IF record.state = "pending" THEN 202 ELSE 401,
                            Nil)
        /\ UNCHANGED minted
     \/ /\ record.state = "authorized"
        /\ record.json.token = Nil
        /\ \E t \in Tokens \ minted :
             /\ minted' = minted \cup {t}
             /\ call' = [call EXCEPT ![p].pc = "write",
                                     ![p].json = [record.json EXCEPT !.token = t]]
  /\ UNCHANGED <<store, stray>>

\* authenticate_key up to its HMGET's reply: refuse, or prepare the JSON to
\* write, with the stored token or, when there is none, with a new one.
authenticate_read(p) ==
  LET record == redis_get_object(call[p].req.key) IN
  /\ call[p].pc = "send"
  /\ call[p].req.op = "authenticate"
  /\ \/ /\ record.state # "authorized"
        /\ call' = Answered(p, IF record.state = "pending" THEN 202 ELSE 401,
                            Nil)
        /\ UNCHANGED minted
     \/ /\ record.state = "authorized"
        /\ record.json.token # Nil
        /\ call' = [call EXCEPT ![p].pc = "write", ![p].json = record.json]
        /\ UNCHANGED minted
     \/ /\ record.state = "authorized"
        /\ record.json.token = Nil
        /\ \E t \in Tokens \ minted :
             /\ minted' = minted \cup {t}
             /\ call' = [call EXCEPT ![p].pc = "write",
                                     ![p].json = [record.json EXCEPT !.token = t]]
  /\ UNCHANGED <<store, stray>>

-----------------------------------------------------------------------------
(***************************************************************************)
(* Failures.  A command whose sender gave up may never reach Redis, may    *)
(* have run with its reply lost, or may run at any later time: a dropped   *)
(* connection or a timeout does not tell.                                  *)
(***************************************************************************)

GiveUp(p) ==
  \/ UNCHANGED stray
  \/ /\ Sent(p)
     /\ Writes(Command(p))
     /\ Cardinality(stray) < MaxStray
     /\ stray' = stray \cup {Command(p)}

Retry(p) ==
  [call EXCEPT ![p] = [Idle EXCEPT !.pc = "send", !.req = call[p].req,
                                   !.tries = 1]]

\* Mutant: every dropped connection is retried.
Drop_ForEver(p) ==
  /\ InFlight(p)
  /\ GiveUp(p)
  /\ call' = Retry(p)
  /\ UNCHANGED <<store, minted>>

\* Mutant: a second retry.
Drop_Twice(p) ==
  /\ InFlight(p)
  /\ GiveUp(p)
  /\ call' = IF call[p].tries < 2
               THEN [Retry(p) EXCEPT ![p].tries = call[p].tries + 1]
               ELSE Answered(p, ErrorStatus(call[p].req.op), Nil)
  /\ UNCHANGED <<store, minted>>

\* with_connection: a dropped connection reruns the closure from its start,
\* once; the second drop is the caller's error.
Drop(p) ==
  /\ InFlight(p)
  /\ GiveUp(p)
  /\ call' = IF call[p].tries = 0
               THEN Retry(p)
               ELSE Answered(p, ErrorStatus(call[p].req.op), Nil)
  /\ UNCHANGED <<store, minted>>

\* Any other error, a timeout among them, is not retried.
Fail(p) ==
  /\ InFlight(p)
  /\ GiveUp(p)
  /\ call' = Answered(p, ErrorStatus(call[p].req.op), Nil)
  /\ UNCHANGED <<store, minted>>

\* A command given up on reaches Redis after all; nobody reads the reply.
Deliver(cmd) ==
  /\ cmd \in stray
  /\ \E reply \in Replies : Apply(cmd, reply)
  /\ stray' = stray \ {cmd}
  /\ UNCHANGED <<call, minted>>

\* A handler ends unanswered: its client hung up, which drops the task, or its
\* process ended (one process's end is an Abandon of each of its slots).  The
\* command it had sent is on its own.
Abandon(p) ==
  /\ InFlight(p)
  /\ GiveUp(p)
  /\ call' = [call EXCEPT ![p] = Idle]
  /\ UNCHANGED <<store, minted>>

Proceed(p) == \/ Execute(p)
              \/ Reply(p)
              \/ api_get(p)
              \/ confirm_email(p)
              \/ authenticate_read(p)
              \/ Drop(p)
              \/ Fail(p)

Next == \/ \E p \in Procs : Proceed(p)
        \/ \E p \in Procs, r \in Requests : Receive(p, r)
        \/ \E p \in Procs : Abandon(p)
        \/ \E cmd \in stray : Deliver(cmd)

Spec == Init /\ [][Next]_vars

\* Redis answers, or the connection reports an error: a handler that waits
\* does not wait for ever.
FairSpec == Spec /\ \A p \in Procs : WF_vars(Proceed(p))
=============================================================================
