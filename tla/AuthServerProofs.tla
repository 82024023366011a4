-------------------------- MODULE AuthServerProofs --------------------------
(***************************************************************************)
(* Proofs about AuthServer, for every set of keys, tokens, claims, slots   *)
(* and requests, every MaxPending and every bound on late commands.        *)
(***************************************************************************)
EXTENDS AuthRequirements, FiniteSetTheorems, TLAPS

USE DEF States

-----------------------------------------------------------------------------
(***************************************************************************)
(* Lemmas on the requests and on what one command does to the records.     *)
(***************************************************************************)

\* The fields a request has follow from its operation.
LEMMA RequestFields ==
  ASSUME NEW r \in Requests
  PROVE  /\ r.key \in Keys
         /\ r.op = "request_auth" => r.payload \in Payloads
         /\ r.op \in {"api_transition", "ops_move"}
              => r.from \in States /\ r.to \in States
         /\ r.op \in {"set_verified", "confirm_email"} => r.claim \in Claims
BY RequestsAssumption DEF AllRequests

\* The states differ from an absent one and from each other.
LEMMA NilIsNoState == Nil \notin States /\ Nil \notin Json
BY NilAssumption DEF Json

\* Every writing command leaves well-typed records.
LEMMA ApplyKeepsType ==
  ASSUME StoreTypeOK, NEW cmd \in Commands, NEW reply, Apply(cmd, reply)
  PROVE  StoreTypeOK'
<1> DEFINE r == cmd.req
<1>1. r \in Requests /\ cmd.json \in Json \cup {Nil}
  BY DEF Commands
<1>2. r.key \in Keys
  BY <1>1, RequestFields
<1>3. CASE r.op = "request_auth" /\ add_pending(r.key, r.payload, reply)
  <2>1. r.payload \in Payloads
    BY <1>1, <1>3, RequestFields
  <2>2. [payload |-> r.payload, token |-> Nil] \in Json
    BY <2>1 DEF Json
  <2> QED
    BY <1>2, <1>3, <2>2 DEF add_pending, StoreTypeOK, Hashes, Sadd, store
<1>4. CASE /\ r.op \in {"api_transition", "ops_move"}
           /\ transition(r.key, r.from, r.to, reply)
  <2>1. r.from \in States /\ r.to \in States
    BY <1>1, <1>4, RequestFields
  <2> QED
    BY <1>2, <1>4, <2>1 DEF transition, StoreTypeOK, Hashes, Sadd, Srem, store
<1>5. CASE r.op = "ops_delete" /\ delete(r.key, reply)
  BY <1>2, <1>5 DEF delete, StoreTypeOK, Hashes, NoHash, Srem
<1>6. CASE r.op = "set_verified" /\ set_verified(r.key, r.claim, reply)
  <2>1. r.claim \in Claims
    BY <1>1, <1>6, RequestFields
  <2> QED
    BY <1>2, <1>6, <2>1 DEF set_verified, StoreTypeOK, Hashes, store
<1>7. CASE r.op = "authenticate" /\ hset_json(r.key, cmd.json)
  BY <1>1, <1>2, <1>7 DEF hset_json, StoreTypeOK, Hashes
<1> QED
  BY <1>3, <1>4, <1>5, <1>6, <1>7 DEF Apply

\* Every writing command keeps the sets and the hashes in step.
LEMMA ApplyKeepsIndex ==
  ASSUME StoreTypeOK, IndexConsistent,
         NEW cmd \in Commands, NEW reply, Apply(cmd, reply)
  PROVE  IndexConsistent'
<1> DEFINE r == cmd.req
<1>1. r \in Requests
  BY DEF Commands
<1>2. r.key \in Keys
  BY <1>1, RequestFields
<1> USE NilIsNoState DEF IndexConsistent, StoreTypeOK, Hashes
<1>3. CASE r.op = "request_auth" /\ add_pending(r.key, r.payload, reply)
  BY <1>2, <1>3 DEF add_pending, Sadd, store, Exists, NoHash
<1>4. CASE /\ r.op \in {"api_transition", "ops_move"}
           /\ transition(r.key, r.from, r.to, reply)
  <2>1. r.from \in States /\ r.to \in States
    BY <1>1, <1>4, RequestFields
  <2> QED
    BY <1>2, <1>4, <2>1 DEF transition, Sadd, Srem, store
<1>5. CASE r.op = "ops_delete" /\ delete(r.key, reply)
  BY <1>2, <1>5 DEF delete, NoHash, Srem
<1>6. CASE r.op = "set_verified" /\ set_verified(r.key, r.claim, reply)
  BY <1>2, <1>6 DEF set_verified, store
<1>7. CASE r.op = "authenticate" /\ hset_json(r.key, cmd.json)
  BY <1>2, <1>7 DEF hset_json
<1> QED
  BY <1>3, <1>4, <1>5, <1>6, <1>7 DEF Apply

-----------------------------------------------------------------------------
(***************************************************************************)
(* Type correctness.                                                       *)
(***************************************************************************)

\* The part of TypeOK that is about the handlers.
CallsOK == /\ call \in [Procs -> Calls]
           /\ \A p \in Procs : call[p].pc # "idle" => call[p].req \in Requests

\* A slot in flight serves a request, and what it sends is a command.
LEMMA CommandType ==
  ASSUME TypeOK, NEW p \in Procs, InFlight(p)
  PROVE  call[p].req \in Requests /\ Command(p) \in Commands
BY DEF TypeOK, InFlight, Sent, Command, Commands, Calls

\* Answering leaves well-typed handlers.
LEMMA AnsweredKeepsType ==
  ASSUME TypeOK, NEW p \in Procs, InFlight(p),
         NEW status \in Statuses, NEW body \in Bodies,
         call' = Answered(p, status, body)
  PROVE  CallsOK'
<1>1. call[p].req \in Requests
  BY CommandType
<1>2. [Idle EXCEPT !.pc = "done", !.req = call[p].req,
                   !.status = status, !.body = body] \in Calls
  BY <1>1 DEF Idle, Calls
<1> QED
  BY <1>1, <1>2 DEF CallsOK, Answered, TypeOK, Idle

\* So does a command that runs, whose sender waits for the reply.
LEMMA RanKeepsType ==
  ASSUME TypeOK, NEW p \in Procs, InFlight(p),
         NEW status \in Statuses, NEW body \in Bodies,
         call' = Ran(p, status, body)
  PROVE  CallsOK'
<1>1. call[p].req \in Requests /\ call[p].tries \in {0, 1}
  BY CommandType DEF TypeOK, Calls
<1>2. [Idle EXCEPT !.pc = "reply", !.req = call[p].req,
                   !.tries = call[p].tries,
                   !.status = status, !.body = body] \in Calls
  BY <1>1 DEF Idle, Calls
<1> QED
  BY <1>1, <1>2 DEF CallsOK, Ran, TypeOK, Idle

\* The statuses a handler answers with.
LEMMA StatusType ==
  ASSUME NEW op, NEW reply
  PROVE  StatusOf(op, reply) \in Statuses /\ ErrorStatus(op) \in Statuses
BY DEF StatusOf, ErrorStatus, Statuses, ConsoleOps

\* Giving a command up keeps the late commands commands.
LEMMA GiveUpKeepsType ==
  ASSUME TypeOK, NEW p \in Procs, InFlight(p), GiveUp(p)
  PROVE  (stray \subseteq Commands)'
BY CommandType DEF TypeOK, GiveUp

\* Every step leaves a well-typed state.
LEMMA NextKeepsType ==
  ASSUME TypeOK, [Next]_vars
  PROVE  TypeOK'
<1> USE DEF CallsOK
<1>1. SUFFICES ASSUME Next PROVE TypeOK'
  BY DEF TypeOK, vars, StoreTypeOK, Calls, Commands
<1>2. ASSUME NEW p \in Procs, Execute(p) PROVE TypeOK'
  <2>1. InFlight(p) /\ Command(p) \in Commands
    BY <1>2, CommandType DEF Execute, InFlight
  <2>2. PICK reply \in Replies :
          /\ Apply(Command(p), reply)
          /\ call' = Ran(p, StatusOf(call[p].req.op, reply),
                         BodyOf(Command(p)))
    BY <1>2 DEF Execute
  <2>3. StoreTypeOK'
    BY <2>1, <2>2, ApplyKeepsType DEF TypeOK
  <2>4. BodyOf(Command(p)) \in Bodies
    BY <2>1 DEF BodyOf, Commands, Json, Bodies
  <2>5. CallsOK'
    BY <2>1, <2>2, <2>4, StatusType, RanKeepsType
  <2> QED
    BY <1>2, <2>3, <2>5 DEF TypeOK, Execute
<1>3. ASSUME NEW p \in Procs, api_get(p) PROVE TypeOK'
  <2> DEFINE record == redis_get_object(call[p].req.key)
  <2>1. InFlight(p)
    BY <1>3 DEF api_get, InFlight, Sent
  <2>2. record = NoHash \/ record.state \in States
    BY <2>1, CommandType, RequestFields
       DEF redis_get_object, TypeOK, StoreTypeOK, Hashes
  <2>3. CallsOK'
    <3>1. CASE record = NoHash
      BY <1>3, <2>1, <3>1, AnsweredKeepsType DEF api_get, Statuses, Bodies
    <3>2. CASE record # NoHash
      <4>1. record.state \in Bodies /\ 200 \in Statuses
        BY <2>2, <3>2 DEF Statuses, Bodies
      <4>2. call' = Answered(p, 200, record.state)
        BY <1>3, <3>2 DEF api_get
      <4> QED
        BY <2>1, <4>1, <4>2, AnsweredKeepsType
    <3> QED
      BY <3>1, <3>2
  <2> QED
    BY <1>3, <2>3 DEF TypeOK, api_get, store, StoreTypeOK
<1>4. ASSUME NEW p \in Procs, confirm_email(p) PROVE TypeOK'
  <2>1. InFlight(p)
    BY <1>4 DEF confirm_email, InFlight, Sent
  <2>2. \E body \in {"true", "false"} : call' = Answered(p, 200, body)
    BY <1>4 DEF confirm_email
  <2>3. CallsOK'
    BY <2>1, <2>2, AnsweredKeepsType DEF Statuses, Bodies
  <2> QED
    BY <1>4, <2>3 DEF TypeOK, confirm_email, store, StoreTypeOK
<1>5. ASSUME NEW p \in Procs, authenticate_read(p) PROVE TypeOK'
  <2> DEFINE record == redis_get_object(call[p].req.key)
  <2>1. InFlight(p) /\ call[p].req \in Requests
    BY <1>5, CommandType DEF authenticate_read, InFlight, Sent
  <2>2. record.state = "authorized" => record.json \in Json
    BY <2>1, RequestFields, NilAssumption
       DEF redis_get_object, TypeOK, StoreTypeOK, Hashes, NoHash
  <2>3. CallsOK' /\ minted' \subseteq Tokens
    <3>1. CASE record.state # "authorized"
      <4>1. PICK status \in {202, 401} : call' = Answered(p, status, Nil)
        BY <1>5, <3>1 DEF authenticate_read
      <4>2. status \in Statuses /\ Nil \in Bodies
        BY DEF Statuses, Bodies
      <4>3. CallsOK'
        BY <2>1, <4>1, <4>2, AnsweredKeepsType
      <4>4. minted' \subseteq Tokens
        BY <1>5, <3>1 DEF authenticate_read, TypeOK
      <4> QED
        BY <4>3, <4>4
    <3>2. CASE record.state = "authorized" /\ record.json.token # Nil
      BY <1>5, <2>1, <2>2, <3>2 DEF authenticate_read, TypeOK, Calls
    <3>3. CASE record.state = "authorized" /\ record.json.token = Nil
      <4>1. PICK t \in Tokens :
              /\ minted' = minted \cup {t}
              /\ call' = [call EXCEPT ![p].pc = "write",
                                      ![p].json = [record.json EXCEPT !.token = t]]
        BY <1>5, <3>3 DEF authenticate_read
      <4>2. PICK json \in Json :
              call' = [call EXCEPT ![p].pc = "write", ![p].json = json]
        BY <2>2, <3>3, <4>1 DEF Json
      <4> QED
        <5>1. minted' \subseteq Tokens
          BY <4>1 DEF TypeOK
        <5> DEFINE next == [call[p] EXCEPT !.pc = "write", !.json = json]
        <5>2. next \in Calls /\ next.req = call[p].req
          BY DEF TypeOK, Calls
        <5>3. call' = [call EXCEPT ![p] = next]
          BY <4>2 DEF TypeOK
        <5> HIDE DEF next
        <5>4. CallsOK'
          BY <2>1, <5>2, <5>3 DEF TypeOK
        <5> QED
          BY <5>1, <5>4
    <3> QED
      BY <3>1, <3>2, <3>3
  <2> QED
    BY <1>5, <2>3 DEF TypeOK, authenticate_read, store, StoreTypeOK
<1>6. ASSUME NEW p \in Procs, Drop(p) PROVE TypeOK'
  <2>1. InFlight(p) /\ GiveUp(p)
    BY <1>6 DEF Drop
  <2>2. CallsOK'
    <3>1. CASE call[p].tries = 0
      <4> DEFINE next == [Idle EXCEPT !.pc = "send", !.req = call[p].req,
                                      !.tries = 1]
      <4>1. next \in Calls /\ next.req \in Requests
        <5>1. call[p].req \in Requests
          BY <2>1, CommandType
        <5>2. 0 \in Statuses /\ Nil \in Bodies
          BY DEF Statuses, Bodies
        <5> QED
          BY <5>1, <5>2 DEF Idle, Calls
      <4>2. call' = [call EXCEPT ![p] = next]
        BY <1>6, <3>1 DEF Drop, Retry
      <4> HIDE DEF next
      <4> QED
        BY <4>1, <4>2 DEF TypeOK
    <3>2. CASE call[p].tries # 0
      BY <1>6, <2>1, <3>2, StatusType, AnsweredKeepsType DEF Drop, Bodies
    <3> QED
      BY <3>1, <3>2
  <2> QED
    BY <1>6, <2>1, <2>2, GiveUpKeepsType DEF TypeOK, Drop, store, StoreTypeOK
<1>7. ASSUME NEW p \in Procs, Fail(p) PROVE TypeOK'
  <2>1. InFlight(p) /\ GiveUp(p)
    BY <1>7 DEF Fail
  <2>2. CallsOK'
    <3>1. /\ ErrorStatus(call[p].req.op) \in Statuses
          /\ Nil \in Bodies
      BY StatusType DEF Bodies
    <3>2. call' = Answered(p, ErrorStatus(call[p].req.op), Nil)
      BY <1>7 DEF Fail
    <3> QED
      BY <2>1, <3>1, <3>2, AnsweredKeepsType
  <2> QED
    BY <1>7, <2>1, <2>2, GiveUpKeepsType DEF TypeOK, Fail, store, StoreTypeOK
<1>8. ASSUME NEW p \in Procs, NEW r \in Requests, Receive(p, r) PROVE TypeOK'
  <2> DEFINE next == [Idle EXCEPT !.pc = "send", !.req = r]
  <2>1. next \in Calls /\ next.req = r
    <3>1. 0 \in Statuses /\ Nil \in Bodies
      BY DEF Statuses, Bodies
    <3> QED
      BY <3>1 DEF Idle, Calls
  <2>2. call' = [call EXCEPT ![p] = next]
    BY <1>8 DEF Receive
  <2> HIDE DEF next
  <2>3. CallsOK'
    BY <2>1, <2>2 DEF TypeOK
  <2> QED
    BY <1>8, <2>3 DEF Receive, TypeOK, store, StoreTypeOK
<1>9. ASSUME NEW cmd \in stray, Deliver(cmd) PROVE TypeOK'
  <2>1. cmd \in Commands
    BY DEF TypeOK
  <2> QED
    BY <1>9, <2>1, ApplyKeepsType DEF Deliver, TypeOK
<1>10. ASSUME NEW p \in Procs, Abandon(p) PROVE TypeOK'
  <2>1. InFlight(p) /\ GiveUp(p)
    BY <1>10 DEF Abandon
  <2>2. CallsOK'
    BY <1>10 DEF Abandon, Idle, Calls, Statuses, Bodies, TypeOK
  <2> QED
    BY <1>10, <2>1, <2>2, GiveUpKeepsType DEF TypeOK, Abandon, store, StoreTypeOK
<1>11. ASSUME NEW p \in Procs, Reply(p) PROVE TypeOK'
  <2>1. InFlight(p) /\ call[p].status \in Statuses /\ call[p].body \in Bodies
    BY <1>11 DEF Reply, InFlight, TypeOK, Calls
  <2>2. CallsOK'
    BY <1>11, <2>1, AnsweredKeepsType DEF Reply
  <2> QED
    BY <1>11, <2>2 DEF TypeOK, Reply, store, StoreTypeOK
<1> QED
  BY <1>1, <1>2, <1>3, <1>4, <1>5, <1>6, <1>7, <1>8, <1>9, <1>10, <1>11
     DEF Next, Proceed

\* Every reachable state is well typed.
THEOREM TypeCorrect == Spec => []TypeOK
<1>1. Init => TypeOK
  BY DEF Init, TypeOK, StoreInit, StoreTypeOK, Hashes, NoHash, Idle, Calls,
         Statuses, Bodies
<1>2. TypeOK /\ [Next]_vars => TypeOK'
  BY NextKeepsType
<1> QED
  BY <1>1, <1>2, PTL DEF Spec

-----------------------------------------------------------------------------
(***************************************************************************)
(* Safety: what a step does to the records.  Every step either leaves them *)
(* alone or applies one outstanding command, and everything below follows  *)
(* from what that command does.                                            *)
(***************************************************************************)

\* A step changes the records only through a command of an outstanding request.
LEMMA StepIsCommand ==
  ASSUME TypeOK, [Next]_vars
  PROVE  \/ UNCHANGED store
         \/ \E cmd \in Commands, reply \in Replies :
              /\ Apply(cmd, reply)
              /\ cmd.req \in Outstanding
<1>1. CASE UNCHANGED vars
  BY <1>1 DEF vars, store
<1>2. ASSUME NEW p \in Procs, Execute(p)
      PROVE  \E cmd \in Commands, reply \in Replies :
               Apply(cmd, reply) /\ cmd.req \in Outstanding
  <2>1. Command(p) \in Commands /\ Command(p).req \in Outstanding
    BY <1>2, CommandType DEF Execute, Outstanding, Command, InFlight
  <2> QED
    BY <1>2, <2>1 DEF Execute
<1>3. ASSUME NEW cmd \in stray, Deliver(cmd)
      PROVE  \E reply \in Replies :
               Apply(cmd, reply) /\ cmd \in Commands /\ cmd.req \in Outstanding
  BY <1>3 DEF Deliver, TypeOK, Outstanding
<1>4. ASSUME NEW p \in Procs, Proceed(p), ~Execute(p)
      PROVE  UNCHANGED store
  BY <1>4 DEF Proceed, Reply, api_get, confirm_email, authenticate_read, Drop,
              Fail
<1>5. ASSUME NEW p \in Procs, NEW r \in Requests, Receive(p, r)
      PROVE  UNCHANGED store
  BY <1>5 DEF Receive
<1>6. ASSUME NEW p \in Procs, Abandon(p)
      PROVE  UNCHANGED store
  BY <1>6 DEF Abandon
<1> QED
  BY <1>1, <1>2, <1>3, <1>4, <1>5, <1>6 DEF Next

\* Keeping the sets and the hashes in step is inductive with the types alone.
LEMMA NextKeepsIndex ==
  ASSUME TypeOK, IndexConsistent, [Next]_vars
  PROVE  IndexConsistent'
<1>1. CASE UNCHANGED store
  BY <1>1 DEF IndexConsistent, store
<1>2. CASE \E cmd \in Commands, reply \in Replies : Apply(cmd, reply)
  BY <1>2, ApplyKeepsIndex DEF TypeOK
<1> QED
  BY <1>1, <1>2, StepIsCommand

\* The state sets and the hashes agree in every reachable state.
THEOREM IndexIsConsistent == Spec => []IndexConsistent
<1>1. Init => IndexConsistent
  BY NilIsNoState DEF Init, StoreInit, NoHash, IndexConsistent
<1>2. TypeOK /\ IndexConsistent /\ [Next]_vars => IndexConsistent'
  BY NextKeepsIndex
<1> QED
  BY <1>1, <1>2, TypeCorrect, PTL DEF Spec

\* One command moves one key, and only as its request says.
LEMMA ApplyMovesAsAsked ==
  ASSUME TypeOK, NEW cmd \in Commands, cmd.req \in Outstanding,
         NEW reply, Apply(cmd, reply), NEW k \in Keys,
         hash'[k].state # hash[k].state
  PROVE  \/ /\ hash[k].state = Nil /\ hash'[k].state = "pending"
            /\ \E r \in Outstanding : r.op = "request_auth" /\ r.key = k
         \/ /\ hash[k].state # Nil /\ hash'[k].state = Nil
            /\ \E r \in Outstanding : r.op = "ops_delete" /\ r.key = k
         \/ /\ hash[k].state # Nil /\ hash'[k].state # Nil
            /\ MoveRequested(k, hash[k].state, hash'[k].state)
<1> DEFINE r == cmd.req
<1>1. r \in Requests /\ r.key \in Keys
  BY RequestFields DEF Commands
<1> USE NilIsNoState DEF TypeOK, StoreTypeOK, Hashes
<1>2. CASE r.op = "request_auth" /\ add_pending(r.key, r.payload, reply)
  BY <1>1, <1>2 DEF add_pending, store, Exists, NoHash
<1>3. CASE /\ r.op \in {"api_transition", "ops_move"}
           /\ transition(r.key, r.from, r.to, reply)
  <2>1. r.from \in States /\ r.to \in States
    BY <1>1, <1>3, RequestFields
  <2>2. r.key = k /\ hash[k].state = r.from /\ hash'[k].state = r.to
    BY <1>1, <1>3 DEF transition, store
  <2> QED
    BY <1>3, <2>1, <2>2 DEF MoveRequested
<1>4. CASE r.op = "ops_delete" /\ delete(r.key, reply)
  BY <1>1, <1>4 DEF delete, NoHash
<1>5. CASE r.op = "set_verified" /\ set_verified(r.key, r.claim, reply)
  BY <1>1, <1>5 DEF set_verified, store
<1>6. CASE r.op = "authenticate" /\ hset_json(r.key, cmd.json)
  BY <1>1, <1>6 DEF hset_json
<1> QED
  BY <1>2, <1>3, <1>4, <1>5, <1>6 DEF Apply

\* No step moves a key in a way nobody asked for.
THEOREM MovesAreRequested == Spec => MovesWereRequested
<1> DEFINE Asked == \A k \in Keys :
       LET from == hash[k].state
           to == hash'[k].state
       IN  \/ from = to
           \/ /\ from = Nil /\ to = "pending"
              /\ \E r \in Outstanding : r.op = "request_auth" /\ r.key = k
           \/ /\ from # Nil /\ to = Nil
              /\ \E r \in Outstanding : r.op = "ops_delete" /\ r.key = k
           \/ from # Nil /\ to # Nil /\ MoveRequested(k, from, to)
<1>1. TypeOK /\ [Next]_vars => [Asked]_vars
  <2> SUFFICES ASSUME TypeOK, [Next]_vars, NEW k \in Keys,
                      hash'[k].state # hash[k].state
               PROVE  \/ /\ hash[k].state = Nil /\ hash'[k].state = "pending"
                         /\ \E r \in Outstanding : r.op = "request_auth" /\ r.key = k
                      \/ /\ hash[k].state # Nil /\ hash'[k].state = Nil
                         /\ \E r \in Outstanding : r.op = "ops_delete" /\ r.key = k
                      \/ /\ hash[k].state # Nil /\ hash'[k].state # Nil
                         /\ MoveRequested(k, hash[k].state, hash'[k].state)
    OBVIOUS
  <2>1. CASE UNCHANGED store
    BY <2>1 DEF store
  <2>2. CASE \E cmd \in Commands, reply \in Replies :
               Apply(cmd, reply) /\ cmd.req \in Outstanding
    BY <2>2, ApplyMovesAsAsked
  <2> QED
    BY <2>1, <2>2, StepIsCommand
<1> QED
  BY <1>1, TypeCorrect, PTL DEF Spec, MovesWereRequested

-----------------------------------------------------------------------------
(***************************************************************************)
(* The handlers.  A slot that waits to write is a login's and has a token, *)
(* a late command is one that writes, and so no login ever writes an       *)
(* absent JSON.                                                            *)
(***************************************************************************)

HandlerOK(p) ==
  /\ Sent(p) => call[p].status = 0
  /\ call[p].pc \in {"send", "reply"} => call[p].json = Nil
  /\ call[p].pc = "write" => /\ call[p].req.op = "authenticate"
                             /\ call[p].json \in Json
                             /\ call[p].json.token # Nil

Complete(cmd) == cmd.req.op = "authenticate" => cmd.json.token # Nil

StrayWrites == \A cmd \in stray : Writes(cmd) /\ Complete(cmd)

\* A hash with a state has its JSON, so reading one finds the record.
StatesHaveJson == \A k \in Keys : hash[k].state # Nil => hash[k].json # Nil

HInv == /\ TypeOK
        /\ \A p \in Procs : HandlerOK(p)
        /\ StrayWrites
        /\ StatesHaveJson

\* What another slot does leaves a slot alone.
LEMMA OtherSlots ==
  ASSUME TypeOK, NEW p \in Procs, NEW q \in Procs, q # p,
         Proceed(q) \/ Abandon(q) \/ \E r \in Requests : Receive(q, r)
  PROVE  call'[p] = call[p]
<1>1. CASE Proceed(q)
  <2> USE DEF Answered, TypeOK
  <2>1. CASE Execute(q)
    BY <2>1 DEF Execute, Ran
  <2>2. CASE Reply(q) \/ api_get(q) \/ confirm_email(q)
    BY <2>2 DEF Reply, api_get, confirm_email
  <2>3. CASE authenticate_read(q)
    <3>1. \/ \E status : call' = Answered(q, status, Nil)
          \/ \E json : call' = [call EXCEPT ![q].pc = "write", ![q].json = json]
      BY <2>3 DEF authenticate_read
    <3> QED
      BY <3>1
  <2>4. CASE Drop(q) \/ Fail(q)
    BY <2>4 DEF Drop, Fail, Retry
  <2> QED
    BY <1>1, <2>1, <2>2, <2>3, <2>4 DEF Proceed
<1>2. CASE Abandon(q)
  BY <1>2 DEF Abandon, TypeOK
<1>3. CASE \E r \in Requests : Receive(q, r)
  BY <1>3 DEF Receive, TypeOK
<1> QED
  BY <1>1, <1>2, <1>3

\* So a step leaves a slot alone or is its own.
LEMMA OneSlotSteps ==
  ASSUME TypeOK, [Next]_vars, NEW p \in Procs
  PROVE  \/ call'[p] = call[p]
         \/ Proceed(p)
         \/ Abandon(p)
         \/ \E r \in Requests : Receive(p, r)
<1>1. CASE UNCHANGED vars
  BY <1>1 DEF vars
<1>2. ASSUME NEW cmd \in stray, Deliver(cmd) PROVE call'[p] = call[p]
  BY <1>2 DEF Deliver
<1> QED
  BY <1>1, <1>2, OtherSlots DEF Next

\* An answered slot: it has stopped, keeps its request and carries the answer.
LEMMA AnsweredFields ==
  ASSUME TypeOK, NEW p \in Procs, NEW status, NEW body,
         call' = Answered(p, status, body)
  PROVE  /\ call'[p].pc = "done" /\ ~InFlight(p)'
         /\ call'[p].req = call[p].req
         /\ call'[p].status = status /\ call'[p].body = body
BY DEF Answered, Idle, TypeOK, InFlight, Sent

\* A slot whose command has run waits for the reply that carries the answer.
LEMMA RanFields ==
  ASSUME TypeOK, NEW p \in Procs, NEW status, NEW body,
         call' = Ran(p, status, body)
  PROVE  /\ call'[p].pc = "reply" /\ InFlight(p)' /\ ~Sent(p)'
         /\ call'[p].req = call[p].req /\ call'[p].tries = call[p].tries
         /\ call'[p].json = Nil
         /\ call'[p].status = status /\ call'[p].body = body
BY DEF Ran, Idle, TypeOK, InFlight, Sent

\* A slot that retries is as it was when its request came in, but for the count.
LEMMA RetryFields ==
  ASSUME TypeOK, NEW p \in Procs, call' = Retry(p)
  PROVE  /\ call'[p].pc = "send" /\ Sent(p)' /\ InFlight(p)'
         /\ call'[p].req = call[p].req /\ call'[p].tries = 1
         /\ call'[p].json = Nil /\ call'[p].status = 0
BY DEF Retry, Idle, TypeOK, InFlight, Sent

\* What a slot that proceeds comes to.
LEMMA ProceedEffect ==
  ASSUME TypeOK, NEW p \in Procs, Proceed(p)
  PROVE  /\ InFlight(p)
         /\ call'[p].req = call[p].req
         /\ \/ /\ InFlight(p)' /\ call'[p].pc = "send"
               /\ call'[p].json = Nil /\ call'[p].status = 0
            \/ /\ InFlight(p)' /\ call'[p].pc = "write"
               /\ authenticate_read(p) /\ call[p].pc = "send"
               /\ call[p].req.op = "authenticate"
               /\ hash[call[p].req.key].state = "authorized"
               /\ call'[p].json \in Json /\ call'[p].json.token # Nil
               /\ call'[p].status = call[p].status
            \/ /\ InFlight(p)' /\ call'[p].pc = "reply" /\ ~Sent(p)'
               /\ Execute(p) /\ call'[p].json = Nil
            \/ call'[p].pc = "done" /\ ~InFlight(p)'
<1>1. CASE Execute(p)
  <2>1. PICK reply \in Replies :
          call' = Ran(p, StatusOf(call[p].req.op, reply), BodyOf(Command(p)))
    BY <1>1 DEF Execute
  <2> QED
    BY <1>1, <2>1, RanFields DEF Execute, InFlight
<1>2. CASE api_get(p)
  <2> DEFINE state == redis_get_object(call[p].req.key).state
  <2>1. call' = Answered(p, 404, Nil) \/ call' = Answered(p, 200, state)
    BY <1>2 DEF api_get
  <2> HIDE DEF state
  <2>2. call'[p].pc = "done" /\ ~InFlight(p)' /\ call'[p].req = call[p].req
    BY <2>1, AnsweredFields
  <2> QED
    BY <1>2, <2>2 DEF api_get, InFlight, Sent
<1>3. CASE confirm_email(p)
  <2>1. \E status, body : call' = Answered(p, status, body)
    BY <1>3 DEF confirm_email
  <2> QED
    BY <1>3, <2>1, AnsweredFields DEF confirm_email, InFlight, Sent
<1>4. CASE authenticate_read(p)
  <2> DEFINE record == redis_get_object(call[p].req.key)
  <2>1. call[p].pc = "send" /\ InFlight(p) /\ call[p].req.op = "authenticate"
        /\ call[p].req.key \in Keys
    BY <1>4, CommandType, RequestFields DEF authenticate_read, InFlight, Sent
  <2>2. CASE record.state # "authorized"
    <3>1. \E status : call' = Answered(p, status, Nil)
      BY <1>4, <2>2 DEF authenticate_read
    <3> QED
      BY <2>1, <3>1, AnsweredFields
  <2>3. CASE record.state = "authorized"
    <3>1. /\ hash[call[p].req.key].state = "authorized"
          /\ record.json \in Json
      BY <2>1, <2>3, NilAssumption
         DEF redis_get_object, TypeOK, StoreTypeOK, Hashes, NoHash
    <3>2. \E json \in Json :
            /\ json.token # Nil
            /\ call' = [call EXCEPT ![p].pc = "write", ![p].json = json]
      <4>1. CASE record.json.token # Nil
        BY <1>4, <2>3, <3>1, <4>1 DEF authenticate_read
      <4>2. CASE record.json.token = Nil
        <5>1. PICK t \in Tokens :
                call' = [call EXCEPT ![p].pc = "write",
                                     ![p].json = [record.json EXCEPT !.token = t]]
          BY <1>4, <2>3, <4>2 DEF authenticate_read
        <5>2. /\ [record.json EXCEPT !.token = t] \in Json
              /\ [record.json EXCEPT !.token = t].token = t
          BY <3>1 DEF Json
        <5> QED
          BY <5>1, <5>2, NilAssumption
      <4> QED
        BY <4>1, <4>2
    <3>3. PICK json \in Json :
            /\ json.token # Nil
            /\ call' = [call EXCEPT ![p].pc = "write", ![p].json = json]
      BY <3>2
    <3>4. /\ call'[p].pc = "write" /\ call'[p].json = json
          /\ call'[p].req = call[p].req /\ call'[p].status = call[p].status
      BY <3>3 DEF TypeOK, Calls
    <3> QED
      BY <1>4, <2>1, <3>1, <3>3, <3>4 DEF InFlight, Sent
  <2> QED
    BY <2>2, <2>3
<1>5. CASE Drop(p)
  <2>1. CASE call[p].tries = 0
    BY <1>5, <2>1, RetryFields DEF Drop
  <2>2. CASE call[p].tries # 0
    BY <1>5, <2>2, AnsweredFields DEF Drop
  <2> QED
    BY <2>1, <2>2
<1>6. CASE Fail(p)
  BY <1>6, AnsweredFields DEF Fail
<1>7. CASE Reply(p)
  BY <1>7, AnsweredFields DEF Reply, InFlight
<1> QED
  BY <1>1, <1>2, <1>3, <1>4, <1>5, <1>6, <1>7 DEF Proceed

\* A slot that goes on waiting has used up its retry, has read its record or
\* has had its command run.
LEMMA ProceedCounts ==
  ASSUME TypeOK, NEW p \in Procs, Proceed(p), InFlight(p)'
  PROVE  \/ /\ call[p].tries = 0 /\ call'[p].tries = 1
            /\ call'[p].pc = "send"
         \/ /\ call[p].pc = "send" /\ call'[p].pc = "write"
            /\ call'[p].tries = call[p].tries
         \/ /\ call[p].pc \in {"send", "write"} /\ call'[p].pc = "reply"
            /\ call'[p].tries = call[p].tries
<1>1. \A status, body : call' # Answered(p, status, body)
  BY AnsweredFields
<1>2. CASE authenticate_read(p)
  <2>1. \E json : call' = [call EXCEPT ![p].pc = "write", ![p].json = json]
    BY <1>1, <1>2 DEF authenticate_read
  <2>2. PICK json : call' = [call EXCEPT ![p].pc = "write", ![p].json = json]
    BY <2>1
  <2>3. call'[p].pc = "write" /\ call'[p].tries = call[p].tries
    BY <2>2 DEF TypeOK, Calls
  <2> QED
    BY <1>2, <2>3 DEF authenticate_read
<1>3. CASE Drop(p)
  <2>1. call[p].tries = 0 /\ call' = Retry(p)
    BY <1>1, <1>3 DEF Drop
  <2> QED
    BY <2>1, RetryFields
<1>4. ~Reply(p) /\ ~api_get(p) /\ ~confirm_email(p) /\ ~Fail(p)
  BY <1>1 DEF Reply, api_get, confirm_email, Fail
<1>5. CASE Execute(p)
  <2>1. \E status, body : call' = Ran(p, status, body)
    BY <1>5 DEF Execute
  <2> QED
    BY <1>5, <2>1, RanFields DEF Execute, Sent
<1> QED
  BY <1>2, <1>3, <1>4, <1>5 DEF Proceed

\* A handler comes nearer to its end with each of its steps, and no step of
\* another sets it back: the variant of the argument that it ends.
THEOREM HandlersComeToAnEnd == Spec => HandlersRunOut
<1>1. TypeOK /\ [Next]_vars
        => [\A p \in Procs :
              InFlight(p) /\ call'[p] # call[p]
                => StepsLeft(p)' < StepsLeft(p)]_vars
  <2> SUFFICES ASSUME TypeOK, [Next]_vars, NEW p \in Procs, InFlight(p),
                      call'[p] # call[p]
               PROVE  StepsLeft(p)' < StepsLeft(p)
    OBVIOUS
  <2>1. call[p].tries \in {0, 1} /\ call[p].pc \in {"send", "write", "reply"}
    BY DEF TypeOK, Calls, InFlight, Sent
  <2>2. /\ StepsLeft(p) \in 1..6
        /\ call[p].pc = "send" => StepsLeft(p) = 6 - 3 * call[p].tries
        /\ call[p].pc = "write" => StepsLeft(p) = 5 - 3 * call[p].tries
        /\ call[p].pc = "reply" => StepsLeft(p) = 4 - 3 * call[p].tries
    BY <2>1 DEF StepsLeft
  <2>3. CASE ~InFlight(p)'
    <3>1. StepsLeft(p)' = 0
      BY <2>3 DEF StepsLeft, InFlight, Sent
    <3> QED
      BY <2>2, <3>1
  <2>4. CASE InFlight(p)'
    <3>1. Proceed(p)
      <4>1. ~Abandon(p)
        BY <2>4 DEF Abandon, Idle, TypeOK, InFlight, Sent
      <4>2. \A r \in Requests : ~Receive(p, r)
        BY DEF Receive
      <4> QED
        BY <4>1, <4>2, OneSlotSteps
    <3>2. CASE /\ call[p].tries = 0 /\ call'[p].tries = 1
               /\ call'[p].pc = "send"
      <4>1. StepsLeft(p)' = 3
        BY <2>4, <3>2 DEF StepsLeft
      <4> QED
        BY <2>1, <2>2, <3>2, <4>1
    <3>3. CASE /\ call[p].pc = "send" /\ call'[p].pc = "write"
               /\ call'[p].tries = call[p].tries
      <4>1. StepsLeft(p)' = 2 + 3 * (1 - call[p].tries)
        BY <2>4, <3>3 DEF StepsLeft
      <4> QED
        BY <2>1, <2>2, <3>3, <4>1
    <3>4. CASE /\ call[p].pc \in {"send", "write"} /\ call'[p].pc = "reply"
               /\ call'[p].tries = call[p].tries
      <4>1. StepsLeft(p)' = 1 + 3 * (1 - call[p].tries)
        BY <2>4, <3>4 DEF StepsLeft
      <4> QED
        BY <2>1, <2>2, <3>4, <4>1
    <3> QED
      BY <2>4, <3>1, <3>2, <3>3, <3>4, ProceedCounts
  <2> QED
    BY <2>3, <2>4
<1> QED
  BY <1>1, TypeCorrect, PTL DEF Spec, HandlersRunOut

\* Every step keeps a slot waiting as it should.
LEMMA NextKeepsHandler ==
  ASSUME TypeOK, NEW p \in Procs, HandlerOK(p), [Next]_vars
  PROVE  HandlerOK(p)'
<1>1. CASE call'[p] = call[p]
  BY <1>1 DEF HandlerOK, InFlight, Sent
<1>2. CASE Proceed(p)
  BY <1>2, ProceedEffect DEF HandlerOK, InFlight, Sent
<1>3. CASE Abandon(p)
  BY <1>3 DEF Abandon, Idle, HandlerOK, InFlight, Sent, TypeOK
<1>4. ASSUME NEW r \in Requests, Receive(p, r) PROVE HandlerOK(p)'
  BY <1>4 DEF Receive, Idle, HandlerOK, InFlight, Sent, TypeOK
<1> QED
  BY <1>1, <1>2, <1>3, <1>4, OneSlotSteps

\* A login's command that is sent carries a token.
LEMMA SentLoginHasToken ==
  ASSUME NEW p \in Procs, HandlerOK(p), Sent(p), Writes(Command(p))
  PROVE  Complete(Command(p))
BY DEF HandlerOK, InFlight, Sent, Writes, Command, ReadOps, Complete

\* Only a command that writes, and a complete one, is left to run late.
LEMMA NextKeepsStray ==
  ASSUME TypeOK, \A p \in Procs : HandlerOK(p), StrayWrites, [Next]_vars
  PROVE  StrayWrites'
<1> USE DEF Complete
<1>1. CASE UNCHANGED vars
  BY <1>1 DEF vars, StrayWrites, Writes
<1>2. ASSUME NEW p \in Procs, InFlight(p), GiveUp(p) PROVE StrayWrites'
  BY <1>2, SentLoginHasToken DEF GiveUp, StrayWrites, Writes
<1>3. ASSUME NEW cmd \in stray, Deliver(cmd) PROVE StrayWrites'
  BY <1>3 DEF Deliver, StrayWrites, Writes
<1>4. CASE UNCHANGED stray
  BY <1>4 DEF StrayWrites, Writes
<1> QED
  BY <1>1, <1>2, <1>3, <1>4
     DEF Next, Proceed, Execute, Reply, api_get, confirm_email,
         authenticate_read, Drop, Fail, Abandon, Receive

\* A command that writes something keeps every state with its JSON.
LEMMA ApplyKeepsJson ==
  ASSUME StoreTypeOK, StatesHaveJson,
         NEW cmd \in Commands, Writes(cmd), NEW reply, Apply(cmd, reply)
  PROVE  StatesHaveJson'
<1> DEFINE r == cmd.req
<1>1. r \in Requests /\ r.key \in Keys
  BY RequestFields DEF Commands
<1> USE NilIsNoState DEF StatesHaveJson, StoreTypeOK, Hashes
<1>2. CASE r.op = "request_auth" /\ add_pending(r.key, r.payload, reply)
  <2>1. [payload |-> r.payload, token |-> Nil] # Nil
    BY <1>1, <1>2, RequestFields DEF Json
  <2> QED
    BY <1>1, <1>2, <2>1 DEF add_pending, store
<1>3. CASE /\ r.op \in {"api_transition", "ops_move"}
           /\ transition(r.key, r.from, r.to, reply)
  <2>1. r.from \in States /\ r.to \in States
    BY <1>1, <1>3, RequestFields
  <2> QED
    BY <1>1, <1>3, <2>1 DEF transition, store
<1>4. CASE r.op = "ops_delete" /\ delete(r.key, reply)
  BY <1>1, <1>4 DEF delete, NoHash
<1>5. CASE r.op = "set_verified" /\ set_verified(r.key, r.claim, reply)
  BY <1>1, <1>5 DEF set_verified, store
<1>6. CASE r.op = "authenticate" /\ hset_json(r.key, cmd.json)
  <2>1. cmd.json # Nil
    BY <1>6 DEF Writes, ReadOps
  <2> QED
    BY <1>1, <1>6, <2>1 DEF hset_json
<1> QED
  BY <1>2, <1>3, <1>4, <1>5, <1>6 DEF Apply

\* Every step keeps all of it.
LEMMA NextKeepsHandlers ==
  ASSUME HInv, [Next]_vars
  PROVE  HInv'
<1> USE DEF HInv
<1>1. TypeOK' /\ (\A p \in Procs : HandlerOK(p))' /\ StrayWrites'
  BY NextKeepsType, NextKeepsHandler, NextKeepsStray
<1>2. StatesHaveJson'
  <2>1. CASE UNCHANGED store
    BY <2>1 DEF StatesHaveJson, store
  <2>2. ASSUME NEW p \in Procs, Execute(p) PROVE StatesHaveJson'
    BY <2>2, CommandType, ApplyKeepsJson DEF Execute, InFlight, TypeOK
  <2>3. ASSUME NEW cmd \in stray, Deliver(cmd) PROVE StatesHaveJson'
    BY <2>3, ApplyKeepsJson DEF Deliver, StrayWrites, TypeOK
  <2>4. ASSUME NEW p \in Procs, Proceed(p), ~Execute(p) PROVE UNCHANGED store
    BY <2>4 DEF Proceed, Reply, api_get, confirm_email, authenticate_read, Drop,
                Fail
  <2> QED
    BY <2>1, <2>2, <2>3, <2>4 DEF Next, Receive, Abandon, vars, store
<1> QED
  BY <1>1, <1>2

\* And it holds at the start.
LEMMA InitHandlers == Init => HInv
BY NilIsNoState
   DEF Init, HInv, TypeOK, StoreInit, StoreTypeOK, Hashes, NoHash, Idle, Calls,
       Statuses, Bodies, HandlerOK, InFlight, Sent, StrayWrites, StatesHaveJson

\* So it holds in every reachable state.
LEMMA HandlersInvariance == Spec => []HInv
<1>1. Init => HInv
  BY InitHandlers
<1>2. HInv /\ [Next]_vars => HInv'
  BY NextKeepsHandlers
<1> QED
  BY <1>1, <1>2, PTL DEF Spec

\* What a step does to the records is one whole command, a login's with its token.
LEMMA StepIsWholeCommand ==
  ASSUME HInv, [Next]_vars
  PROVE  \/ UNCHANGED store
         \/ \E cmd \in Commands, reply \in Replies :
              Apply(cmd, reply) /\ Writes(cmd) /\ Complete(cmd)
<1> USE DEF HInv
<1>1. ASSUME NEW p \in Procs, Execute(p)
      PROVE  \E cmd \in Commands, reply \in Replies :
               Apply(cmd, reply) /\ Writes(cmd) /\ Complete(cmd)
  <2>1. /\ Command(p) \in Commands /\ Writes(Command(p)) /\ Complete(Command(p))
        /\ \E reply \in Replies : Apply(Command(p), reply)
    BY <1>1, CommandType, SentLoginHasToken DEF Execute, InFlight
  <2> QED
    BY <2>1
<1>2. ASSUME NEW cmd \in stray, Deliver(cmd)
      PROVE  \E reply \in Replies :
               /\ cmd \in Commands /\ Apply(cmd, reply)
               /\ Writes(cmd) /\ Complete(cmd)
  BY <1>2 DEF Deliver, StrayWrites, TypeOK
<1>3. ASSUME NEW p \in Procs, Proceed(p), ~Execute(p) PROVE UNCHANGED store
  BY <1>3 DEF Proceed, Reply, api_get, confirm_email, authenticate_read, Drop,
              Fail
<1> QED
  BY <1>1, <1>2, <1>3 DEF Next, Receive, Abandon, vars, store

\* The records change by one whole command on one key at a time: the environment
\* that KeyListing and OpsConsole assume is the one this server gives them.
THEOREM OneCommandAtATime == Spec => RecordsChangeByCommands
<1>1. HInv /\ [Next]_vars => [\E k \in Keys : Update(k)]_store
  <2> SUFFICES ASSUME HInv, [Next]_vars, ~UNCHANGED store
               PROVE  \E k \in Keys : Update(k)
    OBVIOUS
  <2>1. PICK cmd \in Commands :
          \E reply \in Replies : Apply(cmd, reply) /\ Writes(cmd) /\ Complete(cmd)
    BY StepIsWholeCommand
  <2>2. PICK reply \in Replies :
          Apply(cmd, reply) /\ Writes(cmd) /\ Complete(cmd)
    BY <2>1
  <2> DEFINE r == cmd.req
  <2>3. r \in Requests /\ r.key \in Keys /\ cmd.json \in Json \cup {Nil}
    BY RequestFields DEF Commands
  <2> SUFFICES Update(r.key)
    BY <2>3
  <2>4. CASE r.op = "request_auth" /\ add_pending(r.key, r.payload, reply)
    BY <2>3, <2>4, RequestFields DEF add_pending, Update
  <2>5. CASE /\ r.op \in {"api_transition", "ops_move"}
             /\ transition(r.key, r.from, r.to, reply)
    BY <2>3, <2>5, RequestFields DEF transition, Update
  <2>6. CASE r.op = "ops_delete" /\ delete(r.key, reply)
    BY <2>6 DEF delete, Update
  <2>7. CASE r.op = "set_verified" /\ set_verified(r.key, r.claim, reply)
    BY <2>3, <2>7, RequestFields DEF set_verified, Update
  <2>8. CASE r.op = "authenticate" /\ hset_json(r.key, cmd.json)
    BY <2>2, <2>3, <2>8 DEF Writes, ReadOps, Complete, Update
  <2> QED
    BY <2>2, <2>4, <2>5, <2>6, <2>7, <2>8 DEF Apply
<1> QED
  BY <1>1, HandlersInvariance, PTL DEF Spec, RecordsChangeByCommands

-----------------------------------------------------------------------------
(***************************************************************************)
(* Registrations, for a server on which nobody deletes a key: then every   *)
(* login that writes finds its key still there, and no hash comes to exist *)
(* without a state.  With deletes it may (the run `ghost`).                *)
(***************************************************************************)

NobodyDeletes == \A r \in Requests : r.op # "ops_delete"

NoGhosts == \A k \in Keys : Exists(k) => hash[k].state # Nil

WriterHasState(p) ==
  call[p].pc = "write" => hash[call[p].req.key].state # Nil

LateLoginsHaveState ==
  \A cmd \in stray :
    cmd.req.op = "authenticate" => hash[cmd.req.key].state # Nil

GInv == /\ HInv
        /\ NoGhosts
        /\ \A p \in Procs : WriterHasState(p)
        /\ LateLoginsHaveState

\* Without deletes a key that has a state keeps one.
LEMMA StatesStay ==
  ASSUME NobodyDeletes, TypeOK, [Next]_vars, NEW k \in Keys, hash[k].state # Nil
  PROVE  hash'[k].state # Nil
<1>1. Outstanding \subseteq Requests
  BY CommandType DEF Outstanding, TypeOK, Commands, InFlight
<1>2. CASE UNCHANGED store
  BY <1>2 DEF store
<1>3. ASSUME NEW cmd \in Commands, NEW reply, Apply(cmd, reply),
             cmd.req \in Outstanding
      PROVE  hash'[k].state # Nil
  BY <1>1, <1>3, ApplyMovesAsAsked DEF NobodyDeletes
<1> QED
  BY <1>2, <1>3, StepIsCommand

\* A command leaves no hash without a state, given that a login's key has one.
LEMMA ApplyMakesNoGhost ==
  ASSUME StoreTypeOK, NoGhosts, NEW cmd \in Commands, NEW reply,
         Apply(cmd, reply),
         cmd.req.op = "authenticate" => hash[cmd.req.key].state # Nil
  PROVE  NoGhosts'
<1> DEFINE r == cmd.req
<1>1. r \in Requests /\ r.key \in Keys
  BY RequestFields DEF Commands
<1> USE NilIsNoState DEF NoGhosts, Exists, StoreTypeOK, Hashes
<1>2. CASE r.op = "request_auth" /\ add_pending(r.key, r.payload, reply)
  BY <1>1, <1>2 DEF add_pending, store
<1>3. CASE /\ r.op \in {"api_transition", "ops_move"}
           /\ transition(r.key, r.from, r.to, reply)
  <2>1. r.from \in States /\ r.to \in States
    BY <1>1, <1>3, RequestFields
  <2> QED
    BY <1>1, <1>3, <2>1 DEF transition, store
<1>4. CASE r.op = "ops_delete" /\ delete(r.key, reply)
  BY <1>1, <1>4 DEF delete
<1>5. CASE r.op = "set_verified" /\ set_verified(r.key, r.claim, reply)
  BY <1>1, <1>5 DEF set_verified, store
<1>6. CASE r.op = "authenticate" /\ hset_json(r.key, cmd.json)
  BY <1>1, <1>6 DEF hset_json
<1> QED
  BY <1>2, <1>3, <1>4, <1>5, <1>6 DEF Apply

\* A login's command that is sent, or given up on, is of a key with a state.
LEMMA SentLoginHasState ==
  ASSUME GInv, NEW p \in Procs, Sent(p), Writes(Command(p)),
         call[p].req.op = "authenticate"
  PROVE  hash[call[p].req.key].state # Nil
<1>1. call[p].pc = "write"
  BY DEF GInv, HInv, HandlerOK, Writes, Command, ReadOps, InFlight, Sent
<1> QED
  BY <1>1 DEF GInv, WriterHasState

\* Every step keeps it so.
LEMMA NextMakesNoGhost ==
  ASSUME NobodyDeletes, GInv, [Next]_vars
  PROVE  GInv'
<1>1. HInv' /\ HInv /\ TypeOK
  BY NextKeepsHandlers DEF GInv, HInv
<1>2. NoGhosts'
  <2>1. CASE UNCHANGED store
    BY <2>1 DEF GInv, NoGhosts, Exists, store
  <2>2. ASSUME NEW p \in Procs, Execute(p) PROVE NoGhosts'
    <3>1. PICK reply \in Replies : Apply(Command(p), reply)
      BY <2>2 DEF Execute
    <3>2. Sent(p) /\ Writes(Command(p)) /\ Command(p) \in Commands
          /\ Command(p).req = call[p].req
      BY <1>1, <2>2, CommandType DEF Execute, Command, InFlight
    <3> QED
      BY <1>1, <3>1, <3>2, SentLoginHasState, ApplyMakesNoGhost DEF GInv, TypeOK
  <2>3. ASSUME NEW cmd \in stray, Deliver(cmd) PROVE NoGhosts'
    BY <1>1, <2>3, ApplyMakesNoGhost
       DEF Deliver, GInv, LateLoginsHaveState, TypeOK
  <2>4. ASSUME NEW p \in Procs, Proceed(p), ~Execute(p) PROVE UNCHANGED store
    BY <2>4 DEF Proceed, Reply, api_get, confirm_email, authenticate_read, Drop,
                Fail
  <2> QED
    BY <2>1, <2>2, <2>3, <2>4 DEF Next, Receive, Abandon, vars, store
<1>3. ASSUME NEW p \in Procs PROVE WriterHasState(p)'
  <2> SUFFICES ASSUME call'[p].pc = "write"
               PROVE  hash'[call'[p].req.key].state # Nil
    BY DEF WriterHasState
  <2>1. /\ call'[p].req = call[p].req /\ InFlight(p)
        /\ hash[call[p].req.key].state # Nil
    <3>1. CASE call'[p] = call[p]
      BY <3>1 DEF GInv, WriterHasState, InFlight, Sent
    <3>2. CASE Proceed(p)
      BY <1>1, <3>2, ProceedEffect, NilIsNoState DEF InFlight, Sent
    <3>3. ~Abandon(p)
      BY <1>1 DEF Abandon, Idle, TypeOK
    <3>4. ASSUME NEW r \in Requests, Receive(p, r) PROVE FALSE
      <4>1. call'[p].pc = "send"
        BY <1>1, <3>4 DEF Receive, Idle, TypeOK
      <4> QED
        BY <4>1
    <3> QED
      BY <1>1, <3>1, <3>2, <3>3, <3>4, OneSlotSteps
  <2>2. call[p].req.key \in Keys
    BY <1>1, <2>1, CommandType, RequestFields
  <2> QED
    BY <1>1, <2>1, <2>2, StatesStay
<1>4. LateLoginsHaveState'
  <2> SUFFICES ASSUME NEW cmd \in stray', cmd.req.op = "authenticate"
               PROVE  hash'[cmd.req.key].state # Nil
    BY DEF LateLoginsHaveState
  <2>1. CASE cmd \in stray
    <3>1. cmd.req.key \in Keys /\ hash[cmd.req.key].state # Nil
      BY <1>1, <2>1, RequestFields
         DEF GInv, LateLoginsHaveState, TypeOK, Commands
    <3> QED
      BY <1>1, <3>1, StatesStay
  <2>2. CASE cmd \notin stray
    <3>1. PICK p \in Procs : /\ Sent(p) /\ Writes(Command(p))
                             /\ cmd = Command(p)
      BY <2>2 DEF Next, Proceed, Execute, Reply, api_get, confirm_email,
                  authenticate_read, Drop, Fail, Abandon, Receive, Deliver,
                  GiveUp, vars
    <3>2. cmd.req = call[p].req /\ cmd.req.key \in Keys
      BY <1>1, <3>1, CommandType, RequestFields DEF Command, InFlight
    <3> QED
      BY <1>1, <3>1, <3>2, SentLoginHasState, StatesStay
  <2> QED
    BY <2>1, <2>2
<1> QED
  BY <1>1, <1>2, <1>3, <1>4 DEF GInv

\* Without deletes, a registration whose script makes it answer 200 finds its
\* key in some state: what the client is told already holds does hold.
THEOREM RegistrationsHold ==
  ASSUME NobodyDeletes
  PROVE  Spec => RegisteredHasState
<1>1. Init => GInv
  BY InitHandlers
     DEF Init, GInv, StoreInit, NoGhosts, Exists, WriterHasState, Idle,
         LateLoginsHaveState
<1>2. GInv /\ [Next]_vars => GInv'
  BY NextMakesNoGhost
<1>3. GInv /\ [Next]_vars
        => [\A p \in Procs :
              Sent(p) /\ call'[p].pc = "reply"
                /\ call'[p].req.op = "request_auth" /\ call'[p].status = 200
              => hash'[call'[p].req.key].state # Nil]_vars
  <2> SUFFICES ASSUME GInv, [Next]_vars, NEW p \in Procs, Sent(p),
                      call'[p].pc = "reply",
                      call'[p].req.op = "request_auth", call'[p].status = 200
               PROVE  hash'[call'[p].req.key].state # Nil
    OBVIOUS
  <2>1. HInv /\ TypeOK /\ GInv' /\ TypeOK'
    BY NextMakesNoGhost DEF GInv, HInv
  <2>2. Proceed(p)
    <3>1. ~Abandon(p) /\ \A r \in Requests : ~Receive(p, r)
      BY <2>1 DEF Abandon, Receive, Idle, TypeOK, InFlight
    <3>2. call'[p] # call[p]
      BY DEF Sent
    <3> QED
      BY <2>1, <3>1, <3>2, OneSlotSteps
  <2>3. /\ Execute(p) /\ call'[p].req = call[p].req
        /\ call[p].req.key \in Keys
    BY <2>1, <2>2, ProceedEffect, CommandType, RequestFields
  <2>4. Exists(call[p].req.key)'
    <3>1. PICK reply \in Replies :
            /\ Apply(Command(p), reply)
            /\ call' = Ran(p, StatusOf(call[p].req.op, reply),
                           BodyOf(Command(p)))
      BY <2>3 DEF Execute
    <3>2. add_pending(call[p].req.key, call[p].req.payload, reply)
      BY <2>3, <3>1 DEF Apply, Command
    <3>3. reply # "limit_reached"
      <4>1. StatusOf("request_auth", "limit_reached") = 429
        BY DEF StatusOf, ConsoleOps
      <4>2. call'[p].status = StatusOf("request_auth", reply)
        BY <2>1, <2>3, <3>1, RanFields
      <4> QED
        BY <4>1, <4>2
    <3> QED
      BY <2>1, <2>3, <3>2, <3>3, NilIsNoState
         DEF add_pending, Exists, NoHash, store, TypeOK, StoreTypeOK, Hashes
  <2> QED
    BY <2>1, <2>3, <2>4 DEF GInv, NoGhosts
<1> QED
  BY <1>1, <1>2, <1>3, PTL DEF Spec, RegisteredHasState

-----------------------------------------------------------------------------
(***************************************************************************)
(* The pending cap, for a server on which nobody moves a key to pending:   *)
(* the console never does, the admin API can.                              *)
(***************************************************************************)

NobodyMovesToPending ==
  \A r \in Requests : r.op \in {"api_transition", "ops_move"} => r.to # "pending"

\* One command adds at most the one key that the script has room for.
LEMMA ApplyKeepsCap ==
  ASSUME NobodyMovesToPending, StoreTypeOK, PendingCap,
         NEW cmd \in Commands, NEW reply, Apply(cmd, reply)
  PROVE  PendingCap'
<1> DEFINE r == cmd.req
           P == index["pending"]
<1>1. r \in Requests /\ r.key \in Keys
  BY RequestFields DEF Commands
<1>2. IsFiniteSet(P) /\ Cardinality(P) \in Nat
  BY KeysAssumption, FS_Subset, FS_CardinalityType DEF StoreTypeOK
<1>3. ASSUME P' \subseteq P PROVE PendingCap'
  <2>1. Cardinality(P') <= Cardinality(P) /\ Cardinality(P') \in Nat
    BY <1>2, <1>3, FS_Subset, FS_CardinalityType
  <2> QED
    BY <1>2, <2>1, MaxPendingAssumption DEF PendingCap
<1>4. CASE r.op = "request_auth" /\ add_pending(r.key, r.payload, reply)
  <2>1. CASE UNCHANGED store
    BY <1>3, <2>1 DEF store
  <2>2. CASE ~UNCHANGED store
    <3>1. P' = P \cup {r.key} /\ Cardinality(P) < MaxPending
      BY <1>4, <2>2 DEF add_pending, Sadd, store, StoreTypeOK
    <3>2. /\ IsFiniteSet(P')
          /\ Cardinality(P') = IF r.key \in P THEN Cardinality(P)
                                              ELSE Cardinality(P) + 1
      <4> HIDE DEF P, r
      <4>1. /\ IsFiniteSet(P \cup {r.key})
            /\ Cardinality(P \cup {r.key}) =
                 IF r.key \in P THEN Cardinality(P) ELSE Cardinality(P) + 1
        BY <1>2, FS_AddElement
      <4> QED
        BY <3>1, <4>1
    <3> QED
      BY <1>2, <3>1, <3>2, MaxPendingAssumption DEF PendingCap
  <2> QED
    BY <2>1, <2>2
<1>5. CASE /\ r.op \in {"api_transition", "ops_move"}
           /\ transition(r.key, r.from, r.to, reply)
  <2>1. r.to # "pending" /\ r.from \in States /\ r.to \in States
    BY <1>1, <1>5, RequestFields DEF NobodyMovesToPending
  <2>2. P' \subseteq P
    BY <1>5, <2>1 DEF transition, Sadd, Srem, store, StoreTypeOK
  <2> QED
    BY <1>3, <2>2
<1>6. CASE r.op = "ops_delete" /\ delete(r.key, reply)
  <2>1. P' \subseteq P
    BY <1>1, <1>6 DEF delete, Srem, StoreTypeOK, Hashes
  <2> QED
    BY <1>3, <2>1
<1>7. CASE r.op = "set_verified" /\ set_verified(r.key, r.claim, reply)
  BY <1>3, <1>7 DEF set_verified, store
<1>8. CASE r.op = "authenticate" /\ hset_json(r.key, cmd.json)
  BY <1>3, <1>8 DEF hset_json
<1> QED
  BY <1>4, <1>5, <1>6, <1>7, <1>8 DEF Apply

\* Without moves to pending, storage never holds more pending registrations
\* than MAX_PENDING_REQUESTS.
THEOREM PendingIsCapped ==
  ASSUME NobodyMovesToPending
  PROVE  Spec => []PendingCap
<1>1. Init => PendingCap
  BY FS_EmptySet, MaxPendingAssumption DEF Init, StoreInit, PendingCap
<1>2. TypeOK /\ PendingCap /\ [Next]_vars => PendingCap'
  <2> SUFFICES ASSUME TypeOK, PendingCap, [Next]_vars PROVE PendingCap'
    OBVIOUS
  <2>1. CASE UNCHANGED store
    BY <2>1 DEF PendingCap, store
  <2>2. CASE \E cmd \in Commands, reply \in Replies : Apply(cmd, reply)
    BY <2>2, ApplyKeepsCap DEF TypeOK
  <2> QED
    BY <2>1, <2>2, StepIsCommand
<1> QED
  BY <1>1, <1>2, TypeCorrect, PTL DEF Spec

-----------------------------------------------------------------------------
(***************************************************************************)
(* The refinement of KeyRegistry.                                          *)
(***************************************************************************)

\* What the registry sees of a key.
Standing(k) == hash[k].state
Claim(k) == IF hash[k].state = Nil THEN Nil ELSE hash[k].verified

\* The registry's own copy of FiniteSets counts as ours does.
LEMMA SameCardinality == \A T : Registry!Cardinality(T) = Cardinality(T)
BY Zenon DEF Registry!Cardinality, Cardinality

\* One command is a step of the registry or none.  The set of pending keys that
\* add_pending.lua counts is the registry's own, because the sets and the
\* hashes are in step.
LEMMA ApplyIsRegistryStep ==
  ASSUME TypeOK, IndexConsistent, NEW cmd \in Commands, NEW reply,
         Apply(cmd, reply)
  PROVE  [Registry!Next]_<<[k \in Keys |-> Standing(k)], [k \in Keys |-> Claim(k)]>>
<1> DEFINE r == cmd.req
           S == [k \in Keys |-> Standing(k)]
           C == [k \in Keys |-> Claim(k)]
<1>1. r \in Requests /\ r.key \in Keys
  BY RequestFields DEF Commands
<1> USE NilIsNoState DEF TypeOK, StoreTypeOK, Hashes, Standing, Claim
<1>2. CASE r.op = "request_auth" /\ add_pending(r.key, r.payload, reply)
  <2>1. CASE UNCHANGED store
    BY <2>1 DEF store
  <2>2. CASE ~UNCHANGED store
    <3>1. /\ hash[r.key] = NoHash
          /\ Cardinality(index["pending"]) < MaxPending
          /\ hash' = [hash EXCEPT ![r.key].state = "pending",
                                  ![r.key].json = [payload |-> r.payload,
                                                   token |-> Nil]]
      BY <1>2, <2>2 DEF add_pending, Exists, store
    <3>2. Registry!Pending = index["pending"]
      BY DEF Registry!Pending, IndexConsistent
    <3>3. Registry!Register(r.key)
      <4>1. Cardinality(Registry!Pending) < MaxPending
        BY <3>1, <3>2
      <4>2. S[r.key] = Nil
        BY <1>1, <3>1 DEF NoHash
      <4>3. S' = [S EXCEPT ![r.key] = "pending"] /\ C' = C
        <5>1. hash'[r.key].state = "pending"
          BY <1>1, <3>1
        <5>2. \A k \in Keys : k # r.key => hash'[k] = hash[k]
          BY <1>1, <3>1
        <5>3. hash'[r.key].verified = Nil
          BY <1>1, <3>1 DEF NoHash
        <5>4. S' = [S EXCEPT ![r.key] = "pending"]
          BY <1>1, <5>1, <5>2
        <5>5. C' = C
          BY <1>1, <3>1, <5>1, <5>2, <5>3 DEF NoHash
        <5> QED
          BY <5>4, <5>5
      <4> QED
        BY <4>1, <4>2, <4>3, SameCardinality DEF Registry!Register
    <3> QED
      BY <1>1, <3>3 DEF Registry!Next
  <2> QED
    BY <2>1, <2>2
<1>3. CASE /\ r.op \in {"api_transition", "ops_move"}
           /\ transition(r.key, r.from, r.to, reply)
  <2>1. r.from \in States /\ r.to \in States
    BY <1>1, <1>3, RequestFields
  <2>2. CASE UNCHANGED store
    BY <2>2 DEF store
  <2>3. CASE ~UNCHANGED store
    <3>1. Registry!Move(r.key, r.to)
      BY <1>1, <1>3, <2>1, <2>3 DEF transition, store, Registry!Move
    <3> QED
      BY <1>1, <2>1, <3>1 DEF Registry!Next, Registry!Standings
  <2> QED
    BY <2>2, <2>3
<1>4. CASE r.op = "ops_delete" /\ delete(r.key, reply)
  <2>1. CASE hash[r.key].state = Nil
    BY <1>1, <1>4, <2>1 DEF delete, NoHash
  <2>2. CASE hash[r.key].state # Nil
    <3>1. Registry!Remove(r.key)
      BY <1>1, <1>4, <2>2 DEF delete, NoHash, Registry!Remove
    <3> QED
      BY <1>1, <3>1 DEF Registry!Next
  <2> QED
    BY <2>1, <2>2
<1>5. CASE r.op = "set_verified" /\ set_verified(r.key, r.claim, reply)
  <2>1. r.claim \in Claims
    BY <1>1, <1>5, RequestFields
  <2>2. CASE UNCHANGED store
    BY <2>2 DEF store
  <2>3. CASE hash' = [hash EXCEPT ![r.key].verified = r.claim]
    <3>1. CASE hash[r.key].state = Nil
      BY <1>1, <2>3, <3>1
    <3>2. CASE hash[r.key].state # Nil
      <4>1. Registry!Attest(r.key, r.claim)
        BY <1>1, <2>3, <3>2 DEF Registry!Attest
      <4> QED
        BY <1>1, <2>1, <4>1 DEF Registry!Next
    <3> QED
      BY <3>1, <3>2
  <2> QED
    BY <1>5, <2>2, <2>3 DEF set_verified
<1>6. CASE r.op = "authenticate" /\ hset_json(r.key, cmd.json)
  BY <1>1, <1>6 DEF hset_json
<1> QED
  BY <1>2, <1>3, <1>4, <1>5, <1>6 DEF Apply

\* AuthServer implements KeyRegistry.
THEOREM RegistryIsImplemented == Spec => ImplementsRegistry
<1>1. Init => Registry!Init
  BY DEF Init, StoreInit, NoHash, Registry!Init
<1>2. TypeOK /\ IndexConsistent /\ [Next]_vars
        => [Registry!Next]_<<[k \in Keys |-> hash[k].state],
                             [k \in Keys |-> IF hash[k].state = Nil THEN Nil
                                             ELSE hash[k].verified]>>
  <2> SUFFICES ASSUME TypeOK, IndexConsistent, [Next]_vars
               PROVE  [Registry!Next]_<<[k \in Keys |-> hash[k].state],
                             [k \in Keys |-> IF hash[k].state = Nil THEN Nil
                                             ELSE hash[k].verified]>>
    OBVIOUS
  <2>1. CASE UNCHANGED store
    BY <2>1 DEF store
  <2>2. CASE \E cmd \in Commands, reply \in Replies : Apply(cmd, reply)
    BY <2>2, ApplyIsRegistryStep DEF Standing, Claim
  <2> QED
    BY <2>1, <2>2, StepIsCommand
<1> QED
  BY <1>1, <1>2, TypeCorrect, IndexIsConsistent, PTL
     DEF Spec, ImplementsRegistry, Registry!Spec
=============================================================================
