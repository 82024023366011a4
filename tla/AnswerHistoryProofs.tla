------------------------ MODULE AnswerHistoryProofs ------------------------
(***************************************************************************)
(* Proofs about AnswerHistory: what an answer says was so at one moment    *)
(* while its request was served, for every set of keys, slots and requests *)
(* and every bound on late commands.                                       *)
(***************************************************************************)
EXTENDS AnswerHistory, AuthServerProofs

-----------------------------------------------------------------------------
(***************************************************************************)
(* The inductive invariant: who is being served has seen its key as it is; *)
(* a login that waits to write has seen its key authorized; and what a     *)
(* reply on its way will make its handler answer, the handler has seen.    *)
(***************************************************************************)

SeenOK == seen = [p \in Procs |-> seen[p]]

SeesNow(p) == InFlight(p) => ViewOf(p, hash) \in seen[p]

SawAuthorized(p) ==
  call[p].pc = "write" => \E view \in seen[p] : view.state = "authorized"

SawReply(p) ==
  call[p].pc = "reply" => \E view \in seen[p] : Fits(call[p], view)

SawToken(p) ==
  call[p].pc = "reply" /\ call[p].req.op = "authenticate"
    => \E view \in seen[p] : view.token = call[p].body

\* What a slot knows of what it has seen.
Saw(p) == SeesNow(p) /\ SawAuthorized(p) /\ SawReply(p) /\ SawToken(p)

AInv == /\ HInv
        /\ SeenOK
        /\ \A p \in Procs : Saw(p)

\* The history adds a variable and forbids nothing.
LEMMA HistoryStep ==
  ASSUME [ANext]_avars
  PROVE  [Next]_vars
BY DEF ANext, AReceive, AServe, Serve, Next, avars

\* A view has the fields of its hash that an answer to its operation can tell.
LEMMA ViewFields ==
  ASSUME NEW op, NEW h
  PROVE  /\ op = "request_auth" => (View(op, h).there <=> h # NoHash)
         /\ op # "request_auth" => View(op, h).state = h.state
         /\ op = "authenticate" /\ h.json # Nil
              => View(op, h).token = h.json.token
         /\ op \in {"confirm_email", "set_verified"}
              => View(op, h).verified = h.verified
<1>1. CASE op = "request_auth"
  BY <1>1, Zenon DEF View
<1>2. CASE op = "authenticate"
  BY <1>2 DEF View
<1>3. CASE op \in {"confirm_email", "set_verified"}
  BY <1>3 DEF View
<1>4. CASE op \notin {"request_auth", "authenticate", "confirm_email",
                     "set_verified"}
  BY <1>4 DEF View
<1> QED
  BY <1>1, <1>2, <1>3, <1>4

\* The keys of requests in flight, and what reading them finds.
LEMMA ReadFinds ==
  ASSUME HInv, NEW p \in Procs, InFlight(p)
  PROVE  /\ call[p].req.key \in Keys
         /\ hash[call[p].req.key] \in Hashes
         /\ LET record == redis_get_object(call[p].req.key)
                h == hash[call[p].req.key] IN
            /\ record = NoHash => h.state = Nil
            /\ record.state = h.state
            /\ record # NoHash => record = h
<1>1. call[p].req.key \in Keys
  BY CommandType, RequestFields DEF HInv
<1>2. hash[call[p].req.key] \in Hashes
  BY <1>1 DEF HInv, TypeOK, StoreTypeOK
<1>3. hash[call[p].req.key].state # Nil => hash[call[p].req.key].json # Nil
  BY <1>1 DEF HInv, StatesHaveJson
<1> QED
  BY <1>1, <1>2, <1>3 DEF redis_get_object, NoHash

\* Who is still being served sees the view a step leaves, and forgets none.
LEMMA ServeShows ==
  ASSUME AServe, NEW p \in Procs, InFlight(p)'
  PROVE  seen[p] \subseteq seen'[p] /\ ViewOf(p, hash') \in seen'[p]
<1>1. seen'[p] = seen[p] \cup {ViewOf(p, hash')}
  BY DEF AServe
<1> QED
  BY <1>1

\* What an answer asks of a view depends on what it says alone.
LEMMA FitsAlike ==
  ASSUME NEW c, NEW d, NEW view, Fits(c, view),
         d.req = c.req, d.status = c.status, d.body = c.body
  PROVE  Fits(d, view)
BY DEF Fits

\* What an answer asks of a view, by operation and status.
LEMMA WhatFits ==
  ASSUME NEW c, NEW view
  PROVE  /\ c.status \notin {200, 202, 401, 404, 429} => Fits(c, view)
         /\ c.req.op \in ConsoleOps => Fits(c, view)
         /\ c.req.op = "request_auth" =>
              /\ c.status = 200 /\ view.there => Fits(c, view)
              /\ c.status = 429 /\ ~view.there => Fits(c, view)
         /\ c.req.op = "authenticate" =>
              /\ c.status = 200 /\ view.state = "authorized" => Fits(c, view)
              /\ c.status = 202 /\ view.state = "pending" => Fits(c, view)
              /\ c.status = 401 /\ view.state \in {"blocked", Nil}
                   => Fits(c, view)
         /\ /\ c.req.op = "confirm_email"
            /\ (c.body = "true") <=> email_matches(view, c.req.claim)
            => Fits(c, view)
         /\ c.req.op = "api_get" =>
              /\ c.status = 200 /\ view.state = c.body => Fits(c, view)
              /\ c.status = 404 /\ view.state = Nil => Fits(c, view)
         /\ c.req.op = "api_transition" /\ view.state = c.req.to => Fits(c, view)
         /\ c.req.op = "set_verified" =>
              /\ c.status = 200 /\ view.verified = c.req.claim => Fits(c, view)
              /\ c.status = 404 /\ view.state = Nil => Fits(c, view)
<1>1. c.status \notin {200, 202, 401, 404, 429} => Fits(c, view)
  BY DEF Fits
<1>2. c.req.op \in ConsoleOps => Fits(c, view)
  BY DEF Fits, ConsoleOps
<1>3. c.req.op = "authenticate" =>
        /\ c.status = 200 /\ view.state = "authorized" => Fits(c, view)
        /\ c.status = 202 /\ view.state = "pending" => Fits(c, view)
        /\ c.status = 401 /\ view.state \in {"blocked", Nil} => Fits(c, view)
  BY DEF Fits
<1>4. /\ c.req.op = "confirm_email"
      /\ (c.body = "true") <=> email_matches(view, c.req.claim)
      => Fits(c, view)
  BY DEF Fits
<1>5. c.req.op = "api_get" =>
        /\ c.status = 200 /\ view.state = c.body => Fits(c, view)
        /\ c.status = 404 /\ view.state = Nil => Fits(c, view)
  BY DEF Fits
<1>6. c.req.op = "api_transition" /\ view.state = c.req.to => Fits(c, view)
  BY DEF Fits
<1>7. c.req.op = "set_verified" =>
        /\ c.status = 200 /\ view.verified = c.req.claim => Fits(c, view)
        /\ c.status = 404 /\ view.state = Nil => Fits(c, view)
  BY DEF Fits
<1>8. c.req.op = "request_auth" =>
        /\ c.status = 200 /\ view.there => Fits(c, view)
        /\ c.status = 429 /\ ~view.there => Fits(c, view)
  BY DEF Fits
<1> QED
  BY <1>1, <1>2, <1>3, <1>4, <1>5, <1>6, <1>7, <1>8

\* An error answer says nothing of the key.
LEMMA ErrorsFit ==
  ASSUME NEW op, NEW c, NEW view, c.status = ErrorStatus(op)
  PROVE  Fits(c, view)
BY WhatFits DEF ErrorStatus

\* What a command makes its sender answer fits what the command left, or, for a
\* login, what its HMGET found; and a login's token is in the record it left.
LEMMA ExecuteFits ==
  ASSUME AInv, AServe, NEW p \in Procs, Execute(p)
  PROVE  SawReply(p)' /\ SawToken(p)'
<1> DEFINE r == call[p].req
           now == View(r.op, hash'[r.key])
<1>1. Sent(p) /\ InFlight(p) /\ HInv /\ TypeOK /\ HandlerOK(p)
  BY DEF Execute, InFlight, AInv, HInv
<1>2. r \in Requests /\ r.key \in Keys
  BY <1>1, CommandType, RequestFields
<1>3. PICK reply \in Replies :
        /\ Apply(Command(p), reply)
        /\ call' = Ran(p, StatusOf(r.op, reply), BodyOf(Command(p)))
  BY DEF Execute
<1>4. /\ InFlight(p)' /\ call'[p].req = r
      /\ call'[p].status = StatusOf(r.op, reply)
      /\ call'[p].body = BodyOf(Command(p))
  BY <1>1, <1>3, RanFields
<1>5. now \in seen'[p] /\ seen[p] \subseteq seen'[p]
  BY <1>4, ServeShows DEF ViewOf
<1>6. StoreTypeOK'
  BY <1>1, <1>3, ApplyKeepsType, CommandType DEF TypeOK
<1>7. /\ r.op = "request_auth" => (now.there <=> hash'[r.key] # NoHash)
      /\ r.op # "request_auth" => now.state = hash'[r.key].state
      /\ r.op = "authenticate" /\ hash'[r.key].json # Nil
           => now.token = hash'[r.key].json.token
      /\ r.op = "set_verified" => now.verified = hash'[r.key].verified
  <2> DEFINE op == r.op
             h == hash'[r.key]
  <2> HIDE DEF op, h
  <2>1. /\ op = "request_auth" => (View(op, h).there <=> h # NoHash)
        /\ op # "request_auth" => View(op, h).state = h.state
        /\ op = "authenticate" /\ h.json # Nil
             => View(op, h).token = h.json.token
        /\ op \in {"confirm_email", "set_verified"}
             => View(op, h).verified = h.verified
    BY ViewFields, Zenon
  <2>2. now = View(op, h)
    BY DEF op, h
  <2> HIDE DEF now
  <2> QED
    BY <2>1, <2>2 DEF op, h
<1>8. CASE r.op \in ConsoleOps
  BY <1>4, <1>5, <1>8, WhatFits DEF SawReply, SawToken, ConsoleOps
<1>9. CASE r.op = "authenticate"
  <2>1. call[p].pc = "write" /\ call[p].json # Nil
    BY <1>1, <1>9 DEF Execute, Writes, Command, ReadOps, HandlerOK, Sent
  <2>2. PICK view \in seen'[p] : view.state = "authorized"
    BY <1>5, <2>1 DEF AInv, Saw, SawAuthorized
  <2>3. call'[p].status = 200
    BY <1>4, <1>9 DEF StatusOf, ConsoleOps
  <2>4. SawReply(p)'
    BY <1>4, <1>9, <2>2, <2>3, WhatFits DEF SawReply
  <2>5. hash'[r.key].json = call[p].json
    <3>1. hset_json(r.key, call[p].json)
      BY <1>3, <1>9 DEF Apply, Command
    <3> QED
      BY <1>1, <1>2, <3>1 DEF hset_json, TypeOK, StoreTypeOK, Hashes
  <2>6. now.token = call'[p].body
    BY <1>4, <1>7, <1>9, <2>1, <2>5 DEF BodyOf, Command
  <2> QED
    BY <1>5, <2>4, <2>6 DEF SawToken
<1>10. CASE r.op = "api_transition"
  <2>1. transition(r.key, r.from, r.to, reply)
    BY <1>3, <1>10 DEF Apply, Command
  <2>2. CASE reply = "OK"
    <3>1. hash'[r.key].state = r.to
      BY <1>1, <1>2, <2>1, <2>2 DEF transition, TypeOK, StoreTypeOK, Hashes
    <3> QED
      BY <1>4, <1>5, <1>7, <1>10, <3>1, WhatFits DEF SawReply, SawToken
  <2>3. CASE reply # "OK"
    <3>1. call'[p].status = 500
      BY <1>4, <1>10, <2>3 DEF StatusOf, ConsoleOps
    <3> QED
      BY <1>4, <1>5, <1>10, <3>1, WhatFits DEF SawReply, SawToken
  <2> QED
    BY <2>2, <2>3
<1>11. CASE r.op = "set_verified"
  <2>1. set_verified(r.key, r.claim, reply)
    BY <1>3, <1>11 DEF Apply, Command
  <2>2. CASE reply = "OK"
    <3>1. hash'[r.key].verified = r.claim
      BY <1>1, <1>2, <2>1, <2>2 DEF set_verified, TypeOK, StoreTypeOK, Hashes
    <3>2. call'[p].status = 200
      BY <1>4, <1>11, <2>2 DEF StatusOf, ConsoleOps
    <3> QED
      BY <1>4, <1>5, <1>7, <1>11, <3>1, <3>2, WhatFits
         DEF SawReply, SawToken
  <2>3. CASE reply # "OK"
    <3>1. hash'[r.key].state = Nil
      BY <2>1, <2>3 DEF set_verified, Exists, NoHash, store
    <3>2. call'[p].status = 404
      BY <1>4, <1>11, <2>3 DEF StatusOf, ConsoleOps
    <3> QED
      BY <1>4, <1>5, <1>7, <1>11, <3>1, <3>2, WhatFits
         DEF SawReply, SawToken
  <2> QED
    BY <2>2, <2>3
<1>12. CASE r.op = "request_auth"
  <2>1. add_pending(r.key, r.payload, reply)
    BY <1>3, <1>12 DEF Apply, Command
  <2>2. CASE reply = "limit_reached"
    <3>1. hash'[r.key] = NoHash
      BY <2>1, <2>2 DEF add_pending, Exists, store
    <3>2. call'[p].status = 429
      BY <1>4, <1>12, <2>2 DEF StatusOf, ConsoleOps
    <3>3. ~now.there
      BY <1>7, <1>12, <3>1
    <3> HIDE DEF now
    <3>4. Fits(call'[p], now)
      BY <1>4, <1>12, <3>2, <3>3, WhatFits
    <3> QED
      BY <1>4, <1>5, <1>12, <3>4 DEF SawReply, SawToken
  <2>3. CASE reply # "limit_reached"
    <3>1. hash'[r.key] # NoHash
      BY <1>1, <1>2, <2>1, <2>3, NilIsNoState
         DEF add_pending, Exists, NoHash, store, TypeOK, StoreTypeOK, Hashes,
             States
    <3>2. call'[p].status = 200
      BY <1>4, <1>12, <2>3 DEF StatusOf, ConsoleOps
    <3>3. now.there
      BY <1>7, <1>12, <3>1
    <3> HIDE DEF now
    <3>4. Fits(call'[p], now)
      BY <1>4, <1>12, <3>2, <3>3, WhatFits
    <3> QED
      BY <1>4, <1>5, <1>12, <3>4 DEF SawReply, SawToken
  <2> QED
    BY <2>2, <2>3
<1> QED
  BY <1>3, <1>8, <1>9, <1>10, <1>11, <1>12 DEF Apply, Command, ConsoleOps

\* A slot is served only once it is in flight, and its request stays.
LEMMA ServeKeepsRequest ==
  ASSUME AInv, AServe, NEW p \in Procs, InFlight(p)'
  PROVE  /\ InFlight(p) /\ call'[p].req = call[p].req
         /\ \/ call'[p] = call[p]
            \/ call'[p].pc = "send"
            \/ /\ call'[p].pc = "write" /\ call[p].req.op = "authenticate"
               /\ hash[call[p].req.key].state = "authorized" /\ UNCHANGED hash
            \/ call'[p].pc = "reply" /\ Execute(p)
<1>1. CASE call'[p] = call[p]
  BY <1>1 DEF InFlight, Sent
<1>2. CASE Proceed(p)
  BY <1>2, ProceedEffect DEF AInv, HInv, authenticate_read, store
<1>3. ~Abandon(p)
  BY DEF Abandon, Idle, InFlight, Sent, AInv, HInv, TypeOK
<1>4. ASSUME NEW cmd \in stray, Deliver(cmd) PROVE call'[p] = call[p]
  BY <1>4 DEF Deliver
<1> QED
  BY <1>1, <1>2, <1>3, <1>4, OtherSlots DEF AServe, Serve, AInv, HInv

\* A step of those who are served keeps what each of them has seen.
LEMMA ServeKeepsSeen ==
  ASSUME AInv, AServe, NEW p \in Procs
  PROVE  Saw(p)'
<1>1. CASE ~InFlight(p)'
  BY <1>1 DEF Saw, SeesNow, SawAuthorized, SawReply, SawToken, InFlight, Sent
<1>2. CASE InFlight(p)'
  <2>1. /\ InFlight(p) /\ call'[p].req = call[p].req /\ Saw(p)
        /\ seen[p] \subseteq seen'[p] /\ ViewOf(p, hash') \in seen'[p]
    BY <1>2, ServeKeepsRequest, ServeShows DEF AInv
  <2>2. SeesNow(p)'
    BY <2>1 DEF SeesNow, ViewOf
  <2>3. CASE call'[p] = call[p]
    BY <2>1, <2>2, <2>3 DEF Saw, SawAuthorized, SawReply, SawToken
  <2>4. CASE call'[p].pc = "send"
    BY <2>2, <2>4 DEF Saw, SawAuthorized, SawReply, SawToken
  <2>5. CASE /\ call'[p].pc = "write" /\ call[p].req.op = "authenticate"
             /\ hash[call[p].req.key].state = "authorized" /\ UNCHANGED hash
    <3>1. ViewOf(p, hash').state = "authorized"
      BY <2>5, ViewFields DEF ViewOf
    <3> QED
      BY <2>1, <2>2, <2>5, <3>1 DEF Saw, SawAuthorized, SawReply, SawToken
  <2>6. CASE call'[p].pc = "reply" /\ Execute(p)
    BY <2>2, <2>6, ExecuteFits DEF Saw, SawAuthorized
  <2> QED
    BY <1>2, <2>3, <2>4, <2>5, <2>6, ServeKeepsRequest
<1> QED
  BY <1>1, <1>2

\* So does a request that comes in.
LEMMA ReceiveKeepsSeen ==
  ASSUME AInv, NEW p \in Procs, NEW r \in Requests, AReceive(p, r),
         NEW q \in Procs
  PROVE  Saw(q)'
<1>1. UNCHANGED hash
  BY DEF AReceive, Receive, store
<1>2. CASE q = p
  <2>1. /\ call'[p].pc = "send" /\ call'[p].req = r
        /\ seen'[p] = {View(r.op, hash[r.key])}
    BY DEF AReceive, Receive, Idle, AInv, HInv, TypeOK, SeenOK
  <2> QED
    BY <1>1, <1>2, <2>1
       DEF Saw, SeesNow, ViewOf, SawAuthorized, SawReply, SawToken
<1>3. CASE q # p
  <2>1. call'[q] = call[q] /\ seen'[q] = seen[q]
    BY <1>3 DEF AReceive, Receive, AInv, HInv, TypeOK, SeenOK
  <2> QED
    BY <1>1, <2>1
       DEF AInv, Saw, SeesNow, ViewOf, SawAuthorized, SawReply, SawToken,
           InFlight, Sent
<1> QED
  BY <1>2, <1>3

\* Every step keeps the invariant.
LEMMA NextKeepsHistory ==
  ASSUME AInv, [ANext]_avars
  PROVE  AInv'
<1>1. HInv'
  BY HistoryStep, NextKeepsHandlers DEF AInv
<1>2. CASE UNCHANGED avars
  BY <1>1, <1>2
     DEF avars, vars, store, AInv, SeenOK, Saw, SeesNow, ViewOf, SawAuthorized,
         SawReply, SawToken, InFlight, Sent
<1>3. ASSUME NEW p \in Procs, NEW r \in Requests, AReceive(p, r)
      PROVE  AInv'
  <2>1. SeenOK'
    BY <1>3 DEF AReceive, AInv, SeenOK
  <2> QED
    BY <1>1, <1>3, <2>1, ReceiveKeepsSeen DEF AInv
<1>4. CASE AServe
  <2>1. SeenOK'
    BY <1>4 DEF AServe, SeenOK
  <2> QED
    BY <1>1, <1>4, <2>1, ServeKeepsSeen DEF AInv
<1> QED
  BY <1>2, <1>3, <1>4 DEF ANext

\* So the invariant holds in every reachable state.
LEMMA HistoryInvariance == ASpec => []AInv
<1>1. AInit => AInv
  <2> SUFFICES ASSUME AInit PROVE AInv
    OBVIOUS
  <2>1. \A p \in Procs : call[p].pc = "idle"
    BY DEF AInit, Init, Idle
  <2>2. HInv
    BY InitHandlers DEF AInit
  <2> QED
    BY <2>1, <2>2
       DEF AInit, AInv, SeenOK, Saw, SeesNow, SawAuthorized, SawReply, SawToken,
           InFlight, Sent
<1>2. AInv /\ [ANext]_avars => AInv'
  BY NextKeepsHistory
<1> QED
  BY <1>1, <1>2, PTL DEF ASpec

-----------------------------------------------------------------------------
(***************************************************************************)
(* The answers.                                                            *)
(***************************************************************************)

\* An answer that comes from reading alone fits what the reading found.
LEMMA ReadFits ==
  ASSUME AInv, NEW p \in Procs,
         \/ api_get(p)
         \/ confirm_email(p)
         \/ authenticate_read(p) /\ call'[p].pc = "done"
  PROVE  \E view \in seen[p] : Fits(call'[p], view)
<1> DEFINE r == call[p].req
           h == hash[r.key]
           record == redis_get_object(r.key)
           now == View(r.op, h)
<1>1. InFlight(p) /\ TypeOK /\ HInv
  BY DEF api_get, confirm_email, authenticate_read, InFlight, Sent, AInv, HInv
<1>2. /\ h \in Hashes
      /\ record = NoHash => h.state = Nil
      /\ record.state = h.state
      /\ record # NoHash => record = h
  BY <1>1, ReadFinds
<1>3. now \in seen[p]
  BY <1>1 DEF AInv, Saw, SeesNow, ViewOf
<1>4. /\ now.state = h.state
      /\ r.op = "confirm_email" => now.verified = h.verified
  <2>1. r.op # "request_auth"
    BY DEF api_get, confirm_email, authenticate_read
  <2> HIDE DEF r, h
  <2>2. View(r.op, h).state = h.state
    BY <2>1, ViewFields
  <2>3. r.op = "confirm_email" => View(r.op, h).verified = h.verified
    BY ViewFields
  <2> QED
    BY <2>2, <2>3
<1>5. CASE api_get(p)
  <2>1. CASE record = NoHash
    <3>1. call'[p].req = r /\ call'[p].status = 404
      BY <1>1, <1>5, <2>1, AnsweredFields DEF api_get
    <3>2. call'[p].req.op = "api_get" /\ now.state = Nil
      BY <1>2, <1>4, <1>5, <2>1, <3>1 DEF api_get
    <3> HIDE DEF now
    <3> QED
      BY <1>3, <3>1, <3>2, WhatFits
  <2>2. CASE record # NoHash
    <3>1. /\ call'[p].req = r /\ call'[p].status = 200
          /\ call'[p].body = h.state
      <4>1. call' = Answered(p, 200, record.state)
        BY <1>5, <2>2 DEF api_get
      <4> HIDE DEF record
      <4>2. /\ call'[p].req = r /\ call'[p].status = 200
            /\ call'[p].body = record.state
        BY <1>1, <4>1, AnsweredFields
      <4> QED
        BY <1>2, <4>2
    <3>2. call'[p].req.op = "api_get"
      BY <1>5, <3>1 DEF api_get
    <3> HIDE DEF now, h
    <3> QED
      BY <1>3, <1>4, <3>1, <3>2, WhatFits
  <2> QED
    BY <2>1, <2>2
<1>6. CASE confirm_email(p)
  <2>1. email_matches(record, r.claim) <=> email_matches(now, r.claim)
    <3>1. now.verified = h.verified
      BY <1>4, <1>6 DEF confirm_email
    <3>2. CASE record = NoHash
      <4>1. h.state # "authorized" /\ record.state # "authorized"
        BY <1>2, <3>2, NilIsNoState DEF States
      <4> QED
        BY <1>4, <4>1 DEF email_matches
    <3>3. CASE record # NoHash
      <4> HIDE DEF record, now
      <4> QED
        BY <1>2, <1>4, <3>1, <3>3 DEF email_matches
    <3> QED
      BY <3>2, <3>3
  <2>2. /\ call'[p].req = r
        /\ (call'[p].body = "true") <=> email_matches(record, r.claim)
    <3>1. CASE email_matches(record, r.claim)
      BY <1>1, <1>6, <3>1, AnsweredFields DEF confirm_email
    <3>2. CASE ~email_matches(record, r.claim)
      <4>1. call' = Answered(p, 200, "false")
        BY <1>6, <3>2 DEF confirm_email
      <4> QED
        BY <1>1, <3>2, <4>1, AnsweredFields
    <3> QED
      BY <3>1, <3>2
  <2>3. call'[p].req.op = "confirm_email"
    BY <1>6, <2>2 DEF confirm_email
  <2>4. (call'[p].body = "true") <=> email_matches(now, call'[p].req.claim)
    BY <2>1, <2>2
  <2>5. Fits(call'[p], now)
    <3> DEFINE c == call'[p]
    <3> HIDE DEF now, c
    <3> QED
      BY <2>3, <2>4, WhatFits DEF c
  <2> QED
    BY <1>3, <2>5
<1>7. CASE authenticate_read(p) /\ call'[p].pc = "done"
  <2>1. record.state # "authorized"
    BY <1>1, <1>7 DEF authenticate_read, TypeOK, Calls
  <2>2. call' = Answered(p, IF record.state = "pending" THEN 202 ELSE 401, Nil)
    BY <1>7, <2>1 DEF authenticate_read
  <2>3. /\ call'[p].req = r
        /\ call'[p].status = IF record.state = "pending" THEN 202 ELSE 401
    <3> DEFINE status == IF record.state = "pending" THEN 202 ELSE 401
    <3>1. call' = Answered(p, status, Nil)
      BY <2>2
    <3> HIDE DEF status
    <3>2. call'[p].req = r /\ call'[p].status = status
      BY <1>1, <3>1, AnsweredFields
    <3> QED
      BY <3>2 DEF status
  <2>4. h.state \in {"pending", "authorized", "blocked", Nil}
    BY <1>2 DEF Hashes, States
  <2>5. call'[p].req.op = "authenticate"
    BY <1>7, <2>3 DEF authenticate_read
  <2>6. Fits(call'[p], now)
    <3> HIDE DEF record, now, r, h
    <3>1. CASE h.state = "pending"
      BY <1>2, <1>4, <2>3, <2>5, <3>1, WhatFits
    <3>2. CASE h.state # "pending"
      <4>1. call'[p].status = 401 /\ now.state \in {"blocked", Nil}
        BY <1>2, <1>4, <2>1, <2>3, <2>4, <3>2
      <4> QED
        BY <2>5, <4>1, WhatFits
    <3> QED
      BY <3>1, <3>2
  <2> QED
    BY <1>3, <2>6
<1> QED
  BY <1>5, <1>6, <1>7

\* Whoever answers proceeds.
LEMMA AnsweringProceeds ==
  ASSUME AInv, [ANext]_avars, NEW p \in Procs, InFlight(p), call'[p].pc = "done"
  PROVE  Proceed(p)
<1>1. call'[p] # call[p] /\ TypeOK
  BY DEF InFlight, Sent, AInv, HInv
<1>2. ~Abandon(p) /\ \A r \in Requests : ~Receive(p, r)
  BY DEF Abandon, Receive, Idle, AInv, HInv, TypeOK
<1> QED
  BY <1>1, <1>2, OneSlotSteps, HistoryStep

\* What answers: a reply, a reading, or an error.
LEMMA WhatAnswers ==
  ASSUME TypeOK, NEW p \in Procs, Proceed(p), call'[p].pc = "done"
  PROVE  \/ Reply(p)
         \/ api_get(p)
         \/ confirm_email(p)
         \/ authenticate_read(p)
         \/ call' = Answered(p, ErrorStatus(call[p].req.op), Nil)
<1>1. ~Execute(p)
  <2> SUFFICES ASSUME Execute(p) PROVE FALSE
    OBVIOUS
  <2>1. \E status, body : call' = Ran(p, status, body)
    BY DEF Execute
  <2> QED
    BY <2>1, RanFields
<1>2. call' # Retry(p)
  BY RetryFields
<1> QED
  BY <1>1, <1>2 DEF Proceed, Drop, Fail

\* Every answer fits a view its handler has seen.
LEMMA AnswersFit ==
  ASSUME AInv, [ANext]_avars, NEW p \in Procs, InFlight(p), call'[p].pc = "done"
  PROVE  \E view \in seen[p] : Fits(call'[p], view)
<1>1. TypeOK /\ Proceed(p)
  BY AnsweringProceeds DEF AInv, HInv
<1>2. CASE Reply(p)
  <2>1. /\ call'[p].req = call[p].req /\ call'[p].status = call[p].status
        /\ call'[p].body = call[p].body
    BY <1>1, <1>2, AnsweredFields DEF Reply
  <2>2. PICK view \in seen[p] : Fits(call[p], view)
    BY <1>2 DEF Reply, AInv, Saw, SawReply
  <2>3. Fits(call'[p], view)
    BY <2>1, <2>2, FitsAlike
  <2> QED
    BY <2>3
<1>3. CASE api_get(p) \/ confirm_email(p) \/ authenticate_read(p)
  BY <1>3, ReadFits
<1>4. CASE call' = Answered(p, ErrorStatus(call[p].req.op), Nil)
  <2>1. call'[p].status = ErrorStatus(call[p].req.op)
    BY <1>1, <1>4, AnsweredFields
  <2>2. ViewOf(p, hash) \in seen[p]
    BY DEF AInv, Saw, SeesNow
  <2> QED
    BY <2>1, <2>2, ErrorsFit
<1> QED
  BY <1>1, <1>2, <1>3, <1>4, WhatAnswers

\* A login that answers 200 does so on the reply to its HSET.
LEMMA LoginsAnswerOnReply ==
  ASSUME AInv, [ANext]_avars, NEW p \in Procs, InFlight(p),
         call'[p].pc = "done", call'[p].req.op = "authenticate",
         call'[p].status = 200
  PROVE  Reply(p)
<1>1. TypeOK /\ Proceed(p)
  BY AnsweringProceeds DEF AInv, HInv
<1>2. call'[p].req = call[p].req
  BY <1>1, ProceedEffect
<1>3. call' # Answered(p, ErrorStatus(call[p].req.op), Nil)
  <2>1. ErrorStatus(call[p].req.op) = 500
    BY <1>2 DEF ErrorStatus, ConsoleOps
  <2> QED
    BY <1>1, <2>1, AnsweredFields
<1>4. ~authenticate_read(p)
  <2> SUFFICES ASSUME authenticate_read(p) PROVE FALSE
    OBVIOUS
  <2>1. CASE redis_get_object(call[p].req.key).state # "authorized"
    <3>1. \E status \in {202, 401} : call' = Answered(p, status, Nil)
      BY <2>1 DEF authenticate_read
    <3> QED
      BY <1>1, <3>1, AnsweredFields
  <2>2. CASE redis_get_object(call[p].req.key).state = "authorized"
    <3>1. \E json : call' = [call EXCEPT ![p].pc = "write", ![p].json = json]
      BY <2>2 DEF authenticate_read
    <3> QED
      BY <1>1, <3>1 DEF TypeOK, Calls
  <2> QED
    BY <2>1, <2>2
<1> QED
  BY <1>1, <1>2, <1>3, <1>4, WhatAnswers DEF api_get, confirm_email

\* An answer fits what its key was at one moment while its request was served.
THEOREM AnswersWereTrue == ASpec => AnswerWasTrue
<1>1. AInv /\ [ANext]_avars
        => [\A p \in Procs :
              InFlight(p) /\ call'[p].pc = "done"
                => \E view \in seen[p] : Fits(call'[p], view)]_avars
  BY AnswersFit
<1> QED
  BY <1>1, HistoryInvariance, PTL DEF ASpec, AnswerWasTrue

\* A token that a login answers was stored at one moment while it was served,
\* whatever other logins, deletes and late commands did between its HSET and its
\* answer.
THEOREM TokensAnsweredWereStored == ASpec => AnsweredTokenWasStored
<1>1. AInv /\ [ANext]_avars
        => [\A p \in Procs :
              /\ InFlight(p) /\ call'[p].pc = "done"
              /\ call'[p].req.op = "authenticate" /\ call'[p].status = 200
              => \E view \in seen[p] : view.token = call'[p].body]_avars
  <2> SUFFICES ASSUME AInv, [ANext]_avars, NEW p \in Procs, InFlight(p),
                      call'[p].pc = "done",
                      call'[p].req.op = "authenticate", call'[p].status = 200
               PROVE  \E view \in seen[p] : view.token = call'[p].body
    OBVIOUS
  <2>1. Reply(p)
    BY LoginsAnswerOnReply
  <2>2. call'[p].req = call[p].req /\ call'[p].body = call[p].body
    BY <2>1, AnsweredFields DEF Reply, AInv, HInv
  <2> QED
    BY <2>1, <2>2 DEF Reply, AInv, Saw, SawToken
<1> QED
  BY <1>1, HistoryInvariance, PTL DEF ASpec, AnsweredTokenWasStored
=============================================================================
