---------------------------- MODULE AnswerHistory ----------------------------
(***************************************************************************)
(* AuthServer with a history of what was so while a request was served,    *)
(* for what its answer may say.                                            *)
(***************************************************************************)
EXTENDS AuthServer

VARIABLE seen  \* seen[p]: the views of p's key since p received its request

\* What an answer to op can tell of a key whose hash is h.
View(op, h) ==
  CASE op = "request_auth" -> [there |-> h # NoHash]
    [] op = "authenticate" ->
         [state |-> h.state,
          token |-> IF h.json = Nil THEN Nil ELSE h.json.token]
    [] op \in {"confirm_email", "set_verified"} ->
         [state |-> h.state, verified |-> h.verified]
    [] OTHER -> [state |-> h.state]

\* p's view of its key, when the hashes are h.
ViewOf(p, h) == View(call[p].req.op, h[call[p].req.key])

avars == <<vars, seen>>

AInit == Init /\ seen = [p \in Procs |-> {}]

AReceive(p, r) == /\ Receive(p, r)
                  /\ seen' = [seen EXCEPT ![p] = {View(r.op, hash[r.key])}]

Serve == \/ \E p \in Procs : Proceed(p) \/ Abandon(p)
         \/ \E cmd \in stray : Deliver(cmd)

\* Whoever is still served sees the view a step leaves.
AServe == /\ Serve
          /\ seen' = [p \in Procs |->
                        IF InFlight(p)'
                          THEN seen[p] \cup {ViewOf(p, hash')}
                          ELSE {}]

ANext == \/ \E p \in Procs, r \in Requests : AReceive(p, r)
         \/ AServe

ASpec == AInit /\ [][ANext]_avars

\* Whether an answer fits a key that looks so: a token means authorized, 202
\* pending, 401 neither, a confirmed email authorized with that email, a
\* refused one not, a registration answered 200 a hash that is there, and a
\* write that was answered has been made.
Fits(c, view) ==
  CASE c.req.op = "authenticate" /\ c.status = 200 -> view.state = "authorized"
    [] c.req.op = "authenticate" /\ c.status = 202 -> view.state = "pending"
    [] c.req.op = "authenticate" /\ c.status = 401 ->
         view.state \in {"blocked", Nil}
    [] c.req.op = "request_auth" /\ c.status = 200 -> view.there
    [] c.req.op = "request_auth" /\ c.status = 429 -> ~view.there
    [] c.req.op = "confirm_email" /\ c.status = 200 ->
         (c.body = "true") <=> email_matches(view, c.req.claim)
    [] c.req.op = "api_get" /\ c.status = 200 -> view.state = c.body
    [] c.req.op = "api_get" /\ c.status = 404 -> view.state = Nil
    [] c.req.op = "api_transition" /\ c.status = 200 -> view.state = c.req.to
    [] c.req.op = "set_verified" /\ c.status = 200 -> view.verified = c.req.claim
    [] c.req.op = "set_verified" /\ c.status = 404 -> view.state = Nil
    [] OTHER -> TRUE

\* An answer fits what its key was at one moment while the request was served.
\* So a key whose block has been answered gets no token and no confirmed email
\* from any later request, although authenticate_key works in two commands, a
\* handler may run twice and a command may come late.
AnswerWasTrue ==
  [][\A p \in Procs :
       InFlight(p) /\ call'[p].pc = "done"
         => \E view \in seen[p] : Fits(call'[p], view)]_avars

\* A token that a login answers was the stored one at some moment while the
\* login was served, also when two first logins each drew a token and the other
\* HSET, a delete or a late command ran before the answer.  A token that was
\* never stored would be refused by whoever asks storage about it.
AnsweredTokenWasStored ==
  [][\A p \in Procs :
       /\ InFlight(p) /\ call'[p].pc = "done"
       /\ call'[p].req.op = "authenticate" /\ call'[p].status = 200
       => \E view \in seen[p] : view.token = call'[p].body]_avars
=============================================================================
