----------------------------- MODULE KeyRegistry -----------------------------
(***************************************************************************)
(* What the server promises about a key, with no Redis, no handlers and no *)
(* connection in sight: a key is absent or in one of three standings, it   *)
(* enters by registering, an administrator moves or removes it, and the    *)
(* claims an administrator attests stay until attested again or removed.   *)
(***************************************************************************)
EXTENDS Integers, FiniteSets

CONSTANTS Keys, Claims, MaxPending, Nil

VARIABLES
  standing,  \* standing[k]: the standing of k, Nil when k is absent
  claim      \* claim[k]: the attested claims of k, Nil when there are none

Standings == {"pending", "authorized", "blocked"}

Pending == {k \in Keys : standing[k] = "pending"}

Init == /\ standing = [k \in Keys |-> Nil]
        /\ claim = [k \in Keys |-> Nil]

Register(k) == /\ standing[k] = Nil
               /\ Cardinality(Pending) < MaxPending
               /\ standing' = [standing EXCEPT ![k] = "pending"]
               /\ UNCHANGED claim

Move(k, to) == /\ standing[k] # Nil
               /\ standing' = [standing EXCEPT ![k] = to]
               /\ UNCHANGED claim

Remove(k) == /\ standing[k] # Nil
             /\ standing' = [standing EXCEPT ![k] = Nil]
             /\ claim' = [claim EXCEPT ![k] = Nil]

Attest(k, c) == /\ standing[k] # Nil
                /\ claim' = [claim EXCEPT ![k] = c]
                /\ UNCHANGED standing

Next == \E k \in Keys : \/ Register(k)
                        \/ \E to \in Standings : Move(k, to)
                        \/ Remove(k)
                        \/ \E c \in Claims : Attest(k, c)

Spec == Init /\ [][Next]_<<standing, claim>>
=============================================================================
