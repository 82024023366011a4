------------------------------ MODULE MCServer ------------------------------
(***************************************************************************)
(* ServerProcess and its token lists: every list of up to five characters, *)
(* every presented token of up to three.                                   *)
(***************************************************************************)
EXTENDS ServerProcess

Strings(n) == UNION {[1..m -> {"x", " ", ","}] : m \in 0..n}
ShortLists == Strings(5)
ShortTokens == Strings(3)
=============================================================================
