------------------------------ MODULE MCForms ------------------------------
\* OpsForms behind a balancer that keeps a browser at its server (Sticky) or does
\* not (Anywhere), with the symmetry that leaves: of operators and of tokens.
EXTENDS OpsForms, TLC

CONSTANTS s1, s2, b1, b2, b3

Sticky == [b \in Browsers |-> IF b = b3 THEN {s2} ELSE {s1}]
Anywhere == [b \in Browsers |-> Servers]

FormSymmetry == Permutations(Members)
                  \cup Permutations(FormTokens)
=============================================================================
