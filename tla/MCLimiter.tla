----------------------------- MODULE MCLimiter -----------------------------
\* ConfirmLimiter, with the symmetry of its slots.
EXTENDS ConfirmLimiter, TLC
ProcSymmetry == Permutations(Procs)
=============================================================================
