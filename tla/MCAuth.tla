------------------------------- MODULE MCAuth -------------------------------
\* AuthRequirements, with the requests its runs offer.
EXTENDS AuthRequirements, MCRequests
=============================================================================
