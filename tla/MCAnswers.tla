----------------------------- MODULE MCAnswers ------------------------------
\* AnswerHistory, with the requests its runs offer.
EXTENDS AnswerHistory, MCRequests
=============================================================================
