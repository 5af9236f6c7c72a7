------------------------- MODULE MCOperationalLease -------------------------
(* Instances of OperationalLease for TLC. *)
EXTENDS OperationalLease

CONSTANTS w1, w2, t1, t2

\* Owner tokens are interchangeable, and so are the two callers: the first one
\* to call is w1, and t2 is drawn only while t1 is in use.
InOrder ==
  /\ pc'[w2] # "idle" => calls'[w1] > 0 \/ pc'[w1] # "idle"
  /\ \A w \in Worker : token[w] # t2 /\ token'[w] = t2 => t1 \notin FreshTokens
=============================================================================
