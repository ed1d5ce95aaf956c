--------------------------- MODULE MCSignInWatch ---------------------------
(* Both sign-ins, three threads (two watches and a late tap), watches that  *)
(* poll twice and three times.                                              *)
EXTENDS SignInWatch

MCPolls == [s \in Services |-> IF s = "ask" THEN 2 ELSE 3]
=============================================================================
