---------------------------- MODULE MCCredentials ----------------------------
(***************************************************************************)
(* Two requests in one process, and a third in another one or, for the     *)
(* race about a lock file, each in its own.                                *)
(***************************************************************************)
EXTENDS CredentialRefresh

CONSTANTS t1, t2, t3, p1, p2, p3

Sharing == [t \in Tasks |-> IF t = t3 THEN p2 ELSE p1]
Apart == [t \in Tasks |-> CASE t = t1 -> p1 [] t = t2 -> p2 [] OTHER -> p3]
=============================================================================
