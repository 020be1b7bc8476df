-------------------------- MODULE MCConfirmTokens --------------------------
(* An instance of ConfirmTokens for TLC: a kick, which asks twice for the  *)
(* only session, and a firewall plan, which starts a trial.                *)
EXTENDS ConfirmTokens, TLC

\* A firewall plan's token lives longer than a kick's.
Lifetimes == [a \in Actions \cup {"keep"} |-> IF a = "ssh_kick" THEN 1 ELSE 2]

\* Who presses matters only as the same user or another one.
ActorSymmetry == Permutations(Actors)
=============================================================================
