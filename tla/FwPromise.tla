----------------------------- MODULE FwPromise -----------------------------
(***************************************************************************)
(* What the firewall's dead-man switch promises: the SSH rules change only *)
(* while a trial is on, and a trial ends in one of two ways, with the new  *)
(* rules after an explicit Keep, or with the last agreed ones.             *)
(***************************************************************************)
CONSTANT Rules

VARIABLES
    rules,    \* the rules in force
    agreed,   \* the rules of the last Keep
    trial     \* a trial is on

vars == <<rules, agreed, trial>>

Init == rules \in Rules /\ agreed = rules /\ trial = FALSE

Begin == ~trial /\ trial' = TRUE /\ UNCHANGED <<rules, agreed>>

Change == trial /\ rules' \in Rules /\ UNCHANGED <<agreed, trial>>

Keep == trial /\ trial' = FALSE /\ agreed' = rules /\ UNCHANGED rules

Rollback == trial /\ rules = agreed /\ trial' = FALSE /\ UNCHANGED <<rules, agreed>>

Next == Begin \/ Change \/ Keep \/ Rollback

Spec == Init /\ [][Next]_vars
=============================================================================
