----------------------------- MODULE MCBotLoop -----------------------------
(* Instances of BotLoop for TLC.                                           *)
EXTENDS BotLoop
=============================================================================
