------------------------------ MODULE MCParts ------------------------------
(* One instance of each part of the agent that has a module of its own and *)
(* is checked alone: a behaviour is one of a part, in which the others     *)
(* stand still.                                                            *)
EXTENDS FwDetect, LiveMode, ChatClient, SplitMessage, BruteDetector, SshTrust,
        PressGate, ServiceActions, WatchLists, EventLoops

CONSTANTS ua, ub        \* units that can be watched

UnitList == << ua, ub >>
PortList == << 2 >>

VARIABLE part

Parts == { "detect", "live", "chat", "split", "brute", "trust", "gate", "actions", "watch", "loop" }

Init ==
    /\ part \in Parts
    /\ DetectInit /\ LiveInit /\ ChatInit /\ SplitInit /\ BruteInit /\ TrustInit
    /\ GateInit /\ (part # "gate" => chat = "private")
    /\ ActionsInit /\ (part # "actions" => policy = "watched" /\ unit.inv = 1)
    /\ WatchInit
    /\ LoopInit /\ (part # "loop" => loop = "power")

Next ==
    \/ /\ part = "detect" /\ DetectNext
       /\ UNCHANGED << part, liveVars, chatVars, splitVars, bruteVars, trustVars, gateVars, svVars, watchVars, loopVars >>
    \/ /\ part = "live" /\ LiveNext
       /\ UNCHANGED << part, detectVars, chatVars, splitVars, bruteVars, trustVars, gateVars, svVars, watchVars, loopVars >>
    \/ /\ part = "chat" /\ ChatNext
       /\ UNCHANGED << part, detectVars, liveVars, splitVars, bruteVars, trustVars, gateVars, svVars, watchVars, loopVars >>
    \/ /\ part = "split" /\ SplitNext
       /\ UNCHANGED << part, detectVars, liveVars, chatVars, bruteVars, trustVars, gateVars, svVars, watchVars, loopVars >>
    \/ /\ part = "brute" /\ BruteNext
       /\ UNCHANGED << part, detectVars, liveVars, chatVars, splitVars, trustVars, gateVars, svVars, watchVars, loopVars >>
    \/ /\ part = "trust" /\ TrustNext
       /\ UNCHANGED << part, detectVars, liveVars, chatVars, splitVars, bruteVars, gateVars, svVars, watchVars, loopVars >>
    \/ /\ part = "gate" /\ GateNext
       /\ UNCHANGED << part, detectVars, liveVars, chatVars, splitVars, bruteVars, trustVars, svVars, watchVars, loopVars >>
    \/ /\ part = "actions" /\ ActionsNext
       /\ UNCHANGED << part, detectVars, liveVars, chatVars, splitVars, bruteVars, trustVars, gateVars, watchVars, loopVars >>
    \/ /\ part = "watch" /\ WatchNext
       /\ UNCHANGED << part, detectVars, liveVars, chatVars, splitVars, bruteVars, trustVars, gateVars, svVars, loopVars >>
    \/ /\ part = "loop" /\ LoopNext
       /\ UNCHANGED << part, detectVars, liveVars, chatVars, splitVars, bruteVars, trustVars, gateVars, svVars, watchVars >>

vars == << part, detectVars, liveVars, chatVars, splitVars, bruteVars, trustVars, gateVars, svVars, watchVars, loopVars >>

Spec == Init /\ [][Next]_vars
=============================================================================
