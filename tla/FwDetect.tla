------------------------------ MODULE FwDetect ------------------------------
(* Which firewall the agent finds on this host, one command after the      *)
(* other while the host changes; the buttons its screen then offers and    *)
(* what the action path refuses (fwnft.go, firewall.go, firewalld's        *)
(* Probe).                                                                 *)
EXTENDS Integers

CONSTANTS
    AllowCloseSSH,      \* firewall.allow_close_ssh
    MaxHost             \* bound on changes of the host while the agent reads

\* What a probe says of a manager (sshPortState). In the last three it is
\* active and its rules were read.
Managed == { "open", "closed", "unmanaged" }
States == { "missing", "unusable", "inactive", "unparsed" } \cup Managed

manageable(p) == p \in Managed

VARIABLES
    host,       \* the truth: ufw, firewalld, and plain rules of nft or iptables
    hosted,     \* changes of the host so far
    reading,    \* the detection under way: who asked, its step, what it found
    offered,    \* the open 🛡 screen: what was found and its buttons
    enforced    \* who was enforcing at some time since the reading began

detectVars == << host, hosted, reading, offered, enforced >>

NoReading == [step |-> "none", for |-> "none", ufw |-> "missing", fwd |-> FALSE,
              kind |-> "", b |-> "none", p |-> "missing", conflict |-> FALSE]
NoScreen == [found |-> NoReading, buttons |-> { }]

\* The managers that filter now. firewalld's zone says nothing of a firewalld
\* that runs but cannot be asked.
Enforcing == (IF host.ufw \in Managed THEN { "ufw" } ELSE { })
             \cup (IF host.fwd \in Managed \cup { "unusable", "unparsed" } THEN { "firewalld" } ELSE { })

DetectInit ==
    /\ host = [ufw |-> "inactive", fwd |-> "missing", plain |-> ""] /\ hosted = 0
    /\ reading = NoReading /\ offered = NoScreen /\ enforced = { }

\* ufw or firewalld is installed, started, stopped or breaks; rules come and go.
HostChanges ==
    /\ hosted < MaxHost /\ hosted' = hosted + 1
    /\ \/ \E s \in States : host' = [host EXCEPT !.ufw = s]
       \/ \E s \in States : host' = [host EXCEPT !.fwd = s]
       \/ \E s \in { "", "nftables", "iptables" } : host' = [host EXCEPT !.plain = s]
    /\ enforced' = enforced \cup Enforcing'
    /\ UNCHANGED << reading, offered >>

-----------------------------------------------------------------------------
(* detectFw, one command at a time.                                        *)

\* A screen is asked for, or a press of any age wants to change rules.
Begin(for) ==
    /\ reading.step = "none"
    /\ reading' = [NoReading EXCEPT !.step = "ufw", !.for = for]
    /\ enforced' = Enforcing
    /\ UNCHANGED << host, hosted, offered >>

Step(from, r) == reading.step = from /\ reading' = r /\ UNCHANGED << host, hosted, offered, enforced >>

\* probeUFW: `ufw status`.
probeUFW == Step("ufw", [reading EXCEPT !.ufw = host.ufw,
                                        !.step = IF manageable(host.ufw) THEN "verbose" ELSE "state"])

\* probeUFWVerbose: an answer that is not an active one keeps the first.
probeUFWVerbose == Step("verbose", [reading EXCEPT !.step = "state",
                                        !.ufw = IF manageable(host.ufw) THEN host.ufw ELSE @])

\* firewalldRunning, then who is in charge: an active ufw, else firewalld.
firewalldRunning ==
    LET fwd == "firewalld" \in Enforcing
        r == [reading EXCEPT !.fwd = fwd]
    IN  Step("state", CASE manageable(r.ufw) -> [r EXCEPT !.step = "done", !.kind = "ufw", !.b = "ufw",
                                                           !.p = r.ufw, !.conflict = fwd]
                        [] ~ manageable(r.ufw) /\ fwd -> [r EXCEPT !.step = "probe", !.kind = "firewalld",
                                                                   !.b = "firewalld"]
                        [] OTHER -> [r EXCEPT !.step = "plain"])

\* firewalldBackend.Probe asks --state again and reads the zone.
Probe == Step("probe", [reading EXCEPT !.p = host.fwd, !.step = "done"])

\* Rules nobody the agent knows manages.
runFirst == Step("plain", [reading EXCEPT !.kind = host.plain, !.step = "done"])

-----------------------------------------------------------------------------
(* What is offered and what is refused.                                    *)

\* firewallFor: the buttons of the screen that lead to a change.
firewallFor(f) ==
    LET p == IF f.b = "none" THEN f.ufw ELSE f.p
    IN  IF f.kind \in { "nftables", "iptables" } \/ ~ manageable(p) \/ f.conflict THEN { }
        ELSE { "add", "presets" } \cup (IF f.kind = "ufw" THEN { "restore" } ELSE { })
             \cup (IF p # "open" THEN { "open" } ELSE { })
             \cup (IF p # "closed" /\ AllowCloseSSH THEN { "close" } ELSE { })

\* probeRefusal, firewalldRefusal: why a probed state refuses, "" when not.
probeRefusal(p) == IF p \in Managed THEN "" ELSE p

\* Mutant: refusal without its first case.
refusalNoConflict(f) ==
    IF f.kind \in { "nftables", "iptables" } THEN "plain"
    ELSE probeRefusal(IF f.b = "none" THEN f.ufw ELSE f.p)

\* fwFound.refusal
refusal(f) ==
    IF f.conflict THEN "conflict"
    ELSE IF f.kind \in { "nftables", "iptables" } THEN "plain"
    ELSE probeRefusal(IF f.b = "none" THEN f.ufw ELSE f.p)

\* firewallScreen: the buttons of what was found.
Show ==
    /\ reading.step = "done" /\ reading.for = "screen"
    /\ offered' = [found |-> reading, buttons |-> firewallFor(reading)]
    /\ reading' = NoReading
    /\ UNCHANGED << host, hosted, enforced >>

\* runTrial refuses, or goes on with f.b.
Run ==
    /\ reading.step = "done" /\ reading.for = "press"
    /\ reading' = IF refusal(reading) # "" THEN NoReading ELSE [reading EXCEPT !.step = "change"]
    /\ UNCHANGED << host, hosted, offered, enforced >>

Changed == Step("change", NoReading)

DetectNext ==
    \/ HostChanges \/ (\E for \in { "screen", "press" } : Begin(for))
    \/ probeUFW \/ probeUFWVerbose \/ firewalldRunning \/ Probe \/ runFirst
    \/ Show \/ Run \/ Changed

-----------------------------------------------------------------------------
(* Properties.                                                             *)

\* Whatever the host turned into between the commands of one detection, a screen
\* offers a change exactly in the states the action path accepts (refusal and
\* probeRefusal), and a change that goes on names one manager, which was
\* enforcing at some time during the press's own detection: no rule goes into a
\* disabled ufw or beside a second manager (firewallFor, fwFound.refusal).
OffersWhatRuns ==
    /\ offered.buttons # { } <=> refusal(offered.found) = ""
    /\ reading.step = "change" =>
          /\ reading.b \in enforced
          /\ ~ (reading.fwd /\ reading.b = "ufw")
=============================================================================
