--------------------------- MODULE BruteDetector ---------------------------
(* sshwatch's sliding window of failed attempts per address, which forgets *)
(* addresses to stay small, against a detector that remembers everything   *)
(* (brute.go). An attempt is its number in all, where its time is.         *)
EXTENDS Integers, Sequences, FiniteSets

CONSTANTS
    Scanners,           \* addresses that fail to log in
    Window, Threshold,
    MaxBruteTime, MaxAttempts   \* bounds

ASSUME BruteAssumption == Window \in Nat /\ Threshold \in Nat

VARIABLES
    at,         \* the time of the line being read
    attempts,   \* the attempts kept for each address
    fired,      \* when each address last crossed or stayed over the threshold
    lastSweep,
    all,        \* every attempt ever made: who and when
    alarms,     \* the alerts: who and when
    should      \* the alerts of the detector that forgets nothing, and its fired

bruteVars == << at, attempts, fired, lastSweep, all, alarms, should >>

Never == -1

BruteInit ==
    /\ at = 0 /\ lastSweep = - Window
    /\ attempts = [ip \in Scanners |-> {}] /\ fired = [ip \in Scanners |-> Never]
    /\ all = << >> /\ alarms = {}
    /\ should = [alarms |-> {}, fired |-> [ip \in Scanners |-> Never]]

\* Those inside the window that ends now.
InWindow(kept, now) == { n \in kept : all[n].t > now - Window }

\* BruteDetector.Count
Count(ip, now) == Cardinality(InWindow(attempts[ip], now))

\* Mutant: an address with one attempt in the window is forgotten as well.
pruneOne(now) == { ip \in Scanners : Cardinality(InWindow(attempts[ip], now)) <= 1 }

\* prune: addresses whose newest attempt has left the window are forgotten, with
\* their fired time.
prune(now) == { ip \in Scanners : InWindow(attempts[ip], now) = {} }

\* Whether an attempt is one to alert on, and the quiet period after it.
JudgeAttempt(n, last) ==
    CASE n < Threshold -> [alert |-> FALSE, fired |-> last]
      [] n >= Threshold -> [alert |-> last = Never \/ at - last >= Window, fired |-> at]

RecordAttempt(ip) ==
    LET gone == IF at - lastSweep >= Window THEN prune(at) ELSE {}
        old == IF ip \in gone THEN {} ELSE attempts[ip]
        kept == InWindow(old, at) \cup { Len(all) + 1 }
        judged == JudgeAttempt(Cardinality(kept), IF ip \in gone THEN Never ELSE fired[ip])
        past == { i \in DOMAIN all : all[i].ip = ip /\ all[i].t > at - Window }
        true == JudgeAttempt(Cardinality(past) + 1, should.fired[ip])
    IN  /\ Len(all) < MaxAttempts
        /\ lastSweep' = IF at - lastSweep >= Window THEN at ELSE lastSweep
        /\ attempts' = [i \in Scanners |-> IF i = ip THEN kept ELSE IF i \in gone THEN {} ELSE attempts[i]]
        /\ fired' = [i \in Scanners |-> IF i = ip THEN judged.fired ELSE IF i \in gone THEN Never ELSE fired[i]]
        /\ all' = Append(all, [ip |-> ip, t |-> at])
        /\ alarms' = IF judged.alert THEN alarms \cup { [ip |-> ip, n |-> Len(all) + 1] } ELSE alarms
        /\ should' = [alarms |-> IF true.alert THEN should.alarms \cup { [ip |-> ip, n |-> Len(all) + 1] } ELSE should.alarms,
                      fired |-> [should.fired EXCEPT ![ip] = true.fired]]
        /\ UNCHANGED at

BruteTick ==
    /\ at < MaxBruteTime /\ at' = at + 1
    /\ UNCHANGED << attempts, fired, lastSweep, all, alarms, should >>

BruteNext == (\E ip \in Scanners : RecordAttempt(ip)) \/ BruteTick

-----------------------------------------------------------------------------
(* Property.                                                               *)

\* Forgetting changes no decision: the detector alerts on exactly the attempts, and
\* counts exactly the attempts in the window, that one with all of history would
\* (the claim prune's comment argues for).
PruneHarmless ==
    /\ alarms = should.alarms
    /\ \A ip \in Scanners :
          Count(ip, at) = Cardinality({ i \in DOMAIN all : all[i].ip = ip /\ all[i].t > at - Window })
=============================================================================
