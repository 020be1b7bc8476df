--------------------------- MODULE FwPlansProofs ---------------------------
(* Proofs about FwPlans: what the SSH guard lets through keeps every        *)
(* connection, what a Yes makes on ufw is what its screen showed, and a     *)
(* planned deny denies on ufw and on firewalld.                             *)
EXTENDS FwPlans, WellFoundedInduction, FiniteSetTheorems, SequenceTheorems, TLAPS

-----------------------------------------------------------------------------
(* The guard.                                                              *)

\* First names the least of a set of positions.
LEMMA FirstLeast ==
    ASSUME NEW S, S \subseteq Nat, S # {}
    PROVE  First(S) \in S /\ \A j \in S : First(S) <= j
<1>1. PICK i \in S : \A j \in S : ~ (<< j, i >> \in OpToRel(<, Nat))
  BY NatLessThanWellFounded, WFMin
<1>2. \A j \in S : ~ (j < i)
  BY <1>1 DEF OpToRel
<1>3. \E k \in S : \A j \in S : k <= j
  <2>1. \A j \in S : i <= j
    BY <1>2, SMT
  <2> QED BY <2>1
<1> QED BY <1>3 DEF First

\* The least of a set is the least of a part that has it, else before that part.
LEMMA FirstInPart ==
    ASSUME NEW D, NEW M, D \subseteq M, M \subseteq Nat, M # {}
    PROVE  /\ First(M) \in D => First(D) = First(M)
           /\ First(M) \notin D => \A j \in D : First(M) < j
<1>1. First(M) \in M /\ \A j \in M : First(M) <= j
  BY FirstLeast
<1>2. ASSUME First(M) \in D PROVE First(D) = First(M)
  <2>1. First(D) \in D /\ \A j \in D : First(D) <= j
    BY <1>2, FirstLeast
  <2>2. First(D) <= First(M) /\ First(M) <= First(D) /\ First(D) \in Nat /\ First(M) \in Nat
    BY <1>1, <1>2, <2>1
  <2> QED BY <2>2
<1>3. ASSUME First(M) \notin D, NEW j \in D PROVE First(M) < j
  <2>1. First(M) <= j /\ First(M) # j /\ j \in Nat /\ First(M) \in Nat
    BY <1>1, <1>3
  <2> QED BY <2>1
<1> QED BY <1>2, <1>3

\* What a list of rows names, each row of its set is in.
LEMMA ListedSelf ==
    ASSUME NEW s, NEW E, E \subseteq Nat, NEW i \in E
    PROVE  << s[i], s[i] >> \in Listed(s, E)
<1>1. << i, i >> \in E \X E /\ << i, i >>[1] = i /\ << i, i >>[2] = i /\ i <= i
  OBVIOUS
<1>2. << i, i >> \in { q \in E \X E : q[1] <= q[2] }
  BY <1>1
<1>3. << s[<< i, i >>[1]], s[<< i, i >>[2]] >> \in Listed(s, E)
  BY <1>2, Zenon DEF Listed
<1> QED BY <1>1, <1>3

\* A list of rows that each do something.
Rows(s) == s \in Seq(Range(s)) /\ \A i \in DOMAIN s : s[i].act \in Actions

\* The positions whose rows match a connection, given which uncertain ones do.
Matches(s, port, peer, hits) == { i \in DOMAIN s : Hit(s[i], port, peer, hits) }

\* No row blocks whose match cannot be told.
SureToBlock(s) == \A r \in Uncertain(s) : r.act \in Lets

\* The rows that decide match, and a row that matches decides or is uncertain.
LEMMA DecidersMatch ==
    ASSUME NEW s, Rows(s), NEW port, NEW peer \in Peers, NEW hits
    PROVE  LET D == Deciders(s, port, Is6(peer), peer)
               M == Matches(s, port, peer, hits)
           IN  /\ D \subseteq M /\ M \subseteq Nat
               /\ \A i \in M \ D : s[i] \in Uncertain(s) /\ s[i] \in hits
<1> DEFINE D == Deciders(s, port, Is6(peer), peer)
           M == Matches(s, port, peer, hits)
<1>1. peer # NoPeer
  BY AddressAssumption DEF Peers
<1>2. D \subseteq M
  BY <1>1 DEF Deciders, Matches, Hit, restricted
<1>3. M \subseteq Nat
  BY DEF Matches, Rows
<1>4. ASSUME NEW i \in M \ D
      PROVE  s[i] \in Uncertain(s) /\ s[i] \in hits
  BY <1>1, <1>4 DEF Matches, Hit, Deciders, restricted, Uncertain
<1> QED BY <1>2, <1>3, <1>4

\* Where no uncertain row blocks, the rows before the deciders let in.
LEMMA EarlyLets ==
    ASSUME NEW s, Rows(s), SureToBlock(s), NEW port, NEW peer \in Peers, NEW hits,
           Matches(s, port, peer, hits) # {},
           First(Matches(s, port, peer, hits)) \notin Deciders(s, port, Is6(peer), peer)
    PROVE  s[First(Matches(s, port, peer, hits))].act \in Lets
<1> DEFINE M == Matches(s, port, peer, hits)
<1>1. First(M) \in M
  BY DecidersMatch, FirstLeast
<1> QED BY <1>1, DecidersMatch DEF SureToBlock

\* A verdict that lets the peer in is true, unless an uncertain row blocks.
LEMMA VerdictTrue ==
    ASSUME NEW st, Rows(st.rules), SureToBlock(st.rules), NEW port, NEW peer \in Peers, NEW hits,
           reachable(Verdict(st, port, Is6(peer), peer))
    PROVE  Accepts(st, port, peer, hits)
<1> DEFINE s == st.rules
           D == Deciders(s, port, Is6(peer), peer)
           M == Matches(s, port, peer, hits)
<1>1. D \subseteq M /\ M \subseteq Nat
  BY DecidersMatch
<1>2. D = {} => st.policy = "allow"
  BY DEF reachable, Verdict, NoRule, Lets
<1>3. CASE M = {}
  BY <1>1, <1>2, <1>3 DEF Accepts, Matches
<1>4. CASE M # {} /\ First(M) \notin D
  BY <1>4, EarlyLets DEF Accepts, Matches
<1>5. CASE M # {} /\ First(M) \in D
  <2>3. First(D) = First(M)
    BY <1>1, <1>5, FirstInPart
  <2>4. s[First(D)].act \in Lets
    <3>1. First(D) \in DOMAIN s
      BY <1>5, <2>3 DEF Deciders
    <3>2. s[First(D)].act \in Actions
      BY <3>1 DEF Rows
    <3>3. s[First(D)] # NoRule
      BY <3>2 DEF NoRule, Actions
    <3>4. Verdict(st, port, Is6(peer), peer).rule = s[First(D)]
      BY <1>5 DEF Verdict
    <3> QED BY <3>3, <3>4 DEF reachable
  <2> QED BY <1>5, <2>3, <2>4 DEF Accepts, Matches
<1> QED BY <1>3, <1>4, <1>5

\* What lets a peer in that the verdict calls blocked is an uncertain row before
\* the deciders, and the verdict lists it.
LEMMA LetInListed ==
    ASSUME NEW st, Rows(st.rules), NEW port, NEW peer \in Peers, NEW hits,
           ~ reachable(Verdict(st, port, Is6(peer), peer)), Accepts(st, port, peer, hits)
    PROVE  \E x \in hits : LET v == Verdict(st, port, Is6(peer), peer)
                           IN  /\ Counts(x, Is6(peer))
                               /\ \/ unresolved(x) /\ << x, x >> \in v.unsure
                                  \/ /\ ~ unresolved(x) /\ Concerns(x, port, peer)
                                     /\ << x, x >> \in v.except
<1> DEFINE s == st.rules
           D == Deciders(s, port, Is6(peer), peer)
           M == Matches(s, port, peer, hits)
           v == Verdict(st, port, Is6(peer), peer)
           seen == { i \in Before(s, D) : Counts(s[i], Is6(peer)) }
           except == { i \in seen : /\ ~ unresolved(s[i]) /\ Concerns(s[i], port, peer)
                                    /\ restricted(s[i], peer) /\ s[i].act \in Lets }
           unsure == { i \in seen : unresolved(s[i]) }
<1>1. D \subseteq M /\ M \subseteq Nat /\ \A i \in M \ D : s[i] \in Uncertain(s) /\ s[i] \in hits
  BY DecidersMatch
<1>2. M # {} 
  <2>1. SUFFICES ASSUME M = {} PROVE FALSE
    OBVIOUS
  <2>2. st.policy = "allow"
    BY <2>1 DEF Accepts, Matches
  <2>3. D = {}
    BY <1>1, <2>1
  <2> QED BY <2>2, <2>3 DEF reachable, Verdict
<1>3. First(M) \in M /\ \A j \in M : First(M) <= j
  BY <1>1, <1>2, FirstLeast
<1>4. s[First(M)].act \in Lets
  BY <1>2 DEF Accepts, Matches
<1>5. First(M) \notin D
  <2>1. SUFFICES ASSUME First(M) \in D PROVE FALSE
    OBVIOUS
  <2>3. First(D) = First(M)
    BY <1>1, <1>2, <2>1, FirstInPart
  <2> QED BY <1>4, <2>1, <2>3 DEF reachable, Verdict
<1>6. \A j \in D : First(M) < j
  BY <1>1, <1>2, <1>5, FirstInPart
<1> DEFINE x == s[First(M)]
<1>7. x \in hits /\ x \in Uncertain(s)
  BY <1>1, <1>3, <1>5
<1>8. First(M) \in DOMAIN s /\ Hit(x, port, peer, hits)
  BY <1>3 DEF Matches
<1>9. First(M) \in seen /\ Counts(x, Is6(peer))
  BY <1>6, <1>8 DEF Before, Hit
<1>11. seen \subseteq Nat
  BY DEF Before, Rows
<1>12. CASE unresolved(x)
  <2>1. First(M) \in unsure
    BY <1>9, <1>12
  <2>2. << x, x >> \in Listed(s, unsure)
    BY <2>1, <1>11, ListedSelf
  <2>3. << x, x >> \in v.unsure
    BY <2>2 DEF Verdict
  <2> QED BY <1>7, <1>9, <1>12, <2>3
<1>13. CASE ~ unresolved(x)
  <2>1. x.only # Zero /\ Concerns(x, port, peer)
    BY <1>5, <1>7, <1>8, <1>13, AddressAssumption DEF Hit, Uncertain, Deciders, restricted, Peers
  <2>2. First(M) \in except
    BY <1>4, <1>9, <1>13, <2>1 DEF restricted
  <2>3. << x, x >> \in Listed(s, except)
    BY <2>2, <1>11, ListedSelf
  <2>4. << x, x >> \in v.except
    BY <2>3 DEF Verdict
  <2> QED BY <1>7, <1>9, <1>13, <2>1, <2>4
<1> QED BY <1>12, <1>13

\* A row the verdict lists stands before the deciders.
LEMMA ListedEarly ==
    ASSUME NEW st, NEW port, NEW v6, NEW peer, NEW x,
           LET v == Verdict(st, port, v6, peer)
           IN  << x, x >> \in v.unsure \/ << x, x >> \in v.except
    PROVE  \E i \in Before(st.rules, Deciders(st.rules, port, v6, peer)) : st.rules[i] = x
<1> DEFINE s == st.rules
           D == Deciders(s, port, v6, peer)
           v == Verdict(st, port, v6, peer)
<1>1. ASSUME NEW E, E \subseteq Before(s, D), << x, x >> \in Listed(s, E)
      PROVE  \E i \in Before(s, D) : s[i] = x
  <2>1. PICK q \in E \X E : << x, x >> = << s[q[1]], s[q[2]] >>
    BY <1>1 DEF Listed
  <2> QED BY <1>1, <2>1
<1>2. PICK E : E \subseteq Before(s, D) /\ << x, x >> \in Listed(s, E)
  <2> DEFINE seen == { i \in Before(s, D) : Counts(s[i], v6) }
             except == { i \in seen : /\ ~ unresolved(s[i]) /\ Concerns(s[i], port, peer)
                                      /\ restricted(s[i], peer) /\ s[i].act \in Lets }
             unsure == { i \in seen : unresolved(s[i]) }
  <2>1. v.except = Listed(s, except) /\ v.unsure = Listed(s, unsure)
    BY DEF Verdict
  <2>2. except \subseteq Before(s, D) /\ unsure \subseteq Before(s, D)
    OBVIOUS
  <2> HIDE DEF except, unsure, v
  <2>3. << x, x >> \in v.unsure \/ << x, x >> \in v.except
    BY DEF v
  <2> QED BY <2>1, <2>2, <2>3
<1> QED BY <1>1, <1>2

\* The guard is right: a change it passes keeps every connection of a peer it
\* looked at, when no uncertain row of the new list blocks.
LEMMA GuardRight ==
    ASSUME NEW before, NEW after, Rows(before.rules), Rows(after.rules), SureToBlock(after.rules),
           NEW ports, NEW hosts, hosts \subseteq Peers, ~ sshGuard(before, after, ports, hosts),
           NEW port \in ports, NEW peer \in hosts, NEW hits, Accepts(before, port, peer, hits)
    PROVE  Accepts(after, port, peer, hits)
<1> DEFINE va == Verdict(after, port, Is6(peer), peer)
           vb == Verdict(before, port, Is6(peer), peer)
           s == after.rules
           D == Deciders(s, port, Is6(peer), peer)
           M == Matches(s, port, peer, hits)
<1>0. peer \in Peers
  OBVIOUS
<1>1. reachable(va) \/ (~ reachable(vb) /\ vb = va)
  BY DEF sshGuard, CutsOff
<1>2. CASE reachable(va)
  BY <1>0, <1>2, VerdictTrue
<1>3. CASE ~ reachable(vb) /\ vb = va
  <2>1. PICK x \in hits : /\ Counts(x, Is6(peer))
                          /\ \/ unresolved(x) /\ << x, x >> \in vb.unsure
                             \/ /\ ~ unresolved(x) /\ Concerns(x, port, peer)
                                /\ << x, x >> \in vb.except
    BY <1>0, <1>3, LetInListed
  <2>2. PICK i \in Before(s, D) : s[i] = x
    BY <1>3, <2>1, ListedEarly
  <2>3. i \in M
    BY <2>1, <2>2 DEF Before, Matches, Hit
  <2>4. M \subseteq Nat /\ D \subseteq M
    BY <1>0, DecidersMatch
  <2>5. First(M) \in M /\ First(M) <= i
    BY <2>3, <2>4, FirstLeast
  <2>6. \A j \in D : i < j
    BY <2>2 DEF Before
  <2>7. First(M) \notin D
    <3>1. First(M) \in Nat /\ i \in Nat
      BY <2>3, <2>4, <2>5
    <3> QED BY <2>5, <2>6, <3>1
  <2>8. s[First(M)].act \in Lets
    BY <1>0, <2>3, <2>7, EarlyLets
  <2> QED BY <2>3, <2>8 DEF Accepts, Matches
<1> QED BY <1>1, <1>2, <1>3

-----------------------------------------------------------------------------
(* A change on trial.                                                      *)

\* A trial stands alone, and the rules it leaves passed the guard for the peers
\* it was verified for; nothing changes them before it ends.
GuardedTrial ==
    /\ peers \subseteq Peers
    /\ \/ trial = Idle
       \/ /\ trial.step = "on" /\ running = Idle
          /\ trial.peers \subseteq Peers
          /\ ~ sshGuard(trial.was, Status(fw), SSHPorts, trial.peers)

\* Both lists are rows, and no row of the new one blocks whose match cannot be
\* told: the verdict passes over such a row, so the guard cannot see it.
Known ==
    trial.step = "on" => /\ Rows(trial.was.rules) /\ Rows(Status(fw).rules)
                         /\ SureToBlock(Status(fw).rules)

\* What is idle is at no step.
LEMMA NotIdle == Idle.step = "no"
BY DEF Idle

\* At the start no change is on trial.
LEMMA InitGuarded == Init => GuardedTrial
BY DEF Init, GuardedTrial

\* Every step keeps what is said of a trial.
LEMMA NextGuarded == GuardedTrial /\ [Next]_vars => GuardedTrial'
<1> SUFFICES ASSUME GuardedTrial, [Next]_vars PROVE GuardedTrial'
  OBVIOUS
<1>1. ASSUME Ask, UNCHANGED << v6ok, peers >> PROVE GuardedTrial'
  BY <1>1 DEF Ask, GuardedTrial
<1>2. ASSUME NEW request \in Requests, PlanSpecs(request) PROVE GuardedTrial'
  BY <1>1, <1>2 DEF PlanSpecs, Ask
<1>3. ASSUME NEW i, PlanDelete(i) PROVE GuardedTrial'
  BY <1>1, <1>3 DEF PlanDelete, Ask
<1>4. ASSUME NEW snap, PlanRestore(snap) PROVE GuardedTrial'
  BY <1>1, <1>4 DEF PlanRestore, Ask
<1>5. ASSUME NEW k \in DOMAIN plans, RunPlan(k) PROVE GuardedTrial'
  <2>1. UNCHANGED << fw, peers, trial >> /\ (trial # Idle => running' = Idle)
    BY <1>5 DEF RunPlan
  <2> QED BY <2>1 DEF GuardedTrial, Status
<1>6. ASSUME ApplyPlan PROVE GuardedTrial'
  <2>1. trial = Idle /\ UNCHANGED << peers, trial >>
    BY <1>6, NotIdle DEF ApplyPlan, GuardedTrial
  <2> QED BY <2>1 DEF GuardedTrial
<1>7. ASSUME VerifyPlan PROVE GuardedTrial'
  <2>1. running' = Idle /\ peers' = peers /\ peers \subseteq Peers
    BY <1>7 DEF VerifyPlan, GuardedTrial
  <2>2. CASE sshGuard(Status(running.before), Status(fw), SSHPorts, peers)
    BY <1>7, <2>1, <2>2 DEF VerifyPlan, GuardedTrial
  <2>3. CASE ~ sshGuard(Status(running.before), Status(fw), SSHPorts, peers)
    <3>1. /\ fw' = fw
          /\ trial' = [step |-> "on", was |-> Status(running.before), snap |-> running.snap, peers |-> peers]
      BY <1>7, <2>3 DEF VerifyPlan
    <3>2. trial'.step = "on" /\ trial'.was = Status(running.before) /\ trial'.peers = peers
      BY <3>1
    <3> QED BY <2>1, <2>3, <3>1, <3>2 DEF GuardedTrial, Status
  <2> QED BY <2>2, <2>3
<1>8. ASSUME EndTrial PROVE GuardedTrial'
  BY <1>8 DEF EndTrial, GuardedTrial
<1>9. ASSUME ForeignEdit PROVE GuardedTrial'
  BY <1>9, NotIdle DEF ForeignEdit, GuardedTrial
<1>10. ASSUME Login PROVE GuardedTrial'
  BY <1>10 DEF Login, GuardedTrial, Status
<1>11. ASSUME Tick \/ UNCHANGED vars PROVE GuardedTrial'
  BY <1>11 DEF Tick, vars, GuardedTrial, Status
<1> QED BY <1>2, <1>3, <1>4, <1>5, <1>6, <1>7, <1>8, <1>9, <1>10, <1>11 DEF Next

\* A change on trial keeps every SSH connection possible that was, for every
\* rule list, plan, port and peer, whatever the rows that cannot be told match
\* (sshGuard, runPlan's check of the rules read back). Known leaves out the new
\* list with an uncertain row that blocks: there the code does not keep it.
THEOREM StaysReachableCorrect == Spec => [](Known => StaysReachable)
<1>1. GuardedTrial => (Known => StaysReachable)
  <2> SUFFICES ASSUME GuardedTrial, Known, trial.step = "on",
                      NEW port \in SSHPorts, NEW peer \in trial.peers, NEW hits,
                      Accepts(trial.was, port, peer, hits)
               PROVE  Accepts(Status(fw), port, peer, hits)
    BY DEF StaysReachable
  <2>1. /\ trial.peers \subseteq Peers
        /\ ~ sshGuard(trial.was, Status(fw), SSHPorts, trial.peers)
    BY NotIdle DEF GuardedTrial
  <2>2. Rows(trial.was.rules) /\ Rows(Status(fw).rules) /\ SureToBlock(Status(fw).rules)
    BY DEF Known
  <2> QED BY <2>1, <2>2, GuardRight
<1> QED BY <1>1, InitGuarded, NextGuarded, PTL DEF Spec

-----------------------------------------------------------------------------
(* What is shown and what is made, on ufw.                                 *)

\* The firewall is ufw, under the policy of today.
UfwNow(f) == f = [kind |-> "ufw", rules |-> f.rules, policy |-> fw.policy]

\* A plan shows the outcome of its changes on the rules it was made against; a
\* restore the snapshot's rules.
ShowsOutcome(req) ==
    req.after = [rules |-> IF req.restore THEN req.after.rules
                                          ELSE simulate(req.base, req.plan, v6ok),
                 policy |-> fw.policy]

\* A plan whose Yes was accepted meets the rules it was made against until
\* another tool edits them; each set of rules held on the way is ufw's, under
\* the policy of today.
RunningUfw(r) ==
    /\ r = [step |-> r.step, req |-> r.req, before |-> r.before, snap |-> r.snap, foreign |-> r.foreign]
    /\ UfwNow(r.snap) /\ ShowsOutcome(r.req)
    /\ r.step = "ready" /\ ~ r.foreign => fw.rules = r.req.base

\* What is pending, on trial or on its way shows its outcome.
ShownInv ==
    /\ UfwNow(fw)
    /\ \A k \in DOMAIN plans : ShowsOutcome(plans[k])
    /\ running = Idle \/ RunningUfw(running)
    /\ trial = Idle \/ UfwNow(trial.snap)

\* At the start nothing is planned.
LEMMA InitShown == Init /\ fw.kind = "ufw" => ShownInv
<1> SUFFICES ASSUME Init, fw.kind = "ufw" PROVE ShownInv
  OBVIOUS
<1>1. UfwNow(fw)
  BY DEF Init, Ufw, Fwd, UfwNow
<1>2. DOMAIN plans = {}
  BY DEF Init
<1> QED BY <1>1, <1>2 DEF Init, ShownInv

\* What planning leaves: the plan it adds shows its outcome.
LEMMA OfferShown ==
    ASSUME ShownInv, UNCHANGED << fw, v6ok, running, trial >>,
           NEW what, NEW plan, NEW restore, NEW after,
           after = [rules |-> IF restore THEN after.rules ELSE simulate(fw.rules, plan, v6ok),
                    policy |-> fw.policy],
           Offer(what, plan, after, restore)
    PROVE  ShownInv'
<1> DEFINE req == [what |-> what, kind |-> fw.kind, plan |-> plan, restore |-> restore,
                   base |-> fwGen(fw), after |-> after, expires |-> now + TTL]
<1>1. plans' = Put(req)
  BY DEF Offer
<1>2. fw.kind = "ufw" /\ fwGen(fw) = fw.rules
  <2>1. fw.kind = "ufw"
    BY DEF ShownInv, UfwNow
  <2> QED BY <2>1 DEF fwGen, Status
<1>3. ShowsOutcome(req)
  <2>1. req.after = after /\ req.restore = restore /\ req.plan = plan /\ req.base = fw.rules
    BY <1>2
  <2> HIDE DEF req
  <2> QED BY <2>1 DEF ShowsOutcome
<1> HIDE DEF req
<1>4. \A k \in DOMAIN plans' : ShowsOutcome(plans'[k])
  <2> TAKE k \in DOMAIN plans'
  <2>1. plans'[k] = req \/ (k \in DOMAIN plans /\ plans'[k] = plans[k])
    BY <1>1 DEF Put
  <2> QED BY <1>3, <2>1 DEF ShownInv
<1>5. (\A k \in DOMAIN plans : ShowsOutcome(plans[k]))'
  BY <1>4 DEF ShowsOutcome
<1>6. (running = Idle \/ RunningUfw(running))' /\ UfwNow(fw)' /\ (trial = Idle \/ UfwNow(trial.snap))'
  BY DEF ShownInv, RunningUfw, UfwNow, ShowsOutcome
<1> QED BY <1>5, <1>6 DEF ShownInv

\* A step that leaves everything but the plans, of which it takes some away.
LEMMA KeptShown ==
    ASSUME ShownInv, UNCHANGED << fw, v6ok, running, trial >>,
           DOMAIN plans' \subseteq DOMAIN plans, \A k \in DOMAIN plans' : plans'[k] = plans[k]
    PROVE  ShownInv'
<1>1. (\A k \in DOMAIN plans : ShowsOutcome(plans[k]))'
  BY DEF ShownInv, ShowsOutcome
<1>2. (running = Idle \/ RunningUfw(running))' /\ UfwNow(fw)' /\ (trial = Idle \/ UfwNow(trial.snap))'
  BY DEF ShownInv, RunningUfw, UfwNow, ShowsOutcome
<1> QED BY <1>1, <1>2 DEF ShownInv

\* The change is ufw's own.
LEMMA AppliedUfw ==
    ASSUME ShownInv, NEW plan
    PROVE  Applied(fw, plan) = [kind |-> "ufw", rules |-> simulate(fw.rules, plan, v6ok), policy |-> fw.policy]
<1>1. fw = [kind |-> "ufw", rules |-> fw.rules, policy |-> fw.policy]
  BY DEF ShownInv, UfwNow
<1> DEFINE to == simulate(fw.rules, plan, v6ok)
<1>2. Applied(fw, plan) = [fw EXCEPT !.rules = to]
  BY <1>1 DEF Applied
<1> HIDE DEF to
<1>3. Applied(fw, plan) = [kind |-> "ufw", rules |-> to, policy |-> fw.policy]
  BY <1>1, <1>2
<1> QED BY <1>3 DEF to

\* A plan taken meets the rules it was made against.
LEMMA RunShown ==
    ASSUME ShownInv, NEW k \in DOMAIN plans, RunPlan(k)
    PROVE  ShownInv'
<1> DEFINE r == [step |-> "ready", req |-> plans[k], before |-> fw, snap |-> fw, foreign |-> FALSE]
<1>1. UNCHANGED << fw, v6ok, trial >>
  BY DEF RunPlan
<1>2. (\A i \in DOMAIN plans : ShowsOutcome(plans[i]))'
  <2>1. \A i \in DOMAIN plans' : i \in DOMAIN plans /\ plans'[i] = plans[i]
    BY DEF RunPlan, Without
  <2> QED BY <1>1, <2>1 DEF ShownInv, ShowsOutcome
<1>3. running' = Idle \/ (running' = r /\ fwGen(fw) = plans[k].base)
  BY DEF RunPlan
<1>4. (running = Idle \/ RunningUfw(running))'
  <2>1. CASE running' = Idle
    BY <2>1 DEF Idle
  <2>2. CASE running' = r /\ fwGen(fw) = plans[k].base
    <3>1. fw.kind = "ufw" /\ UfwNow(fw) /\ ShowsOutcome(plans[k])
      BY DEF ShownInv, UfwNow
    <3>2. fw.rules = plans[k].base
      BY <2>2, <3>1 DEF fwGen, Status
    <3> DEFINE q == plans[k]
    <3>3. /\ running'.req = q /\ running'.snap = fw
          /\ running' = [step |-> running'.step, req |-> running'.req, before |-> running'.before,
                         snap |-> running'.snap, foreign |-> running'.foreign]
      BY <2>2
    <3>4. fw' = fw /\ v6ok' = v6ok /\ fw.rules = q.base /\ ShowsOutcome(q)
      BY <1>1, <3>1, <3>2
    <3> HIDE DEF q, r
    <3>5. RunningUfw(running)'
      BY <3>1, <3>3, <3>4 DEF RunningUfw, UfwNow, ShowsOutcome
    <3> QED BY <3>5
  <2> QED BY <1>3, <2>1, <2>2
<1>5. UfwNow(fw)' /\ (trial = Idle \/ UfwNow(trial.snap))'
  BY <1>1 DEF ShownInv, UfwNow, Idle
<1> QED BY <1>2, <1>4, <1>5 DEF ShownInv

\* Every step keeps what is said of the plans.
LEMMA NextShown == GuardedTrial /\ ShownInv /\ [Next]_vars => ShownInv'
<1> SUFFICES ASSUME GuardedTrial, ShownInv, [Next]_vars PROVE ShownInv'
  OBVIOUS
<1>0. fw.kind = "ufw" /\ Status(fw) = [rules |-> fw.rules, policy |-> fw.policy]
  <2>1. fw.kind = "ufw"
    BY DEF ShownInv, UfwNow
  <2> QED BY <2>1 DEF Status
<1>s. \A plan : Simulated(plan) = [rules |-> simulate(fw.rules, plan, v6ok), policy |-> fw.policy]
  <2> TAKE plan
  <2> DEFINE to == simulate(fw.rules, plan, v6ok)
  <2>1. Simulated(plan) = [Status(fw) EXCEPT !.rules = simulate(Status(fw).rules, plan, v6ok)]
    BY DEF Simulated
  <2>2. Status(fw).rules = fw.rules
    BY <1>0
  <2>3. Simulated(plan) = [Status(fw) EXCEPT !.rules = to]
    BY <2>1, <2>2
  <2> HIDE DEF to
  <2>4. Simulated(plan) = [rules |-> to, policy |-> fw.policy]
    BY <1>0, <2>3
  <2> QED BY <2>4 DEF to
<1>1. ASSUME NEW request \in Requests, PlanSpecs(request) PROVE ShownInv'
  <2> DEFINE built == planSpecs(Added(fw), Status(fw).rules, request.specs, v6ok)
  <2>1. UNCHANGED << fw, v6ok, running, trial >> /\ Offer(request.cmd, built.plan, Simulated(built.plan), FALSE)
    BY <1>1 DEF PlanSpecs, Ask
  <2> HIDE DEF built
  <2> QED BY <1>s, <2>1, OfferShown
<1>2. ASSUME NEW i, PlanDelete(i) PROVE ShownInv'
  <2> DEFINE plan == << Change("delete", specFor(Status(fw).rules[i], Added(fw))) >>
  <2>1. UNCHANGED << fw, v6ok, running, trial >> /\ Offer("delete", plan, Simulated(plan), FALSE)
    BY <1>2 DEF PlanDelete, Ask
  <2> HIDE DEF plan
  <2> QED BY <1>s, <2>1, OfferShown
<1>3. ASSUME NEW snap, PlanRestore(snap) PROVE ShownInv'
  <2> DEFINE to == snap.rules
             after == [Status(fw) EXCEPT !.rules = to]
             plan == restorePlan(Added(fw), snap.added)
  <2>1. UNCHANGED << fw, v6ok, running, trial >> /\ Offer("restore", plan, after, TRUE)
    BY <1>3 DEF PlanRestore, Ask
  <2>2. after = [rules |-> after.rules, policy |-> fw.policy]
    <3> HIDE DEF to
    <3> QED BY <1>0
  <2> HIDE DEF plan, after
  <2> QED BY <2>1, <2>2, OfferShown
<1>4. ASSUME NEW k \in DOMAIN plans, RunPlan(k) PROVE ShownInv'
  BY <1>4, RunShown
<1>5. ASSUME ApplyPlan PROVE ShownInv'
  <2> DEFINE to == IF running.req.restore THEN running.req.after.rules
                                          ELSE simulate(fw.rules, running.req.plan, v6ok)
  <2>1. running # Idle /\ RunningUfw(running) /\ UfwNow(fw)
    BY <1>5, NotIdle DEF ApplyPlan, ShownInv
  <2>2. fw' = [kind |-> "ufw", rules |-> to, policy |-> fw.policy]
    <3>1. fw = [kind |-> "ufw", rules |-> fw.rules, policy |-> fw.policy]
      BY <2>1 DEF UfwNow
    <3>2. CASE running.req.restore
      <4> DEFINE rs == running.req.after.rules
      <4>1. fw' = [fw EXCEPT !.rules = rs]
        BY <1>5, <3>2 DEF ApplyPlan
      <4> HIDE DEF rs
      <4>2. fw' = [kind |-> "ufw", rules |-> rs, policy |-> fw.policy]
        BY <3>1, <4>1
      <4> QED BY <3>2, <4>2 DEF rs
    <3>3. CASE ~ running.req.restore
      <4>1. fw' = Applied(fw, running.req.plan)
        BY <1>5, <3>3 DEF ApplyPlan
      <4> QED BY <3>3, <4>1, AppliedUfw
    <3> QED BY <3>2, <3>3
  <2> HIDE DEF to
  <2>3. UfwNow(fw)' /\ fw'.policy = fw.policy
    BY <2>2 DEF UfwNow
  <2>4. v6ok' = v6ok /\ plans' = plans /\ trial' = trial
    BY <1>5 DEF ApplyPlan
  <2>5. (\A k \in DOMAIN plans : ShowsOutcome(plans[k]))' /\ (trial = Idle \/ UfwNow(trial.snap))'
    BY <2>3, <2>4 DEF ShownInv, ShowsOutcome, UfwNow, Idle
  <2>6. running' = [running EXCEPT !.step = "changed", !.snap = fw]
    BY <1>5 DEF ApplyPlan
  <2>7. running = [step |-> running.step, req |-> running.req, before |-> running.before,
                   snap |-> running.snap, foreign |-> running.foreign]
    BY <2>1 DEF RunningUfw
  <2>8. running' = [step |-> "changed", req |-> running.req, before |-> running.before,
                    snap |-> fw, foreign |-> running.foreign]
    BY <2>6, <2>7
  <2>9. /\ running' = [step |-> running'.step, req |-> running'.req, before |-> running'.before,
                       snap |-> running'.snap, foreign |-> running'.foreign]
        /\ running'.step = "changed" /\ running'.req = running.req /\ running'.snap = fw
    BY <2>8
  <2>10. RunningUfw(running)'
    BY <2>1, <2>3, <2>4, <2>9 DEF RunningUfw, UfwNow, ShowsOutcome
  <2> QED BY <2>3, <2>5, <2>10 DEF ShownInv
<1>6. ASSUME VerifyPlan PROVE ShownInv'
  <2>1. RunningUfw(running) /\ UfwNow(running.snap) /\ UfwNow(fw)
    BY <1>6, NotIdle DEF VerifyPlan, ShownInv, RunningUfw
  <2>2. fw' \in { fw, running.snap } /\ running' = Idle /\ v6ok' = v6ok /\ plans' = plans
    BY <1>6 DEF VerifyPlan
  <2>3. fw'.policy = fw.policy /\ UfwNow(fw)'
    BY <2>1, <2>2 DEF UfwNow
  <2>4. (\A k \in DOMAIN plans : ShowsOutcome(plans[k]))'
    BY <2>2, <2>3 DEF ShownInv, ShowsOutcome
  <2>5. trial' = Idle \/ trial'.snap = running.snap
    BY <1>6 DEF VerifyPlan
  <2>6. (trial = Idle \/ UfwNow(trial.snap))'
    BY <2>1, <2>3, <2>5 DEF UfwNow, Idle
  <2>7. (running = Idle)'
    BY <2>2 DEF Idle
  <2> QED BY <2>3, <2>4, <2>6, <2>7 DEF ShownInv
<1>7. ASSUME EndTrial PROVE ShownInv'
  <2>1. UfwNow(trial.snap) /\ UfwNow(fw)
    BY <1>7, NotIdle DEF EndTrial, ShownInv
  <2>2. fw' \in { fw, trial.snap } /\ trial' = Idle /\ v6ok' = v6ok /\ plans' = plans /\ running' = running
    BY <1>7 DEF EndTrial
  <2>3. fw'.policy = fw.policy /\ UfwNow(fw)'
    BY <2>1, <2>2 DEF UfwNow
  <2>4. (\A k \in DOMAIN plans : ShowsOutcome(plans[k]))'
    BY <2>2, <2>3 DEF ShownInv, ShowsOutcome
  <2>5. running = Idle
    BY <1>7, NotIdle DEF EndTrial, GuardedTrial
  <2> QED BY <2>2, <2>3, <2>4, <2>5 DEF ShownInv, Idle
<1>8. ASSUME ForeignEdit PROVE ShownInv'
  <2>1. PICK spec \in Edits, op \in { "insert", "delete" } : fw' = Applied(fw, << Change(op, spec) >>)
    BY <1>8 DEF ForeignEdit
  <2> DEFINE plan == << Change(op, spec) >>
  <2> HIDE DEF plan
  <2>2. fw' = [kind |-> "ufw", rules |-> simulate(fw.rules, plan, v6ok), policy |-> fw.policy]
    BY <2>1, AppliedUfw DEF plan
  <2>3. fw'.policy = fw.policy /\ UfwNow(fw)'
    BY <2>2 DEF UfwNow
  <2>4. trial = Idle /\ v6ok' = v6ok /\ plans' = plans /\ trial' = trial
    BY <1>8 DEF ForeignEdit
  <2>5. (\A k \in DOMAIN plans : ShowsOutcome(plans[k]))'
    BY <2>3, <2>4 DEF ShownInv, ShowsOutcome
  <2>6. CASE running = Idle
    <3>1. running' = Idle
      BY <1>8, <2>6 DEF ForeignEdit
    <3> QED BY <2>3, <2>4, <2>5, <3>1 DEF ShownInv, Idle
  <2>7. CASE running # Idle
    <3>1. RunningUfw(running)
      BY <2>7 DEF ShownInv
    <3>2. running = [step |-> running.step, req |-> running.req, before |-> running.before,
                     snap |-> running.snap, foreign |-> running.foreign]
      BY <3>1 DEF RunningUfw
    <3>3. running' = [running EXCEPT !.foreign = TRUE]
      BY <1>8, <2>7 DEF ForeignEdit
    <3>4. running' = [step |-> running.step, req |-> running.req, before |-> running.before,
                      snap |-> running.snap, foreign |-> TRUE]
      BY <3>2, <3>3
    <3>5. /\ running' = [step |-> running'.step, req |-> running'.req, before |-> running'.before,
                         snap |-> running'.snap, foreign |-> running'.foreign]
          /\ running'.foreign = TRUE /\ running'.req = running.req /\ running'.snap = running.snap
      BY <3>4
    <3>6. RunningUfw(running)'
      BY <2>3, <2>4, <3>1, <3>5 DEF RunningUfw, UfwNow, ShowsOutcome
    <3> QED BY <2>3, <2>4, <2>5, <3>6 DEF ShownInv, Idle
  <2> QED BY <2>6, <2>7
<1>9. ASSUME Login \/ Tick \/ UNCHANGED vars PROVE ShownInv'
  <2>1. UNCHANGED << fw, v6ok, plans, running, trial >>
    BY <1>9 DEF Login, Tick, vars
  <2> QED BY <2>1, KeptShown
<1> QED BY <1>1, <1>2, <1>3, <1>4, <1>5, <1>6, <1>7, <1>8, <1>9 DEF Next

\* Only ApplyPlan makes a change, of the plan whose Yes was accepted.
LEMMA OnlyApplyChanges ==
    ASSUME ShownInv, [Next]_vars, running.step = "ready", running'.step = "changed"
    PROVE  ApplyPlan
<1>1. running # Idle /\ running.step # running'.step
  BY NotIdle
<1>2. running' # running /\ running' # Idle
  BY <1>1 DEF Idle
<1>3. ~ ForeignEdit
  <2> SUFFICES ASSUME ForeignEdit PROVE FALSE
    OBVIOUS
  <2>1. running' = [running EXCEPT !.foreign = TRUE]
    BY <1>1 DEF ForeignEdit
  <2>2. running = [step |-> running.step, req |-> running.req, before |-> running.before,
                   snap |-> running.snap, foreign |-> running.foreign]
    BY <1>1 DEF ShownInv, RunningUfw
  <2>3. running'.step = running.step
    BY <2>1, <2>2
  <2> QED BY <1>1, <2>3
<1>4. \A request : ~ PlanSpecs(request)
  BY <1>2 DEF PlanSpecs, Ask
<1>5. \A i : ~ PlanDelete(i)
  BY <1>2 DEF PlanDelete, Ask
<1>6. \A snap : ~ PlanRestore(snap)
  BY <1>2 DEF PlanRestore, Ask
<1>7. \A k : ~ RunPlan(k)
  BY <1>1 DEF RunPlan
<1>8. ~ VerifyPlan
  BY <1>2 DEF VerifyPlan
<1>9. ~ (EndTrial \/ Login \/ Tick \/ UNCHANGED vars)
  BY <1>2 DEF EndTrial, Login, Tick, vars
<1> QED BY <1>3, <1>4, <1>5, <1>6, <1>7, <1>8, <1>9 DEF Next

\* On ufw what a Yes changes is the very list its confirm screen showed, for
\* every rule list, plan and number of pending plans: take, fwGen and the
\* simulation against the change itself (planFor, runPlan).
THEOREM AsShownUfw == fw.kind = "ufw" /\ Spec => AsShown
<1> DEFINE Same == running.step = "ready" /\ running'.step = "changed" /\ ~ running.foreign =>
                     LET shown == running.req.after
                         got == Status(fw')
                     IN  IF fw.kind = "ufw" THEN got = shown
                         ELSE \A port \in SSHPorts, peer \in Peers :
                                 LET in(st) == reachable(Verdict(st, port, Is6(peer), peer))
                                 IN  in(Status(fw)) /\ in(shown) => in(got)
<1>1. ShownInv /\ [Next]_vars => [Same]_vars
  <2> SUFFICES ASSUME ShownInv, [Next]_vars, running.step = "ready", running'.step = "changed",
                      ~ running.foreign
               PROVE  fw.kind = "ufw" /\ Status(fw') = running.req.after
    OBVIOUS
  <2>1. ApplyPlan
    BY OnlyApplyChanges
  <2>2. RunningUfw(running)
    BY NotIdle DEF ShownInv
  <2>3. fw.rules = running.req.base /\ ShowsOutcome(running.req)
    BY <2>2 DEF RunningUfw
  <2>4. fw = [kind |-> "ufw", rules |-> fw.rules, policy |-> fw.policy]
    BY DEF ShownInv, UfwNow
  <2>5. CASE running.req.restore
    <3> DEFINE rs == running.req.after.rules
    <3>1. fw' = [fw EXCEPT !.rules = rs]
      BY <2>1, <2>5 DEF ApplyPlan
    <3>2. running.req.after = [rules |-> rs, policy |-> fw.policy]
      BY <2>3, <2>5 DEF ShowsOutcome
    <3> HIDE DEF rs
    <3>3. fw' = [kind |-> "ufw", rules |-> rs, policy |-> fw.policy]
      BY <2>4, <3>1
    <3>4. Status(fw') = [rules |-> rs, policy |-> fw.policy]
      BY <3>3 DEF Status
    <3> QED BY <2>4, <3>2, <3>4
  <2>6. CASE ~ running.req.restore
    <3> DEFINE rs == simulate(fw.rules, running.req.plan, v6ok)
    <3>1. fw' = [kind |-> "ufw", rules |-> rs, policy |-> fw.policy]
      BY <2>1, <2>6, AppliedUfw DEF ApplyPlan
    <3>2. running.req.after = [rules |-> rs, policy |-> fw.policy]
      BY <2>3, <2>6 DEF ShowsOutcome
    <3> HIDE DEF rs
    <3>3. Status(fw') = [rules |-> rs, policy |-> fw.policy]
      BY <3>1 DEF Status
    <3> QED BY <2>4, <3>2, <3>3
  <2> QED BY <2>5, <2>6
<1>2. fw.kind = "ufw" /\ Spec => [](GuardedTrial /\ ShownInv)
  BY InitGuarded, NextGuarded, InitShown, NextShown, PTL DEF Spec
<1> QED BY <1>1, <1>2, PTL DEF Spec, AsShown

-----------------------------------------------------------------------------
(* Lists picked from lists, and changes made one after the other.          *)

\* Induction, for a set of numbers.
LEMMA NatSet ==
    ASSUME NEW S, 0 \in S, \A n \in Nat : n \in S => n + 1 \in S
    PROVE  Nat \subseteq S
<1> SUFFICES ASSUME Nat \ S # {} PROVE FALSE
  OBVIOUS
<1>1. /\ First(Nat \ S) \in Nat \ S
      /\ \A j \in Nat \ S : First(Nat \ S) <= j
  BY FirstLeast
<1> DEFINE m == First(Nat \ S)
<1>2. m \in Nat /\ m \notin S /\ m # 0
  BY <1>1
<1> HIDE DEF m
<1>3. m - 1 \in Nat /\ m - 1 + 1 = m /\ ~ (m <= m - 1)
  BY <1>2
<1>4. m - 1 \in S
  BY <1>1, <1>3 DEF m
<1> QED BY <1>2, <1>3, <1>4

\* What holds first and at each next step holds at every step.
LEMMA Along ==
    ASSUME NEW n \in Nat, NEW S, 0 \in S, \A i \in 1..n : i - 1 \in S => i \in S
    PROVE  \A i \in 0..n : i \in S
<1> DEFINE T == { i \in Nat : i <= n => i \in S }
<1>1. 0 \in T
  OBVIOUS
<1>2. ASSUME NEW i \in Nat, i \in T PROVE i + 1 \in T
  <2> SUFFICES ASSUME i + 1 <= n PROVE i + 1 \in S
    OBVIOUS
  <2>1. i \in S /\ i + 1 \in 1..n /\ (i + 1) - 1 = i
    BY <1>2
  <2> QED BY <2>1
<1> HIDE DEF T
<1>3. Nat \subseteq T
  BY <1>1, <1>2, NatSet
<1> QED BY <1>3 DEF T

\* f goes from b on by the steps g.
Follows(f, n, X, b, g) ==
    f \in [0..n -> X] /\ f[0] = b /\ \A i \in 1..n : f[i] = g[i][f[i - 1]]

\* What a step may be, for each of n.
StepsOn(n, X) == [1..n -> [X -> X]]

\* A definition that goes from each step to the next has a meaning.
LEMMA StepsExist ==
    ASSUME NEW n \in Nat, NEW X, NEW b \in X, NEW g \in StepsOn(n, X)
    PROVE  \E f : Follows(f, n, X, b, g)
<1> USE DEF StepsOn, Follows
<1> DEFINE Upto(m, f) == /\ f \in [0..m -> X]
                         /\ f[0] = b
                         /\ \A i \in 1..m : f[i] = g[i][f[i - 1]]
           S == { m \in 0..n : \E f : Upto(m, f) }
<1>1. 0 \in S
  <2> DEFINE h == [i \in 0..0 |-> b]
  <2>1. h \in [0..0 -> X] /\ h[0] = b /\ 1..0 = {} /\ 0 \in 0..n
    OBVIOUS
  <2> HIDE DEF h
  <2>2. Upto(0, h)
    BY <2>1
  <2> QED BY <2>1, <2>2
<1>2. ASSUME NEW i \in 1..n, i - 1 \in S PROVE i \in S
  <2>1. PICK f : Upto(i - 1, f)
    BY <1>2
  <2> DEFINE h == [j \in 0..i |-> IF j = i THEN g[i][f[i - 1]] ELSE f[j]]
  <2>2. i - 1 \in 0..(i - 1) /\ f[i - 1] \in X
    BY <2>1
  <2>3. g[i][f[i - 1]] \in X
    BY <2>2
  <2>4. h \in [0..i -> X]
    <3> SUFFICES ASSUME NEW j \in 0..i PROVE h[j] \in X
      OBVIOUS
    <3>1. CASE j = i
      BY <2>3, <3>1
    <3>2. CASE j # i
      <4>1. j \in 0..(i - 1)
        BY <3>2
      <4> QED BY <2>1, <3>2, <4>1
    <3> QED BY <3>1, <3>2
  <2>5. h[0] = b
    BY <2>1
  <2>6. ASSUME NEW j \in 1..i PROVE h[j] = g[j][h[j - 1]]
    <3>1. j - 1 \in 0..i /\ j - 1 # i /\ h[j - 1] = f[j - 1] /\ j \in 0..i
      OBVIOUS
    <3>2. CASE j = i
      BY <3>1, <3>2
    <3>3. CASE j # i
      <4>1. j \in 1..(i - 1) /\ h[j] = f[j]
        BY <3>1, <3>3
      <4> QED BY <2>1, <3>1, <4>1
    <3> QED BY <3>2, <3>3
  <2> HIDE DEF h
  <2>7. Upto(i, h)
    BY <2>4, <2>5, <2>6
  <2> QED BY <2>7
<1> HIDE DEF S, Upto
<1>3. \A i \in 0..n : i \in S
  BY <1>1, <1>2, Along
<1>4. n \in S
  <2>1. n \in 0..n
    OBVIOUS
  <2> QED BY <1>3, <2>1
<1>5. PICK f : Upto(n, f)
  BY <1>4 DEF S
<1> QED BY <1>5 DEF Upto

\* The n-th of the numbers in E, for each n there is one.
LEMMA Nth ==
    ASSUME NEW E, E \subseteq Nat, IsFiniteSet(E)
    PROVE  LET c(i) == Cardinality({ j \in E : j <= i })
           IN  /\ Cardinality(E) \in Nat
               /\ \A i \in E : c(i) \in 1..Cardinality(E)
               /\ \A i, j \in E : c(i) < c(j) <=> i < j
               /\ \A k \in 1..Cardinality(E) : \E i \in E : c(i) = k
<1> DEFINE B(i) == { j \in E : j <= i }
           f == [i \in E |-> Cardinality(B(i))]
<1>1. \A i \in E : B(i) \in SUBSET E /\ IsFiniteSet(B(i)) /\ Cardinality(B(i)) \in Nat
  BY FS_Subset, FS_CardinalityType
<1>2. Cardinality(E) \in Nat
  BY FS_CardinalityType
<1>3. ASSUME NEW i \in E PROVE Cardinality(B(i)) \in 1..Cardinality(E)
  <2>1. Cardinality(B(i)) <= Cardinality(E)
    BY <1>1, FS_Subset
  <2>2. i \in B(i)
    OBVIOUS
  <2> HIDE DEF B
  <2>3. Cardinality(B(i)) # 0
    BY <1>1, <2>2, FS_EmptySet
  <2> QED BY <1>1, <1>2, <2>1, <2>3
<1>4. ASSUME NEW i \in E, NEW j \in E, i < j PROVE Cardinality(B(i)) < Cardinality(B(j))
  <2>0. i \in Nat /\ j \in Nat /\ ~ (j <= i) /\ \A k \in Nat : k <= i => k <= j
    BY <1>4
  <2>1. B(i) \in SUBSET B(j) /\ j \in B(j) /\ j \notin B(i)
    <3>1. \A k \in E : k <= i => k <= j
      BY <2>0
    <3>2. j <= j
      BY <2>0
    <3> QED BY <2>0, <3>1, <3>2
  <2> HIDE DEF B
  <2>2. Cardinality(B(i)) <= Cardinality(B(j)) /\ Cardinality(B(i)) # Cardinality(B(j))
    BY <1>1, <2>1, FS_Subset
  <2> QED BY <1>1, <2>2
<1> HIDE DEF B
<1>5. \A i, j \in E : Cardinality(B(i)) < Cardinality(B(j)) <=> i < j
  <2> TAKE i, j \in E
  <2>1. i \in Nat /\ j \in Nat /\ Cardinality(B(i)) \in Nat /\ Cardinality(B(j)) \in Nat
    BY <1>1
  <2>2. i < j \/ j < i \/ i = j
    BY <2>1
  <2> QED BY <1>4, <2>1, <2>2
<1>6. f \in Injection(E, 1..Cardinality(E))
  <2>1. f \in [E -> 1..Cardinality(E)]
    BY <1>3
  <2>2. ASSUME NEW i \in E, NEW j \in E, f[i] = f[j] PROVE i = j
    <3>1. ~ (Cardinality(B(i)) < Cardinality(B(j))) /\ ~ (Cardinality(B(j)) < Cardinality(B(i)))
      BY <1>1, <2>2
    <3>2. ~ (i < j) /\ ~ (j < i) /\ i \in Nat /\ j \in Nat
      BY <1>5, <3>1
    <3> QED BY <3>2
  <2> QED BY <2>1, <2>2 DEF Injection, IsInjective
<1>7. IsFiniteSet(1..Cardinality(E)) /\ Cardinality(1..Cardinality(E)) = Cardinality(E)
  BY <1>2, FS_Interval
<1>8. f \in Surjection(E, 1..Cardinality(E))
  BY <1>6, <1>7, FS_Injection
<1>9. \A k \in 1..Cardinality(E) : \E i \in E : Cardinality(B(i)) = k
  BY <1>8 DEF Surjection
<1> QED BY <1>2, <1>3, <1>5, <1>9 DEF B

\* What is picked are the entries at the positions, in their order.
LEMMA PickedList ==
    ASSUME NEW X, NEW s \in Seq(X), NEW E, E \subseteq DOMAIN s
    PROVE  /\ Picked(s, E) \in Seq(X)
           /\ \A k \in DOMAIN Picked(s, E) : \E i \in E : Picked(s, E)[k] = s[i]
           /\ \A i \in E : \E k \in DOMAIN Picked(s, E) :
                 /\ Picked(s, E)[k] = s[i]
                 /\ \A j \in 1..(k - 1) : \E m \in E : m < i /\ Picked(s, E)[j] = s[m]
<1> DEFINE c(i) == Cardinality({ j \in E : j <= i })
           at(k) == CHOOSE i \in E : c(i) = k
           n == Cardinality(E)
           p == Picked(s, E)
<1>1. E \subseteq Nat /\ IsFiniteSet(E)
  <2>1. DOMAIN s = 1..Len(s) /\ Len(s) \in Nat
    OBVIOUS
  <2>2. IsFiniteSet(1..Len(s))
    BY <2>1, FS_Interval
  <2> QED BY <2>1, <2>2, FS_Subset
<1>2. /\ n \in Nat
      /\ \A i \in E : c(i) \in 1..n
      /\ \A i, j \in E : c(i) < c(j) <=> i < j
      /\ \A k \in 1..n : \E i \in E : c(i) = k
  BY <1>1, Nth
<1> HIDE DEF c
<1>3. \A k \in 1..n : at(k) \in E /\ c(at(k)) = k
  BY <1>2
<1>4. p = [k \in 1..n |-> s[at(k)]]
  BY DEF Picked, c
<1> HIDE DEF n, at, p
<1>5. \A k \in 1..n : s[at(k)] \in X
  BY <1>3
<1>6. p \in Seq(X) /\ DOMAIN p = 1..n /\ \A k \in 1..n : p[k] = s[at(k)]
  BY <1>2, <1>4, <1>5, IsASeq
<1>7. ASSUME NEW i \in E
      PROVE  \E k \in 1..n : /\ p[k] = s[i]
                             /\ \A j \in 1..(k - 1) : \E m \in E : m < i /\ p[j] = s[m]
  <2>1. c(i) \in 1..n
    BY <1>2
  <2>2. at(c(i)) = i
    <3>1. at(c(i)) \in E /\ c(at(c(i))) = c(i)
      BY <1>3, <2>1
    <3>2. ~ (at(c(i)) < i) /\ ~ (i < at(c(i)))
      BY <1>2, <2>1, <3>1
    <3> QED BY <1>1, <3>1, <3>2
  <2>3. ASSUME NEW j \in 1..(c(i) - 1) PROVE \E m \in E : m < i /\ p[j] = s[m]
    <3>1. j \in 1..n /\ j < c(i)
      BY <1>2, <2>1
    <3>2. at(j) \in E /\ at(j) < i
      BY <1>2, <1>3, <3>1
    <3> QED BY <1>6, <3>1, <3>2
  <2> QED BY <1>6, <2>1, <2>2, <2>3
<1>8. \A k \in 1..n : \E i \in E : p[k] = s[i]
  BY <1>3, <1>6
<1>9. \A i \in E : \E k \in DOMAIN p :
         p[k] = s[i] /\ \A j \in 1..(k - 1) : \E m \in E : m < i /\ p[j] = s[m]
  <2> TAKE i \in E
  <2>1. PICK k \in 1..n : p[k] = s[i] /\ \A j \in 1..(k - 1) : \E m \in E : m < i /\ p[j] = s[m]
    BY <1>7
  <2>2. k \in DOMAIN p
    BY <1>6
  <2> QED BY <2>1, <2>2, Zenon
<1>10. \A k \in DOMAIN p : \E i \in E : p[k] = s[i]
  BY <1>6, <1>8
<1> QED BY <1>6, <1>9, <1>10 DEF p

\* Flattening keeps the entries of the lists.
LEMMA Flattened ==
    ASSUME NEW X, NEW ss \in Seq(Seq(X))
    PROVE  /\ FlattenSeq(ss) \in Seq(X)
           /\ \A k \in DOMAIN FlattenSeq(ss) :
                 \E i \in DOMAIN ss : \E j \in DOMAIN ss[i] : FlattenSeq(ss)[k] = ss[i][j]
           /\ \A i \in DOMAIN ss : \A j \in DOMAIN ss[i] :
                 \E k \in DOMAIN FlattenSeq(ss) : FlattenSeq(ss)[k] = ss[i][j]
<1> DEFINE n == Len(ss)
           F == CHOOSE h : h = [i \in 1..n |-> IF i = 1 THEN ss[i] ELSE h[i - 1] \o ss[i]]
<1>1. CASE ss = << >>
  BY <1>1 DEF FlattenSeq
<1>2. CASE ss # << >>
  <2>1. n \in Nat /\ n > 0 /\ DOMAIN ss = 1..n /\ n - 1 \in Nat
    BY <1>2
  <2>2. FlattenSeq(ss) = F[n]
    BY <2>1 DEF FlattenSeq
  <2> HIDE DEF n
  <2>3. \A i \in 1..n : ss[i] \in Seq(X)
    BY <2>1
  <2> DEFINE g == [i \in 1..(n - 1) |-> [t \in Seq(X) |-> t \o ss[i + 1]]]
  <2>4. g \in [1..(n - 1) -> [Seq(X) -> Seq(X)]]
    <3> SUFFICES ASSUME NEW i \in 1..(n - 1), NEW t \in Seq(X) PROVE t \o ss[i + 1] \in Seq(X)
      OBVIOUS
    <3>1. ss[i + 1] \in Seq(X)
      BY <2>1, <2>3
    <3> QED BY <3>1
  <2>5. ss[1] \in Seq(X)
    BY <2>1, <2>3
  <2>6. PICK f \in [0..(n - 1) -> Seq(X)] :
           f[0] = ss[1] /\ \A i \in 1..(n - 1) : f[i] = g[i][f[i - 1]]
    <3> DEFINE m == n - 1
               b == ss[1]
    <3>1. m \in Nat /\ b \in Seq(X) /\ g \in StepsOn(m, Seq(X))
      BY <2>1, <2>4, <2>5 DEF StepsOn
    <3> HIDE DEF g, m, b
    <3>2. PICK f : Follows(f, m, Seq(X), b, g)
      BY <3>1, StepsExist
    <3> QED BY <3>2 DEF m, b, Follows
  <2>7. \A i \in 1..(n - 1) : f[i] = f[i - 1] \o ss[i + 1]
    <3> TAKE i \in 1..(n - 1)
    <3>1. i - 1 \in 0..(n - 1) /\ f[i - 1] \in Seq(X)
      BY <2>1
    <3> QED BY <2>6, <3>1
  <2> HIDE DEF g
  <2> DEFINE h == [i \in 1..n |-> f[i - 1]]
  <2>8. h = [i \in 1..n |-> IF i = 1 THEN ss[i] ELSE h[i - 1] \o ss[i]]
    <3> SUFFICES ASSUME NEW i \in 1..n PROVE h[i] = IF i = 1 THEN ss[i] ELSE h[i - 1] \o ss[i]
      OBVIOUS
    <3>1. CASE i = 1
      BY <2>6, <3>1
    <3>2. CASE i # 1
      <4>1. i - 1 \in 1..(n - 1) /\ i - 1 \in 1..n /\ (i - 1) + 1 = i
        BY <2>1, <3>2
      <4> QED BY <2>7, <3>2, <4>1
    <3> QED BY <3>1, <3>2
  <2> HIDE DEF h
  <2>9. F = [i \in 1..n |-> IF i = 1 THEN ss[i] ELSE F[i - 1] \o ss[i]]
    BY <2>8
  <2> HIDE DEF F
  <2>10. F[1] = ss[1] /\ \A i \in 2..n : F[i] = F[i - 1] \o ss[i]
    <3>1. \A i \in 1..n : F[i] = IF i = 1 THEN ss[i] ELSE F[i - 1] \o ss[i]
      BY <2>9
    <3>2. 1 \in 1..n /\ \A i \in 2..n : i \in 1..n /\ i # 1
      BY <2>1
    <3> QED BY <3>1, <3>2, Zenon
  <2> DEFINE Good(i) == /\ F[i] \in Seq(X)
                        /\ \A k \in DOMAIN F[i] : \E a \in 1..i : \E j \in DOMAIN ss[a] : F[i][k] = ss[a][j]
                        /\ \A a \in 1..i : \A j \in DOMAIN ss[a] : \E k \in DOMAIN F[i] : F[i][k] = ss[a][j]
             S == { i \in 0..(n - 1) : Good(i + 1) }
  <2>11. 0 \in S
    <3>1. Good(1)
      BY <2>5, <2>10
    <3> QED BY <2>1, <3>1
  <2>12. ASSUME NEW i \in 1..(n - 1), i - 1 \in S PROVE i \in S
    <3>0. i + 1 \in 2..n /\ i + 1 \in 1..n /\ (i + 1) - 1 = i /\ (i - 1) + 1 = i /\ i \in 0..(n - 1)
      BY <2>1
    <3>1. Good(i)
      <4>1. Good((i - 1) + 1)
        BY <2>12
      <4> HIDE DEF Good
      <4> QED BY <3>0, <4>1
    <3>2. F[i + 1] = F[i] \o ss[i + 1] /\ F[i] \in Seq(X) /\ ss[i + 1] \in Seq(X)
      <4>1. F[i + 1] = F[(i + 1) - 1] \o ss[i + 1]
        BY <2>10, <3>0
      <4> QED BY <2>3, <3>0, <3>1, <4>1
    <3> DEFINE p == F[i]
               q == ss[i + 1]
               r == F[i + 1]
    <3>3. r = p \o q /\ p \in Seq(X) /\ q \in Seq(X)
      BY <3>2
    <3>4. /\ \A k \in DOMAIN p : \E a \in 1..i : \E j \in DOMAIN ss[a] : p[k] = ss[a][j]
          /\ \A a \in 1..i : \A j \in DOMAIN ss[a] : \E k \in DOMAIN p : p[k] = ss[a][j]
      BY <3>1
    <3>5. q = ss[i + 1]
      OBVIOUS
    <3> HIDE DEF p, q, r
    <3>6. /\ r \in Seq(X) /\ Len(r) = Len(p) + Len(q)
          /\ \A k \in 1..Len(p) : r[k] = p[k]
          /\ \A k \in 1..Len(q) : r[Len(p) + k] = q[k]
          /\ \A k \in 1..Len(r) : k \in 1..Len(p) \/ (k - Len(p) \in 1..Len(q) /\ r[k] = q[k - Len(p)])
          /\ \A k \in 1..Len(p) : k \in 1..Len(r)
          /\ \A k \in 1..Len(q) : Len(p) + k \in 1..Len(r)
          /\ DOMAIN p = 1..Len(p) /\ DOMAIN q = 1..Len(q) /\ DOMAIN r = 1..Len(r)
      BY <3>3, ConcatProperties
    <3>7. ASSUME NEW k \in DOMAIN r PROVE \E a \in 1..(i + 1) : \E j \in DOMAIN ss[a] : r[k] = ss[a][j]
      <4>1. CASE k \in 1..Len(p)
        <5>1. PICK a \in 1..i : \E j \in DOMAIN ss[a] : p[k] = ss[a][j]
          BY <3>4, <3>6, <4>1
        <5>2. a \in 1..(i + 1) /\ r[k] = p[k]
          BY <3>6, <4>1
        <5> QED BY <5>1, <5>2
      <4>2. CASE k - Len(p) \in 1..Len(q) /\ r[k] = q[k - Len(p)]
        <5>1. i + 1 \in 1..(i + 1)
          BY <2>1
        <5> QED BY <3>5, <3>6, <4>2, <5>1
      <4> QED BY <3>6, <4>1, <4>2
    <3>8. ASSUME NEW a \in 1..(i + 1), NEW j \in DOMAIN ss[a] PROVE \E k \in DOMAIN r : r[k] = ss[a][j]
      <4>1. CASE a = i + 1
        <5>1. j \in 1..Len(q) /\ q[j] = ss[a][j]
          BY <3>5, <3>6, <4>1
        <5> QED BY <3>6, <5>1
      <4>2. CASE a # i + 1
        <5>1. a \in 1..i
          BY <4>2
        <5>2. PICK k \in DOMAIN p : p[k] = ss[a][j]
          BY <3>4, <5>1
        <5> QED BY <3>6, <5>2
      <4> QED BY <4>1, <4>2
    <3>9. Good(i + 1)
      BY <3>6, <3>7, <3>8 DEF r
    <3> HIDE DEF Good
    <3> QED BY <3>0, <3>9
  <2> HIDE DEF S, Good
  <2>13. \A i \in 0..(n - 1) : i \in S
    BY <2>1, <2>11, <2>12, Along
  <2>14. Good(n)
    <3>1. n - 1 \in S /\ (n - 1) + 1 = n
      BY <2>1, <2>13
    <3> QED BY <3>1 DEF S
  <2> DEFINE r == FlattenSeq(ss)
  <2>15. r = F[n]
    BY <2>2
  <2> HIDE DEF r
  <2>16. /\ r \in Seq(X)
         /\ \A k \in DOMAIN r : \E i \in DOMAIN ss : \E j \in DOMAIN ss[i] : r[k] = ss[i][j]
         /\ \A i \in DOMAIN ss : \A j \in DOMAIN ss[i] : \E k \in DOMAIN r : r[k] = ss[i][j]
    <3>1. /\ F[n] \in Seq(X)
          /\ \A k \in DOMAIN F[n] : \E a \in DOMAIN ss : \E j \in DOMAIN ss[a] : F[n][k] = ss[a][j]
          /\ \A a \in DOMAIN ss : \A j \in DOMAIN ss[a] : \E k \in DOMAIN F[n] : F[n][k] = ss[a][j]
      BY <2>1, <2>14, Zenon DEF Good
    <3> QED BY <2>15, <3>1, Zenon
  <2> QED BY <2>16 DEF r
<1> QED BY <1>1, <1>2

\* A spec in a family is a row.
LEMMA RowType ==
    ASSUME NEW spec \in SpecSet, NEW six \in BOOLEAN
    PROVE  /\ Row(spec, six) \in RowSet
           /\ Row(spec, six).v6 = six
           /\ \A f \in { "act", "dir", "proto", "ports", "from", "only", "app" } :
                 Row(spec, six)[f] = spec[f]
  BY DEF Row, SpecSet, RowSet

\* Where the row of a family goes is a place of the list.
LEMMA PlaceType ==
    ASSUME NEW rules \in Seq(RowSet), NEW op, NEW row \in RowSet
    PROVE  Place(rules, op, row) \in Seq(RowSet)
<1> DEFINE twins == { i \in DOMAIN rules : rules[i].v6 = row.v6 /\ sameMatch(rules[i], row) }
           rest == IF twins = {} THEN rules ELSE RemoveAt(rules, First(twins))
           sixes == { i \in DOMAIN rest : rest[i].v6 }
           firstV6 == IF sixes = {} THEN Len(rest) + 1 ELSE First(sixes)
           at == IF op = "add" THEN IF row.v6 THEN Len(rest) + 1 ELSE firstV6
                               ELSE IF row.v6 THEN firstV6 ELSE 1
<1>1. twins \subseteq Nat /\ (twins # {} => First(twins) \in DOMAIN rules)
  <2>1. twins \subseteq Nat /\ twins \subseteq DOMAIN rules
    OBVIOUS
  <2> HIDE DEF twins
  <2> QED BY <2>1, FirstLeast
<1>2. rest \in Seq(RowSet)
  <2> HIDE DEF twins
  <2>1. CASE twins = {}
    BY <2>1
  <2>2. CASE twins # {}
    <3> DEFINE k == First(twins)
    <3>1. k \in 1..Len(rules)
      BY <1>1, <2>2
    <3> HIDE DEF k
    <3>2. SubSeq(rules, 1, k - 1) \in Seq(RowSet) /\ SubSeq(rules, k + 1, Len(rules)) \in Seq(RowSet)
      BY <3>1
    <3>3. RemoveAt(rules, k) \in Seq(RowSet)
      BY <3>2 DEF RemoveAt
    <3> QED BY <2>2, <3>3 DEF k
  <2> QED BY <2>1, <2>2
<1>3. rules[First(twins)].act # row.act \/ rules[First(twins)].act = row.act
  OBVIOUS
<1>4. Place(rules, op, row) \in { rules, [rules EXCEPT ![First(twins)] = row], InsertAt(rest, at, row) }
  <2> HIDE DEF at
  <2>1. Place(rules, op, row) =
          CASE twins # {} /\ rules[First(twins)].act = row.act -> rules
            [] twins # {} /\ rules[First(twins)].act # row.act /\ op = "add" ->
                  [rules EXCEPT ![First(twins)] = row]
            [] OTHER -> InsertAt(rest, at, row)
    BY DEF Place, at
  <2> HIDE DEF twins, rest
  <2> QED BY <2>1
<1> HIDE DEF twins, rest
<1>5. at \in 1..(Len(rest) + 1)
  <2>1. sixes \subseteq Nat /\ sixes \subseteq 1..Len(rest) /\ Len(rest) \in Nat
    BY <1>2
  <2> HIDE DEF sixes
  <2>2. sixes # {} => First(sixes) \in 1..Len(rest)
    BY <2>1, FirstLeast
  <2> QED BY <2>1, <2>2
<1> HIDE DEF at
<1>6. InsertAt(rest, at, row) \in Seq(RowSet)
  <2>1. SubSeq(rest, 1, at - 1) \in Seq(RowSet) /\ SubSeq(rest, at, Len(rest)) \in Seq(RowSet)
    BY <1>2, <1>5
  <2>2. << row >> \in Seq(RowSet)
    OBVIOUS
  <2> QED BY <2>1, <2>2 DEF InsertAt
<1>7. \A k : [rules EXCEPT ![k] = row] \in Seq(RowSet)
  <2> TAKE k
  <2> DEFINE e(i) == IF i = k THEN row ELSE rules[i]
             t == [i \in 1..Len(rules) |-> e(i)]
  <2>1. [rules EXCEPT ![k] = row] = t
    OBVIOUS
  <2>2. Len(rules) \in Nat /\ \A i \in 1..Len(rules) : e(i) \in RowSet
    OBVIOUS
  <2> HIDE DEF e
  <2>3. t \in Seq(RowSet)
    BY <2>2, IsASeq
  <2> HIDE DEF t
  <2> QED BY <2>1, <2>3
<1> QED BY <1>4, <1>6, <1>7

\* The rows a deletion leaves.
LEMMA MadeDelete ==
    ASSUME NEW rules \in Seq(RowSet), NEW c, c.op = "delete", NEW v
    PROVE  /\ Made(rules, c, v) \in Seq(RowSet)
           /\ \A k \in DOMAIN Made(rules, c, v) :
                 \E i \in DOMAIN rules : ~ rowOf(rules[i], c.spec) /\ Made(rules, c, v)[k] = rules[i]
           /\ \A i \in DOMAIN rules : ~ rowOf(rules[i], c.spec) =>
                 \E k \in DOMAIN Made(rules, c, v) : Made(rules, c, v)[k] = rules[i]
<1> DEFINE E == { i \in DOMAIN rules : ~ rowOf(rules[i], c.spec) }
<1>1. Made(rules, c, v) = Picked(rules, E)
  BY DEF Made
<1>2. E \subseteq DOMAIN rules
  OBVIOUS
<1>3. \A i \in DOMAIN rules : i \in E <=> ~ rowOf(rules[i], c.spec)
  OBVIOUS
<1> HIDE DEF E
<1>4. /\ Picked(rules, E) \in Seq(RowSet)
      /\ \A k \in DOMAIN Picked(rules, E) : \E i \in E : Picked(rules, E)[k] = rules[i]
      /\ \A i \in E : \E k \in DOMAIN Picked(rules, E) : Picked(rules, E)[k] = rules[i]
  BY <1>2, PickedList
<1> QED BY <1>1, <1>2, <1>3, <1>4

\* A change of rows leaves rows.
LEMMA MadeType ==
    ASSUME NEW rules \in Seq(RowSet), NEW c \in ChangeSet, NEW v
    PROVE  Made(rules, c, v) \in Seq(RowSet)
<1>1. CASE c.op = "delete"
  BY <1>1, MadeDelete
<1>2. CASE c.op # "delete"
  <2> DEFINE in(rs, six) == IF six \in families(c.spec, v) THEN Place(rs, c.op, Row(c.spec, six)) ELSE rs
  <2>1. \A rs \in Seq(RowSet), six \in BOOLEAN : in(rs, six) \in Seq(RowSet)
    BY PlaceType, RowType DEF ChangeSet
  <2>2. Made(rules, c, v) = in(in(rules, FALSE), TRUE)
    BY <1>2 DEF Made
  <2> HIDE DEF in
  <2> QED BY <2>1, <2>2
<1> QED BY <1>1, <1>2

\* f are the rules after each change of a plan.
Runs(f, rules, plan, v) ==
    /\ f \in [0..Len(plan) -> Seq(RowSet)] /\ f[0] = rules
    /\ \A i \in 1..Len(plan) : f[i] = Made(f[i - 1], plan[i], v)

\* Between the rules before and the simulated ones are the rules after each change.
LEMMA SimulateSteps ==
    ASSUME NEW rules \in Seq(RowSet), NEW plan \in Seq(ChangeSet), NEW v
    PROVE  \E f : Runs(f, rules, plan, v) /\ simulate(rules, plan, v) = f[Len(plan)]
<1> DEFINE n == Len(plan)
           F == CHOOSE h : h = [i \in 0..n |-> IF i = 0 THEN rules ELSE Made(h[i - 1], plan[i], v)]
           g == [i \in 1..n |-> [rs \in Seq(RowSet) |-> Made(rs, plan[i], v)]]
<1>1. simulate(rules, plan, v) = F[n]
  BY DEF simulate
<1>2. n \in Nat /\ \A i \in 1..n : plan[i] \in ChangeSet
  OBVIOUS
<1> HIDE DEF n
<1>3. g \in StepsOn(n, Seq(RowSet))
  <2>1. \A i \in 1..n, rs \in Seq(RowSet) : Made(rs, plan[i], v) \in Seq(RowSet)
    BY <1>2, MadeType
  <2> QED BY <2>1 DEF StepsOn
<1>4. PICK f : Follows(f, n, Seq(RowSet), rules, g)
  <2> HIDE DEF g
  <2> QED BY <1>2, <1>3, StepsExist
<1>5. f \in [0..n -> Seq(RowSet)] /\ f[0] = rules /\ \A i \in 1..n : f[i] = Made(f[i - 1], plan[i], v)
  <2>1. f \in [0..n -> Seq(RowSet)] /\ f[0] = rules /\ \A i \in 1..n : f[i] = g[i][f[i - 1]]
    BY <1>4 DEF Follows
  <2>2. \A i \in 1..n : f[i - 1] \in Seq(RowSet)
    BY <1>2, <2>1
  <2> QED BY <2>1, <2>2
<1> HIDE DEF g
<1>6. f = [i \in 0..n |-> IF i = 0 THEN rules ELSE Made(f[i - 1], plan[i], v)]
  <2>1. \A i \in 0..n : f[i] = IF i = 0 THEN rules ELSE Made(f[i - 1], plan[i], v)
    BY <1>2, <1>5
  <2> QED BY <1>5, <2>1
<1>7. F = [i \in 0..n |-> IF i = 0 THEN rules ELSE Made(F[i - 1], plan[i], v)]
  BY <1>6
<1> HIDE DEF F
<1>8. F[0] = rules /\ \A i \in 1..n : F[i] = Made(F[i - 1], plan[i], v)
  <2>1. \A i \in 0..n : F[i] = IF i = 0 THEN rules ELSE Made(F[i - 1], plan[i], v)
    BY <1>7
  <2>2. 0 \in 0..n /\ \A i \in 1..n : i \in 0..n /\ i # 0
    BY <1>2
  <2> QED BY <2>1, <2>2, Zenon
<1> DEFINE S == { i \in 0..n : F[i] \in Seq(RowSet) }
<1>9. 0 \in S
  BY <1>2, <1>8
<1>10. ASSUME NEW i \in 1..n, i - 1 \in S PROVE i \in S
  <2>1. F[i] = Made(F[i - 1], plan[i], v) /\ F[i - 1] \in Seq(RowSet) /\ i \in 0..n
    BY <1>2, <1>8, <1>10
  <2> QED BY <1>2, <2>1, MadeType
<1> HIDE DEF S
<1>11. \A i \in 0..n : i \in S
  BY <1>2, <1>9, <1>10, Along
<1>12. \A i \in 0..n : F[i] \in Seq(RowSet)
  BY <1>11 DEF S
<1>13. F \in [0..n -> Seq(RowSet)]
  BY <1>7, <1>12
<1> QED BY <1>1, <1>8, <1>13 DEF n, Runs

\* An op and a spec make a change.
LEMMA ChangeType ==
    ASSUME NEW spec \in SpecSet, NEW op \in { "delete", "prepend", "insert", "add" }
    PROVE  /\ Change(op, spec) \in ChangeSet
           /\ Change(op, spec).op = op /\ Change(op, spec).spec = spec
  BY DEF Change, ChangeSet

\* Deletions leave the rows that none of them names.
LEMMA Deletions ==
    ASSUME NEW rules \in Seq(RowSet), NEW plan \in Seq(ChangeSet), NEW v,
           NEW m \in 0..Len(plan), \A q \in 1..m : plan[q].op = "delete",
           NEW f, Runs(f, rules, plan, v)
    PROVE  \A r : (\E k \in DOMAIN f[m] : f[m][k] = r) <=>
                  (\E j \in DOMAIN rules : rules[j] = r /\ \A q \in 1..m : ~ rowOf(r, plan[q].spec))
<1> DEFINE Left(i) == \A r : (\E k \in DOMAIN f[i] : f[i][k] = r) <=>
                       (\E j \in DOMAIN rules : rules[j] = r /\ \A q \in 1..i : ~ rowOf(r, plan[q].spec))
           S == { i \in 0..m : Left(i) }
<1> USE DEF Runs
<1>1. 0 \in S
  <2>1. Left(0)
    OBVIOUS
  <2> QED BY <2>1
<1>2. ASSUME NEW i \in 1..m, i - 1 \in S PROVE i \in S
  <2>1. Left(i - 1)
    BY <1>2
  <2>2. i \in 1..Len(plan) /\ i - 1 \in 0..Len(plan) /\ plan[i].op = "delete"
    OBVIOUS
  <2> DEFINE p == f[i - 1]
             t == f[i]
  <2>3. p \in Seq(RowSet) /\ t = Made(p, plan[i], v) /\ plan[i].op = "delete"
    BY <2>2
  <2>4. \A r : (\E k \in DOMAIN p : p[k] = r) <=>
               (\E j \in DOMAIN rules : rules[j] = r /\ \A q \in 1..(i - 1) : ~ rowOf(r, plan[q].spec))
    BY <2>1
  <2> HIDE DEF p, t
  <2>5. \A r : (\E k \in DOMAIN t : t[k] = r) <=> (\E k \in DOMAIN p : p[k] = r) /\ ~ rowOf(r, plan[i].spec)
    BY <2>3, MadeDelete
  <2>6. \A r : (\A q \in 1..i : ~ rowOf(r, plan[q].spec)) <=>
               (\A q \in 1..(i - 1) : ~ rowOf(r, plan[q].spec)) /\ ~ rowOf(r, plan[i].spec)
    <3>1. \A q : q \in 1..i <=> q \in 1..(i - 1) \/ q = i
      BY <2>2
    <3> QED BY <3>1, Zenon
  <2>7. \A r : (\E k \in DOMAIN t : t[k] = r) <=>
               (\E j \in DOMAIN rules : rules[j] = r /\ \A q \in 1..i : ~ rowOf(r, plan[q].spec))
    BY <2>4, <2>5, <2>6, Zenon
  <2>8. Left(i)
    BY <2>7 DEF t
  <2> QED BY <2>8
<1> HIDE DEF S, Left
<1>3. m \in Nat
  OBVIOUS
<1>4. \A i \in 0..m : i \in S
  BY <1>1, <1>2, <1>3, Along
<1>5. m \in S
  BY <1>4
<1> QED BY <1>5 DEF S, Left

\* The plan for one spec: deletions, of every spec that says otherwise of the
\* same traffic, and last the spec, unless a spec already says so.
OneSpecPlan(p, added, rules, spec, v) ==
    LET m == Len(p) - 1
        gone == [q \in 1..m |-> p[q]]
    IN  /\ p \in Seq(ChangeSet) /\ m \in Nat
        /\ gone \in Seq(ChangeSet) /\ Len(gone) = m
        /\ \A q \in 1..m : p[q].op = "delete"
        /\ p[m + 1].spec = spec
        /\ p[m + 1].op = IF spec.act # "deny" THEN "add"
                         ELSE IF Family(spec) = "v6" THEN "prepend"
                         ELSE IF \E i \in DOMAIN simulate(rules, gone, v) : ~ simulate(rules, gone, v)[i].v6
                         THEN "insert" ELSE "add"
        /\ \A i \in DOMAIN added : Family(added[i]) = Family(spec) /\ sameMatch(added[i], spec) =>
              \E q \in 1..m : p[q].spec = added[i]

\* planSpecs for one spec is such a plan.
LEMMA PlanOneSpec ==
    ASSUME NEW added \in Seq(SpecSet), NEW rules, NEW specs \in Seq(SpecSet), Len(specs) = 1, NEW v
    PROVE  LET p == planSpecs(added, rules, specs, v).plan
           IN  (\A q \in DOMAIN p : p[q].op = "delete") \/ OneSpecPlan(p, added, rules, specs[1], v)
<1> DEFINE spec == specs[1]
           b == [plan |-> << >>, count |-> Len(added)]
           F == CHOOSE h : h = [n \in 0..Len(specs) |->
                                   IF n = 0 THEN b ELSE PlanSpec(h[n - 1], added, rules, specs[n], v)]
           alike == { i \in DOMAIN added : /\ Family(added[i]) = Family(spec) /\ sameMatch(added[i], spec)
                                           /\ ~ Contains(b.plan, Change("delete", added[i])) }
           E == { i \in alike : added[i].act # spec.act }
           wrong == Picked(added, E)
           dels == [i \in DOMAIN wrong |-> Change("delete", wrong[i])]
           gone == b.plan \o dels
           left == simulate(rules, gone, v)
           op == CASE spec.act = "deny" /\ Family(spec) = "v6" -> "prepend"
                   [] spec.act = "deny" /\ Family(spec) # "v6" /\ \E i \in DOMAIN left : ~ left[i].v6 -> "insert"
                   [] OTHER -> "add"
           p == planSpecs(added, rules, specs, v).plan
<1>1. planSpecs(added, rules, specs, v) = PlanSpec(b, added, rules, spec, v)
  <2>1. planSpecs(added, rules, specs, v) = F[1]
    BY DEF planSpecs
  <2> HIDE DEF b
  <2> DEFINE h == [n \in 0..1 |-> IF n = 0 THEN b ELSE PlanSpec(b, added, rules, spec, v)]
  <2>2. h = [n \in 0..Len(specs) |-> IF n = 0 THEN b ELSE PlanSpec(h[n - 1], added, rules, specs[n], v)]
    <3>1. \A n \in 0..1 : n = 0 \/ n = 1
      OBVIOUS
    <3>2. h[0] = b
      OBVIOUS
    <3> QED BY <3>1, <3>2
  <2> HIDE DEF h
  <2>3. F = [n \in 0..Len(specs) |-> IF n = 0 THEN b ELSE PlanSpec(F[n - 1], added, rules, specs[n], v)]
    BY <2>2
  <2> HIDE DEF F
  <2>4. F[0] = b /\ F[1] = PlanSpec(F[1 - 1], added, rules, specs[1], v)
    <3>1. \A n \in 0..1 : F[n] = IF n = 0 THEN b ELSE PlanSpec(F[n - 1], added, rules, specs[n], v)
      BY <2>3
    <3>2. 0 \in 0..1 /\ 1 \in 0..1 /\ 1 # 0
      OBVIOUS
    <3> QED BY <3>1, <3>2, Zenon
  <2> QED BY <2>1, <2>4
<1>2. p = IF \E i \in alike : added[i].act = spec.act THEN gone ELSE Append(gone, Change(op, spec))
  <2> HIDE DEF p, b
  <2>1. PlanSpec(b, added, rules, spec, v).plan =
           IF \E i \in alike : added[i].act = spec.act THEN gone ELSE Append(gone, Change(op, spec))
    BY DEF PlanSpec
  <2> QED BY <1>1, <2>1 DEF p
<1> HIDE DEF p
<1>3. /\ alike = { i \in DOMAIN added : Family(added[i]) = Family(spec) /\ sameMatch(added[i], spec) }
      /\ E \subseteq DOMAIN added /\ spec \in SpecSet
  BY DEF Contains
<1> HIDE DEF alike
<1>4. /\ wrong \in Seq(SpecSet)
      /\ \A i \in E : \E k \in DOMAIN wrong : wrong[k] = added[i]
  <2> HIDE DEF E
  <2> QED BY <1>3, PickedList
<1> HIDE DEF wrong
<1>5. /\ dels \in Seq(ChangeSet) /\ Len(dels) = Len(wrong) /\ DOMAIN dels = DOMAIN wrong
      /\ \A k \in DOMAIN wrong : dels[k] = [op |-> "delete", spec |-> wrong[k]]
  <2>1. DOMAIN wrong = 1..Len(wrong) /\ Len(wrong) \in Nat
    BY <1>4
  <2>2. \A k \in 1..Len(wrong) : Change("delete", wrong[k]) \in ChangeSet
    <3> TAKE k \in 1..Len(wrong)
    <3>1. wrong[k] \in SpecSet
      BY <1>4, <2>1
    <3> QED BY <3>1, ChangeType
  <2>3. dels = [k \in 1..Len(wrong) |-> Change("delete", wrong[k])]
    BY <2>1
  <2> HIDE DEF dels
  <2>4. dels \in Seq(ChangeSet) /\ Len(dels) = Len(wrong) /\ DOMAIN dels = 1..Len(wrong)
    BY <2>1, <2>2, <2>3, IsASeq
  <2> QED BY <2>1, <2>3, <2>4 DEF Change
<1> HIDE DEF dels
<1>6. gone = dels
  BY <1>5
<1> HIDE DEF gone
<1>7. CASE \E i \in alike : added[i].act = spec.act
  <2>1. \A q \in DOMAIN p : p[q].op = "delete"
    BY <1>2, <1>5, <1>6, <1>7
  <2> QED BY <2>1 DEF p
<1>8. CASE ~ \E i \in alike : added[i].act = spec.act
  <2> DEFINE c == Change(op, spec)
             m == Len(gone)
  <2>1. p = Append(gone, c) /\ gone \in Seq(ChangeSet)
    BY <1>2, <1>5, <1>6, <1>8
  <2>2. op \in { "prepend", "insert", "add" }
    OBVIOUS
  <2> HIDE DEF op
  <2>3. c \in ChangeSet /\ c.op = op /\ c.spec = spec
    BY <1>3, <2>2, ChangeType
  <2> HIDE DEF c
  <2>4. /\ p \in Seq(ChangeSet) /\ Len(p) = m + 1 /\ m \in Nat /\ p[m + 1] = c
        /\ \A q \in 1..m : p[q] = gone[q]
    BY <2>1, <2>3
  <2>5. gone = [q \in 1..m |-> p[q]]
    BY <2>1, <2>4
  <2>6. \A q \in 1..m : p[q].op = "delete"
    BY <1>4, <1>5, <1>6, <2>4
  <2>7. ASSUME NEW i \in DOMAIN added, Family(added[i]) = Family(spec), sameMatch(added[i], spec)
        PROVE  \E q \in 1..m : p[q].spec = added[i]
    <3>1. i \in E
      BY <1>3, <1>8, <2>7
    <3>2. PICK k \in DOMAIN wrong : wrong[k] = added[i]
      BY <1>4, <3>1
    <3>3. k \in 1..m /\ gone[k].spec = added[i]
      BY <1>4, <1>5, <1>6, <3>2
    <3> QED BY <2>4, <3>3
  <2>8. op = IF spec.act # "deny" THEN "add"
             ELSE IF Family(spec) = "v6" THEN "prepend"
             ELSE IF \E i \in DOMAIN left : ~ left[i].v6 THEN "insert" ELSE "add"
    BY DEF op
  <2>9. Len(p) - 1 = m
    BY <2>4
  <2> HIDE DEF m, E
  <2>10. OneSpecPlan(p, added, rules, spec, v)
    BY <2>1, <2>3, <2>4, <2>5, <2>6, <2>7, <2>8, <2>9 DEF OneSpecPlan, m
  <2> QED BY <2>10 DEF p
<1> QED BY <1>7, <1>8

\* What `ufw show added` lists for a list of rows.
SpecsOf(rules) == Added([kind |-> "ufw", rules |-> rules])

\* Every row of a ufw list is listed by a spec.
LEMMA AddedAll ==
    ASSUME NEW rules \in Seq(RowSet)
    PROVE  /\ SpecsOf(rules) \in Seq(SpecSet)
           /\ \A i \in DOMAIN rules : \E k \in DOMAIN SpecsOf(rules) : SpecsOf(rules)[k] = SpecOf(rules[i])
<1> DEFINE plain(r) == [r EXCEPT !.v6 = FALSE]
           twin(r) == r.v6 /\ \E i \in DOMAIN rules : rules[i] = plain(r)
           E == { i \in DOMAIN rules : ~ twin(rules[i]) }
           once == Picked(rules, E)
           a == SpecsOf(rules)
<1>1. a = [i \in DOMAIN once |-> SpecOf(once[i])]
  <2> DEFINE f == [kind |-> "ufw", rules |-> rules]
  <2>1. f.kind = "ufw" /\ f.rules = rules
    OBVIOUS
  <2> HIDE DEF f
  <2>2. Added(f) = [i \in DOMAIN once |-> SpecOf(once[i])]
    BY <2>1 DEF Added
  <2> QED BY <2>2 DEF f, SpecsOf
<1> HIDE DEF a
<1>2. E \subseteq DOMAIN rules
  OBVIOUS
<1>3. /\ once \in Seq(RowSet)
      /\ \A i \in E : \E k \in DOMAIN once : once[k] = rules[i]
  <2> HIDE DEF E
  <2>1. rules \in Seq(RowSet) /\ E \subseteq DOMAIN rules
    BY <1>2
  <2>2. /\ Picked(rules, E) \in Seq(RowSet)
        /\ \A i \in E : \E k \in DOMAIN Picked(rules, E) : Picked(rules, E)[k] = rules[i]
    <3> HIDE DEF once
    <3> QED BY <2>1, PickedList
  <2> QED BY <2>2
<1> HIDE DEF once
<1>4. \A r \in RowSet : SpecOf(r) \in SpecSet
  BY DEF SpecOf, RowSet, SpecSet, Spec0
<1>5. a \in Seq(SpecSet) /\ DOMAIN a = DOMAIN once
  <2> DEFINE e(i) == SpecOf(once[i])
  <2>1. Len(once) \in Nat /\ DOMAIN once = 1..Len(once) /\ \A i \in 1..Len(once) : e(i) \in SpecSet
    BY <1>3, <1>4
  <2>2. a = [i \in 1..Len(once) |-> e(i)]
    BY <1>1, <2>1
  <2> HIDE DEF e
  <2> QED BY <2>1, <2>2, IsASeq
<1>6. ASSUME NEW i \in DOMAIN rules PROVE \E k \in DOMAIN a : a[k] = SpecOf(rules[i])
  <2>1. \E j \in E : SpecOf(rules[j]) = SpecOf(rules[i])
    <3>1. CASE i \in E
      BY <3>1
    <3>2. CASE i \notin E
      <4>1. PICK j \in DOMAIN rules : rules[j] = plain(rules[i])
        BY <3>2
      <4>2. rules[i] \in RowSet /\ rules[j] = plain(rules[i])
        BY <4>1
      <4>3. rules[j].v6 = FALSE
        BY <4>2 DEF RowSet
      <4>4. SpecOf(rules[j]) = SpecOf(rules[i])
        BY <4>2 DEF SpecOf, Spec0, RowSet
      <4> QED BY <4>1, <4>3, <4>4
    <3> QED BY <3>1, <3>2
  <2>2. PICK j \in E : SpecOf(rules[j]) = SpecOf(rules[i])
    BY <2>1
  <2>3. PICK k \in DOMAIN once : once[k] = rules[j]
    BY <1>3, <2>2
  <2> QED BY <1>1, <1>5, <2>2, <2>3
<1> QED BY <1>5, <1>6 DEF a

\* The row of a deny decides where no row before it lets in.
LEMMA DenyDecides ==
    ASSUME NEW X, NEW s \in Seq(X), NEW spec \in SpecSet, OneSource(spec), spec.proto \in { Zero, "tcp" },
           NEW peer \in spec.from, NEW port, coversPort(spec, port),
           NEW at \in DOMAIN s, s[at] = Row(spec, Is6(peer)),
           \A j \in DOMAIN s : j < at /\ s[j].v6 = Is6(peer) => s[j].act \notin Lets,
           NEW st, st.rules = s, NEW hits
    PROVE  ~ Accepts(st, port, peer, hits)
<1> DEFINE six == Is6(peer)
           M == { i \in DOMAIN s : Hit(s[i], port, peer, hits) }
<1>1. six \in BOOLEAN
  <2>1. CASE peer \in V6
    <3>1. six = TRUE
      BY <2>1 DEF Is6
    <3> QED BY <3>1
  <2>2. CASE peer \notin V6
    <3>1. six = FALSE
      BY <2>2 DEF Is6
    <3> QED BY <3>1
  <2> QED BY <2>1, <2>2
<1>2. /\ s[at].dir = "in" /\ s[at].proto \in { Zero, "tcp" } /\ s[at].v6 = six /\ s[at].only = Zero
      /\ s[at].app = Zero /\ s[at].ports = spec.ports /\ s[at].from = spec.from /\ s[at].act = "deny"
  <2> HIDE DEF six
  <2>1. s[at] = Row(spec, six)
    BY DEF six
  <2>2. Row(spec, six).v6 = six
    BY <1>1, RowType
  <2>3. \A f \in { "act", "dir", "proto", "ports", "from", "only", "app" } : Row(spec, six)[f] = spec[f]
    BY <1>1, RowType
  <2> QED BY <2>1, <2>2, <2>3 DEF OneSource
<1>3. at \in M
  BY <1>2 DEF Hit, Counts, unresolved, Concerns, coversPort
<1>4. M \subseteq DOMAIN s /\ \A i \in M : s[i].v6 = six
  BY DEF Hit, Counts
<1>5. Accepts(st, port, peer, hits) <=> IF M = {} THEN st.policy = "allow" ELSE s[First(M)].act \in Lets
  BY DEF Accepts
<1> HIDE DEF M, six
<1>6. First(M) \in M /\ First(M) <= at
  BY <1>3, <1>4, FirstLeast
<1>7. First(M) < at \/ First(M) = at
  <2>1. First(M) \in Nat /\ at \in Nat
    BY <1>4, <1>6
  <2>2. \A a, b \in Nat : a <= b => a < b \/ a = b
    OBVIOUS
  <2> QED BY <1>6, <2>1, <2>2, Zenon
<1>8. s[First(M)].act \notin Lets
  BY <1>2, <1>4, <1>6, <1>7 DEF Lets, six
<1> QED BY <1>3, <1>5, <1>8

\* An inserted row is at its place, and what was before it still is.
LEMMA InsertedAt ==
    ASSUME NEW X, NEW s \in Seq(X), NEW at \in 1..(Len(s) + 1), NEW x \in X
    PROVE  LET t == InsertAt(s, at, x)
           IN  /\ t \in Seq(X) /\ at \in DOMAIN t /\ t[at] = x
               /\ \A j \in 1..(at - 1) : t[j] = s[j]
<1> DEFINE a == SubSeq(s, 1, at - 1)
           b == SubSeq(s, at, Len(s))
           t == InsertAt(s, at, x)
<1>1. a \in Seq(X) /\ Len(a) = at - 1 /\ \A j \in 1..(at - 1) : a[j] = s[j]
  OBVIOUS
<1>2. b \in Seq(X)
  OBVIOUS
<1>3. t = (a \o << x >>) \o b
  BY DEF InsertAt
<1> HIDE DEF a, b, t
<1>4. /\ a \o << x >> \in Seq(X) /\ Len(a \o << x >>) = at /\ (a \o << x >>)[at] = x
      /\ \A j \in 1..(at - 1) : (a \o << x >>)[j] = s[j]
  BY <1>1
<1> DEFINE c == a \o << x >>
<1> HIDE DEF c
<1>5. /\ c \in Seq(X) /\ Len(c) = at /\ c[at] = x /\ \A j \in 1..(at - 1) : c[j] = s[j]
      /\ t = c \o b
  BY <1>3, <1>4 DEF c
<1>6. t \in Seq(X) /\ Len(t) >= at /\ Len(t) \in Nat /\ \A j \in 1..at : t[j] = c[j]
  BY <1>2, <1>5
<1>7. at \in DOMAIN t /\ t[at] = x /\ \A j \in 1..(at - 1) : t[j] = s[j]
  BY <1>5, <1>6
<1> QED BY <1>6, <1>7 DEF t

\* No row says the same, or the contrary, of the traffic of this one.
NoTwin(s, row) == \A i \in DOMAIN s : ~ (s[i].v6 = row.v6 /\ sameMatch(s[i], row))

\* How planSpecs puts a deny first.
PutsFirst(op, s, row) ==
    op = IF row.v6 THEN "prepend" ELSE IF \E i \in DOMAIN s : ~ s[i].v6 THEN "insert" ELSE "add"

\* The row is there, and no row of its family is before it.
ComesFirst(row, s) ==
    \E at \in DOMAIN s : s[at] = row /\ \A j \in DOMAIN s : j < at => s[j].v6 # row.v6

\* A row without a twin that is put first of its family comes before every row of it.
LEMMA PlacedFirst ==
    ASSUME NEW left \in Seq(RowSet), NEW row \in RowSet, NEW op, NoTwin(left, row), PutsFirst(op, left, row)
    PROVE  ComesFirst(row, Place(left, op, row))
<1> USE DEF NoTwin, PutsFirst
<1> DEFINE twins == { i \in DOMAIN left : left[i].v6 = row.v6 /\ sameMatch(left[i], row) }
           rest == IF twins = {} THEN left ELSE RemoveAt(left, First(twins))
           sixes == { i \in DOMAIN rest : rest[i].v6 }
           firstV6 == IF sixes = {} THEN Len(rest) + 1 ELSE First(sixes)
           at == IF op = "add" THEN IF row.v6 THEN Len(rest) + 1 ELSE firstV6
                               ELSE IF row.v6 THEN firstV6 ELSE 1
           s == Place(left, op, row)
<1>1. twins = {}
  OBVIOUS
<1>2. s = InsertAt(rest, at, row)
  <2> HIDE DEF at
  <2>1. s = CASE twins # {} /\ left[First(twins)].act = row.act -> left
              [] twins # {} /\ left[First(twins)].act # row.act /\ op = "add" ->
                    [left EXCEPT ![First(twins)] = row]
              [] OTHER -> InsertAt(rest, at, row)
    BY DEF Place, at
  <2> HIDE DEF twins, rest, s
  <2> QED BY <1>1, <2>1
<1>3. rest = left
  BY <1>1
<1> HIDE DEF twins, rest, s
<1>4. /\ at \in 1..(Len(left) + 1)
      /\ \A j \in 1..(at - 1) : left[j].v6 # row.v6
  <2>0. row.v6 \in BOOLEAN /\ (\A i \in DOMAIN left : left[i].v6 \in BOOLEAN) /\ DOMAIN left = 1..Len(left) /\ Len(left) \in Nat
    <3>1. \A r \in RowSet : r.v6 \in BOOLEAN
      BY DEF RowSet
    <3>2. DOMAIN left = 1..Len(left) /\ Len(left) \in Nat /\ \A i \in DOMAIN left : left[i] \in RowSet
      OBVIOUS
    <3> QED BY <3>1, <3>2
  <2>1. sixes = { i \in 1..Len(left) : left[i].v6 }
    BY <1>3, <2>0
  <2> HIDE DEF sixes
  <2>2. /\ firstV6 \in 1..(Len(left) + 1)
        /\ \A j \in 1..(firstV6 - 1) : ~ left[j].v6
    <3>1. CASE sixes = {}
      BY <1>3, <2>0, <2>1, <3>1
    <3>2. CASE sixes # {}
      <4>1. firstV6 \in sixes /\ \A j \in sixes : firstV6 <= j
        <5>1. sixes \subseteq Nat /\ firstV6 = First(sixes)
          BY <2>1, <3>2 DEF firstV6
        <5> HIDE DEF firstV6
        <5> QED BY <3>2, <5>1, FirstLeast
      <4>2. firstV6 \in 1..Len(left)
        BY <2>1, <4>1
      <4>3. ASSUME NEW j \in 1..(firstV6 - 1) PROVE ~ left[j].v6
        <5>1. j \in 1..Len(left) /\ ~ (firstV6 <= j)
          BY <4>2
        <5> QED BY <2>1, <4>1, <5>1
      <4> QED BY <4>2, <4>3
    <3> QED BY <3>1, <3>2
  <2> HIDE DEF firstV6
  <2>3. CASE row.v6
    <3>1. op = "prepend"
      BY <2>3
    <3>2. at = firstV6
      BY <2>3, <3>1
    <3>3. \A j \in 1..(firstV6 - 1) : left[j].v6 # row.v6
      BY <2>2, <2>3
    <3> QED BY <2>2, <3>2, <3>3
  <2>4. CASE ~ row.v6 /\ \E i \in DOMAIN left : ~ left[i].v6
    <3>1. op = "insert"
      BY <2>4
    <3>2. at = 1
      BY <2>4, <3>1
    <3> QED BY <2>0, <3>2
  <2>5. CASE ~ row.v6 /\ ~ \E i \in DOMAIN left : ~ left[i].v6
    <3>1. op = "add"
      BY <2>5
    <3>2. at = firstV6
      BY <2>5, <3>1
    <3>3. ASSUME NEW j \in 1..(firstV6 - 1) PROVE left[j].v6 # row.v6
      <4>1. j \in DOMAIN left
        BY <2>0, <2>2
      <4> QED BY <2>2, <2>5, <4>1
    <3> QED BY <2>2, <3>2, <3>3
  <2> QED BY <2>3, <2>4, <2>5
<1> HIDE DEF at
<1>5. s \in Seq(RowSet) /\ at \in DOMAIN s /\ s[at] = row /\ \A j \in 1..(at - 1) : s[j] = left[j]
  <2>1. at \in 1..(Len(left) + 1)
    BY <1>4
  <2>2. LET t == InsertAt(left, at, row)
        IN  /\ t \in Seq(RowSet) /\ at \in DOMAIN t /\ t[at] = row
            /\ \A j \in 1..(at - 1) : t[j] = left[j]
    BY <2>1, InsertedAt
  <2> QED BY <1>2, <1>3, <2>2
<1>6. \A j \in DOMAIN s : j < at => j \in 1..(at - 1)
  BY <1>5
<1>7. \A j \in DOMAIN s : j < at => s[j].v6 # row.v6
  BY <1>4, <1>5, <1>6
<1> QED BY <1>5, <1>7 DEF s, ComesFirst

\* The simulation of a plan's first changes is on the way of the whole plan's.
LEMMA SimulatePrefix ==
    ASSUME NEW rules \in Seq(RowSet), NEW plan \in Seq(ChangeSet), NEW v,
           NEW f, Runs(f, rules, plan, v),
           NEW gone \in Seq(ChangeSet), Len(gone) <= Len(plan), \A q \in 1..Len(gone) : gone[q] = plan[q]
    PROVE  simulate(rules, gone, v) = f[Len(gone)]
<1> DEFINE m == Len(gone)
<1>1. m \in Nat /\ \A i \in 1..m : i \in 1..Len(plan)
  OBVIOUS
<1>2. PICK h : Runs(h, rules, gone, v) /\ simulate(rules, gone, v) = h[Len(gone)]
  BY SimulateSteps
<1> USE DEF Runs
<1> HIDE DEF m
<1> DEFINE S == { i \in 0..m : h[i] = f[i] }
<1>3. 0 \in S
  BY <1>1, <1>2 DEF m
<1>4. ASSUME NEW i \in 1..m, i - 1 \in S PROVE i \in S
  <2>1. h[i - 1] = f[i - 1] /\ gone[i] = plan[i] /\ i \in 0..m
    BY <1>1, <1>4 DEF m
  <2>2. h[i] = Made(h[i - 1], gone[i], v) /\ f[i] = Made(f[i - 1], plan[i], v)
    BY <1>1, <1>2 DEF m
  <2> QED BY <2>1, <2>2
<1> HIDE DEF S
<1>5. \A i \in 0..m : i \in S
  BY <1>1, <1>3, <1>4, Along
<1>6. m \in 0..m
  BY <1>1
<1>7. h[m] = f[m]
  BY <1>5, <1>6 DEF S
<1> QED BY <1>2, <1>7 DEF m

\* A deny of one source is in one family.
LEMMA OneFamily ==
    ASSUME NEW spec \in SpecSet, OneSource(spec), spec.from # {}, NEW v, NEW six, six = (Family(spec) = "v6")
    PROVE  /\ families(spec, v) = { six } /\ six \in BOOLEAN
           /\ Family(spec) = IF six THEN "v6" ELSE "v4"
           /\ \A peer \in spec.from : Is6(peer) = six
<1>1. Family(spec) = IF spec.from \subseteq V6 THEN "v6" ELSE "v4"
  BY DEF Family
<1>2. CASE spec.from \subseteq V6
  <2>1. Family(spec) = "v6" /\ six = TRUE
    BY <1>1, <1>2
  <2>2. \A peer \in spec.from : Is6(peer) = TRUE
    BY <1>2 DEF Is6
  <2>3. families(spec, v) = { TRUE }
    BY <2>1 DEF families
  <2> QED BY <2>1, <2>2, <2>3
<1>3. CASE ~ (spec.from \subseteq V6)
  <2>1. Family(spec) = "v4" /\ six = FALSE
    BY <1>1, <1>3
  <2>2. spec.from \subseteq V4
    BY <1>3 DEF OneSource
  <2>3. \A peer \in spec.from : peer \notin V6
    BY <2>2, AddressAssumption
  <2>4. \A peer \in spec.from : Is6(peer) = FALSE
    BY <2>3 DEF Is6
  <2>5. families(spec, v) = { FALSE }
    BY <2>1 DEF families
  <2> QED BY <2>1, <2>4, <2>5
<1> QED BY <1>2, <1>3

\* A row is deleted by the spec that lists it.
LEMMA OwnSpec ==
    ASSUME NEW r \in RowSet, NEW spec \in SpecSet, NEW six \in BOOLEAN,
           r.v6 = six, sameMatch(r, Row(spec, six)), Family(spec) = IF six THEN "v6" ELSE "v4"
    PROVE  /\ Family(SpecOf(r)) = Family(spec) /\ sameMatch(SpecOf(r), spec)
           /\ rowOf(r, SpecOf(r))
<1> DEFINE o == SpecOf(r)
           w == Row(spec, six)
<1>1. /\ o.act = r.act /\ o.dir = r.dir /\ o.proto = r.proto /\ o.ports = r.ports
      /\ o.from = r.from /\ o.only = r.only /\ o.app = r.app
  BY DEF SpecOf, Spec0
<1>2. /\ w.dir = spec.dir /\ w.proto = spec.proto /\ w.ports = spec.ports
      /\ w.from = spec.from /\ w.only = spec.only /\ w.app = spec.app
  BY RowType
<1> HIDE DEF o, w
<1>3. sameMatch(r, w) /\ r.from = spec.from
  BY <1>2 DEF w, sameMatch
<1>4. Family(o) = Family(spec)
  BY <1>1, <1>3 DEF Family
<1>5. sameMatch(o, spec)
  BY <1>1, <1>2, <1>3 DEF sameMatch
<1>6. sameMatch(r, o)
  BY <1>1 DEF sameMatch
<1>7. r.v6 = (Family(o) = "v6")
  <2>1. CASE six
    <3>1. Family(o) = "v6" /\ r.v6 = TRUE
      BY <1>4, <2>1
    <3> QED BY <3>1
  <2>2. CASE ~ six
    <3>1. Family(o) = "v4" /\ r.v6 = FALSE
      BY <1>4, <2>2
    <3>2. (Family(o) = "v6") = FALSE
      BY <3>1
    <3> QED BY <3>1, <3>2
  <2> QED BY <2>1, <2>2
<1>8. rowOf(r, o)
  BY <1>1, <1>6, <1>7 DEF rowOf
<1> QED BY <1>4, <1>5, <1>8 DEF o

\* Where the plan of a deny is made on ufw, the deny comes before every row of
\* its family.
LEMMA DenyFirstUfw ==
    ASSUME NEW rules \in Seq(RowSet), NEW v, NEW spec \in SpecSet, OneSource(spec), spec.from # {},
           NEW p, OneSpecPlan(p, SpecsOf(rules), rules, spec, v), NEW six, six = (Family(spec) = "v6")
    PROVE  LET s == simulate(rules, p, v)
           IN  /\ s \in Seq(RowSet)
               /\ ComesFirst(Row(spec, six), s)
<1> DEFINE added == SpecsOf(rules)
           m == Len(p) - 1
           gone == [q \in 1..m |-> p[q]]
<1>1. /\ p \in Seq(ChangeSet) /\ m \in Nat
      /\ gone \in Seq(ChangeSet) /\ Len(gone) = m
      /\ \A q \in 1..m : p[q].op = "delete"
      /\ p[m + 1].spec = spec
      /\ \A i \in DOMAIN added : Family(added[i]) = Family(spec) /\ sameMatch(added[i], spec) =>
            \E q \in 1..m : p[q].spec = added[i]
      /\ p[m + 1].op = IF Family(spec) = "v6" THEN "prepend"
                       ELSE IF \E i \in DOMAIN simulate(rules, gone, v) : ~ simulate(rules, gone, v)[i].v6
                       THEN "insert" ELSE "add"
  <2>1. spec.act = "deny"
    BY DEF OneSource
  <2> QED BY <2>1 DEF OneSpecPlan
<1>2. PICK f : Runs(f, rules, p, v) /\ simulate(rules, p, v) = f[Len(p)]
  BY <1>1, SimulateSteps
<1> DEFINE left == f[m]
           row == Row(spec, six)
           op == p[m + 1].op
           s == simulate(rules, p, v)
<1>3. Len(p) = m + 1 /\ m \in 0..Len(p) /\ \A q \in 1..m : gone[q] = p[q]
  BY <1>1
<1> HIDE DEF m, added
<1>4. simulate(rules, gone, v) = left
  <2> DEFINE g == gone
  <2>1. g \in Seq(ChangeSet) /\ Len(g) = m /\ Len(g) <= Len(p) /\ \A q \in 1..Len(g) : g[q] = p[q]
    BY <1>1, <1>3
  <2> HIDE DEF g
  <2>2. simulate(rules, g, v) = f[Len(g)]
    BY <1>1, <1>2, <2>1, SimulatePrefix
  <2> QED BY <2>1, <2>2 DEF g
<1>5. \A r : (\E k \in DOMAIN left : left[k] = r) <=>
             (\E j \in DOMAIN rules : rules[j] = r /\ \A q \in 1..m : ~ rowOf(r, p[q].spec))
  <2>1. m \in 0..Len(p) /\ \A q \in 1..m : p[q].op = "delete"
    BY <1>1, <1>3
  <2>2. \A r : (\E k \in DOMAIN f[m] : f[m][k] = r) <=>
               (\E j \in DOMAIN rules : rules[j] = r /\ \A q \in 1..m : ~ rowOf(r, p[q].spec))
    BY <1>1, <1>2, <2>1, Deletions
  <2> QED BY <2>2
<1>6. left \in Seq(RowSet)
  BY <1>2, <1>3 DEF Runs
<1>7. s = Made(left, p[m + 1], v) /\ s = f[m + 1]
  <2>1. m + 1 \in 1..Len(p) /\ (m + 1) - 1 = m
    BY <1>1, <1>3
  <2> QED BY <1>2, <1>3, <2>1 DEF Runs
<1>8. /\ families(spec, v) = { six } /\ six \in BOOLEAN
      /\ Family(spec) = IF six THEN "v6" ELSE "v4"
  BY OneFamily
<1>9. row \in RowSet /\ row.v6 = six
  BY <1>8, RowType
<1>10. op = IF six THEN "prepend" ELSE IF \E i \in DOMAIN left : ~ left[i].v6 THEN "insert" ELSE "add"
  <2> HIDE DEF gone
  <2>1. op = IF Family(spec) = "v6" THEN "prepend"
             ELSE IF \E i \in DOMAIN left : ~ left[i].v6 THEN "insert" ELSE "add"
    BY <1>1, <1>4
  <2> HIDE DEF op, left
  <2>2. CASE six
    BY <1>8, <2>1, <2>2
  <2>3. CASE ~ six
    <3>1. Family(spec) # "v6"
      BY <1>8, <2>3
    <3> QED BY <2>1, <2>3, <3>1
  <2> QED BY <2>2, <2>3
<1> HIDE DEF left, row, op, s, gone
<1>11. ASSUME NEW i \in DOMAIN left, left[i].v6 = row.v6, sameMatch(left[i], row) PROVE FALSE
  <2> DEFINE r == left[i]
  <2>1. PICK j \in DOMAIN rules : rules[j] = r /\ \A q \in 1..m : ~ rowOf(r, p[q].spec)
    BY <1>5
  <2>2. r \in RowSet /\ r.v6 = six /\ sameMatch(r, Row(spec, six))
    BY <1>6, <1>9, <1>11 DEF row
  <2> HIDE DEF r
  <2>3. Family(SpecOf(r)) = Family(spec) /\ sameMatch(SpecOf(r), spec) /\ rowOf(r, SpecOf(r))
    BY <1>8, <2>2, OwnSpec
  <2>4. PICK k \in DOMAIN added : added[k] = SpecOf(r)
    BY <2>1, AddedAll DEF added
  <2>5. PICK q \in 1..m : p[q].spec = added[k]
    BY <1>1, <2>3, <2>4
  <2> QED BY <2>1, <2>3, <2>4, <2>5
<1>12. s = Place(left, op, row)
  <2> DEFINE c == p[m + 1]
             in(rs, x) == IF x \in families(c.spec, v) THEN Place(rs, c.op, Row(c.spec, x)) ELSE rs
  <2>1. c.spec = spec /\ c.op = op /\ op # "delete"
    BY <1>1, <1>10 DEF op
  <2>2. s = in(in(left, FALSE), TRUE)
    BY <1>7, <2>1 DEF Made
  <2> HIDE DEF c
  <2>3. CASE six = TRUE
    BY <1>8, <2>1, <2>2, <2>3 DEF row
  <2>4. CASE six = FALSE
    BY <1>8, <2>1, <2>2, <2>4 DEF row
  <2> QED BY <1>8, <2>3, <2>4
<1>13. ComesFirst(row, s)
  <2>1. PutsFirst(op, left, row)
    BY <1>9, <1>10 DEF PutsFirst
  <2>2. NoTwin(left, row)
    BY <1>11 DEF NoTwin
  <2> QED BY <1>6, <1>9, <1>12, <2>1, <2>2, PlacedFirst
<1>14. s \in Seq(RowSet)
  <2>1. m + 1 \in 0..Len(p)
    BY <1>1, <1>3
  <2> QED BY <1>2, <1>7, <2>1 DEF Runs
<1> QED BY <1>9, <1>13, <1>14 DEF s, row

-----------------------------------------------------------------------------
(* Every plan is a list of changes.                                        *)

\* The plan so far, and the number of specs.
PlanState == [plan : Seq(ChangeSet), count : Int]

\* The plan for one more spec is a plan.
LEMMA PlanSpecType ==
    ASSUME NEW acc \in PlanState, NEW added \in Seq(SpecSet), NEW rules, NEW spec \in SpecSet, NEW v
    PROVE  PlanSpec(acc, added, rules, spec, v) \in PlanState
<1> DEFINE alike == { i \in DOMAIN added : /\ Family(added[i]) = Family(spec) /\ sameMatch(added[i], spec)
                                           /\ ~ Contains(acc.plan, Change("delete", added[i])) }
           E == { i \in alike : added[i].act # spec.act }
           wrong == Picked(added, E)
           dels == [i \in DOMAIN wrong |-> Change("delete", wrong[i])]
           gone == acc.plan \o dels
           left == simulate(rules, gone, v)
           op == CASE spec.act = "deny" /\ Family(spec) = "v6" -> "prepend"
                   [] spec.act = "deny" /\ Family(spec) # "v6" /\ \E i \in DOMAIN left : ~ left[i].v6 -> "insert"
                   [] OTHER -> "add"
           c == Change(op, spec)
<1>1. PlanSpec(acc, added, rules, spec, v) =
         IF \E i \in alike : added[i].act = spec.act
         THEN [plan |-> gone, count |-> acc.count - Len(wrong)]
         ELSE [plan |-> Append(gone, c), count |-> acc.count - Len(wrong) + 1]
  BY DEF PlanSpec
<1>2. E \subseteq DOMAIN added
  OBVIOUS
<1> HIDE DEF alike, E
<1>3. wrong \in Seq(SpecSet)
  BY <1>2, PickedList
<1> HIDE DEF wrong
<1>4. dels \in Seq(ChangeSet)
  <2>1. DOMAIN wrong = 1..Len(wrong) /\ Len(wrong) \in Nat
    BY <1>3
  <2>2. \A k \in 1..Len(wrong) : Change("delete", wrong[k]) \in ChangeSet
    <3> TAKE k \in 1..Len(wrong)
    <3>1. wrong[k] \in SpecSet
      BY <1>3, <2>1
    <3> QED BY <3>1, ChangeType
  <2>3. dels = [k \in 1..Len(wrong) |-> Change("delete", wrong[k])]
    BY <2>1
  <2> HIDE DEF dels
  <2> QED BY <2>1, <2>2, <2>3, IsASeq
<1> HIDE DEF dels
<1>5. acc.plan \in Seq(ChangeSet) /\ acc.count \in Int
  BY DEF PlanState
<1>6. gone \in Seq(ChangeSet)
  BY <1>4, <1>5
<1>7. op \in { "delete", "prepend", "insert", "add" }
  OBVIOUS
<1> HIDE DEF op, gone
<1>8. c \in ChangeSet
  BY <1>7, ChangeType
<1> HIDE DEF c
<1>9. Append(gone, c) \in Seq(ChangeSet) /\ Len(wrong) \in Nat
  BY <1>3, <1>6, <1>8
<1> QED BY <1>1, <1>5, <1>6, <1>9 DEF PlanState

\* planSpecs makes a list of changes.
LEMMA PlanSpecsType ==
    ASSUME NEW added \in Seq(SpecSet), NEW rules, NEW specs \in Seq(SpecSet), NEW v
    PROVE  planSpecs(added, rules, specs, v).plan \in Seq(ChangeSet)
<1> DEFINE n == Len(specs)
           b == [plan |-> << >>, count |-> Len(added)]
           F == CHOOSE h : h = [i \in 0..n |-> IF i = 0 THEN b ELSE PlanSpec(h[i - 1], added, rules, specs[i], v)]
           g == [i \in 1..n |-> [acc \in PlanState |-> PlanSpec(acc, added, rules, specs[i], v)]]
<1>1. planSpecs(added, rules, specs, v) = F[n]
  BY DEF planSpecs
<1>2. n \in Nat /\ b \in PlanState /\ \A i \in 1..n : specs[i] \in SpecSet
  BY DEF PlanState
<1> HIDE DEF n, b
<1>3. \A i \in 1..n, acc \in PlanState : PlanSpec(acc, added, rules, specs[i], v) \in PlanState
  BY <1>2, PlanSpecType
<1>4. g \in StepsOn(n, PlanState)
  BY <1>3 DEF StepsOn
<1>5. PICK f : Follows(f, n, PlanState, b, g)
  <2> HIDE DEF g
  <2> QED BY <1>2, <1>4, StepsExist
<1>6. /\ f \in [0..n -> PlanState] /\ f[0] = b
      /\ \A i \in 1..n : f[i] = PlanSpec(f[i - 1], added, rules, specs[i], v)
  <2>1. f \in [0..n -> PlanState] /\ f[0] = b /\ \A i \in 1..n : f[i] = g[i][f[i - 1]]
    BY <1>5 DEF Follows
  <2>2. \A i \in 1..n : f[i - 1] \in PlanState
    BY <1>2, <2>1
  <2> QED BY <2>1, <2>2
<1> HIDE DEF g
<1>7. f = [i \in 0..n |-> IF i = 0 THEN b ELSE PlanSpec(f[i - 1], added, rules, specs[i], v)]
  <2>1. \A i \in 0..n : f[i] = IF i = 0 THEN b ELSE PlanSpec(f[i - 1], added, rules, specs[i], v)
    BY <1>2, <1>6
  <2> QED BY <1>6, <2>1
<1>8. F = [i \in 0..n |-> IF i = 0 THEN b ELSE PlanSpec(F[i - 1], added, rules, specs[i], v)]
  BY <1>7
<1> HIDE DEF F
<1>9. F[0] = b /\ \A i \in 1..n : F[i] = PlanSpec(F[i - 1], added, rules, specs[i], v)
  <2>1. \A i \in 0..n : F[i] = IF i = 0 THEN b ELSE PlanSpec(F[i - 1], added, rules, specs[i], v)
    BY <1>8
  <2>2. 0 \in 0..n /\ \A i \in 1..n : i \in 0..n /\ i # 0
    BY <1>2
  <2> QED BY <2>1, <2>2, Zenon
<1> DEFINE S == { i \in 0..n : F[i] \in PlanState }
<1>10. 0 \in S
  BY <1>2, <1>9
<1>11. ASSUME NEW i \in 1..n, i - 1 \in S PROVE i \in S
  <2>1. F[i] = PlanSpec(F[i - 1], added, rules, specs[i], v) /\ F[i - 1] \in PlanState /\ i \in 0..n
    BY <1>2, <1>9, <1>11
  <2> QED BY <1>3, <2>1
<1> HIDE DEF S
<1>12. \A i \in 0..n : i \in S
  BY <1>2, <1>10, <1>11, Along
<1>13. n \in S
  BY <1>2, <1>12
<1>14. F[n] \in PlanState
  BY <1>13 DEF S
<1> QED BY <1>1, <1>14 DEF PlanState

\* Simulated changes leave rows.
LEMMA SimulateType ==
    ASSUME NEW rules \in Seq(RowSet), NEW plan \in Seq(ChangeSet), NEW v
    PROVE  simulate(rules, plan, v) \in Seq(RowSet)
<1>1. PICK f : Runs(f, rules, plan, v) /\ simulate(rules, plan, v) = f[Len(plan)]
  BY SimulateSteps
<1>2. Len(plan) \in 0..Len(plan)
  OBVIOUS
<1> QED BY <1>1, <1>2 DEF Runs

\* The spec that lists a row is a spec.
LEMMA SpecForType ==
    ASSUME NEW added \in Seq(SpecSet), NEW row, specFor(row, added) # NoRule
    PROVE  specFor(row, added) \in SpecSet
<1> DEFINE S == { i \in DOMAIN added : rowOf(row, added[i]) }
<1>1. S \subseteq Nat /\ S \subseteq DOMAIN added
  OBVIOUS
<1>2. S # {} /\ specFor(row, added) = added[First(S)]
  BY DEF specFor
<1> HIDE DEF S
<1>3. First(S) \in DOMAIN added
  BY <1>1, <1>2, FirstLeast
<1> QED BY <1>2, <1>3

\* A single change is a plan.
LEMMA OneChange ==
    ASSUME NEW spec \in SpecSet, NEW op \in { "delete", "prepend", "insert", "add" }
    PROVE  << Change(op, spec) >> \in Seq(ChangeSet)
<1> DEFINE c == Change(op, spec)
<1>1. c \in ChangeSet
  BY ChangeType
<1> HIDE DEF c
<1>2. << c >> \in Seq(ChangeSet)
  BY <1>1
<1> QED BY <1>2 DEF c

-----------------------------------------------------------------------------
(* A planned deny denies, on ufw.                                          *)

\* What a plan would make: a snapshot's rows, or changes.
Typed(req) == IF req.restore THEN req.after.rules \in Seq(RowSet) ELSE req.plan \in Seq(ChangeSet)

\* The plan of a deny is the one for its spec on the rules it was made against.
UfwDeny(req) ==
    req.what = "fw_deny" =>
        \E specs \in Seq(SpecSet) :
            /\ Len(specs) = 1 /\ OneSource(specs[1]) /\ req.base \in Seq(RowSet)
            /\ req.plan = planSpecs(SpecsOf(req.base), req.base, specs, v6ok).plan

\* The rules, and the plans kept and running, on ufw.
UfwTyped ==
    /\ fw.rules \in Seq(RowSet)
    /\ \A k \in DOMAIN plans : Typed(plans[k]) /\ UfwDeny(plans[k])
    /\ running = Idle \/ (Typed(running.req) /\ running.snap.rules \in Seq(RowSet))
    /\ trial = Idle \/ trial.snap.rules \in Seq(RowSet)
    /\ \A k \in DOMAIN snaps : snaps[k].rules \in Seq(RowSet)

\* At the start ufw has rows and nothing is planned.
LEMMA InitUfwTyped == Init /\ fw.kind = "ufw" => UfwTyped
<1> SUFFICES ASSUME Init, fw.kind = "ufw" PROVE UfwTyped
  OBVIOUS
<1>1. fw.rules \in Seq(RowSet)
  <2>1. PICK rules \in Ufws, policy \in { "allow", "deny" } : fw = Ufw(rules, policy)
    BY DEF Init, Fwd
  <2>2. fw.rules = rules
    BY <2>1 DEF Ufw
  <2> QED BY <2>1, <2>2, FirewallAssumption
<1>2. DOMAIN plans = {} /\ DOMAIN snaps = {} /\ running = Idle /\ trial = Idle
  BY DEF Init
<1> QED BY <1>1, <1>2 DEF UfwTyped

\* On ufw what is read of the firewall are its rows and their specs.
LEMMA UfwReading ==
    ASSUME NEW f, f.kind = "ufw", f.rules \in Seq(RowSet)
    PROVE  /\ Status(f).rules = f.rules /\ fwGen(f) = f.rules
           /\ Added(f) = SpecsOf(f.rules) /\ Added(f) \in Seq(SpecSet)
<1>1. Status(f).rules = f.rules /\ fwGen(f) = f.rules
  BY DEF Status, fwGen
<1>2. Added(f) = SpecsOf(f.rules)
  <2> DEFINE rules == f.rules
             g == [kind |-> "ufw", rules |-> rules]
  <2>1. g.kind = "ufw" /\ g.rules = f.rules
    OBVIOUS
  <2> HIDE DEF g
  <2>2. Added(g) = Added(f)
    BY <2>1 DEF Added
  <2> QED BY <2>2 DEF g, SpecsOf
<1>3. SpecsOf(f.rules) \in Seq(SpecSet)
  <2> DEFINE rules == f.rules
  <2>1. rules \in Seq(RowSet)
    OBVIOUS
  <2> HIDE DEF rules
  <2>2. SpecsOf(rules) \in Seq(SpecSet)
    BY <2>1, AddedAll
  <2> QED BY <2>2 DEF rules
<1> QED BY <1>1, <1>2, <1>3

\* What planning leaves: the plan it adds is typed, and one for its deny.
LEMMA OfferUfwTyped ==
    ASSUME UfwTyped, UNCHANGED << fw, v6ok, running, trial, snaps >>, fw.kind = "ufw",
           NEW what, NEW plan, NEW restore, NEW after, Offer(what, plan, after, restore),
           IF restore THEN after.rules \in Seq(RowSet) ELSE plan \in Seq(ChangeSet),
           what = "fw_deny" =>
               \E specs \in Seq(SpecSet) :
                   /\ Len(specs) = 1 /\ OneSource(specs[1])
                   /\ plan = planSpecs(SpecsOf(fw.rules), fw.rules, specs, v6ok).plan
    PROVE  UfwTyped'
<1> DEFINE req == [what |-> what, kind |-> fw.kind, plan |-> plan, restore |-> restore,
                   base |-> fwGen(fw), after |-> after, expires |-> now + TTL]
<1>1. plans' = Put(req)
  BY DEF Offer
<1>2. /\ req.what = what /\ req.plan = plan /\ req.restore = restore /\ req.after = after
      /\ req.base = fw.rules /\ fw.rules \in Seq(RowSet)
  <2>1. fw.rules \in Seq(RowSet)
    BY DEF UfwTyped
  <2> QED BY <2>1, UfwReading
<1> HIDE DEF req
<1>3. Typed(req) /\ UfwDeny(req)
  <2>1. Typed(req)
    BY <1>2 DEF Typed
  <2>2. UfwDeny(req)
    BY <1>2 DEF UfwDeny
  <2> QED BY <2>1, <2>2
<1>4. \A k \in DOMAIN plans' : Typed(plans'[k]) /\ UfwDeny(plans'[k])
  <2> TAKE k \in DOMAIN plans'
  <2>1. plans'[k] = req \/ (k \in DOMAIN plans /\ plans'[k] = plans[k])
    BY <1>1 DEF Put
  <2> QED BY <1>3, <2>1 DEF UfwTyped
<1>5. (\A k \in DOMAIN plans : Typed(plans[k]) /\ UfwDeny(plans[k]))'
  BY <1>4 DEF Typed, UfwDeny
<1>6. /\ fw'.rules \in Seq(RowSet)
      /\ (running = Idle \/ (Typed(running.req) /\ running.snap.rules \in Seq(RowSet)))'
      /\ (trial = Idle \/ trial.snap.rules \in Seq(RowSet))'
      /\ (\A k \in DOMAIN snaps : snaps[k].rules \in Seq(RowSet))'
  BY DEF UfwTyped, Typed, Idle
<1> QED BY <1>5, <1>6 DEF UfwTyped

\* The plans kept are as before.
LEMMA PlansKept ==
    ASSUME UfwTyped, v6ok' = v6ok, \A k \in DOMAIN plans' : k \in DOMAIN plans /\ plans'[k] = plans[k]
    PROVE  (\A k \in DOMAIN plans : Typed(plans[k]) /\ UfwDeny(plans[k]))'
<1>1. \A k \in DOMAIN plans' : Typed(plans'[k]) /\ UfwDeny(plans'[k])
  BY DEF UfwTyped
<1> QED BY <1>1 DEF Typed, UfwDeny

\* Another tool's change of typed rows leaves typed rows.
LEMMA AppliedUfwTyped ==
    ASSUME ShownInv, UfwTyped, NEW plan \in Seq(ChangeSet)
    PROVE  Applied(fw, plan).rules \in Seq(RowSet) 
<1> DEFINE to == simulate(fw.rules, plan, v6ok)
<1>1. to \in Seq(RowSet)
  <2> DEFINE rules == fw.rules
  <2>1. rules \in Seq(RowSet)
    BY DEF UfwTyped
  <2> HIDE DEF rules
  <2>2. simulate(rules, plan, v6ok) \in Seq(RowSet)
    BY <2>1, SimulateType
  <2> QED BY <2>2 DEF rules
<1>2. Applied(fw, plan) = [kind |-> "ufw", rules |-> to, policy |-> fw.policy]
  BY AppliedUfw
<1> HIDE DEF to
<1> QED BY <1>1, <1>2

\* Every step keeps what is said of ufw.
LEMMA NextUfwTyped == GuardedTrial /\ ShownInv /\ UfwTyped /\ [Next]_vars => UfwTyped'
<1> SUFFICES ASSUME GuardedTrial, ShownInv, UfwTyped, [Next]_vars PROVE UfwTyped'
  OBVIOUS
<1>0. /\ fw.kind = "ufw" /\ fw.rules \in Seq(RowSet)
      /\ Status(fw).rules = fw.rules /\ fwGen(fw) = fw.rules
      /\ Added(fw) = SpecsOf(fw.rules) /\ Added(fw) \in Seq(SpecSet)
  <2>1. fw.kind = "ufw" /\ fw.rules \in Seq(RowSet)
    BY DEF ShownInv, UfwNow, UfwTyped
  <2> QED BY <2>1, UfwReading
<1>1. ASSUME NEW request \in Requests, PlanSpecs(request) PROVE UfwTyped'
  <2> DEFINE p == planSpecs(Added(fw), Status(fw).rules, request.specs, v6ok).plan
  <2>1. /\ UNCHANGED << fw, v6ok, running, trial, snaps >>
        /\ Offer(request.cmd, p, Simulated(p), FALSE)
    BY <1>1 DEF PlanSpecs, Ask
  <2>2. /\ request.specs \in Seq(SpecSet)
        /\ request.cmd = "fw_deny" => Len(request.specs) = 1 /\ OneSource(request.specs[1])
    BY FirewallAssumption
  <2>3. p \in Seq(ChangeSet)
    BY <1>0, <2>2, PlanSpecsType
  <2>4. request.cmd = "fw_deny" =>
           \E specs \in Seq(SpecSet) :
               /\ Len(specs) = 1 /\ OneSource(specs[1])
               /\ p = planSpecs(SpecsOf(fw.rules), fw.rules, specs, v6ok).plan
    BY <1>0, <2>2
  <2> HIDE DEF p
  <2> QED BY <1>0, <2>1, <2>3, <2>4, OfferUfwTyped
<1>2. ASSUME NEW i, PlanDelete(i) PROVE UfwTyped'
  <2> DEFINE spec == specFor(Status(fw).rules[i], Added(fw))
             p == << Change("delete", spec) >>
  <2>1. /\ UNCHANGED << fw, v6ok, running, trial, snaps >> /\ spec # NoRule
        /\ Offer("delete", p, Simulated(p), FALSE)
    BY <1>2 DEF PlanDelete, Ask
  <2>2. spec \in SpecSet
    BY <1>0, <2>1, SpecForType
  <2> HIDE DEF spec
  <2>3. p \in Seq(ChangeSet)
    BY <2>2, OneChange
  <2> HIDE DEF p
  <2> QED BY <1>0, <2>1, <2>3, OfferUfwTyped
<1>3. ASSUME NEW k \in DOMAIN snaps, PlanRestore(snaps[k]) PROVE UfwTyped'
  <2> DEFINE rs == snaps[k].rules
             after == [Status(fw) EXCEPT !.rules = rs]
             p == restorePlan(Added(fw), snaps[k].added)
  <2>1. UNCHANGED << fw, v6ok, running, trial, snaps >> /\ Offer("restore", p, after, TRUE)
    BY <1>3 DEF PlanRestore, Ask
  <2>2. rs \in Seq(RowSet)
    BY DEF UfwTyped
  <2>3. after.rules = rs
    <3> HIDE DEF rs
    <3> QED BY <1>0 DEF Status
  <2> HIDE DEF rs, after, p
  <2> QED BY <1>0, <2>1, <2>2, <2>3, OfferUfwTyped
<1>4. ASSUME NEW k \in DOMAIN plans, RunPlan(k) PROVE UfwTyped'
  <2>1. UNCHANGED << fw, v6ok, trial, snaps >> /\ \A j \in DOMAIN plans' : j \in DOMAIN plans /\ plans'[j] = plans[j]
    BY <1>4 DEF RunPlan, Without
  <2> DEFINE q == plans[k]
             r == [step |-> "ready", req |-> q, before |-> fw, snap |-> fw, foreign |-> FALSE]
  <2>2. running' = Idle \/ running' = r
    BY <1>4 DEF RunPlan
  <2>3. Typed(q)
    BY DEF UfwTyped
  <2> HIDE DEF q
  <2>4. r.req = q /\ r.snap = fw
    OBVIOUS
  <2> HIDE DEF r
  <2>5. (running = Idle \/ (Typed(running.req) /\ running.snap.rules \in Seq(RowSet)))'
    BY <1>0, <2>2, <2>3, <2>4 DEF Typed, Idle
  <2>6. (\A j \in DOMAIN plans : Typed(plans[j]) /\ UfwDeny(plans[j]))'
    BY <2>1, PlansKept
  <2> QED BY <2>1, <2>5, <2>6 DEF UfwTyped, Idle
<1>5. ASSUME ApplyPlan PROVE UfwTyped'
  <2>1. running # Idle /\ RunningUfw(running) /\ Typed(running.req)
    BY <1>5, NotIdle DEF ApplyPlan, ShownInv, UfwTyped
  <2>2. fw'.rules \in Seq(RowSet)
    <3>1. CASE running.req.restore
      <4> DEFINE rs == running.req.after.rules
      <4>1. fw' = [fw EXCEPT !.rules = rs]
        BY <1>5, <3>1 DEF ApplyPlan
      <4>2. rs \in Seq(RowSet)
        BY <2>1, <3>1 DEF Typed
      <4> HIDE DEF rs
      <4>3. fw = [kind |-> "ufw", rules |-> fw.rules, policy |-> fw.policy]
        BY DEF ShownInv, UfwNow
      <4> QED BY <4>1, <4>2, <4>3
    <3>2. CASE ~ running.req.restore
      <4> DEFINE p == running.req.plan
      <4>1. fw' = Applied(fw, p)
        BY <1>5, <3>2 DEF ApplyPlan
      <4>2. p \in Seq(ChangeSet)
        BY <2>1, <3>2 DEF Typed
      <4> HIDE DEF p
      <4> QED BY <4>1, <4>2, AppliedUfwTyped
    <3> QED BY <3>1, <3>2
  <2>3. /\ v6ok' = v6ok /\ plans' = plans /\ trial' = trial
        /\ snaps' = << [rules |-> fwGen(fw), added |-> Added(fw)] >>
        /\ running' = [running EXCEPT !.step = "changed", !.snap = fw]
    BY <1>5 DEF ApplyPlan
  <2>4. running'.req = running.req /\ running'.snap = fw
    <3>1. running = [step |-> running.step, req |-> running.req, before |-> running.before,
                     snap |-> running.snap, foreign |-> running.foreign]
      BY <2>1 DEF RunningUfw
    <3>2. running' = [step |-> "changed", req |-> running.req, before |-> running.before,
                      snap |-> fw, foreign |-> running.foreign]
      BY <2>3, <3>1
    <3> QED BY <3>2
  <2>5. (running = Idle \/ (Typed(running.req) /\ running.snap.rules \in Seq(RowSet)))'
    BY <1>0, <2>1, <2>4 DEF Typed
  <2>6. \A k \in DOMAIN snaps' : snaps'[k].rules \in Seq(RowSet)
    <3> DEFINE s == [rules |-> fwGen(fw), added |-> Added(fw)]
    <3>1. s.rules \in Seq(RowSet)
      BY <1>0
    <3> HIDE DEF s
    <3>2. snaps' = << s >>
      BY <2>3 DEF s
    <3> QED BY <3>1, <3>2
  <2>7. (\A j \in DOMAIN plans : Typed(plans[j]) /\ UfwDeny(plans[j]))'
    BY <2>3, PlansKept
  <2> QED BY <2>2, <2>3, <2>5, <2>6, <2>7 DEF UfwTyped, Idle
<1>6. ASSUME VerifyPlan PROVE UfwTyped'
  <2>1. running.snap.rules \in Seq(RowSet)
    BY <1>6, NotIdle DEF VerifyPlan, UfwTyped
  <2>2. /\ fw' \in { fw, running.snap } /\ running' = Idle /\ v6ok' = v6ok /\ plans' = plans /\ snaps' = snaps
        /\ trial' = Idle \/ trial'.snap = running.snap
    BY <1>6 DEF VerifyPlan
  <2>3. (\A j \in DOMAIN plans : Typed(plans[j]) /\ UfwDeny(plans[j]))'
    BY <2>2, PlansKept
  <2> QED BY <1>0, <2>1, <2>2, <2>3 DEF UfwTyped, Idle
<1>7. ASSUME EndTrial PROVE UfwTyped'
  <2>1. trial.snap.rules \in Seq(RowSet) /\ running = Idle
    BY <1>7, NotIdle DEF EndTrial, UfwTyped, GuardedTrial
  <2>2. fw' \in { fw, trial.snap } /\ trial' = Idle /\ v6ok' = v6ok /\ plans' = plans /\ running' = running /\ snaps' = snaps
    BY <1>7 DEF EndTrial
  <2>3. (\A j \in DOMAIN plans : Typed(plans[j]) /\ UfwDeny(plans[j]))'
    BY <2>2, PlansKept
  <2> QED BY <1>0, <2>1, <2>2, <2>3 DEF UfwTyped, Idle
<1>8. ASSUME ForeignEdit PROVE UfwTyped'
  <2>1. PICK spec \in Edits, op \in { "insert", "delete" } : fw' = Applied(fw, << Change(op, spec) >>)
    BY <1>8 DEF ForeignEdit
  <2>2. fw'.rules \in Seq(RowSet)
    <3> DEFINE p == << Change(op, spec) >>
    <3>1. spec \in SpecSet
      BY FirewallAssumption
    <3>2. p \in Seq(ChangeSet)
      BY <3>1, OneChange
    <3> HIDE DEF p
    <3>3. Applied(fw, p).rules \in Seq(RowSet)
      BY <3>2, AppliedUfwTyped
    <3> QED BY <2>1, <3>3 DEF p
  <2>3. /\ v6ok' = v6ok /\ plans' = plans /\ trial' = trial /\ snaps' = snaps
        /\ running' = IF running = Idle THEN Idle ELSE [running EXCEPT !.foreign = TRUE]
    BY <1>8 DEF ForeignEdit
  <2>4. (running = Idle \/ (Typed(running.req) /\ running.snap.rules \in Seq(RowSet)))'
    <3>1. CASE running = Idle
      BY <2>3, <3>1 DEF Idle
    <3>2. CASE running # Idle
      <4>1. RunningUfw(running) /\ Typed(running.req) /\ running.snap.rules \in Seq(RowSet)
        BY <3>2 DEF ShownInv, UfwTyped
      <4>2. running = [step |-> running.step, req |-> running.req, before |-> running.before,
                       snap |-> running.snap, foreign |-> running.foreign]
        BY <4>1 DEF RunningUfw
      <4>3. running' = [running EXCEPT !.foreign = TRUE]
        BY <2>3, <3>2
      <4>4. running'.req = running.req /\ running'.snap = running.snap
        BY <4>2, <4>3
      <4> QED BY <4>1, <4>4 DEF Typed
    <3> QED BY <3>1, <3>2
  <2>5. (\A j \in DOMAIN plans : Typed(plans[j]) /\ UfwDeny(plans[j]))'
    BY <2>3, PlansKept
  <2> QED BY <2>2, <2>3, <2>4, <2>5 DEF UfwTyped, Idle
<1>9. ASSUME Login \/ Tick \/ UNCHANGED vars PROVE UfwTyped'
  <2>1. UNCHANGED << fw, v6ok, plans, running, trial, snaps >>
    BY <1>9 DEF Login, Tick, vars
  <2>2. (\A j \in DOMAIN plans : Typed(plans[j]) /\ UfwDeny(plans[j]))'
    BY <2>1, PlansKept
  <2> QED BY <2>1, <2>2 DEF UfwTyped, Typed, Idle
<1> QED BY <1>1, <1>2, <1>3, <1>4, <1>5, <1>6, <1>7, <1>8, <1>9 DEF Next

\* The plan, read back from the changes made of it.
PlanOf(p, added, rules, specs, v) ==
    /\ added \in Seq(SpecSet) /\ specs \in Seq(SpecSet) /\ Len(specs) = 1
    /\ p = planSpecs(added, rules, specs, v).plan

\* What the plan for one spec adds is that spec, last.
LEMMA AddedLast ==
    ASSUME NEW p, NEW added, NEW rules, NEW specs, NEW v, PlanOf(p, added, rules, specs, v),
           NEW i \in DOMAIN p, p[i].op # "delete"
    PROVE  OneSpecPlan(p, added, rules, specs[1], v) /\ i = Len(p) /\ p[i].spec = specs[1]
<1>1. (\A q \in DOMAIN p : p[q].op = "delete") \/ OneSpecPlan(p, added, rules, specs[1], v)
  BY PlanOneSpec DEF PlanOf
<1>2. OneSpecPlan(p, added, rules, specs[1], v)
  BY <1>1
<1> DEFINE m == Len(p) - 1
<1>3. p \in Seq(ChangeSet) /\ m \in Nat /\ (\A q \in 1..m : p[q].op = "delete") /\ p[m + 1].spec = specs[1]
  BY <1>2 DEF OneSpecPlan
<1>4. i \in 1..Len(p) /\ Len(p) \in Nat
  BY <1>3
<1>5. i \notin 1..m
  BY <1>3
<1>6. i = m + 1 /\ i = Len(p)
  BY <1>4, <1>5
<1> QED BY <1>2, <1>3, <1>6

\* On ufw a planned deny denies: its row comes before every row of its family.
LEMMA DenyHoldsUfw == ShownInv /\ UfwTyped => DenyHolds
<1> SUFFICES ASSUME ShownInv, UfwTyped, NEW k \in DOMAIN plans,
                    plans[k].what = "fw_deny", plans[k].base = fwGen(fw),
                    NEW i \in DOMAIN plans[k].plan, plans[k].plan[i].op # "delete",
                    plans[k].plan[i].spec.proto \in { Zero, "tcp" },
                    NEW peer \in plans[k].plan[i].spec.from, NEW port \in SSHPorts,
                    coversPort(plans[k].plan[i].spec, port), NEW hits
             PROVE  ~ Accepts(Status(Applied(fw, plans[k].plan)), port, peer, hits)
  BY Zenon DEF DenyHolds
<1> DEFINE p == plans[k].plan
           rules == fw.rules
           added == SpecsOf(rules)
           f == Applied(fw, p)
           s == simulate(rules, p, v6ok)
<1>1. rules \in Seq(RowSet) /\ fw.kind = "ufw" /\ fwGen(fw) = rules
  <2>1. fw.rules \in Seq(RowSet) /\ fw.kind = "ufw"
    BY DEF UfwTyped, ShownInv, UfwNow
  <2> QED BY <2>1, UfwReading
<1>2. PICK specs \in Seq(SpecSet) :
         Len(specs) = 1 /\ OneSource(specs[1]) /\ p = planSpecs(added, rules, specs, v6ok).plan
  <2>1. UfwDeny(plans[k]) /\ plans[k].base = rules
    BY <1>1 DEF UfwTyped
  <2> QED BY <2>1 DEF UfwDeny
<1>3. f = [kind |-> "ufw", rules |-> s, policy |-> fw.policy]
  BY AppliedUfw
<1>4. i \in DOMAIN p /\ p[i].op # "delete" /\ p[i].spec.proto \in { Zero, "tcp" } /\ peer \in p[i].spec.from
      /\ coversPort(p[i].spec, port)
  OBVIOUS
<1> HIDE DEF p, rules, added, f, s
<1>5. added \in Seq(SpecSet)
  BY <1>1, AddedAll DEF added
<1> DEFINE spec == specs[1]
           six == (Family(spec) = "v6")
<1>6. OneSpecPlan(p, added, rules, spec, v6ok) /\ p[i].spec = spec
  <2>1. PlanOf(p, added, rules, specs, v6ok)
    BY <1>2, <1>5 DEF PlanOf
  <2>2. i \in DOMAIN p /\ p[i].op # "delete"
    BY <1>4
  <2> QED BY <2>1, <2>2, AddedLast
<1>7. /\ spec \in SpecSet /\ OneSource(spec) /\ spec.from # {} /\ spec.proto \in { Zero, "tcp" }
      /\ peer \in spec.from /\ coversPort(spec, port)
  <2>1. spec \in SpecSet
    <3>1. specs \in Seq(SpecSet) /\ 1 \in 1..Len(specs)
      BY <1>2
    <3> QED BY <3>1, ElementOfSeq
  <2> QED BY <1>2, <1>4, <1>6, <2>1
<1> HIDE DEF spec
<1>8. s \in Seq(RowSet) /\ ComesFirst(Row(spec, six), s) /\ Is6(peer) = six
  <2>1. OneSpecPlan(p, SpecsOf(rules), rules, spec, v6ok)
    BY <1>6 DEF added
  <2> DEFINE x == six
  <2>2. x = six
    OBVIOUS
  <2> HIDE DEF x
  <2>3. s \in Seq(RowSet) /\ ComesFirst(Row(spec, x), s)
    BY <1>1, <1>7, <2>1, <2>2, DenyFirstUfw DEF s
  <2>4. Is6(peer) = x
    BY <1>7, <2>2, OneFamily
  <2> QED BY <2>2, <2>3, <2>4
<1> HIDE DEF six
<1>9. PICK at \in DOMAIN s : s[at] = Row(spec, six) /\ \A j \in DOMAIN s : j < at => s[j].v6 # Row(spec, six).v6
  BY <1>8 DEF ComesFirst
<1>10. Row(spec, six).v6 = six
  <2>1. Row(spec, six).v6 = six
    BY DEF Row
  <2> QED BY <2>1
<1> DEFINE st == Status(f)
<1>11. st.rules = s
  BY <1>3 DEF Status
<1> HIDE DEF st
<1>12. s[at] = Row(spec, Is6(peer)) /\ \A j \in DOMAIN s : j < at /\ s[j].v6 = Is6(peer) => s[j].act \notin Lets
  BY <1>8, <1>9, <1>10
<1>13. ~ Accepts(st, port, peer, hits)
  BY <1>7, <1>8, <1>11, <1>12, DenyDecides
<1> QED BY <1>13 DEF st, f, p

-----------------------------------------------------------------------------
(* Changes of a firewalld zone.                                            *)

\* The rich rules of a zone.
RichSet == [spec : SpecSet, prio : Int, service : Names, plain : BOOLEAN]

\* The zones that a change of z may leave.
ZonesLike(z) == [ports : Seq(SpecSet), services : Seq(Names), rich : Seq(RichSet),
                 policy : { z.policy }, svc : { z.svc }]

\* A zone that nothing changed is like itself.
LEMMA ZoneSelf == ASSUME NEW z, IsZone(z) PROVE z \in ZonesLike(z)
<1>1. z = [ports |-> z.ports, services |-> z.services, rich |-> z.rich, policy |-> z.policy, svc |-> z.svc]
  BY DEF IsZone
<1>2. z.ports \in Seq(SpecSet) /\ z.services \in Seq(Names) /\ z.rich \in Seq(RichSet)
  BY DEF IsZone, RichSet
<1> QED BY <1>1, <1>2 DEF ZonesLike

\* What a change leaves of a zone is a zone.
LEMMA ZoneLike == ASSUME NEW z, IsZone(z), NEW y \in ZonesLike(z) PROVE IsZone(y)
<1>1. y = [ports |-> y.ports, services |-> y.services, rich |-> y.rich, policy |-> y.policy, svc |-> y.svc]
  BY DEF ZonesLike
<1>2. y.ports \in Seq(SpecSet) /\ y.services \in Seq(Names) /\ y.rich \in Seq(RichSet) /\ y.svc = z.svc
  BY DEF ZonesLike
<1>3. \A svc \in DOMAIN z.svc : z.svc[svc] \in SUBSET Nat
  BY DEF IsZone
<1> QED BY <1>1, <1>2, <1>3 DEF IsZone, RichSet

\* An entry put in a list, or taken out of it.
PutIn(s, op, y) == IF op = "delete" THEN Picked(s, { i \in DOMAIN s : s[i] # y })
                   ELSE IF Contains(s, y) THEN s ELSE Append(s, y)

\* The list has the entry.
Holds(s, y) == \E i \in DOMAIN s : s[i] = y

\* What is put in a list is in it, and the list is still one.
LEMMA PutInType ==
    ASSUME NEW X, NEW s \in Seq(X), NEW op, NEW y \in X
    PROVE  /\ PutIn(s, op, y) \in Seq(X)
           /\ op # "delete" => Holds(PutIn(s, op, y), y) /\ \A w : Holds(s, w) => Holds(PutIn(s, op, y), w)
<1>1. CASE op = "delete"
  <2> DEFINE E == { i \in DOMAIN s : s[i] # y }
  <2>1. E \subseteq DOMAIN s /\ PutIn(s, op, y) = Picked(s, E)
    BY <1>1 DEF PutIn
  <2> HIDE DEF E
  <2> QED BY <1>1, <2>1, PickedList
<1>2. CASE op # "delete" /\ Contains(s, y)
  <2>1. PutIn(s, op, y) = s
    BY <1>2 DEF PutIn
  <2>2. \E i \in DOMAIN s : s[i] = y
    BY <1>2 DEF Contains
  <2> QED BY <2>1, <2>2 DEF Holds
<1>3. CASE op # "delete" /\ ~ Contains(s, y)
  <2> DEFINE t == Append(s, y)
  <2>1. PutIn(s, op, y) = t
    BY <1>3 DEF PutIn
  <2>2. t \in Seq(X) /\ Len(s) + 1 \in DOMAIN t /\ t[Len(s) + 1] = y /\ \A j \in DOMAIN s : j \in DOMAIN t /\ t[j] = s[j]
    OBVIOUS
  <2> HIDE DEF t
  <2> QED BY <2>1, <2>2 DEF Holds
<1> QED BY <1>1, <1>2, <1>3

\* The rich rule of a spec.
RichOf(x) == [spec |-> x, prio |-> 0, service |-> Zero, plain |-> TRUE]

\* The zone has the rich rule of a spec.
HasRich(z, x) == Holds(z.rich, RichOf(x))

\* An entry put in a zone leaves a zone; a deny is a rich rule of it.
LEMMA FwdPutType ==
    ASSUME NEW z, NEW y \in ZonesLike(z), NEW op, NEW x \in SpecSet
    PROVE  /\ FwdPut(y, op, x) \in ZonesLike(z)
           /\ op # "delete" /\ x.app = Zero /\ x.act # "allow" =>
                 /\ HasRich(FwdPut(y, op, x), x)
                 /\ \A w : HasRich(y, w) => HasRich(FwdPut(y, op, x), w)
<1> DEFINE services == PutIn(y.services, op, x.app)
           ports == PutIn(y.ports, op, x)
           rich == PutIn(y.rich, op, RichOf(x))
<1>0. /\ y.services \in Seq(Names) /\ y.ports \in Seq(SpecSet) /\ y.rich \in Seq(RichSet)
      /\ y = [ports |-> y.ports, services |-> y.services, rich |-> y.rich, policy |-> z.policy, svc |-> z.svc]
      /\ x.app \in Names
  <2>1. x.app \in Names
    BY DEF SpecSet
  <2> QED BY <2>1 DEF ZonesLike
<1>1. FwdPut(y, op, x) =
        CASE x.app # Zero -> [y EXCEPT !.services = services]
          [] x.app = Zero /\ x.simple /\ x.act = "allow" -> [y EXCEPT !.ports = ports]
          [] OTHER -> [y EXCEPT !.rich = rich]
  BY DEF FwdPut, PutIn, RichOf
<1>2. RichOf(x) \in RichSet
  BY DEF RichOf, RichSet, Names
<1>3. services \in Seq(Names)
  BY <1>0, PutInType
<1>4. ports \in Seq(SpecSet)
  BY <1>0, PutInType
<1>5. /\ rich \in Seq(RichSet)
      /\ op # "delete" => Holds(rich, RichOf(x)) /\ \A w : Holds(y.rich, w) => Holds(rich, w)
  BY <1>0, <1>2, PutInType
<1> HIDE DEF services, ports, rich
<1> DEFINE a == [y EXCEPT !.services = services]
           b == [y EXCEPT !.ports = ports]
           c == [y EXCEPT !.rich = rich]
<1>6. a \in ZonesLike(z) /\ b \in ZonesLike(z) /\ c \in ZonesLike(z) /\ c.rich = rich
  <2>1. a = [ports |-> y.ports, services |-> services, rich |-> y.rich, policy |-> z.policy, svc |-> z.svc]
    BY <1>0
  <2>2. b = [ports |-> ports, services |-> y.services, rich |-> y.rich, policy |-> z.policy, svc |-> z.svc]
    BY <1>0
  <2>3. c = [ports |-> y.ports, services |-> y.services, rich |-> rich, policy |-> z.policy, svc |-> z.svc]
    BY <1>0
  <2> HIDE DEF a, b, c
  <2> QED BY <1>0, <1>3, <1>4, <1>5, <2>1, <2>2, <2>3 DEF ZonesLike
<1> HIDE DEF a, b, c
<1>7. FwdPut(y, op, x) \in { a, b, c }
  BY <1>1 DEF a, b, c
<1>8. ASSUME op # "delete", x.app = Zero, x.act # "allow"
      PROVE  HasRich(FwdPut(y, op, x), x) /\ \A w : HasRich(y, w) => HasRich(FwdPut(y, op, x), w)
  <2>1. FwdPut(y, op, x) = c
    BY <1>1, <1>8 DEF c
  <2> QED BY <1>5, <1>6, <1>8, <2>1 DEF HasRich
<1> QED BY <1>6, <1>7, <1>8

\* A deny is a rich rule afterwards: the spec's own, or one for TCP.
DenyRich(z, spec) ==
    \E x \in SpecSet : HasRich(z, x) /\ \/ x = spec
                                        \/ spec.proto = Zero /\ x = [spec EXCEPT !.proto = "tcp"]

\* A change of a zone leaves a zone, and an added deny is a rich rule of it.
LEMMA FwdChangeType ==
    ASSUME NEW z, NEW y \in ZonesLike(z), NEW c \in ChangeSet
    PROVE  /\ FwdChange(y, c) \in ZonesLike(z)
           /\ c.op # "delete" /\ c.spec.app = Zero /\ c.spec.act # "allow" => DenyRich(FwdChange(y, c), c.spec)
<1> DEFINE spec == c.spec
           tcp == [spec EXCEPT !.proto = "tcp"]
           udp == [spec EXCEPT !.proto = "udp"]
           first == FwdPut(y, c.op, tcp)
           both == FwdPut(first, c.op, udp)
           one == FwdPut(y, c.op, spec)
<1>1. spec \in SpecSet
  BY DEF ChangeSet
<1>2. FwdChange(y, c) = IF spec.proto = Zero /\ spec.ports # {} THEN both ELSE one
  BY DEF FwdChange
<1> HIDE DEF spec
<1>3. /\ tcp \in SpecSet /\ tcp.app = spec.app /\ tcp.act = spec.act
      /\ udp \in SpecSet /\ udp.app = spec.app /\ udp.act = spec.act
  BY <1>1 DEF SpecSet, Protos
<1> HIDE DEF tcp, udp
<1>4. /\ one \in ZonesLike(z)
      /\ c.op # "delete" /\ spec.app = Zero /\ spec.act # "allow" => HasRich(one, spec)
  BY <1>1, FwdPutType
<1>5. /\ first \in ZonesLike(z)
      /\ c.op # "delete" /\ spec.app = Zero /\ spec.act # "allow" => HasRich(first, tcp)
  BY <1>3, FwdPutType
<1> HIDE DEF first, one
<1>6. /\ both \in ZonesLike(z)
      /\ c.op # "delete" /\ spec.app = Zero /\ spec.act # "allow" => HasRich(both, tcp)
  BY <1>3, <1>5, FwdPutType
<1> HIDE DEF both
<1>7. CASE spec.proto = Zero /\ spec.ports # {}
  <2>1. FwdChange(y, c) = both
    BY <1>2, <1>7
  <2>2. HasRich(both, tcp) => DenyRich(both, spec)
    BY <1>3, <1>7 DEF DenyRich, tcp
  <2> QED BY <1>6, <2>1, <2>2 DEF spec
<1>8. CASE ~ (spec.proto = Zero /\ spec.ports # {})
  <2>1. FwdChange(y, c) = one
    BY <1>2, <1>8
  <2>2. HasRich(one, spec) => DenyRich(one, spec)
    BY <1>1 DEF DenyRich
  <2> QED BY <1>4, <2>1, <2>2 DEF spec
<1> QED BY <1>7, <1>8

\* The zone is a zone after every change, and the last change of a plan is made
\* of one.
LEMMA FwdApplySteps ==
    ASSUME NEW z, IsZone(z), NEW plan \in Seq(ChangeSet)
    PROVE  /\ FwdApply(z, plan) \in ZonesLike(z)
           /\ Len(plan) > 0 => \E y \in ZonesLike(z) : FwdApply(z, plan) = FwdChange(y, plan[Len(plan)])
<1> DEFINE n == Len(plan)
           X == ZonesLike(z)
           F == CHOOSE h : h = [i \in 0..n |-> IF i = 0 THEN z ELSE FwdChange(h[i - 1], plan[i])]
           g == [i \in 1..n |-> [y \in X |-> FwdChange(y, plan[i])]]
<1>1. FwdApply(z, plan) = F[n]
  BY DEF FwdApply
<1>2. n \in Nat /\ z \in X /\ \A i \in 1..n : plan[i] \in ChangeSet
  BY ZoneSelf
<1>3. \A i \in 1..n, y \in X : FwdChange(y, plan[i]) \in X
  BY <1>2, FwdChangeType
<1> HIDE DEF n, X
<1>4. g \in StepsOn(n, X)
  BY <1>3 DEF StepsOn
<1>5. PICK f : Follows(f, n, X, z, g)
  <2> HIDE DEF g
  <2> QED BY <1>2, <1>4, StepsExist
<1>6. f \in [0..n -> X] /\ f[0] = z /\ \A i \in 1..n : f[i] = FwdChange(f[i - 1], plan[i])
  <2>1. f \in [0..n -> X] /\ f[0] = z /\ \A i \in 1..n : f[i] = g[i][f[i - 1]]
    BY <1>5 DEF Follows
  <2>2. \A i \in 1..n : f[i - 1] \in X
    BY <1>2, <2>1
  <2> QED BY <2>1, <2>2
<1> HIDE DEF g
<1>7. f = [i \in 0..n |-> IF i = 0 THEN z ELSE FwdChange(f[i - 1], plan[i])]
  <2>1. \A i \in 0..n : f[i] = IF i = 0 THEN z ELSE FwdChange(f[i - 1], plan[i])
    BY <1>2, <1>6
  <2> QED BY <1>6, <2>1
<1>8. F = [i \in 0..n |-> IF i = 0 THEN z ELSE FwdChange(F[i - 1], plan[i])]
  BY <1>7
<1> HIDE DEF F
<1>9. F[0] = z /\ \A i \in 1..n : F[i] = FwdChange(F[i - 1], plan[i])
  <2>1. \A i \in 0..n : F[i] = IF i = 0 THEN z ELSE FwdChange(F[i - 1], plan[i])
    BY <1>8
  <2>2. 0 \in 0..n /\ \A i \in 1..n : i \in 0..n /\ i # 0
    BY <1>2
  <2> QED BY <2>1, <2>2, Zenon
<1> DEFINE S == { i \in 0..n : F[i] \in X }
<1>10. 0 \in S
  BY <1>2, <1>9
<1>11. ASSUME NEW i \in 1..n, i - 1 \in S PROVE i \in S
  <2>1. F[i] = FwdChange(F[i - 1], plan[i]) /\ F[i - 1] \in X /\ i \in 0..n
    BY <1>2, <1>9, <1>11
  <2> QED BY <1>3, <2>1
<1> HIDE DEF S
<1>12. \A i \in 0..n : i \in S
  BY <1>2, <1>10, <1>11, Along
<1>13. \A i \in 0..n : F[i] \in X
  BY <1>12 DEF S
<1>14. F[n] \in X
  <2>1. n \in 0..n
    BY <1>2
  <2> QED BY <1>13, <2>1
<1>15. n > 0 => \E y \in X : F[n] = FwdChange(y, plan[n])
  <2> SUFFICES ASSUME n > 0 PROVE \E y \in X : F[n] = FwdChange(y, plan[n])
    OBVIOUS
  <2>1. n \in 1..n /\ n - 1 \in 0..n
    BY <1>2
  <2> QED BY <1>9, <1>13, <2>1
<1> QED BY <1>1, <1>14, <1>15 DEF n, X

-----------------------------------------------------------------------------
(* The rows of a zone.                                                     *)

\* The spec all others are made from is one.
LEMMA Spec0Type == Spec0 \in SpecSet
  BY DEF SpecSet, Spec0, Actions, Dirs, Protos, Onlys, Names

\* A service is a spec too.
LEMMA ServiceRow ==
    ASSUME NEW base \in SpecSet, NEW svc \in Names, NEW known \in SUBSET Nat
    PROVE  LET a == [base EXCEPT !.app = svc, !.proto = "tcp", !.ports = known]
           IN  a \in SpecSet /\ a.act = base.act
  BY DEF SpecSet, Protos

\* The entries of a service are specs that do what its rule does.
LEMMA ServiceRows ==
    ASSUME NEW z, IsZone(z), NEW base \in SpecSet, NEW svc \in Names
    PROVE  /\ serviceRows(z, base, svc) \in Seq(SpecSet)
           /\ \A k \in DOMAIN serviceRows(z, base, svc) : serviceRows(z, base, svc)[k].act = base.act
<1> DEFINE a == [base EXCEPT !.app = svc, !.proto = "tcp", !.ports = z.svc[svc]]
           b == [base EXCEPT !.app = svc]
<1>1. b \in SpecSet /\ b.act = base.act
  BY DEF SpecSet
<1>2. svc \in DOMAIN z.svc => a \in SpecSet /\ a.act = base.act
  <2> SUFFICES ASSUME svc \in DOMAIN z.svc PROVE a \in SpecSet /\ a.act = base.act
    OBVIOUS
  <2> DEFINE known == z.svc[svc]
  <2>1. known \in SUBSET Nat
    BY DEF IsZone
  <2> HIDE DEF known
  <2>2. a = [base EXCEPT !.app = svc, !.proto = "tcp", !.ports = known]
    BY DEF known
  <2> HIDE DEF a
  <2> QED BY <2>1, <2>2, ServiceRow
<1>3. serviceRows(z, base, svc) = IF svc \in DOMAIN z.svc THEN << a >> ELSE << b >>
  BY DEF serviceRows
<1> HIDE DEF a, b
<1> QED BY <1>1, <1>2, <1>3

\* The entries of a rich rule are specs that do what it does.
LEMMA RichRows ==
    ASSUME NEW z, IsZone(z), NEW x \in RichSet
    PROVE  /\ richRows(z, x) \in Seq(SpecSet)
           /\ \A k \in DOMAIN richRows(z, x) : richRows(z, x)[k].act = x.spec.act
           /\ x.service = Zero => richRows(z, x) = << x.spec >>
<1>1. x.spec \in SpecSet /\ x.service \in Names
  BY DEF RichSet
<1>2. CASE x.service = Zero
  BY <1>1, <1>2 DEF richRows
<1>3. CASE x.service # Zero
  <2>1. richRows(z, x) = serviceRows(z, x.spec, x.service)
    BY <1>3 DEF richRows
  <2> DEFINE base == x.spec
             svc == x.service
  <2>3. base \in SpecSet /\ svc \in Names
    BY <1>1
  <2> HIDE DEF base, svc
  <2>4. /\ serviceRows(z, base, svc) \in Seq(SpecSet)
        /\ \A k \in DOMAIN serviceRows(z, base, svc) : serviceRows(z, base, svc)[k].act = base.act
    BY <2>3, ServiceRows
  <2> QED BY <1>3, <2>1, <2>4 DEF base, svc
<1> QED BY <1>2, <1>3

\* A group's rows are those of its rich rules.
LEMMA RichesRows ==
    ASSUME NEW z, IsZone(z), NEW g
    PROVE  /\ Riches(z, g) \in Seq(SpecSet)
           /\ \A k \in DOMAIN Riches(z, g) :
                 \E i \in DOMAIN z.rich : /\ Group(z.rich[i]) = g
                                          /\ Riches(z, g)[k].act = z.rich[i].spec.act
           /\ \A i \in DOMAIN z.rich : Group(z.rich[i]) = g /\ z.rich[i].service = Zero =>
                 Holds(Riches(z, g), z.rich[i].spec)
<1> DEFINE e(i) == IF Group(z.rich[i]) = g THEN richRows(z, z.rich[i]) ELSE << >>
           ss == [i \in DOMAIN z.rich |-> e(i)]
           r == FlattenSeq(ss)
<1>1. Riches(z, g) = r
  BY DEF Riches
<1>2. z.rich \in Seq(RichSet) /\ DOMAIN z.rich = 1..Len(z.rich) /\ Len(z.rich) \in Nat
  BY DEF IsZone, RichSet
<1>3. \A i \in 1..Len(z.rich) : z.rich[i] \in RichSet
  BY <1>2
<1>4. \A i \in 1..Len(z.rich) : e(i) \in Seq(SpecSet)
  <2> TAKE i \in 1..Len(z.rich)
  <2>1. richRows(z, z.rich[i]) \in Seq(SpecSet)
    BY <1>3, RichRows
  <2> QED BY <2>1
<1>5. ss \in Seq(Seq(SpecSet))
  <2> HIDE DEF e
  <2>1. ss = [i \in 1..Len(z.rich) |-> e(i)]
    BY <1>2
  <2> HIDE DEF ss
  <2> QED BY <1>2, <1>4, <2>1, IsASeq
<1>6. DOMAIN ss = 1..Len(z.rich) /\ \A i \in 1..Len(z.rich) : ss[i] = e(i)
  BY <1>2
<1> HIDE DEF ss, e
<1>7. /\ r \in Seq(SpecSet)
      /\ \A k \in DOMAIN r : \E i \in DOMAIN ss : \E j \in DOMAIN ss[i] : r[k] = ss[i][j]
      /\ \A i \in DOMAIN ss : \A j \in DOMAIN ss[i] : \E k \in DOMAIN r : r[k] = ss[i][j]
  BY <1>5, Flattened
<1> HIDE DEF r
<1>8. ASSUME NEW k \in DOMAIN r
      PROVE  \E i \in DOMAIN z.rich : Group(z.rich[i]) = g /\ r[k].act = z.rich[i].spec.act
  <2>1. PICK i \in DOMAIN ss : \E j \in DOMAIN ss[i] : r[k] = ss[i][j]
    BY <1>7
  <2>2. i \in 1..Len(z.rich) /\ ss[i] = e(i)
    BY <1>6
  <2>3. PICK j \in DOMAIN e(i) : r[k] = e(i)[j]
    BY <2>1, <2>2
  <2>4. Group(z.rich[i]) = g /\ e(i) = richRows(z, z.rich[i])
    <3>1. ~ (j \in DOMAIN << >>)
      OBVIOUS
    <3> QED BY <2>3, <3>1 DEF e
  <2>5. r[k].act = z.rich[i].spec.act
    BY <1>3, <2>2, <2>3, <2>4, RichRows
  <2> QED BY <1>2, <2>2, <2>4, <2>5
<1>9. ASSUME NEW i \in DOMAIN z.rich, Group(z.rich[i]) = g, z.rich[i].service = Zero
      PROVE  Holds(r, z.rich[i].spec)
  <2>1. i \in 1..Len(z.rich) /\ z.rich[i] \in RichSet
    BY <1>2, <1>3
  <2> DEFINE x == z.rich[i].spec
  <2>2. e(i) = << x >>
    BY <1>9, <2>1, RichRows DEF e
  <2> HIDE DEF x
  <2>3. i \in DOMAIN ss /\ ss[i] = << x >>
    BY <1>6, <2>1, <2>2
  <2>4. 1 \in DOMAIN ss[i] /\ ss[i][1] = x
    BY <2>3
  <2>5. \E k \in DOMAIN r : r[k] = x
    BY <1>7, <2>3, <2>4
  <2> QED BY <2>5 DEF Holds, x
<1> QED BY <1>1, <1>7, <1>8, <1>9

\* An entry that nothing which lets in comes before.
Early(s, x) == \E k \in DOMAIN s : s[k] = x /\ \A j \in 1..k : s[j].act \notin Lets

\* An early entry stays early when entries follow.
LEMMA EarlyStays ==
    ASSUME NEW X, NEW a \in Seq(X), NEW b \in Seq(X), NEW x, Early(a, x)
    PROVE  Early(a \o b, x)
<1>1. PICK k \in DOMAIN a : a[k] = x /\ \A j \in 1..k : a[j].act \notin Lets
  BY DEF Early
<1> DEFINE c == a \o b
<1>2. k \in DOMAIN c /\ \A j \in 1..k : c[j] = a[j]
  OBVIOUS
<1>3. k \in 1..k
  OBVIOUS
<1> HIDE DEF c
<1>4. Early(c, x)
  BY <1>1, <1>2, <1>3 DEF Early
<1> QED BY <1>4 DEF c

\* The entries of a family, and of both, as its rows.
RowsOf(entries, six) ==
    LET family == { Zero, IF six THEN "v6" ELSE "v4" }
        es == Picked(entries, { i \in DOMAIN entries : Family(entries[i]) \in family })
    IN  [i \in DOMAIN es |-> Row(es[i], six)]

\* They are rows, and an early entry of the family is an early row.
LEMMA RowsOfType ==
    ASSUME NEW entries \in Seq(SpecSet), NEW six \in BOOLEAN
    PROVE  /\ RowsOf(entries, six) \in Seq(RowSet)
           /\ \A k \in DOMAIN RowsOf(entries, six) : RowsOf(entries, six)[k].v6 = six
           /\ \A x : Early(entries, x) /\ Family(x) = (IF six THEN "v6" ELSE "v4") =>
                 Early(RowsOf(entries, six), Row(x, six))
<1> DEFINE name == IF six THEN "v6" ELSE "v4"
           E == { i \in DOMAIN entries : Family(entries[i]) \in { Zero, name } }
           es == Picked(entries, E)
           rows == RowsOf(entries, six)
<1>1. rows = [i \in DOMAIN es |-> Row(es[i], six)]
  BY DEF RowsOf
<1> HIDE DEF rows, name
<1>2. E \subseteq DOMAIN entries /\ \A i \in DOMAIN entries : Family(entries[i]) = name => i \in E
  OBVIOUS
<1> HIDE DEF E
<1>3. /\ es \in Seq(SpecSet)
      /\ \A i \in E : \E k \in DOMAIN es :
            es[k] = entries[i] /\ \A j \in 1..(k - 1) : \E m \in E : m < i /\ es[j] = entries[m]
  <2>1. /\ Picked(entries, E) \in Seq(SpecSet)
        /\ \A i \in E : \E k \in DOMAIN Picked(entries, E) :
              /\ Picked(entries, E)[k] = entries[i]
              /\ \A j \in 1..(k - 1) : \E m \in E : m < i /\ Picked(entries, E)[j] = entries[m]
    <3> HIDE DEF es
    <3> QED BY <1>2, PickedList
  <2> QED BY <2>1
<1> HIDE DEF es
<1>4. DOMAIN es = 1..Len(es) /\ Len(es) \in Nat /\ \A i \in 1..Len(es) : es[i] \in SpecSet
  BY <1>3
<1>5. /\ \A i \in 1..Len(es) : Row(es[i], six) \in RowSet /\ Row(es[i], six).v6 = six
      /\ \A i \in 1..Len(es) : Row(es[i], six).act = es[i].act
  BY <1>4, RowType
<1>6. rows = [i \in 1..Len(es) |-> Row(es[i], six)]
  BY <1>1, <1>4
<1>7. rows \in Seq(RowSet)
  <2> DEFINE e(i) == Row(es[i], six)
  <2>1. rows = [i \in 1..Len(es) |-> e(i)] /\ \A i \in 1..Len(es) : e(i) \in RowSet
    BY <1>5, <1>6
  <2> HIDE DEF e
  <2> QED BY <1>4, <2>1, IsASeq
<1>8. ASSUME NEW x, Early(entries, x), Family(x) = name PROVE Early(rows, Row(x, six))
  <2>1. PICK i \in DOMAIN entries : entries[i] = x /\ \A j \in 1..i : entries[j].act \notin Lets
    BY <1>8 DEF Early
  <2>2. i \in E
    BY <1>2, <1>8, <2>1
  <2>3. PICK k \in DOMAIN es :
           es[k] = entries[i] /\ \A j \in 1..(k - 1) : \E m \in E : m < i /\ es[j] = entries[m]
    BY <1>3, <2>2
  <2>4. k \in 1..Len(es) /\ rows[k] = Row(x, six) /\ k \in DOMAIN rows
    BY <1>4, <1>6, <2>1, <2>3
  <2>5. ASSUME NEW j \in 1..k PROVE rows[j].act \notin Lets
    <3>1. j \in 1..Len(es) /\ rows[j].act = es[j].act
      BY <1>5, <1>6, <2>4
    <3>2. CASE j = k
      <4>1. i \in 1..i
        BY <2>1
      <4> QED BY <2>1, <2>3, <3>1, <3>2, <4>1
    <3>3. CASE j # k
      <4>1. j \in 1..(k - 1)
        BY <2>4, <3>3
      <4>2. PICK m \in E : m < i /\ es[j] = entries[m]
        BY <2>3, <4>1
      <4>3. m \in 1..i
        BY <1>2, <4>2
      <4> QED BY <2>1, <3>1, <4>2, <4>3
    <3> QED BY <3>2, <3>3
  <2> QED BY <2>4, <2>5 DEF Early
<1>9. \A k \in DOMAIN rows : rows[k].v6 = six
  BY <1>5, <1>6
<1> QED BY <1>7, <1>8, <1>9 DEF name, rows

\* Where no rich rule has a negative priority, a deny comes before everything
\* of its family that lets in.
LEMMA ZoneDeny ==
    ASSUME NEW z, IsZone(z), \A i \in DOMAIN z.rich : ~ (z.rich[i].prio < 0),
           NEW x \in SpecSet, HasRich(z, x), x.act = "deny",
           NEW six \in BOOLEAN, Family(x) = IF six THEN "v6" ELSE "v4"
    PROVE  LET s == ZoneRules(z)
           IN  /\ s \in Seq(RowSet)
               /\ \E at \in DOMAIN s : /\ s[at] = Row(x, six)
                                       /\ \A j \in DOMAIN s : j < at /\ s[j].v6 = six => s[j].act \notin Lets
<1> DEFINE P == Riches(z, "pre")
           D == Riches(z, "deny")
           A == Riches(z, "allow")
           Q == Riches(z, "post")
           rows(i) == serviceRows(z, Spec0, z.services[i])
           ss == [i \in DOMAIN z.services |-> rows(i)]
           services == FlattenSeq(ss)
           entries == P \o D \o z.ports \o services \o A \o Q
           s == ZoneRules(z)
<1>1. s = RowsOf(entries, FALSE) \o RowsOf(entries, TRUE)
  BY DEF ZoneRules, RowsOf
<1>2. P \in Seq(SpecSet) /\ D \in Seq(SpecSet) /\ A \in Seq(SpecSet) /\ Q \in Seq(SpecSet) /\ z.ports \in Seq(SpecSet)
  <2>1. z.ports \in Seq(SpecSet)
    BY DEF IsZone
  <2> QED BY <2>1, RichesRows
<1>3. services \in Seq(SpecSet)
  <2>1. z.services \in Seq(Names)
    BY DEF IsZone
  <2>2. \A i \in 1..Len(z.services) : rows(i) \in Seq(SpecSet)
    <3> TAKE i \in 1..Len(z.services)
    <3> DEFINE svc == z.services[i]
    <3>1. svc \in Names
      BY <2>1
    <3> HIDE DEF svc
    <3>2. serviceRows(z, Spec0, svc) \in Seq(SpecSet)
      BY <3>1, Spec0Type, ServiceRows
    <3> QED BY <3>2 DEF svc
  <2>3. ss = [i \in 1..Len(z.services) |-> rows(i)] /\ Len(z.services) \in Nat
    BY <2>1
  <2> HIDE DEF rows, ss
  <2>4. ss \in Seq(Seq(SpecSet))
    BY <2>2, <2>3, IsASeq
  <2> QED BY <2>4, Flattened
<1>4. Early(D, x)
  <2>1. PICK i \in DOMAIN z.rich : z.rich[i] = RichOf(x)
    BY DEF HasRich, Holds
  <2>2. z.rich[i].prio = 0 /\ z.rich[i].service = Zero /\ z.rich[i].spec = x
    BY <2>1 DEF RichOf
  <2>3. Group(z.rich[i]) = "deny"
    BY <2>2 DEF Group, Lets
  <2>4. Holds(D, x)
    BY <2>2, <2>3, RichesRows
  <2>5. \A k \in DOMAIN D : D[k].act \notin Lets
    <3> TAKE k \in DOMAIN D
    <3>1. PICK j \in DOMAIN z.rich : Group(z.rich[j]) = "deny" /\ D[k].act = z.rich[j].spec.act
      BY RichesRows
    <3>2. z.rich[j].prio \in Int
      <4>1. z.rich \in Seq(RichSet)
        BY DEF IsZone, RichSet
      <4>2. z.rich[j] \in RichSet
        BY <4>1
      <4> QED BY <4>2 DEF RichSet
    <3>3. z.rich[j].prio < 0 \/ z.rich[j].prio > 0 \/ z.rich[j].prio = 0
      BY <3>2
    <3>4. z.rich[j].spec.act \notin Lets
      BY <3>1, <3>2, <3>3 DEF Group
    <3> QED BY <3>1, <3>4
  <2>6. PICK k \in DOMAIN D : D[k] = x
    BY <2>4 DEF Holds
  <2>7. \A j \in 1..k : j \in DOMAIN D
    BY <1>2
  <2> HIDE DEF D
  <2> QED BY <2>5, <2>6, <2>7 DEF Early
<1>5. P = << >>
  <2>1. DOMAIN P = {}
    <3> SUFFICES ASSUME NEW k \in DOMAIN P PROVE FALSE
      OBVIOUS
    <3>1. PICK j \in DOMAIN z.rich : Group(z.rich[j]) = "pre"
      BY RichesRows
    <3>2. z.rich[j].prio \in Int /\ ~ (z.rich[j].prio < 0)
      <4>1. z.rich \in Seq(RichSet)
        BY DEF IsZone, RichSet
      <4>2. z.rich[j] \in RichSet
        BY <4>1
      <4> QED BY <4>2 DEF RichSet
    <3>3. Group(z.rich[j]) \in { "post", "allow", "deny" }
      BY <3>2 DEF Group
    <3> QED BY <3>1, <3>3
  <2> HIDE DEF P
  <2> QED BY <1>2, <2>1, EmptySeq
<1> HIDE DEF P, D, A, Q, services
<1>6. entries \in Seq(SpecSet) /\ Early(entries, x)
  <2>1. P \o D = D
    BY <1>2, <1>5
  <2>2. D \o z.ports \in Seq(SpecSet) /\ Early(D \o z.ports, x)
    BY <1>2, <1>4, EarlyStays
  <2> DEFINE a == D \o z.ports
  <2> HIDE DEF a
  <2>3. a \o services \in Seq(SpecSet) /\ Early(a \o services, x)
    <3>1. a \in Seq(SpecSet) /\ services \in Seq(SpecSet) /\ Early(a, x)
      BY <1>3, <2>2 DEF a
    <3> QED BY <3>1, EarlyStays
  <2> DEFINE b == a \o services
  <2> HIDE DEF b
  <2>4. b \o A \in Seq(SpecSet) /\ Early(b \o A, x)
    <3>1. b \in Seq(SpecSet) /\ A \in Seq(SpecSet) /\ Early(b, x)
      BY <1>2, <2>3 DEF b
    <3> QED BY <3>1, EarlyStays
  <2> DEFINE c == b \o A
  <2> HIDE DEF c
  <2>5. c \o Q \in Seq(SpecSet) /\ Early(c \o Q, x)
    <3>1. c \in Seq(SpecSet) /\ Q \in Seq(SpecSet) /\ Early(c, x)
      BY <1>2, <2>4 DEF c
    <3> QED BY <3>1, EarlyStays
  <2>6. entries = c \o Q
    BY <2>1 DEF a, b, c
  <2> QED BY <2>5, <2>6
<1> HIDE DEF entries
<1> DEFINE f == RowsOf(entries, FALSE)
           t == RowsOf(entries, TRUE)
<1>7. /\ f \in Seq(RowSet) /\ t \in Seq(RowSet)
      /\ \A k \in DOMAIN f : f[k].v6 = FALSE
      /\ \A k \in DOMAIN t : t[k].v6 = TRUE
      /\ ~ six => Early(f, Row(x, FALSE))
      /\ six => Early(t, Row(x, TRUE))
  BY <1>6, RowsOfType
<1> HIDE DEF f, t
<1>8. s \in Seq(RowSet) /\ s = f \o t
  <2>1. s = f \o t
    BY <1>1 DEF f, t
  <2> HIDE DEF s
  <2> QED BY <1>7, <2>1
<1> HIDE DEF s
<1>9. CASE ~ six
  <2>1. PICK at \in DOMAIN f : f[at] = Row(x, FALSE) /\ \A j \in 1..at : f[j].act \notin Lets
    BY <1>7, <1>9 DEF Early
  <2>2. at \in DOMAIN s /\ \A j \in 1..at : s[j] = f[j]
    BY <1>7, <1>8
  <2>3. \A j \in DOMAIN s : j < at => j \in 1..at
    BY <1>8, <2>2
  <2>4. at \in 1..at
    BY <1>7
  <2>5. six = FALSE
    BY <1>9
  <2> QED BY <1>8, <2>1, <2>2, <2>3, <2>4, <2>5 DEF s
<1>10. CASE six
  <2>1. PICK k \in DOMAIN t : t[k] = Row(x, TRUE) /\ \A j \in 1..k : t[j].act \notin Lets
    BY <1>7, <1>10 DEF Early
  <2> DEFINE at == Len(f) + k
  <2>2. at \in DOMAIN s /\ s[at] = t[k] /\ Len(f) \in Nat
    BY <1>7, <1>8
  <2>3. ASSUME NEW j \in DOMAIN s, j < at, s[j].v6 = TRUE PROVE s[j].act \notin Lets
    <3>1. j \in Nat /\ j >= 1 /\ j <= Len(f) + Len(t)
      BY <1>7, <1>8
    <3>2. ~ (j <= Len(f))
      <4> SUFFICES ASSUME j <= Len(f) PROVE FALSE
        OBVIOUS
      <4>1. j \in DOMAIN f /\ s[j] = f[j]
        BY <1>7, <1>8, <3>1
      <4> QED BY <1>7, <2>3, <4>1
    <3>3. j - Len(f) \in 1..k /\ s[j] = t[j - Len(f)]
      BY <1>7, <1>8, <2>3, <3>1, <3>2
    <3> QED BY <2>1, <3>3
  <2>4. six = TRUE
    BY <1>10
  <2> HIDE DEF at
  <2> QED BY <1>8, <2>1, <2>2, <2>3, <2>4 DEF s
<1> QED BY <1>9, <1>10

-----------------------------------------------------------------------------
(* A planned deny denies, on firewalld.                                    *)

\* The firewall is a firewalld zone.
FwdNow(f) == f = [kind |-> "firewalld", zone |-> f.zone, policy |-> f.policy] /\ IsZone(f.zone)

\* A plan is a list of changes, and a deny's the one for its spec on a reading.
FwdReq(req) ==
    /\ ~ req.restore /\ req.plan \in Seq(ChangeSet)
    /\ req.what = "fw_deny" =>
           \E added, rules, specs : PlanOf(req.plan, added, rules, specs, v6ok) /\ OneSource(specs[1])

\* A plan whose Yes was accepted, and the zone it runs on.
RunningFwd(r) ==
    /\ r = [step |-> r.step, req |-> r.req, before |-> r.before, snap |-> r.snap, foreign |-> r.foreign]
    /\ FwdNow(r.snap) /\ FwdReq(r.req)

\* The zone, and the plans kept and running, on firewalld.
FwdTyped ==
    /\ FwdNow(fw)
    /\ \A k \in DOMAIN plans : FwdReq(plans[k])
    /\ running = Idle \/ RunningFwd(running)
    /\ trial = Idle \/ FwdNow(trial.snap)

\* At the start the zone is one of the known and nothing is planned.
LEMMA InitFwdTyped == Init /\ fw.kind = "firewalld" => FwdTyped
<1> SUFFICES ASSUME Init, fw.kind = "firewalld" PROVE FwdTyped
  OBVIOUS
<1>1. FwdNow(fw)
  <2>1. PICK zone \in Zones : fw = Fwd(zone)
    BY DEF Init, Ufw
  <2>2. IsZone(zone)
    BY FirewallAssumption
  <2>3. fw = [kind |-> "firewalld", zone |-> zone, policy |-> zone.policy]
    BY <2>1 DEF Fwd
  <2> QED BY <2>2, <2>3 DEF FwdNow
<1>2. DOMAIN plans = {} /\ running = Idle /\ trial = Idle
  BY DEF Init
<1> QED BY <1>1, <1>2 DEF FwdTyped

\* The change is the zone's own.
LEMMA AppliedFwd ==
    ASSUME NEW f, FwdNow(f), NEW plan \in Seq(ChangeSet)
    PROVE  /\ FwdNow(Applied(f, plan))
           /\ Applied(f, plan).kind = "firewalld" /\ Applied(f, plan).zone = FwdApply(f.zone, plan)
<1> DEFINE z == FwdApply(f.zone, plan)
<1>1. f = [kind |-> "firewalld", zone |-> f.zone, policy |-> f.policy] /\ IsZone(f.zone)
  BY DEF FwdNow
<1>2. IsZone(z)
  <2> DEFINE y == f.zone
  <2>1. IsZone(y)
    BY <1>1
  <2> HIDE DEF y
  <2>2. FwdApply(y, plan) \in ZonesLike(y)
    BY <2>1, FwdApplySteps
  <2>3. IsZone(FwdApply(y, plan))
    BY <2>1, <2>2, ZoneLike
  <2> QED BY <2>3 DEF y
<1>3. Applied(f, plan) = [f EXCEPT !.zone = z]
  BY <1>1 DEF Applied
<1> HIDE DEF z
<1>4. Applied(f, plan) = [kind |-> "firewalld", zone |-> z, policy |-> f.policy]
  BY <1>1, <1>3
<1> QED BY <1>2, <1>4 DEF FwdNow, z

\* What is read of a zone that can be deleted by spec.
LEMMA FwdAdded ==
    ASSUME NEW f, FwdNow(f)
    PROVE  Added(f) \in Seq(SpecSet)
<1> DEFINE z == f.zone
           E == { i \in DOMAIN z.rich : z.rich[i].plain }
           plain == Picked(z.rich, E)
           a(i) == [Spec0 EXCEPT !.app = z.services[i]]
           b(i) == plain[i].spec
           services == [i \in DOMAIN z.services |-> a(i)]
           rich == [i \in DOMAIN plain |-> b(i)]
<1>1. Added(f) = z.ports \o services \o rich
  <2>1. f.kind = "firewalld"
    BY DEF FwdNow
  <2> QED BY <2>1 DEF Added, ZoneSpecs
<1>2. z.ports \in Seq(SpecSet) /\ z.services \in Seq(Names) /\ z.rich \in Seq(RichSet)
  BY DEF FwdNow, IsZone, RichSet
<1> HIDE DEF z
<1>3. services \in Seq(SpecSet)
  <2>1. Len(z.services) \in Nat /\ DOMAIN z.services = 1..Len(z.services)
        /\ \A i \in 1..Len(z.services) : z.services[i] \in Names
    BY <1>2
  <2>2. \A svc \in Names : [Spec0 EXCEPT !.app = svc] \in SpecSet
    BY Spec0Type DEF SpecSet
  <2>3. \A i \in 1..Len(z.services) : a(i) \in SpecSet
    BY <2>1, <2>2
  <2>4. services = [i \in 1..Len(z.services) |-> a(i)]
    BY <2>1
  <2> HIDE DEF a, services
  <2> QED BY <2>1, <2>3, <2>4, IsASeq
<1>4. rich \in Seq(SpecSet)
  <2>1. E \subseteq DOMAIN z.rich
    OBVIOUS
  <2> HIDE DEF E
  <2>2. plain \in Seq(RichSet)
    BY <1>2, <2>1, PickedList
  <2> HIDE DEF plain
  <2>3. Len(plain) \in Nat /\ DOMAIN plain = 1..Len(plain) /\ \A i \in 1..Len(plain) : plain[i] \in RichSet
    BY <2>2
  <2>4. \A i \in 1..Len(plain) : b(i) \in SpecSet
    BY <2>3 DEF RichSet
  <2>5. rich = [i \in 1..Len(plain) |-> b(i)]
    BY <2>3
  <2> HIDE DEF b, rich
  <2> QED BY <2>3, <2>4, <2>5, IsASeq
<1> HIDE DEF services, rich
<1> QED BY <1>1, <1>2, <1>3, <1>4

\* What planning leaves: the plan it adds is one for its request.
LEMMA OfferFwdTyped ==
    ASSUME FwdTyped, UNCHANGED << fw, v6ok, running, trial >>,
           NEW what, NEW plan \in Seq(ChangeSet), NEW after, Offer(what, plan, after, FALSE),
           what = "fw_deny" =>
               \E added, rules, specs : PlanOf(plan, added, rules, specs, v6ok) /\ OneSource(specs[1])
    PROVE  FwdTyped'
<1> DEFINE req == [what |-> what, kind |-> fw.kind, plan |-> plan, restore |-> FALSE,
                   base |-> fwGen(fw), after |-> after, expires |-> now + TTL]
<1>1. plans' = Put(req)
  BY DEF Offer
<1>2. req.what = what /\ req.plan = plan /\ req.restore = FALSE
  OBVIOUS
<1> HIDE DEF req
<1>3. FwdReq(req)
  BY <1>2 DEF FwdReq
<1>4. \A k \in DOMAIN plans' : FwdReq(plans'[k])
  <2> TAKE k \in DOMAIN plans'
  <2>1. plans'[k] = req \/ (k \in DOMAIN plans /\ plans'[k] = plans[k])
    BY <1>1 DEF Put
  <2> QED BY <1>3, <2>1 DEF FwdTyped
<1>5. (\A k \in DOMAIN plans : FwdReq(plans[k]))'
  BY <1>4 DEF FwdReq
<1>6. FwdNow(fw)' /\ (running = Idle \/ RunningFwd(running))' /\ (trial = Idle \/ FwdNow(trial.snap))'
  BY DEF FwdTyped, FwdNow, RunningFwd, FwdReq, Idle
<1> QED BY <1>5, <1>6 DEF FwdTyped

\* The plans kept are as before.
LEMMA FwdPlansKept ==
    ASSUME FwdTyped, v6ok' = v6ok, \A k \in DOMAIN plans' : k \in DOMAIN plans /\ plans'[k] = plans[k]
    PROVE  (\A k \in DOMAIN plans : FwdReq(plans[k]))'
<1>1. \A k \in DOMAIN plans' : FwdReq(plans'[k])
  BY DEF FwdTyped
<1> QED BY <1>1 DEF FwdReq

\* Every step keeps what is said of firewalld.
LEMMA NextFwdTyped == GuardedTrial /\ FwdTyped /\ [Next]_vars => FwdTyped'
<1> SUFFICES ASSUME GuardedTrial, FwdTyped, [Next]_vars PROVE FwdTyped'
  OBVIOUS
<1>0. FwdNow(fw) /\ fw.kind = "firewalld" /\ Added(fw) \in Seq(SpecSet)
  <2>1. FwdNow(fw) /\ fw.kind = "firewalld"
    BY DEF FwdTyped, FwdNow
  <2> QED BY <2>1, FwdAdded
<1>1. ASSUME NEW request \in Requests, PlanSpecs(request) PROVE FwdTyped'
  <2> DEFINE a == Added(fw)
             rs == Status(fw).rules
             p == planSpecs(a, rs, request.specs, v6ok).plan
  <2>1. UNCHANGED << fw, v6ok, running, trial >> /\ Offer(request.cmd, p, Simulated(p), FALSE)
    BY <1>1 DEF PlanSpecs, Ask
  <2>2. /\ request.specs \in Seq(SpecSet) /\ a \in Seq(SpecSet)
        /\ request.cmd = "fw_deny" => Len(request.specs) = 1 /\ OneSource(request.specs[1])
    BY <1>0, FirewallAssumption
  <2> HIDE DEF a, rs
  <2>3. p \in Seq(ChangeSet)
    BY <2>2, PlanSpecsType
  <2>4. request.cmd = "fw_deny" =>
           \E added, rules, specs : PlanOf(p, added, rules, specs, v6ok) /\ OneSource(specs[1])
    <3> SUFFICES ASSUME request.cmd = "fw_deny"
                 PROVE  \E added, rules, specs : PlanOf(p, added, rules, specs, v6ok) /\ OneSource(specs[1])
      OBVIOUS
    <3>1. PlanOf(p, a, rs, request.specs, v6ok) /\ OneSource(request.specs[1])
      BY <2>2 DEF PlanOf
    <3> HIDE DEF p
    <3> QED BY <3>1
  <2> HIDE DEF p
  <2> QED BY <2>1, <2>3, <2>4, OfferFwdTyped
<1>2. ASSUME NEW i, PlanDelete(i) PROVE FwdTyped'
  <2> DEFINE spec == specFor(Status(fw).rules[i], Added(fw))
             p == << Change("delete", spec) >>
  <2>1. UNCHANGED << fw, v6ok, running, trial >> /\ spec # NoRule /\ Offer("delete", p, Simulated(p), FALSE)
    BY <1>2 DEF PlanDelete, Ask
  <2>2. spec \in SpecSet
    BY <1>0, <2>1, SpecForType
  <2> HIDE DEF spec
  <2>3. p \in Seq(ChangeSet)
    BY <2>2, OneChange
  <2> HIDE DEF p
  <2> QED BY <2>1, <2>3, OfferFwdTyped
<1>3. \A snap : ~ PlanRestore(snap)
  BY <1>0 DEF PlanRestore
<1>4. ASSUME NEW k \in DOMAIN plans, RunPlan(k) PROVE FwdTyped'
  <2>1. UNCHANGED << fw, v6ok, trial >> /\ \A j \in DOMAIN plans' : j \in DOMAIN plans /\ plans'[j] = plans[j]
    BY <1>4 DEF RunPlan, Without
  <2> DEFINE q == plans[k]
             r == [step |-> "ready", req |-> q, before |-> fw, snap |-> fw, foreign |-> FALSE]
  <2>2. running' = Idle \/ running' = r
    BY <1>4 DEF RunPlan
  <2>3. FwdReq(q)
    BY DEF FwdTyped
  <2> HIDE DEF q
  <2>4. /\ r.req = q /\ r.snap = fw
        /\ r = [step |-> r.step, req |-> r.req, before |-> r.before, snap |-> r.snap, foreign |-> r.foreign]
    OBVIOUS
  <2> HIDE DEF r
  <2>5. RunningFwd(r)
    BY <1>0, <2>3, <2>4 DEF RunningFwd
  <2>6. (running = Idle \/ RunningFwd(running))'
    BY <2>1, <2>2, <2>5 DEF RunningFwd, FwdNow, FwdReq, Idle
  <2>7. (\A j \in DOMAIN plans : FwdReq(plans[j]))'
    BY <2>1, FwdPlansKept
  <2> QED BY <2>1, <2>6, <2>7 DEF FwdTyped, FwdNow, Idle
<1>5. ASSUME ApplyPlan PROVE FwdTyped'
  <2>1. RunningFwd(running)
    BY <1>5, NotIdle DEF ApplyPlan, FwdTyped
  <2>2. FwdNow(fw)'
    <3> DEFINE p == running.req.plan
    <3>1. fw' = Applied(fw, p) /\ p \in Seq(ChangeSet)
      BY <1>5, <2>1 DEF ApplyPlan, RunningFwd, FwdReq
    <3> HIDE DEF p
    <3>2. FwdNow(Applied(fw, p))
      BY <1>0, <3>1, AppliedFwd
    <3> QED BY <3>1, <3>2 DEF FwdNow
  <2>3. /\ v6ok' = v6ok /\ plans' = plans /\ trial' = trial
        /\ running' = [running EXCEPT !.step = "changed", !.snap = fw]
    BY <1>5 DEF ApplyPlan
  <2>4. running' = [step |-> "changed", req |-> running.req, before |-> running.before,
                    snap |-> fw, foreign |-> running.foreign]
    <3>1. running = [step |-> running.step, req |-> running.req, before |-> running.before,
                     snap |-> running.snap, foreign |-> running.foreign]
      BY <2>1 DEF RunningFwd
    <3> QED BY <2>3, <3>1
  <2>5. /\ running' = [step |-> running'.step, req |-> running'.req, before |-> running'.before,
                       snap |-> running'.snap, foreign |-> running'.foreign]
        /\ running'.req = running.req /\ running'.snap = fw
    BY <2>4
  <2>6. RunningFwd(running)'
    BY <1>0, <2>1, <2>3, <2>5 DEF RunningFwd, FwdReq, FwdNow
  <2>7. (\A j \in DOMAIN plans : FwdReq(plans[j]))'
    BY <2>3, FwdPlansKept
  <2> QED BY <2>2, <2>3, <2>6, <2>7 DEF FwdTyped, FwdNow, Idle
<1>6. ASSUME VerifyPlan PROVE FwdTyped'
  <2>1. FwdNow(running.snap)
    BY <1>6, NotIdle DEF VerifyPlan, FwdTyped, RunningFwd
  <2>2. /\ fw' \in { fw, running.snap } /\ running' = Idle /\ v6ok' = v6ok /\ plans' = plans
        /\ trial' = Idle \/ trial'.snap = running.snap
    BY <1>6 DEF VerifyPlan
  <2>3. (\A j \in DOMAIN plans : FwdReq(plans[j]))'
    BY <2>2, FwdPlansKept
  <2> QED BY <1>0, <2>1, <2>2, <2>3 DEF FwdTyped, FwdNow, Idle
<1>7. ASSUME EndTrial PROVE FwdTyped'
  <2>1. FwdNow(trial.snap) /\ running = Idle
    BY <1>7, NotIdle DEF EndTrial, FwdTyped, GuardedTrial
  <2>2. fw' \in { fw, trial.snap } /\ trial' = Idle /\ v6ok' = v6ok /\ plans' = plans /\ running' = running
    BY <1>7 DEF EndTrial
  <2>3. (\A j \in DOMAIN plans : FwdReq(plans[j]))'
    BY <2>2, FwdPlansKept
  <2> QED BY <1>0, <2>1, <2>2, <2>3 DEF FwdTyped, FwdNow, Idle
<1>8. ASSUME ForeignEdit PROVE FwdTyped'
  <2>1. PICK spec \in Edits, op \in { "insert", "delete" } : fw' = Applied(fw, << Change(op, spec) >>)
    BY <1>8 DEF ForeignEdit
  <2>2. FwdNow(fw)'
    <3> DEFINE p == << Change(op, spec) >>
    <3>1. spec \in SpecSet
      BY FirewallAssumption
    <3>2. p \in Seq(ChangeSet)
      BY <3>1, OneChange
    <3> HIDE DEF p
    <3>3. FwdNow(Applied(fw, p))
      BY <1>0, <3>2, AppliedFwd
    <3>4. fw' = Applied(fw, p)
      BY <2>1 DEF p
    <3> QED BY <3>3, <3>4 DEF FwdNow
  <2>3. /\ v6ok' = v6ok /\ plans' = plans /\ trial' = trial
        /\ running' = IF running = Idle THEN Idle ELSE [running EXCEPT !.foreign = TRUE]
    BY <1>8 DEF ForeignEdit
  <2>4. (running = Idle \/ RunningFwd(running))'
    <3>1. CASE running = Idle
      BY <2>3, <3>1 DEF Idle
    <3>2. CASE running # Idle
      <4>1. RunningFwd(running)
        BY <3>2 DEF FwdTyped
      <4>2. running = [step |-> running.step, req |-> running.req, before |-> running.before,
                       snap |-> running.snap, foreign |-> running.foreign]
        BY <4>1 DEF RunningFwd
      <4>3. running' = [running EXCEPT !.foreign = TRUE]
        BY <2>3, <3>2
      <4>4. running' = [step |-> running.step, req |-> running.req, before |-> running.before,
                        snap |-> running.snap, foreign |-> TRUE]
        BY <4>2, <4>3
      <4>5. /\ running' = [step |-> running'.step, req |-> running'.req, before |-> running'.before,
                           snap |-> running'.snap, foreign |-> running'.foreign]
            /\ running'.req = running.req /\ running'.snap = running.snap
        BY <4>4
      <4>6. RunningFwd(running)'
        BY <2>3, <4>1, <4>5 DEF RunningFwd, FwdReq, FwdNow
      <4> QED BY <4>6
    <3> QED BY <3>1, <3>2
  <2>5. (\A j \in DOMAIN plans : FwdReq(plans[j]))'
    BY <2>3, FwdPlansKept
  <2> QED BY <2>2, <2>3, <2>4, <2>5 DEF FwdTyped, FwdNow, Idle
<1>9. ASSUME Login \/ Tick \/ UNCHANGED vars PROVE FwdTyped'
  <2>1. UNCHANGED << fw, v6ok, plans, running, trial >>
    BY <1>9 DEF Login, Tick, vars
  <2>2. (\A j \in DOMAIN plans : FwdReq(plans[j]))'
    BY <2>1, FwdPlansKept
  <2> QED BY <2>1, <2>2 DEF FwdTyped, FwdNow, RunningFwd, FwdReq, Idle
<1> QED BY <1>1, <1>2, <1>3, <1>4, <1>5, <1>6, <1>7, <1>8, <1>9 DEF Next

\* On firewalld a planned deny denies: its rich rule comes before what lets in.
LEMMA DenyHoldsFwd == FwdTyped => DenyHolds
<1> SUFFICES ASSUME FwdTyped, NEW k \in DOMAIN plans, plans[k].what = "fw_deny",
                    ~ (Applied(fw, plans[k].plan).kind = "firewalld" /\
                       \E j \in DOMAIN Applied(fw, plans[k].plan).zone.rich :
                           Applied(fw, plans[k].plan).zone.rich[j].prio < 0),
                    NEW i \in DOMAIN plans[k].plan, plans[k].plan[i].op # "delete",
                    plans[k].plan[i].spec.proto \in { Zero, "tcp" },
                    NEW peer \in plans[k].plan[i].spec.from, NEW port \in SSHPorts,
                    coversPort(plans[k].plan[i].spec, port), NEW hits
             PROVE  ~ Accepts(Status(Applied(fw, plans[k].plan)), port, peer, hits)
  BY Zenon DEF DenyHolds
<1> DEFINE p == plans[k].plan
           f == Applied(fw, p)
<1>1. FwdReq(plans[k]) /\ p \in Seq(ChangeSet)
  BY DEF FwdTyped, FwdReq
<1>2. PICK added, rules, specs : PlanOf(p, added, rules, specs, v6ok) /\ OneSource(specs[1])
  BY <1>1 DEF FwdReq
<1>3. /\ i \in DOMAIN p /\ p[i].op # "delete" /\ p[i].spec.proto \in { Zero, "tcp" } /\ peer \in p[i].spec.from
      /\ coversPort(p[i].spec, port)
      /\ ~ (f.kind = "firewalld" /\ \E j \in DOMAIN f.zone.rich : f.zone.rich[j].prio < 0)
  OBVIOUS
<1> HIDE DEF p, f
<1> DEFINE spec == specs[1]
           y == fw.zone
           z == FwdApply(y, p)
<1>4. IsZone(y) /\ FwdNow(fw)
  BY DEF FwdTyped, FwdNow
<1>5. f.kind = "firewalld" /\ f.zone = z
  BY <1>1, <1>4, AppliedFwd DEF f
<1>6. p[i].spec = spec /\ i = Len(p) /\ Len(p) > 0 /\ p[i] \in ChangeSet
  <2>1. p[i].spec = specs[1] /\ i = Len(p)
    BY <1>2, <1>3, AddedLast
  <2> QED BY <1>1, <1>3, <2>1
<1>7. /\ spec \in SpecSet /\ OneSource(spec) /\ spec.proto \in { Zero, "tcp" }
      /\ peer \in spec.from /\ coversPort(spec, port)
  <2>1. spec \in SpecSet
    BY <1>6 DEF ChangeSet
  <2> QED BY <1>2, <1>3, <1>6, <2>1
<1> HIDE DEF spec, y, z
<1>8. IsZone(z) /\ DenyRich(z, spec)
  <2>1. z \in ZonesLike(y)
    BY <1>1, <1>4, FwdApplySteps DEF z
  <2>2. PICK w \in ZonesLike(y) : z = FwdChange(w, p[i])
    BY <1>1, <1>4, <1>6, FwdApplySteps DEF z
  <2> DEFINE c == p[i]
  <2>3. c \in ChangeSet /\ c.spec = spec /\ c.op # "delete"
    BY <1>3, <1>6
  <2>4. c.spec.app = Zero /\ c.spec.act # "allow"
    BY <1>7, <2>3 DEF OneSource
  <2> HIDE DEF c
  <2>5. DenyRich(FwdChange(w, c), c.spec)
    BY <2>3, <2>4, FwdChangeType
  <2>6. IsZone(z)
    BY <1>4, <2>1, ZoneLike
  <2> QED BY <2>2, <2>3, <2>5, <2>6 DEF c
<1>9. PICK x \in SpecSet : HasRich(z, x) /\ \/ x = spec
                                            \/ spec.proto = Zero /\ x = [spec EXCEPT !.proto = "tcp"]
  BY <1>8 DEF DenyRich
<1>10. /\ x.act = spec.act /\ x.dir = spec.dir /\ x.only = spec.only /\ x.app = spec.app /\ x.from = spec.from
       /\ x.ports = spec.ports /\ x.proto \in { Zero, "tcp" }
  BY <1>7, <1>9 DEF SpecSet
<1>11. /\ OneSource(x) /\ peer \in x.from /\ coversPort(x, port) /\ x.act = "deny"
  BY <1>7, <1>10 DEF OneSource, coversPort
<1> DEFINE six == (Family(x) = "v6")
           b == six
<1>12. b \in BOOLEAN /\ Family(x) = (IF b THEN "v6" ELSE "v4") /\ Is6(peer) = b
  <2>1. b = six
    OBVIOUS
  <2> HIDE DEF b
  <2>2. x.from # {}
    BY <1>11
  <2> QED BY <1>11, <2>1, <2>2, OneFamily
<1> HIDE DEF b
<1> DEFINE s == ZoneRules(z)
<1>13. /\ s \in Seq(RowSet)
       /\ \E at \in DOMAIN s : /\ s[at] = Row(x, b)
                               /\ \A j \in DOMAIN s : j < at /\ s[j].v6 = b => s[j].act \notin Lets
  <2>1. \A j \in DOMAIN z.rich : ~ (z.rich[j].prio < 0)
    BY <1>3, <1>5
  <2> QED BY <1>8, <1>9, <1>11, <1>12, <2>1, ZoneDeny
<1> DEFINE st == Status(f)
<1>14. st.rules = s
  BY <1>5 DEF Status
<1> HIDE DEF st, s
<1>15. PICK at \in DOMAIN s : /\ s[at] = Row(x, b)
                              /\ \A j \in DOMAIN s : j < at /\ s[j].v6 = b => s[j].act \notin Lets
  BY <1>13
<1>16. ~ Accepts(st, port, peer, hits)
  <2>1. s[at] = Row(x, Is6(peer)) /\ \A j \in DOMAIN s : j < at /\ s[j].v6 = Is6(peer) => s[j].act \notin Lets
    BY <1>12, <1>15
  <2> QED BY <1>10, <1>11, <1>13, <1>14, <2>1, DenyDecides
<1> QED BY <1>16 DEF st, f, p

\* A planned deny denies by SSH, for every rule list of ufw and every zone of
\* firewalld without a rich rule of negative priority, whatever other tools did
\* since that left the rules as they were: the deletions of planSpecs, simulate
\* and the place of the new row on ufw, fwdZone.status's order on firewalld.
THEOREM DenyHoldsCorrect == Spec => []DenyHolds
<1>1. Init => fw.kind = "ufw" \/ fw.kind = "firewalld"
  BY DEF Init, Ufw, Fwd
<1>2. fw.kind = "ufw" /\ Spec => []DenyHolds
  <2>1. fw.kind = "ufw" /\ Spec => [](GuardedTrial /\ ShownInv /\ UfwTyped)
    BY InitGuarded, NextGuarded, InitShown, NextShown, InitUfwTyped, NextUfwTyped, PTL DEF Spec
  <2> QED BY <2>1, DenyHoldsUfw, PTL
<1>3. fw.kind = "firewalld" /\ Spec => []DenyHolds
  <2>1. fw.kind = "firewalld" /\ Spec => [](GuardedTrial /\ FwdTyped)
    BY InitGuarded, NextGuarded, InitFwdTyped, NextFwdTyped, PTL DEF Spec
  <2> QED BY <2>1, DenyHoldsFwd, PTL
<1> QED BY <1>1, <1>2, <1>3, PTL DEF Spec
=============================================================================
