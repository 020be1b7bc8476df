------------------------------ MODULE FwPlans ------------------------------
(* The planned firewall changes: a command, a button or a snapshot becomes *)
(* a plan on a fresh reading, guarded, shown as a diff and kept under its  *)
(* token; its Yes runs it on another fresh reading, and the rules read     *)
(* back decide whether the trial goes on (fwplan.go, fwrules.go).          *)
(*                                                                         *)
(* The trial itself, its records, timers and crashes, is FwTrial: here it  *)
(* ends in Keep or in the rules of before. The token is ConfirmTokens.     *)
EXTENDS FwRules

CONSTANTS
    Ufws,       \* rule lists ufw may start with
    Zones,      \* zones firewalld may start with
    Edits,      \* specs that other tools add, or take away again
    Requests,   \* what the user may ask for: [cmd, specs]
    SSHPorts,   \* the ports sshd accepts on (sshPorts)
    MaxRules,   \* fwMaxUserRules
    MaxPlans,   \* fwMaxPlans
    TTL,        \* fwPlanTTL
    MaxTime, MaxEdits, MaxAsked   \* bounds

\* parseFwCommand: a deny is of one source, by address, range of ports and protocol.
OneSource(spec) ==
    /\ spec.act = "deny" /\ spec.dir = "in" /\ spec.only = Zero /\ spec.app = Zero
    /\ spec.from \subseteq V4 \/ spec.from \subseteq V6

ASSUME FirewallAssumption ==
    /\ Ufws \subseteq Seq(RowSet) /\ (\A z \in Zones : IsZone(z)) /\ Edits \subseteq SpecSet
    /\ \A r \in Requests : /\ r.specs \in Seq(SpecSet)
                           /\ r.cmd = "fw_deny" => Len(r.specs) = 1 /\ OneSource(r.specs[1])

Peers == V4 \cup V6

VARIABLES
    fw,         \* the firewall itself: [kind, rules or zone, policy]
    v6ok,       \* whether it keeps IPv6 rules
    peers,      \* hosts of current SSH logins (adminPeers)
    now, edits, asked,
    plans,      \* the pending plans, by number
    running,    \* the plan whose Yes was pressed and how far it got
    trial,      \* the change on trial: rules before, and the peers verified
    snaps       \* snapshots: the rules and specs before each change

vars == << fw, v6ok, peers, now, edits, asked, plans, running, trial, snaps >>

Ufw(rules, policy) == [kind |-> "ufw", rules |-> rules, policy |-> policy]
Fwd(zone) == [kind |-> "firewalld", zone |-> zone, policy |-> zone.policy]

-----------------------------------------------------------------------------
(* What a reading returns.                                                 *)

Status(f) == [rules |-> IF f.kind = "ufw" THEN f.rules ELSE ZoneRules(f.zone), policy |-> f.policy]

\* `ufw show added` lists a rule that is in both families once.
Added(f) ==
    IF f.kind = "firewalld" THEN ZoneSpecs(f.zone)
    ELSE LET twin(r) == r.v6 /\ \E i \in DOMAIN f.rules : f.rules[i] = [r EXCEPT !.v6 = FALSE]
             once == Picked(f.rules, { i \in DOMAIN f.rules : ~ twin(f.rules[i]) })
         IN  [i \in DOMAIN once |-> SpecOf(once[i])]

\* The change itself, as the firewall makes it.
Applied(f, plan) ==
    IF f.kind = "ufw" THEN [f EXCEPT !.rules = simulate(@, plan, v6ok)]
                      ELSE [f EXCEPT !.zone = FwdApply(@, plan)]

\* fwGen: what a plan was made against.
fwGen(f) == Status(f).rules

Idle == [step |-> "no"]

Init ==
    /\ \/ \E rules \in Ufws, policy \in { "allow", "deny" } : fw = Ufw(rules, policy)
       \/ \E zone \in Zones : fw = Fwd(zone)
    /\ v6ok \in BOOLEAN
    /\ fw.kind = "firewalld" \/ hasV6(Status(fw)) => v6ok
    /\ peers \in SUBSET Peers
    /\ now = 0 /\ edits = 0 /\ asked = 0
    /\ plans = << >> /\ running = Idle /\ trial = Idle /\ snaps = << >>

-----------------------------------------------------------------------------
(* Planning: planFor with its builders. A refusal leaves nothing behind.   *)

\* fwPlans.put: expired plans go, then the oldest; a plan's number is its
\* request's, so that the higher is the younger.
Put(req) ==
    LET alive == { i \in DOMAIN plans : now < plans[i].expires }
        kept == { i \in alive : Cardinality({ j \in alive : i < j }) < MaxPlans - 1 }
    IN  [i \in kept \cup { asked + 1 } |-> IF i = asked + 1 THEN req ELSE plans[i]]

\* fwPlans.take
Without(k) == [i \in DOMAIN plans \ { k } |-> plans[i]]

\* The change may be offered: it is one the backend can take, and the guard
\* passes on what it would leave.
Offer(what, plan, after, restore) ==
    /\ restore \/ fw.kind = "ufw" \/ FwdTakesAll(plan)
    /\ ~ sshGuard(Status(fw), after, SSHPorts, peers)
    /\ plans' = Put([what |-> what, kind |-> fw.kind, plan |-> plan, restore |-> restore,
                     base |-> fwGen(fw), after |-> after, expires |-> now + TTL])

Ask == /\ trial = Idle /\ running = Idle      \* FwTrialPending
       /\ asked < MaxAsked /\ asked' = asked + 1
       /\ UNCHANGED << fw, v6ok, peers, now, edits, running, trial, snaps >>

Simulated(plan) == [Status(fw) EXCEPT !.rules = simulate(@, plan, v6ok)]

\* fwCommand and the presets: specsBuild.
PlanSpecs(request) ==
    LET built == planSpecs(Added(fw), Status(fw).rules, request.specs, v6ok)
    IN  /\ Ask
        /\ built.count <= MaxRules /\ built.plan # << >>
        /\ Offer(request.cmd, built.plan, Simulated(built.plan), FALSE)

\* deleteBuild: an incoming rule that has a spec, by its spec.
PlanDelete(i) ==
    LET row == Status(fw).rules[i]
        spec == specFor(row, Added(fw))
        plan == << Change("delete", spec) >>
    IN  /\ Ask
        /\ row.dir = "in" /\ spec # NoRule
        /\ Offer("delete", plan, Simulated(plan), FALSE)

\* restoreBuild: the snapshot's rules under today's policy, on ufw only.
PlanRestore(snap) ==
    /\ Ask
    /\ fw.kind = "ufw" /\ snap.rules # fwGen(fw)
    /\ Offer("restore", restorePlan(Added(fw), snap.added),
             [Status(fw) EXCEPT !.rules = snap.rules], TRUE)

-----------------------------------------------------------------------------
(* Running: runPlan takes the plan, prepares, applies and verifies.        *)

\* Mutant: the rules may be others than the plan was made against.
RunPlanStale(k) ==
    /\ running = Idle /\ trial = Idle
    /\ plans' = Without(k)
    /\ running' = [step |-> "ready", req |-> plans[k], before |-> fw, snap |-> fw, foreign |-> FALSE]
    /\ UNCHANGED << fw, v6ok, peers, now, edits, asked, trial, snaps >>

\* take: the plan leaves the store. It goes on when it has not expired, the
\* rules are the ones it was made against and the guard passes again.
RunPlan(k) ==
    LET req == plans[k]
        st == Status(fw)
        after == IF req.restore THEN req.after ELSE Simulated(req.plan)
    IN  /\ running = Idle
        /\ plans' = IF now < req.expires THEN Without(k) ELSE plans
        /\ running' = IF /\ now < req.expires
                         /\ trial = Idle
                         /\ fw.kind = req.kind /\ fwGen(fw) = req.base
                         /\ ~ sshGuard(st, after, SSHPorts, peers)
                      THEN [step |-> "ready", req |-> req, before |-> fw, snap |-> fw, foreign |-> FALSE]
                      ELSE Idle
        /\ UNCHANGED << fw, v6ok, peers, now, edits, asked, trial, snaps >>

\* Snapshot and record, then the change; a restore writes the snapshot's files.
ApplyPlan ==
    /\ running.step = "ready"
    /\ snaps' = << [rules |-> fwGen(fw), added |-> Added(fw)] >>
    /\ fw' = IF running.req.restore THEN [fw EXCEPT !.rules = running.req.after.rules]
                                    ELSE Applied(fw, running.req.plan)
    /\ running' = [running EXCEPT !.step = "changed", !.snap = fw]
    /\ UNCHANGED << v6ok, peers, now, edits, asked, plans, trial >>

\* The rules read back must pass the guard as well, else they go back at once.
VerifyPlan ==
    /\ running.step = "changed"
    /\ IF sshGuard(Status(running.before), Status(fw), SSHPorts, peers)
       THEN fw' = running.snap /\ trial' = Idle
       ELSE /\ fw' = fw
            /\ trial' = [step |-> "on", was |-> Status(running.before), snap |-> running.snap, peers |-> peers]
    /\ running' = Idle
    /\ UNCHANGED << v6ok, peers, now, edits, asked, plans, snaps >>

\* The trial's end, in short.
EndTrial ==
    /\ trial.step = "on"
    /\ fw' \in { fw, trial.snap }
    /\ trial' = Idle
    /\ UNCHANGED << v6ok, peers, now, edits, asked, plans, running, snaps >>

-----------------------------------------------------------------------------
(* The world.                                                              *)

\* Another tool or a shell adds a rule, or takes it away again.
ForeignEdit ==
    /\ edits < MaxEdits /\ edits' = edits + 1 /\ trial = Idle
    /\ \E spec \in Edits, op \in { "insert", "delete" } : fw' = Applied(fw, << Change(op, spec) >>)
    /\ running' = IF running = Idle THEN Idle ELSE [running EXCEPT !.foreign = TRUE]
    /\ UNCHANGED << v6ok, peers, now, asked, plans, trial, snaps >>

Login ==
    /\ \E p \in Peers \ peers : peers' = peers \cup { p }
    /\ UNCHANGED << fw, v6ok, now, edits, asked, plans, running, trial, snaps >>

Tick ==
    /\ now < MaxTime /\ now' = now + 1
    /\ UNCHANGED << fw, v6ok, peers, edits, asked, plans, running, trial, snaps >>

Next ==
    \/ \E request \in Requests : PlanSpecs(request)
    \/ \E i \in DOMAIN Status(fw).rules : PlanDelete(i)
    \/ \E k \in DOMAIN snaps : PlanRestore(snaps[k])
    \/ \E k \in DOMAIN plans : RunPlan(k)
    \/ ApplyPlan \/ VerifyPlan \/ EndTrial
    \/ ForeignEdit \/ Login \/ Tick

Spec == Init /\ [][Next]_vars

-----------------------------------------------------------------------------
(* What the rules mean. A row that cannot be told from its text matches or *)
(* does not: hits are those that match this connection.                    *)

Uncertain(s) == { r \in { s[i] : i \in DOMAIN s } : unresolved(r) \/ r.only # Zero }

Hit(r, port, peer, hits) ==
    /\ Counts(r, Is6(peer))
    /\ IF unresolved(r) THEN r \in hits
       ELSE Concerns(r, port, peer) /\ (r.only = Zero \/ r \in hits)

Accepts(st, port, peer, hits) ==
    LET M == { i \in DOMAIN st.rules : Hit(st.rules[i], port, peer, hits) }
    IN  IF M = {} THEN st.policy = "allow" ELSE st.rules[First(M)].act \in Lets

-----------------------------------------------------------------------------
(* Properties.                                                             *)

\* A change on trial keeps every SSH connection possible that was: for each peer
\* the guard looked at, whatever the rows it cannot tell match, what the rules
\* let in before the change they let in now (sshGuard at planning, at Yes and on
\* the rules read back, with edits and logins in between).
StaysReachable ==
    trial.step = "on" =>
        \A port \in SSHPorts, peer \in trial.peers :
            \A hits \in SUBSET (Uncertain(trial.was.rules) \cup Uncertain(Status(fw).rules)) :
                Accepts(trial.was, port, peer, hits) => Accepts(Status(fw), port, peer, hits)

\* What a Yes changes is what its confirm screen showed, although others edit
\* the rules between the screen and the Yes and plans wait side by side: on ufw
\* the very list; on firewalld, where rules are ordered by kind, no SSH verdict
\* that was open and shown open is closed.
AsShown ==
    [][running.step = "ready" /\ running'.step = "changed" /\ ~ running.foreign =>
        LET shown == running.req.after
            got == Status(fw')
        IN  IF fw.kind = "ufw" THEN got = shown
            ELSE \A port \in SSHPorts, peer \in Peers :
                    LET in(st) == reachable(Verdict(st, port, Is6(peer), peer))
                    IN  in(Status(fw)) /\ in(shown) => in(got)]_vars

\* A planned deny denies: once made, no rule listed earlier lets the source in
\* by SSH, whatever the rows it cannot tell match, unless it was for UDP. On
\* firewalld a rich rule of negative priority comes before every rule of the agent.
DenyHolds ==
    \A k \in DOMAIN plans :
        LET req == plans[k]
            f == Applied(fw, req.plan)
            hasPre == f.kind = "firewalld" /\ \E i \in DOMAIN f.zone.rich : f.zone.rich[i].prio < 0
        IN  req.what = "fw_deny" /\ req.base = fwGen(fw) /\ ~ hasPre =>
                \A i \in DOMAIN req.plan :
                    LET c == req.plan[i]
                    IN  c.op # "delete" /\ c.spec.proto \in { Zero, "tcp" } =>
                        \A peer \in c.spec.from, port \in SSHPorts :
                            coversPort(c.spec, port) =>
                                \A hits \in SUBSET Uncertain(Status(f).rules) :
                                    ~ Accepts(Status(f), port, peer, hits)
=============================================================================
