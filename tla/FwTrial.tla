------------------------------ MODULE FwTrial ------------------------------
(***************************************************************************)
(* The dead-man switch for firewall changes (internal/agent/fwdeadman.go)  *)
(* over its two backends (fwbackend.go: ufw, fwfirewalld.go: firewalld).   *)
(*                                                                         *)
(* A change runs as a trial: snapshot, record in current.json, arm a       *)
(* systemd timer (layer 1), apply, hash, verify, arm an in-process timer   *)
(* (layer 2).  Keep ends the trial with the new rules; anything else must  *)
(* end it with the old ones: layer 1, layer 2, or the reconciliation at    *)
(* startup (layer 3).                                                      *)
(*                                                                         *)
(* Both backends have two copies of the rules.  `stored` is what survives  *)
(* a reboot (ufw's rule files, firewalld's permanent configuration) and    *)
(* `live` what filters packets now (the kernel tables, firewalld's runtime *)
(* configuration).  They differ in which copy a snapshot and a hash read,  *)
(* and in how changes travel between the two.                              *)
(*                                                                         *)
(* Every operation on a trial holds lockFw (a mutex plus a file lock), so  *)
(* one critical section `cs` is open at a time; crashes, foreign edits,    *)
(* SSH connections and the passing of time interleave with its steps.      *)
(***************************************************************************)
EXTENDS Naturals, Sequences, FiniteSets

CONSTANTS
    Backend,      \* "ufw" or "firewalld"
    Files,        \* the files one rule write replaces, in order
    Direct,       \* whether a ufw command reaches the kernel before a reload
    Foreign,      \* rules other tools add: fail2ban bans, a human's edits
    Conns,        \* SSH connections, by local and peer address and port
    Systemd,      \* whether systemd-run can arm a timer here
    Kinds,        \* what may go wrong in this instance, see AllKinds
    MaxTrials,    \* bound: trials per behaviour
    MaxFaults,    \* bound: failed commands and file operations
    MaxCrashes,   \* bound: killed processes and reboots
    MaxEdits,     \* bound: foreign edits
    KeepSnaps     \* fwKeepSnaps: newest snapshots kept whatever their age

AllKinds ==
    {"snapshot", "save", "remove",       \* file operations in FwDir
     "systemd", "stop", "ss", "lock",    \* systemd-run, systemctl, ss, flock
     "command", "reload", "verify",      \* a trial's own changes
     "hash", "revert", "undo", "restore", \* a rollback's commands and writes
     "commit",                           \* firewall-cmd --permanent
     "crash", "reboot",
     "commitCrash", "restoreCrash"}      \* ... also inside a Keep, a Restore

ASSUME BackendAssumption == Backend \in {"ufw", "firewalld"}
ASSUME FilesAssumption ==
    /\ Files \in Seq(STRING)
    /\ Len(Files) > 0
    /\ Backend = "firewalld" => Len(Files) = 1
ASSUME ForeignAssumption == Foreign \cap {"allow", "deny"} = {}
ASSUME BoundsAssumption ==
    /\ MaxTrials \in Nat \ {0} /\ MaxFaults \in Nat /\ MaxCrashes \in Nat
    /\ MaxEdits \in Nat /\ KeepSnaps \in Nat \ {0}
ASSUME KindsAssumption ==
    Kinds \subseteq AllKinds /\ Systemd \in BOOLEAN /\ Direct \in BOOLEAN

VARIABLES
    stored,   \* rules that survive a reboot, per file
    live,     \* rules that filter packets now, per file
    rec,      \* current.json; NoRec when absent
    snaps,    \* snapshot directories: trial ID -> {} or {rules}
    layer1,   \* systemd rollback timers, per trial ID
    layer2,   \* in-process rollback timers, per trial ID
    late,     \* the pending trial's deadline has passed
    up,       \* the agent process runs
    fwTrial,  \* the agent's handle on the pending trial: its ID, 0 for nil
    buttons,  \* unused Keep and Roll back tokens in the agent's memory
    cs,       \* the critical section under lockFw; Unlocked when free
    conns,    \* established SSH connections
    budget,   \* what is left of the Max bounds
    \* Observed by the properties, never read by a guard:
    agreed,   \* the SSH rules of the last Keep, at first the initial ones
    verified, \* trials whose rules are still the ones verify passed
    kept,     \* trials that ended by Keep
    opened,   \* connections opened since the trial began, and its change
    calm      \* foreign rules added while a complete trial record waited

rules  == <<stored, live>>
timers == <<layer1, layer2>>
ghosts == <<agreed, verified, kept, opened, calm>>
vars   == <<rules, rec, snaps, timers, late, up, fwTrial, buttons, cs, conns,
            budget, ghosts>>

-----------------------------------------------------------------------------
(* Rules, plans and the two backends.                                      *)

SSHRules == {"allow", "deny"}
AllRules == SSHRules \cup Foreign
FileSet  == {Files[i] : i \in DOMAIN Files}
RuleSets == [FileSet -> SUBSET AllRules]
Ids      == 1..MaxTrials

\* The SSH part of a rule set: what plans change and foreign edits do not.
SSHPart(R) == [f \in FileSet |-> R[f] \cap SSHRules]

\* What one command does: change rules in every family (fwChange), rewrite
\* one file from the snapshot, or load the stored rules.
Changes == [op : {"add", "delete"}, rules : SUBSET AllRules]
Ops == Changes \cup [op : {"write"}, file : FileSet] \cup [op : {"reload"}]

Changed(R, c) == [f \in FileSet |-> IF c.op = "delete" THEN R[f] \ c.rules
                                                       ELSE R[f] \cup c.rules]

Delete(R, r) == IF \E f \in FileSet : r \in R[f]
                  THEN << [op |-> "delete", rules |-> {r}] >> ELSE << >>

\* The opposing rule and an existing copy go, then the wanted rule is added.
sshPortPlan(R, open) ==
    LET want    == IF open THEN "allow" ELSE "deny"
        against == IF open THEN "deny" ELSE "allow"
    IN  Delete(R, against) \o Delete(R, want)
            \o << [op |-> "add", rules |-> {want}] >>

\* Mutant: undone in the order it was done.
inverseUnreversed(p) ==
    [k \in 1..Len(p) |->
        [op |-> IF p[k].op = "delete" THEN "add" ELSE "delete",
         rules |-> p[k].rules]]

inverse(p) ==
    [k \in 1..Len(p) |->
        LET c == p[Len(p) + 1 - k]
        IN  [op |-> IF c.op = "delete" THEN "add" ELSE "delete",
             rules |-> c.rules]]

reachable(R) == \A f \in FileSet : "allow" \in R[f] /\ "deny" \notin R[f]
closed(R)    == \A f \in FileSet : "allow" \notin R[f] /\ "deny" \in R[f]

\* What Snapshot and Hash read.
Hash == IF Backend = "ufw" THEN stored ELSE live

\* What Probe shows.  firewalld lists the runtime zone; whether `ufw status`
\* shows the files or the tables is ufw's business, so either may appear.
Probes == IF Backend = "ufw" THEN {stored, live} ELSE {live}

Reload == << [op |-> "reload"] >>

\* Mutant: restored files are not loaded.
RestoreOpsNoReload(pre) ==
    [k \in 1..Len(Files) |-> [op |-> "write", file |-> Files[k]]]

\* The commands of Apply, Revert and Restore.  firewalld's Apply has no
\* reload, and its Restore undoes the differences from the snapshot: the
\* removals, then the additions.
ApplyOps(p)  == IF Backend = "ufw" THEN p \o Reload ELSE p
RevertOps(p) == IF Backend = "ufw" THEN inverse(p) \o Reload ELSE inverse(p)
RestoreOps(pre) ==
    IF Backend = "ufw"
      THEN [k \in 1..Len(Files) |-> [op |-> "write", file |-> Files[k]]] \o Reload
      ELSE LET have == live[Files[1]]
               want == pre[Files[1]]
           IN  << [op |-> "delete", rules |-> have \ want],
                  [op |-> "add", rules |-> want \ have] >>

\* Running one command, with `pre` the snapshot a write copies.  ufw edits
\* its files at once and the kernel's tables then or only at the reload,
\* depending on the host; firewalld edits the runtime configuration only.
Run(c, pre) ==
    CASE c.op = "reload" -> live' = stored /\ UNCHANGED stored
      [] c.op = "write"  -> /\ stored' = [stored EXCEPT ![c.file] = pre[c.file]]
                            /\ UNCHANGED live
      [] OTHER -> IF Backend = "ufw"
                    THEN /\ stored' = Changed(stored, c)
                         /\ live' = IF Direct THEN Changed(live, c) ELSE live
                    ELSE live' = Changed(live, c) /\ UNCHANGED stored

-----------------------------------------------------------------------------
(* Records and the critical section.                                       *)

NoRec == [id |-> 0, open |-> TRUE, plan |-> << >>, layer1 |-> FALSE,
          pre |-> [f \in FileSet |-> {}], post |-> {}, baseline |-> {}]

\* The goroutine or process in the critical section, the step it is at, the
\* commands it still has to run there, whether the changes it made failed,
\* and its copy of the trial record.
Unlocked == [by |-> "none", step |-> "free", ops |-> << >>, failed |-> FALSE,
             rec |-> NoRec]

Free       == cs.step = "free"
At(step)   == cs.step = step
Done       == cs.ops = << >>

LockFor(who, r, step, ops) ==
    cs' = [by |-> who, step |-> step, ops |-> ops, failed |-> FALSE, rec |-> r]
Lock(who, r, step) == LockFor(who, r, step, << >>)
Unlock == cs' = Unlocked

Continue(step, ops, failed, r) ==
    cs' = [cs EXCEPT !.step = step, !.ops = ops, !.failed = failed, !.rec = r]
Goto(step)        == Continue(step, cs.ops, cs.failed, cs.rec)
GotoWith(step, r) == Continue(step, cs.ops, cs.failed, r)
Do(step, ops)     == Continue(step, ops, cs.failed, cs.rec)
Next1             == Do(cs.step, Tail(cs.ops))

\* A command or file operation of this kind fails, or does not.
Fails(kind) ==
    /\ kind \in Kinds
    /\ budget.fault > 0
    /\ budget' = [budget EXCEPT !.fault = @ - 1]
Works == UNCHANGED budget

\* What sshConns lists; nothing when ss fails.
sshConns == {conns} \cup (IF "ss" \in Kinds THEN {{}} ELSE {})

\* stopLayer1: stopping a timer that already fired does nothing.
StopLayer1(r) ==
    \/ /\ Works
       /\ layer1' = IF r.layer1 /\ layer1[r.id] = "armed"
                      THEN [layer1 EXCEPT ![r.id] = "off"] ELSE layer1
    \/ r.layer1 /\ Fails("stop") /\ UNCHANGED layer1

\* stopTrialTimers: only the process that holds the handle can stop them.
StopTrialTimers(id) ==
    IF cs.by = "layer1" \/ fwTrial # id
      THEN UNCHANGED <<layer2, fwTrial>>
      ELSE /\ fwTrial' = 0
           /\ layer2' = [layer2 EXCEPT ![id] = IF @ = "armed" THEN "off" ELSE @]

\* mintTrialKB
Mint(id) == buttons' = buttons \cup ({"keep", "rollback"} \X {id})

\* Mutant: buttons without layer 2.
armTrialNoTimer(id) == Mint(id) /\ fwTrial' = id /\ UNCHANGED layer2

\* armTrial: the previous trial's timers stop, fresh buttons are minted.
armTrial(id) ==
    /\ layer2' = [j \in Ids |-> IF j = id THEN "armed"
                                ELSE IF j = fwTrial /\ layer2[j] = "armed"
                                       THEN "off" ELSE layer2[j]]
    /\ fwTrial' = id
    /\ Mint(id)

\* Mutant: age alone decides.
pruneSnapshotsByAge(keep) ==
    \E gone \in SUBSET Ids :
        snaps' = [j \in Ids |-> IF j \in gone THEN {} ELSE snaps[j]]

\* pruneSnapshots: past the newest KeepSnaps and except the pending trial's,
\* the old ones go; which are old enough is the environment's choice.
pruneSnapshots(keep) ==
    LET newer(j) == {k \in Ids : k > j /\ snaps[k] # {}}
        old == {j \in Ids : j # keep /\ Cardinality(newer(j)) >= KeepSnaps}
    IN  \E gone \in SUBSET old :
            snaps' = [j \in Ids |-> IF j \in gone THEN {} ELSE snaps[j]]

-----------------------------------------------------------------------------
(* A trial begins: runFirewallTrial and runTrial, steps 1 to 5.            *)

\* Mutant: an ID outside its range.
newFwIDTooLarge == MaxTrials + 2 - budget.trial

newFwID == MaxTrials + 1 - budget.trial

\* Lock, no trial pending, prune, read the rules and plan.
StartTrial(open) ==
    /\ up /\ Free /\ rec = NoRec
    /\ budget.trial > 0
    /\ budget' = [budget EXCEPT !.trial = @ - 1]
    /\ pruneSnapshots(0)
    /\ Lock("bot", [NoRec EXCEPT !.id = newFwID,
                                 !.open = open,
                                 !.plan = sshPortPlan(Hash, open)], "snapshot")
    /\ opened' = [begun |-> {}, changed |-> {}]
    /\ UNCHANGED <<rules, rec, timers, late, up, fwTrial, buttons, conns,
                   agreed, verified, kept, calm>>

Snapshot ==
    /\ At("snapshot")
    /\ \/ /\ Works
          /\ snaps' = [snaps EXCEPT ![cs.rec.id] = {Hash}]
          /\ GotoWith("record", [cs.rec EXCEPT !.pre = Hash])
       \/ Fails("snapshot") /\ Unlock /\ UNCHANGED snaps
    /\ UNCHANGED <<rules, rec, timers, late, up, fwTrial, buttons, conns, ghosts>>

\* The deadline starts to run.
Record ==
    /\ At("record")
    /\ \/ /\ Works
          /\ rec' = cs.rec
          /\ late' = FALSE
          /\ Goto("arm")
          /\ UNCHANGED snaps
       \/ /\ Fails("save")
          /\ snaps' = [snaps EXCEPT ![cs.rec.id] = {}]
          /\ Unlock
          /\ UNCHANGED <<rec, late>>
    /\ UNCHANGED <<rules, timers, up, fwTrial, buttons, conns, ghosts>>

armLayer1 ==
    /\ At("arm")
    /\ \/ /\ Systemd /\ Works
          /\ layer1' = [layer1 EXCEPT ![cs.rec.id] = "armed"]
          /\ GotoWith("baseline", [cs.rec EXCEPT !.layer1 = TRUE])
       \/ /\ IF Systemd THEN Fails("systemd") ELSE Works
          /\ Goto("baseline")
          /\ UNCHANGED layer1
    /\ UNCHANGED <<rules, rec, snaps, layer2, late, up, fwTrial, buttons, conns,
                   ghosts>>

\* Mutant: when the record cannot be saved it goes, but not the trial.
BaselineGoesOn ==
    /\ At("baseline")
    /\ \/ \E seen \in IF cs.rec.open THEN {{}} ELSE sshConns :
            LET r == [cs.rec EXCEPT !.baseline = seen]
            IN  /\ Works /\ rec' = r
                /\ Continue("apply", ApplyOps(r.plan), FALSE, r)
       \/ /\ Fails("save") /\ rec' = NoRec
          /\ Continue("apply", ApplyOps(cs.rec.plan), FALSE, cs.rec)
    /\ UNCHANGED <<rules, snaps, timers, late, up, fwTrial, buttons, conns, ghosts>>

\* Closing SSH records the connections there are.  When the record cannot
\* be saved nothing was changed: layer 1 stops and the record goes.
Baseline ==
    /\ At("baseline")
    /\ \/ \E seen \in IF cs.rec.open THEN {{}} ELSE sshConns :
            LET r == [cs.rec EXCEPT !.baseline = seen]
            IN  /\ Works
                /\ rec' = r
                /\ Continue("apply", ApplyOps(r.plan), FALSE, r)
       \/ Fails("save") /\ Goto("finish") /\ UNCHANGED rec
    /\ UNCHANGED <<rules, snaps, timers, late, up, fwTrial, buttons, conns, ghosts>>

Apply ==
    /\ At("apply")
    /\ \/ Done /\ Goto("post") /\ Works /\ UNCHANGED rules
       \/ ~Done /\ Works /\ Run(Head(cs.ops), cs.rec.pre) /\ Next1
       \/ /\ ~Done
          /\ Fails(IF Head(cs.ops).op = "reload" THEN "reload" ELSE "command")
          /\ Continue("apply", << >>, TRUE, cs.rec)
          /\ UNCHANGED rules
    /\ opened' = IF Done THEN [opened EXCEPT !.changed = {}] ELSE opened
    /\ UNCHANGED <<rec, snaps, timers, late, up, fwTrial, buttons, conns,
                   agreed, verified, kept, calm>>

\* Hash the result and save it.  When only the save fails the copy in memory
\* has the hash all the same.
Post ==
    /\ At("post")
    /\ LET r == [cs.rec EXCEPT !.post = {Hash}]
       IN  \/ Works /\ rec' = r /\ GotoWith("verify", r)
           \/ Fails("save") /\ UNCHANGED rec /\ GotoWith("verify", r)
           \/ Fails("hash") /\ Goto("verify") /\ UNCHANGED rec
    /\ UNCHANGED <<rules, snaps, timers, late, up, fwTrial, buttons, conns, ghosts>>

\* A failed apply, a failed probe or a probe that shows other rules than the
\* intended ones is rolled back at once; else layer 2 and the countdown.
Verify ==
    /\ At("verify")
    /\ LET id == cs.rec.id
           want(P) == IF cs.rec.open THEN reachable(P) ELSE closed(P)
       IN  \/ /\ ~cs.failed /\ Works
              /\ \E P \in Probes : want(P)
              /\ armTrial(id)
              /\ verified' = verified \cup {id}
              /\ Unlock
           \/ /\ IF cs.failed \/ \E P \in Probes : ~want(P) THEN Works
                                                            ELSE Fails("verify")
              /\ Goto("rollback")
              /\ UNCHANGED <<layer2, fwTrial, buttons, verified>>
    /\ UNCHANGED <<rules, rec, snaps, layer1, late, up, conns,
                   agreed, kept, opened, calm>>

-----------------------------------------------------------------------------
(* Rollback: rollbackLocked, revertForeign and the backends' Restore.      *)

\* Mutants: an apply that never finished counts as one that never began;
\* the hash after the change is not compared.
UnchangedUnfinished(r) == r.post = {} \/ Hash = r.pre
EditedNever(r) == FALSE

\* What the hash of the rules says: nothing applied or already rolled back,
\* or edited by someone else after the change was complete.
Unchanged(r) == Hash = r.pre
Edited(r)    == r.post \notin {{}, {Hash}}

\* The snapshot and the hash of the rules decide what is left to do.
Decide ==
    /\ At("rollback")
    /\ \E unread \in BOOLEAN :
        /\ IF unread THEN Fails("hash") ELSE Works
        /\ IF snaps[cs.rec.id] = {}
             THEN Unlock
           ELSE IF ~unread /\ Unchanged(cs.rec)
             THEN Goto("finish")
           ELSE IF ~unread /\ Edited(cs.rec)
             THEN Continue("revert", RevertOps(cs.rec.plan), FALSE, cs.rec)
           ELSE Do("restore", RestoreOps(cs.rec.pre))
    /\ verified' = verified \ {cs.rec.id}
    /\ UNCHANGED <<rules, rec, snaps, timers, late, up, fwTrial, buttons, conns,
                   agreed, kept, opened, calm>>

\* Someone else edited the rules: the plan's own changes are undone, each
\* best effort; only a failed reload counts as an error.
Revert ==
    /\ At("revert")
    /\ \/ Done /\ Goto("guard") /\ Works /\ UNCHANGED rules
       \/ ~Done /\ Works /\ Run(Head(cs.ops), cs.rec.pre) /\ Next1
       \/ /\ ~Done /\ Fails("revert")
          /\ Continue("revert", Tail(cs.ops), Head(cs.ops).op = "reload", cs.rec)
          /\ UNCHANGED rules
    /\ UNCHANGED <<rec, snaps, timers, late, up, fwTrial, buttons, conns, ghosts>>

\* Mutant: only connected peers count.
lockoutRiskPeers(P, pre, blocks) == conns # {} /\ ~reachable(P)

\* lockoutRisk: SSH must be as reachable after the undo as before the trial,
\* and let every connected peer in, whom a foreign rule may block.
lockoutRisk(P, pre, blocks) ==
    \/ ~reachable(P) /\ reachable(pre)
    \/ conns # {} /\ ~reachable(P)
    \/ conns # {} /\ blocks /\ \E f \in FileSet : P[f] \cap Foreign # {}

\* At risk, or when undo or probe failed, the snapshot is restored after all
\* and the foreign edits are reported lost.
Guard ==
    /\ At("guard")
    /\ \E P \in Probes, unread \in BOOLEAN, blocks \in BOOLEAN :
        /\ IF unread THEN Fails("verify") ELSE Works
        /\ IF cs.failed \/ unread \/ lockoutRisk(P, cs.rec.pre, blocks)
             THEN /\ Do("restore", RestoreOps(cs.rec.pre))
                  /\ calm' = {}
             ELSE Goto("finish") /\ UNCHANGED calm
    /\ UNCHANGED <<rules, rec, snaps, timers, late, up, fwTrial, buttons, conns,
                   agreed, verified, kept, opened>>

\* ufw stops at the first failed write or reload: the rollback failed and
\* the record stays.  firewalld goes on past a failed command, and reloads
\* its permanent configuration when the zone is not back.
Restore ==
    /\ At("restore")
    /\ \/ /\ Done
          /\ \/ /\ Backend = "ufw" \/ live = cs.rec.pre
                /\ Works
                /\ Goto("finish")
             \/ /\ Backend = "firewalld"
                /\ IF live = cs.rec.pre THEN Fails("hash") ELSE Works
                /\ Goto("reload")
          /\ UNCHANGED rules
       \/ ~Done /\ Works /\ Run(Head(cs.ops), cs.rec.pre) /\ Next1
       \/ /\ ~Done
          /\ IF Backend = "ufw" THEN Fails("restore") /\ Unlock
                                ELSE Fails("undo") /\ Next1
          /\ UNCHANGED rules
    /\ UNCHANGED <<rec, snaps, timers, late, up, fwTrial, buttons, conns, ghosts>>

\* firewall-cmd --reload, the last resort of firewalld's Restore.
FwdReload ==
    /\ At("reload")
    /\ \/ Works /\ live' = stored /\ UNCHANGED stored /\ Goto("finish")
       \/ Fails("restore") /\ Unlock /\ UNCHANGED rules
    /\ UNCHANGED <<rec, snaps, timers, late, up, fwTrial, buttons, conns, ghosts>>

Finish ==
    /\ At("finish")
    /\ StopLayer1(cs.rec)
    /\ StopTrialTimers(cs.rec.id)
    /\ Goto("end")
    /\ UNCHANGED <<rules, rec, snaps, late, up, buttons, conns, ghosts>>

\* removeTrial; a failure is only logged.
End ==
    /\ At("end")
    /\ \/ Works /\ rec' = NoRec /\ calm' = {}
       \/ Fails("remove") /\ UNCHANGED <<rec, calm>>
    /\ Unlock
    /\ UNCHANGED <<rules, snaps, timers, late, up, fwTrial, buttons, conns,
                   agreed, verified, kept, opened>>

-----------------------------------------------------------------------------
(* Keep and Roll back, the buttons of the trial's message.                 *)

Press(b, id) ==
    /\ up /\ Free
    /\ <<b, id>> \in buttons

\* Mutant: any connection is evidence.
newSSHSeenAny(seen) == seen # {}

newSSHSeen(seen) == seen \ rec.baseline # {}

\* keepTrial up to stopLayer1.  Without the evidence fresh buttons replace
\* the spent one, when this process still has the trial's handle.
Keep(id) ==
    /\ Press("keep", id)
    /\ \E seen \in sshConns :
        IF rec.id # id
             THEN /\ buttons' = buttons \ {<<"keep", id>>}
                  /\ UNCHANGED <<layer1, cs, budget>>
           ELSE IF ~rec.open /\ ~newSSHSeen(seen)
             THEN /\ IF fwTrial = id THEN Mint(id)
                                     ELSE buttons' = buttons \ {<<"keep", id>>}
                  /\ UNCHANGED <<layer1, cs, budget>>
           ELSE /\ buttons' = buttons \ {<<"keep", id>>}
                /\ StopLayer1(rec)
                /\ LockFor("bot", rec, "commit", IF Backend = "ufw" THEN << >> ELSE rec.plan)
    /\ UNCHANGED <<rules, rec, snaps, layer2, late, up, fwTrial, conns, ghosts>>

\* firewalld's Commit repeats the plan with --permanent, ufw's does nothing;
\* then the record goes and the trial is over.
Commit ==
    /\ At("commit")
    /\ \/ /\ ~Done /\ Works
          /\ stored' = Changed(stored, Head(cs.ops))
          /\ Next1
          /\ UNCHANGED <<rec, layer2, fwTrial, agreed, kept, calm>>
       \/ /\ ~Done /\ Fails("commit")
          /\ Do("uncommit", inverse(SubSeq(cs.rec.plan, 1,
                                      Len(cs.rec.plan) - Len(cs.ops))))
          /\ UNCHANGED <<stored, rec, layer2, fwTrial, agreed, kept, calm>>
       \/ /\ Done /\ Works
          /\ rec' = NoRec
          /\ StopTrialTimers(cs.rec.id)
          /\ Unlock
          /\ agreed' = SSHPart(Hash)
          /\ kept' = kept \cup {cs.rec.id}
          /\ calm' = {}
          /\ UNCHANGED stored
       \/ /\ Done /\ Fails("remove")
          /\ Unlock
          /\ UNCHANGED <<stored, rec, layer2, fwTrial, agreed, kept, calm>>
    /\ UNCHANGED <<live, snaps, layer1, late, up, buttons, conns, verified, opened>>

\* A failed Commit takes back the permanent changes it made, best effort.
Uncommit ==
    /\ At("uncommit")
    /\ \/ Done /\ Works /\ Unlock /\ UNCHANGED stored
       \/ ~Done /\ Works /\ stored' = Changed(stored, Head(cs.ops)) /\ Next1
       \/ ~Done /\ Fails("commit") /\ Next1 /\ UNCHANGED stored
    /\ UNCHANGED <<live, rec, snaps, timers, late, up, fwTrial, buttons, conns,
                   ghosts>>

\* rollbackTrial
RollBackNow(id) ==
    /\ Press("rollback", id)
    /\ buttons' = buttons \ {<<"rollback", id>>}
    /\ IF rec.id = id THEN Lock("bot", rec, "rollback") ELSE UNCHANGED cs
    /\ UNCHANGED <<rules, rec, snaps, timers, late, up, fwTrial, conns, budget, ghosts>>

-----------------------------------------------------------------------------
(* The three layers that end a trial nobody kept.                          *)

Deadline ==
    /\ rec # NoRec /\ ~late
    /\ late' = TRUE
    /\ UNCHANGED <<rules, rec, snaps, timers, up, fwTrial, buttons, cs, conns,
                   budget, ghosts>>

\* A timer of an ended trial that was not stopped may fire at any time.
Due(id) == rec.id = id => late

FireLayer1(id) ==
    /\ layer1[id] = "armed" /\ Due(id)
    /\ layer1' = [layer1 EXCEPT ![id] = "fired"]
    /\ UNCHANGED <<rules, rec, snaps, layer2, late, up, fwTrial, buttons, cs,
                   conns, budget, ghosts>>

FireLayer2(id) ==
    /\ up /\ layer2[id] = "armed" /\ Due(id)
    /\ layer2' = [layer2 EXCEPT ![id] = "fired"]
    /\ UNCHANGED <<rules, rec, snaps, layer1, late, up, fwTrial, buttons, cs,
                   conns, budget, ghosts>>

\* RunFwRollback, in a process of its own.
RunFwRollback(id) ==
    /\ layer1[id] = "fired" /\ Free
    /\ layer1' = [layer1 EXCEPT ![id] = "off"]
    /\ \/ Works /\ IF rec.id = id THEN Lock("layer1", rec, "rollback")
                                  ELSE UNCHANGED cs
       \/ Fails("lock") /\ UNCHANGED cs
    /\ UNCHANGED <<rules, rec, snaps, layer2, late, up, fwTrial, buttons, conns,
                   ghosts>>

\* A timer that finds its trial over stops the handle's timers.
autoRollback(id) ==
    /\ up /\ layer2[id] = "fired" /\ Free
    /\ layer2' = [layer2 EXCEPT ![id] = "off"]
    /\ \/ Works /\ IF rec.id = id
                     THEN Lock("layer2", rec, "rollback") /\ UNCHANGED fwTrial
                     ELSE /\ fwTrial' = IF fwTrial = id THEN 0 ELSE fwTrial
                          /\ UNCHANGED cs
       \/ Fails("lock") /\ UNCHANGED <<cs, fwTrial>>
    /\ UNCHANGED <<rules, rec, snaps, layer1, late, up, buttons, conns, ghosts>>

\* Layer 3, before the agent answers anything.
reconcileFwTrial ==
    /\ ~up /\ Free
    /\ up' = TRUE
    /\ \/ /\ Works
          /\ pruneSnapshots(rec.id)
          /\ IF rec = NoRec
               THEN UNCHANGED <<cs, layer2, fwTrial, buttons>>
             ELSE IF late
               THEN Lock("boot", rec, "rollback") /\ UNCHANGED <<layer2, fwTrial, buttons>>
             ELSE armTrial(rec.id) /\ UNCHANGED cs
       \/ Fails("lock") /\ UNCHANGED <<snaps, cs, layer2, fwTrial, buttons>>
    /\ UNCHANGED <<rules, rec, layer1, late, conns, ghosts>>

-----------------------------------------------------------------------------
(* The environment.                                                        *)

NewConn(c) ==
    /\ c \notin conns /\ reachable(live)
    /\ conns' = conns \cup {c}
    /\ opened' = [begun |-> opened.begun \cup {c}, changed |-> opened.changed \cup {c}]
    /\ UNCHANGED <<rules, rec, snaps, timers, late, up, fwTrial, buttons, cs,
                   budget, agreed, verified, kept, calm>>

EndConn(c) ==
    /\ c \in conns
    /\ conns' = conns \ {c}
    /\ UNCHANGED <<rules, rec, snaps, timers, late, up, fwTrial, buttons, cs,
                   budget, ghosts>>

\* Another tool adds or deletes a rule: through ufw, or through firewall-cmd
\* with or without --permanent.
ForeignEdit(x, op) ==
    /\ budget.edit > 0
    /\ budget' = [budget EXCEPT !.edit = @ - 1]
    /\ LET c == [op |-> op, rules |-> {x}]
       IN  /\ live' = Changed(live, c)
           /\ stored' \in IF Backend = "ufw" THEN {Changed(stored, c)}
                                             ELSE {stored, Changed(stored, c)}
    /\ calm' = IF op = "delete" THEN calm \ {x}
               ELSE IF Free /\ \E R \in rec.post : \A f \in FileSet : x \notin R[f]
                 THEN calm \cup {x}
               ELSE calm
    /\ UNCHANGED <<rec, snaps, timers, late, up, fwTrial, buttons, cs, conns,
                   agreed, verified, kept, opened>>

\* Where this instance lets a crash strike.
Strikes ==
    /\ budget.crash > 0
    /\ budget' = [budget EXCEPT !.crash = @ - 1]
    /\ cs.step \in {"commit", "uncommit"} => "commitCrash" \in Kinds
    /\ cs.step \in {"restore", "reload"} => "restoreCrash" \in Kinds

ForgetTrial ==
    /\ up' = FALSE
    /\ layer2' = [j \in Ids |-> "off"]
    /\ fwTrial' = 0
    /\ buttons' = {}

\* The agent dies with all it holds in memory; systemd starts it again.
CrashAgent ==
    /\ up /\ "crash" \in Kinds /\ Strikes
    /\ ForgetTrial
    /\ cs' = IF cs.by = "layer1" THEN cs ELSE Unlocked
    /\ UNCHANGED <<rules, rec, snaps, layer1, late, conns, ghosts>>

\* The rollback process of layer 1 dies.
CrashLayer1 ==
    /\ cs.by = "layer1" /\ "crash" \in Kinds /\ Strikes
    /\ Unlock
    /\ UNCHANGED <<rules, rec, snaps, timers, late, up, fwTrial, buttons, conns,
                   ghosts>>

\* Transient timers do not survive a reboot, and the stored rules load.
Reboot ==
    /\ "reboot" \in Kinds /\ Strikes
    /\ ForgetTrial
    /\ Unlock
    /\ layer1' = [j \in Ids |-> "off"]
    /\ conns' = {}
    /\ live' = stored
    /\ calm' = {x \in calm : \A f \in FileSet : x \in stored[f]}
    /\ verified' = IF live = stored THEN verified ELSE verified \ {rec.id}
    /\ UNCHANGED <<stored, rec, snaps, late, agreed, kept, opened>>

-----------------------------------------------------------------------------

Init ==
    /\ \E r \in SSHRules : stored = [f \in FileSet |-> {r}]
    /\ live = stored
    /\ rec = NoRec
    /\ snaps = [j \in Ids |-> {}]
    /\ layer1 = [j \in Ids |-> "off"]
    /\ layer2 = [j \in Ids |-> "off"]
    /\ late = FALSE
    /\ up = TRUE
    /\ fwTrial = 0
    /\ buttons = {}
    /\ cs = Unlocked
    /\ conns = {}
    /\ budget = [trial |-> MaxTrials, fault |-> MaxFaults,
                 crash |-> MaxCrashes, edit |-> MaxEdits]
    /\ agreed = SSHPart(stored)
    /\ verified = {}
    /\ kept = {}
    /\ opened = [begun |-> {}, changed |-> {}]
    /\ calm = {}

\* The steps of whoever is in the critical section.
Trial    == \/ Snapshot \/ Record \/ armLayer1 \/ Baseline
            \/ Apply \/ Post \/ Verify
Rollback == \/ Decide \/ Revert \/ Guard \/ Restore \/ FwdReload
            \/ Finish \/ End
Step     == Trial \/ Rollback \/ Commit \/ Uncommit

User == \/ \E open \in BOOLEAN : StartTrial(open)
        \/ \E id \in Ids : Keep(id) \/ RollBackNow(id)

Layers == \/ Deadline
          \/ \E id \in Ids : \/ FireLayer1(id) \/ FireLayer2(id)
                             \/ RunFwRollback(id) \/ autoRollback(id)
          \/ reconcileFwTrial

Environment == \/ \E c \in Conns : NewConn(c) \/ EndConn(c)
               \/ \E x \in Foreign, op \in {"add", "delete"} : ForeignEdit(x, op)
               \/ CrashAgent \/ CrashLayer1 \/ Reboot

Next == User \/ Step \/ Layers \/ Environment

Spec == Init /\ [][Next]_vars

\* Whoever holds the lock goes on, time passes, timers fire and are served,
\* and systemd starts the agent again (Restart=always).  Nobody has to press.
Fairness ==
    /\ WF_vars(Step)
    /\ WF_vars(Deadline)
    /\ \A id \in Ids : /\ WF_vars(FireLayer1(id)) /\ WF_vars(FireLayer2(id))
                       /\ WF_vars(RunFwRollback(id)) /\ WF_vars(autoRollback(id))
    /\ WF_vars(reconcileFwTrial)

FairSpec == Spec /\ Fairness

-----------------------------------------------------------------------------
(* Properties.                                                             *)

TimerStates == {"off", "armed", "fired"}

Records == [id : 0..MaxTrials, open : BOOLEAN, plan : Seq(Changes), layer1 : BOOLEAN,
            pre : RuleSets, post : SUBSET RuleSets, baseline : SUBSET Conns]

Steps == {"free", "snapshot", "record", "arm", "baseline", "apply", "post",
          "verify", "rollback", "revert", "guard", "restore", "reload",
          "finish", "end", "commit", "uncommit"}

Sections == [by : {"none", "bot", "boot", "layer1", "layer2"}, step : Steps,
             ops : Seq(Ops), failed : BOOLEAN, rec : Records]

Budgets == [trial : 0..MaxTrials, fault : 0..MaxFaults,
            crash : 0..MaxCrashes, edit : 0..MaxEdits]

\* Type invariant.
TypeOK ==
    /\ stored \in RuleSets /\ live \in RuleSets
    /\ rec \in Records
    /\ snaps \in [Ids -> SUBSET RuleSets]
    /\ layer1 \in [Ids -> TimerStates] /\ layer2 \in [Ids -> TimerStates]
    /\ late \in BOOLEAN /\ up \in BOOLEAN
    /\ fwTrial \in 0..MaxTrials
    /\ buttons \subseteq {"keep", "rollback"} \X Ids
    /\ cs \in Sections
    /\ cs.step \in {"commit", "uncommit"} => cs.ops \in Seq(Changes)
    /\ conns \subseteq Conns
    /\ budget \in Budgets
    /\ agreed \in RuleSets
    /\ verified \subseteq Ids /\ kept \subseteq Ids
    /\ opened \in [begun : SUBSET Conns, changed : SUBSET Conns]
    /\ calm \subseteq Foreign

\* A pending trial can always be taken back: the snapshot its record names
\* is on disk and holds the rules from before the trial, through failed
\* saves, restarts and pruning.
TrialHasSnapshot == rec # NoRec => snaps[rec.id] = {rec.pre}

\* What makes that inductive: until the record is written there is none, and
\* from then on the record on disk and the copy in the critical section name
\* the same trial and the same rules to go back to.
SectionMatchesRecord ==
    /\ rec # NoRec => rec.id \in Ids /\ snaps[rec.id] = {rec.pre}
    /\ cs.step # "free" => cs.rec.id \in Ids
    /\ cs.step \in {"snapshot", "record"} => rec = NoRec
    /\ cs.step = "record" => snaps[cs.rec.id] = {cs.rec.pre}
    /\ cs.step \notin {"free", "snapshot", "record"}
         => rec # NoRec /\ rec.id = cs.rec.id /\ rec.pre = cs.rec.pre

\* No SSH rule changes without a record on disk that says how to take it
\* back: a crash at any step of a trial finds either the old rules or the
\* record of the trial.  (A reboot loads the stored rules, whatever they are.)
ChangeUnderRecord ==
    [][SSHPart(Hash)' # SSHPart(Hash) /\ ~Reboot
         => rec # NoRec /\ snaps[rec.id] = {rec.pre}]_vars

\* Anything other than Keep rolls back: with no trial pending the SSH rules,
\* the stored ones and those that filter packets, are the ones of the last
\* Keep.  (A trial that a restart resumed in the middle of its change or of
\* its rollback, or whose runtime change a reboot undid, may be kept with
\* the rules it happens to have.)
RolledBack ==
    rec = NoRec /\ kept \subseteq verified
        => SSHPart(stored) = agreed /\ SSHPart(live) = agreed

\* A verified change that closes SSH is kept only after a connection that was
\* opened while the trial ran, so never on the admin's old session alone.
KeepNeedsNewConn ==
    [][kept' # kept /\ kept' \subseteq verified => cs.rec.open \/ opened.begun # {}]_vars

\* A foreign rule added while a complete trial waits survives its rollback,
\* unless the rollback says that SSH was at risk and the rule was lost.
ForeignKept == \A x \in calm, f \in FileSet : x \in Hash[f]

\* Even when commands of a rollback fail: SSH that was reachable by the rules of the
\* last Keep is reachable by the stored rules when no trial is pending. (Of ufw those
\* are the files: after a reload that failed, the kernel's table may still hold the
\* trial's; RolledBack looks at both, and fails so in the run half_restore.)
NoLockout ==
    rec = NoRec /\ kept \subseteq verified /\ reachable(agreed) => reachable(Hash)

\* The rules follow the promise made for them, the hashed ones at least.
Promise == INSTANCE FwPromise WITH rules <- SSHPart(Hash), trial <- rec # NoRec,
                                   Rules <- [FileSet -> SUBSET SSHRules]
KeepsPromise == Promise!Spec

\* While nothing fails but processes and hosts, every trial ends.
TrialEnds == rec # NoRec ~> rec = NoRec \/ budget.fault < MaxFaults

=============================================================================
