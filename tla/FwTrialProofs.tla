--------------------------- MODULE FwTrialProofs ---------------------------
(***************************************************************************)
(* Proofs about FwTrial, for any sets of files, foreign rules, connections *)
(* and kinds of failure, and any bounds, but for what a theorem assumes.   *)
(* For both backends: type correctness, that a pending trial always has    *)
(* the snapshot that takes it back, that no SSH rule changes without one,  *)
(* that foreign rules survive and that a Keep needs a new connection.      *)
(* For each backend, under what its theorems assume: nobody is locked out, *)
(* the trial keeps its promise and anything but a Keep rolls both copies   *)
(* of the rules back.                                                      *)
(***************************************************************************)
EXTENDS FwTrial, SequenceTheorems, TLAPS

USE DEF Ids

LEMMA FilesNonEmpty == Files \in Seq(STRING) /\ Len(Files) \in Nat /\ 1 \in DOMAIN Files
  BY FilesAssumption

LEMMA ChangedType ==
    ASSUME NEW R \in RuleSets, NEW c \in Changes
    PROVE  Changed(R, c) \in RuleSets
  BY DEF Changed, RuleSets, Changes

LEMMA PlanType ==
    ASSUME NEW R \in RuleSets, NEW open \in BOOLEAN
    PROVE  sshPortPlan(R, open) \in Seq(Changes)
<1>1. \A r \in SSHRules : Delete(R, r) \in Seq(Changes)
  <2> TAKE r \in SSHRules
  <2>1. [op |-> "delete", rules |-> {r}] \in Changes
    BY DEF SSHRules, Changes, AllRules
  <2>2. \A c \in Changes : << c >> \in Seq(Changes)
    OBVIOUS
  <2>3. << >> \in Seq(Changes)
    OBVIOUS
  <2> QED BY <2>1, <2>2, <2>3 DEF Delete
<1>2. \A r \in SSHRules : << [op |-> "add", rules |-> {r}] >> \in Seq(Changes)
  BY DEF SSHRules, Changes, AllRules
<1>3. \A p, q, r \in Seq(Changes) : p \o q \o r \in Seq(Changes)
  OBVIOUS
<1> QED BY <1>1, <1>2, <1>3 DEF sshPortPlan, SSHRules

LEMMA InverseType ==
    ASSUME NEW p \in Seq(Changes)
    PROVE  inverse(p) \in Seq(Changes)
<1> DEFINE inv(c) == [op |-> IF c.op = "delete" THEN "add" ELSE "delete",
                      rules |-> c.rules]
<1>1. \A c \in Changes : inv(c) \in Changes
  BY DEF Changes
<1>2. \A k \in 1..Len(p) : p[Len(p) + 1 - k] \in Changes
  OBVIOUS
<1>3. inverse(p) = [k \in 1..Len(p) |-> inv(p[Len(p) + 1 - k])]
  BY DEF inverse
<1> HIDE DEF inv
<1> QED BY <1>1, <1>2, <1>3, IsASeq

LEMMA OpsTypes ==
    /\ Reload \in Seq(Ops)
    /\ \A p \in Seq(Changes) : p \in Seq(Ops)
    /\ \A p \in Seq(Changes) : ApplyOps(p) \in Seq(Ops) /\ RevertOps(p) \in Seq(Ops)
<1>1. Reload \in Seq(Ops)
  BY DEF Reload, Ops
<1>2. \A p \in Seq(Changes) : p \in Seq(Ops)
  BY DEF Ops
<1>3. \A p, q \in Seq(Ops) : p \o q \in Seq(Ops)
  OBVIOUS
<1> QED BY <1>1, <1>2, <1>3, InverseType DEF ApplyOps, RevertOps

LEMMA RestoreOpsType ==
    ASSUME NEW pre \in RuleSets, live \in RuleSets
    PROVE  RestoreOps(pre) \in Seq(Ops)
<1> DEFINE w == [k \in 1..Len(Files) |-> [op |-> "write", file |-> Files[k]]]
<1>1. w \in Seq(Ops)
  <2>1. \A k \in 1..Len(Files) : [op |-> "write", file |-> Files[k]] \in Ops
    BY FilesNonEmpty DEF Ops, FileSet
  <2> QED BY <2>1, FilesNonEmpty, IsASeq
<1>2. CASE Backend = "ufw"
  <2>1. w \o Reload \in Seq(Ops)
    <3> HIDE DEF w
    <3> QED BY <1>1, OpsTypes
  <2> QED BY <1>2, <2>1 DEF RestoreOps
<1>3. CASE Backend # "ufw"
  <2>1. live[Files[1]] \subseteq AllRules /\ pre[Files[1]] \subseteq AllRules
    BY FilesNonEmpty DEF RuleSets, FileSet
  <2> QED BY <1>3, <2>1 DEF RestoreOps, Ops, Changes
<1> QED BY <1>2, <1>3

LEMMA RunType ==
    ASSUME TypeOK, NEW c \in Ops, NEW pre \in RuleSets, Run(c, pre)
    PROVE  stored' \in RuleSets /\ live' \in RuleSets
<1>1. CASE c.op = "reload"
  BY <1>1 DEF Run, TypeOK
<1>2. CASE c.op = "write"
  <2>1. c.file \in FileSet
    BY <1>2 DEF Ops, Changes
  <2> QED BY <1>2, <2>1 DEF Run, TypeOK, RuleSets
<1>3. CASE c.op \notin {"reload", "write"}
  <2>1. c \in Changes
    BY <1>3 DEF Ops
  <2> QED BY <1>3, <2>1, ChangedType DEF Run, TypeOK
<1> QED BY <1>1, <1>2, <1>3

LEMMA NoRecType == NoRec \in Records /\ Unlocked \in Sections
<1>1. NoRec \in Records
  <2>1. [f \in FileSet |-> {}] \in RuleSets
    BY DEF RuleSets
  <2>2. << >> \in Seq(Changes) /\ 0 \in 0..MaxTrials
    BY BoundsAssumption
  <2> QED BY <2>1, <2>2 DEF NoRec, Records
<1>2. << >> \in Seq(Ops)
  OBVIOUS
<1> QED BY <1>1, <1>2 DEF Unlocked, Sections, Steps

LEMMA InitType == Init => TypeOK
<1> SUFFICES ASSUME Init PROVE TypeOK
  OBVIOUS
<1>1. stored \in RuleSets /\ live \in RuleSets /\ agreed \in RuleSets
  BY DEF Init, RuleSets, SSHRules, AllRules, SSHPart
<1>2. rec \in Records /\ cs \in Sections
  BY NoRecType DEF Init
<1>3. budget \in [trial : 0..MaxTrials, fault : 0..MaxFaults,
                  crash : 0..MaxCrashes, edit : 0..MaxEdits]
  BY BoundsAssumption DEF Init
<1>4. layer1 \in [Ids -> TimerStates] /\ layer2 \in [Ids -> TimerStates]
  BY DEF Init, TimerStates
<1>5. cs.step \notin {"commit", "uncommit"}
  BY DEF Init, Unlocked
<1>6. fwTrial \in 0..MaxTrials /\ snaps \in [Ids -> SUBSET RuleSets]
  BY BoundsAssumption DEF Init
<1> QED BY <1>1, <1>2, <1>3, <1>4, <1>5, <1>6 DEF Init, TypeOK, Budgets

\* How the building blocks of the actions keep the types.
LEMMA ContinueType ==
    ASSUME cs \in Sections, NEW step \in Steps, NEW ops \in Seq(Ops),
           NEW failed \in BOOLEAN, NEW r \in Records, Continue(step, ops, failed, r)
    PROVE  cs' \in Sections /\ cs'.step = step /\ cs'.ops = ops /\ cs'.rec = r
  BY DEF Continue, Sections

LEMMA LockForType ==
    ASSUME NEW who \in {"bot", "boot", "layer1", "layer2"}, NEW r \in Records,
           NEW step \in Steps, NEW ops \in Seq(Ops), LockFor(who, r, step, ops)
    PROVE  cs' \in Sections /\ cs'.step = step /\ cs'.ops = ops /\ cs'.rec = r
  BY DEF LockFor, Sections

LEMMA UnlockType ==
    ASSUME Unlock
    PROVE  cs' \in Sections /\ cs'.step = "free"
  BY NoRecType DEF Unlock, Unlocked

LEMMA SectionParts ==
    ASSUME cs \in Sections
    PROVE  /\ cs.step \in Steps /\ cs.ops \in Seq(Ops) /\ cs.failed \in BOOLEAN
           /\ cs.rec \in Records
           /\ ~Done => Head(cs.ops) \in Ops /\ Tail(cs.ops) \in Seq(Ops)
  BY DEF Sections, Done

LEMMA Next1Type ==
    ASSUME cs \in Sections, ~Done, Next1
    PROVE  cs' \in Sections /\ cs'.step = cs.step /\ cs'.ops = Tail(cs.ops) /\ cs'.rec = cs.rec
<1>1. Continue(cs.step, Tail(cs.ops), cs.failed, cs.rec)
  BY DEF Next1, Do
<1> QED BY <1>1, SectionParts, ContinueType

LEMMA RecordParts ==
    ASSUME NEW r \in Records
    PROVE  /\ r.pre \in RuleSets /\ r.plan \in Seq(Changes) /\ r.open \in BOOLEAN
           /\ r.id \in 0..MaxTrials
           /\ \A P \in RuleSets : [r EXCEPT !.pre = P] \in Records
           /\ [r EXCEPT !.layer1 = TRUE] \in Records
           /\ \A C \in SUBSET Conns : [r EXCEPT !.baseline = C] \in Records
           /\ \A P \in RuleSets : [r EXCEPT !.post = {P}] \in Records
  BY DEF Records

LEMMA BudgetType ==
    ASSUME budget \in Budgets
    PROVE  /\ Works => budget' \in Budgets
           /\ \A kind : Fails(kind) => budget' \in Budgets
<1>1. \A n \in 0..MaxFaults : n > 0 => n - 1 \in 0..MaxFaults
  BY BoundsAssumption
<1>2. budget.fault > 0 => [budget EXCEPT !.fault = @ - 1] \in Budgets
  BY <1>1 DEF Budgets
<1> QED BY <1>2 DEF Works, Fails

LEMMA StopLayer1Type ==
    ASSUME TypeOK, NEW r, StopLayer1(r)
    PROVE  layer1' \in [Ids -> TimerStates] /\ budget' \in Budgets
  BY BudgetType DEF StopLayer1, TypeOK, TimerStates

LEMMA StopTrialTimersType ==
    ASSUME TypeOK, NEW id, StopTrialTimers(id)
    PROVE  layer2' \in [Ids -> TimerStates] /\ fwTrial' \in 0..MaxTrials
  BY BoundsAssumption DEF StopTrialTimers, TypeOK, TimerStates

LEMMA ArmTrialType ==
    ASSUME TypeOK, NEW id \in Ids, armTrial(id)
    PROVE  /\ layer2' \in [Ids -> TimerStates] /\ fwTrial' \in 0..MaxTrials
           /\ buttons' \subseteq {"keep", "rollback"} \X Ids
  BY BoundsAssumption DEF armTrial, Mint, TypeOK, TimerStates

LEMMA PruneType ==
    ASSUME TypeOK, NEW keep, pruneSnapshots(keep)
    PROVE  snaps' \in [Ids -> SUBSET RuleSets]
  BY DEF pruneSnapshots, TypeOK

LEMMA HashType ==
    ASSUME TypeOK
    PROVE  Hash \in RuleSets /\ SSHPart(Hash) \in RuleSets
  BY DEF TypeOK, Hash, SSHPart, RuleSets

-----------------------------------------------------------------------------
(* The type invariant, one lemma per action.                               *)

IInv == TypeOK /\ SectionMatchesRecord

LEMMA StartTrialType ==
    ASSUME TypeOK, NEW open \in BOOLEAN, StartTrial(open)
    PROVE  TypeOK'
<1>1. budget.trial \in 1..MaxTrials
  BY DEF StartTrial, TypeOK, Budgets
<1>2. newFwID \in 0..MaxTrials /\ budget' \in Budgets
  <2>1. newFwID \in 0..MaxTrials /\ budget.trial - 1 \in 0..MaxTrials
    BY <1>1, BoundsAssumption DEF newFwID
  <2>2. budget \in Budgets /\ budget' = [budget EXCEPT !.trial = @ - 1]
    BY DEF StartTrial, TypeOK
  <2> QED BY <2>1, <2>2 DEF Budgets
<1>3. [NoRec EXCEPT !.id = newFwID, !.open = open,
                    !.plan = sshPortPlan(Hash, open)] \in Records
  BY <1>2, NoRecType, HashType, PlanType DEF Records
<1>4. cs' \in Sections /\ cs'.step = "snapshot"
  <2>1. << >> \in Seq(Ops) /\ "snapshot" \in Steps
    BY DEF Steps
  <2> QED BY <1>3, <2>1, LockForType DEF StartTrial, Lock
<1>5. snaps' \in [Ids -> SUBSET RuleSets]
  BY PruneType DEF StartTrial
<1> QED BY <1>2, <1>4, <1>5 DEF StartTrial, TypeOK, rules, timers

LEMMA SnapshotType ==
    ASSUME TypeOK, Snapshot
    PROVE  TypeOK'
<1>1. [cs.rec EXCEPT !.pre = Hash] \in Records /\ "record" \in Steps
  BY SectionParts, RecordParts, HashType DEF TypeOK, Steps
<1>2. cs' \in Sections /\ cs'.step \in {"record", "free"}
  BY <1>1, SectionParts, ContinueType, UnlockType DEF Snapshot, TypeOK, GotoWith
<1>3. snaps' \in [Ids -> SUBSET RuleSets]
  BY HashType DEF Snapshot, TypeOK
<1>4. budget' \in Budgets
  BY BudgetType DEF Snapshot, TypeOK
<1> QED BY <1>2, <1>3, <1>4 DEF TypeOK, Snapshot, rules, timers, ghosts

LEMMA RecordType ==
    ASSUME TypeOK, Record
    PROVE  TypeOK'
<1>1. cs' \in Sections /\ cs'.step \in {"arm", "free"}
  <2>1. "arm" \in Steps
    BY DEF Steps
  <2> QED BY <2>1, SectionParts, ContinueType, UnlockType DEF Record, TypeOK, Goto
<1>2. rec' \in Records /\ late' \in BOOLEAN /\ snaps' \in [Ids -> SUBSET RuleSets]
  BY SectionParts DEF Record, TypeOK
<1>3. budget' \in Budgets
  BY BudgetType DEF Record, TypeOK
<1> QED BY <1>1, <1>2, <1>3 DEF TypeOK, Record, rules, timers, ghosts

LEMMA ArmLayer1Type ==
    ASSUME TypeOK, armLayer1
    PROVE  TypeOK'
<1>1. cs' \in Sections /\ cs'.step = "baseline"
  <2>1. "baseline" \in Steps
    BY DEF Steps
  <2> QED BY <2>1, SectionParts, RecordParts, ContinueType
          DEF armLayer1, TypeOK, Goto, GotoWith
<1>2. layer1' \in [Ids -> TimerStates]
  BY DEF armLayer1, TypeOK, TimerStates
<1>3. budget' \in Budgets
  BY BudgetType DEF armLayer1, TypeOK
<1> QED BY <1>1, <1>2, <1>3 DEF TypeOK, armLayer1, rules, ghosts

LEMMA BaselineType ==
    ASSUME TypeOK, Baseline
    PROVE  TypeOK'
<1>1. budget' \in Budgets
  BY BudgetType DEF Baseline, TypeOK
<1>2. CASE Fails("save") /\ Goto("finish") /\ UNCHANGED rec
  <2>1. cs' \in Sections /\ cs'.step = "finish"
    BY <1>2, SectionParts, ContinueType DEF TypeOK, Goto, Steps
  <2> QED BY <1>1, <1>2, <2>1 DEF TypeOK, Baseline, rules, timers, ghosts
<1>3. CASE ~(Fails("save") /\ Goto("finish") /\ UNCHANGED rec)
  <2>1. PICK seen \in IF cs.rec.open THEN {{}} ELSE sshConns :
            LET r == [cs.rec EXCEPT !.baseline = seen]
            IN  rec' = r /\ Continue("apply", ApplyOps(r.plan), FALSE, r)
    BY <1>3 DEF Baseline
  <2> DEFINE r == [cs.rec EXCEPT !.baseline = seen]
  <2>2. seen \in SUBSET Conns
    BY <2>1 DEF sshConns, TypeOK
  <2>3. r \in Records
    BY <2>2, SectionParts, RecordParts DEF TypeOK
  <2>4. ApplyOps(r.plan) \in Seq(Ops) /\ "apply" \in Steps
    BY <2>3, RecordParts, OpsTypes DEF Steps
  <2>5. rec' = r /\ Continue("apply", ApplyOps(r.plan), FALSE, r)
    BY <2>1
  <2> HIDE DEF r
  <2>6. cs' \in Sections /\ cs'.step = "apply"
    BY <2>3, <2>4, <2>5, ContinueType DEF TypeOK
  <2> QED BY <1>1, <2>3, <2>5, <2>6 DEF TypeOK, Baseline, rules, timers, ghosts
<1> QED BY <1>2, <1>3

LEMMA ApplyType ==
    ASSUME TypeOK, Apply
    PROVE  TypeOK'
<1>1. cs' \in Sections /\ cs'.step \in {"apply", "post"}
  <2>1. "apply" \in Steps /\ "post" \in Steps /\ << >> \in Seq(Ops)
    BY DEF Steps
  <2>2. CASE Goto("post")
    BY <2>1, <2>2, SectionParts, ContinueType DEF TypeOK, Goto
  <2>3. CASE ~Done /\ Next1
    BY <2>1, <2>3, Next1Type DEF Apply, At, TypeOK
  <2>4. CASE Continue("apply", << >>, TRUE, cs.rec)
    BY <2>1, <2>4, SectionParts, ContinueType DEF TypeOK
  <2> QED BY <2>2, <2>3, <2>4 DEF Apply
<1>2. stored' \in RuleSets /\ live' \in RuleSets
  <2>1. CASE UNCHANGED rules
    BY <2>1 DEF rules, TypeOK
  <2>2. CASE ~Done /\ Run(Head(cs.ops), cs.rec.pre)
    BY <2>2, SectionParts, RecordParts, RunType DEF TypeOK
  <2> QED BY <2>1, <2>2 DEF Apply
<1>3. budget' \in Budgets
  BY BudgetType DEF Apply, TypeOK
<1>4. opened' \in [begun : SUBSET Conns, changed : SUBSET Conns]
  BY DEF Apply, TypeOK
<1> QED BY <1>1, <1>2, <1>3, <1>4 DEF TypeOK, Apply, timers

LEMMA PostType ==
    ASSUME TypeOK, Post
    PROVE  TypeOK'
<1> DEFINE r == [cs.rec EXCEPT !.post = {Hash}]
<1>1. r \in Records
  BY SectionParts, RecordParts, HashType DEF TypeOK
<1>2. \/ rec' = r /\ GotoWith("verify", r)
      \/ UNCHANGED rec /\ GotoWith("verify", r)
      \/ UNCHANGED rec /\ Goto("verify")
  BY DEF Post
<1>3. budget' \in Budgets
  BY BudgetType DEF Post, TypeOK
<1> HIDE DEF r
<1>4. cs' \in Sections /\ cs'.step = "verify" /\ rec' \in Records
  <2>1. "verify" \in Steps
    BY DEF Steps
  <2> QED BY <1>1, <1>2, <2>1, SectionParts, ContinueType DEF TypeOK, Goto, GotoWith
<1> QED BY <1>3, <1>4 DEF TypeOK, Post, rules, timers, ghosts

LEMMA VerifyType ==
    ASSUME TypeOK, SectionMatchesRecord, Verify
    PROVE  TypeOK'
<1>1. cs.rec.id \in Ids /\ cs.step = "verify"
  BY DEF Verify, At, SectionMatchesRecord
<1>2. budget' \in Budgets
  BY BudgetType DEF Verify, TypeOK
<1>3. cs' \in Sections /\ cs'.step \in {"free", "rollback"}
  <2>1. "rollback" \in Steps
    BY DEF Steps
  <2>2. CASE Unlock
    BY <2>2, UnlockType
  <2>3. CASE Goto("rollback")
    BY <2>1, <2>3, SectionParts, ContinueType DEF TypeOK, Goto
  <2> QED BY <2>2, <2>3 DEF Verify
<1>4. /\ layer2' \in [Ids -> TimerStates] /\ fwTrial' \in 0..MaxTrials
      /\ buttons' \subseteq {"keep", "rollback"} \X Ids /\ verified' \subseteq Ids
  <2>1. CASE armTrial(cs.rec.id) /\ verified' = verified \cup {cs.rec.id}
    BY <1>1, <2>1, ArmTrialType DEF TypeOK
  <2>2. CASE UNCHANGED <<layer2, fwTrial, buttons, verified>>
    BY <2>2 DEF TypeOK
  <2> QED BY <2>1, <2>2 DEF Verify
<1> QED BY <1>2, <1>3, <1>4 DEF TypeOK, Verify, rules

LEMMA DecideType ==
    ASSUME TypeOK, Decide
    PROVE  TypeOK'
<1>1. budget' \in Budgets
  BY BudgetType DEF Decide, TypeOK
<1>2. cs' \in Sections /\ cs'.step \in {"free", "finish", "revert", "restore"}
  <2>1. {"finish", "revert", "restore"} \subseteq Steps
    BY DEF Steps
  <2>2. RevertOps(cs.rec.plan) \in Seq(Ops) /\ RestoreOps(cs.rec.pre) \in Seq(Ops)
    BY SectionParts, RecordParts, OpsTypes, RestoreOpsType DEF TypeOK
  <2>3. CASE Unlock
    BY <2>3, UnlockType
  <2>4. CASE Goto("finish")
    BY <2>1, <2>4, SectionParts, ContinueType DEF TypeOK, Goto
  <2>5. CASE Continue("revert", RevertOps(cs.rec.plan), FALSE, cs.rec)
    BY <2>1, <2>2, <2>5, SectionParts, ContinueType DEF TypeOK
  <2>6. CASE Do("restore", RestoreOps(cs.rec.pre))
    BY <2>1, <2>2, <2>6, SectionParts, ContinueType DEF TypeOK, Do
  <2> QED BY <2>3, <2>4, <2>5, <2>6 DEF Decide
<1> QED BY <1>1, <1>2 DEF TypeOK, Decide, rules, timers

LEMMA RevertType ==
    ASSUME TypeOK, Revert
    PROVE  TypeOK'
<1>1. budget' \in Budgets
  BY BudgetType DEF Revert, TypeOK
<1>2. cs' \in Sections /\ cs'.step \in {"revert", "guard"}
  <2>1. {"guard", "revert"} \subseteq Steps
    BY DEF Steps
  <2>2. CASE Goto("guard")
    BY <2>1, <2>2, SectionParts, ContinueType DEF TypeOK, Goto
  <2>3. CASE ~Done /\ Next1
    BY <2>1, <2>3, Next1Type DEF Revert, At, TypeOK
  <2>4. CASE ~Done /\ Continue("revert", Tail(cs.ops), Head(cs.ops).op = "reload", cs.rec)
    <3>1. (Head(cs.ops).op = "reload") \in BOOLEAN
      OBVIOUS
    <3> QED BY <2>1, <2>4, <3>1, SectionParts, ContinueType DEF TypeOK
  <2> QED BY <2>2, <2>3, <2>4 DEF Revert
<1>3. stored' \in RuleSets /\ live' \in RuleSets
  <2>1. CASE UNCHANGED rules
    BY <2>1 DEF rules, TypeOK
  <2>2. CASE ~Done /\ Run(Head(cs.ops), cs.rec.pre)
    BY <2>2, SectionParts, RecordParts, RunType DEF TypeOK
  <2> QED BY <2>1, <2>2 DEF Revert
<1> QED BY <1>1, <1>2, <1>3 DEF TypeOK, Revert, timers, ghosts

LEMMA GuardType ==
    ASSUME TypeOK, Guard
    PROVE  TypeOK'
<1>1. budget' \in Budgets
  BY BudgetType DEF Guard, TypeOK
<1>2. cs' \in Sections /\ cs'.step \in {"restore", "finish"}
  <2>1. {"restore", "finish"} \subseteq Steps
    BY DEF Steps
  <2>2. RestoreOps(cs.rec.pre) \in Seq(Ops)
    BY SectionParts, RecordParts, RestoreOpsType DEF TypeOK
  <2>3. CASE Do("restore", RestoreOps(cs.rec.pre))
    BY <2>1, <2>2, <2>3, SectionParts, ContinueType DEF TypeOK, Do
  <2>4. CASE Goto("finish")
    BY <2>1, <2>4, SectionParts, ContinueType DEF TypeOK, Goto
  <2> QED BY <2>3, <2>4 DEF Guard
<1>3. calm' \subseteq Foreign
  BY DEF Guard, TypeOK
<1> QED BY <1>1, <1>2, <1>3 DEF TypeOK, Guard, rules, timers

LEMMA RestoreType ==
    ASSUME TypeOK, Restore
    PROVE  TypeOK'
<1>1. budget' \in Budgets
  BY BudgetType DEF Restore, TypeOK
<1>2. cs' \in Sections /\ cs'.step \in {"restore", "finish", "reload", "free"}
  <2>1. {"restore", "finish", "reload"} \subseteq Steps
    BY DEF Steps
  <2>2. CASE Goto("finish")
    BY <2>1, <2>2, SectionParts, ContinueType DEF TypeOK, Goto
  <2>3. CASE Goto("reload")
    BY <2>1, <2>3, SectionParts, ContinueType DEF TypeOK, Goto
  <2>4. CASE ~Done /\ Next1
    BY <2>1, <2>4, Next1Type DEF Restore, At, TypeOK
  <2>5. CASE Unlock
    BY <2>5, UnlockType
  <2> QED BY <2>2, <2>3, <2>4, <2>5 DEF Restore
<1>3. stored' \in RuleSets /\ live' \in RuleSets
  <2>1. CASE UNCHANGED rules
    BY <2>1 DEF rules, TypeOK
  <2>2. CASE ~Done /\ Run(Head(cs.ops), cs.rec.pre)
    BY <2>2, SectionParts, RecordParts, RunType DEF TypeOK
  <2> QED BY <2>1, <2>2 DEF Restore
<1> QED BY <1>1, <1>2, <1>3 DEF TypeOK, Restore, timers, ghosts

LEMMA FwdReloadType ==
    ASSUME TypeOK, FwdReload
    PROVE  TypeOK'
<1>1. budget' \in Budgets
  BY BudgetType DEF FwdReload, TypeOK
<1>2. cs' \in Sections /\ cs'.step \in {"finish", "free"}
  <2>1. "finish" \in Steps
    BY DEF Steps
  <2>2. CASE Goto("finish")
    BY <2>1, <2>2, SectionParts, ContinueType DEF TypeOK, Goto
  <2>3. CASE Unlock
    BY <2>3, UnlockType
  <2> QED BY <2>2, <2>3 DEF FwdReload
<1>3. stored' \in RuleSets /\ live' \in RuleSets
  BY DEF FwdReload, TypeOK, rules
<1> QED BY <1>1, <1>2, <1>3 DEF TypeOK, FwdReload, timers, ghosts

LEMMA FinishType ==
    ASSUME TypeOK, Finish
    PROVE  TypeOK'
<1>1. cs' \in Sections /\ cs'.step = "end"
  <2>1. "end" \in Steps
    BY DEF Steps
  <2> QED BY <2>1, SectionParts, ContinueType DEF Finish, TypeOK, Goto
<1>2. layer1' \in [Ids -> TimerStates] /\ budget' \in Budgets
  BY StopLayer1Type DEF Finish
<1>3. layer2' \in [Ids -> TimerStates] /\ fwTrial' \in 0..MaxTrials
  BY StopTrialTimersType DEF Finish
<1> QED BY <1>1, <1>2, <1>3 DEF TypeOK, Finish, rules, ghosts

LEMMA EndType ==
    ASSUME TypeOK, End
    PROVE  TypeOK'
<1>1. budget' \in Budgets
  BY BudgetType DEF End, TypeOK
<1>2. cs' \in Sections /\ cs'.step = "free"
  BY UnlockType DEF End
<1>3. rec' \in Records /\ calm' \subseteq Foreign
  BY NoRecType DEF End, TypeOK
<1> QED BY <1>1, <1>2, <1>3 DEF TypeOK, End, rules, timers

LEMMA KeepType ==
    ASSUME TypeOK, NEW id \in Ids, Keep(id)
    PROVE  TypeOK'
<1>1. layer1' \in [Ids -> TimerStates] /\ budget' \in Budgets
  <2>1. CASE UNCHANGED <<layer1, cs, budget>>
    BY <2>1 DEF TypeOK
  <2>2. CASE StopLayer1(rec)
    BY <2>2, StopLayer1Type
  <2> QED BY <2>1, <2>2 DEF Keep
<1>2. cs' \in Sections /\ (cs'.step \in {"commit", "uncommit"} => cs'.ops \in Seq(Changes))
  <2> DEFINE ops == IF Backend = "ufw" THEN << >> ELSE rec.plan
  <2>1. CASE UNCHANGED <<layer1, cs, budget>>
    BY <2>1 DEF TypeOK
  <2>2. CASE LockFor("bot", rec, "commit", ops)
    <3>1. rec \in Records
      BY DEF TypeOK
    <3>2. ops \in Seq(Changes)
      <4>1. rec.plan \in Seq(Changes)
        BY <3>1, RecordParts
      <4>2. << >> \in Seq(Changes)
        OBVIOUS
      <4> QED BY <4>1, <4>2
    <3> HIDE DEF ops
    <3>3. ops \in Seq(Ops) /\ "commit" \in Steps
      BY <3>2, OpsTypes DEF Steps
    <3>4. cs' \in Sections /\ cs'.ops = ops
      BY <2>2, <3>1, <3>3, LockForType
    <3> QED BY <3>2, <3>4
  <2> QED BY <2>1, <2>2 DEF Keep
<1>4. buttons' \subseteq {"keep", "rollback"} \X Ids
  BY DEF Keep, Mint, TypeOK
<1> QED BY <1>1, <1>2, <1>4 DEF TypeOK, Keep, rules, ghosts

LEMMA CommitType ==
    ASSUME TypeOK, SectionMatchesRecord, Commit
    PROVE  TypeOK'
<1>1. cs.step = "commit" /\ cs.ops \in Seq(Changes) /\ cs.rec.id \in Ids
  BY DEF Commit, At, TypeOK, SectionMatchesRecord
<1>2. ~Done => Head(cs.ops) \in Changes /\ Tail(cs.ops) \in Seq(Changes)
  BY <1>1 DEF Done
<1>3. budget' \in Budgets
  BY BudgetType DEF Commit, TypeOK
<1>4. cs' \in Sections /\ (cs'.step \in {"commit", "uncommit"} => cs'.ops \in Seq(Changes))
  <2> DEFINE undo == inverse(SubSeq(cs.rec.plan, 1, Len(cs.rec.plan) - Len(cs.ops)))
  <2>1. CASE ~Done /\ Next1
    BY <1>2, <2>1, Next1Type DEF TypeOK
  <2>2. CASE Do("uncommit", undo)
    <3>1. \A p \in Seq(Changes), n \in Int : n <= Len(p) => SubSeq(p, 1, n) \in Seq(Changes)
      OBVIOUS
    <3>2. cs.rec.plan \in Seq(Changes) /\ Len(cs.rec.plan) \in Nat /\ Len(cs.ops) \in Nat
      <4>1. cs.rec \in Records
        BY SectionParts DEF TypeOK
      <4>2. cs.rec.plan \in Seq(Changes)
        BY <4>1, RecordParts
      <4>3. \A p \in Seq(Changes) : Len(p) \in Nat
        OBVIOUS
      <4> QED BY <1>1, <4>2, <4>3
    <3>3. SubSeq(cs.rec.plan, 1, Len(cs.rec.plan) - Len(cs.ops)) \in Seq(Changes)
      BY <3>1, <3>2
    <3>4. undo \in Seq(Changes) /\ undo \in Seq(Ops) /\ "uncommit" \in Steps
      BY <3>3, InverseType, OpsTypes DEF Steps
    <3> HIDE DEF undo
    <3> QED BY <2>2, <3>4, SectionParts, ContinueType DEF TypeOK, Do
  <2>3. CASE Unlock
    BY <2>3, UnlockType
  <2> QED BY <2>1, <2>2, <2>3 DEF Commit
<1>5. stored' \in RuleSets
  BY <1>2, ChangedType DEF Commit, TypeOK
<1>6. /\ rec' \in Records /\ agreed' \in RuleSets /\ kept' \subseteq Ids /\ calm' \subseteq Foreign
  BY <1>1, NoRecType, HashType DEF Commit, TypeOK
<1>7. layer2' \in [Ids -> TimerStates] /\ fwTrial' \in 0..MaxTrials
  BY StopTrialTimersType DEF Commit, TypeOK
<1> QED BY <1>3, <1>4, <1>5, <1>6, <1>7 DEF TypeOK, Commit

LEMMA UncommitType ==
    ASSUME TypeOK, Uncommit
    PROVE  TypeOK'
<1>1. cs.step = "uncommit" /\ cs.ops \in Seq(Changes)
  BY DEF Uncommit, At, TypeOK
<1>2. ~Done => Head(cs.ops) \in Changes /\ Tail(cs.ops) \in Seq(Changes)
  BY <1>1 DEF Done
<1>3. budget' \in Budgets
  BY BudgetType DEF Uncommit, TypeOK
<1>4. cs' \in Sections /\ (cs'.step \in {"commit", "uncommit"} => cs'.ops \in Seq(Changes))
  <2>1. CASE ~Done /\ Next1
    BY <1>2, <2>1, Next1Type DEF TypeOK
  <2>2. CASE Unlock
    BY <2>2, UnlockType
  <2> QED BY <2>1, <2>2 DEF Uncommit
<1>5. stored' \in RuleSets
  BY <1>2, ChangedType DEF Uncommit, TypeOK
<1> QED BY <1>3, <1>4, <1>5 DEF TypeOK, Uncommit, timers, ghosts

LEMMA RollBackNowType ==
    ASSUME TypeOK, NEW id \in Ids, RollBackNow(id)
    PROVE  TypeOK'
<1>1. cs' \in Sections /\ (cs'.step \in {"commit", "uncommit"} => cs'.ops \in Seq(Changes))
  <2>1. CASE Lock("bot", rec, "rollback")
    <3>1. << >> \in Seq(Ops) /\ "rollback" \in Steps
      BY DEF Steps
    <3> QED BY <2>1, <3>1, LockForType DEF Lock, TypeOK
  <2>2. CASE UNCHANGED cs
    BY <2>2 DEF TypeOK
  <2> QED BY <2>1, <2>2 DEF RollBackNow
<1> QED BY <1>1 DEF TypeOK, RollBackNow, rules, timers, ghosts

LEMMA TimersType ==
    ASSUME TypeOK, NEW id \in Ids, Deadline \/ FireLayer1(id) \/ FireLayer2(id)
    PROVE  TypeOK'
<1>1. layer1' \in [Ids -> TimerStates] /\ layer2' \in [Ids -> TimerStates] /\ late' \in BOOLEAN
  BY DEF Deadline, FireLayer1, FireLayer2, TypeOK, timers, TimerStates
<1> QED BY <1>1 DEF TypeOK, Deadline, FireLayer1, FireLayer2, rules, timers, ghosts

LEMMA LayersType ==
    ASSUME TypeOK, NEW id \in Ids, RunFwRollback(id) \/ autoRollback(id)
    PROVE  TypeOK'
<1>1. budget' \in Budgets
  BY BudgetType DEF RunFwRollback, autoRollback, TypeOK
<1>2. cs' \in Sections /\ (cs'.step \in {"commit", "uncommit"} => cs'.ops \in Seq(Changes))
  <2>1. CASE \E who \in {"layer1", "layer2"} : Lock(who, rec, "rollback")
    <3>1. << >> \in Seq(Ops) /\ "rollback" \in Steps /\ rec \in Records
      BY DEF Steps, TypeOK
    <3>2. PICK who \in {"layer1", "layer2"} : LockFor(who, rec, "rollback", << >>)
      BY <2>1 DEF Lock
    <3>3. cs' \in Sections /\ cs'.step = "rollback"
      BY <3>1, <3>2, LockForType
    <3> QED BY <3>3
  <2>2. CASE UNCHANGED cs
    BY <2>2 DEF TypeOK
  <2> QED BY <2>1, <2>2 DEF RunFwRollback, autoRollback
<1>3. /\ layer1' \in [Ids -> TimerStates] /\ layer2' \in [Ids -> TimerStates]
      /\ fwTrial' \in 0..MaxTrials
  BY BoundsAssumption DEF RunFwRollback, autoRollback, TypeOK, TimerStates
<1> QED BY <1>1, <1>2, <1>3 DEF TypeOK, RunFwRollback, autoRollback, rules, ghosts

LEMMA ReconcileType ==
    ASSUME TypeOK, SectionMatchesRecord, reconcileFwTrial
    PROVE  TypeOK'
<1>1. budget' \in Budgets /\ up' \in BOOLEAN
  BY BudgetType DEF reconcileFwTrial, TypeOK
<1>2. snaps' \in [Ids -> SUBSET RuleSets]
  BY PruneType DEF reconcileFwTrial, TypeOK
<1>3. cs' \in Sections /\ (cs'.step \in {"commit", "uncommit"} => cs'.ops \in Seq(Changes))
  <2>1. CASE Lock("boot", rec, "rollback")
    <3>1. << >> \in Seq(Ops) /\ "rollback" \in Steps
      BY DEF Steps
    <3> QED BY <2>1, <3>1, LockForType DEF Lock, TypeOK
  <2>2. CASE UNCHANGED cs
    BY <2>2 DEF TypeOK
  <2> QED BY <2>1, <2>2 DEF reconcileFwTrial
<1>4. /\ layer2' \in [Ids -> TimerStates] /\ fwTrial' \in 0..MaxTrials
      /\ buttons' \subseteq {"keep", "rollback"} \X Ids
  <2>1. CASE UNCHANGED <<layer2, fwTrial, buttons>>
    BY <2>1 DEF TypeOK
  <2>2. CASE rec # NoRec /\ armTrial(rec.id)
    BY <2>2, ArmTrialType DEF SectionMatchesRecord
  <2> QED BY <2>1, <2>2 DEF reconcileFwTrial
<1> QED BY <1>1, <1>2, <1>3, <1>4 DEF TypeOK, reconcileFwTrial, rules, ghosts

LEMMA EnvironmentType ==
    ASSUME TypeOK, Environment
    PROVE  TypeOK'
<1>1. CASE \E c \in Conns : NewConn(c) \/ EndConn(c)
  <2>1. conns' \subseteq Conns /\ opened' \in [begun : SUBSET Conns, changed : SUBSET Conns]
    BY <1>1 DEF NewConn, EndConn, TypeOK, ghosts
  <2> QED BY <1>1, <2>1 DEF NewConn, EndConn, TypeOK, rules, timers, ghosts
<1>2. ASSUME NEW x \in Foreign, NEW op \in {"add", "delete"}, ForeignEdit(x, op)
      PROVE  TypeOK'
  <2>1. [op |-> op, rules |-> {x}] \in Changes
    BY DEF Changes, AllRules
  <2>2. stored' \in RuleSets /\ live' \in RuleSets
    BY <1>2, <2>1, ChangedType DEF ForeignEdit, TypeOK
  <2>3. \A n \in 0..MaxEdits : n > 0 => n - 1 \in 0..MaxEdits
    BY BoundsAssumption
  <2>4. budget' \in Budgets
    BY <1>2, <2>3 DEF ForeignEdit, TypeOK, Budgets
  <2>5. calm' \subseteq Foreign
    BY <1>2 DEF ForeignEdit, TypeOK
  <2> QED BY <1>2, <2>2, <2>4, <2>5 DEF ForeignEdit, TypeOK, timers
<1>3. CASE CrashAgent \/ CrashLayer1 \/ Reboot
  <2>1. \A n \in 0..MaxCrashes : n > 0 => n - 1 \in 0..MaxCrashes
    BY BoundsAssumption
  <2>2. budget' \in Budgets
    BY <1>3, <2>1 DEF CrashAgent, CrashLayer1, Reboot, Strikes, TypeOK, Budgets
  <2>3. cs' \in Sections /\ (cs'.step \in {"commit", "uncommit"} => cs'.ops \in Seq(Changes))
    BY <1>3, UnlockType DEF CrashAgent, CrashLayer1, Reboot, TypeOK, Unlock
  <2>4. /\ layer1' \in [Ids -> TimerStates] /\ layer2' \in [Ids -> TimerStates]
        /\ up' \in BOOLEAN /\ fwTrial' \in 0..MaxTrials
        /\ buttons' \subseteq {"keep", "rollback"} \X Ids
    <3>1. CASE ForgetTrial
      <4>1. 0 \in 0..MaxTrials
        BY BoundsAssumption
      <4>2. layer1' \in [Ids -> TimerStates]
        BY <1>3 DEF CrashAgent, CrashLayer1, Reboot, TypeOK, TimerStates, timers
      <4> QED BY <3>1, <4>1, <4>2 DEF ForgetTrial, TimerStates
    <3>2. CASE UNCHANGED <<timers, up, fwTrial, buttons>>
      BY <3>2 DEF TypeOK, timers
    <3> QED BY <1>3, <3>1, <3>2 DEF CrashAgent, CrashLayer1, Reboot
  <2>5. /\ stored' \in RuleSets /\ live' \in RuleSets /\ conns' \subseteq Conns
        /\ verified' \subseteq Ids /\ calm' \subseteq Foreign
    BY <1>3 DEF CrashAgent, CrashLayer1, Reboot, TypeOK, rules, ghosts
  <2> QED BY <1>3, <2>2, <2>3, <2>4, <2>5
          DEF CrashAgent, CrashLayer1, Reboot, ForgetTrial, TypeOK, rules, timers, ghosts
<1> QED BY <1>1, <1>2, <1>3 DEF Environment

-----------------------------------------------------------------------------
(* A pending trial has its snapshot, and no rule changes without one.      *)

\* A step of the section that keeps its copy of the record, the record on
\* disk and the snapshots keeps the two matched.
LEMMA SectionKept ==
    ASSUME SectionMatchesRecord, UNCHANGED <<rec, snaps>>,
           \/ cs'.step = "free"
           \/ /\ cs.step # "free" /\ cs'.step \notin {"snapshot", "record"}
              /\ cs'.rec = cs.rec /\ rec # NoRec
           \/ cs'.rec = rec /\ rec # NoRec /\ cs'.step \notin {"snapshot", "record"}
           \/ UNCHANGED cs
    PROVE  SectionMatchesRecord'
  BY DEF SectionMatchesRecord, Ids

\* What the building blocks do to the section, without its types.
LEMMA SectionMoves ==
    ASSUME cs \in Sections
    PROVE  /\ \A step, ops, failed, r : Continue(step, ops, failed, r)
                 => cs'.step = step /\ cs'.rec = r
           /\ \A step : Goto(step) => cs'.step = step /\ cs'.rec = cs.rec
           /\ \A step, r : GotoWith(step, r) => cs'.step = step /\ cs'.rec = r
           /\ \A step, ops : Do(step, ops) => cs'.step = step /\ cs'.rec = cs.rec
           /\ Next1 => cs'.step = cs.step /\ cs'.rec = cs.rec
           /\ \A who, r, step, ops : LockFor(who, r, step, ops)
                 => cs'.step = step /\ cs'.rec = r
           /\ Unlock => cs'.step = "free"
<1>1. ASSUME NEW step, NEW ops, NEW failed, NEW r, Continue(step, ops, failed, r)
      PROVE  cs'.step = step /\ cs'.rec = r
  BY <1>1 DEF Continue, Sections
<1>2. \A step : Goto(step) => cs'.step = step /\ cs'.rec = cs.rec
  BY <1>1 DEF Goto
<1>3. \A step, r : GotoWith(step, r) => cs'.step = step /\ cs'.rec = r
  BY <1>1 DEF GotoWith
<1>4. \A step, ops : Do(step, ops) => cs'.step = step /\ cs'.rec = cs.rec
  BY <1>1 DEF Do
<1>5. Next1 => cs'.step = cs.step /\ cs'.rec = cs.rec
  BY <1>4 DEF Next1
<1>6. \A who, r, step, ops : LockFor(who, r, step, ops) => cs'.step = step /\ cs'.rec = r
  BY DEF LockFor
<1>7. Unlock => cs'.step = "free"
  BY DEF Unlock, Unlocked
<1> QED BY <1>1, <1>2, <1>3, <1>4, <1>5, <1>6, <1>7

LEMMA StepMatches ==
    ASSUME TypeOK, SectionMatchesRecord, Step
    PROVE  SectionMatchesRecord'
<1> cs \in Sections
  BY DEF TypeOK
<1>1. CASE Snapshot
  <2>1. cs.rec.id \in Ids /\ rec = NoRec /\ UNCHANGED rec
    BY <1>1 DEF Snapshot, At, SectionMatchesRecord
  <2>2. CASE Unlock
    BY <2>1, <2>2, SectionMoves DEF SectionMatchesRecord
  <2>3. CASE /\ snaps' = [snaps EXCEPT ![cs.rec.id] = {Hash}]
             /\ GotoWith("record", [cs.rec EXCEPT !.pre = Hash])
    <3>1. cs'.step = "record" /\ cs'.rec = [cs.rec EXCEPT !.pre = Hash]
      BY <2>3, SectionMoves
    <3>2. cs'.rec.pre = Hash /\ cs'.rec.id = cs.rec.id
      BY <3>1, SectionParts DEF Records
    <3>3. snaps'[cs.rec.id] = {Hash}
      BY <2>1, <2>3 DEF TypeOK
    <3> QED BY <2>1, <3>1, <3>2, <3>3 DEF SectionMatchesRecord
  <2> QED BY <1>1, <2>2, <2>3 DEF Snapshot
<1>2. CASE Record
  <2>1. cs.rec.id \in Ids /\ rec = NoRec /\ snaps[cs.rec.id] = {cs.rec.pre}
    BY <1>2 DEF Record, At, SectionMatchesRecord
  <2>2. CASE Unlock /\ UNCHANGED rec
    BY <2>1, <2>2, SectionMoves DEF SectionMatchesRecord
  <2>3. CASE rec' = cs.rec /\ Goto("arm") /\ UNCHANGED snaps
    <3>1. cs'.step = "arm" /\ cs'.rec = cs.rec
      BY <2>3, SectionMoves
    <3>2. rec' # NoRec
      BY <2>1, <2>3, BoundsAssumption DEF NoRec, Ids
    <3> QED BY <2>1, <2>3, <3>1, <3>2 DEF SectionMatchesRecord
  <2> QED BY <1>2, <2>2, <2>3 DEF Record
<1>3. CASE Baseline \/ Post \/ armLayer1
  <2>1. /\ rec # NoRec /\ rec.id = cs.rec.id /\ rec.pre = cs.rec.pre
        /\ rec.id \in Ids /\ snaps[rec.id] = {rec.pre} /\ UNCHANGED snaps
    BY <1>3 DEF Baseline, Post, armLayer1, At, SectionMatchesRecord
  <2>2. /\ cs'.step \in {"apply", "finish", "verify", "baseline"}
        /\ cs'.rec.id = cs.rec.id /\ cs'.rec.pre = cs.rec.pre
        /\ rec' = rec \/ rec' = cs'.rec
    <3> DEFINE armed == [cs.rec EXCEPT !.layer1 = TRUE]
               done  == [cs.rec EXCEPT !.post = {Hash}]
    <3>0. /\ armed.id = cs.rec.id /\ armed.pre = cs.rec.pre
          /\ done.id = cs.rec.id /\ done.pre = cs.rec.pre
      BY SectionParts DEF Records
    <3>1. CASE armLayer1
      <4>1. UNCHANGED rec /\ (GotoWith("baseline", armed) \/ Goto("baseline"))
        BY <3>1 DEF armLayer1
      <4> HIDE DEF armed
      <4> QED BY <3>0, <4>1, SectionMoves
    <3>2. CASE Baseline
      BY <3>2, SectionMoves, SectionParts DEF Baseline, Records
    <3>3. CASE Post
      <4>1. \/ rec' = done /\ GotoWith("verify", done)
            \/ UNCHANGED rec /\ (GotoWith("verify", done) \/ Goto("verify"))
        BY <3>3 DEF Post
      <4> HIDE DEF done
      <4> QED BY <3>0, <4>1, SectionMoves
    <3> QED BY <1>3, <3>1, <3>2, <3>3
  <2>3. rec'.id \in Ids /\ rec'.id = cs'.rec.id /\ rec'.pre = cs'.rec.pre
        /\ rec'.id = rec.id /\ rec'.pre = rec.pre
    BY <2>1, <2>2
  <2>4. rec' # NoRec
    BY <2>3, BoundsAssumption DEF NoRec, Ids
  <2> QED BY <2>1, <2>2, <2>3, <2>4 DEF SectionMatchesRecord
<1>4. CASE End \/ (Commit /\ rec' # rec)
  <2>1. cs'.step = "free" /\ (rec' = NoRec \/ rec' = rec) /\ UNCHANGED snaps
    BY <1>4, SectionMoves DEF End, Commit
  <2> QED BY <2>1 DEF SectionMatchesRecord
<1>5. CASE Apply \/ Verify \/ Decide \/ Revert \/ Guard \/ Restore
           \/ FwdReload \/ Finish \/ Uncommit \/ (Commit /\ rec' = rec)
  <2>1. /\ cs.step \notin {"free", "snapshot", "record"} /\ rec # NoRec
        /\ UNCHANGED <<rec, snaps>>
    BY <1>5 DEF Apply, Verify, Decide, Revert, Guard, Restore, FwdReload, Finish,
                Uncommit, Commit, At, SectionMatchesRecord
  <2>2. \/ cs'.step = "free"
        \/ cs'.step \notin {"snapshot", "record"} /\ cs'.rec = cs.rec
    <3>1. CASE Apply
      <4>1. CASE Goto("post") \/ Next1
        BY <2>1, <4>1, SectionMoves
      <4>2. CASE Continue("apply", << >>, TRUE, cs.rec)
        BY <2>1, <4>2 DEF Continue, Sections
      <4> QED BY <3>1, <4>1, <4>2 DEF Apply
    <3>2. CASE Verify
      BY <2>1, <3>2, SectionMoves DEF Verify
    <3>3. CASE Decide
      <4>1. Continue("revert", RevertOps(cs.rec.plan), FALSE, cs.rec)
              => cs'.step = "revert" /\ cs'.rec = cs.rec
        BY DEF Continue, Sections
      <4>2. \/ Unlock \/ Goto("finish")
            \/ cs'.step = "revert" /\ cs'.rec = cs.rec
            \/ Do("restore", RestoreOps(cs.rec.pre))
        BY <3>3, <4>1 DEF Decide
      <4> QED BY <2>1, <4>2, SectionMoves
    <3>4. CASE Revert
      BY <2>1, <3>4, SectionMoves DEF Revert
    <3>5. CASE Guard
      BY <2>1, <3>5, SectionMoves DEF Guard
    <3>6. CASE Restore
      BY <2>1, <3>6, SectionMoves DEF Restore
    <3>7. CASE FwdReload
      BY <2>1, <3>7, SectionMoves DEF FwdReload
    <3>8. CASE Finish
      BY <2>1, <3>8, SectionMoves DEF Finish
    <3>9. CASE Uncommit
      BY <2>1, <3>9, SectionMoves DEF Uncommit
    <3>10. CASE Commit
      <4>1. Next1 \/ Unlock \/ \E ops : Do("uncommit", ops)
        BY <3>10 DEF Commit
      <4> QED BY <2>1, <4>1, SectionMoves
    <3> QED BY <1>5, <3>1, <3>2, <3>3, <3>4, <3>5,
           <3>6, <3>7, <3>8, <3>9, <3>10
  <2> QED BY <2>1, <2>2, SectionKept
<1> QED BY <1>1, <1>2, <1>3, <1>4, <1>5 DEF Step, Trial, Rollback

LEMMA UserMatches ==
    ASSUME TypeOK, SectionMatchesRecord, User
    PROVE  SectionMatchesRecord'
<1> cs \in Sections
  BY DEF TypeOK
<1>1. ASSUME NEW open \in BOOLEAN, StartTrial(open)
      PROVE  SectionMatchesRecord'
  <2>1. newFwID \in Ids
    BY <1>1, BoundsAssumption DEF StartTrial, TypeOK, Budgets, newFwID
  <2>2. cs'.step = "snapshot" /\ cs'.rec.id = newFwID /\ rec' = NoRec
    BY <1>1, SectionMoves DEF StartTrial, Lock, NoRec
  <2> QED BY <2>1, <2>2 DEF SectionMatchesRecord
<1>2. ASSUME NEW id \in Ids, Keep(id) \/ RollBackNow(id)
      PROVE  SectionMatchesRecord'
  <2>1. rec.id = id => rec # NoRec
    BY BoundsAssumption DEF NoRec, Ids
  <2>2. \/ UNCHANGED cs
        \/ rec # NoRec /\ cs'.rec = rec /\ cs'.step \in {"commit", "rollback"}
    BY <1>2, <2>1, SectionMoves DEF Keep, RollBackNow, Lock
  <2>3. UNCHANGED <<rec, snaps>>
    BY <1>2 DEF Keep, RollBackNow
  <2> QED BY <2>2, <2>3, SectionKept
<1> QED BY <1>1, <1>2 DEF User

LEMMA LayersMatches ==
    ASSUME TypeOK, SectionMatchesRecord, Layers
    PROVE  SectionMatchesRecord'
<1> cs \in Sections
  BY DEF TypeOK
<1>1. CASE Deadline \/ \E id \in Ids : FireLayer1(id) \/ FireLayer2(id)
  <2>1. UNCHANGED <<rec, snaps, cs>>
    BY <1>1 DEF Deadline, FireLayer1, FireLayer2
  <2> QED BY <2>1, SectionKept
<1>2. ASSUME NEW id \in Ids, RunFwRollback(id) \/ autoRollback(id)
      PROVE  SectionMatchesRecord'
  <2>1. rec.id = id => rec # NoRec
    BY BoundsAssumption DEF NoRec, Ids
  <2>2. \/ UNCHANGED cs
        \/ rec # NoRec /\ cs'.rec = rec /\ cs'.step = "rollback"
    BY <1>2, <2>1, SectionMoves DEF RunFwRollback, autoRollback, Lock
  <2>3. UNCHANGED <<rec, snaps>>
    BY <1>2 DEF RunFwRollback, autoRollback
  <2> QED BY <2>2, <2>3, SectionKept
<1>3. CASE reconcileFwTrial
  <2>1. Free /\ UNCHANGED rec
    BY <1>3 DEF reconcileFwTrial
  <2>2. rec # NoRec => snaps'[rec.id] = snaps[rec.id]
    BY <1>3 DEF reconcileFwTrial, pruneSnapshots, SectionMatchesRecord
  <2>3. \/ UNCHANGED cs
        \/ rec # NoRec /\ cs'.rec = rec /\ cs'.step = "rollback"
    BY <1>3, SectionMoves DEF reconcileFwTrial, Lock
  <2> QED BY <2>1, <2>2, <2>3 DEF SectionMatchesRecord, Free
<1> QED BY <1>1, <1>2, <1>3 DEF Layers

LEMMA EnvironmentMatches ==
    ASSUME TypeOK, SectionMatchesRecord, Environment
    PROVE  SectionMatchesRecord'
<1> cs \in Sections
  BY DEF TypeOK
<1>1. UNCHANGED <<rec, snaps>> /\ (cs' = cs \/ cs' = Unlocked)
  <2>1. CASE \E c \in Conns : NewConn(c) \/ EndConn(c)
    BY <2>1 DEF NewConn, EndConn
  <2>2. CASE \E x \in Foreign, op \in {"add", "delete"} : ForeignEdit(x, op)
    BY <2>2 DEF ForeignEdit
  <2>3. CASE CrashAgent
    BY <2>3 DEF CrashAgent
  <2>4. CASE CrashLayer1
    BY <2>4 DEF CrashLayer1, Unlock
  <2>5. CASE Reboot
    BY <2>5 DEF Reboot, Unlock
  <2> QED BY <2>1, <2>2, <2>3, <2>4, <2>5 DEF Environment
<1>2. Unlocked.step = "free"
  BY DEF Unlocked
<1> QED BY <1>1, <1>2, SectionKept

LEMMA StepType ==
    ASSUME IInv, Step
    PROVE  TypeOK'
  BY SnapshotType, RecordType, ArmLayer1Type, BaselineType, ApplyType, PostType,
     VerifyType, DecideType, RevertType, GuardType, RestoreType, FwdReloadType,
     FinishType, EndType, CommitType, UncommitType
     DEF IInv, Step, Trial, Rollback

LEMMA NextKeepsIInv == IInv /\ [Next]_vars => IInv'
<1> SUFFICES ASSUME IInv, [Next]_vars PROVE IInv'
  OBVIOUS
<1>1. CASE Step
  BY <1>1, StepType, StepMatches DEF IInv
<1>2. CASE User
  BY <1>2, UserMatches, StartTrialType, KeepType, RollBackNowType DEF IInv, User
<1>3. CASE Layers
  <2>1. 1 \in Ids
    BY BoundsAssumption
  <2>2. TypeOK'
    <3>1. CASE Deadline
      BY <2>1, <3>1, TimersType DEF IInv
    <3>2. ASSUME NEW id \in Ids, FireLayer1(id) \/ FireLayer2(id)
          PROVE  TypeOK'
      BY <3>2, TimersType DEF IInv
    <3>3. ASSUME NEW id \in Ids, RunFwRollback(id) \/ autoRollback(id)
          PROVE  TypeOK'
      BY <3>3, LayersType DEF IInv
    <3>4. CASE reconcileFwTrial
      BY <3>4, ReconcileType DEF IInv
    <3> QED BY <1>3, <3>1, <3>2, <3>3, <3>4 DEF Layers
  <2> QED BY <1>3, <2>2, LayersMatches DEF IInv
<1>4. CASE Environment
  BY <1>4, EnvironmentMatches, EnvironmentType DEF IInv
<1>5. CASE UNCHANGED vars
  <2>1. TypeOK'
    BY <1>5 DEF IInv, TypeOK, vars, rules, timers, ghosts
  <2>2. SectionMatchesRecord'
    BY <1>5, SectionKept DEF IInv, vars
  <2> QED BY <2>1, <2>2 DEF IInv
<1> QED BY <1>1, <1>2, <1>3, <1>4, <1>5 DEF Next

\* The inductive invariant: the types, and that the record on disk, the
\* section's copy of it and the snapshot directory agree.
THEOREM InductiveInvariant == Spec => []IInv
<1>1. Init => IInv
  <2>1. Init => SectionMatchesRecord
    BY DEF Init, SectionMatchesRecord, Unlocked
  <2> QED BY <2>1, InitType DEF IInv
<1> QED BY <1>1, NextKeepsIInv, PTL DEF Spec

\* Every variable keeps its type.
THEOREM TypeCorrect == Spec => []TypeOK
<1>1. IInv => TypeOK
  BY DEF IInv
<1> QED BY <1>1, InductiveInvariant, PTL

\* A trial that is pending on disk can be taken back from its snapshot,
\* whatever fails or restarts.
THEOREM SnapshotCorrect == Spec => []TrialHasSnapshot
<1>1. IInv => TrialHasSnapshot
  BY DEF IInv, SectionMatchesRecord, TrialHasSnapshot
<1> QED BY <1>1, InductiveInvariant, PTL

\* A foreign edit is none of SSH's rules.
LEMMA ForeignEditSSH ==
    ASSUME TypeOK, NEW x \in Foreign, NEW op \in {"add", "delete"}, ForeignEdit(x, op)
    PROVE  SSHPart(Hash)' = SSHPart(Hash)
<1> DEFINE c == [op |-> op, rules |-> {x}]
<1>1. x \notin SSHRules
  BY ForeignAssumption DEF SSHRules
<1>2. \A R \in RuleSets : SSHPart(Changed(R, c)) = SSHPart(R)
  BY <1>1 DEF SSHPart, Changed, RuleSets
<1>3. SSHPart(Changed(stored, c)) = SSHPart(stored) /\ SSHPart(Changed(live, c)) = SSHPart(live)
  BY <1>2 DEF TypeOK
<1>4. live' = Changed(live, c) /\ stored' \in {stored, Changed(stored, c)}
  BY DEF ForeignEdit
<1>5. SSHPart(Hash)' = SSHPart(IF Backend = "ufw" THEN stored' ELSE live')
  BY DEF SSHPart, Hash
<1> HIDE DEF c
<1>6. CASE Backend = "ufw"
  BY <1>3, <1>4, <1>5, <1>6 DEF Hash
<1>7. CASE Backend # "ufw"
  BY <1>3, <1>4, <1>5, <1>7 DEF Hash
<1> QED BY <1>6, <1>7

\* No step but a reboot changes an SSH rule while no record on disk names
\* the snapshot to go back to.
THEOREM ChangeUnderRecordCorrect == Spec => ChangeUnderRecord
<1> DEFINE Recorded == rec # NoRec /\ snaps[rec.id] = {rec.pre}
           Steady   == SSHPart(Hash)' # SSHPart(Hash) /\ ~Reboot => Recorded
<1>1. ASSUME IInv, [Next]_vars
      PROVE  Steady
  <2>1. UNCHANGED rules => Steady
    BY DEF rules, SSHPart, Hash
  <2>2. cs.step \notin {"free", "snapshot", "record"} => Recorded
    BY <1>1 DEF IInv, SectionMatchesRecord
  <2> HIDE DEF Recorded
  <2>3. CASE Step
    <3>1. CASE Snapshot \/ Record \/ armLayer1 \/ Baseline \/ Post \/ Verify
      BY <2>1, <3>1 DEF Snapshot, Record, armLayer1, Baseline, Post, Verify
    <3>2. CASE Decide \/ Guard \/ Finish \/ End
      BY <2>1, <3>2 DEF Decide, Guard, Finish, End
    <3>3. CASE Apply \/ Revert \/ Restore \/ FwdReload \/ Commit \/ Uncommit
      BY <2>2, <3>3 DEF Apply, Revert, Restore, FwdReload, Commit, Uncommit, At
    <3> QED BY <2>3, <3>1, <3>2, <3>3 DEF Step, Trial, Rollback
  <2>4. CASE User
    BY <2>1, <2>4 DEF User, StartTrial, Keep, RollBackNow
  <2>5. CASE Layers
    BY <2>1, <2>5 DEF Layers, Deadline, FireLayer1, FireLayer2, RunFwRollback,
                      autoRollback, reconcileFwTrial
  <2>6. CASE Environment
    <3>1. CASE \E c \in Conns : NewConn(c) \/ EndConn(c)
      BY <2>1, <3>1 DEF NewConn, EndConn
    <3>2. CASE \E x \in Foreign, op \in {"add", "delete"} : ForeignEdit(x, op)
      BY <1>1, <3>2, ForeignEditSSH DEF IInv
    <3>3. CASE CrashAgent \/ CrashLayer1
      BY <2>1, <3>3 DEF CrashAgent, CrashLayer1
    <3>4. CASE Reboot
      BY <3>4
    <3> QED BY <2>6, <3>1, <3>2, <3>3, <3>4 DEF Environment
  <2>7. CASE UNCHANGED vars
    BY <2>1, <2>7 DEF vars
  <2> QED BY <1>1, <2>3, <2>4, <2>5, <2>6, <2>7 DEF Next
<1>2. IInv /\ [Next]_vars => [Steady]_vars
  BY <1>1
<1> QED BY <1>2, InductiveInvariant, PTL DEF Spec, ChangeUnderRecord

LEMMA UnlockedFields ==
    /\ Unlocked.step = "free" /\ Unlocked.ops = << >> /\ Unlocked.rec = NoRec
    /\ Unlocked.failed = FALSE /\ Unlocked.by = "none"
    /\ NoRec.id = 0 /\ NoRec.plan = << >> /\ NoRec.post = {} /\ NoRec.open = TRUE
  BY DEF Unlocked, NoRec

\* A pending record is known by its ID.
LEMMA PendingById ==
    ASSUME NEW id \in Ids, rec.id = id
    PROVE  rec # NoRec
  BY BoundsAssumption DEF NoRec, Ids

-----------------------------------------------------------------------------
(* Plans, and what is left of them, touch SSH rules only.                  *)

SSHChanges == [op : {"add", "delete"}, rules : SUBSET SSHRules]
Loads      == [op : {"reload"}]
Plans      == Seq(SSHChanges)
Workloads == IF Backend = "ufw" THEN Seq(SSHChanges \cup Loads) ELSE Seq(SSHChanges)

SSHOnly ==
    /\ rec.plan \in Plans /\ cs.rec.plan \in Plans
    /\ cs.step \in {"apply", "revert"} => cs.ops \in Workloads
    /\ cs.step \in {"commit", "uncommit"} => cs.ops \in Plans

LEMMA PlansLeft ==
    /\ << >> \in Plans
    /\ \A q \in Plans : q # << >> => Head(q) \in SSHChanges /\ Tail(q) \in Plans
    /\ \A q \in Plans : \A k \in Nat : SubSeq(q, 1, Len(q) - k) \in Plans
<1>1. ASSUME NEW q \in Plans, NEW k \in Nat
      PROVE  SubSeq(q, 1, Len(q) - k) \in Plans
  <2>1. Len(q) - k \in Int /\ Len(q) - k <= Len(q)
    BY DEF Plans
  <2> QED BY <2>1 DEF Plans
<1> QED BY <1>1 DEF Plans

LEMMA WorkLeft ==
    /\ << >> \in Workloads
    /\ \A q \in Workloads : q # << >> =>
          /\ Head(q) \in SSHChanges \cup Loads
          /\ Backend # "ufw" => Head(q) \in SSHChanges
          /\ Tail(q) \in Workloads
  BY DEF Workloads

LEMMA PlanSSH ==
    ASSUME NEW R, NEW open \in BOOLEAN
    PROVE  sshPortPlan(R, open) \in Plans
<1>1. \A r \in SSHRules : Delete(R, r) \in Seq(SSHChanges)
  <2> TAKE r \in SSHRules
  <2>1. [op |-> "delete", rules |-> {r}] \in SSHChanges
    BY DEF SSHChanges
  <2>2. \A c \in SSHChanges : << c >> \in Seq(SSHChanges)
    OBVIOUS
  <2>3. << >> \in Seq(SSHChanges)
    OBVIOUS
  <2> QED BY <2>1, <2>2, <2>3 DEF Delete
<1>2. \A r \in SSHRules : << [op |-> "add", rules |-> {r}] >> \in Seq(SSHChanges)
  BY DEF SSHChanges
<1>3. \A p, q, r \in Seq(SSHChanges) : p \o q \o r \in Seq(SSHChanges)
  OBVIOUS
<1> QED BY <1>1, <1>2, <1>3 DEF sshPortPlan, SSHRules, Plans

LEMMA InverseSSH ==
    ASSUME NEW p \in Plans
    PROVE  inverse(p) \in Plans
<1> DEFINE inv(c) == [op |-> IF c.op = "delete" THEN "add" ELSE "delete",
                      rules |-> c.rules]
<1>1. \A c \in SSHChanges : inv(c) \in SSHChanges
  BY DEF SSHChanges
<1>2. \A k \in 1..Len(p) : p[Len(p) + 1 - k] \in SSHChanges
  BY DEF Plans
<1>3. inverse(p) = [k \in 1..Len(p) |-> inv(p[Len(p) + 1 - k])]
  BY DEF inverse
<1> HIDE DEF inv
<1> QED BY <1>1, <1>2, <1>3, IsASeq DEF Plans

\* What Apply and Revert run.
LEMMA OpsSSH ==
    ASSUME NEW p \in Plans
    PROVE  ApplyOps(p) \in Workloads /\ RevertOps(p) \in Workloads
<1>1. Reload \in Seq(SSHChanges \cup Loads)
  BY DEF Reload, Loads
<1>2. \A q \in Seq(SSHChanges) : q \in Seq(SSHChanges \cup Loads)
  OBVIOUS
<1>3. \A q, r \in Seq(SSHChanges \cup Loads) : q \o r \in Seq(SSHChanges \cup Loads)
  OBVIOUS
<1>4. p \in Seq(SSHChanges) /\ inverse(p) \in Seq(SSHChanges)
  BY InverseSSH DEF Plans
<1> QED BY <1>1, <1>2, <1>3, <1>4 DEF ApplyOps, RevertOps, Workloads

LEMMA InitSSHOnly == Init => SSHOnly
<1> QED BY PlansLeft, UnlockedFields DEF Init, SSHOnly

LEMMA NextSSHOnly ==
    ASSUME IInv, SSHOnly, [Next]_vars
    PROVE  SSHOnly'
<1> cs \in Sections
  BY DEF IInv, TypeOK
<1>1. CASE Snapshot \/ Record \/ armLayer1 \/ Post \/ Verify
  <2>1. /\ cs'.step \notin {"apply", "revert", "commit", "uncommit"}
        /\ cs'.rec.plan \in Plans
        /\ rec' \in {rec, cs.rec} \/ rec'.plan = cs.rec.plan
    <3>1. CASE Snapshot
      BY <3>1, SectionParts, UnlockedFields, PlansLeft
         DEF Snapshot, SSHOnly, Records, GotoWith, Continue, Unlock, Sections
    <3>2. CASE Record
      BY <3>2, UnlockedFields, PlansLeft DEF Record, SSHOnly, Continue, Goto, GotoWith, Do, Next1, LockFor, Unlock, Sections
    <3>3. CASE armLayer1
      <4> DEFINE r == [cs.rec EXCEPT !.layer1 = TRUE]
      <4>1. r.plan = cs.rec.plan
        BY SectionParts DEF Records
      <4>2. UNCHANGED rec /\ (GotoWith("baseline", r) \/ Goto("baseline"))
        BY <3>3 DEF armLayer1
      <4> HIDE DEF r
      <4> QED BY <4>1, <4>2 DEF SSHOnly, Goto, GotoWith, Continue, Sections
    <3>4. CASE Post
      <4> DEFINE r == [cs.rec EXCEPT !.post = {Hash}]
      <4>1. r.plan = cs.rec.plan
        BY SectionParts DEF Records
      <4>2. rec' \in {rec, r} /\ (GotoWith("verify", r) \/ Goto("verify"))
        BY <3>4 DEF Post
      <4> HIDE DEF r
      <4> QED BY <4>1, <4>2 DEF SSHOnly, Continue, Goto, GotoWith, Do, Next1, LockFor, Unlock, Sections
    <3>5. CASE Verify
      BY <3>5, UnlockedFields, PlansLeft DEF Verify, SSHOnly, Continue, Goto, GotoWith, Do, Next1, LockFor, Unlock, Sections
    <3> QED BY <1>1, <3>1, <3>2, <3>3, <3>4, <3>5
  <2> QED BY <2>1 DEF SSHOnly
<1>2. CASE Baseline
  <2>1. CASE Goto("finish") /\ UNCHANGED rec
    BY <2>1 DEF SSHOnly, Continue, Goto, GotoWith, Do, Next1, LockFor, Unlock, Sections
  <2>2. CASE ~(Goto("finish") /\ UNCHANGED rec)
    <3>1. PICK seen : LET r == [cs.rec EXCEPT !.baseline = seen]
                      IN  rec' = r /\ Continue("apply", ApplyOps(r.plan), FALSE, r)
      BY <1>2, <2>2 DEF Baseline
    <3> DEFINE r == [cs.rec EXCEPT !.baseline = seen]
    <3>2. r.plan = cs.rec.plan
      BY SectionParts DEF Records
    <3>3. rec' = r /\ Continue("apply", ApplyOps(r.plan), FALSE, r)
      BY <3>1
    <3> HIDE DEF r
    <3>4. cs'.step = "apply" /\ cs'.ops = ApplyOps(cs.rec.plan) /\ cs'.rec = r
      BY <3>2, <3>3 DEF Continue, Goto, GotoWith, Do, Next1, LockFor, Unlock, Sections
    <3> QED BY <3>2, <3>3, <3>4, OpsSSH DEF SSHOnly
  <2> QED BY <2>1, <2>2
<1>3. CASE Apply \/ Revert
  <2>1. UNCHANGED rec /\ cs.step \in {"apply", "revert"}
    BY <1>3 DEF Apply, Revert, At
  <2>2. \/ Goto("post") \/ Goto("guard")
        \/ ~Done /\ Next1
        \/ ~Done /\ \E failed : Continue(cs.step, << >>, failed, cs.rec)
        \/ ~Done /\ \E failed : Continue(cs.step, Tail(cs.ops), failed, cs.rec)
    BY <1>3 DEF Apply, Revert, At
  <2>3. /\ cs'.rec = cs.rec
        /\ \/ cs'.step \in {"post", "guard"}
           \/ cs'.step = cs.step /\ cs'.ops = << >>
           \/ cs'.step = cs.step /\ cs.ops # << >> /\ cs'.ops = Tail(cs.ops)
    BY <2>2 DEF Done, Next1, Do, Goto, Continue, Sections
  <2> QED BY <2>1, <2>3, WorkLeft DEF SSHOnly
<1>4. CASE Decide
  <2>1. /\ cs'.rec \in {cs.rec, NoRec} /\ UNCHANGED rec
        /\ \/ cs'.step \notin {"apply", "revert", "commit", "uncommit"}
           \/ cs'.step = "revert" /\ cs'.ops = RevertOps(cs.rec.plan)
    BY <1>4, UnlockedFields, PlansLeft DEF Decide, Continue, Goto, GotoWith, Do, Next1, LockFor, Unlock, Sections
  <2> QED BY <1>4, <2>1, OpsSSH, UnlockedFields, PlansLeft DEF SSHOnly, Decide
<1>5. CASE Guard \/ Restore \/ FwdReload \/ Finish \/ End
  <2>1. /\ cs'.step \notin {"apply", "revert", "commit", "uncommit"}
        /\ cs'.rec \in {cs.rec, NoRec} /\ rec' \in {rec, NoRec}
    BY <1>5, UnlockedFields, PlansLeft
       DEF Guard, Restore, FwdReload, Finish, End, At, Continue, Goto, GotoWith, Do, Next1, LockFor, Unlock, Sections
  <2> QED BY <2>1, UnlockedFields, PlansLeft DEF SSHOnly
<1>6. CASE Commit \/ Uncommit
  <2>1. SubSeq(cs.rec.plan, 1, Len(cs.rec.plan) - Len(cs.ops)) \in Plans
    <3>1. cs.rec.plan \in Plans /\ Len(cs.ops) \in Nat
      BY SectionParts DEF SSHOnly
    <3> QED BY <3>1, PlansLeft
  <2>2. /\ cs'.rec \in {cs.rec, NoRec} /\ rec' \in {rec, NoRec}
        /\ \/ cs'.step = "free"
           \/ cs'.step = cs.step /\ cs.ops # << >> /\ cs'.ops = Tail(cs.ops)
           \/ /\ cs'.step = "uncommit"
              /\ cs'.ops = inverse(SubSeq(cs.rec.plan, 1, Len(cs.rec.plan) - Len(cs.ops)))
    BY <1>6, UnlockedFields, PlansLeft DEF Commit, Uncommit, At, Done, Continue, Goto, GotoWith, Do, Next1, LockFor, Unlock, Sections
  <2>3. cs.step \in {"commit", "uncommit"}
    BY <1>6 DEF Commit, Uncommit, At
  <2> QED BY PlansLeft, <2>1, <2>2, <2>3, InverseSSH, UnlockedFields DEF SSHOnly
<1>7. ASSUME NEW open \in BOOLEAN, StartTrial(open)
      PROVE  SSHOnly'
  <2>1. cs'.step = "snapshot" /\ cs'.rec.plan = sshPortPlan(Hash, open) /\ UNCHANGED rec
    BY <1>7 DEF StartTrial, Lock, NoRec, Continue, Goto, GotoWith, Do, Next1, LockFor, Unlock, Sections
  <2> QED BY <2>1, PlanSSH DEF SSHOnly
<1>8. ASSUME NEW id \in Ids, Keep(id) \/ RollBackNow(id) \/ RunFwRollback(id) \/ autoRollback(id)
      PROVE  SSHOnly'
  <2>1. /\ UNCHANGED rec
        /\ \/ UNCHANGED cs
           \/ cs'.step = "rollback" /\ cs'.rec = rec
           \/ cs'.step = "commit" /\ cs'.rec = rec /\ cs'.ops \in {<< >>, rec.plan}
    BY <1>8 DEF Keep, RollBackNow, RunFwRollback, autoRollback, Lock, Continue, Goto, GotoWith, Do, Next1, LockFor, Unlock, Sections
  <2> QED BY <2>1, PlansLeft DEF SSHOnly
<1>9. CASE reconcileFwTrial
  <2>1. UNCHANGED rec /\ (UNCHANGED cs \/ Lock("boot", rec, "rollback"))
    BY <1>9 DEF reconcileFwTrial
  <2> QED BY <2>1 DEF SSHOnly, Lock, LockFor
<1>10. CASE Deadline \/ \E id \in Ids : FireLayer1(id) \/ FireLayer2(id)
  BY <1>10 DEF Deadline, FireLayer1, FireLayer2, SSHOnly
<1>11. CASE Environment
  <2>1. UNCHANGED rec /\ cs' \in {cs, Unlocked}
    BY <1>11 DEF Environment, NewConn, EndConn, ForeignEdit, CrashAgent, CrashLayer1,
                 Reboot, Unlock
  <2> QED BY <2>1, UnlockedFields, PlansLeft DEF SSHOnly
<1>12. CASE UNCHANGED vars
  BY <1>12 DEF vars, SSHOnly
<1> QED BY <1>1, <1>2, <1>3, <1>4, <1>5, <1>6, <1>7, <1>8, <1>9, <1>10, <1>11, <1>12
        DEF Next, User, Step, Trial, Rollback, Layers

-----------------------------------------------------------------------------
(* Foreign rules survive a rollback.                                       *)

\* A foreign rule added while a complete trial waited is none of the rules
\* hashed then, so a rollback that reads the rules finds them edited and
\* undoes the plan instead of writing the snapshot back.
CalmWaits ==
    \A x \in calm :
        /\ rec # NoRec
        /\ \E R \in rec.post : \A f \in FileSet : x \notin R[f]
        /\ cs.step \in {"free", "rollback", "revert", "guard", "finish", "end",
                        "commit", "uncommit"}
        /\ cs.step # "free" => cs.rec.post = rec.post

CalmInv == CalmWaits /\ ForeignKept

\* A command on SSH rules, or ufw's reload, leaves foreign rules alone.
LEMMA RunForeign ==
    ASSUME TypeOK, NEW c \in SSHChanges \cup Loads,
           Backend # "ufw" => c \in SSHChanges, NEW pre, Run(c, pre),
           NEW x \in Foreign, NEW f \in FileSet, x \in Hash[f]
    PROVE  (x \in Hash[f])'
<1>1. x \notin SSHRules
  BY ForeignAssumption DEF SSHRules
<1>2. CASE c \in SSHChanges
  <2>1. c.op \notin {"reload", "write"} /\ x \notin c.rules
    BY <1>1, <1>2 DEF SSHChanges
  <2>2. \A R : x \in R[f] => x \in Changed(R, c)[f]
    BY <2>1 DEF Changed
  <2>3. stored' \in {stored, Changed(stored, c)} /\ live' \in {live, Changed(live, c)}
    BY <2>1 DEF Run
  <2> QED BY <2>2, <2>3 DEF Hash
<1>3. CASE c \in Loads
  BY <1>3, BackendAssumption DEF Run, Loads, SSHChanges, Hash
<1> QED BY <1>2, <1>3

\* Steps that leave the rules, the record and the foreign rules noted alone.
LEMMA CalmQuiet ==
    ASSUME CalmInv, UNCHANGED <<rules, rec>>, calm' \subseteq calm,
           \/ calm' = {}
           \/ cs'.step = "free"
           \/ UNCHANGED cs
           \/ /\ cs'.step \in {"finish", "end", "guard", "revert"}
              /\ cs.step # "free" /\ cs'.rec = cs.rec
           \/ cs'.step \in {"rollback", "commit"} /\ cs'.rec = rec
    PROVE  CalmInv'
<1>1. ForeignKept'
  BY DEF CalmInv, ForeignKept, Hash, rules
<1>2. CalmWaits'
  BY DEF CalmInv, CalmWaits
<1> QED BY <1>1, <1>2 DEF CalmInv

LEMMA CalmEmpty ==
    ASSUME calm' = {}
    PROVE  CalmInv'
  BY DEF CalmInv, CalmWaits, ForeignKept

LEMMA StepCalm ==
    ASSUME "hash" \notin Kinds, IInv, SSHOnly, CalmInv, Step
    PROVE  CalmInv'
<1> cs \in Sections /\ TypeOK /\ calm \subseteq Foreign
  BY DEF IInv, TypeOK
<1>1. CASE Snapshot \/ Record \/ armLayer1 \/ Baseline \/ Apply \/ Post \/ Verify
           \/ Restore \/ FwdReload
  <2>1. calm = {} /\ UNCHANGED calm
    BY <1>1 DEF Snapshot, Record, armLayer1, Baseline, Apply, Post, Verify, Restore,
                FwdReload, At, CalmInv, CalmWaits, ghosts
  <2> QED BY <2>1, CalmEmpty
<1>2. CASE Decide
  <2>1. UNCHANGED <<rules, rec, calm>> /\ cs.step = "rollback"
    BY <1>2 DEF Decide, At
  <2>2. CASE cs'.step # "restore"
    <3>1. \/ cs'.step = "free"
          \/ cs'.step \in {"finish", "revert"} /\ cs'.rec = cs.rec
      BY <1>2, <2>2, UnlockedFields
         DEF Decide, Unlock, Goto, Continue, Do, Sections
    <3> QED BY <2>1, <3>1, CalmQuiet
  <2>3. CASE cs'.step = "restore"
    <3>1. ~Edited(cs.rec)
      BY <1>2, <2>3, UnlockedFields
         DEF Decide, Fails, Unlock, Goto, Continue, Do, Sections
    <3>2. ASSUME NEW x \in calm PROVE FALSE
      <4>1. PICK R \in cs.rec.post : \A f \in FileSet : x \notin R[f]
        BY <2>1 DEF CalmInv, CalmWaits
      <4>2. \A f \in FileSet : x \in Hash[f]
        BY DEF CalmInv, ForeignKept
      <4>3. R # Hash
        BY <4>1, <4>2, FilesNonEmpty DEF FileSet
      <4> QED BY <3>1, <4>1, <4>3 DEF Edited
    <3> QED BY <2>1, <3>2, CalmEmpty
  <2> QED BY <2>2, <2>3
<1>3. CASE Revert
  <2>1. /\ UNCHANGED <<rec, calm>> /\ cs.step = "revert"
        /\ cs'.rec = cs.rec /\ cs'.step \in {"guard", "revert"}
    BY <1>3 DEF Revert, At, Next1, Do, Goto, Continue, Sections, ghosts
  <2>2. CASE UNCHANGED rules
    BY <2>1, <2>2, CalmQuiet
  <2>3. CASE ~Done /\ Run(Head(cs.ops), cs.rec.pre)
    <3>1. /\ Head(cs.ops) \in SSHChanges \cup Loads
          /\ Backend # "ufw" => Head(cs.ops) \in SSHChanges
      BY <2>1, <2>3, WorkLeft DEF SSHOnly, Done
    <3>2. ForeignKept'
      <4> SUFFICES ASSUME NEW x \in calm, NEW f \in FileSet
                   PROVE  (x \in Hash[f])'
        BY <2>1 DEF ForeignKept
      <4> QED BY <2>3, <3>1, RunForeign DEF CalmInv, ForeignKept
    <3>3. CalmWaits'
      BY <2>1 DEF CalmInv, CalmWaits
    <3> QED BY <3>2, <3>3 DEF CalmInv
  <2> QED BY <1>3, <2>2, <2>3 DEF Revert
<1>4. CASE Guard
  <2>1. /\ UNCHANGED <<rules, rec>> /\ cs.step = "guard"
        /\ \/ calm' = {}
           \/ UNCHANGED calm /\ cs'.step = "finish" /\ cs'.rec = cs.rec
    BY <1>4 DEF Guard, At, Do, Goto, Continue, Sections
  <2> QED BY <2>1, CalmQuiet
<1>5. CASE Finish
  <2>1. /\ UNCHANGED <<rules, rec, calm>> /\ cs.step = "finish"
        /\ cs'.step = "end" /\ cs'.rec = cs.rec
    BY <1>5 DEF Finish, At, Goto, Continue, Sections, ghosts
  <2> QED BY <2>1, CalmQuiet
<1>6. CASE End
  <2>1. UNCHANGED rules /\ cs'.step = "free" /\ (calm' = {} \/ UNCHANGED <<rec, calm>>)
    BY <1>6, UnlockedFields DEF End, Unlock
  <2> QED BY <2>1, CalmQuiet, CalmEmpty
<1>7. CASE Commit \/ Uncommit
  <2>1. CASE calm' = {}
    BY <2>1, CalmEmpty
  <2>2. CASE calm' # {}
    <3>1. /\ UNCHANGED <<rec, calm, live>> /\ cs.step \in {"commit", "uncommit"}
          /\ \/ cs'.step = "free"
             \/ cs'.step \in {"commit", "uncommit"} /\ cs'.rec = cs.rec
      BY <1>7, <2>2, UnlockedFields
         DEF Commit, Uncommit, At, Next1, Do, Unlock, Continue, Sections, ghosts
    <3>2. CalmWaits'
      BY <3>1 DEF CalmInv, CalmWaits
    <3>3. CASE UNCHANGED stored
      BY <3>1, <3>2, <3>3 DEF CalmInv, ForeignKept, Hash
    <3>4. CASE ~Done /\ stored' = Changed(stored, Head(cs.ops))
      <4>1. Head(cs.ops) \in SSHChanges
        BY <3>1, <3>4, PlansLeft DEF SSHOnly, Done
      <4>2. SSHRules \cap Foreign = {}
        BY ForeignAssumption DEF SSHRules
      <4>3. \A x \in Foreign, f \in FileSet : x \in stored[f] => x \in stored'[f]
        BY <3>4, <4>1, <4>2 DEF Changed, SSHChanges
      <4>4. ForeignKept'
        BY <3>1, <4>3 DEF CalmInv, ForeignKept, Hash
      <4> QED BY <3>2, <4>4 DEF CalmInv
    <3> QED BY <1>7, <3>3, <3>4 DEF Commit, Uncommit
  <2> QED BY <2>1, <2>2
<1> QED BY <1>1, <1>2, <1>3, <1>4, <1>5, <1>6, <1>7 DEF Step, Trial, Rollback

LEMMA NextCalm ==
    ASSUME "hash" \notin Kinds, IInv, SSHOnly, CalmInv, [Next]_vars
    PROVE  CalmInv'
<1> cs \in Sections /\ TypeOK /\ calm \subseteq Foreign
  BY DEF IInv, TypeOK
<1>1. CASE Step
  BY <1>1, StepCalm
<1>2. CASE User
  <2>1. ASSUME NEW open \in BOOLEAN, StartTrial(open)
        PROVE  CalmInv'
    <3>1. rec = NoRec /\ UNCHANGED calm
      BY <2>1 DEF StartTrial
    <3>2. calm' = {}
      BY <3>1 DEF CalmInv, CalmWaits
    <3> QED BY <3>2, CalmEmpty
  <2>2. ASSUME NEW id \in Ids, Keep(id) \/ RollBackNow(id)
        PROVE  CalmInv'
    <3>1. /\ UNCHANGED <<rules, rec, calm>>
          /\ UNCHANGED cs \/ (cs'.step \in {"rollback", "commit"} /\ cs'.rec = rec)
      <4>1. CASE Keep(id)
        <5>1. UNCHANGED cs \/ \E ops : LockFor("bot", rec, "commit", ops)
          BY <4>1 DEF Keep
        <5> QED BY <4>1, <5>1 DEF Keep, LockFor, ghosts
      <4>2. CASE RollBackNow(id)
        BY <4>2 DEF RollBackNow, Lock, LockFor, ghosts
      <4> QED BY <2>2, <4>1, <4>2
    <3> QED BY <3>1, CalmQuiet
  <2> QED BY <1>2, <2>1, <2>2 DEF User
<1>3. CASE Layers
  <2>1. UNCHANGED <<rules, rec, calm>>
    BY <1>3 DEF Layers, Deadline, FireLayer1, FireLayer2, RunFwRollback, autoRollback,
                reconcileFwTrial, ghosts
  <2>2. UNCHANGED cs \/ (cs'.step = "rollback" /\ cs'.rec = rec)
    <3>1. \/ UNCHANGED cs
          \/ Lock("boot", rec, "rollback")
          \/ Lock("layer1", rec, "rollback") \/ Lock("layer2", rec, "rollback")
      BY <1>3 DEF Layers, Deadline, FireLayer1, FireLayer2, RunFwRollback, autoRollback,
                  reconcileFwTrial
    <3> QED BY <3>1 DEF Lock, LockFor
  <2> QED BY <2>1, <2>2, CalmQuiet
<1>4. CASE Environment
  <2>1. CASE (\E c \in Conns : NewConn(c) \/ EndConn(c)) \/ CrashAgent \/ CrashLayer1
    <3>1. UNCHANGED <<rules, rec, calm>> /\ (UNCHANGED cs \/ cs'.step = "free")
      BY <2>1, UnlockedFields DEF NewConn, EndConn, CrashAgent, CrashLayer1, Unlock, ghosts
    <3> QED BY <3>1, CalmQuiet
  <2>2. CASE Reboot
    <3>1. /\ UNCHANGED rec /\ cs'.step = "free"
          /\ calm' = {x \in calm : \A f \in FileSet : x \in stored[f]}
          /\ stored' = stored /\ live' = stored
      BY <2>2, UnlockedFields DEF Reboot, Unlock
    <3>2. CalmWaits'
      BY <3>1 DEF CalmInv, CalmWaits
    <3>3. ForeignKept'
      BY <3>1 DEF ForeignKept, Hash
    <3> QED BY <3>2, <3>3 DEF CalmInv
  <2>3. ASSUME NEW y \in Foreign, NEW op \in {"add", "delete"}, ForeignEdit(y, op)
        PROVE  CalmInv'
    <3> DEFINE c == [op |-> op, rules |-> {y}]
    <3>1. UNCHANGED <<rec, cs>>
      BY <2>3 DEF ForeignEdit
    <3>2. Hash' = Changed(Hash, c)
      BY <2>3, BackendAssumption DEF ForeignEdit, Hash
    <3>3. \A x \in calm' : \/ x \in calm /\ (op = "delete" => x # y)
                           \/ /\ x = y /\ op = "add" /\ cs.step = "free"
                              /\ \E R \in rec.post : \A f \in FileSet : x \notin R[f]
      BY <2>3 DEF ForeignEdit, Free
    <3>4. ForeignKept'
      BY <3>2, <3>3 DEF CalmInv, ForeignKept, Changed
    <3>5. CalmWaits'
      BY <3>1, <3>3, UnlockedFields DEF CalmInv, CalmWaits
    <3> QED BY <3>4, <3>5 DEF CalmInv
  <2> QED BY <1>4, <2>1, <2>2, <2>3 DEF Environment
<1>5. CASE UNCHANGED vars
  BY <1>5, CalmQuiet DEF vars, ghosts
<1> QED BY <1>1, <1>2, <1>3, <1>4, <1>5 DEF Next

\* Unless the rules cannot be hashed, a foreign rule added while a complete
\* trial waits is still there after its rollback, or the rollback said that
\* it was lost, for both backends and whatever else fails or restarts.
THEOREM ForeignKeptCorrect ==
    ASSUME "hash" \notin Kinds
    PROVE  Spec => []ForeignKept
<1> DEFINE I == IInv /\ SSHOnly /\ CalmInv
<1>1. Init => I
  <2>1. Init => IInv
    BY InitType DEF Init, SectionMatchesRecord, Unlocked, IInv
  <2>2. Init => CalmInv
    BY DEF Init, CalmInv, CalmWaits, ForeignKept
  <2> QED BY <2>1, <2>2, InitSSHOnly
<1>2. I /\ [Next]_vars => I'
  BY NextKeepsIInv, NextSSHOnly, NextCalm
<1>3. I => ForeignKept
  BY DEF CalmInv
<1> QED BY <1>1, <1>2, <1>3, PTL DEF Spec

-----------------------------------------------------------------------------
(* A kept change that closes SSH was seen to let somebody in.              *)

Begun == {"snapshot", "record", "arm", "baseline", "apply", "post", "verify"}

\* Trials are numbered in the order they begin, and one that was kept is
\* neither pending nor at work any more.
FreshIds ==
    /\ verified \cup kept \subseteq 1..(MaxTrials - budget.trial)
    /\ rec # NoRec => rec.id \in 1..(MaxTrials - budget.trial) \ kept
    /\ cs.step # "free" => cs.rec.id \in 1..(MaxTrials - budget.trial) \ kept
    /\ cs.step \in Begun => cs.rec.id \notin verified

\* Every connection a verified trial finds is one it noted at its baseline
\* or one that was opened since it began.
ConnsKnown ==
    /\ rec # NoRec /\ rec.id \in verified /\ ~rec.open
          => conns \subseteq rec.baseline \cup opened.begun
    /\ cs.step \in {"apply", "post", "verify"}
          => /\ rec.open = cs.rec.open /\ rec.baseline = cs.rec.baseline
             /\ ~rec.open => conns \subseteq rec.baseline \cup opened.begun
    /\ cs.step = "commit" /\ cs.rec.id \in verified
          => cs.rec.open \/ opened.begun # {}

\* What one step does to the numbers: at most one trial begins, is
\* verified, or is kept and gone.
LEMMA StepFresh ==
    ASSUME IInv, FreshIds, Step
    PROVE  FreshIds'
<1> cs \in Sections /\ budget \in Budgets /\ MaxTrials \in Nat
  BY BoundsAssumption DEF IInv, TypeOK
<1>1. budget'.trial = budget.trial
  <2>1. \A kind : Fails(kind) => budget'.trial = budget.trial
    BY DEF Fails, Budgets
  <2>2. Works => budget'.trial = budget.trial
    BY DEF Works
  <2> QED BY <2>1, <2>2 DEF Step, Trial, Rollback, Snapshot, Record, armLayer1, Baseline,
        Apply, Post, Verify, Decide, Revert, Guard, Restore, FwdReload, Finish, End,
        Commit, Uncommit, StopLayer1
<1>2. CASE Snapshot \/ Record \/ armLayer1 \/ Baseline \/ Apply \/ Post
  <2>1. /\ UNCHANGED <<verified, kept>> /\ cs.step \in Begun
        /\ rec' = rec \/ rec'.id = cs.rec.id
        /\ \/ cs'.step = "free"
           \/ /\ cs'.rec.id = cs.rec.id
              /\ cs'.step \in {"record", "arm", "baseline", "apply", "post", "verify", "finish"}
    <3>1. CASE Snapshot
      <4> DEFINE r == [cs.rec EXCEPT !.pre = Hash]
      <4>1. r.id = cs.rec.id
        BY SectionParts DEF Records
      <4>2. UNCHANGED <<rec, verified, kept>> /\ (GotoWith("record", r) \/ Unlock)
        BY <3>1 DEF Snapshot, ghosts
      <4> HIDE DEF r
      <4> QED BY <3>1, <4>1, <4>2, UnlockedFields
              DEF Snapshot, At, Begun, GotoWith, Continue, Unlock, Sections
    <3>2. CASE Record
      BY <3>2, UnlockedFields DEF Record, At, Begun, Goto, Continue, Unlock, Sections, ghosts
    <3>3. CASE armLayer1
      <4> DEFINE r == [cs.rec EXCEPT !.layer1 = TRUE]
      <4>1. r.id = cs.rec.id
        BY SectionParts DEF Records
      <4>2. UNCHANGED <<rec, verified, kept>> /\ (GotoWith("baseline", r) \/ Goto("baseline"))
        BY <3>3 DEF armLayer1, ghosts
      <4> HIDE DEF r
      <4> QED BY <3>3, <4>1, <4>2 DEF armLayer1, At, Begun, GotoWith, Goto, Continue, Sections
    <3>4. CASE Baseline
      <4>1. PICK seen : LET r == [cs.rec EXCEPT !.baseline = seen]
                        IN  \/ rec' = r /\ Continue("apply", ApplyOps(r.plan), FALSE, r)
                            \/ Goto("finish") /\ UNCHANGED rec
        BY <3>4 DEF Baseline
      <4> DEFINE r == [cs.rec EXCEPT !.baseline = seen]
      <4>2. r.id = cs.rec.id
        BY SectionParts DEF Records
      <4>3. \/ rec' = r /\ Continue("apply", ApplyOps(r.plan), FALSE, r)
            \/ Goto("finish") /\ UNCHANGED rec
        BY <4>1
      <4> HIDE DEF r
      <4> QED BY <3>4, <4>2, <4>3 DEF Baseline, At, Begun, Goto, Continue, Sections, ghosts
    <3>5. CASE Apply
      BY <3>5 DEF Apply, At, Begun, Goto, Do, Next1, Continue, Sections
    <3>6. CASE Post
      <4> DEFINE r == [cs.rec EXCEPT !.post = {Hash}]
      <4>1. r.id = cs.rec.id
        BY SectionParts DEF Records
      <4>2. rec' \in {rec, r} /\ (GotoWith("verify", r) \/ Goto("verify"))
        BY <3>6 DEF Post
      <4> HIDE DEF r
      <4> QED BY <3>6, <4>1, <4>2 DEF Post, At, Begun, GotoWith, Goto, Continue, Sections, ghosts
    <3> QED BY <1>2, <3>1, <3>2, <3>3, <3>4, <3>5, <3>6
  <2>2. cs.step # "free"
    BY <2>1 DEF Begun
  <2> QED BY <1>1, <2>1, <2>2 DEF FreshIds, Begun
<1>3. CASE Verify
  <2>1. /\ UNCHANGED <<rec, kept>> /\ cs.step = "verify"
        /\ verified' \in {verified, verified \cup {cs.rec.id}}
        /\ \/ cs'.step = "free"
           \/ cs'.rec.id = cs.rec.id /\ cs'.step = "rollback"
    BY <1>3, UnlockedFields DEF Verify, At, Goto, Continue, Unlock, Sections
  <2> QED BY <1>1, <2>1 DEF FreshIds, Begun
<1>4. CASE Commit
  <2>1. CASE kept' = kept
    <3>1. /\ cs.step = "commit" /\ UNCHANGED <<verified, kept>>
          /\ rec' \in {rec, NoRec}
          /\ \/ cs'.step = "free"
             \/ cs'.rec.id = cs.rec.id /\ cs'.step \in {"commit", "uncommit"}
      BY <1>4, <2>1, UnlockedFields
         DEF Commit, At, Next1, Do, Continue, Unlock, Sections
    <3> QED BY <1>1, <3>1 DEF FreshIds, Begun
  <2>2. CASE kept' # kept
    <3>1. /\ cs.step = "commit" /\ UNCHANGED verified
          /\ rec' = NoRec /\ cs'.step = "free" /\ kept' = kept \cup {cs.rec.id}
      BY <1>4, <2>2, UnlockedFields DEF Commit, At, Unlock
    <3> QED BY <1>1, <3>1 DEF FreshIds, Begun
  <2> QED BY <2>1, <2>2
<1>5. CASE Decide \/ Revert \/ Guard \/ Restore \/ FwdReload \/ Finish \/ End \/ Uncommit
  <2>1. /\ UNCHANGED kept /\ verified' \subseteq verified /\ cs.step # "free"
        /\ rec' \in {rec, NoRec}
        /\ \/ cs'.step = "free"
           \/ cs'.rec.id = cs.rec.id /\ cs'.step \notin Begun
    <3>1. CASE Decide
      BY <3>1, UnlockedFields DEF Decide, At, Begun, Goto, Do, Continue, Unlock, Sections
    <3>2. CASE Revert
      BY <3>2 DEF Revert, At, Begun, Goto, Do, Next1, Continue, Sections, ghosts
    <3>3. CASE Guard \/ Restore
      BY <3>3, UnlockedFields
         DEF Guard, Restore, At, Begun, Goto, Do, Next1, Continue, Unlock, Sections, ghosts
    <3>4. CASE FwdReload \/ Finish \/ End \/ Uncommit
      BY <3>4, UnlockedFields
         DEF FwdReload, Finish, End, Uncommit, At, Begun, Goto, Do, Next1, Continue, Unlock,
             Sections, ghosts
    <3> QED BY <1>5, <3>1, <3>2, <3>3, <3>4
  <2> QED BY <1>1, <2>1 DEF FreshIds, Begun
<1> QED BY <1>2, <1>3, <1>4, <1>5 DEF Step, Trial, Rollback

LEMMA NextFresh ==
    ASSUME IInv, FreshIds, [Next]_vars
    PROVE  FreshIds'
<1> cs \in Sections /\ budget \in Budgets /\ MaxTrials \in Nat
  BY BoundsAssumption DEF IInv, TypeOK
<1>1. CASE Step
  BY <1>1, StepFresh
<1>2. ASSUME NEW open \in BOOLEAN, StartTrial(open)
      PROVE  FreshIds'
  <2>1. /\ budget.trial \in 1..MaxTrials /\ budget'.trial = budget.trial - 1
        /\ UNCHANGED <<rec, verified, kept>> /\ rec = NoRec
    BY <1>2 DEF StartTrial, Budgets
  <2>2. cs'.step = "snapshot" /\ cs'.rec.id = MaxTrials + 1 - budget.trial
    BY <1>2 DEF StartTrial, Lock, LockFor, NoRec, newFwID
  <2> QED BY <2>1, <2>2 DEF FreshIds, Begun
<1>3. CASE \/ Layers \/ Environment \/ UNCHANGED vars
           \/ \E id \in Ids : Keep(id) \/ RollBackNow(id)
  <2>1. budget'.trial = budget.trial
    <3>1. \A kind : Fails(kind) => budget'.trial = budget.trial
      BY DEF Fails, Budgets
    <3>2. Works \/ UNCHANGED budget => budget'.trial = budget.trial
      BY DEF Works
    <3>3. Strikes => budget'.trial = budget.trial
      BY DEF Strikes, Budgets
    <3>4. \A x, op : ForeignEdit(x, op) => budget'.trial = budget.trial
      BY DEF ForeignEdit, Budgets
    <3>5. CASE Layers \/ UNCHANGED vars
      BY <3>1, <3>2, <3>5 DEF vars, Layers, Deadline, FireLayer1, FireLayer2, RunFwRollback,
           autoRollback, reconcileFwTrial
    <3>6. CASE Environment
      BY <3>2, <3>3, <3>4, <3>6 DEF Environment, NewConn, EndConn, CrashAgent, CrashLayer1,
           Reboot
    <3>7. CASE \E id \in Ids : Keep(id) \/ RollBackNow(id)
      BY <3>1, <3>2, <3>7 DEF Keep, RollBackNow, StopLayer1
    <3> QED BY <1>3, <3>5, <3>6, <3>7
  <2>2. UNCHANGED <<rec, kept>> /\ verified' \subseteq verified
    BY <1>3 DEF vars, Layers, Deadline, FireLayer1, FireLayer2, RunFwRollback, autoRollback,
         reconcileFwTrial, Environment, NewConn, EndConn, ForeignEdit, CrashAgent,
         CrashLayer1, Reboot, Keep, RollBackNow, ghosts
  <2>3. \/ cs'.step = "free" \/ UNCHANGED cs
        \/ cs'.step \in {"rollback", "commit"} /\ cs'.rec = rec /\ rec # NoRec
    <3>1. CASE Layers
      <4>1. \/ UNCHANGED cs
            \/ \E who \in {"boot", "layer1", "layer2"} : Lock(who, rec, "rollback") /\ rec # NoRec
        BY <3>1, PendingById DEF Layers, Deadline, FireLayer1, FireLayer2, RunFwRollback,
             autoRollback, reconcileFwTrial
      <4> QED BY <4>1 DEF Lock, LockFor
    <3>2. CASE Environment
      BY <3>2, UnlockedFields DEF Environment, NewConn, EndConn, ForeignEdit, CrashAgent,
           CrashLayer1, Reboot, Unlock
    <3>3. ASSUME NEW id \in Ids, Keep(id)
          PROVE  UNCHANGED cs \/ (cs'.step = "commit" /\ cs'.rec = rec /\ rec # NoRec)
      <4>1. UNCHANGED cs \/ (rec.id = id /\ \E ops : LockFor("bot", rec, "commit", ops))
        BY <3>3 DEF Keep
      <4> QED BY <4>1, PendingById DEF LockFor
    <3>4. ASSUME NEW id \in Ids, RollBackNow(id)
          PROVE  UNCHANGED cs \/ (cs'.step = "rollback" /\ cs'.rec = rec /\ rec # NoRec)
      BY <3>4, PendingById DEF RollBackNow, Lock, LockFor
    <3> QED BY <1>3, <3>1, <3>2, <3>3, <3>4 DEF vars
  <2> QED BY <2>1, <2>2, <2>3 DEF FreshIds, Begun
<1> QED BY <1>1, <1>2, <1>3 DEF Next, User

LEMMA InitFresh == Init => FreshIds
  BY UnlockedFields, BoundsAssumption DEF Init, FreshIds, Begun

\* Steps that leave the connections and the record alone, and do not verify.
LEMMA ConnsQuiet ==
    ASSUME ConnsKnown, UNCHANGED <<rec, opened>>, conns' \subseteq conns,
           verified' \subseteq verified,
           \/ cs'.step \notin {"apply", "post", "verify", "commit"}
           \/ cs'.step = "commit" /\ cs.step = "commit" /\ cs'.rec = cs.rec
           \/ UNCHANGED cs
    PROVE  ConnsKnown'
  BY DEF ConnsKnown

LEMMA StepConns ==
    ASSUME "ss" \notin Kinds, IInv, FreshIds, ConnsKnown, Step
    PROVE  ConnsKnown'
<1> cs \in Sections
  BY DEF IInv, TypeOK
<1>0. cs.step \notin {"free", "snapshot", "record"} => rec # NoRec /\ rec.id = cs.rec.id
  BY DEF IInv, SectionMatchesRecord
<1>1. CASE Snapshot \/ Decide \/ Revert \/ Guard \/ Restore \/ FwdReload \/ Finish \/ armLayer1
  <2>1. UNCHANGED <<rec, conns, opened>> /\ verified' \subseteq verified
    BY <1>1 DEF Snapshot, armLayer1, Decide, Revert, Guard, Restore, FwdReload, Finish, ghosts
  <2>2. cs'.step \notin {"apply", "post", "verify", "commit"}
    <3>1. CASE Snapshot \/ armLayer1
      BY <3>1, UnlockedFields DEF Snapshot, armLayer1, Goto, GotoWith, Continue, Unlock, Sections
    <3>2. CASE Decide \/ Revert \/ Guard
      BY <3>2, UnlockedFields
         DEF Decide, Revert, Guard, At, Goto, Do, Next1, Continue, Unlock, Sections
    <3>3. CASE Restore \/ FwdReload \/ Finish
      BY <3>3, UnlockedFields
         DEF Restore, FwdReload, Finish, At, Goto, Do, Next1, Continue, Unlock, Sections
    <3> QED BY <1>1, <3>1, <3>2, <3>3
  <2> QED BY <2>1, <2>2, ConnsQuiet
<1>2. CASE Record
  <2>1. CASE rec' = rec
    <3>1. cs'.step \in {"free", "arm"}
      BY <1>2, UnlockedFields DEF Record, Goto, Continue, Unlock, Sections
    <3> QED BY <1>2, <2>1, <3>1, ConnsQuiet DEF Record, ghosts
  <2>2. CASE rec' # rec
    <3>1. rec' = cs.rec /\ cs'.step = "arm" /\ cs.step = "record" /\ UNCHANGED verified
      BY <1>2, <2>2, UnlockedFields DEF Record, At, Goto, Continue, Unlock, Sections, ghosts
    <3>2. rec'.id \notin verified'
      BY <3>1 DEF FreshIds, Begun
    <3> QED BY <3>1, <3>2 DEF ConnsKnown
  <2> QED BY <2>1, <2>2
<1>3. CASE Baseline
  <2>1. CASE Goto("finish") /\ UNCHANGED rec
    <3>1. cs'.step = "finish"
      BY <2>1 DEF Goto, Continue, Sections
    <3> QED BY <1>3, <2>1, <3>1, ConnsQuiet DEF Baseline, ghosts
  <2>2. CASE ~(Goto("finish") /\ UNCHANGED rec)
    <3>1. PICK seen \in IF cs.rec.open THEN {{}} ELSE sshConns :
            LET r == [cs.rec EXCEPT !.baseline = seen]
            IN  rec' = r /\ Continue("apply", ApplyOps(r.plan), FALSE, r)
      BY <1>3, <2>2 DEF Baseline
    <3> DEFINE r == [cs.rec EXCEPT !.baseline = seen]
    <3>2. r.id = cs.rec.id /\ r.open = cs.rec.open /\ r.baseline = seen
      BY SectionParts DEF Records
    <3>3. rec' = r /\ Continue("apply", ApplyOps(r.plan), FALSE, r)
      BY <3>1
    <3>4. ~r.open => seen = conns
      BY <3>1, <3>2 DEF sshConns
    <3> HIDE DEF r
    <3>5. cs'.step = "apply" /\ cs'.rec = r
      BY <3>3 DEF Continue, Sections
    <3>6. cs.step = "baseline" /\ UNCHANGED <<conns, opened, verified>>
      BY <1>3 DEF Baseline, At, ghosts
    <3>7. ~rec'.open => conns' \subseteq rec'.baseline
      BY <3>2, <3>3, <3>4, <3>6
    <3> QED BY <3>3, <3>5, <3>6, <3>7 DEF ConnsKnown
  <2> QED BY <2>1, <2>2
<1>4. CASE Apply
  <2>1. /\ UNCHANGED <<rec, conns, verified>> /\ cs.step = "apply"
        /\ cs'.step \in {"apply", "post"} /\ cs'.rec = cs.rec
    BY <1>4 DEF Apply, At, Goto, Do, Next1, Continue, Sections
  <2>2. opened'.begun = opened.begun
    BY <1>4 DEF Apply, IInv, TypeOK
  <2> QED BY <2>1, <2>2 DEF ConnsKnown
<1>5. CASE Post
  <2> DEFINE r == [cs.rec EXCEPT !.post = {Hash}]
  <2>1. r.id = cs.rec.id /\ r.open = cs.rec.open /\ r.baseline = cs.rec.baseline
    BY SectionParts DEF Records
  <2>2. \/ rec' = rec /\ (GotoWith("verify", r) \/ Goto("verify"))
        \/ rec' = r /\ GotoWith("verify", r)
    BY <1>5 DEF Post
  <2> HIDE DEF r
  <2>3. /\ cs'.step = "verify" /\ cs'.rec.id = cs.rec.id /\ cs'.rec.open = cs.rec.open
        /\ cs'.rec.baseline = cs.rec.baseline
    BY <2>1, <2>2 DEF Goto, GotoWith, Continue, Sections
  <2>4. cs.step = "post" /\ UNCHANGED <<conns, opened, verified>>
    BY <1>5 DEF Post, At, ghosts
  <2>5. cs.rec.id \notin verified /\ rec.id = cs.rec.id
    BY <1>0, <2>4 DEF FreshIds, Begun
  <2>6. rec'.id = cs.rec.id /\ rec'.open = cs.rec.open
    BY <2>1, <2>2, <2>4, <2>5 DEF ConnsKnown
  <2>7. CASE rec' = rec
    BY <2>3, <2>4, <2>5, <2>7 DEF ConnsKnown
  <2>8. CASE rec' = r
    <3>1. rec'.baseline = cs.rec.baseline
      BY <2>1, <2>8
    <3> QED BY <2>3, <2>4, <2>5, <2>6, <3>1 DEF ConnsKnown
  <2> QED BY <2>2, <2>7, <2>8
<1>6. CASE Verify
  <2>1. /\ UNCHANGED <<rec, conns, opened>> /\ cs.step = "verify"
        /\ verified' \subseteq verified \cup {cs.rec.id}
        /\ cs'.step \in {"free", "rollback"}
    BY <1>6, UnlockedFields DEF Verify, At, Goto, Continue, Unlock, Sections
  <2> QED BY <1>0, <2>1 DEF ConnsKnown
<1>7. CASE End
  <2>1. /\ rec' \in {rec, NoRec} /\ UNCHANGED <<conns, opened, verified>>
        /\ cs'.step = "free"
    BY <1>7, UnlockedFields DEF End, Unlock
  <2> QED BY <2>1 DEF ConnsKnown
<1>8. CASE Commit \/ Uncommit
  <2>1. /\ rec' \in {rec, NoRec} /\ UNCHANGED <<conns, opened, verified>>
        /\ \/ cs'.step \in {"free", "uncommit"}
           \/ cs'.step = "commit" /\ cs.step = "commit" /\ cs'.rec = cs.rec
    BY <1>8, UnlockedFields
       DEF Commit, Uncommit, At, Next1, Do, Unlock, Continue, Sections, ghosts
  <2> QED BY <2>1 DEF ConnsKnown
<1> QED BY <1>1, <1>2, <1>3, <1>4, <1>5, <1>6, <1>7, <1>8 DEF Step, Trial, Rollback

LEMMA NextConns ==
    ASSUME "ss" \notin Kinds, IInv, FreshIds, ConnsKnown, [Next]_vars
    PROVE  ConnsKnown'
<1> cs \in Sections
  BY DEF IInv, TypeOK
<1>1. CASE Step
  BY <1>1, StepConns
<1>2. ASSUME NEW open \in BOOLEAN, StartTrial(open)
      PROVE  ConnsKnown'
  <2>1. rec' = NoRec /\ cs'.step = "snapshot"
    BY <1>2 DEF StartTrial, Lock, LockFor
  <2> QED BY <2>1 DEF ConnsKnown
<1>3. ASSUME NEW id \in Ids, Keep(id)
      PROVE  ConnsKnown'
  <2>1. UNCHANGED <<rec, conns, opened, verified>>
    BY <1>3 DEF Keep, ghosts
  <2>2. CASE UNCHANGED cs
    BY <2>1, <2>2, ConnsQuiet
  <2>3. CASE cs' # cs
    <3>1. PICK seen \in sshConns :
            /\ rec.id = id /\ (rec.open \/ newSSHSeen(seen))
            /\ \E ops : LockFor("bot", rec, "commit", ops)
      BY <1>3, <2>3 DEF Keep
    <3>2. seen = conns /\ rec # NoRec
      BY <3>1, PendingById DEF sshConns
    <3>3. cs'.step = "commit" /\ cs'.rec = rec
      BY <3>1 DEF LockFor
    <3>4. rec.id \in verified /\ ~rec.open => opened.begun # {}
      BY <3>1, <3>2 DEF ConnsKnown, newSSHSeen
    <3> QED BY <2>1, <3>3, <3>4 DEF ConnsKnown
  <2> QED BY <2>2, <2>3
<1>4. CASE Layers \/ \E id \in Ids : RollBackNow(id)
  <2>1. UNCHANGED <<rec, conns, opened, verified>>
    BY <1>4 DEF Layers, Deadline, FireLayer1, FireLayer2, RunFwRollback,
         autoRollback, reconcileFwTrial, RollBackNow, ghosts
  <2>2. \/ UNCHANGED cs
        \/ \E who \in {"bot", "boot", "layer1", "layer2"} : Lock(who, rec, "rollback")
    BY <1>4 DEF Layers, Deadline, FireLayer1, FireLayer2, RunFwRollback,
         autoRollback, reconcileFwTrial, RollBackNow
  <2>3. UNCHANGED cs \/ cs'.step = "rollback"
    BY <2>2 DEF Lock, LockFor
  <2> QED BY <2>1, <2>3, ConnsQuiet
<1>5. CASE Environment
  <2>1. ASSUME NEW c \in Conns, NewConn(c)
        PROVE  ConnsKnown'
    <3>1. /\ UNCHANGED <<rec, cs, verified>> /\ conns' = conns \cup {c}
          /\ opened'.begun = opened.begun \cup {c}
      BY <2>1 DEF NewConn
    <3> QED BY <3>1 DEF ConnsKnown
  <2>2. CASE ~\E c \in Conns : NewConn(c)
    <3>1. /\ UNCHANGED <<rec, opened>> /\ conns' \subseteq conns /\ verified' \subseteq verified
          /\ cs' \in {cs, Unlocked}
      BY <1>5, <2>2 DEF Environment, EndConn, ForeignEdit, CrashAgent, CrashLayer1,
           Reboot, Unlock, ghosts
    <3> QED BY <3>1, UnlockedFields, ConnsQuiet
  <2> QED BY <2>1, <2>2
<1>6. CASE UNCHANGED vars
  BY <1>6, ConnsQuiet DEF vars, ghosts
<1> QED BY <1>1, <1>2, <1>3, <1>4, <1>5, <1>6 DEF Next, User

\* While the connections can be listed, a verified change that closes SSH
\* is kept only after somebody got in since the trial began, so never on
\* the strength of the admin's old session alone.
THEOREM KeepNeedsNewConnCorrect ==
    ASSUME "ss" \notin Kinds
    PROVE  Spec => KeepNeedsNewConn
<1> DEFINE I == IInv /\ FreshIds /\ ConnsKnown
           Seen == kept' # kept /\ kept' \subseteq verified
                      => cs.rec.open \/ opened.begun # {}
<1>1. Init => I
  <2>1. Init => IInv
    BY InitType DEF Init, SectionMatchesRecord, Unlocked, IInv
  <2>2. Init => ConnsKnown
    BY UnlockedFields DEF Init, ConnsKnown
  <2> QED BY <2>1, <2>2, InitFresh
<1>2. I /\ [Next]_vars => I'
  BY NextKeepsIInv, NextFresh, NextConns
<1>3. ASSUME I, [Next]_vars
      PROVE  Seen
  <2>1. CASE Commit
    <3>1. kept' # kept => cs.rec.id \in kept'
      BY <2>1 DEF Commit
    <3>2. cs.step = "commit"
      BY <2>1 DEF Commit, At
    <3> QED BY <1>3, <3>1, <3>2 DEF ConnsKnown
  <2>2. CASE ~Commit
    <3>1. kept' = kept
      <4>1. CASE Step
        BY <2>2, <4>1 DEF Step, Trial, Rollback, Snapshot, Record, armLayer1, Baseline,
          Apply, Post, Verify, Decide, Revert, Guard, Restore, FwdReload, Finish, End,
          Uncommit, ghosts
      <4>2. CASE User \/ Layers
        BY <4>2 DEF User, StartTrial, Keep, RollBackNow, Layers, Deadline, FireLayer1,
          FireLayer2, RunFwRollback, autoRollback, reconcileFwTrial, ghosts
      <4>3. CASE Environment \/ UNCHANGED vars
        BY <4>3 DEF Environment, NewConn, EndConn, ForeignEdit, CrashAgent, CrashLayer1,
          Reboot, vars, ghosts
      <4> QED BY <1>3, <4>1, <4>2, <4>3 DEF Next
    <3> QED BY <3>1
  <2> QED BY <2>1, <2>2
<1>4. I /\ [Next]_vars => [Seen]_vars
  BY <1>3
<1> QED BY <1>1, <1>2, <1>4, PTL DEF Spec, KeepNeedsNewConn

-----------------------------------------------------------------------------
(* What ufw's undoing and restoring have done, and have left to do.        *)

\* The three ways into the critical section.
Begins    == Free /\ rec = NoRec /\ cs'.step = "snapshot"
Commits   == /\ Free /\ rec # NoRec
             /\ cs'.step = "commit" /\ cs'.rec = rec /\ cs'.failed = FALSE
             /\ cs'.ops = IF Backend = "ufw" THEN << >> ELSE rec.plan
RollsBack == /\ Free /\ rec # NoRec
             /\ cs'.step = "rollback" /\ cs'.rec = rec /\ cs'.failed = FALSE
             /\ cs'.ops = << >>

\* Buttons, timers and the agent's start leave the rules and the record
\* alone, and at most open the critical section.
LEMMA Entered ==
    ASSUME User \/ Layers
    PROVE  /\ UNCHANGED <<rules, rec, agreed, verified, kept>>
           /\ UNCHANGED cs \/ Begins \/ Commits \/ RollsBack
<1>1. ASSUME NEW open \in BOOLEAN, StartTrial(open)
      PROVE  UNCHANGED <<rules, rec, agreed, verified, kept>> /\ Begins
  BY <1>1 DEF StartTrial, Lock, LockFor, Begins
<1>2. ASSUME NEW id \in Ids, Keep(id)
      PROVE  UNCHANGED <<rules, rec, agreed, verified, kept>> /\ (UNCHANGED cs \/ Commits)
  <2>1. UNCHANGED <<rules, rec, agreed, verified, kept>> /\ Free
    BY <1>2 DEF Keep, Press, ghosts
  <2>2. \/ UNCHANGED cs
        \/ rec.id = id /\ LockFor("bot", rec, "commit",
                                 IF Backend = "ufw" THEN << >> ELSE rec.plan)
    BY <1>2 DEF Keep
  <2> QED BY <2>1, <2>2, PendingById DEF LockFor, Commits
<1>3. ASSUME NEW id \in Ids, RollBackNow(id)
      PROVE  UNCHANGED <<rules, rec, agreed, verified, kept>> /\ (UNCHANGED cs \/ RollsBack)
  BY <1>3, PendingById DEF RollBackNow, Press, Lock, LockFor, RollsBack, ghosts
<1>4. CASE Layers
  <2>1. UNCHANGED <<rules, rec, agreed, verified, kept>>
    BY <1>4 DEF Layers, Deadline, FireLayer1, FireLayer2, RunFwRollback, autoRollback,
         reconcileFwTrial, ghosts
  <2>2. \/ UNCHANGED cs
        \/ Free /\ \E id \in Ids : rec.id = id /\ Lock("layer1", rec, "rollback")
        \/ Free /\ \E id \in Ids : rec.id = id /\ Lock("layer2", rec, "rollback")
        \/ Free /\ rec # NoRec /\ Lock("boot", rec, "rollback")
    BY <1>4 DEF Layers, Deadline, FireLayer1, FireLayer2, RunFwRollback, autoRollback,
         reconcileFwTrial
  <2>3. UNCHANGED cs \/ RollsBack
    BY <2>2, PendingById DEF Lock, LockFor, RollsBack
  <2> QED BY <2>1, <2>3
<1> QED BY <1>1, <1>2, <1>3, <1>4 DEF User

LEMMA TailLast ==
    ASSUME NEW S, NEW q \in Seq(S), q # << >>
    PROVE  /\ Tail(q) \in Seq(S) /\ Head(q) \in S
           /\ Tail(q) = << >> => Head(q) = q[Len(q)]
           /\ Tail(q) # << >> => Tail(q)[Len(Tail(q))] = q[Len(q)]
           /\ \A k \in DOMAIN q : k = 1 \/ (k - 1 \in DOMAIN Tail(q) /\ Tail(q)[k - 1] = q[k])
           /\ \A k \in DOMAIN Tail(q) : k + 1 \in DOMAIN q /\ q[k + 1] = Tail(q)[k]
           /\ Head(q) = q[1] /\ 1 \in DOMAIN q
  OBVIOUS

LEMMA OneMore ==
    ASSUME NEW S, NEW q \in Seq(S), NEW e \in S
    PROVE  /\ q \o << e >> \in Seq(S) /\ Len(q \o << e >>) = Len(q) + 1
           /\ q \o << e >> # << >>
           /\ DOMAIN (q \o << e >>) = 1..(Len(q) + 1)
           /\ \A k \in 1..Len(q) : (q \o << e >>)[k] = q[k]
           /\ (q \o << e >>)[Len(q) + 1] = e
  OBVIOUS

LEMMA ReachableSSH ==
    ASSUME NEW R, NEW Q, SSHPart(R) = SSHPart(Q)
    PROVE  reachable(R) <=> reachable(Q)
<1>1. \A f \in FileSet : R[f] \cap SSHRules = Q[f] \cap SSHRules
  BY DEF SSHPart
<1> QED BY <1>1 DEF reachable, SSHRules

LEMMA SSHPartPart ==
    ASSUME NEW R
    PROVE  SSHPart(SSHPart(R)) = SSHPart(R)
  BY DEF SSHPart

Synced == SSHPart(live) = SSHPart(stored)

LastLoads == cs.ops[Len(cs.ops)].op = "reload"

\* The reload comes last: until then a file has the snapshot's SSH rules or
\* its write is still to come.
Undoing ==
    Backend = "ufw" =>
        /\ cs.step = "revert" => IF Done THEN cs.failed \/ Synced ELSE LastLoads
        /\ cs.step = "guard" => cs.failed \/ Synced
        /\ cs.step = "restore" =>
              /\ \A k \in DOMAIN cs.ops : cs.ops[k].op \in {"write", "reload"}
              /\ IF Done THEN Synced ELSE LastLoads
              /\ \A f \in FileSet :
                    \/ stored[f] \cap SSHRules = cs.rec.pre[f] \cap SSHRules
                    \/ \E k \in DOMAIN cs.ops : cs.ops[k] = [op |-> "write", file |-> f]

\* No foreign edit changes the SSH rules of either copy.
LEMMA EditSSH ==
    ASSUME TypeOK, NEW x \in Foreign, NEW op \in {"add", "delete"}, ForeignEdit(x, op)
    PROVE  /\ SSHPart(stored)' = SSHPart(stored) /\ SSHPart(live)' = SSHPart(live)
           /\ UNCHANGED <<rec, cs>>
<1> DEFINE c == [op |-> op, rules |-> {x}]
<1>1. x \notin SSHRules
  BY ForeignAssumption DEF SSHRules
<1>2. \A R \in RuleSets : SSHPart(Changed(R, c)) = SSHPart(R)
  BY <1>1 DEF SSHPart, Changed, RuleSets
<1>3. SSHPart(Changed(stored, c)) = SSHPart(stored) /\ SSHPart(Changed(live, c)) = SSHPart(live)
  BY <1>2 DEF TypeOK
<1>4. live' = Changed(live, c) /\ stored' \in {stored, Changed(stored, c)}
  BY DEF ForeignEdit
<1>5. SSHPart(stored)' = SSHPart(stored') /\ SSHPart(live)' = SSHPart(live')
  BY DEF SSHPart
<1> HIDE DEF c
<1>6. UNCHANGED <<rec, cs>>
  BY DEF ForeignEdit
<1> QED BY <1>3, <1>4, <1>5, <1>6

LEMMA RestoreStarts ==
    ASSUME Backend = "ufw", NEW pre,
           cs'.step = "restore", cs'.ops = RestoreOps(pre), cs'.rec.pre = pre
    PROVE  Undoing'
<1> DEFINE S == [op : {"write"}, file : FileSet] \cup Loads
           w == [k \in 1..Len(Files) |-> [op |-> "write", file |-> Files[k]]]
           load == [op |-> "reload"]
<1>0. Len(Files) \in Nat /\ DOMAIN Files = 1..Len(Files)
  BY FilesNonEmpty
<1>1. w \in Seq(S) /\ load \in S
  <2>1. \A k \in 1..Len(Files) : [op |-> "write", file |-> Files[k]] \in S
    BY <1>0 DEF FileSet
  <2> QED BY <1>0, <2>1, IsASeq DEF Loads
<1>2. Len(w) = Len(Files)
  BY <1>0, <1>1
<1>3. \A k \in 1..Len(Files) : w[k] = [op |-> "write", file |-> Files[k]]
  OBVIOUS
<1>4. cs'.ops = w \o << load >>
  BY DEF RestoreOps, Reload
<1>5. load.op = "reload" /\ \A k \in 1..Len(Files) : w[k].op = "write"
  BY <1>3
<1>6. \A f \in FileSet : \E k \in 1..Len(Files) : w[k] = [op |-> "write", file |-> f]
  BY <1>0, <1>3 DEF FileSet
<1> HIDE DEF w, load, S
<1> DEFINE q == w \o << load >>
<1>7. /\ Len(q) = Len(Files) + 1 /\ q # << >>
      /\ DOMAIN q = 1..(Len(Files) + 1)
      /\ \A k \in 1..Len(Files) : q[k] = w[k]
      /\ q[Len(Files) + 1] = load
  BY <1>1, <1>2, OneMore
<1>8. cs'.ops = q
  BY <1>4
<1> HIDE DEF q
<1>9. ASSUME NEW k \in DOMAIN q PROVE q[k].op \in {"write", "reload"}
  <2>1. k \in 1..Len(Files) \/ k = Len(Files) + 1
    BY <1>0, <1>7
  <2> QED BY <1>5, <1>7, <2>1
<1>10. ASSUME NEW f \in FileSet
       PROVE  \E k \in DOMAIN q : q[k] = [op |-> "write", file |-> f]
  <2>1. PICK k \in 1..Len(Files) : w[k] = [op |-> "write", file |-> f]
    BY <1>6
  <2>2. k \in DOMAIN q
    BY <1>0, <1>7
  <2> QED BY <1>7, <2>1, <2>2
<1>11. q[Len(q)].op = "reload"
  BY <1>5, <1>7
<1> QED BY <1>7, <1>8, <1>9, <1>10, <1>11 DEF Undoing, Done, LastLoads

LEMMA RevertStarts ==
    ASSUME Backend = "ufw", NEW p \in Seq(Changes),
           cs'.step = "revert", cs'.ops = RevertOps(p)
    PROVE  Undoing'
<1>1. inverse(p) \in Seq(Changes)
  BY InverseType
<1>2. cs'.ops = inverse(p) \o Reload
  BY DEF RevertOps
<1>3. cs'.ops # << >> /\ cs'.ops[Len(cs'.ops)] = [op |-> "reload"]
  BY <1>1, <1>2 DEF Reload
<1> QED BY <1>3 DEF Undoing, Done, LastLoads

\* A step elsewhere in the section says nothing of undoing.
LEMMA UndoingElsewhere ==
    ASSUME cs'.step \notin {"revert", "guard", "restore"}
    PROVE  Undoing'
  BY DEF Undoing

LEMMA UndoingSame ==
    ASSUME Undoing, UNCHANGED cs,
           SSHPart(stored)' = SSHPart(stored), SSHPart(live)' = SSHPart(live)
    PROVE  Undoing'
<1>1. \A f \in FileSet : stored'[f] \cap SSHRules = stored[f] \cap SSHRules
  BY DEF SSHPart
<1> QED BY <1>1 DEF Undoing, Done, LastLoads, Synced

LEMMA RevertUndoing ==
    ASSUME TypeOK, Backend = "ufw", Undoing, Revert
    PROVE  Undoing'
<1> cs \in Sections /\ cs.ops \in Seq(Ops) /\ cs.step = "revert"
  BY SectionParts DEF TypeOK, Revert, At
<1>1. CASE Done /\ Goto("guard") /\ UNCHANGED rules
  <2>1. cs'.step = "guard" /\ cs'.failed = cs.failed
    BY <1>1 DEF Goto, Continue, Sections
  <2> QED BY <1>1, <2>1 DEF Undoing, Synced, rules, SSHPart
<1>2. CASE ~Done /\ Run(Head(cs.ops), cs.rec.pre) /\ Next1
  <2>1. cs'.step = "revert" /\ cs'.ops = Tail(cs.ops)
    BY <1>2 DEF Next1, Do, Continue, Sections
  <2>2. CASE Tail(cs.ops) = << >>
    <3>1. Head(cs.ops).op = "reload"
      BY <1>2, <2>2, TailLast DEF Undoing, Done, LastLoads
    <3>2. live' = stored /\ UNCHANGED stored
      BY <1>2, <3>1 DEF Run
    <3> QED BY <2>1, <2>2, <3>2 DEF Undoing, Done, Synced, SSHPart
  <2>3. CASE Tail(cs.ops) # << >>
    BY <1>2, <2>1, <2>3, TailLast DEF Undoing, Done, LastLoads
  <2> QED BY <2>2, <2>3
<1>3. CASE ~Done /\ Continue("revert", Tail(cs.ops), Head(cs.ops).op = "reload", cs.rec)
  <2>1. cs'.step = "revert" /\ cs'.ops = Tail(cs.ops) /\ cs'.failed = (Head(cs.ops).op = "reload")
    BY <1>3 DEF Continue, Sections
  <2>2. CASE Tail(cs.ops) = << >>
    <3>1. Head(cs.ops).op = "reload"
      BY <1>3, <2>2, TailLast DEF Undoing, Done, LastLoads
    <3> QED BY <2>1, <2>2, <3>1 DEF Undoing, Done
  <2>3. CASE Tail(cs.ops) # << >>
    BY <1>3, <2>1, <2>3, TailLast DEF Undoing, Done, LastLoads
  <2> QED BY <2>2, <2>3
<1> QED BY <1>1, <1>2, <1>3 DEF Revert

LEMMA RestoreUndoing ==
    ASSUME TypeOK, Backend = "ufw", Undoing, Restore
    PROVE  Undoing'
<1> cs \in Sections /\ cs.ops \in Seq(Ops) /\ cs.step = "restore"
  BY SectionParts DEF TypeOK, Restore, At
<1>1. CASE Done \/ Unlock
  <2>1. cs'.step \in {"free", "finish", "reload"}
    BY <1>1, UnlockedFields DEF Restore, Done, Unlock, Goto, Continue, Sections
  <2> QED BY <2>1, UndoingElsewhere
<1>2. CASE ~Done /\ Run(Head(cs.ops), cs.rec.pre) /\ Next1
  <2> DEFINE c == Head(cs.ops)
  <2>1. cs'.step = "restore" /\ cs'.ops = Tail(cs.ops) /\ cs'.rec = cs.rec
    BY <1>2 DEF Next1, Do, Continue, Sections
  <2>2. c = cs.ops[1] /\ 1 \in DOMAIN cs.ops /\ c.op \in {"write", "reload"} /\ c \in Ops
    BY <1>2, TailLast DEF Undoing, Done
  <2>3. \A k \in DOMAIN cs'.ops : cs'.ops[k].op \in {"write", "reload"}
    BY <1>2, <2>1, TailLast DEF Undoing, Done
  <2>4. IF cs'.ops = << >> THEN Synced' ELSE cs'.ops[Len(cs'.ops)].op = "reload"
    <3>1. CASE Tail(cs.ops) = << >>
      <4>1. Head(cs.ops).op = "reload"
        BY <1>2, <3>1, TailLast DEF Undoing, Done, LastLoads
      <4>2. live' = stored /\ UNCHANGED stored
        BY <1>2, <4>1 DEF Run
      <4> QED BY <2>1, <3>1, <4>2 DEF Synced, SSHPart
    <3>2. CASE Tail(cs.ops) # << >>
      BY <1>2, <2>1, <3>2, TailLast DEF Undoing, Done, LastLoads
    <3> QED BY <3>1, <3>2
  <2>5. ASSUME NEW f \in FileSet
        PROVE  \/ stored'[f] \cap SSHRules = cs'.rec.pre[f] \cap SSHRules
               \/ \E k \in DOMAIN cs'.ops : cs'.ops[k] = [op |-> "write", file |-> f]
    <3>1. CASE c = [op |-> "write", file |-> f]
      <4>1. stored' = [stored EXCEPT ![f] = cs.rec.pre[f]]
        BY <1>2, <3>1 DEF Run
      <4>2. stored'[f] = cs.rec.pre[f]
        BY <4>1 DEF TypeOK, RuleSets
      <4> QED BY <2>1, <4>2
    <3>2. CASE c # [op |-> "write", file |-> f]
      <4>1. stored'[f] = stored[f]
        <5>1. CASE c.op = "reload"
          BY <1>2, <5>1 DEF Run
        <5>2. CASE c.op = "write"
          <6>1. c \in [op : {"write"}, file : FileSet]
            BY <2>2, <5>2 DEF Ops, Changes
          <6>2. c.file # f
            BY <3>2, <6>1
          <6>3. stored' = [stored EXCEPT ![c.file] = cs.rec.pre[c.file]]
            BY <1>2, <5>2 DEF Run
          <6> QED BY <6>2, <6>3 DEF TypeOK, RuleSets
        <5> QED BY <2>2, <5>1, <5>2
      <4>2. CASE stored[f] \cap SSHRules = cs.rec.pre[f] \cap SSHRules
        BY <2>1, <4>1, <4>2
      <4>3. CASE \E k \in DOMAIN cs.ops : cs.ops[k] = [op |-> "write", file |-> f]
        <5>1. PICK k \in DOMAIN cs.ops : cs.ops[k] = [op |-> "write", file |-> f]
          BY <4>3
        <5>2. k # 1
          BY <2>2, <3>2, <5>1
        <5>3. k - 1 \in DOMAIN Tail(cs.ops) /\ Tail(cs.ops)[k - 1] = cs.ops[k]
          BY <1>2, <5>2, TailLast DEF Done
        <5> QED BY <2>1, <5>1, <5>3
      <4> QED BY <4>2, <4>3 DEF Undoing
    <3> QED BY <3>1, <3>2
  <2> QED BY <2>1, <2>3, <2>4, <2>5 DEF Undoing, Done, LastLoads
<1> QED BY <1>1, <1>2 DEF Restore

LEMMA NextUndoing ==
    ASSUME IInv, Undoing, [Next]_vars
    PROVE  Undoing'
<1> SUFFICES ASSUME Backend = "ufw" PROVE Undoing'
  BY DEF Undoing
<1> TypeOK /\ cs \in Sections
  BY DEF IInv, TypeOK
<1>1. CASE Revert \/ Restore
  BY <1>1, RevertUndoing, RestoreUndoing
<1>2. CASE Decide
  <2>1. \/ cs'.step \in {"free", "finish"}
        \/ cs'.step = "revert" /\ cs'.ops = RevertOps(cs.rec.plan)
        \/ cs'.step = "restore" /\ cs'.ops = RestoreOps(cs.rec.pre) /\ cs'.rec = cs.rec
    BY <1>2, UnlockedFields DEF Decide, Unlock, Goto, Do, Continue, Sections
  <2>2. cs.rec.plan \in Seq(Changes)
    BY SectionParts, RecordParts
  <2> QED BY <2>1, <2>2, RevertStarts, RestoreStarts, UndoingElsewhere
<1>3. CASE Guard
  <2>1. \/ cs'.step = "finish"
        \/ cs'.step = "restore" /\ cs'.ops = RestoreOps(cs.rec.pre) /\ cs'.rec = cs.rec
    BY <1>3 DEF Guard, Goto, Do, Continue, Sections
  <2> QED BY <2>1, RestoreStarts, UndoingElsewhere
<1>4. CASE Step /\ ~(Revert \/ Restore \/ Decide \/ Guard)
  <2>1. cs'.step \notin {"revert", "guard", "restore"}
    <3>1. CASE Snapshot \/ Record \/ armLayer1 \/ Post \/ Verify
      BY <3>1, UnlockedFields
         DEF Snapshot, Record, armLayer1, Post, Verify, Unlock, Goto, GotoWith, Continue, Sections
    <3>2. CASE Baseline \/ Apply
      BY <3>2 DEF Baseline, Apply, At, Goto, Do, Next1, Continue, Sections
    <3>3. CASE FwdReload \/ Finish \/ End \/ Commit \/ Uncommit
      BY <3>3, UnlockedFields
         DEF FwdReload, Finish, End, Commit, Uncommit, At, Unlock, Goto, Do, Next1, Continue,
             Sections
    <3> QED BY <1>4, <3>1, <3>2, <3>3 DEF Step, Trial, Rollback
  <2> QED BY <2>1, UndoingElsewhere
<1>5. CASE User \/ Layers
  <2>1. CASE UNCHANGED cs
    <3>1. UNCHANGED rules
      BY <1>5 DEF User, StartTrial, Keep, RollBackNow, Layers, Deadline, FireLayer1, FireLayer2,
           RunFwRollback, autoRollback, reconcileFwTrial
    <3> QED BY <2>1, <3>1, UndoingSame DEF rules, SSHPart
  <2>2. CASE cs' # cs
    <3>1. cs'.step \in {"snapshot", "rollback", "commit"}
      BY <1>5, <2>2, Entered DEF Begins, Commits, RollsBack
    <3> QED BY <3>1, UndoingElsewhere
  <2> QED BY <2>1, <2>2
<1>6. CASE Environment
  <2>1. CASE cs' = cs
    <3>1. CASE UNCHANGED rules
      BY <2>1, <3>1, UndoingSame DEF rules, SSHPart
    <3>2. ASSUME NEW x \in Foreign, NEW op \in {"add", "delete"}, ForeignEdit(x, op)
          PROVE  Undoing'
      BY <2>1, <3>2, EditSSH, UndoingSame
    <3>3. CASE Reboot
      BY <3>3, UnlockedFields, UndoingElsewhere DEF Reboot, Unlock
    <3> QED BY <1>6, <3>1, <3>2, <3>3
            DEF Environment, NewConn, EndConn, CrashAgent, CrashLayer1
  <2>2. CASE cs' # cs
    <3>1. cs' = Unlocked
      BY <1>6, <2>2 DEF Environment, NewConn, EndConn, ForeignEdit, CrashAgent, CrashLayer1,
           Reboot, Unlock
    <3> QED BY <3>1, UnlockedFields, UndoingElsewhere
  <2> QED BY <2>1, <2>2
<1>7. CASE UNCHANGED vars
  BY <1>7, UndoingSame DEF vars, rules, SSHPart
<1> QED BY <1>1, <1>2, <1>3, <1>4, <1>5, <1>6, <1>7 DEF Next

LEMMA InitUndoing == Init => Undoing
  BY UnlockedFields DEF Init, Undoing

-----------------------------------------------------------------------------
(* No lockout with ufw, whatever fails.                                    *)

\* These rules let in everyone whom the rules of the last Keep let in.
LetsIn(R) == reachable(agreed) => reachable(R)

\* What a rollback goes back to lets in, and it ends only once the stored
\* rules do.
NoLockoutInv ==
    /\ rec = NoRec => LetsIn(stored)
    /\ rec # NoRec => LetsIn(rec.pre)
    /\ cs.step = "record" => LetsIn(cs.rec.pre)
    /\ cs.step \in {"arm", "baseline", "finish", "end"} => LetsIn(stored)
    /\ cs.step # "reload"

LEMMA StepLetsIn ==
    ASSUME Backend = "ufw", IInv, Undoing, NoLockoutInv, Step
    PROVE  NoLockoutInv'
<1> cs \in Sections
  BY DEF IInv, TypeOK
<1>1. /\ cs.step \in {"snapshot", "record"} => rec = NoRec
      /\ cs.step \notin {"free", "snapshot", "record"} => rec # NoRec /\ rec.pre = cs.rec.pre
  BY DEF IInv, SectionMatchesRecord
<1>2. CASE Snapshot
  <2>1. UNCHANGED <<rules, rec, agreed>> /\ cs.step = "snapshot"
    BY <1>2 DEF Snapshot, At, ghosts
  <2> DEFINE r == [cs.rec EXCEPT !.pre = Hash]
  <2>2. r.pre = stored
    BY SectionParts DEF Records, Hash
  <2>3. GotoWith("record", r) \/ Unlock
    BY <1>2 DEF Snapshot
  <2> HIDE DEF r
  <2>4. cs'.step = "free" \/ (cs'.step = "record" /\ cs'.rec.pre = stored)
    BY <2>2, <2>3, UnlockedFields DEF GotoWith, Continue, Unlock, Sections
  <2> QED BY <1>1, <2>1, <2>4 DEF NoLockoutInv, LetsIn, rules
<1>3. CASE Record
  <2>1. UNCHANGED <<rules, agreed>> /\ cs.step = "record"
    BY <1>3 DEF Record, At, ghosts
  <2>2. \/ cs'.step = "free" /\ rec' = rec
        \/ cs'.step = "arm" /\ rec' = cs.rec
    BY <1>3, UnlockedFields DEF Record, Goto, Continue, Unlock, Sections
  <2> QED BY <1>1, <2>1, <2>2 DEF NoLockoutInv, LetsIn, rules
<1>4. CASE armLayer1
  <2>1. UNCHANGED <<rules, rec, agreed>> /\ cs.step = "arm" /\ cs'.step = "baseline"
    BY <1>4 DEF armLayer1, At, Goto, GotoWith, Continue, Sections, ghosts
  <2> QED BY <1>1, <2>1 DEF NoLockoutInv, LetsIn, rules
<1>5. CASE Baseline
  <2>1. UNCHANGED <<rules, agreed>> /\ cs.step = "baseline"
    BY <1>5 DEF Baseline, At, ghosts
  <2>2. CASE Goto("finish") /\ UNCHANGED rec
    <3>1. cs'.step = "finish"
      BY <2>2 DEF Goto, Continue, Sections
    <3> QED BY <1>1, <2>1, <2>2, <3>1 DEF NoLockoutInv, LetsIn, rules
  <2>3. CASE ~(Goto("finish") /\ UNCHANGED rec)
    <3>1. PICK seen : LET r == [cs.rec EXCEPT !.baseline = seen]
                      IN  rec' = r /\ Continue("apply", ApplyOps(r.plan), FALSE, r)
      BY <1>5, <2>3 DEF Baseline
    <3> DEFINE r == [cs.rec EXCEPT !.baseline = seen]
    <3>2. r.pre = cs.rec.pre /\ r.id = cs.rec.id
      BY SectionParts DEF Records
    <3>3. rec' = r /\ Continue("apply", ApplyOps(r.plan), FALSE, r)
      BY <3>1
    <3> HIDE DEF r
    <3>4. cs'.step = "apply" /\ rec'.pre = rec.pre
      BY <1>1, <2>1, <3>2, <3>3 DEF Continue, Sections
    <3>5. rec' # NoRec
      <4>1. cs.rec.id \in Ids
        BY <2>1 DEF IInv, SectionMatchesRecord
      <4> QED BY <4>1, <3>2, <3>3, UnlockedFields, BoundsAssumption DEF Ids
    <3> QED BY <1>1, <2>1, <3>4, <3>5 DEF NoLockoutInv, LetsIn, rules
  <2> QED BY <2>2, <2>3
<1>6. CASE Apply \/ Revert \/ Verify
  <2>1. UNCHANGED <<rec, agreed>> /\ rec # NoRec
    BY <1>1, <1>6 DEF Apply, Revert, Verify, At, ghosts
  <2>2. cs'.step \notin {"record", "arm", "baseline", "finish", "end", "reload"}
    BY <1>6, UnlockedFields DEF Apply, Revert, Verify, At, Goto, Do, Next1, Continue, Unlock, Sections
  <2> QED BY <2>1, <2>2 DEF NoLockoutInv, LetsIn
<1>7. CASE Post
  <2> DEFINE r == [cs.rec EXCEPT !.post = {Hash}]
  <2>1. r.pre = cs.rec.pre /\ r.id = cs.rec.id
    BY SectionParts DEF Records
  <2>2. rec' \in {rec, r} /\ (GotoWith("verify", r) \/ Goto("verify"))
    BY <1>7 DEF Post
  <2> HIDE DEF r
  <2>3. cs'.step = "verify"
    BY <2>2 DEF Goto, GotoWith, Continue, Sections
  <2>4. cs.step = "post" /\ UNCHANGED agreed
    BY <1>7 DEF Post, At, ghosts
  <2>5. rec'.pre = rec.pre /\ rec' # NoRec
    <3>1. rec.id = cs.rec.id /\ cs.rec.id \in Ids
      BY <2>4 DEF IInv, SectionMatchesRecord
    <3> QED BY <1>1, <2>1, <2>2, <2>4, <3>1, UnlockedFields, BoundsAssumption DEF Ids
  <2> QED BY <1>1, <2>3, <2>4, <2>5 DEF NoLockoutInv, LetsIn
<1>8. CASE Decide
  <2>1. UNCHANGED <<rules, rec, agreed>> /\ cs.step = "rollback"
    BY <1>8 DEF Decide, At
  <2>2. \/ cs'.step \in {"free", "revert", "restore"}
        \/ cs'.step = "finish" /\ stored = cs.rec.pre
    BY <1>8, UnlockedFields
       DEF Decide, Unchanged, Hash, Goto, Do, Continue, Unlock, Sections
  <2> QED BY <1>1, <2>1, <2>2 DEF NoLockoutInv, LetsIn, rules
<1>9. CASE Guard
  <2>1. UNCHANGED <<rules, rec, agreed>> /\ cs.step = "guard"
    BY <1>9 DEF Guard, At
  <2>2. CASE cs'.step = "restore"
    BY <1>1, <2>1, <2>2 DEF NoLockoutInv, LetsIn, rules
  <2>3. CASE cs'.step # "restore"
    <3>1. PICK P \in Probes, blocks \in BOOLEAN :
            ~cs.failed /\ ~lockoutRisk(P, cs.rec.pre, blocks) /\ Goto("finish")
      BY <1>9, <2>3 DEF Guard, Do, Continue, Sections
    <3>2. P \in {stored, live} /\ Synced
      BY <2>1, <3>1 DEF Probes, Undoing
    <3>3. reachable(cs.rec.pre) => reachable(stored)
      BY <3>1, <3>2, ReachableSSH DEF lockoutRisk, Synced
    <3>4. cs'.step = "finish"
      BY <3>1 DEF Goto, Continue, Sections
    <3> QED BY <1>1, <2>1, <3>3, <3>4 DEF NoLockoutInv, LetsIn, rules
  <2> QED BY <2>2, <2>3
<1>10. CASE Restore
  <2>1. UNCHANGED <<rec, agreed>> /\ cs.step = "restore" /\ rec # NoRec
    BY <1>1, <1>10 DEF Restore, At, ghosts
  <2>2. CASE cs'.step \in {"free", "restore"}
    BY <2>1, <2>2 DEF NoLockoutInv, LetsIn
  <2>3. CASE cs'.step \notin {"free", "restore"}
    <3>1. Done /\ Goto("finish") /\ UNCHANGED rules
      BY <1>10, <2>1, <2>3, UnlockedFields DEF Restore, Next1, Do, Continue, Unlock, Sections
    <3>2. cs'.step = "finish"
      BY <3>1 DEF Goto, Continue, Sections
    <3>3. SSHPart(stored) = SSHPart(cs.rec.pre)
      BY <2>1, <3>1 DEF Undoing, Done, SSHPart
    <3> QED BY <1>1, <2>1, <3>1, <3>2, <3>3, ReachableSSH DEF NoLockoutInv, LetsIn, rules
  <2> QED BY <2>2, <2>3
<1>11. CASE Finish
  <2>1. /\ UNCHANGED <<rules, rec, agreed>> /\ cs.step = "finish" /\ cs'.step = "end"
    BY <1>11 DEF Finish, At, Goto, Continue, Sections, ghosts
  <2> QED BY <1>1, <2>1 DEF NoLockoutInv, LetsIn, rules
<1>12. CASE End
  <2>1. /\ UNCHANGED <<rules, agreed>> /\ rec' \in {rec, NoRec} /\ cs.step = "end"
        /\ cs'.step = "free"
    BY <1>12, UnlockedFields DEF End, At, Unlock
  <2> QED BY <1>1, <2>1 DEF NoLockoutInv, LetsIn, rules
<1>13. CASE Commit \/ Uncommit
  <2>1. cs'.step \in {"free", "commit", "uncommit"} /\ rec # NoRec
    BY <1>1, <1>13, UnlockedFields
       DEF Commit, Uncommit, At, Next1, Do, Continue, Unlock, Sections
  <2>2. CASE UNCHANGED <<rec, agreed>>
    BY <2>1, <2>2 DEF NoLockoutInv, LetsIn
  <2>3. CASE ~UNCHANGED <<rec, agreed>>
    <3>1. rec' = NoRec /\ agreed' = SSHPart(stored) /\ UNCHANGED stored
      BY <1>13, <2>3 DEF Commit, Uncommit, Hash, ghosts
    <3>2. LetsIn(stored)'
      BY <3>1, SSHPartPart, ReachableSSH DEF LetsIn
    <3> QED BY <2>1, <3>1, <3>2 DEF NoLockoutInv
  <2> QED BY <2>2, <2>3
<1>14. CASE FwdReload
  BY <1>14 DEF FwdReload, At, NoLockoutInv
<1> QED BY <1>2, <1>3, <1>4, <1>5, <1>6, <1>7, <1>8, <1>9, <1>10, <1>11, <1>12, <1>13, <1>14
        DEF Step, Trial, Rollback

LEMMA NextLetsIn ==
    ASSUME Backend = "ufw", IInv, Undoing, NoLockoutInv, [Next]_vars
    PROVE  NoLockoutInv'
<1> cs \in Sections /\ TypeOK
  BY DEF IInv, TypeOK
<1>1. CASE Step
  BY <1>1, StepLetsIn
<1>2. CASE User \/ Layers
  <2>1. UNCHANGED <<rules, rec, agreed>>
    BY <1>2, Entered
  <2>2. UNCHANGED cs \/ cs'.step \in {"snapshot", "rollback", "commit"}
    BY <1>2, Entered DEF Begins, Commits, RollsBack
  <2> QED BY <2>1, <2>2 DEF NoLockoutInv, LetsIn, rules
<1>3. CASE Environment \/ UNCHANGED vars
  <2>1. UNCHANGED <<rec, agreed>> /\ cs' \in {cs, Unlocked}
    BY <1>3 DEF Environment, NewConn, EndConn, ForeignEdit, CrashAgent, CrashLayer1,
         Reboot, Unlock, vars, ghosts
  <2>2. SSHPart(stored)' = SSHPart(stored)
    <3>1. ASSUME NEW x \in Foreign, NEW op \in {"add", "delete"}, ForeignEdit(x, op)
          PROVE  SSHPart(stored)' = SSHPart(stored)
      BY <3>1, EditSSH
    <3>2. CASE UNCHANGED stored
      BY <3>2 DEF SSHPart
    <3> QED BY <1>3, <3>1, <3>2 DEF Environment, NewConn, EndConn, CrashAgent, CrashLayer1,
            Reboot, vars, rules
  <2>3. SSHPart(stored') = SSHPart(stored)
    BY <2>2 DEF SSHPart
  <2>4. LetsIn(stored) => LetsIn(stored)'
    BY <2>1, <2>3, ReachableSSH DEF LetsIn
  <2> QED BY <2>1, <2>4, UnlockedFields DEF NoLockoutInv, LetsIn
<1> QED BY <1>1, <1>2, <1>3 DEF Next

\* With ufw, whatever commands fail and whatever crashes or reboots strike, in
\* a Restore too, SSH that was reachable by the rules of the last Keep is
\* reachable when no trial is pending.
THEOREM NoLockoutCorrect ==
    ASSUME Backend = "ufw"
    PROVE  Spec => []NoLockout
<1> DEFINE I == IInv /\ Undoing /\ NoLockoutInv
<1>1. Init => I
  <2>1. ASSUME Init PROVE NoLockoutInv
    <3>1. rec = NoRec /\ cs.step = "free" /\ agreed = SSHPart(stored)
      BY <2>1, UnlockedFields DEF Init
    <3>2. LetsIn(stored)
      BY <3>1, SSHPartPart, ReachableSSH DEF LetsIn
    <3> QED BY <3>1, <3>2 DEF NoLockoutInv
  <2>2. Init => IInv
    BY InitType DEF Init, SectionMatchesRecord, Unlocked, IInv
  <2> QED BY <2>1, <2>2, InitUndoing
<1>2. I /\ [Next]_vars => I'
  BY NextKeepsIInv, NextUndoing, NextLetsIn
<1>3. I => NoLockout
  BY DEF NoLockoutInv, NoLockout, LetsIn, Hash
<1> QED BY <1>1, <1>2, <1>3, PTL DEF Spec

-----------------------------------------------------------------------------
(* What a plan and its inverse lead to.                                    *)

Want(open) == IF open THEN "allow" ELSE "deny"

\* Every file has the same SSH rules.
Even(R) == \A r \in SSHRules, f, g \in FileSet : r \in R[f] => r \in R[g]

Mentions(c, r) == c.op # "reload" /\ r \in c.rules

\* The last of these commands that names a rule decides whether it is there
\* in the end; a rule that none of them names stays as it is.
Leads(ops, R, T) ==
    \A r \in SSHRules, f \in FileSet :
        \/ \E k \in DOMAIN ops :
              /\ Mentions(ops[k], r)
              /\ ops[k].op = "add" <=> r \in T[f]
              /\ \A j \in DOMAIN ops : j > k => ~Mentions(ops[j], r)
        \/ /\ \A k \in DOMAIN ops : ~Mentions(ops[k], r)
           /\ r \in R[f] <=> r \in T[f]

\* These commands add only rules that T has, or the wanted one.
AddsOnly(ops, want, T) ==
    \A k \in DOMAIN ops, r \in SSHRules :
        Mentions(ops[k], r) /\ ops[k].op = "add" => r = want \/ \A f \in FileSet : r \in T[f]

LEMMA LeadsThere ==
    ASSUME NEW R, NEW T, Leads(<< >>, R, T)
    PROVE  SSHPart(R) = SSHPart(T)
<1>1. \A r \in SSHRules, f \in FileSet : r \in R[f] <=> r \in T[f]
  BY DEF Leads
<1> QED BY <1>1 DEF SSHPart

LEMMA LeadsOn ==
    ASSUME NEW S, NEW ops \in Seq(S), ops # << >>, NEW R, NEW T, NEW Q, Leads(ops, R, T),
           \A r \in SSHRules, f \in FileSet :
              r \in Q[f] <=> IF Mentions(Head(ops), r) THEN Head(ops).op = "add" ELSE r \in R[f]
    PROVE  Leads(Tail(ops), Q, T)
<1> SUFFICES ASSUME NEW r \in SSHRules, NEW f \in FileSet
             PROVE  \/ \E k \in DOMAIN Tail(ops) :
                          /\ Mentions(Tail(ops)[k], r)
                          /\ Tail(ops)[k].op = "add" <=> r \in T[f]
                          /\ \A j \in DOMAIN Tail(ops) : j > k => ~Mentions(Tail(ops)[j], r)
                    \/ /\ \A k \in DOMAIN Tail(ops) : ~Mentions(Tail(ops)[k], r)
                       /\ r \in Q[f] <=> r \in T[f]
  BY DEF Leads
<1> DEFINE t == Tail(ops)
<1>1. /\ \A k \in DOMAIN ops : k = 1 \/ (k - 1 \in DOMAIN t /\ t[k - 1] = ops[k])
      /\ \A k \in DOMAIN t : k + 1 \in DOMAIN ops /\ ops[k + 1] = t[k]
      /\ Head(ops) = ops[1] /\ 1 \in DOMAIN ops
      /\ DOMAIN ops \subseteq Nat /\ DOMAIN t \subseteq Nat \ {0}
  BY TailLast
<1> HIDE DEF t
<1>2. CASE \A k \in DOMAIN ops : ~Mentions(ops[k], r)
  <2>1. r \in R[f] <=> r \in T[f]
    BY <1>2 DEF Leads
  <2>2. \A k \in DOMAIN t : ~Mentions(t[k], r)
    BY <1>1, <1>2
  <2> QED BY <1>1, <1>2, <2>1, <2>2 DEF t
<1>3. CASE ~\A k \in DOMAIN ops : ~Mentions(ops[k], r)
  <2>1. PICK k \in DOMAIN ops :
           /\ Mentions(ops[k], r)
           /\ ops[k].op = "add" <=> r \in T[f]
           /\ \A j \in DOMAIN ops : j > k => ~Mentions(ops[j], r)
    BY <1>3 DEF Leads
  <2>2. CASE k = 1
    <3>1. \A j \in DOMAIN t : ~Mentions(t[j], r)
      <4> TAKE j \in DOMAIN t
      <4>1. j + 1 \in DOMAIN ops /\ ops[j + 1] = t[j] /\ j + 1 > k
        BY <1>1, <2>2
      <4> QED BY <2>1, <4>1
    <3>2. r \in Q[f] <=> r \in T[f]
      BY <1>1, <2>1, <2>2
    <3> QED BY <3>1, <3>2 DEF t
  <2>3. CASE k # 1
    <3>1. k - 1 \in DOMAIN t /\ t[k - 1] = ops[k]
      BY <1>1, <2>3
    <3>2. \A j \in DOMAIN t : j > k - 1 => ~Mentions(t[j], r)
      <4> SUFFICES ASSUME NEW j \in DOMAIN t, j > k - 1 PROVE ~Mentions(t[j], r)
        OBVIOUS
      <4>1. j + 1 \in DOMAIN ops /\ ops[j + 1] = t[j] /\ j + 1 > k
        BY <1>1, <2>1
      <4> QED BY <2>1, <4>1
    <3> QED BY <2>1, <3>1, <3>2 DEF t
  <2> QED BY <2>2, <2>3
<1> QED BY <1>2, <1>3

LEMMA AddsOnlyOn ==
    ASSUME NEW S, NEW ops \in Seq(S), ops # << >>, NEW want, NEW T, AddsOnly(ops, want, T)
    PROVE  AddsOnly(Tail(ops), want, T)
  BY TailLast DEF AddsOnly

\* A command that changes SSH rules, on both kinds of copy.
LEMMA ChangedSSH ==
    ASSUME NEW R, NEW c \in SSHChanges
    PROVE  \A r \in SSHRules, f \in FileSet :
              r \in Changed(R, c)[f] <=> IF Mentions(c, r) THEN c.op = "add" ELSE r \in R[f]
  BY DEF Changed, SSHChanges, Mentions

\* A plan depends on the SSH rules alone.
LEMMA PlanOfSSH ==
    ASSUME NEW R, NEW Q, SSHPart(R) = SSHPart(Q), NEW open \in BOOLEAN
    PROVE  sshPortPlan(R, open) = sshPortPlan(Q, open)
<1>1. \A r \in SSHRules, f \in FileSet : r \in R[f] <=> r \in Q[f]
  <2> TAKE r \in SSHRules, f \in FileSet
  <2>1. R[f] \cap SSHRules = Q[f] \cap SSHRules
    BY DEF SSHPart
  <2> QED BY <2>1
<1>2. \A r \in SSHRules : Delete(R, r) = Delete(Q, r)
  BY <1>1 DEF Delete
<1> QED BY <1>2 DEF sshPortPlan, SSHRules

\* The four plans there are, and their inverses.
LEMMA PlanShape ==
    ASSUME NEW A, NEW open \in BOOLEAN
    PROVE  LET w == Want(open)
               v == Want(~open)
               Has(r) == \E f \in FileSet : r \in A[f]
               add(r) == [op |-> "add", rules |-> {r}]
               del(r) == [op |-> "delete", rules |-> {r}]
           IN  sshPortPlan(A, open) =
                 (IF Has(v) THEN << del(v) >> ELSE << >>)
                   \o (IF Has(w) THEN << del(w) >> ELSE << >>) \o << add(w) >>
  BY DEF sshPortPlan, Delete, Want

Undo(c) == [op |-> IF c.op = "delete" THEN "add" ELSE "delete", rules |-> c.rules]

LEMMA InverseShape ==
    /\ \A a : inverse(<< a >>) = << Undo(a) >>
    /\ \A a, b : inverse(<< a, b >>) = << Undo(b), Undo(a) >>
    /\ \A a, b, c : inverse(<< a, b, c >>) = << Undo(c), Undo(b), Undo(a) >>
<1>0. \A p : inverse(p) = [k \in 1..Len(p) |-> Undo(p[Len(p) + 1 - k])]
  BY DEF inverse, Undo
<1>1. ASSUME NEW a PROVE inverse(<< a >>) = << Undo(a) >>
  <2>1. [k \in 1..1 |-> Undo(<< a >>[2 - k])] = << Undo(a) >>
    OBVIOUS
  <2> QED BY <1>0, <2>1
<1>2. ASSUME NEW a, NEW b PROVE inverse(<< a, b >>) = << Undo(b), Undo(a) >>
  <2> DEFINE p == << a, b >>
             g == [k \in 1..Len(p) |-> Undo(p[Len(p) + 1 - k])]
  <2>0. inverse(p) = g
    BY <1>0
  <2>1. Len(p) = 2 /\ p[1] = a /\ p[2] = b
    OBVIOUS
  <2> HIDE DEF p
  <2>2. g[1] = Undo(b) /\ g[2] = Undo(a)
    BY <2>1
  <2>3. g \in Seq({Undo(a), Undo(b)}) /\ Len(g) = 2
    <3>1. \A k \in 1..Len(p) : Undo(p[Len(p) + 1 - k]) \in {Undo(a), Undo(b)}
      BY <2>1
    <3> QED BY <2>1, <3>1, IsASeq
  <2> HIDE DEF g
  <2>4. g = << g[1], g[2] >>
    BY <2>3
  <2> QED BY <2>0, <2>2, <2>4 DEF p
<1>3. ASSUME NEW a, NEW b, NEW c
      PROVE  inverse(<< a, b, c >>) = << Undo(c), Undo(b), Undo(a) >>
  <2> DEFINE p == << a, b, c >>
             g == [k \in 1..Len(p) |-> Undo(p[Len(p) + 1 - k])]
  <2>0. inverse(p) = g
    BY <1>0
  <2>1. Len(p) = 3 /\ p[1] = a /\ p[2] = b /\ p[3] = c
    OBVIOUS
  <2> HIDE DEF p
  <2>2. g[1] = Undo(c) /\ g[2] = Undo(b) /\ g[3] = Undo(a)
    BY <2>1
  <2>3. g \in Seq({Undo(a), Undo(b), Undo(c)}) /\ Len(g) = 3
    <3>1. \A k \in 1..Len(p) : Undo(p[Len(p) + 1 - k]) \in {Undo(a), Undo(b), Undo(c)}
      BY <2>1
    <3> QED BY <2>1, <3>1, IsASeq
  <2> HIDE DEF g
  <2>4. g = << g[1], g[2], g[3] >>
    BY <2>3
  <2> QED BY <2>0, <2>2, <2>4 DEF p
<1> QED BY <1>1, <1>2, <1>3

\* The reload after them changes neither.
LEMMA LeadsReload ==
    ASSUME NEW q \in Seq(SSHChanges), NEW T
    PROVE  /\ \A R : Leads(q, R, T) => Leads(q \o Reload, R, T)
           /\ \A want : AddsOnly(q, want, T) => AddsOnly(q \o Reload, want, T)
<1> DEFINE load == [op |-> "reload"]
           S == SSHChanges \cup Loads
<1>1. q \in Seq(S) /\ load \in S /\ \A r : ~Mentions(load, r)
  BY DEF Loads, Mentions
<1>2. q \o Reload = q \o << load >>
  BY DEF Reload
<1> HIDE DEF load, S
<1> DEFINE p == q \o << load >>
<1>3. /\ Len(p) = Len(q) + 1 /\ DOMAIN p = 1..(Len(q) + 1)
      /\ \A k \in 1..Len(q) : p[k] = q[k]
      /\ p[Len(q) + 1] = load
      /\ DOMAIN q = 1..Len(q) /\ Len(q) \in Nat
  BY <1>1, OneMore
<1> HIDE DEF p
<1>4. /\ \A k \in DOMAIN q : k \in DOMAIN p /\ p[k] = q[k]
      /\ \A k \in DOMAIN p : (\E r : Mentions(p[k], r)) => k \in DOMAIN q
  <2>1. ASSUME NEW k \in DOMAIN p, NEW r, Mentions(p[k], r)
        PROVE  k \in DOMAIN q
    <3>1. k # Len(q) + 1
      BY <1>1, <1>3, <2>1
    <3> QED BY <1>3, <3>1
  <2>2. \A k \in DOMAIN q : k \in DOMAIN p /\ p[k] = q[k]
    BY <1>3
  <2> QED BY <2>1, <2>2
<1>5. ASSUME NEW R, Leads(q, R, T)
      PROVE  Leads(p, R, T)
  <2> SUFFICES ASSUME NEW r \in SSHRules, NEW f \in FileSet
               PROVE  \/ \E k \in DOMAIN p :
                            /\ Mentions(p[k], r)
                            /\ p[k].op = "add" <=> r \in T[f]
                            /\ \A j \in DOMAIN p : j > k => ~Mentions(p[j], r)
                      \/ /\ \A k \in DOMAIN p : ~Mentions(p[k], r)
                         /\ r \in R[f] <=> r \in T[f]
    BY DEF Leads
  <2>1. CASE \A k \in DOMAIN q : ~Mentions(q[k], r)
    <3>1. r \in R[f] <=> r \in T[f]
      BY <1>5, <2>1 DEF Leads
    <3>2. \A k \in DOMAIN p : ~Mentions(p[k], r)
      BY <1>4, <2>1
    <3> QED BY <3>1, <3>2
  <2>2. CASE ~\A k \in DOMAIN q : ~Mentions(q[k], r)
    <3>1. PICK k \in DOMAIN q :
             /\ Mentions(q[k], r)
             /\ q[k].op = "add" <=> r \in T[f]
             /\ \A j \in DOMAIN q : j > k => ~Mentions(q[j], r)
      BY <1>5, <2>2 DEF Leads
    <3>2. \A j \in DOMAIN p : j > k => ~Mentions(p[j], r)
      BY <1>4, <3>1
    <3> QED BY <1>4, <3>1, <3>2
  <2> QED BY <2>1, <2>2
<1>6. \A want : AddsOnly(q, want, T) => AddsOnly(p, want, T)
  BY <1>4 DEF AddsOnly
<1> QED BY <1>2, <1>5, <1>6 DEF p

\* Undoing a plan made for rules A leads back to A from any rules that have
\* at most the wanted rule more than A.
LEMMA InverseLeads ==
    ASSUME NEW A, NEW open \in BOOLEAN, Even(A), NEW R,
           \A r \in SSHRules, f \in FileSet : r \in R[f] => r = Want(open) \/ r \in A[f]
    PROVE  /\ Leads(inverse(sshPortPlan(A, open)), R, A)
           /\ AddsOnly(inverse(sshPortPlan(A, open)), Want(open), A)
<1> DEFINE w == Want(open)
           v == Want(~open)
           Has(r) == \E f \in FileSet : r \in A[f]
           add(r) == [op |-> "add", rules |-> {r}]
           del(r) == [op |-> "delete", rules |-> {r}]
           q == inverse(sshPortPlan(A, open))
<1>0. sshPortPlan(A, open) =
        (IF Has(v) THEN << del(v) >> ELSE << >>)
          \o (IF Has(w) THEN << del(w) >> ELSE << >>) \o << add(w) >>
  BY PlanShape
<1>1. /\ w # v /\ w \in SSHRules /\ v \in SSHRules
      /\ \A r \in SSHRules : r = w \/ r = v
  BY DEF Want, SSHRules
<1>2. \A r \in SSHRules : add(r) \in SSHChanges /\ del(r) \in SSHChanges
  BY DEF SSHChanges
<1>3. \A r, s : /\ Mentions(add(r), s) <=> s = r
                /\ Mentions(del(r), s) <=> s = r
                /\ add(r).op = "add" /\ del(r).op = "delete"
  BY DEF Mentions
<1>4. \A r : Undo(add(r)) = del(r) /\ Undo(del(r)) = add(r)
  BY DEF Undo
<1>5. \A r \in SSHRules, f \in FileSet : r \in A[f] <=> Has(r)
  BY DEF Even
<1>6. \A f \in FileSet : ~Has(v) => v \notin R[f]
  BY <1>1
<1> HIDE DEF w, v, Has, add, del
<1>7. q = IF Has(v)
            THEN IF Has(w) THEN << del(w), add(w), add(v) >> ELSE << del(w), add(v) >>
            ELSE IF Has(w) THEN << del(w), add(w) >> ELSE << del(w) >>
  <2>1. sshPortPlan(A, open) =
          IF Has(v)
            THEN IF Has(w) THEN << del(v), del(w), add(w) >> ELSE << del(v), add(w) >>
            ELSE IF Has(w) THEN << del(w), add(w) >> ELSE << add(w) >>
    BY <1>0
  <2>2. /\ inverse(<< del(v), del(w), add(w) >>) = << del(w), add(w), add(v) >>
        /\ inverse(<< del(v), add(w) >>) = << del(w), add(v) >>
        /\ inverse(<< del(w), add(w) >>) = << del(w), add(w) >>
        /\ inverse(<< add(w) >>) = << del(w) >>
    BY <1>4, InverseShape
  <2> QED BY <2>1, <2>2
<1> HIDE DEF q
<1>8. AddsOnly(q, w, A)
  BY <1>1, <1>3, <1>5, <1>7 DEF AddsOnly
<1>9. Leads(q, R, A)
  <2> SUFFICES ASSUME NEW r \in SSHRules, NEW f \in FileSet
               PROVE  \/ \E k \in DOMAIN q :
                            /\ Mentions(q[k], r)
                            /\ q[k].op = "add" <=> r \in A[f]
                            /\ \A j \in DOMAIN q : j > k => ~Mentions(q[j], r)
                      \/ /\ \A k \in DOMAIN q : ~Mentions(q[k], r)
                         /\ r \in R[f] <=> r \in A[f]
    BY DEF Leads
  <2>1. CASE Has(v) /\ Has(w)
    <3>1. q = << del(w), add(w), add(v) >> /\ DOMAIN q = {1, 2, 3}
      BY <1>7, <2>1
    <3>2. q[1] = del(w) /\ q[2] = add(w) /\ q[3] = add(v)
      BY <3>1
    <3> QED BY <1>1, <1>3, <1>5, <2>1, <3>1, <3>2
  <2>2. CASE Has(v) /\ ~Has(w)
    <3>1. q = << del(w), add(v) >> /\ DOMAIN q = {1, 2}
      BY <1>7, <2>2
    <3>2. q[1] = del(w) /\ q[2] = add(v)
      BY <3>1
    <3> QED BY <1>1, <1>3, <1>5, <2>2, <3>1, <3>2
  <2>3. CASE ~Has(v) /\ Has(w)
    <3>1. q = << del(w), add(w) >> /\ DOMAIN q = {1, 2}
      BY <1>7, <2>3
    <3>2. q[1] = del(w) /\ q[2] = add(w)
      BY <3>1
    <3> QED BY <1>1, <1>3, <1>5, <1>6, <2>3, <3>1, <3>2
  <2>4. CASE ~Has(v) /\ ~Has(w)
    <3>1. q = << del(w) >> /\ DOMAIN q = {1} /\ q[1] = del(w)
      BY <1>7, <2>4
    <3> QED BY <1>1, <1>3, <1>5, <1>6, <2>4, <3>1
  <2> QED BY <2>1, <2>2, <2>3, <2>4
<1> QED BY <1>8, <1>9 DEF q, w

\* A plan adds nothing but the wanted rule.
LEMMA PlanAdds ==
    ASSUME NEW A, NEW open \in BOOLEAN, NEW T
    PROVE  AddsOnly(sshPortPlan(A, open), Want(open), T)
<1> DEFINE w == Want(open)
           v == Want(~open)
           Has(r) == \E f \in FileSet : r \in A[f]
           add(r) == [op |-> "add", rules |-> {r}]
           del(r) == [op |-> "delete", rules |-> {r}]
           q == sshPortPlan(A, open)
<1>1. q = (IF Has(v) THEN << del(v) >> ELSE << >>)
            \o (IF Has(w) THEN << del(w) >> ELSE << >>) \o << add(w) >>
  BY PlanShape
<1>2. \A r, s : Mentions(add(r), s) => s = r
  BY DEF Mentions
<1>3. \A r : del(r).op # "add"
  OBVIOUS
<1> HIDE DEF w, v, Has, add, del, q
<1>4. q = IF Has(v)
            THEN IF Has(w) THEN << del(v), del(w), add(w) >> ELSE << del(v), add(w) >>
            ELSE IF Has(w) THEN << del(w), add(w) >> ELSE << add(w) >>
  BY <1>1
<1>5. \A k \in DOMAIN q : q[k] \in {del(v), del(w), add(w)}
  <2>1. CASE q = << del(v), del(w), add(w) >>
    <3>1. DOMAIN q = {1, 2, 3} /\ q[1] = del(v) /\ q[2] = del(w) /\ q[3] = add(w)
      BY <2>1
    <3> QED BY <3>1
  <2>2. CASE q = << del(v), add(w) >>
    <3>1. DOMAIN q = {1, 2} /\ q[1] = del(v) /\ q[2] = add(w)
      BY <2>2
    <3> QED BY <3>1
  <2>3. CASE q = << del(w), add(w) >>
    <3>1. DOMAIN q = {1, 2} /\ q[1] = del(w) /\ q[2] = add(w)
      BY <2>3
    <3> QED BY <3>1
  <2>4. CASE q = << add(w) >>
    BY <2>4
  <2> QED BY <1>4, <2>1, <2>2, <2>3, <2>4
<1>6. AddsOnly(q, w, T)
  BY <1>2, <1>3, <1>5 DEF AddsOnly
<1> QED BY <1>6 DEF q, w

-----------------------------------------------------------------------------
(* ufw keeps the promise, as long as no rollback stops half-way.           *)

\* These rules have no SSH rule but the agreed ones and the wanted one.
Within(R) ==
    \A r \in SSHRules, f \in FileSet : r \in R[f] => r = Want(rec.open) \/ r \in agreed[f]

\* The plan was made for the agreed rules.
Planned(r) == r.plan = sshPortPlan(agreed, r.open)

\* What a rollback goes back to and how it gets there.
UfwRecords ==
    /\ rec # NoRec => Planned(rec) /\ SSHPart(rec.pre) = agreed
    /\ cs.step # "free" => Planned(cs.rec)
    /\ cs.step \notin {"free", "snapshot"} => SSHPart(cs.rec.pre) = agreed
    /\ cs.step \notin {"free", "snapshot", "record"} => rec.open = cs.rec.open
    /\ cs.step = "commit" => cs.ops = << >>
    /\ cs.step \notin {"uncommit", "reload"}

\* The stored rules are the agreed ones or on their way from or to them.
UfwRules ==
    /\ Even(agreed) /\ SSHPart(agreed) = agreed
    /\ cs.step # "restore" => Even(stored)
    /\ rec = NoRec => SSHPart(stored) = agreed
    /\ rec # NoRec => Within(stored)
    /\ cs.step \in {"arm", "baseline", "guard", "finish", "end"} => SSHPart(stored) = agreed
    /\ cs.step \in {"apply", "revert"} => AddsOnly(cs.ops, Want(cs.rec.open), agreed)
    /\ cs.step = "revert" => Leads(cs.ops, stored, agreed)

UfwInv == UfwRecords /\ UfwRules

LEMMA SSHSame ==
    ASSUME NEW R, NEW Q, SSHPart(R) = SSHPart(Q)
    PROVE  /\ Even(R) <=> Even(Q)
           /\ \A r \in SSHRules, f \in FileSet : r \in R[f] <=> r \in Q[f]
           /\ \A ops, T : Leads(ops, R, T) <=> Leads(ops, Q, T)
<1>1. \A r \in SSHRules, f \in FileSet : r \in R[f] <=> r \in Q[f]
  <2> TAKE r \in SSHRules, f \in FileSet
  <2>1. R[f] \cap SSHRules = Q[f] \cap SSHRules
    BY DEF SSHPart
  <2> QED BY <2>1
<1> QED BY <1>1 DEF Even, Leads

\* Steps that leave the SSH rules, the last Keep and the pending trial alone.
LEMMA UfwSame ==
    ASSUME UfwInv, UNCHANGED agreed, SSHPart(stored') = SSHPart(stored),
           \/ rec' = rec
           \/ /\ rec # NoRec /\ rec' # NoRec /\ rec'.plan = rec.plan
              /\ rec'.pre = rec.pre /\ rec'.open = rec.open,
           \/ UNCHANGED cs
           \/ cs'.step = "free" /\ cs.step # "restore"
           \/ /\ cs.step = "free" /\ rec # NoRec /\ rec' = rec /\ cs'.rec = rec
              /\ cs'.step = "rollback" \/ (cs'.step = "commit" /\ cs'.ops = << >>)
           \/ /\ cs.step \notin {"free", "snapshot", "record"}
              /\ cs'.rec.plan = cs.rec.plan /\ cs'.rec.pre = cs.rec.pre
              /\ cs'.rec.open = cs.rec.open
              /\ \/ cs'.step \in {"post", "verify", "rollback"} /\ cs.step # "restore"
                 \/ /\ cs'.step \in {"arm", "baseline", "guard", "finish", "end"}
                    /\ SSHPart(stored) = agreed
                 \/ /\ cs'.step = "apply" /\ cs.step # "restore"
                    /\ AddsOnly(cs'.ops, Want(cs.rec.open), agreed)
                 \/ cs'.step = "restore"
                 \/ /\ cs'.step = "revert" /\ cs.step # "restore"
                    /\ AddsOnly(cs'.ops, Want(cs.rec.open), agreed)
                    /\ Leads(cs'.ops, stored, agreed)
    PROVE  UfwInv'
<1>1. UfwRecords'
  BY DEF UfwInv, UfwRecords, Planned
<1>2. /\ Even(stored') <=> Even(stored)
      /\ Within(stored) /\ rec' # NoRec => Within(stored)'
      /\ Leads(cs'.ops, stored, agreed) => Leads(cs'.ops, stored', agreed)
  BY SSHSame DEF Within
<1>3. SSHPart(stored) = agreed => Even(stored)
  BY SSHSame DEF UfwInv, UfwRules
<1>4. UfwRules'
  BY <1>2, <1>3 DEF UfwInv, UfwRules
<1> QED BY <1>1, <1>4 DEF UfwInv

\* Half a rollback is what breaks the promise: a file or a command that
\* fails on the way back, or a crash between two files.
Whole == {"revert", "restore", "restoreCrash"} \cap Kinds = {}

LEMMA BeginsUfw ==
    ASSUME Backend = "ufw", TypeOK, UfwInv, NEW open \in BOOLEAN, StartTrial(open)
    PROVE  UfwInv'
<1>1. /\ UNCHANGED <<rules, rec, agreed>> /\ rec = NoRec /\ cs'.step = "snapshot"
      /\ cs'.rec.plan = sshPortPlan(stored, open) /\ cs'.rec.open = open
  BY DEF StartTrial, Lock, LockFor, NoRec, Hash
<1>2. SSHPart(stored) = SSHPart(agreed)
  BY <1>1 DEF UfwInv, UfwRules
<1>3. Planned(cs.rec)'
  BY <1>1, <1>2, PlanOfSSH DEF Planned
<1>4. Even(stored)
  BY <1>2, SSHSame DEF UfwInv, UfwRules
<1>5. UfwRecords'
  BY <1>1, <1>3 DEF UfwInv, UfwRecords, Planned
<1>6. UfwRules'
  BY <1>1, <1>4 DEF UfwInv, UfwRules, rules
<1> QED BY <1>5, <1>6 DEF UfwInv

\* From the snapshot to the first change.
LEMMA PreparesUfw ==
    ASSUME Backend = "ufw", IInv, UfwInv, Snapshot \/ Record \/ armLayer1 \/ Baseline \/ Post
    PROVE  UfwInv'
<1> cs \in Sections
  BY DEF IInv, TypeOK
<1>1. /\ cs.step \in {"snapshot", "record"} => rec = NoRec
      /\ cs.step \notin {"free", "snapshot", "record"}
            => /\ rec # NoRec /\ rec.pre = cs.rec.pre /\ rec.id = cs.rec.id
               /\ rec.open = cs.rec.open /\ rec.plan = cs.rec.plan /\ cs.rec.id \in Ids
  BY DEF IInv, SectionMatchesRecord, UfwInv, UfwRecords, Planned
<1>2. CASE Snapshot
  <2>1. UNCHANGED <<rules, rec, agreed>> /\ cs.step = "snapshot" /\ rec = NoRec
    BY <1>1, <1>2 DEF Snapshot, At, ghosts
  <2> DEFINE r == [cs.rec EXCEPT !.pre = Hash]
  <2>2. r.pre = stored /\ r.plan = cs.rec.plan /\ r.open = cs.rec.open
    BY SectionParts DEF Records, Hash
  <2>3. GotoWith("record", r) \/ Unlock
    BY <1>2 DEF Snapshot
  <2> HIDE DEF r
  <2>4. \/ cs'.step = "free"
        \/ /\ cs'.step = "record" /\ cs'.rec.pre = stored
           /\ cs'.rec.plan = cs.rec.plan /\ cs'.rec.open = cs.rec.open
    BY <2>2, <2>3, UnlockedFields DEF GotoWith, Continue, Unlock, Sections
  <2>5. UfwRecords'
    BY <2>1, <2>4 DEF UfwInv, UfwRecords, UfwRules, Planned
  <2>6. UfwRules'
    BY <2>1, <2>4 DEF UfwInv, UfwRules, rules
  <2> QED BY <2>5, <2>6 DEF UfwInv
<1>3. CASE Record
  <2>1. UNCHANGED <<rules, agreed>> /\ cs.step = "record" /\ rec = NoRec
    BY <1>1, <1>3 DEF Record, At, ghosts
  <2>2. CASE cs'.step = "free" /\ rec' = rec
    <3>1. UfwRecords'
      BY <2>1, <2>2 DEF UfwInv, UfwRecords
    <3>2. UfwRules'
      BY <2>1, <2>2 DEF UfwInv, UfwRules, rules
    <3> QED BY <3>1, <3>2 DEF UfwInv
  <2>3. CASE cs'.step = "arm" /\ rec' = cs.rec /\ cs'.rec = cs.rec
    <3>1. UfwRecords'
      BY <2>1, <2>3 DEF UfwInv, UfwRecords, Planned
    <3>2. SSHPart(stored) = SSHPart(agreed)
      BY <2>1 DEF UfwInv, UfwRules
    <3>3. Within(stored)'
      BY <2>1, <3>2, SSHSame DEF Within, rules
    <3>4. UfwRules'
      BY <2>1, <2>3, <3>3 DEF UfwInv, UfwRules, rules
    <3> QED BY <3>1, <3>4 DEF UfwInv
  <2> QED BY <1>3, <2>2, <2>3, UnlockedFields DEF Record, Goto, Continue, Unlock, Sections
<1>4. CASE armLayer1
  <2> DEFINE r == [cs.rec EXCEPT !.layer1 = TRUE]
  <2>1. r.pre = cs.rec.pre /\ r.plan = cs.rec.plan /\ r.open = cs.rec.open
    BY SectionParts DEF Records
  <2>2. GotoWith("baseline", r) \/ Goto("baseline")
    BY <1>4 DEF armLayer1
  <2> HIDE DEF r
  <2>3. /\ cs'.step = "baseline" /\ cs'.rec.pre = cs.rec.pre
        /\ cs'.rec.plan = cs.rec.plan /\ cs'.rec.open = cs.rec.open
    BY <2>1, <2>2 DEF GotoWith, Goto, Continue, Sections
  <2>4. UNCHANGED <<rules, rec, agreed>> /\ cs.step = "arm" /\ SSHPart(stored) = agreed
    BY <1>4 DEF armLayer1, At, ghosts, UfwInv, UfwRules
  <2> QED BY <2>3, <2>4, UfwSame DEF rules
<1>5. CASE Baseline
  <2>1. UNCHANGED <<rules, agreed>> /\ cs.step = "baseline" /\ SSHPart(stored) = agreed
    BY <1>5 DEF Baseline, At, ghosts, UfwInv, UfwRules
  <2>2. CASE Goto("finish") /\ UNCHANGED rec
    <3>1. cs'.step = "finish" /\ cs'.rec = cs.rec
      BY <2>2 DEF Goto, Continue, Sections
    <3> QED BY <2>1, <2>2, <3>1, UfwSame DEF rules
  <2>3. CASE ~(Goto("finish") /\ UNCHANGED rec)
    <3>1. PICK seen : LET r == [cs.rec EXCEPT !.baseline = seen]
                      IN  rec' = r /\ Continue("apply", ApplyOps(r.plan), FALSE, r)
      BY <1>5, <2>3 DEF Baseline
    <3> DEFINE r == [cs.rec EXCEPT !.baseline = seen]
    <3>2. /\ r.pre = cs.rec.pre /\ r.id = cs.rec.id
          /\ r.plan = cs.rec.plan /\ r.open = cs.rec.open
      BY SectionParts DEF Records
    <3>3. rec' = r /\ Continue("apply", ApplyOps(r.plan), FALSE, r)
      BY <3>1
    <3> HIDE DEF r
    <3>4. /\ cs'.step = "apply" /\ cs'.rec = r /\ cs'.ops = ApplyOps(cs.rec.plan)
      BY <3>2, <3>3 DEF Continue, Sections
    <3>5. r # NoRec
      BY <1>1, <2>1, <3>2, UnlockedFields, BoundsAssumption DEF Ids
    <3>6. AddsOnly(cs'.ops, Want(cs.rec.open), agreed)
      <4>1. /\ cs.rec.open \in BOOLEAN
            /\ cs.rec.plan = sshPortPlan(agreed, cs.rec.open)
        BY <2>1, SectionParts DEF UfwInv, UfwRecords, Planned, Records
      <4>2. AddsOnly(cs.rec.plan \o Reload, Want(cs.rec.open), agreed)
        BY <4>1, PlanAdds, PlanSSH, LeadsReload DEF Plans
      <4> QED BY <3>4, <4>2 DEF ApplyOps
    <3> QED BY <1>1, <2>1, <3>2, <3>3, <3>4, <3>5, <3>6, UfwSame DEF rules
  <2> QED BY <2>2, <2>3
<1>6. CASE Post
  <2> DEFINE r == [cs.rec EXCEPT !.post = {Hash}]
  <2>1. /\ r.pre = cs.rec.pre /\ r.id = cs.rec.id
        /\ r.plan = cs.rec.plan /\ r.open = cs.rec.open
    BY SectionParts DEF Records
  <2>2. rec' \in {rec, r} /\ (GotoWith("verify", r) \/ Goto("verify"))
    BY <1>6 DEF Post
  <2> HIDE DEF r
  <2>3. /\ cs'.step = "verify" /\ cs'.rec.pre = cs.rec.pre
        /\ cs'.rec.plan = cs.rec.plan /\ cs'.rec.open = cs.rec.open
    BY <2>1, <2>2 DEF Goto, GotoWith, Continue, Sections
  <2>4. cs.step = "post" /\ UNCHANGED <<rules, agreed>>
    BY <1>6 DEF Post, At, ghosts
  <2>5. r # NoRec
    BY <1>1, <2>1, <2>4, UnlockedFields, BoundsAssumption DEF Ids
  <2> QED BY <1>1, <2>1, <2>2, <2>3, <2>4, <2>5, UfwSame DEF rules
<1> QED BY <1>2, <1>3, <1>4, <1>5, <1>6

\* The change itself.
LEMMA AppliesUfw ==
    ASSUME Backend = "ufw", IInv, SSHOnly, UfwInv, Apply
    PROVE  UfwInv'
<1> cs \in Sections
  BY DEF IInv, TypeOK
<1>1. /\ cs.step = "apply" /\ UNCHANGED <<rec, agreed>> /\ rec # NoRec
      /\ rec.open = cs.rec.open
      /\ cs.ops \in Seq(SSHChanges \cup Loads)
      /\ AddsOnly(cs.ops, Want(cs.rec.open), agreed)
      /\ Even(stored) /\ Within(stored)
  BY DEF Apply, At, IInv, SectionMatchesRecord, UfwInv, UfwRecords, UfwRules, SSHOnly, Workloads
<1>2. CASE Goto("post") /\ UNCHANGED rules
  <2>1. cs'.step = "post" /\ cs'.rec = cs.rec
    BY <1>2 DEF Goto, Continue, Sections
  <2> QED BY <1>1, <1>2, <2>1, UfwSame DEF rules
<1>3. CASE Continue("apply", << >>, TRUE, cs.rec) /\ UNCHANGED rules
  <2>1. cs'.step = "apply" /\ cs'.rec = cs.rec /\ cs'.ops = << >>
    BY <1>3 DEF Continue, Sections
  <2>2. AddsOnly(<< >>, Want(cs.rec.open), agreed)
    BY DEF AddsOnly
  <2> QED BY <1>1, <1>3, <2>1, <2>2, UfwSame DEF rules
<1>4. CASE ~Done /\ Run(Head(cs.ops), cs.rec.pre) /\ Next1
  <2> DEFINE c == Head(cs.ops)
  <2>1. cs'.step = "apply" /\ cs'.rec = cs.rec /\ cs'.ops = Tail(cs.ops)
    BY <1>1, <1>4 DEF Next1, Do, Continue, Sections
  <2>2. c \in SSHChanges \cup Loads /\ c = cs.ops[1] /\ 1 \in DOMAIN cs.ops
    BY <1>1, <1>4, TailLast DEF Done
  <2>3. AddsOnly(Tail(cs.ops), Want(cs.rec.open), agreed)
    BY <1>1, <1>4, AddsOnlyOn DEF Done
  <2>4. CASE c \in Loads
    <3>1. UNCHANGED stored
      BY <1>4, <2>4 DEF Run, Loads
    <3> QED BY <1>1, <2>1, <2>3, <3>1, UfwSame
  <2>5. CASE c \in SSHChanges
    <3>1. stored' = Changed(stored, c)
      BY <1>4, <2>5 DEF Run, SSHChanges
    <3>2. \A r \in SSHRules, f \in FileSet :
             r \in stored'[f] <=> IF Mentions(c, r) THEN c.op = "add" ELSE r \in stored[f]
      BY <2>5, <3>1, ChangedSSH
    <3> HIDE DEF c
    <3>3. Even(stored')
      BY <1>1, <3>2 DEF Even
    <3>4. \A r \in SSHRules :
            Mentions(c, r) /\ c.op = "add" => r = Want(cs.rec.open) \/ \A f \in FileSet : r \in agreed[f]
      BY <1>1, <2>2 DEF AddsOnly
    <3>5. Within(stored)'
      BY <1>1, <3>2, <3>4 DEF Within
    <3>6. UfwRecords'
      BY <1>1, <2>1 DEF UfwInv, UfwRecords, Planned
    <3>7. UfwRules'
      BY <1>1, <2>1, <2>3, <3>3, <3>5 DEF UfwInv, UfwRules
    <3> QED BY <3>6, <3>7 DEF UfwInv
  <2> QED BY <2>2, <2>4, <2>5
<1> QED BY <1>2, <1>3, <1>4 DEF Apply

\* Undoing the plan after a foreign edit.
LEMMA RevertsUfw ==
    ASSUME Backend = "ufw", Whole, IInv, SSHOnly, UfwInv, Revert
    PROVE  UfwInv'
<1> cs \in Sections
  BY DEF IInv, TypeOK
<1>1. /\ cs.step = "revert" /\ UNCHANGED <<rec, agreed>> /\ rec # NoRec
      /\ rec.open = cs.rec.open
      /\ cs.ops \in Seq(SSHChanges \cup Loads)
      /\ AddsOnly(cs.ops, Want(cs.rec.open), agreed)
      /\ Leads(cs.ops, stored, agreed)
      /\ Even(stored) /\ Within(stored)
  BY DEF Revert, At, IInv, SectionMatchesRecord, UfwInv, UfwRecords, UfwRules, SSHOnly,
         Workloads, ghosts
<1>2. CASE Done /\ Goto("guard") /\ UNCHANGED rules
  <2>1. cs'.step = "guard" /\ cs'.rec = cs.rec
    BY <1>2 DEF Goto, Continue, Sections
  <2>2. SSHPart(stored) = agreed
    BY <1>1, <1>2, LeadsThere DEF Done, UfwInv, UfwRules
  <2> QED BY <1>1, <1>2, <2>1, <2>2, UfwSame DEF rules
<1>3. CASE ~Done /\ Run(Head(cs.ops), cs.rec.pre) /\ Next1
  <2> DEFINE c == Head(cs.ops)
  <2>1. cs'.step = "revert" /\ cs'.rec = cs.rec /\ cs'.ops = Tail(cs.ops)
    BY <1>1, <1>3 DEF Next1, Do, Continue, Sections
  <2>2. c \in SSHChanges \cup Loads /\ c = cs.ops[1] /\ 1 \in DOMAIN cs.ops /\ cs.ops # << >>
    BY <1>1, <1>3, TailLast DEF Done
  <2>3. AddsOnly(Tail(cs.ops), Want(cs.rec.open), agreed)
    BY <1>1, <2>2, AddsOnlyOn
  <2>4. CASE c \in Loads
    <3>1. UNCHANGED stored
      BY <1>3, <2>4 DEF Run, Loads
    <3>2. \A r : ~Mentions(c, r)
      BY <2>4 DEF Mentions, Loads
    <3>3. Leads(Tail(cs.ops), stored, agreed)
      <4> HIDE DEF c
      <4>1. \A r \in SSHRules, f \in FileSet :
              r \in stored[f] <=> IF Mentions(c, r) THEN c.op = "add" ELSE r \in stored[f]
        BY <3>2
      <4> QED BY <1>1, <2>2, <4>1, LeadsOn DEF c
    <3> QED BY <1>1, <2>1, <2>3, <3>1, <3>3, UfwSame
  <2>5. CASE c \in SSHChanges
    <3>1. stored' = Changed(stored, c)
      BY <1>3, <2>5 DEF Run, SSHChanges
    <3>2. \A r \in SSHRules, f \in FileSet :
             r \in stored'[f] <=> IF Mentions(c, r) THEN c.op = "add" ELSE r \in stored[f]
      BY <2>5, <3>1, ChangedSSH
    <3>3. Leads(Tail(cs.ops), stored', agreed)
      BY <1>1, <2>2, <3>2, LeadsOn
    <3> HIDE DEF c
    <3>4. Even(stored')
      BY <1>1, <3>2 DEF Even
    <3>5. \A r \in SSHRules :
            Mentions(c, r) /\ c.op = "add" => r = Want(cs.rec.open) \/ \A f \in FileSet : r \in agreed[f]
      BY <1>1, <2>2 DEF AddsOnly
    <3>6. Within(stored)'
      BY <1>1, <3>2, <3>5 DEF Within
    <3>7. UfwRecords'
      BY <1>1, <2>1 DEF UfwInv, UfwRecords, Planned
    <3>8. UfwRules'
      BY <1>1, <2>1, <2>3, <3>3, <3>4, <3>6 DEF UfwInv, UfwRules
    <3> QED BY <3>7, <3>8 DEF UfwInv
  <2> QED BY <2>2, <2>4, <2>5
<1> QED BY <1>2, <1>3 DEF Revert, Whole, Fails

\* Writing the snapshot back.
LEMMA RestoresUfw ==
    ASSUME Backend = "ufw", Whole, IInv, Undoing, UfwInv, Restore
    PROVE  UfwInv'
<1> cs \in Sections /\ stored \in RuleSets
  BY DEF IInv, TypeOK
<1>1. /\ cs.step = "restore" /\ UNCHANGED <<rec, agreed>> /\ rec # NoRec
      /\ rec.open = cs.rec.open /\ SSHPart(cs.rec.pre) = SSHPart(agreed)
      /\ Within(stored) /\ Even(agreed)
  BY DEF Restore, At, IInv, SectionMatchesRecord, UfwInv, UfwRecords, UfwRules, ghosts
<1>2. CASE Done /\ Goto("finish") /\ UNCHANGED rules
  <2>1. cs'.step = "finish" /\ cs'.rec = cs.rec
    BY <1>2 DEF Goto, Continue, Sections
  <2>2. SSHPart(stored) = SSHPart(cs.rec.pre)
    BY <1>1, <1>2 DEF Undoing, Done, SSHPart
  <2>3. SSHPart(stored) = agreed
    BY <1>1, <2>2 DEF UfwInv, UfwRules
  <2> QED BY <1>1, <1>2, <2>1, <2>3, UfwSame DEF rules
<1>3. CASE ~Done /\ Run(Head(cs.ops), cs.rec.pre) /\ Next1
  <2> DEFINE c == Head(cs.ops)
  <2>1. cs'.step = "restore" /\ cs'.rec = cs.rec
    BY <1>1, <1>3 DEF Next1, Do, Continue, Sections
  <2>2. c.op \in {"write", "reload"}
    BY <1>1, <1>3, SectionParts, TailLast DEF Undoing, Done
  <2>3. \A f \in FileSet : stored'[f] \in {stored[f], cs.rec.pre[f]}
    BY <1>3, <2>2 DEF Run, RuleSets
  <2>4. Within(stored)'
    BY <1>1, <2>3, SSHSame DEF Within
  <2>5. UfwRecords'
    BY <1>1, <2>1 DEF UfwInv, UfwRecords, Planned
  <2>6. UfwRules'
    BY <1>1, <2>1, <2>4 DEF UfwInv, UfwRules
  <2> QED BY <2>5, <2>6 DEF UfwInv
<1> QED BY <1>2, <1>3 DEF Restore, Whole, Fails

\* The decisions on the way, and the end.
LEMMA DecidesUfw ==
    ASSUME Backend = "ufw", IInv, UfwInv, Verify \/ Decide \/ Guard \/ FwdReload \/ Finish
    PROVE  UfwInv'
<1> cs \in Sections
  BY DEF IInv, TypeOK
<1>1. UNCHANGED <<stored, rec, agreed>>
  BY DEF Verify, Decide, Guard, FwdReload, Finish, rules, ghosts
<1>2. CASE Verify
  <2>1. cs.step = "verify" /\ (cs'.step = "free" \/ (cs'.step = "rollback" /\ cs'.rec = cs.rec))
    BY <1>2, UnlockedFields DEF Verify, At, Goto, Continue, Unlock, Sections
  <2> QED BY <1>1, <2>1, UfwSame
<1>3. CASE Decide
  <2>1. cs.step = "rollback" /\ Planned(cs.rec) /\ SSHPart(cs.rec.pre) = agreed
        /\ rec # NoRec /\ rec.open = cs.rec.open
        /\ Within(stored) /\ Even(agreed) /\ cs.rec.open \in BOOLEAN
    BY <1>3, SectionParts
       DEF Decide, At, IInv, SectionMatchesRecord, UfwInv, UfwRecords, UfwRules, Records
  <2>2. \/ cs'.step = "free"
        \/ cs'.step = "finish" /\ cs'.rec = cs.rec /\ stored = cs.rec.pre
        \/ cs'.step = "restore" /\ cs'.rec = cs.rec
        \/ cs'.step = "revert" /\ cs'.rec = cs.rec /\ cs'.ops = RevertOps(cs.rec.plan)
    BY <1>3, UnlockedFields
       DEF Decide, Unchanged, Hash, Goto, Do, Continue, Unlock, Sections
  <2>3. CASE cs'.step = "revert"
    <3>1. \A r \in SSHRules, f \in FileSet :
             r \in stored[f] => r = Want(cs.rec.open) \/ r \in agreed[f]
      BY <2>1 DEF Within
    <3>2. /\ inverse(cs.rec.plan) \in Seq(SSHChanges)
          /\ Leads(inverse(cs.rec.plan), stored, agreed)
          /\ AddsOnly(inverse(cs.rec.plan), Want(cs.rec.open), agreed)
      BY <2>1, <3>1, PlanSSH, InverseSSH, InverseLeads DEF Planned, Plans
    <3>3. cs'.ops = inverse(cs.rec.plan) \o Reload
      BY <2>2, <2>3 DEF RevertOps
    <3>4. /\ Leads(cs'.ops, stored, agreed)
          /\ AddsOnly(cs'.ops, Want(cs.rec.open), agreed)
      BY <3>2, <3>3, LeadsReload
    <3> QED BY <1>1, <2>1, <2>2, <2>3, <3>4, UfwSame
  <2>4. CASE cs'.step # "revert"
    BY <1>1, <2>1, <2>2, <2>4, UfwSame
  <2> QED BY <2>3, <2>4
<1>4. CASE Guard
  <2>1. /\ cs.step = "guard" /\ SSHPart(stored) = agreed
        /\ cs'.step \in {"restore", "finish"} /\ cs'.rec = cs.rec
    BY <1>4 DEF Guard, At, Goto, Do, Continue, Sections, UfwInv, UfwRules
  <2> QED BY <1>1, <2>1, UfwSame
<1>5. CASE FwdReload
  BY <1>5 DEF FwdReload, At, UfwInv, UfwRecords
<1>6. CASE Finish
  <2>1. /\ cs.step = "finish" /\ SSHPart(stored) = agreed
        /\ cs'.step = "end" /\ cs'.rec = cs.rec
    BY <1>6 DEF Finish, At, Goto, Continue, Sections, UfwInv, UfwRules
  <2> QED BY <1>1, <2>1, UfwSame
<1> QED BY <1>2, <1>3, <1>4, <1>5, <1>6

LEMMA EndsUfw ==
    ASSUME Backend = "ufw", IInv, UfwInv, End \/ Commit \/ Uncommit
    PROVE  UfwInv'
<1>1. /\ cs.step \in {"end", "commit"} /\ rec # NoRec /\ UNCHANGED stored /\ cs'.step = "free"
      /\ UNCHANGED agreed \/ (rec' = NoRec /\ cs.step = "commit" /\ agreed' = SSHPart(stored))
      /\ rec' = rec \/ rec' = NoRec
    BY UnlockedFields DEF End, Commit, Uncommit, At, Done, Unlock, IInv, SectionMatchesRecord,
       UfwInv, UfwRecords, rules, Hash
<1>2. CASE rec' = rec /\ UNCHANGED agreed
  BY <1>1, <1>2, UfwSame
<1>3. CASE rec' = NoRec /\ SSHPart(stored') = agreed'
  <2>1. Even(stored)
    BY <1>1 DEF UfwInv, UfwRules
  <2>2. SSHPart(agreed') = agreed'
    BY <1>3, SSHPartPart
  <2>3. Even(agreed')
    BY <1>1, <1>3, <2>1, <2>2, SSHSame
  <2> QED BY <1>1, <1>3, <2>1, <2>2, <2>3 DEF UfwInv, UfwRecords, UfwRules
<1>4. UNCHANGED agreed /\ rec' = NoRec /\ rec # NoRec => SSHPart(stored') = agreed'
  <2>1. CASE cs.step = "end"
    BY <1>1, <2>1 DEF UfwInv, UfwRules
  <2>2. CASE cs.step = "commit"
    BY <1>1, <2>2, UnlockedFields DEF End, Commit, Uncommit, At, Done, UfwInv, UfwRecords, Hash
  <2> QED BY <1>1, <2>1, <2>2
<1> QED BY <1>1, <1>2, <1>3, <1>4

\* Crashes, reboots, connections and foreign edits leave the record and the
\* last Keep alone, and the stored SSH rules.
LEMMA Surroundings ==
    ASSUME TypeOK, Environment \/ UNCHANGED vars
    PROVE  /\ UNCHANGED <<rec, agreed>> /\ SSHPart(stored') = SSHPart(stored)
           /\ UNCHANGED cs \/ (cs' = Unlocked /\ Strikes)
<1>1. UNCHANGED <<rec, agreed>> /\ (UNCHANGED cs \/ (cs' = Unlocked /\ Strikes))
  BY DEF Environment, NewConn, EndConn, ForeignEdit, CrashAgent, CrashLayer1,
         Reboot, Unlock, vars, ghosts
<1>2. ASSUME NEW x \in Foreign, NEW op \in {"add", "delete"}, ForeignEdit(x, op)
      PROVE  SSHPart(stored') = SSHPart(stored)
  BY <1>2, EditSSH DEF SSHPart
<1>3. CASE UNCHANGED stored
  BY <1>1, <1>3
<1> QED BY <1>1, <1>2, <1>3 DEF Environment, NewConn, EndConn, CrashAgent, CrashLayer1,
        Reboot, vars, rules

LEMMA NextUfw ==
    ASSUME Backend = "ufw", Whole, IInv, SSHOnly, Undoing, UfwInv, [Next]_vars
    PROVE  UfwInv'
<1> TypeOK
  BY DEF IInv
<1>1. CASE Step
  BY <1>1, PreparesUfw, AppliesUfw, RevertsUfw, RestoresUfw, DecidesUfw, EndsUfw
     DEF Step, Trial, Rollback
<1>2. ASSUME NEW open \in BOOLEAN, StartTrial(open)
      PROVE  UfwInv'
  BY <1>2, BeginsUfw
<1>3. CASE Layers \/ \E id \in Ids : Keep(id) \/ RollBackNow(id)
  <2>1. UNCHANGED <<rules, rec, agreed>> /\ (UNCHANGED cs \/ Begins \/ Commits \/ RollsBack)
    BY <1>3, Entered DEF User
  <2>2. CASE Begins
    <3>1. cs'.step \in {"commit", "rollback"} \/ UNCHANGED cs
      <4>1. CASE \E id \in Ids : Keep(id)
        BY <4>1 DEF Keep, LockFor
      <4>2. CASE Layers \/ \E id \in Ids : RollBackNow(id)
        <5>1. \/ UNCHANGED cs
              \/ \E who \in {"bot", "boot", "layer1", "layer2"} : Lock(who, rec, "rollback")
          BY <4>2 DEF Layers, Deadline, FireLayer1, FireLayer2, RunFwRollback,
             autoRollback, reconcileFwTrial, RollBackNow
        <5> QED BY <5>1 DEF Lock, LockFor
      <4> QED BY <1>3, <4>1, <4>2
    <3> QED BY <2>1, <2>2, <3>1, UfwSame DEF Begins, Free, rules
  <2>3. CASE UNCHANGED cs \/ Commits \/ RollsBack
    BY <2>1, <2>3, UfwSame DEF Commits, RollsBack, Free, rules
  <2> QED BY <2>1, <2>2, <2>3
<1>4. CASE Environment \/ UNCHANGED vars
  <2>1. /\ UNCHANGED <<rec, agreed>> /\ SSHPart(stored') = SSHPart(stored)
        /\ UNCHANGED cs \/ (cs' = Unlocked /\ Strikes)
    BY <1>4, Surroundings
  <2>2. cs.step = "restore" => UNCHANGED cs
    BY <2>1 DEF Strikes, Whole
  <2> QED BY <2>1, <2>2, UnlockedFields, UfwSame
<1> QED BY <1>1, <1>2, <1>3, <1>4 DEF Next, User

LEMMA InitUfw == Backend = "ufw" /\ Init => UfwInv
<1> SUFFICES ASSUME Backend = "ufw", Init PROVE UfwInv
  OBVIOUS
<1>1. rec = NoRec /\ cs.step = "free" /\ agreed = SSHPart(stored)
  BY UnlockedFields DEF Init
<1>2. Even(stored)
  BY DEF Init, Even
<1>3. SSHPart(agreed) = agreed /\ Even(agreed)
  BY <1>1, <1>2, SSHPartPart, SSHSame
<1> QED BY <1>1, <1>2, <1>3 DEF UfwInv, UfwRecords, UfwRules

\* The record comes and goes, and the agreed rules change, in steps that
\* leave the stored rules alone.
LEMMA RecordSteps ==
    ASSUME IInv, [Next]_vars
    PROVE  /\ (rec = NoRec) # (rec' = NoRec) => UNCHANGED rules
           /\ \/ UNCHANGED agreed
              \/ rec # NoRec /\ rec' = NoRec /\ agreed' = SSHPart(Hash)
           /\ rec = NoRec => rec' = NoRec \/ UNCHANGED agreed
<1> cs \in Sections
  BY DEF IInv, TypeOK
<1>1. CASE Step
  <2>1. CASE Record \/ End \/ Commit
    <3>1. CASE Record
      BY <3>1 DEF Record, ghosts
    <3>2. CASE End
      BY <3>2 DEF End, At, IInv, SectionMatchesRecord
    <3>3. CASE Commit
      <4>1. cs.step = "commit" /\ rec # NoRec
        BY <3>3 DEF Commit, At, IInv, SectionMatchesRecord
      <4>2. \/ UNCHANGED <<rec, agreed>>
            \/ rec' = NoRec /\ UNCHANGED rules /\ agreed' = SSHPart(Hash)
        BY <3>3 DEF Commit, rules
      <4> QED BY <4>1, <4>2
    <3> QED BY <2>1, <3>1, <3>2, <3>3
  <2>2. CASE Baseline \/ Post
    BY <2>2 DEF Baseline, Post, ghosts
  <2>3. CASE ~(Record \/ End \/ Commit \/ Baseline \/ Post)
    <3>1. UNCHANGED <<rec, agreed>>
      BY <1>1, <2>3 DEF Step, Trial, Rollback, Snapshot, armLayer1, Apply, Verify, Decide,
         Revert, Guard, Restore, FwdReload, Finish, Uncommit, ghosts
    <3> QED BY <3>1
  <2> QED BY <2>1, <2>2, <2>3
<1>2. CASE User \/ Layers
  BY <1>2, Entered
<1>3. CASE Environment \/ UNCHANGED vars
  BY <1>3, Surroundings DEF IInv
<1> QED BY <1>1, <1>2, <1>3 DEF Next

\* With ufw, while no rollback stops half-way, the rules follow the promise
\* made for them: SSH rules change only during a trial, and a trial ends
\* with the new rules after a Keep or else with the ones agreed before.
THEOREM KeepsPromiseCorrect ==
    ASSUME Backend = "ufw", {"revert", "restore", "restoreCrash"} \cap Kinds = {}
    PROVE  Spec => KeepsPromise
<1> Whole
  BY DEF Whole
<1> DEFINE I == IInv /\ SSHOnly /\ Undoing /\ UfwInv
<1>1. Init => I
  <2>1. Init => IInv
    BY InitType DEF Init, SectionMatchesRecord, Unlocked, IInv
  <2> QED BY <2>1, InitSSHOnly, InitUndoing, InitUfw
<1>2. I /\ [Next]_vars => I'
  BY NextKeepsIInv, NextSSHOnly, NextUndoing, NextUfw
<1>3. \A R \in RuleSets : SSHPart(R) \in [FileSet -> SUBSET SSHRules]
  BY DEF SSHPart, RuleSets
<1>4. Hash = stored
  BY DEF Hash
<1>5. Init => Promise!Init
  <2> SUFFICES ASSUME Init PROVE Promise!Init
    OBVIOUS
  <2>1. stored \in RuleSets
    BY <1>1 DEF IInv, TypeOK
  <2> QED BY <1>3, <1>4, <2>1 DEF Init, Promise!Init
<1>6. I /\ I' /\ [Next]_vars => [Promise!Next]_(Promise!vars)
  <2> SUFFICES ASSUME I, I', [Next]_vars PROVE [Promise!Next]_(Promise!vars)
    OBVIOUS
  <2>1. SSHPart(Hash)' = SSHPart(stored') /\ SSHPart(Hash) = SSHPart(stored)
    BY DEF Hash, SSHPart
  <2>2. SSHPart(stored') \in [FileSet -> SUBSET SSHRules]
    BY <1>3 DEF IInv, TypeOK
  <2>3. /\ rec = NoRec => SSHPart(stored) = agreed
        /\ rec' = NoRec => SSHPart(stored') = agreed'
    BY DEF UfwInv, UfwRules
  <2>4. /\ (rec = NoRec) # (rec' = NoRec) => UNCHANGED stored
        /\ \/ UNCHANGED agreed
           \/ rec # NoRec /\ rec' = NoRec /\ agreed' = SSHPart(stored)
    BY RecordSteps DEF Hash, rules
  <2>5. CASE rec = NoRec /\ rec' = NoRec
    BY <2>1, <2>3, <2>4, <2>5 DEF Promise!vars
  <2>6. CASE rec = NoRec /\ rec' # NoRec
    BY <2>1, <2>4, <2>6 DEF Promise!Next, Promise!Begin
  <2>7. CASE rec # NoRec /\ rec' # NoRec
    BY <2>1, <2>2, <2>4, <2>7 DEF Promise!Next, Promise!Change
  <2>8. CASE rec # NoRec /\ rec' = NoRec
    <3>1. CASE UNCHANGED agreed
      BY <2>1, <2>3, <2>4, <2>8, <3>1 DEF Promise!Next, Promise!Rollback
    <3>2. CASE agreed' = SSHPart(stored)
      BY <2>1, <2>4, <2>8, <3>2 DEF Promise!Next, Promise!Keep
    <3> QED BY <2>4, <3>1, <3>2
  <2> QED BY <2>5, <2>6, <2>7, <2>8
<1> QED BY <1>1, <1>2, <1>5, <1>6, PTL DEF Spec, KeepsPromise, Promise!Spec

-----------------------------------------------------------------------------
(* ufw's tables follow its files.                                          *)

\* The reload is the last command.
LoadsLast(ops) == \A k \in DOMAIN ops : ops[k].op = "reload" <=> k = Len(ops)

\* Where the tables may be behind the files: in the middle of a change or
\* of an undo; a change that has not loaded its rules leaves the agreed ones.
UfwLive ==
    /\ cs.step \notin {"apply", "post", "verify", "rollback", "revert", "guard", "restore"}
          => Synced
    /\ cs.step \in {"apply", "post", "verify", "rollback"} => Synced \/ SSHPart(live) = agreed
    /\ cs.step = "apply" /\ ~cs.failed
          => IF Done THEN Synced
             ELSE LoadsLast(cs.ops) /\ (~Direct => SSHPart(live) = agreed)
    /\ cs.step \in {"post", "verify"} /\ ~cs.failed => Synced
    /\ cs.step = "apply" /\ cs.failed => Done
    /\ cs.step \in {"revert", "guard"} => ~cs.failed
    /\ Direct /\ cs.step # "restore" => Synced

LEMMA PlanLoads ==
    ASSUME NEW p \in Seq(SSHChanges)
    PROVE  p \o Reload # << >> /\ LoadsLast(p \o Reload)
<1> DEFINE load == [op |-> "reload"]
           S == SSHChanges \cup Loads
           q == p \o << load >>
<1>1. p \in Seq(S) /\ load \in S /\ load.op = "reload" /\ p \o Reload = q
  <2>1. load \in S /\ load.op = "reload"
    BY DEF Loads
  <2>2. p \o Reload = q
    BY DEF Reload
  <2>3. p \in Seq(S)
    OBVIOUS
  <2> QED BY <2>1, <2>2, <2>3
<1> HIDE DEF load, S, q
<1>2. \A k \in DOMAIN p : p[k].op # "reload"
  <2>1. \A c \in SSHChanges : c.op # "reload"
    BY DEF SSHChanges
  <2> QED BY <2>1
<1> USE DEF q
<1>3. /\ Len(q) = Len(p) + 1 /\ DOMAIN q = 1..(Len(p) + 1) /\ q # << >>
      /\ \A k \in 1..Len(p) : q[k] = p[k]
      /\ q[Len(p) + 1] = load
      /\ DOMAIN p = 1..Len(p) /\ Len(p) \in Nat
  BY <1>1, OneMore
<1> HIDE DEF q
<1>4. ASSUME NEW k \in DOMAIN q
      PROVE  q[k].op = "reload" <=> k = Len(q)
  <2>1. CASE k \in 1..Len(p)
    <3>1. k # Len(q) /\ q[k].op # "reload"
      BY <1>2, <1>3, <2>1
    <3> QED BY <3>1
  <2>2. CASE k = Len(p) + 1
    BY <1>1, <1>3, <2>2
  <2> QED BY <1>3, <2>1, <2>2
<1> QED BY <1>1, <1>3, <1>4 DEF LoadsLast

LEMMA LoadsLastOn ==
    ASSUME NEW S, NEW ops \in Seq(S), ops # << >>, LoadsLast(ops)
    PROVE  /\ Tail(ops) = << >> => Head(ops).op = "reload"
           /\ Tail(ops) # << >> => Head(ops).op # "reload" /\ LoadsLast(Tail(ops))
<1>1. /\ Len(ops) \in Nat \ {0} /\ Len(Tail(ops)) = Len(ops) - 1
      /\ Head(ops) = ops[1] /\ 1 \in DOMAIN ops
      /\ \A k \in DOMAIN Tail(ops) : k \in Nat /\ k + 1 \in DOMAIN ops /\ ops[k + 1] = Tail(ops)[k]
  <2>1. Len(ops) \in Nat \ {0} /\ Len(Tail(ops)) = Len(ops) - 1
    OBVIOUS
  <2>2. \A k \in DOMAIN Tail(ops) : k \in Nat
    OBVIOUS
  <2> QED BY <2>1, <2>2, TailLast
<1>2. Tail(ops) = << >> <=> Len(ops) = 1
  <2>1. \A q \in Seq(S) : q = << >> <=> Len(q) = 0
    OBVIOUS
  <2>2. Tail(ops) \in Seq(S)
    OBVIOUS
  <2>3. Len(Tail(ops)) = 0 <=> Len(ops) = 1
    BY <1>1
  <2>4. Tail(ops) = << >> <=> Len(Tail(ops)) = 0
    BY <2>1, <2>2
  <2> QED BY <2>3, <2>4
<1>3. LoadsLast(Tail(ops))
  BY <1>1 DEF LoadsLast
<1>4. Head(ops).op = "reload" <=> Len(ops) = 1
  BY <1>1 DEF LoadsLast
<1> QED BY <1>2, <1>3, <1>4

\* One command of a plan keeps copies that agree on SSH in agreement.
LEMMA RunSynced ==
    ASSUME Backend = "ufw", NEW c \in SSHChanges \cup Loads, NEW pre, Run(c, pre)
    PROVE  /\ c \in Loads => Synced'
           /\ c \in SSHChanges /\ ~Direct => UNCHANGED live
           /\ c \in SSHChanges /\ Direct /\ Synced => Synced'
<1>1. CASE c \in Loads
  <2>1. live' = stored'
    BY <1>1 DEF Run, Loads
  <2> QED BY <1>1, <2>1 DEF Synced, SSHPart, Loads, SSHChanges
<1>2. CASE c \in SSHChanges
  <2>1. stored' = Changed(stored, c) /\ live' = IF Direct THEN Changed(live, c) ELSE live
    BY <1>2 DEF Run, SSHChanges
  <2>2. SSHPart(live) = SSHPart(stored)
          => SSHPart(Changed(live, c)) = SSHPart(Changed(stored, c))
    <3> SUFFICES ASSUME SSHPart(live) = SSHPart(stored)
                 PROVE  SSHPart(Changed(live, c)) = SSHPart(Changed(stored, c))
      OBVIOUS
    <3>1. \A f \in FileSet : live[f] \cap SSHRules = stored[f] \cap SSHRules
      BY DEF SSHPart
    <3> QED BY <3>1 DEF SSHPart, Changed
  <2>3. Direct /\ Synced => SSHPart(live') = SSHPart(stored')
    BY <2>1, <2>2 DEF Synced
  <2>4. SSHPart(live') = SSHPart(stored') <=> Synced'
    BY DEF Synced, SSHPart
  <2>5. c \notin Loads
    BY <1>2 DEF SSHChanges, Loads
  <2> QED BY <2>1, <2>3, <2>4, <2>5
<1> QED BY <1>1, <1>2

\* Steps that leave the SSH rules of both copies alone.
LEMMA LiveSame ==
    ASSUME UfwLive, UNCHANGED agreed,
           SSHPart(stored') = SSHPart(stored), SSHPart(live') = SSHPart(live),
           \/ UNCHANGED cs
           \/ /\ cs'.step \notin {"apply", "post", "verify", "rollback", "revert", "guard",
                                  "restore"}
              /\ Synced
           \/ cs'.step = "rollback" /\ (Direct => Synced) /\ (Synced \/ SSHPart(live) = agreed)
           \/ cs'.step = "restore"
    PROVE  UfwLive'
<1>1. Synced' <=> Synced
  <2>1. Synced' <=> SSHPart(live') = SSHPart(stored')
    BY DEF Synced, SSHPart
  <2> QED BY <2>1 DEF Synced
<1>2. SSHPart(live)' = SSHPart(live)
  BY DEF SSHPart
<1> QED BY <1>1, <1>2 DEF UfwLive, Done

LEMMA ChangesLive ==
    ASSUME Backend = "ufw", IInv, SSHOnly, UfwInv, UfwLive, Baseline \/ Apply \/ Post
    PROVE  UfwLive'
<1> cs \in Sections /\ UNCHANGED agreed
  BY DEF IInv, TypeOK, Baseline, Apply, Post, ghosts
<1>1. CASE Baseline
  <2>1. UNCHANGED rules /\ cs.step = "baseline" /\ Synced /\ SSHPart(live) = agreed
    BY <1>1 DEF Baseline, At, UfwInv, UfwRules, UfwLive, Synced
  <2>2. CASE cs'.step = "finish"
    BY <2>1, <2>2, LiveSame DEF rules
  <2>3. CASE cs'.step # "finish"
    <3>1. PICK seen : LET r == [cs.rec EXCEPT !.baseline = seen]
                      IN  Continue("apply", ApplyOps(r.plan), FALSE, r)
      BY <1>1, <2>3 DEF Baseline, Goto, Continue, Sections
    <3> DEFINE r == [cs.rec EXCEPT !.baseline = seen]
    <3>2. r.plan = cs.rec.plan
      BY SectionParts DEF Records
    <3>3. Continue("apply", ApplyOps(r.plan), FALSE, r)
      BY <3>1
    <3> HIDE DEF r
    <3>4. cs'.step = "apply" /\ cs'.failed = FALSE /\ cs'.ops = cs.rec.plan \o Reload
      BY <3>2, <3>3 DEF Continue, Sections, ApplyOps
    <3>5. cs'.ops # << >> /\ LoadsLast(cs'.ops)
      BY <3>4, PlanLoads DEF SSHOnly, Plans
    <3>6. Synced' /\ SSHPart(live)' = agreed'
      BY <2>1 DEF Synced, SSHPart, rules
    <3> QED BY <3>4, <3>5, <3>6 DEF UfwLive, Done
  <2> QED BY <2>2, <2>3
<1>2. CASE Apply
  <2>0. /\ cs.step = "apply" /\ cs.ops \in Seq(SSHChanges \cup Loads)
        /\ Synced \/ SSHPart(live) = agreed
        /\ Direct => Synced
        /\ ~cs.failed /\ ~Done => LoadsLast(cs.ops) /\ (~Direct => SSHPart(live) = agreed)
        /\ ~cs.failed /\ Done => Synced
        /\ cs.failed => Done
    BY <1>2 DEF Apply, At, SSHOnly, Workloads, UfwLive
  <2>1. CASE Done /\ Goto("post") /\ UNCHANGED rules
    <3>1. cs'.step = "post" /\ cs'.failed = cs.failed
      BY <2>1 DEF Goto, Continue, Sections
    <3>2. (Synced' <=> Synced) /\ SSHPart(live)' = SSHPart(live)
      BY <2>1 DEF Synced, SSHPart, rules
    <3> QED BY <2>0, <2>1, <3>1, <3>2 DEF UfwLive
  <2>2. CASE Continue("apply", << >>, TRUE, cs.rec) /\ UNCHANGED rules
    <3>1. cs'.step = "apply" /\ cs'.failed = TRUE /\ cs'.ops = << >>
      BY <2>2 DEF Continue, Sections
    <3>2. (Synced' <=> Synced) /\ SSHPart(live)' = SSHPart(live)
      BY <2>2 DEF Synced, SSHPart, rules
    <3> QED BY <2>0, <3>1, <3>2 DEF UfwLive, Done
  <2>3. CASE ~Done /\ Run(Head(cs.ops), cs.rec.pre) /\ Next1
    <3> DEFINE c == Head(cs.ops)
    <3>1. cs'.step = "apply" /\ cs'.failed = cs.failed /\ cs'.ops = Tail(cs.ops)
      BY <2>0, <2>3 DEF Next1, Do, Continue, Sections
    <3>2. c \in SSHChanges \cup Loads /\ cs.ops # << >> /\ ~cs.failed
      BY <2>0, <2>3, TailLast DEF Done
    <3>3. /\ Tail(cs.ops) = << >> => c.op = "reload"
          /\ Tail(cs.ops) # << >> => c.op # "reload" /\ LoadsLast(Tail(cs.ops))
      BY <2>0, <2>3, <3>2, LoadsLastOn
    <3>4. /\ c \in Loads => Synced'
          /\ c \in SSHChanges /\ ~Direct => UNCHANGED live
          /\ c \in SSHChanges /\ Direct /\ Synced => Synced'
      BY <2>3, <3>2, RunSynced
    <3>5. /\ c.op = "reload" <=> c \in Loads
          /\ c \in Loads \/ c \in SSHChanges
      BY <3>2 DEF Loads, SSHChanges
    <3> HIDE DEF c
    <3>6. CASE Tail(cs.ops) = << >>
      BY <2>0, <3>1, <3>2, <3>3, <3>4, <3>5, <3>6 DEF UfwLive, Done
    <3>7. CASE Tail(cs.ops) # << >>
      <4>1. c \in SSHChanges
        BY <3>3, <3>5, <3>7
      <4>2. Direct => Synced'
        BY <2>0, <3>4, <4>1
      <4>3. ~Direct => SSHPart(live)' = agreed'
        BY <2>0, <2>3, <3>2, <3>4, <4>1 DEF SSHPart
      <4> QED BY <3>1, <3>2, <3>3, <3>7, <4>2, <4>3 DEF UfwLive, Done
    <3> QED BY <3>6, <3>7
  <2> QED BY <1>2, <2>1, <2>2, <2>3 DEF Apply
<1>3. CASE Post
  <2>1. \E r : GotoWith("verify", r)
    BY <1>3 DEF Post, Goto, GotoWith
  <2>2. cs'.step = "verify" /\ cs'.failed = cs.failed /\ cs.step = "post" /\ UNCHANGED rules
    BY <1>3, <2>1 DEF Post, At, GotoWith, Continue, Sections
  <2>3. (Synced' <=> Synced) /\ SSHPart(live)' = SSHPart(live)
    BY <2>2 DEF Synced, SSHPart, rules
  <2> QED BY <2>2, <2>3 DEF UfwLive
<1> QED BY <1>1, <1>2, <1>3

LEMMA RollsLive ==
    ASSUME Backend = "ufw", Whole, IInv, SSHOnly, Undoing, UfwInv, UfwLive,
           Verify \/ Decide \/ Revert \/ Guard \/ Restore
    PROVE  UfwLive'
<1> cs \in Sections /\ UNCHANGED agreed
  BY DEF IInv, TypeOK, Verify, Decide, Revert, Guard, Restore, ghosts
<1>1. CASE Verify
  <2>1. UNCHANGED rules /\ cs.step = "verify"
    BY <1>1 DEF Verify, At
  <2>2. (cs'.step = "free" /\ ~cs.failed) \/ cs'.step = "rollback"
    BY <1>1, UnlockedFields DEF Verify, Goto, Continue, Unlock, Sections
  <2> QED BY <2>1, <2>2, LiveSame DEF UfwLive, rules
<1>2. CASE Decide
  <2>1. /\ UNCHANGED rules /\ cs.step = "rollback" /\ snaps[cs.rec.id] # {}
        /\ SSHPart(cs.rec.pre) = agreed
    BY <1>2 DEF Decide, At, IInv, SectionMatchesRecord, UfwInv, UfwRecords
  <2>2. \/ cs'.step = "finish" /\ stored = cs.rec.pre
        \/ cs'.step = "restore"
        \/ cs'.step = "revert" /\ cs'.failed = FALSE /\ cs'.ops = RevertOps(cs.rec.plan)
    BY <1>2, <2>1 DEF Decide, Unchanged, Hash, Goto, Do, Continue, Sections
  <2>3. CASE cs'.step = "finish"
    <3>1. Synced
      BY <2>1, <2>2, <2>3 DEF UfwLive, Synced
    <3> QED BY <2>1, <2>3, <3>1, LiveSame DEF rules
  <2>4. CASE cs'.step = "restore"
    BY <2>1, <2>4, LiveSame DEF rules
  <2>5. CASE cs'.step = "revert"
    <3>1. Synced' <=> Synced
      BY <2>1 DEF Synced, SSHPart, rules
    <3> QED BY <2>1, <2>2, <2>5, <3>1 DEF UfwLive
  <2> QED BY <2>2, <2>3, <2>4, <2>5
<1>3. CASE Revert
  <2>0. /\ cs.step = "revert"
        /\ ~cs.failed /\ Direct => Synced
        /\ cs.ops \in Seq(SSHChanges \cup Loads)
    BY <1>3 DEF Revert, At, UfwLive, SSHOnly, Workloads
  <2>1. CASE Done /\ Goto("guard") /\ UNCHANGED rules
    <3>1. cs'.step = "guard" /\ cs'.failed = cs.failed
      BY <2>1 DEF Goto, Continue, Sections
    <3>2. Synced' <=> Synced
      BY <2>1 DEF Synced, SSHPart, rules
    <3> QED BY <1>3, <2>0, <3>1, <3>2 DEF UfwLive, Revert, At
  <2>2. CASE ~Done /\ Run(Head(cs.ops), cs.rec.pre) /\ Next1
    <3>1. cs'.step = "revert" /\ cs'.failed = cs.failed
      BY <1>3, <2>2 DEF Revert, At, Next1, Do, Continue, Sections
    <3>2. Head(cs.ops) \in SSHChanges \cup Loads
      BY <2>0, <2>2 DEF Done
    <3>3. Direct /\ Synced => Synced'
      BY <2>2, <3>2, RunSynced
    <3> QED BY <1>3, <2>0, <3>1, <3>3 DEF UfwLive, Revert, At
  <2> QED BY <1>3, <2>1, <2>2 DEF Revert, Whole, Fails
<1>4. CASE Guard
  <2>1. /\ UNCHANGED rules /\ cs.step = "guard" /\ Synced
        /\ cs'.step \in {"restore", "finish"}
    BY <1>4 DEF Guard, At, Goto, Do, Continue, Sections, UfwLive, Undoing
  <2> QED BY <2>1, LiveSame DEF rules
<1>5. CASE Restore
  <2>1. CASE Done /\ Goto("finish") /\ UNCHANGED rules
    <3>1. cs'.step = "finish"
      BY <2>1 DEF Goto, Continue, Sections
    <3>2. Synced
      BY <1>5, <2>1 DEF Restore, At, Undoing, Done
    <3> QED BY <2>1, <3>1, <3>2, LiveSame DEF rules
  <2>2. CASE ~Done /\ Next1
    <3>1. cs'.step = "restore"
      BY <1>5, <2>2 DEF Restore, At, Next1, Do, Continue, Sections
    <3> QED BY <3>1 DEF UfwLive
  <2> QED BY <1>5, <2>1, <2>2 DEF Restore, Whole, Fails
<1> QED BY <1>1, <1>2, <1>3, <1>4, <1>5

LEMMA NextLive ==
    ASSUME Backend = "ufw", Whole, Direct \/ "crash" \notin Kinds,
           IInv, SSHOnly, Undoing, UfwInv, UfwLive, [Next]_vars
    PROVE  UfwLive'
<1> TypeOK /\ cs \in Sections
  BY DEF IInv, TypeOK
<1>1. CASE Baseline \/ Apply \/ Post \/ Verify \/ Decide \/ Revert \/ Guard \/ Restore
  BY <1>1, ChangesLive, RollsLive
<1>2. CASE Snapshot \/ Record \/ armLayer1 \/ FwdReload \/ Finish \/ End \/ Commit \/ Uncommit
  <2>1. /\ cs.step \notin {"apply", "post", "verify", "rollback", "revert", "guard", "restore"}
        /\ UNCHANGED rules
    BY <1>2 DEF Snapshot, Record, armLayer1, FwdReload, Finish, End, Commit, Uncommit, At,
       Done, UfwInv, UfwRecords, rules
  <2>2. cs'.step \notin {"apply", "post", "verify", "rollback", "revert", "guard", "restore"}
    <3>1. CASE Snapshot \/ Record \/ armLayer1
      BY <3>1, UnlockedFields
         DEF Snapshot, Record, armLayer1, Goto, GotoWith, Continue, Unlock, Sections
    <3>2. CASE FwdReload \/ Finish \/ End \/ Commit \/ Uncommit
      BY <3>2, UnlockedFields
         DEF FwdReload, Finish, End, Commit, Uncommit, At, Goto, Do, Next1, Continue, Unlock,
             Sections
    <3> QED BY <1>2, <3>1, <3>2
  <2>3. Synced
    BY <2>1 DEF UfwLive
  <2>4. SSHPart(live') = SSHPart(stored')
    BY <2>1, <2>3 DEF Synced, rules
  <2>5. Synced'
    BY <2>4 DEF Synced, SSHPart
  <2> QED BY <2>2, <2>5 DEF UfwLive
<1>3. CASE User \/ Layers
  <2>1. /\ UNCHANGED <<rules, agreed>>
        /\ \/ UNCHANGED cs
           \/ cs.step = "free" /\ cs'.step \in {"snapshot", "commit", "rollback"}
    BY <1>3, Entered DEF Begins, Commits, RollsBack, Free
  <2> QED BY <2>1, LiveSame DEF UfwLive, rules
<1>4. CASE Environment \/ UNCHANGED vars
  <2>1. /\ UNCHANGED agreed /\ SSHPart(stored') = SSHPart(stored)
        /\ UNCHANGED cs \/ (cs' = Unlocked /\ Strikes)
    BY <1>4, Surroundings
  <2>2. CASE Reboot
    <3>1. cs' = Unlocked /\ live' = stored'
      BY <2>2 DEF Reboot, Unlock
    <3>2. Synced'
      BY <3>1 DEF Synced, SSHPart
    <3> QED BY <3>1, <3>2, UnlockedFields DEF UfwLive
  <2>3. CASE ~Reboot
    <3>1. SSHPart(live') = SSHPart(live)
      <4>1. ASSUME NEW x \in Foreign, NEW op \in {"add", "delete"}, ForeignEdit(x, op)
            PROVE  SSHPart(live') = SSHPart(live)
        BY <4>1, EditSSH DEF SSHPart
      <4>2. CASE UNCHANGED live
        BY <4>2
      <4> QED BY <1>4, <2>3, <4>1, <4>2 DEF Environment, NewConn, EndConn, CrashAgent,
              CrashLayer1, vars, rules
    <3>2. UNCHANGED cs \/ (cs'.step = "free" /\ Direct /\ cs.step # "restore")
      <4>1. CASE CrashAgent \/ CrashLayer1
        BY <2>1, <4>1, UnlockedFields DEF CrashAgent, CrashLayer1, Strikes, Whole
      <4>2. CASE ~(CrashAgent \/ CrashLayer1)
        BY <1>4, <2>3, <4>2 DEF Environment, NewConn, EndConn, ForeignEdit, vars
      <4> QED BY <4>1, <4>2
    <3> QED BY <2>1, <3>1, <3>2, LiveSame DEF UfwLive
  <2> QED BY <2>2, <2>3
<1> QED BY <1>1, <1>2, <1>3, <1>4 DEF Next, Step, Trial, Rollback

\* With ufw, while no rollback stops half-way: anything other than Keep rolls
\* both copies back, whatever crashes on a host where a command reaches the
\* kernel at once, and on any other as long as no process is killed.
THEOREM RolledBackUfw ==
    ASSUME Backend = "ufw", {"revert", "restore", "restoreCrash"} \cap Kinds = {},
           Direct \/ "crash" \notin Kinds
    PROVE  Spec => []RolledBack
<1> Whole
  BY DEF Whole
<1> DEFINE I == IInv /\ SSHOnly /\ Undoing /\ UfwInv /\ UfwLive
<1>1. Init => I
  <2>1. Init => IInv
    BY InitType DEF Init, SectionMatchesRecord, Unlocked, IInv
  <2>2. Init => UfwLive
    BY UnlockedFields DEF Init, UfwLive, Synced
  <2> QED BY <2>1, <2>2, InitSSHOnly, InitUndoing, InitUfw
<1>2. I /\ [Next]_vars => I'
  BY NextKeepsIInv, NextSSHOnly, NextUndoing, NextUfw, NextLive
<1>3. I => RolledBack
  <2> SUFFICES ASSUME I, rec = NoRec
               PROVE  SSHPart(stored) = agreed /\ SSHPart(live) = agreed
    BY DEF RolledBack
  <2>1. cs.step \in {"free", "snapshot", "record"}
    BY DEF IInv, SectionMatchesRecord
  <2> QED BY <2>1 DEF UfwInv, UfwRules, UfwLive, Synced
<1> QED BY <1>1, <1>2, <1>3, PTL DEF Spec

-----------------------------------------------------------------------------
(* firewalld keeps the promise for trials that are kept as verified.       *)

\* The SSH rules a change leaves when all its commands worked.
Outcome(open) == [f \in FileSet |-> {Want(open)}]

\* These commands are the last ones of the plan.
Remains(ops, plan) ==
    /\ Len(ops) \in 0..Len(plan)
    /\ \A k \in DOMAIN ops : ops[k] = plan[Len(plan) - Len(ops) + k]

LEMMA OneFile ==
    ASSUME Backend = "firewalld"
    PROVE  \A R : Even(R)
<1>1. \A f, g \in FileSet : f = g
  BY FilesAssumption DEF FileSet
<1> QED BY <1>1 DEF Even

\* A command other than a reload, whatever rules it names.
LEMMA ChangedRules ==
    ASSUME NEW R, NEW c \in Changes
    PROVE  \A r \in SSHRules, f \in FileSet :
              r \in Changed(R, c)[f] <=> IF Mentions(c, r) THEN c.op = "add" ELSE r \in R[f]
  BY DEF Changed, Changes, Mentions

\* A probe that shows what the trial wants shows the plan's outcome.
LEMMA OutcomeSeen ==
    ASSUME NEW R, NEW open \in BOOLEAN, IF open THEN reachable(R) ELSE closed(R)
    PROVE  SSHPart(R) = Outcome(open)
<1>1. \A f \in FileSet : R[f] \cap SSHRules = {Want(open)}
  BY DEF reachable, closed, Want, SSHRules
<1> QED BY <1>1 DEF SSHPart, Outcome

LEMMA OutcomeSSH ==
    ASSUME NEW open
    PROVE  /\ SSHPart(Outcome(open)) = Outcome(open)
           /\ \A r \in SSHRules, f \in FileSet : r \in Outcome(open)[f] <=> r = Want(open)
  BY DEF SSHPart, Outcome, Want, SSHRules

\* The four plans there are.
LEMMA PlanCases ==
    ASSUME NEW A, NEW open \in BOOLEAN
    PROVE  LET w == Want(open)
               v == Want(~open)
               Has(r) == \E f \in FileSet : r \in A[f]
               add(r) == [op |-> "add", rules |-> {r}]
               del(r) == [op |-> "delete", rules |-> {r}]
           IN  sshPortPlan(A, open) =
                 IF Has(v)
                   THEN IF Has(w) THEN << del(v), del(w), add(w) >> ELSE << del(v), add(w) >>
                   ELSE IF Has(w) THEN << del(w), add(w) >> ELSE << add(w) >>
<1> DEFINE w == Want(open)
           v == Want(~open)
           Has(r) == \E f \in FileSet : r \in A[f]
           add(r) == [op |-> "add", rules |-> {r}]
           del(r) == [op |-> "delete", rules |-> {r}]
           q == sshPortPlan(A, open)
<1>1. q = (IF Has(v) THEN << del(v) >> ELSE << >>)
            \o (IF Has(w) THEN << del(w) >> ELSE << >>) \o << add(w) >>
  BY PlanShape
<1> HIDE DEF w, v, Has, add, del, q
<1>2. q = IF Has(v)
            THEN IF Has(w) THEN << del(v), del(w), add(w) >> ELSE << del(v), add(w) >>
            ELSE IF Has(w) THEN << del(w), add(w) >> ELSE << add(w) >>
  BY <1>1
<1> QED BY <1>2 DEF w, v, Has, add, del, q

\* Carried out on rules that have the SSH rules it was made for, a plan
\* leads to its outcome.
LEMMA PlanLeads ==
    ASSUME NEW A, NEW open \in BOOLEAN, Even(A), NEW R, SSHPart(R) = SSHPart(A)
    PROVE  Leads(sshPortPlan(A, open), R, Outcome(open))
<1> DEFINE w == Want(open)
           v == Want(~open)
           Has(r) == \E f \in FileSet : r \in A[f]
           add(r) == [op |-> "add", rules |-> {r}]
           del(r) == [op |-> "delete", rules |-> {r}]
           q == sshPortPlan(A, open)
           T == Outcome(open)
<1>0. q = IF Has(v)
            THEN IF Has(w) THEN << del(v), del(w), add(w) >> ELSE << del(v), add(w) >>
            ELSE IF Has(w) THEN << del(w), add(w) >> ELSE << add(w) >>
  BY PlanCases
<1>1. w # v /\ \A r \in SSHRules : r = w \/ r = v
  BY DEF Want, SSHRules
<1>2. \A r, s : /\ Mentions(add(r), s) <=> s = r
                /\ Mentions(del(r), s) <=> s = r
                /\ add(r).op = "add" /\ del(r).op = "delete"
  BY DEF Mentions
<1>3. \A f \in FileSet : \A r \in SSHRules : r \in R[f] => Has(r)
  BY SSHSame
<1>4. \A r \in SSHRules, f \in FileSet : r \in T[f] <=> r = w
  BY OutcomeSSH
<1> HIDE DEF w, v, Has, add, del, q, T
<1>6. Leads(q, R, T)
  <2> SUFFICES ASSUME NEW r \in SSHRules, NEW f \in FileSet
               PROVE  \/ \E k \in DOMAIN q :
                            /\ Mentions(q[k], r)
                            /\ q[k].op = "add" <=> r \in T[f]
                            /\ \A j \in DOMAIN q : j > k => ~Mentions(q[j], r)
                      \/ /\ \A k \in DOMAIN q : ~Mentions(q[k], r)
                         /\ r \in R[f] <=> r \in T[f]
    BY DEF Leads
  <2>1. CASE Has(v) /\ Has(w)
    <3>1. q = << del(v), del(w), add(w) >> /\ DOMAIN q = {1, 2, 3}
      BY <1>0, <2>1
    <3>2. q[1] = del(v) /\ q[2] = del(w) /\ q[3] = add(w)
      BY <3>1
    <3> QED BY <1>1, <1>2, <1>4, <3>1, <3>2
  <2>2. CASE Has(v) /\ ~Has(w)
    <3>1. q = << del(v), add(w) >> /\ DOMAIN q = {1, 2}
      BY <1>0, <2>2
    <3>2. q[1] = del(v) /\ q[2] = add(w)
      BY <3>1
    <3> QED BY <1>1, <1>2, <1>4, <3>1, <3>2
  <2>3. CASE ~Has(v) /\ Has(w)
    <3>1. q = << del(w), add(w) >> /\ DOMAIN q = {1, 2}
      BY <1>0, <2>3
    <3>2. q[1] = del(w) /\ q[2] = add(w)
      BY <3>1
    <3> QED BY <1>1, <1>2, <1>3, <1>4, <2>3, <3>1, <3>2
  <2>4. CASE ~Has(v) /\ ~Has(w)
    <3>1. q = << add(w) >> /\ DOMAIN q = {1} /\ q[1] = add(w)
      BY <1>0, <2>4
    <3> QED BY <1>1, <1>2, <1>3, <1>4, <2>4, <3>1
  <2> QED BY <2>1, <2>2, <2>3, <2>4
<1> QED BY <1>6 DEF q, T

LEMMA Prefix ==
    ASSUME NEW S, NEW q \in Seq(S), NEW n \in 0..Len(q)
    PROVE  /\ SubSeq(q, 1, n) \in Seq(S) /\ Len(SubSeq(q, 1, n)) = n
           /\ \A k \in 1..n : SubSeq(q, 1, n)[k] = q[k]
  OBVIOUS

LEMMA ShortSeqs ==
    ASSUME NEW S, NEW q \in Seq(S)
    PROVE  /\ Len(q) = 0 => q = << >>
           /\ Len(q) = 1 => q = << q[1] >>
           /\ Len(q) = 2 => q = << q[1], q[2] >>
           /\ Len(q) = 3 => q = << q[1], q[2], q[3] >>
  OBVIOUS

LEMMA PrefixShape ==
    ASSUME NEW S, NEW q \in Seq(S)
    PROVE  /\ SubSeq(q, 1, 0) = << >>
           /\ Len(q) >= 1 => SubSeq(q, 1, 1) = << q[1] >>
           /\ Len(q) >= 2 => SubSeq(q, 1, 2) = << q[1], q[2] >>
           /\ Len(q) >= 3 => SubSeq(q, 1, 3) = << q[1], q[2], q[3] >>
<1>1. Len(q) \in Nat
  OBVIOUS
<1>2. ASSUME NEW n \in 0..Len(q)
      PROVE  /\ SubSeq(q, 1, n) \in Seq(S) /\ Len(SubSeq(q, 1, n)) = n
             /\ \A k \in 1..n : SubSeq(q, 1, n)[k] = q[k]
  BY Prefix
<1>3. SubSeq(q, 1, 0) = << >>
  BY <1>1, <1>2, ShortSeqs
<1>4. Len(q) >= 1 => SubSeq(q, 1, 1) = << q[1] >>
  <2> SUFFICES ASSUME Len(q) >= 1 PROVE SubSeq(q, 1, 1) = << q[1] >>
    OBVIOUS
  <2> DEFINE s == SubSeq(q, 1, 1)
  <2>1. s \in Seq(S) /\ Len(s) = 1 /\ s[1] = q[1]
    BY <1>1, <1>2
  <2> HIDE DEF s
  <2>2. s = << s[1] >>
    BY <2>1, ShortSeqs
  <2> QED BY <2>1, <2>2 DEF s
<1>5. Len(q) >= 2 => SubSeq(q, 1, 2) = << q[1], q[2] >>
  <2> SUFFICES ASSUME Len(q) >= 2 PROVE SubSeq(q, 1, 2) = << q[1], q[2] >>
    OBVIOUS
  <2> DEFINE s == SubSeq(q, 1, 2)
  <2>1. s \in Seq(S) /\ Len(s) = 2 /\ s[1] = q[1] /\ s[2] = q[2]
    BY <1>1, <1>2
  <2> HIDE DEF s
  <2>2. s = << s[1], s[2] >>
    BY <2>1, ShortSeqs
  <2> QED BY <2>1, <2>2 DEF s
<1>6. Len(q) >= 3 => SubSeq(q, 1, 3) = << q[1], q[2], q[3] >>
  <2> SUFFICES ASSUME Len(q) >= 3 PROVE SubSeq(q, 1, 3) = << q[1], q[2], q[3] >>
    OBVIOUS
  <2> DEFINE s == SubSeq(q, 1, 3)
  <2>1. s \in Seq(S) /\ Len(s) = 3 /\ s[1] = q[1] /\ s[2] = q[2] /\ s[3] = q[3]
    BY <1>1, <1>2
  <2> HIDE DEF s
  <2>2. s = << s[1], s[2], s[3] >>
    BY <2>1, ShortSeqs
  <2> QED BY <2>1, <2>2 DEF s
<1> QED BY <1>3, <1>4, <1>5, <1>6

LEMMA InverseEmpty == inverse(<< >>) = << >>
  BY DEF inverse

\* A command of the plan's repetition on the permanent configuration: if
\* undoing what came before it leads back, so does undoing it first.
LEMMA PrefixBack ==
    ASSUME NEW A, NEW open \in BOOLEAN, Even(A), NEW R, NEW Q,
           NEW n \in 0..(Len(sshPortPlan(A, open)) - 1),
           Leads(inverse(SubSeq(sshPortPlan(A, open), 1, n)), R, A),
           \A r \in SSHRules, f \in FileSet :
              r \in Q[f] <=> IF Mentions(sshPortPlan(A, open)[n + 1], r)
                               THEN sshPortPlan(A, open)[n + 1].op = "add" ELSE r \in R[f]
    PROVE  Leads(inverse(SubSeq(sshPortPlan(A, open), 1, n + 1)), Q, A)
<1> DEFINE w == Want(open)
           v == Want(~open)
           Has(r) == \E f \in FileSet : r \in A[f]
           add(r) == [op |-> "add", rules |-> {r}]
           del(r) == [op |-> "delete", rules |-> {r}]
           q == sshPortPlan(A, open)
           back(k) == inverse(SubSeq(q, 1, k))
<1>0. q = IF Has(v)
            THEN IF Has(w) THEN << del(v), del(w), add(w) >> ELSE << del(v), add(w) >>
            ELSE IF Has(w) THEN << del(w), add(w) >> ELSE << add(w) >>
  BY PlanCases
<1>1. w # v /\ \A r \in SSHRules : r = w \/ r = v
  BY DEF Want, SSHRules
<1>2. \A r, s : /\ Mentions(add(r), s) <=> s = r
                /\ Mentions(del(r), s) <=> s = r
                /\ add(r).op = "add" /\ del(r).op = "delete"
  BY DEF Mentions
<1>3. \A r : Undo(add(r)) = del(r) /\ Undo(del(r)) = add(r)
  BY DEF Undo
<1>4. \A r \in SSHRules, f \in FileSet : r \in A[f] <=> Has(r)
  BY DEF Even
<1>5. q \in Seq(SSHChanges) /\ back(0) = << >>
  BY PlanSSH, PrefixShape, InverseEmpty DEF Plans
<1>6. /\ Len(q) >= 1 => back(1) = << Undo(q[1]) >>
      /\ Len(q) >= 2 => back(2) = << Undo(q[2]), Undo(q[1]) >>
      /\ Len(q) >= 3 => back(3) = << Undo(q[3]), Undo(q[2]), Undo(q[1]) >>
  BY <1>5, PrefixShape, InverseShape
<1>7. /\ n \in 0..(Len(q) - 1) /\ Leads(back(n), R, A)
      /\ \A r \in SSHRules, f \in FileSet :
            r \in Q[f] <=> IF Mentions(q[n + 1], r) THEN q[n + 1].op = "add" ELSE r \in R[f]
  OBVIOUS
<1> HIDE DEF w, v, Has, add, del, q, back
<1> DEFINE Led(ops, P) ==
             \A r \in SSHRules, f \in FileSet :
               \/ \E k \in DOMAIN ops :
                     /\ Mentions(ops[k], r)
                     /\ ops[k].op = "add" <=> r \in A[f]
                     /\ \A j \in DOMAIN ops : j > k => ~Mentions(ops[j], r)
               \/ /\ \A k \in DOMAIN ops : ~Mentions(ops[k], r)
                  /\ r \in P[f] <=> r \in A[f]
<1>9. Led(back(n), R)
  BY <1>7 DEF Leads
<1>10. Led(back(n + 1), Q)
  <2>1. CASE Has(v) /\ Has(w)
    <3>1. Len(q) = 3 /\ q[1] = del(v) /\ q[2] = del(w) /\ q[3] = add(w)
      BY <1>0, <2>1
    <3>2. /\ back(1) = << add(v) >> /\ back(2) = << add(w), add(v) >>
          /\ back(3) = << del(w), add(w), add(v) >>
      BY <1>3, <1>6, <3>1
    <3>3. CASE n = 0
      BY <1>1, <1>2, <1>4, <1>5, <1>7, <1>9, <2>1, <3>1, <3>2, <3>3
    <3>4. CASE n = 1
      BY <1>1, <1>2, <1>4, <2>1, <3>2, <3>4
    <3>5. CASE n = 2
      BY <1>1, <1>2, <1>4, <2>1, <3>2, <3>5
    <3> QED BY <1>7, <3>1, <3>3, <3>4, <3>5
  <2>2. CASE Has(v) /\ ~Has(w)
    <3>1. Len(q) = 2 /\ q[1] = del(v) /\ q[2] = add(w)
      BY <1>0, <2>2
    <3>2. back(1) = << add(v) >> /\ back(2) = << del(w), add(v) >>
      BY <1>3, <1>6, <3>1
    <3>3. CASE n = 0
      BY <1>1, <1>2, <1>4, <1>5, <1>7, <1>9, <2>2, <3>1, <3>2, <3>3
    <3>4. CASE n = 1
      BY <1>1, <1>2, <1>4, <2>2, <3>2, <3>4
    <3> QED BY <1>7, <3>1, <3>3, <3>4
  <2>3. CASE ~Has(v) /\ Has(w)
    <3>1. Len(q) = 2 /\ q[1] = del(w) /\ q[2] = add(w)
      BY <1>0, <2>3
    <3>2. back(1) = << add(w) >> /\ back(2) = << del(w), add(w) >>
      BY <1>3, <1>6, <3>1
    <3>3. CASE n = 0
      BY <1>1, <1>2, <1>4, <1>5, <1>7, <1>9, <2>3, <3>1, <3>2, <3>3
    <3>4. CASE n = 1
      <4>1. ~Mentions(add(w), v) /\ v \in SSHRules
        BY <1>1, <1>2 DEF v, Want, SSHRules
      <4>2. \A f \in FileSet : v \in R[f] <=> v \in A[f]
        <5>1. DOMAIN back(1) = {1} /\ back(1)[1] = add(w)
          BY <3>2
        <5> QED BY <1>9, <3>4, <4>1, <5>1
      <4>3. \A f \in FileSet : v \in Q[f] <=> v \in R[f]
        BY <1>7, <3>1, <3>4, <4>1
      <4> QED BY <1>1, <1>2, <1>4, <2>3, <3>2, <3>4, <4>2, <4>3
    <3> QED BY <1>7, <3>1, <3>3, <3>4
  <2>4. CASE ~Has(v) /\ ~Has(w)
    <3>1. Len(q) = 1 /\ q[1] = add(w)
      BY <1>0, <2>4
    <3>2. back(1) = << del(w) >>
      BY <1>3, <1>6, <3>1
    <3>3. n = 0
      BY <1>7, <3>1
    <3> QED BY <1>1, <1>2, <1>4, <1>5, <1>7, <1>9, <2>4, <3>1, <3>2, <3>3
  <2> QED BY <2>1, <2>2, <2>3, <2>4
<1>11. Leads(back(n + 1), Q, A)
  BY <1>10 DEF Leads
<1> QED BY <1>11 DEF back, q

LEMMA RemainsOn ==
    ASSUME NEW S, NEW plan \in Seq(S), NEW ops \in Seq(S), ops # << >>, Remains(ops, plan),
           NEW n, n = Len(plan) - Len(ops)
    PROVE  /\ n \in 0..(Len(plan) - 1) /\ Head(ops) = plan[n + 1]
           /\ Len(plan) - Len(Tail(ops)) = n + 1
           /\ Remains(Tail(ops), plan)
<1>1. /\ Len(ops) \in Nat \ {0} /\ Len(Tail(ops)) = Len(ops) - 1 /\ Len(plan) \in Nat
      /\ Head(ops) = ops[1] /\ 1 \in DOMAIN ops
      /\ \A k \in DOMAIN Tail(ops) : k \in Nat /\ k + 1 \in DOMAIN ops /\ ops[k + 1] = Tail(ops)[k]
  <2>1. Len(ops) \in Nat \ {0} /\ Len(Tail(ops)) = Len(ops) - 1 /\ Len(plan) \in Nat
    OBVIOUS
  <2>2. \A k \in DOMAIN Tail(ops) : k \in Nat
    OBVIOUS
  <2> QED BY <2>1, <2>2, TailLast
<1>2. Len(plan) - Len(Tail(ops)) = n + 1 /\ n \in 0..(Len(plan) - 1)
  BY <1>1 DEF Remains
<1>3. Head(ops) = plan[n + 1]
  BY <1>1 DEF Remains
<1>4. \A k \in DOMAIN Tail(ops) : Tail(ops)[k] = plan[Len(plan) - Len(Tail(ops)) + k]
  <2> TAKE k \in DOMAIN Tail(ops)
  <2>1. Tail(ops)[k] = plan[n + (k + 1)]
    BY <1>1 DEF Remains
  <2>2. n + (k + 1) = Len(plan) - Len(Tail(ops)) + k
    BY <1>1
  <2> QED BY <2>1, <2>2
<1>5. Len(Tail(ops)) \in 0..Len(plan)
  BY <1>1 DEF Remains
<1> QED BY <1>2, <1>3, <1>4, <1>5 DEF Remains

\* What a rollback goes back to and how it gets there, and when the pending
\* trial can still be the one that verify passed.
FwdRecords ==
    /\ rec # NoRec => Planned(rec) /\ SSHPart(rec.pre) = agreed
    /\ cs.step # "free" => Planned(cs.rec)
    /\ cs.step \notin {"free", "snapshot"} => SSHPart(cs.rec.pre) = agreed
    /\ cs.step \notin {"free", "snapshot", "record"} => rec.open = cs.rec.open
    /\ SSHPart(agreed) = agreed
    /\ rec # NoRec /\ rec.id \in verified
          => cs.step \in {"free", "commit", "uncommit", "rollback"}

\* The runtime rules are the agreed ones or on their way from or to them,
\* and those of a verified trial are its plan's outcome.
FwdLive ==
    /\ rec = NoRec => SSHPart(live) = agreed
    /\ rec # NoRec => Within(live)
    /\ cs.step \in {"arm", "baseline", "guard", "finish", "end"} => SSHPart(live) = agreed
    /\ cs.step \in {"apply", "revert", "restore"}
          => cs.ops \in Seq(Changes) /\ AddsOnly(cs.ops, Want(cs.rec.open), agreed)
    /\ cs.step = "revert" => Leads(cs.ops, live, agreed)
    /\ rec # NoRec /\ rec.id \in verified => SSHPart(live) = Outcome(rec.open)

\* What is left of undoing the permanent changes made so far.
TakenBack == inverse(SubSeq(cs.rec.plan, 1, Len(cs.rec.plan) - Len(cs.ops)))

\* The permanent rules are the agreed ones but inside a Keep, where what is
\* left to do leads to the plan's outcome, and undoing what was done leads back.
FwdStored ==
    /\ cs.step \notin {"commit", "uncommit"} => SSHPart(stored) = agreed
    /\ cs.step = "commit"
          => /\ Remains(cs.ops, cs.rec.plan)
             /\ Leads(cs.ops, stored, Outcome(cs.rec.open))
             /\ Leads(TakenBack, stored, agreed)
    /\ cs.step = "uncommit" => budget.fault = 0 /\ Leads(cs.ops, stored, agreed)

FwdInv == FwdRecords /\ FwdLive /\ FwdStored

\* What breaks the promise with firewalld: an undo or a record's removal that
\* fails, a crash inside a Keep, or a second failure on the way back from one.
Sure ==
    /\ {"revert", "remove", "commitCrash"} \cap Kinds = {}
    /\ "commit" \in Kinds => MaxFaults <= 1

\* Steps that leave the permanent SSH rules and the last Keep alone, and the
\* runtime SSH rules too or put the agreed ones there.
LEMMA FwdSame ==
    ASSUME FwdInv, UNCHANGED agreed, SSHPart(stored') = SSHPart(stored),
           \/ SSHPart(live') = SSHPart(live)
           \/ SSHPart(live') = agreed /\ rec.id \notin verified',
           verified' \subseteq verified,
           \/ rec' = rec
           \/ /\ rec # NoRec /\ rec' # NoRec /\ rec'.plan = rec.plan /\ rec'.id = rec.id
              /\ rec'.pre = rec.pre /\ rec'.open = rec.open,
           \/ UNCHANGED cs /\ SSHPart(live') = SSHPart(live)
              /\ (budget.fault = 0 => budget'.fault = 0)
           \/ cs'.step = "free" /\ SSHPart(stored) = agreed
           \/ /\ cs.step = "free" /\ rec # NoRec /\ rec' = rec /\ cs'.rec = rec
              /\ cs'.step = "rollback"
           \/ /\ cs.step \notin {"free", "snapshot", "record", "commit", "uncommit"}
              /\ cs'.rec.plan = cs.rec.plan /\ cs'.rec.pre = cs.rec.pre
              /\ cs'.rec.open = cs.rec.open
              /\ cs.step = "rollback" => rec.id \notin verified'
              /\ \/ cs'.step \in {"post", "verify", "rollback", "reload"}
                 \/ /\ cs'.step \in {"arm", "baseline", "guard", "finish", "end"}
                    /\ SSHPart(live') = agreed
                 \/ /\ cs'.step \in {"apply", "restore"} /\ cs'.ops \in Seq(Changes)
                    /\ AddsOnly(cs'.ops, Want(cs.rec.open), agreed)
                 \/ /\ cs'.step = "revert" /\ cs'.ops \in Seq(Changes)
                    /\ AddsOnly(cs'.ops, Want(cs.rec.open), agreed)
                    /\ Leads(cs'.ops, live', agreed)
    PROVE  FwdInv'
<1> USE DEF FwdInv
<1>1. FwdRecords'
  BY DEF FwdRecords, Planned
<1>2. /\ rec' # NoRec => Within(live)'
      /\ \A ops : /\ SSHPart(live') = SSHPart(live) /\ Leads(ops, live, agreed)
                        => Leads(ops, live', agreed)
                  /\ \A T : Leads(ops, stored, T) => Leads(ops, stored', T)
  <2>1. CASE SSHPart(live') = SSHPart(live)
    BY <2>1, SSHSame DEF Within, FwdLive
  <2>2. CASE SSHPart(live') = agreed
    <3>1. SSHPart(live') = SSHPart(agreed)
      BY <2>2 DEF FwdRecords
    <3>2. Within(live)'
      BY <3>1, SSHSame DEF Within
    <3> QED BY <3>2, SSHSame
  <2> QED BY <2>1, <2>2
<1>3. FwdLive'
  BY <1>2 DEF FwdLive, FwdRecords
<1>4. FwdStored'
  <2>1. TakenBack' = TakenBack \/ cs' # cs
    BY DEF TakenBack
  <2> QED BY <1>2, <2>1 DEF FwdStored
<1> QED BY <1>1, <1>3, <1>4

LEMMA BeginsFwd ==
    ASSUME Backend = "firewalld", TypeOK, FwdInv, NEW open \in BOOLEAN, StartTrial(open)
    PROVE  FwdInv'
<1>1. /\ UNCHANGED <<rules, rec, agreed, verified>> /\ rec = NoRec /\ cs'.step = "snapshot"
      /\ cs'.rec.plan = sshPortPlan(live, open) /\ cs'.rec.open = open /\ cs.step = "free"
  BY DEF StartTrial, Lock, LockFor, NoRec, Hash, Free
<1>2. SSHPart(live) = SSHPart(agreed) /\ SSHPart(stored) = agreed
  BY <1>1 DEF FwdInv, FwdLive, FwdRecords, FwdStored
<1>3. Planned(cs.rec)'
  BY <1>1, <1>2, PlanOfSSH DEF Planned
<1>4. FwdRecords'
  BY <1>1, <1>3 DEF FwdInv, FwdRecords, Planned
<1>5. FwdLive' /\ FwdStored'
  BY <1>1, <1>2 DEF FwdInv, FwdLive, FwdRecords, FwdStored, rules
<1> QED BY <1>4, <1>5 DEF FwdInv

\* From the snapshot to the first change.
LEMMA PreparesFwd ==
    ASSUME Backend = "firewalld", IInv, SSHOnly, FreshIds, FwdInv,
           Snapshot \/ Record \/ armLayer1 \/ Baseline \/ Post
    PROVE  FwdInv'
<1> cs \in Sections
  BY DEF IInv, TypeOK
<1>1. /\ cs.step \in {"snapshot", "record"} => rec = NoRec
      /\ cs.step \notin {"free", "snapshot", "record"}
            => /\ rec # NoRec /\ rec.pre = cs.rec.pre /\ rec.id = cs.rec.id
               /\ rec.open = cs.rec.open /\ rec.plan = cs.rec.plan /\ cs.rec.id \in Ids
  BY DEF IInv, SectionMatchesRecord, FwdInv, FwdRecords, Planned
<1>2. CASE Snapshot
  <2>1. UNCHANGED <<rules, rec, agreed, verified>> /\ cs.step = "snapshot" /\ rec = NoRec
    BY <1>1, <1>2 DEF Snapshot, At, ghosts
  <2> DEFINE r == [cs.rec EXCEPT !.pre = Hash]
  <2>2. r.pre = live /\ r.plan = cs.rec.plan /\ r.open = cs.rec.open
    BY SectionParts DEF Records, Hash
  <2>3. GotoWith("record", r) \/ Unlock
    BY <1>2 DEF Snapshot
  <2> HIDE DEF r
  <2>4. \/ cs'.step = "free"
        \/ /\ cs'.step = "record" /\ cs'.rec.pre = live
           /\ cs'.rec.plan = cs.rec.plan /\ cs'.rec.open = cs.rec.open
    BY <2>2, <2>3, UnlockedFields DEF GotoWith, Continue, Unlock, Sections
  <2>5. FwdRecords'
    BY <2>1, <2>4 DEF FwdInv, FwdRecords, FwdLive, Planned
  <2>6. FwdLive' /\ FwdStored'
    BY <2>1, <2>4 DEF FwdInv, FwdLive, FwdStored, rules
  <2> QED BY <2>5, <2>6 DEF FwdInv
<1>3. CASE Record
  <2>1. /\ UNCHANGED <<rules, agreed, verified>> /\ cs.step = "record" /\ rec = NoRec
        /\ cs.rec.id \notin verified
    BY <1>1, <1>3 DEF Record, At, ghosts, FreshIds, Begun
  <2>2. CASE cs'.step = "free" /\ rec' = rec
    <3>1. FwdRecords'
      BY <2>1, <2>2 DEF FwdInv, FwdRecords
    <3>2. FwdLive' /\ FwdStored'
      BY <2>1, <2>2 DEF FwdInv, FwdLive, FwdStored, rules
    <3> QED BY <3>1, <3>2 DEF FwdInv
  <2>3. CASE cs'.step = "arm" /\ rec' = cs.rec /\ cs'.rec = cs.rec
    <3>1. FwdRecords'
      BY <2>1, <2>3 DEF FwdInv, FwdRecords, Planned
    <3>2. SSHPart(live) = SSHPart(agreed)
      BY <2>1 DEF FwdInv, FwdLive, FwdRecords
    <3>3. Within(live)'
      BY <2>1, <3>2, SSHSame DEF Within, rules
    <3>4. FwdLive' /\ FwdStored'
      BY <2>1, <2>3, <3>3 DEF FwdInv, FwdLive, FwdStored, rules
    <3> QED BY <3>1, <3>4 DEF FwdInv
  <2> QED BY <1>3, <2>2, <2>3, UnlockedFields DEF Record, Goto, Continue, Unlock, Sections
<1>4. CASE armLayer1
  <2> DEFINE r == [cs.rec EXCEPT !.layer1 = TRUE]
  <2>1. r.pre = cs.rec.pre /\ r.plan = cs.rec.plan /\ r.open = cs.rec.open
    BY SectionParts DEF Records
  <2>2. GotoWith("baseline", r) \/ Goto("baseline")
    BY <1>4 DEF armLayer1
  <2> HIDE DEF r
  <2>3. /\ cs'.step = "baseline" /\ cs'.rec.pre = cs.rec.pre
        /\ cs'.rec.plan = cs.rec.plan /\ cs'.rec.open = cs.rec.open
    BY <2>1, <2>2 DEF GotoWith, Goto, Continue, Sections
  <2>4. /\ UNCHANGED <<rules, rec, agreed, verified>> /\ cs.step = "arm"
        /\ SSHPart(live) = agreed
    BY <1>4 DEF armLayer1, At, ghosts, FwdInv, FwdLive
  <2> QED BY <2>3, <2>4, FwdSame DEF rules
<1>5. CASE Baseline
  <2>1. /\ UNCHANGED <<rules, agreed, verified>> /\ cs.step = "baseline"
        /\ SSHPart(live) = agreed
    BY <1>5 DEF Baseline, At, ghosts, FwdInv, FwdLive
  <2>2. CASE Goto("finish") /\ UNCHANGED rec
    <3>1. cs'.step = "finish" /\ cs'.rec = cs.rec
      BY <2>2 DEF Goto, Continue, Sections
    <3> QED BY <2>1, <2>2, <3>1, FwdSame DEF rules
  <2>3. CASE ~(Goto("finish") /\ UNCHANGED rec)
    <3>1. PICK seen : LET r == [cs.rec EXCEPT !.baseline = seen]
                      IN  rec' = r /\ Continue("apply", ApplyOps(r.plan), FALSE, r)
      BY <1>5, <2>3 DEF Baseline
    <3> DEFINE r == [cs.rec EXCEPT !.baseline = seen]
    <3>2. /\ r.pre = cs.rec.pre /\ r.id = cs.rec.id
          /\ r.plan = cs.rec.plan /\ r.open = cs.rec.open
      BY SectionParts DEF Records
    <3>3. rec' = r /\ Continue("apply", ApplyOps(r.plan), FALSE, r)
      BY <3>1
    <3> HIDE DEF r
    <3>4. /\ cs'.step = "apply" /\ cs'.rec = r /\ cs'.ops = cs.rec.plan
      BY <3>2, <3>3 DEF Continue, Sections, ApplyOps
    <3>5. r # NoRec
      BY <1>1, <2>1, <3>2, UnlockedFields, BoundsAssumption DEF Ids
    <3>6. AddsOnly(cs'.ops, Want(cs.rec.open), agreed) /\ cs'.ops \in Seq(Changes)
      <4>1. /\ cs.rec.open \in BOOLEAN /\ cs.rec.plan \in Seq(Changes)
            /\ cs.rec.plan = sshPortPlan(agreed, cs.rec.open)
        BY <2>1, SectionParts DEF FwdInv, FwdRecords, Planned, Records
      <4>2. AddsOnly(cs.rec.plan, Want(cs.rec.open), agreed)
        BY <4>1, PlanAdds
      <4> QED BY <3>4, <4>1, <4>2
    <3> QED BY <1>1, <2>1, <3>2, <3>3, <3>4, <3>5, <3>6, FwdSame DEF rules
  <2> QED BY <2>2, <2>3
<1>6. CASE Post
  <2> DEFINE r == [cs.rec EXCEPT !.post = {Hash}]
  <2>1. /\ r.pre = cs.rec.pre /\ r.id = cs.rec.id
        /\ r.plan = cs.rec.plan /\ r.open = cs.rec.open
    BY SectionParts DEF Records
  <2>2. rec' \in {rec, r} /\ (GotoWith("verify", r) \/ Goto("verify"))
    BY <1>6 DEF Post
  <2> HIDE DEF r
  <2>3. /\ cs'.step = "verify" /\ cs'.rec.pre = cs.rec.pre
        /\ cs'.rec.plan = cs.rec.plan /\ cs'.rec.open = cs.rec.open
    BY <2>1, <2>2 DEF Goto, GotoWith, Continue, Sections
  <2>4. cs.step = "post" /\ UNCHANGED <<rules, agreed, verified>>
    BY <1>6 DEF Post, At, ghosts
  <2>5. r # NoRec
    BY <1>1, <2>1, <2>4, UnlockedFields, BoundsAssumption DEF Ids
  <2> QED BY <1>1, <2>1, <2>2, <2>3, <2>4, <2>5, FwdSame DEF rules
<1> QED BY <1>2, <1>3, <1>4, <1>5, <1>6

\* A command that works, of a plan or on the way back.
LEMMA RunsFwd ==
    ASSUME Backend = "firewalld", IInv, FwdInv, cs.step \in {"apply", "revert", "restore"},
           UNCHANGED <<rec, agreed, verified>>, ~Done, Run(Head(cs.ops), cs.rec.pre), Next1
    PROVE  FwdInv'
<1> cs \in Sections
  BY DEF IInv, TypeOK
<1>1. /\ rec # NoRec /\ rec.open = cs.rec.open /\ cs.ops \in Seq(Changes)
      /\ AddsOnly(cs.ops, Want(cs.rec.open), agreed) /\ Within(live)
      /\ cs.step = "revert" => Leads(cs.ops, live, agreed)
      /\ rec.id \notin verified /\ SSHPart(stored) = agreed /\ cs.ops # << >>
  BY DEF IInv, SectionMatchesRecord, FwdInv, FwdRecords, FwdLive, FwdStored, Done
<1> DEFINE c == Head(cs.ops)
<1>2. cs'.step = cs.step /\ cs'.rec = cs.rec /\ cs'.ops = Tail(cs.ops)
  BY DEF Next1, Do, Continue, Sections
<1>3. /\ c \in Changes /\ c = cs.ops[1] /\ 1 \in DOMAIN cs.ops
      /\ Tail(cs.ops) \in Seq(Changes)
  BY <1>1, TailLast
<1>4. AddsOnly(Tail(cs.ops), Want(cs.rec.open), agreed)
  BY <1>1, AddsOnlyOn
<1>5. live' = Changed(live, c) /\ UNCHANGED stored
  BY <1>3 DEF Run, Changes
<1>6. \A r \in SSHRules, f \in FileSet :
         r \in live'[f] <=> IF Mentions(c, r) THEN c.op = "add" ELSE r \in live[f]
  BY <1>3, <1>5, ChangedRules
<1>7. cs.step = "revert" => Leads(Tail(cs.ops), live', agreed)
  BY <1>1, <1>6, LeadsOn
<1> HIDE DEF c
<1>8. \A r \in SSHRules :
        Mentions(c, r) /\ c.op = "add" => r = Want(cs.rec.open) \/ \A f \in FileSet : r \in agreed[f]
  BY <1>1, <1>3 DEF AddsOnly
<1>9. Within(live)'
  BY <1>1, <1>6, <1>8 DEF Within
<1>10. FwdRecords'
  BY <1>1, <1>2 DEF FwdInv, FwdRecords, Planned
<1>11. FwdLive' /\ FwdStored'
  BY <1>1, <1>2, <1>3, <1>4, <1>5, <1>7, <1>9 DEF FwdInv, FwdLive, FwdStored
<1> QED BY <1>10, <1>11 DEF FwdInv

\* The change, its undoing and the restoring of the snapshot.
LEMMA WorksFwd ==
    ASSUME Backend = "firewalld", Sure, IInv, FwdInv, Apply \/ Revert \/ Restore
    PROVE  FwdInv'
<1> cs \in Sections
  BY DEF IInv, TypeOK
<1>1. UNCHANGED <<rec, agreed, verified>> /\ cs.step \in {"apply", "revert", "restore"}
  BY DEF Apply, Revert, Restore, At, ghosts
<1>2. /\ rec # NoRec /\ rec.open = cs.rec.open /\ cs.ops \in Seq(Changes)
      /\ AddsOnly(cs.ops, Want(cs.rec.open), agreed)
      /\ SSHPart(cs.rec.pre) = agreed
  BY <1>1 DEF IInv, SectionMatchesRecord, FwdInv, FwdRecords, FwdLive
<1>3. CASE ~Done /\ Run(Head(cs.ops), cs.rec.pre) /\ Next1
  BY <1>1, <1>3, RunsFwd
<1>4. CASE Apply /\ ~(~Done /\ Run(Head(cs.ops), cs.rec.pre) /\ Next1)
  <2>1. cs.step = "apply" /\ UNCHANGED rules
    BY <1>4 DEF Apply, At
  <2>2. \/ cs'.step = "post" /\ cs'.rec = cs.rec
        \/ cs'.step = "apply" /\ cs'.rec = cs.rec /\ cs'.ops = << >>
    BY <1>4 DEF Apply, Goto, Continue, Sections
  <2>3. AddsOnly(<< >>, Want(cs.rec.open), agreed) /\ << >> \in Seq(Changes)
    BY DEF AddsOnly
  <2> QED BY <1>1, <1>2, <2>1, <2>2, <2>3, FwdSame DEF rules
<1>5. CASE Revert /\ ~(~Done /\ Run(Head(cs.ops), cs.rec.pre) /\ Next1)
  <2>1. cs.step = "revert" /\ UNCHANGED rules /\ Done /\ Goto("guard")
    BY <1>5 DEF Revert, At, Sure, Fails
  <2>2. cs'.step = "guard" /\ cs'.rec = cs.rec
    BY <2>1 DEF Goto, Continue, Sections
  <2>3. SSHPart(live) = agreed
    <3>1. Leads(<< >>, live, agreed) /\ SSHPart(agreed) = agreed
      BY <2>1 DEF Done, FwdInv, FwdLive, FwdRecords
    <3> QED BY <3>1, LeadsThere
  <2> QED BY <1>1, <1>2, <2>1, <2>2, <2>3, FwdSame DEF rules
<1>6. CASE Restore /\ ~(~Done /\ Run(Head(cs.ops), cs.rec.pre) /\ Next1)
  <2>1. cs.step = "restore" /\ UNCHANGED rules
    BY <1>6 DEF Restore, At
  <2>2. \/ Goto("finish") /\ live = cs.rec.pre
        \/ Goto("reload")
        \/ ~Done /\ Next1
    BY <1>6 DEF Restore
  <2>3. CASE Goto("finish") /\ live = cs.rec.pre
    <3>1. cs'.step = "finish" /\ cs'.rec = cs.rec /\ SSHPart(live) = agreed
      BY <1>2, <2>3 DEF Goto, Continue, Sections
    <3> QED BY <1>1, <1>2, <2>1, <3>1, FwdSame DEF rules
  <2>4. CASE Goto("reload")
    <3>1. cs'.step = "reload" /\ cs'.rec = cs.rec
      BY <2>4 DEF Goto, Continue, Sections
    <3> QED BY <1>1, <1>2, <2>1, <3>1, FwdSame DEF rules
  <2>5. CASE ~Done /\ Next1
    <3>1. cs'.step = "restore" /\ cs'.rec = cs.rec /\ cs'.ops = Tail(cs.ops)
      BY <2>1, <2>5 DEF Next1, Do, Continue, Sections
    <3>2. /\ AddsOnly(Tail(cs.ops), Want(cs.rec.open), agreed)
          /\ Tail(cs.ops) \in Seq(Changes)
      BY <1>2, <2>5, AddsOnlyOn, TailLast DEF Done
    <3> QED BY <1>1, <1>2, <2>1, <3>1, <3>2, FwdSame DEF rules
  <2> QED BY <2>2, <2>3, <2>4, <2>5
<1> QED BY <1>3, <1>4, <1>5, <1>6

\* firewalld's restore adds only what the snapshot has.
LEMMA RestoreAdds ==
    ASSUME Backend = "firewalld", NEW pre \in RuleSets, live \in RuleSets, NEW want
    PROVE  RestoreOps(pre) \in Seq(Changes) /\ AddsOnly(RestoreOps(pre), want, SSHPart(pre))
<1> DEFINE h == live[Files[1]]
           p == pre[Files[1]]
           c == [op |-> "delete", rules |-> h \ p]
           d == [op |-> "add", rules |-> p \ h]
           q == RestoreOps(pre)
<1>1. q = << c, d >>
  BY DEF RestoreOps
<1>2. c \in Changes /\ d \in Changes
  <2>1. h \subseteq AllRules /\ p \subseteq AllRules
    BY FilesNonEmpty DEF RuleSets, FileSet
  <2> QED BY <2>1 DEF Changes
<1>3. \A r \in SSHRules : Mentions(c, r) /\ c.op = "add" => FALSE
  BY DEF Mentions
<1>4. \A r \in SSHRules : Mentions(d, r) => \A f \in FileSet : r \in SSHPart(pre)[f]
  <2>1. \A f \in FileSet : f = Files[1]
    BY FilesAssumption DEF FileSet
  <2>2. \A r : Mentions(d, r) => r \in p
    BY DEF Mentions
  <2>3. \A r \in SSHRules, f \in FileSet : r \in pre[f] => r \in SSHPart(pre)[f]
    BY DEF SSHPart
  <2> HIDE DEF d
  <2> QED BY <2>1, <2>2, <2>3
<1> HIDE DEF c, d, q
<1>5. q \in Seq(Changes) /\ DOMAIN q = {1, 2} /\ q[1] = c /\ q[2] = d
  BY <1>1, <1>2
<1>6. AddsOnly(q, want, SSHPart(pre))
  BY <1>3, <1>4, <1>5 DEF AddsOnly
<1> QED BY <1>5, <1>6 DEF q

\* Verify arms the pending trial, whose rules are the wanted ones, or goes back.
LEMMA VerifiesFwd ==
    ASSUME Backend = "firewalld", IInv, FwdInv, Verify
    PROVE  FwdInv'
<1> cs \in Sections
  BY DEF IInv, TypeOK
<1>1. /\ UNCHANGED <<rules, rec, agreed>> /\ cs.step = "verify" /\ rec # NoRec
      /\ rec.id = cs.rec.id /\ rec.open = cs.rec.open /\ rec.open \in BOOLEAN
      /\ SSHPart(stored) = agreed
  BY SectionParts
     DEF Verify, At, IInv, SectionMatchesRecord, FwdInv, FwdRecords, FwdStored, Records
<1>2. CASE Goto("rollback") /\ UNCHANGED verified
  <2>1. cs'.step = "rollback" /\ cs'.rec = cs.rec
    BY <1>2 DEF Goto, Continue, Sections
  <2>2. rec.id \notin verified
    BY <1>1 DEF FwdInv, FwdRecords
  <2> QED BY <1>1, <1>2, <2>1, <2>2, FwdSame DEF rules
<1>3. CASE ~(Goto("rollback") /\ UNCHANGED verified)
  <2>1. /\ \E P \in Probes : IF cs.rec.open THEN reachable(P) ELSE closed(P)
        /\ cs' = Unlocked
    BY <1>3 DEF Verify, Unlock
  <2>2. SSHPart(live) = Outcome(rec.open)
    <3>1. IF rec.open THEN reachable(live) ELSE closed(live)
      BY <1>1, <2>1 DEF Probes
    <3> QED BY <1>1, <3>1, OutcomeSeen
  <2>3. cs'.step = "free"
    BY <2>1, UnlockedFields
  <2>4. FwdRecords'
    BY <1>1, <2>3 DEF FwdInv, FwdRecords, Planned
  <2>5. SSHPart(live)' = SSHPart(live) /\ SSHPart(stored)' = SSHPart(stored)
        /\ Within(live)' = Within(live)
    BY <1>1 DEF SSHPart, Within, rules
  <2>6. FwdLive' /\ FwdStored'
    BY <1>1, <2>2, <2>3, <2>5 DEF FwdInv, FwdLive, FwdStored
  <2> QED BY <2>4, <2>6 DEF FwdInv
<1> QED BY <1>2, <1>3

\* The decisions on the way back, and its last steps.
LEMMA DecidesFwd ==
    ASSUME Backend = "firewalld", Sure, IInv, FwdInv, Decide \/ Guard \/ FwdReload \/ Finish \/ End
    PROVE  FwdInv'
<1> cs \in Sections /\ live \in RuleSets
  BY DEF IInv, TypeOK
<1>1. UNCHANGED <<stored, agreed>> /\ verified' \subseteq verified
  BY DEF Decide, Guard, FwdReload, Finish, End, rules, ghosts
<1>2. /\ cs.step \in {"rollback", "guard", "reload", "finish", "end"}
      /\ rec # NoRec /\ rec.id = cs.rec.id /\ rec.open = cs.rec.open
      /\ cs.rec.open \in BOOLEAN /\ cs.rec.pre \in RuleSets
      /\ Planned(cs.rec) /\ SSHPart(cs.rec.pre) = agreed
      /\ Within(live) /\ SSHPart(stored) = agreed /\ SSHPart(agreed) = agreed
      /\ cs.step # "rollback" => rec.id \notin verified
      /\ cs.step \in {"guard", "finish", "end"} => SSHPart(live) = agreed
  BY SectionParts
     DEF Decide, Guard, FwdReload, Finish, End, At, IInv, SectionMatchesRecord, FwdInv,
         FwdRecords, FwdLive, FwdStored, Records
<1>3. /\ RestoreOps(cs.rec.pre) \in Seq(Changes)
      /\ AddsOnly(RestoreOps(cs.rec.pre), Want(cs.rec.open), agreed)
  BY <1>2, RestoreAdds
<1>4. CASE Decide
  <2>1. UNCHANGED <<rules, rec>> /\ cs.step = "rollback" /\ rec.id \notin verified'
    BY <1>2, <1>4 DEF Decide, At
  <2>2. \/ cs'.step = "free"
        \/ cs'.step = "finish" /\ cs'.rec = cs.rec /\ live = cs.rec.pre
        \/ cs'.step = "restore" /\ cs'.rec = cs.rec /\ cs'.ops = RestoreOps(cs.rec.pre)
        \/ cs'.step = "revert" /\ cs'.rec = cs.rec /\ cs'.ops = inverse(cs.rec.plan)
    BY <1>4, UnlockedFields
       DEF Decide, Unchanged, Hash, RevertOps, Goto, Do, Continue, Unlock, Sections
  <2>3. CASE cs'.step = "revert"
    <3>1. \A r \in SSHRules, f \in FileSet :
             r \in live[f] => r = Want(cs.rec.open) \/ r \in agreed[f]
      BY <1>2 DEF Within
    <3>2. /\ inverse(cs.rec.plan) \in Seq(Changes)
          /\ Leads(inverse(cs.rec.plan), live, agreed)
          /\ AddsOnly(inverse(cs.rec.plan), Want(cs.rec.open), agreed)
      <4>1. Even(agreed)
        BY OneFile
      <4>2. cs.rec.plan \in Seq(Changes)
        BY SectionParts DEF Records
      <4>3. inverse(cs.rec.plan) \in Seq(Changes)
        BY <4>2, InverseType
      <4> QED BY <1>2, <3>1, <4>1, <4>3, InverseLeads DEF Planned
    <3> QED BY <1>1, <1>2, <2>1, <2>2, <2>3, <3>2, FwdSame DEF rules
  <2>4. CASE cs'.step # "revert"
    BY <1>1, <1>2, <1>3, <2>1, <2>2, <2>4, FwdSame DEF rules
  <2> QED BY <2>3, <2>4
<1>5. CASE Guard
  <2>1. /\ UNCHANGED <<rules, rec>> /\ cs.step = "guard"
        /\ \/ cs'.step = "restore" /\ cs'.ops = RestoreOps(cs.rec.pre)
           \/ cs'.step = "finish"
        /\ cs'.rec = cs.rec
    BY <1>5 DEF Guard, At, Goto, Do, Continue, Sections
  <2> QED BY <1>1, <1>2, <1>3, <2>1, FwdSame DEF rules
<1>6. CASE FwdReload
  <2>1. /\ UNCHANGED rec /\ cs.step = "reload"
        /\ \/ live' = stored /\ cs'.step = "finish" /\ cs'.rec = cs.rec
           \/ UNCHANGED live /\ cs'.step = "free"
    BY <1>6, UnlockedFields DEF FwdReload, At, Goto, Continue, Unlock, Sections, rules
  <2>2. rec.id \notin verified'
    BY <1>1, <1>2, <2>1
  <2> QED BY <1>1, <1>2, <2>1, <2>2, FwdSame
<1>7. CASE Finish
  <2>1. /\ UNCHANGED <<rules, rec>> /\ cs.step = "finish"
        /\ cs'.step = "end" /\ cs'.rec = cs.rec
    BY <1>7 DEF Finish, At, Goto, Continue, Sections
  <2> QED BY <1>1, <1>2, <2>1, FwdSame DEF rules
<1>8. CASE End
  <2>1. rec' = NoRec /\ cs' = Unlocked /\ UNCHANGED rules /\ cs.step = "end"
    BY <1>8 DEF End, At, Unlock, Sure, Fails
  <2>2. FwdRecords' /\ FwdLive' /\ FwdStored'
    BY <1>1, <1>2, <2>1, UnlockedFields DEF FwdRecords, FwdLive, FwdStored, rules
  <2> QED BY <2>2 DEF FwdInv
<1> QED BY <1>4, <1>5, <1>6, <1>7, <1>8

\* Keep repeats the plan on the permanent configuration, or takes back what
\* it had repeated.
LEMMA CommitsFwd ==
    ASSUME Backend = "firewalld", Sure, IInv, SSHOnly, FwdInv, Commit,
           cs.rec.id \in kept' => cs.rec.id \in verified'
    PROVE  FwdInv'
<1> cs \in Sections
  BY DEF IInv, TypeOK
<1>1. /\ cs.step = "commit" /\ rec # NoRec /\ rec.open = cs.rec.open /\ rec.id = cs.rec.id
      /\ cs.rec.open \in BOOLEAN /\ cs.ops \in Plans /\ cs.rec.plan \in Plans
      /\ Planned(cs.rec) /\ Remains(cs.ops, cs.rec.plan)
      /\ Leads(cs.ops, stored, Outcome(cs.rec.open))
      /\ Leads(TakenBack, stored, agreed) /\ UNCHANGED <<live, verified>>
      /\ Within(live)
  BY SectionParts
     DEF Commit, At, IInv, SectionMatchesRecord, SSHOnly, FwdInv, FwdRecords, FwdLive,
         FwdStored, Records
<1>2. CASE ~Done /\ stored' = Changed(stored, Head(cs.ops)) /\ Next1
           /\ UNCHANGED <<rec, agreed>>
  <2> DEFINE c == Head(cs.ops)
             n == Len(cs.rec.plan) - Len(cs.ops)
  <2>1. cs'.step = "commit" /\ cs'.rec = cs.rec /\ cs'.ops = Tail(cs.ops)
    BY <1>1, <1>2 DEF Next1, Do, Continue, Sections
  <2>2. /\ cs.ops # << >> /\ cs.ops \in Seq(SSHChanges) /\ cs.rec.plan \in Seq(SSHChanges)
        /\ c \in SSHChanges
    BY <1>1, <1>2, PlansLeft DEF Done, Plans
  <2>3. /\ n \in 0..(Len(cs.rec.plan) - 1) /\ c = cs.rec.plan[n + 1]
        /\ Len(cs.rec.plan) - Len(Tail(cs.ops)) = n + 1
        /\ Remains(Tail(cs.ops), cs.rec.plan)
    BY <1>1, <2>2, RemainsOn
  <2>4. \A r \in SSHRules, f \in FileSet :
           r \in stored'[f] <=> IF Mentions(c, r) THEN c.op = "add" ELSE r \in stored[f]
    BY <1>2, <2>2, ChangedSSH
  <2>5. Leads(Tail(cs.ops), stored', Outcome(cs.rec.open))
    BY <1>1, <2>2, <2>4, LeadsOn
  <2>6. TakenBack = inverse(SubSeq(cs.rec.plan, 1, n))
        /\ TakenBack' = inverse(SubSeq(cs.rec.plan, 1, n + 1))
    BY <2>1, <2>3 DEF TakenBack
  <2>7. cs.rec.plan = sshPortPlan(agreed, cs.rec.open) /\ Even(agreed)
    BY <1>1, OneFile DEF Planned
  <2> HIDE DEF c, n
  <2>8. Leads(inverse(SubSeq(cs.rec.plan, 1, n + 1)), stored', agreed)
    BY <1>1, <2>3, <2>4, <2>6, <2>7, PrefixBack
  <2>9. FwdRecords' /\ FwdLive'
    BY <1>1, <1>2, <2>1 DEF FwdInv, FwdRecords, FwdLive, Planned, Within
  <2>10. FwdStored'
    BY <1>2, <2>1, <2>3, <2>5, <2>6, <2>8 DEF FwdStored
  <2> QED BY <2>9, <2>10 DEF FwdInv
<1>3. CASE /\ ~Done /\ Fails("commit") /\ UNCHANGED <<stored, rec, agreed>>
           /\ Do("uncommit", inverse(SubSeq(cs.rec.plan, 1, Len(cs.rec.plan) - Len(cs.ops))))
  <2>1. cs'.step = "uncommit" /\ cs'.rec = cs.rec /\ cs'.ops = TakenBack
    BY <1>3 DEF Do, Continue, Sections, TakenBack
  <2>2. budget'.fault = 0
    <3>1. budget.fault \in 0..MaxFaults /\ MaxFaults <= 1 /\ budget.fault > 0
      BY <1>3 DEF IInv, TypeOK, Budgets, Sure, Fails
    <3>2. budget'.fault = budget.fault - 1
      BY <1>3 DEF Fails, IInv, TypeOK, Budgets
    <3> QED BY <3>1, <3>2, BoundsAssumption
  <2>3. FwdRecords' /\ FwdLive' /\ FwdStored'
    BY <1>1, <1>3, <2>1, <2>2 DEF FwdInv, FwdRecords, FwdLive, FwdStored, Planned, Within
  <2> QED BY <2>3 DEF FwdInv
<1>4. CASE /\ Done /\ rec' = NoRec /\ cs' = Unlocked /\ agreed' = SSHPart(Hash)
           /\ kept' = kept \cup {cs.rec.id} /\ UNCHANGED stored
  <2>1. cs.rec.id \in verified
    BY <1>1, <1>4
  <2>2. SSHPart(live) = Outcome(rec.open)
    BY <1>1, <2>1 DEF FwdInv, FwdLive
  <2>3. SSHPart(stored) = Outcome(rec.open)
    <3>1. Leads(<< >>, stored, Outcome(rec.open))
      BY <1>1, <1>4 DEF Done
    <3> QED BY <3>1, LeadsThere, OutcomeSSH
  <2>4. agreed' = SSHPart(live) /\ SSHPart(live)' = agreed' /\ SSHPart(stored)' = agreed'
        /\ SSHPart(agreed') = agreed'
    BY <1>1, <1>4, <2>2, <2>3, SSHPartPart DEF Hash, SSHPart
  <2>5. FwdRecords' /\ FwdLive' /\ FwdStored'
    BY <1>4, <2>4, UnlockedFields DEF FwdRecords, FwdLive, FwdStored
  <2> QED BY <2>5 DEF FwdInv
<1> QED BY <1>2, <1>3, <1>4 DEF Commit, Sure, Fails, Unlock

LEMMA UncommitsFwd ==
    ASSUME Backend = "firewalld", IInv, SSHOnly, FwdInv, Uncommit
    PROVE  FwdInv'
<1> cs \in Sections
  BY DEF IInv, TypeOK
<1>1. /\ cs.step = "uncommit" /\ cs.ops \in Plans
      /\ UNCHANGED <<live, rec, agreed, verified>> /\ budget.fault = 0
      /\ Leads(cs.ops, stored, agreed) /\ SSHPart(agreed) = agreed
  BY DEF Uncommit, At, SSHOnly, FwdInv, FwdRecords, FwdStored, ghosts
<1>2. CASE Done /\ cs' = Unlocked /\ UNCHANGED stored
  <2>1. SSHPart(stored) = agreed
    BY <1>1, <1>2, LeadsThere DEF Done
  <2> QED BY <1>1, <1>2, <2>1, UnlockedFields, FwdSame
<1>3. CASE ~Done /\ Works /\ stored' = Changed(stored, Head(cs.ops)) /\ Next1
  <2>1. /\ cs'.step = "uncommit" /\ cs'.rec = cs.rec /\ cs'.ops = Tail(cs.ops)
        /\ budget' = budget
    BY <1>1, <1>3 DEF Next1, Do, Continue, Sections, Works
  <2>2. cs.ops # << >> /\ cs.ops \in Seq(SSHChanges) /\ Head(cs.ops) \in SSHChanges
    BY <1>1, <1>3, PlansLeft DEF Done, Plans
  <2>3. \A r \in SSHRules, f \in FileSet :
           r \in stored'[f] <=> IF Mentions(Head(cs.ops), r) THEN Head(cs.ops).op = "add"
                                                              ELSE r \in stored[f]
    BY <1>3, <2>2, ChangedSSH
  <2>4. Leads(Tail(cs.ops), stored', agreed)
    BY <1>1, <2>2, <2>3, LeadsOn
  <2>5. FwdRecords' /\ FwdLive' /\ FwdStored'
    BY <1>1, <2>1, <2>4 DEF FwdInv, FwdRecords, FwdLive, FwdStored, Planned, Within
  <2> QED BY <2>5 DEF FwdInv
<1> QED BY <1>1, <1>2, <1>3 DEF Uncommit, Fails, Unlock

LEMMA SurroundsFwd ==
    ASSUME Backend = "firewalld", Sure, TypeOK, FwdInv, Environment \/ UNCHANGED vars
    PROVE  FwdInv'
<1>1. /\ UNCHANGED <<rec, agreed>> /\ SSHPart(stored') = SSHPart(stored)
      /\ UNCHANGED cs \/ (cs' = Unlocked /\ Strikes)
  BY Surroundings
<1>2. verified' \subseteq verified
  BY DEF Environment, NewConn, EndConn, ForeignEdit, CrashAgent, CrashLayer1, Reboot, vars,
     ghosts
<1>3. Strikes => SSHPart(stored) = agreed
  BY DEF Strikes, Sure, FwdInv, FwdStored
<1>4. budget.fault = 0 => budget'.fault = 0
  <2>1. budget' \in {budget, [budget EXCEPT !.edit = @ - 1], [budget EXCEPT !.crash = @ - 1]}
    BY DEF Environment, NewConn, EndConn, ForeignEdit, CrashAgent, CrashLayer1, Reboot,
           Strikes, vars
  <2> QED BY <2>1 DEF TypeOK, Budgets
<1>5. CASE Reboot
  <2>1. /\ cs' = Unlocked /\ SSHPart(live') = agreed /\ SSHPart(stored) = agreed
        /\ live = stored \/ rec.id \notin verified'
    BY <1>3, <1>5 DEF Reboot, Unlock
  <2>2. SSHPart(live') = SSHPart(live) \/ rec.id \notin verified'
    BY <2>1
  <2>3. cs'.step = "free"
    BY <2>1, UnlockedFields
  <2> QED BY <1>1, <1>2, <2>1, <2>2, <2>3, FwdSame
<1>6. CASE ~Reboot
  <2>1. SSHPart(live') = SSHPart(live)
    <3>1. ASSUME NEW x \in Foreign, NEW op \in {"add", "delete"}, ForeignEdit(x, op)
          PROVE  SSHPart(live') = SSHPart(live)
      BY <3>1, EditSSH DEF SSHPart
    <3>2. CASE UNCHANGED live
      BY <3>2
    <3> QED BY <1>6, <3>1, <3>2 DEF Environment, NewConn, EndConn, CrashAgent, CrashLayer1,
            vars, rules
  <2> QED BY <1>1, <1>2, <1>3, <1>4, <2>1, UnlockedFields, FwdSame
<1> QED BY <1>5, <1>6

LEMMA NextFwd ==
    ASSUME Backend = "firewalld", Sure, IInv, SSHOnly, FreshIds, FwdInv, [Next]_vars,
           kept' \subseteq verified'
    PROVE  FwdInv'
<1> TypeOK
  BY DEF IInv
<1>1. CASE Step
  <2>1. CASE Commit
    BY <2>1, CommitsFwd
  <2> QED BY <1>1, <2>1, PreparesFwd, WorksFwd, VerifiesFwd, DecidesFwd, UncommitsFwd
          DEF Step, Trial, Rollback
<1>2. ASSUME NEW open \in BOOLEAN, StartTrial(open)
      PROVE  FwdInv'
  BY <1>2, BeginsFwd
<1>3. CASE Layers \/ \E id \in Ids : Keep(id) \/ RollBackNow(id)
  <2>1. /\ UNCHANGED <<rules, rec, agreed, verified>>
        /\ UNCHANGED cs \/ Begins \/ Commits \/ RollsBack
    BY <1>3, Entered DEF User
  <2>2. UNCHANGED cs => (budget.fault = 0 => budget'.fault = 0)
    <3>1. budget' = budget \/ \E kind : Fails(kind)
      BY <1>3 DEF Layers, Deadline, FireLayer1, FireLayer2, RunFwRollback, autoRollback,
         reconcileFwTrial, Keep, RollBackNow, StopLayer1, Works
    <3> QED BY <3>1 DEF Fails
  <2>3. CASE UNCHANGED cs \/ RollsBack
    BY <2>1, <2>2, <2>3, FwdSame DEF RollsBack, Free, rules
  <2>4. CASE Begins
    <3>1. cs'.step \in {"commit", "rollback"} \/ UNCHANGED cs
      <4>1. CASE \E id \in Ids : Keep(id)
        BY <4>1 DEF Keep, LockFor
      <4>2. CASE Layers \/ \E id \in Ids : RollBackNow(id)
        <5>1. \/ UNCHANGED cs
              \/ \E who \in {"bot", "boot", "layer1", "layer2"} : Lock(who, rec, "rollback")
          BY <4>2 DEF Layers, Deadline, FireLayer1, FireLayer2, RunFwRollback,
             autoRollback, reconcileFwTrial, RollBackNow
        <5> QED BY <5>1 DEF Lock, LockFor
      <4> QED BY <1>3, <4>1, <4>2
    <3>2. UNCHANGED cs
      BY <2>4, <3>1 DEF Begins
    <3> QED BY <2>1, <2>2, <3>2, FwdSame DEF rules
  <2>5. CASE Commits
    <3>1. /\ cs'.step = "commit" /\ cs'.rec = rec /\ cs'.ops = rec.plan /\ rec # NoRec
          /\ rec.plan \in Seq(SSHChanges) /\ rec.open \in BOOLEAN
      BY <2>5 DEF Commits, SSHOnly, Plans, TypeOK, Records
    <3>2. /\ SSHPart(stored) = agreed /\ SSHPart(agreed) = agreed /\ Planned(rec)
          /\ SSHPart(rec.pre) = agreed
      BY <2>5 DEF Commits, Free, FwdInv, FwdStored, FwdRecords
    <3>3. Leads(rec.plan, stored, Outcome(rec.open))
      BY <3>1, <3>2, PlanLeads, OneFile DEF Planned
    <3>4. TakenBack' = << >>
      <4>1. TakenBack' = inverse(SubSeq(rec.plan, 1, Len(rec.plan) - Len(rec.plan)))
        BY <3>1 DEF TakenBack
      <4>2. Len(rec.plan) - Len(rec.plan) = 0 /\ SubSeq(rec.plan, 1, 0) = << >>
        BY <3>1, PrefixShape
      <4> QED BY <4>1, <4>2, InverseEmpty
    <3>5. Leads(<< >>, stored, agreed)
      BY <3>2, SSHSame DEF Leads
    <3>6. Remains(rec.plan, rec.plan)
      BY <3>1 DEF Remains
    <3>7. FwdStored'
      BY <2>1, <3>1, <3>3, <3>4, <3>5, <3>6 DEF FwdStored, rules
    <3>8. FwdRecords' /\ FwdLive'
      BY <2>1, <3>1, <3>2 DEF FwdInv, FwdRecords, FwdLive, Planned, Within, rules
    <3> QED BY <3>7, <3>8 DEF FwdInv
  <2> QED BY <2>1, <2>3, <2>4, <2>5
<1>4. CASE Environment \/ UNCHANGED vars
  BY <1>4, SurroundsFwd
<1> QED BY <1>1, <1>2, <1>3, <1>4 DEF Next, User

\* A trial that was kept is never verified afterwards.
LEMMA KeptStays ==
    ASSUME IInv, FreshIds, [Next]_vars, kept' \subseteq verified'
    PROVE  kept \subseteq verified
<1>1. kept \subseteq kept'
  BY DEF Next, Step, Trial, Rollback, User, Layers, Environment, StartTrial, Snapshot, Record,
     armLayer1, Baseline, Apply, Post, Verify, Decide, Revert, Guard, Restore, FwdReload,
     Finish, End, Keep, Commit, Uncommit, RollBackNow, Deadline, FireLayer1, FireLayer2,
     RunFwRollback, autoRollback, reconcileFwTrial, NewConn, EndConn, ForeignEdit, CrashAgent,
     CrashLayer1, Reboot, vars, ghosts
<1>2. CASE Verify
  <2>1. cs.rec.id \notin kept /\ verified' \subseteq verified \cup {cs.rec.id}
    BY <1>2 DEF Verify, At, FreshIds
  <2> QED BY <1>1, <2>1
<1>3. CASE ~Verify
  <2>1. verified' \subseteq verified
    BY <1>3 DEF Next, Step, Trial, Rollback, User, Layers, Environment, StartTrial, Snapshot,
       Record, armLayer1, Baseline, Apply, Post, Decide, Revert, Guard, Restore, FwdReload,
       Finish, End, Keep, Commit, Uncommit, RollBackNow, Deadline, FireLayer1, FireLayer2,
       RunFwRollback, autoRollback, reconcileFwTrial, NewConn, EndConn, ForeignEdit,
       CrashAgent, CrashLayer1, Reboot, vars, ghosts
  <2> QED BY <1>1, <2>1
<1> QED BY <1>2, <1>3

\* The inductive invariant for firewalld.
FwdIInv == IInv /\ SSHOnly /\ FreshIds /\ (kept \subseteq verified => FwdInv)

LEMMA InitFwd == Backend = "firewalld" /\ Init => FwdIInv
<1> SUFFICES ASSUME Backend = "firewalld", Init PROVE FwdIInv
  OBVIOUS
<1>1. /\ rec = NoRec /\ cs.step = "free" /\ agreed = SSHPart(stored) /\ live = stored
      /\ SSHPart(agreed) = agreed
  BY UnlockedFields, SSHPartPart DEF Init
<1>2. FwdInv
  BY <1>1 DEF FwdInv, FwdRecords, FwdLive, FwdStored
<1>3. IInv
  BY InitType DEF Init, SectionMatchesRecord, Unlocked, IInv
<1> QED BY <1>2, <1>3, InitSSHOnly, InitFresh DEF FwdIInv

LEMMA NextKeepsFwd ==
    ASSUME Backend = "firewalld", Sure, FwdIInv, [Next]_vars
    PROVE  FwdIInv'
<1>1. IInv' /\ SSHOnly' /\ FreshIds'
  BY NextKeepsIInv, NextSSHOnly, NextFresh DEF FwdIInv
<1>2. kept' \subseteq verified' => FwdInv'
  BY KeptStays, NextFwd DEF FwdIInv
<1> QED BY <1>1, <1>2 DEF FwdIInv

\* With firewalld, while no undo and no removal of a record fails, no crash
\* strikes inside a Keep and at most one command fails where a Keep's commands
\* may: anything other than Keep rolls back both configurations, whatever else
\* fails and wherever else crashes and reboots strike.
THEOREM RolledBackFirewalld ==
    ASSUME Backend = "firewalld", {"revert", "remove", "commitCrash"} \cap Kinds = {},
           "commit" \in Kinds => MaxFaults <= 1
    PROVE  Spec => []RolledBack
<1> Sure
  BY DEF Sure
<1>1. FwdIInv => RolledBack
  <2> SUFFICES ASSUME FwdIInv, rec = NoRec, kept \subseteq verified
               PROVE  SSHPart(stored) = agreed /\ SSHPart(live) = agreed
    BY DEF RolledBack
  <2>1. cs.step \in {"free", "snapshot", "record"}
    BY DEF FwdIInv, IInv, SectionMatchesRecord
  <2> QED BY <2>1 DEF FwdIInv, FwdInv, FwdLive, FwdStored
<1> QED BY <1>1, InitFwd, NextKeepsFwd, PTL DEF Spec

\* With firewalld, under the same assumptions: SSH that was reachable by the
\* rules of the last Keep is reachable when no trial is pending.
THEOREM NoLockoutFirewalld ==
    ASSUME Backend = "firewalld", {"revert", "remove", "commitCrash"} \cap Kinds = {},
           "commit" \in Kinds => MaxFaults <= 1
    PROVE  Spec => []NoLockout
<1>1. Spec => []RolledBack
  BY RolledBackFirewalld
<1>2. RolledBack => NoLockout
  <2> SUFFICES ASSUME RolledBack, rec = NoRec, kept \subseteq verified, reachable(agreed)
               PROVE  reachable(live)
    BY DEF NoLockout, Hash
  <2>1. SSHPart(live) = SSHPart(agreed)
    BY SSHPartPart DEF RolledBack
  <2> QED BY <2>1, ReachableSSH
<1> QED BY <1>1, <1>2, PTL

\* One step, as the promise sees it.
LEMMA PromiseStep ==
    ASSUME Backend = "firewalld", FwdIInv, FwdIInv', [Next]_vars,
           kept \subseteq verified, kept' \subseteq verified'
    PROVE  [Promise!Next]_(Promise!vars)
<1>1. SSHPart(Hash)' = SSHPart(live') /\ SSHPart(Hash) = SSHPart(live)
  BY DEF Hash, SSHPart
<1>2. SSHPart(live') \in [FileSet -> SUBSET SSHRules]
  <2>1. live' \in RuleSets
    BY DEF FwdIInv, IInv, TypeOK
  <2> QED BY <2>1 DEF SSHPart, RuleSets
<1>3. /\ rec = NoRec => SSHPart(live) = agreed
      /\ rec' = NoRec => SSHPart(live') = agreed'
  <2>1. FwdLive /\ FwdLive'
    BY DEF FwdIInv, FwdInv
  <2>2. SSHPart(live)' = SSHPart(live')
    BY DEF SSHPart
  <2> QED BY <2>1, <2>2 DEF FwdLive
<1>4. /\ (rec = NoRec) # (rec' = NoRec) => UNCHANGED live
      /\ \/ UNCHANGED agreed
         \/ rec # NoRec /\ rec' = NoRec /\ agreed' = SSHPart(live)
  BY RecordSteps DEF Hash, rules, FwdIInv
<1>5. CASE rec = NoRec /\ rec' = NoRec
  BY <1>1, <1>3, <1>4, <1>5 DEF Promise!vars
<1>6. CASE rec = NoRec /\ rec' # NoRec
  BY <1>1, <1>4, <1>6 DEF Promise!Next, Promise!Begin
<1>7. CASE rec # NoRec /\ rec' # NoRec
  BY <1>1, <1>2, <1>4, <1>7 DEF Promise!Next, Promise!Change
<1>8. CASE rec # NoRec /\ rec' = NoRec
  <2>1. CASE UNCHANGED agreed
    BY <1>1, <1>3, <1>4, <1>8, <2>1 DEF Promise!Next, Promise!Rollback
  <2>2. CASE agreed' = SSHPart(live)
    BY <1>1, <1>4, <1>8, <2>2 DEF Promise!Next, Promise!Keep
  <2> QED BY <1>4, <2>1, <2>2
<1> QED BY <1>5, <1>6, <1>7, <1>8

\* With firewalld, under the assumptions of RolledBackFirewalld: until a trial
\* is kept whose rules are not those verify saw, every step is one of the
\* promise, the loading of the permanent rules by a reboot included.
THEOREM PromiseStepsFirewalld ==
    ASSUME Backend = "firewalld", {"revert", "remove", "commitCrash"} \cap Kinds = {},
           "commit" \in Kinds => MaxFaults <= 1
    PROVE  Spec => [][kept' \subseteq verified' => [Promise!Next]_(Promise!vars)]_vars
<1> Sure
  BY DEF Sure
<1> DEFINE Promised == kept' \subseteq verified' => [Promise!Next]_(Promise!vars)
<1>1. FwdIInv /\ FwdIInv' /\ [Next]_vars => Promised
  <2> SUFFICES ASSUME FwdIInv, FwdIInv', [Next]_vars, kept' \subseteq verified'
               PROVE  [Promise!Next]_(Promise!vars)
    OBVIOUS
  <2>1. kept \subseteq verified
    BY KeptStays DEF FwdIInv
  <2> QED BY <2>1, PromiseStep
<1>2. FwdIInv /\ FwdIInv' /\ [Next]_vars => [Promised]_vars
  BY <1>1
<1> QED BY <1>2, InitFwd, NextKeepsFwd, PTL DEF Spec

\* While no process dies and no rollback stops half-way, whoever can press
\* Keep keeps a verified trial.
Waits ==
    /\ kept \subseteq verified
    /\ rec # NoRec /\ cs.step = "free" => rec.id \in verified
    /\ cs.step \in {"commit", "uncommit"} => cs.rec.id \in verified

LEMMA NextWaits ==
    ASSUME Backend = "firewalld", {"remove", "restore", "crash", "reboot"} \cap Kinds = {},
           IInv, FreshIds, Waits, [Next]_vars
    PROVE  Waits'
<1> cs \in Sections
  BY DEF IInv, TypeOK
<1>0. /\ cs.step \in {"snapshot", "record"} => rec = NoRec
      /\ cs.step \notin {"free", "snapshot", "record"}
            => rec # NoRec /\ rec.id = cs.rec.id /\ snaps[rec.id] # {}
  BY DEF IInv, SectionMatchesRecord
<1>1. CASE Verify
  <2>1. \/ cs'.step = "free" /\ verified' = verified \cup {cs.rec.id}
        \/ cs'.step = "rollback" /\ UNCHANGED verified
    BY <1>1, UnlockedFields DEF Verify, Goto, Continue, Unlock, Sections
  <2>2. UNCHANGED <<rec, kept>> /\ cs.step = "verify"
    BY <1>1 DEF Verify, At
  <2> QED BY <1>0, <2>1, <2>2 DEF Waits
<1>2. CASE Decide
  <2>1. UNCHANGED <<rec, kept>> /\ cs.step = "rollback" /\ verified' = verified \ {cs.rec.id}
    BY <1>2 DEF Decide, At
  <2>2. cs'.step \in {"finish", "revert", "restore"}
    BY <1>0, <1>2, <2>1 DEF Decide, Goto, Do, Continue, Sections
  <2>3. cs.rec.id \notin kept
    BY <2>1 DEF FreshIds
  <2> QED BY <2>1, <2>2, <2>3 DEF Waits
<1>3. CASE Commit
  <2>1. UNCHANGED verified /\ cs.step = "commit" /\ cs.rec.id \in verified
    BY <1>3 DEF Commit, At, Waits
  <2>2. \/ cs'.step \in {"commit", "uncommit"} /\ cs'.rec = cs.rec /\ UNCHANGED kept
        \/ cs'.step = "free" /\ rec' = NoRec /\ kept' = kept \cup {cs.rec.id}
    BY <1>3, <2>1, UnlockedFields
       DEF Commit, At, Next1, Do, Continue, Unlock, Sections, Fails
  <2> QED BY <2>1, <2>2 DEF Waits
<1>4. CASE Uncommit
  <2>1. UNCHANGED <<rec, verified, kept>> /\ cs.step = "uncommit"
    BY <1>4 DEF Uncommit, At, ghosts
  <2>2. cs'.step = "free" \/ (cs'.step = "uncommit" /\ cs'.rec = cs.rec)
    BY <1>4, <2>1, UnlockedFields DEF Uncommit, Next1, Do, Continue, Unlock, Sections
  <2> QED BY <1>0, <2>1, <2>2 DEF Waits
<1>5. CASE Snapshot \/ Record \/ armLayer1 \/ Baseline \/ Apply \/ Post
  <2>1. UNCHANGED <<verified, kept>>
    BY <1>5 DEF Snapshot, Record, armLayer1, Baseline, Apply, Post, ghosts
  <2>2. CASE Snapshot \/ Record
    <3>1. cs'.step \in {"record", "arm"} \/ (cs'.step = "free" /\ rec' = rec)
      BY <2>2, UnlockedFields
         DEF Snapshot, Record, Goto, GotoWith, Continue, Unlock, Sections
    <3>2. rec = NoRec
      BY <1>0, <2>2 DEF Snapshot, Record, At
    <3> QED BY <2>1, <3>1, <3>2 DEF Waits
  <2>3. CASE armLayer1 \/ Baseline \/ Apply \/ Post
    <3>1. cs'.step \in {"baseline", "apply", "finish", "post", "verify"}
      BY <2>3 DEF armLayer1, Baseline, Apply, Post, At, Next1, Do, Goto, GotoWith, Continue,
         Sections
    <3> QED BY <2>1, <3>1 DEF Waits
  <2> QED BY <1>5, <2>2, <2>3
<1>6. CASE Revert \/ Guard \/ Restore \/ FwdReload \/ Finish \/ End
  <2>1. UNCHANGED <<verified, kept>>
    BY <1>6 DEF Revert, Guard, Restore, FwdReload, Finish, End, ghosts
  <2>2. CASE End
    BY <2>1, <2>2, UnlockedFields DEF End, Unlock, Fails, Waits
  <2>3. CASE Revert \/ Guard \/ Restore \/ FwdReload \/ Finish
    <3>1. cs'.step \in {"revert", "guard", "restore", "reload", "finish", "end"}
      BY <2>3 DEF Revert, Guard, Restore, FwdReload, Finish, At, Next1, Do, Goto, Continue,
         Sections, Fails
    <3> QED BY <2>1, <3>1 DEF Waits
  <2> QED BY <1>6, <2>2, <2>3
<1>7. CASE User \/ Layers
  <2>1. /\ UNCHANGED <<rec, verified, kept>>
        /\ UNCHANGED cs \/ Begins \/ Commits \/ RollsBack
    BY <1>7, Entered
  <2> QED BY <2>1 DEF Waits, Begins, Commits, RollsBack, Free
<1>8. CASE Environment \/ UNCHANGED vars
  <2>1. UNCHANGED <<rec, cs, verified, kept>>
    BY <1>8 DEF Environment, NewConn, EndConn, ForeignEdit, CrashAgent, CrashLayer1, Reboot,
       vars, ghosts
  <2> QED BY <2>1 DEF Waits
<1> QED BY <1>1, <1>2, <1>3, <1>4, <1>5, <1>6, <1>7, <1>8 DEF Next, Step, Trial, Rollback

\* With firewalld, while processes and the host stay up and no rollback stops
\* half-way, the rules follow the promise made for them, as they do with ufw:
\* SSH rules change only during a trial, and a trial ends with the new rules
\* after a Keep or else with the ones agreed before.
THEOREM KeepsPromiseFirewalld ==
    ASSUME Backend = "firewalld",
           {"revert", "remove", "restore", "crash", "reboot", "commitCrash"} \cap Kinds = {},
           "commit" \in Kinds => MaxFaults <= 1
    PROVE  Spec => KeepsPromise
<1> Sure
  BY DEF Sure
<1> DEFINE I == FwdIInv /\ Waits
<1>1. Init => I
  BY InitFwd, UnlockedFields DEF Init, Waits
<1>2. I /\ [Next]_vars => I'
  BY NextKeepsFwd, NextWaits DEF FwdIInv
<1>3. Init => Promise!Init
  <2> SUFFICES ASSUME Init PROVE Promise!Init
    OBVIOUS
  <2>1. live \in RuleSets /\ live = stored /\ rec = NoRec /\ agreed = SSHPart(stored)
    BY InitType DEF Init, TypeOK
  <2>2. SSHPart(live) \in [FileSet -> SUBSET SSHRules]
    BY <2>1 DEF SSHPart, RuleSets
  <2>3. SSHPart(Hash) = SSHPart(live)
    BY DEF Hash
  <2> QED BY <2>1, <2>2, <2>3 DEF Promise!Init
<1>4. I /\ I' /\ [Next]_vars => [Promise!Next]_(Promise!vars)
  BY PromiseStep DEF Waits
<1> QED BY <1>1, <1>2, <1>3, <1>4, PTL DEF Spec, KeepsPromise, Promise!Spec
=============================================================================
