----------------------------- MODULE HostProofs -----------------------------
(* Proofs about what the agent does for its host: service actions are      *)
(* guarded and their receipts true, trust is vouched for and kept, watch lists *)
(* are saved as told, the chat's last word is true or the thing flapped,   *)
(* brute force is seen although attempts are pruned, and what the reading  *)
(* of the firewall offers runs.                                            *)
EXTENDS ServiceActions, SshTrust, WatchLists, EventLoops, BruteDetector, FwDetect,
        FiniteSetTheorems, TLAPS

-----------------------------------------------------------------------------
(* Service and container actions (ServiceActions).                         *)

Acts == { "active", "inactive", "failed", "activating", "deactivating" }
UnitReads == [act : Acts \cup { "" }, inv : Nat \cup { -1 }]
Steps == { "idle", "prompt", "find", "before", "queue", "poll", "post", "told" }
FlowRecords ==
    [step : Steps, item : SvItems, verb : Verbs, final : BOOLEAN, mayDouble : BOOLEAN,
     before : UnitReads, looked : Nat \cup { -1 }, wasAllowed : BOOLEAN,
     result : { "", "ok", "failed", "error" }, seen : UnitReads]

SvTypes ==
    /\ policy \in { "watched", "named" } /\ svWatched \in BOOLEAN
    /\ unit \in [act : Acts, inv : Nat, job : Verbs \cup { "none" }]
    /\ flow \in [Flows -> FlowRecords]

Works(w) == w.step \in { "find", "before", "queue", "poll", "post" }

\* What a flow has asked for by each of its steps.
Asked(w) ==
    /\ Works(w) /\ allowed(w.item) => w.wasAllowed
    /\ Works(w) /\ w.item = "sshd" /\ w.verb # "start" => w.final \/ ~ w.mayDouble
    /\ w.step \in { "before", "queue", "poll", "post" } => w.item \notin { "statix", "self" } /\ w.wasAllowed
    /\ w.step \in { "before", "queue", "poll" } => w.item = "sshd"
    /\ w.step = "post" => w.item = "web"

\* What it knows of the unit's run: the read before the job is of the run it looked
\* at, or failed, and runs only follow it.
Looked(w, inv) ==
    /\ w.step \in { "idle", "prompt", "find", "before" } => w.before.inv = -1
    /\ w.step \in { "queue", "poll" } => w.before.inv \in { -1, w.looked } /\ w.looked <= inv

TrueReceipt(w) ==
    w.step = "told" /\ w.item = "sshd" =>
        /\ w.result = "ok" => IF w.verb = "stop" THEN down(w.seen.act) ELSE w.seen.act = "active"
        /\ w.looked # 0 /\ w.before.inv # -1 /\ (w.result = "failed" \/ (w.result = "ok" /\ w.verb = "restart"))
               => w.seen.inv > w.looked

Exclusive == \A f, g \in Flows : f # g /\ Works(flow[f]) /\ Works(flow[g]) => flow[f].item # flow[g].item

\* The inductive invariant.
ActsInv ==
    /\ SvTypes /\ Exclusive
    /\ \A f \in Flows : Asked(flow[f]) /\ Looked(flow[f], unit.inv) /\ TrueReceipt(flow[f])

\* At the start no flow does anything.
LEMMA InitActs == ActionsInit => ActsInv
<1> SUFFICES ASSUME ActionsInit PROVE ActsInv
  OBVIOUS
<1>1. IdleFlow \in FlowRecords
  BY DEF IdleFlow, FlowRecords, Steps, SvItems, Verbs, UnitReads
<1>2. SvTypes
  BY <1>1 DEF ActionsInit, SvTypes, Acts
<1>3. \A f \in Flows : flow[f] = IdleFlow
  BY DEF ActionsInit
<1>4. IdleFlow.step = "idle" /\ IdleFlow.before.inv = -1
  BY DEF IdleFlow
<1> QED BY <1>2, <1>3, <1>4 DEF ActsInv, Exclusive, Works, Asked, Looked, TrueReceipt

\* A flow that takes a step keeps the invariant when its new record is right, and,
\* while it works, its item is no other flow's.
LEMMA FlowStep ==
    ASSUME ActsInv, NEW f \in Flows, NEW w \in FlowRecords, FlowGoes(f, w),
           UNCHANGED << policy, svWatched >>,
           unit' \in [act : Acts, inv : Nat, job : Verbs \cup { "none" }], unit'.inv = unit.inv,
           Asked(w), Looked(w, unit.inv), TrueReceipt(w),
           Works(w) => \A g \in Flows \ { f } : Works(flow[g]) => flow[g].item # w.item
    PROVE  ActsInv'
<1>1. /\ flow' \in [Flows -> FlowRecords]
      /\ \A g \in Flows : flow'[g] = IF g = f THEN w ELSE flow[g]
  BY DEF FlowGoes, ActsInv, SvTypes
<1>2. SvTypes'
  BY <1>1 DEF ActsInv, SvTypes
<1>3. Exclusive'
  BY <1>1 DEF ActsInv, Exclusive
<1>4. \A g \in Flows : Asked(flow[g])'
  BY <1>1 DEF ActsInv, Asked, Works, allowed
<1>5. \A g \in Flows : Looked(flow[g], unit.inv)' /\ TrueReceipt(flow[g])'
  BY <1>1 DEF ActsInv, Looked, TrueReceipt, down
<1> QED BY <1>2, <1>3, <1>4, <1>5 DEF ActsInv

\* A flow that is idle again.
LEMMA FlowIdles ==
    ASSUME ActsInv, NEW f \in Flows, FlowGoes(f, IdleFlow), UNCHANGED << policy, svWatched, unit >>
    PROVE  ActsInv'
<1>1. IdleFlow \in FlowRecords
  BY DEF IdleFlow, FlowRecords, Steps, SvItems, Verbs, UnitReads
<1>2. Asked(IdleFlow) /\ Looked(IdleFlow, unit.inv) /\ TrueReceipt(IdleFlow) /\ ~ Works(IdleFlow)
  BY DEF IdleFlow, Asked, Looked, TrueReceipt, Works
<1> QED BY <1>1, <1>2, FlowStep DEF ActsInv, SvTypes

\* A press is told it failed; that claims nothing.
LEMMA FlowErrs ==
    ASSUME ActsInv, NEW f \in Flows, NEW now, FlowGoes(f, toldOf(flow[f], "error", now)),
           UNCHANGED << policy, svWatched, unit >>
    PROVE  ActsInv'
<1> DEFINE w == [IdleFlow EXCEPT !.step = "told", !.result = "error"]
<1>1. w \in FlowRecords
  BY DEF IdleFlow, FlowRecords, Steps, SvItems, Verbs, UnitReads
<1>2. Asked(w) /\ Looked(w, unit.inv) /\ TrueReceipt(w) /\ ~ Works(w)
  BY DEF IdleFlow, Asked, Looked, TrueReceipt, Works
<1>3. FlowGoes(f, w)
  BY DEF toldOf
<1> HIDE DEF w
<1> QED BY <1>1, <1>2, <1>3, FlowStep DEF ActsInv, SvTypes

-----------------------------------------------------------------------------
(* systemd and other hands.                                                *)

\* systemd's own steps leave the flows alone and only start later runs.
LEMMA SystemdKeeps ==
    ASSUME ActsInv, PickUp \/ Settles
    PROVE  ActsInv'
<1>1. UNCHANGED << policy, svWatched, flow >>
  BY DEF PickUp, Settles
<1>2. unit' \in [act : Acts, inv : Nat, job : Verbs \cup { "none" }] /\ unit'.inv >= unit.inv
  <2>1. unit \in [act : Acts, inv : Nat, job : Verbs \cup { "none" }]
    BY DEF ActsInv, SvTypes
  <2>2. CASE PickUp
    <3>1. unit.act \in Acts /\ unit.inv \in Nat /\ unit.job \in Verbs
      BY <2>1, <2>2 DEF PickUp
    <3>2. \/ unit' = [unit EXCEPT !.act = "deactivating", !.job = "none"]
          \/ unit' = [unit EXCEPT !.act = "deactivating", !.job = "start"]
          \/ unit' = [act |-> "activating", inv |-> IF unit.inv = 0 THEN 0 ELSE unit.inv + 1, job |-> "none"]
          \/ unit' = unit
          \/ unit' = [unit EXCEPT !.job = "none"]
      BY <2>2 DEF PickUp
    <3>3. \A u \in [act : Acts, inv : Nat, job : Verbs \cup { "none" }] :
             \A a \in Acts, j \in Verbs \cup { "none" } :
                /\ [u EXCEPT !.act = a, !.job = j] \in [act : Acts, inv : Nat, job : Verbs \cup { "none" }]
                /\ [u EXCEPT !.job = j] \in [act : Acts, inv : Nat, job : Verbs \cup { "none" }]
                /\ [u EXCEPT !.act = a, !.job = j].inv = u.inv /\ [u EXCEPT !.job = j].inv = u.inv
      OBVIOUS
    <3>4. /\ "deactivating" \in Acts /\ "activating" \in Acts
          /\ "none" \in Verbs \cup { "none" } /\ "start" \in Verbs \cup { "none" }
      BY DEF Acts, Verbs
    <3>5. CASE unit' = [act |-> "activating", inv |-> IF unit.inv = 0 THEN 0 ELSE unit.inv + 1, job |-> "none"]
      BY <3>1, <3>4, <3>5
    <3>6. CASE unit' # [act |-> "activating", inv |-> IF unit.inv = 0 THEN 0 ELSE unit.inv + 1, job |-> "none"]
      <4>1. unit'.inv = unit.inv /\ unit' \in [act : Acts, inv : Nat, job : Verbs \cup { "none" }]
        <5>1. CASE unit' = [unit EXCEPT !.act = "deactivating", !.job = "none"]
          BY <2>1, <3>3, <3>4, <5>1
        <5>2. CASE unit' = [unit EXCEPT !.act = "deactivating", !.job = "start"]
          BY <2>1, <3>3, <3>4, <5>2
        <5>3. CASE unit' = unit
          BY <2>1, <5>3
        <5>4. CASE unit' = [unit EXCEPT !.job = "none"]
          BY <2>1, <3>3, <3>4, <5>4
        <5> QED BY <3>2, <3>6, <5>1, <5>2, <5>3, <5>4
      <4> QED BY <3>1, <4>1
    <3> QED BY <3>5, <3>6
  <2>3. CASE Settles
    BY <2>1, <2>3 DEF Settles, Acts, Verbs
  <2> QED BY <2>2, <2>3
<1>3. SvTypes' /\ Exclusive'
  BY <1>1, <1>2 DEF ActsInv, SvTypes, Exclusive
<1>4. \A g \in Flows : Asked(flow[g])' /\ TrueReceipt(flow[g])'
  BY <1>1 DEF ActsInv, Asked, TrueReceipt, allowed, down, Works
<1>5. ASSUME NEW g \in Flows PROVE Looked(flow[g], unit.inv)'
  <2>1. flow[g].looked \in Nat \cup { -1 } /\ unit.inv \in Nat
    BY DEF ActsInv, SvTypes, FlowRecords
  <2> QED BY <1>1, <1>2, <2>1 DEF ActsInv, Looked
<1> QED BY <1>3, <1>4, <1>5 DEF ActsInv

\* The unit dies, a job is queued by another hand, the watch list changes.
LEMMA OtherHandKeeps ==
    ASSUME ActsInv, OtherHand
    PROVE  ActsInv'
<1>1. unit \in [act : Acts, inv : Nat, job : Verbs \cup { "none" }] /\ UNCHANGED policy
  BY DEF ActsInv, SvTypes, OtherHand
<1>2. CASE UNCHANGED << svWatched, flow >> /\ unit' \in { [unit EXCEPT !.act = "failed"] } \cup { [unit EXCEPT !.job = v] : v \in Verbs }
  <2>1. unit' \in [act : Acts, inv : Nat, job : Verbs \cup { "none" }] /\ unit'.inv = unit.inv
    BY <1>1, <1>2 DEF Acts, Verbs
  <2>2. SvTypes' /\ Exclusive'
    BY <1>1, <1>2, <2>1 DEF ActsInv, SvTypes, Exclusive
  <2>3. \A g \in Flows : Asked(flow[g])' /\ TrueReceipt(flow[g])' /\ Looked(flow[g], unit.inv)'
    BY <1>1, <1>2, <2>1 DEF ActsInv, Asked, TrueReceipt, Looked, allowed, down, Works
  <2> QED BY <2>2, <2>3 DEF ActsInv
<1>3. CASE /\ svWatched' = ~ svWatched /\ UNCHANGED unit
           /\ flow' = [g \in Flows |-> [flow[g] EXCEPT !.wasAllowed = @ \/ (flow[g].item = "sshd" /\ ~ svWatched)]]
  <2>1. \A g \in Flows : flow[g] \in FlowRecords /\ svWatched \in BOOLEAN
    BY DEF ActsInv, SvTypes
  <2>2. \A g \in Flows :
            /\ flow'[g] \in FlowRecords
            /\ flow'[g].step = flow[g].step /\ flow'[g].item = flow[g].item /\ flow'[g].verb = flow[g].verb
            /\ flow'[g].final = flow[g].final /\ flow'[g].mayDouble = flow[g].mayDouble
            /\ flow'[g].before = flow[g].before /\ flow'[g].looked = flow[g].looked
            /\ flow'[g].result = flow[g].result /\ flow'[g].seen = flow[g].seen
            /\ flow'[g].wasAllowed = (flow[g].wasAllowed \/ (flow[g].item = "sshd" /\ ~ svWatched))
    BY <1>3, <2>1 DEF FlowRecords
  <2>3. SvTypes'
    BY <1>1, <1>3, <2>1, <2>2 DEF ActsInv, SvTypes
  <2>4. Exclusive'
    BY <2>2 DEF ActsInv, Exclusive, Works
  <2>5. ASSUME NEW g \in Flows PROVE Asked(flow[g])'
    <3>1. Asked(flow[g]) /\ flow[g].wasAllowed \in BOOLEAN
      BY <2>1 DEF ActsInv, FlowRecords
    <3>2. flow'[g].wasAllowed <=> (flow[g].wasAllowed \/ (flow[g].item = "sshd" /\ ~ svWatched))
      BY <2>2, <3>1
    <3>3. flow'[g].step = flow[g].step /\ flow'[g].item = flow[g].item /\ flow'[g].verb = flow[g].verb
          /\ flow'[g].final = flow[g].final /\ flow'[g].mayDouble = flow[g].mayDouble
      BY <2>2
    <3>4. allowed(flow[g].item)' => allowed(flow[g].item) \/ (flow[g].item = "sshd" /\ ~ svWatched)
      BY <1>1, <1>3, <2>1, <3>3 DEF allowed
    <3>5. allowed(flow[g].item)' /\ Works(flow[g])' => flow'[g].wasAllowed
      BY <3>1, <3>2, <3>3, <3>4 DEF Asked, Works
    <3> QED BY <3>1, <3>2, <3>3, <3>5 DEF Asked, Works
  <2>6. ASSUME NEW g \in Flows PROVE TrueReceipt(flow[g])' /\ Looked(flow[g], unit.inv)'
    BY <1>3, <2>2 DEF ActsInv, TrueReceipt, Looked, down
  <2> QED BY <2>3, <2>4, <2>5, <2>6 DEF ActsInv
<1> QED BY <1>2, <1>3 DEF OtherHand

-----------------------------------------------------------------------------
(* The presses.                                                            *)

\* A prompt, or nothing.
LEMMA AskActKeeps ==
    ASSUME ActsInv, NEW f \in Flows, NEW i \in SvItems, NEW v \in Verbs, AskAct(f, i, v)
    PROVE  ActsInv'
<1> DEFINE w == [IdleFlow EXCEPT !.step = "prompt", !.item = i, !.verb = v]
<1>1. FlowGoes(f, IdleFlow) \/ FlowGoes(f, w)
  BY DEF AskAct
<1>2. UNCHANGED << policy, svWatched, unit >>
  BY DEF AskAct
<1>3. w \in FlowRecords
  BY DEF IdleFlow, FlowRecords, Steps, SvItems, Verbs, UnitReads
<1>4. Asked(w) /\ Looked(w, unit.inv) /\ TrueReceipt(w) /\ ~ Works(w)
  BY DEF IdleFlow, Asked, Looked, TrueReceipt, Works
<1> HIDE DEF w
<1>5. CASE FlowGoes(f, w)
  BY <1>2, <1>3, <1>4, <1>5, FlowStep DEF ActsInv, SvTypes
<1> QED BY <1>1, <1>2, <1>5, FlowIdles

\* The Yes asks once more, begins the work under the item's lock, or is refused.
LEMMA YesActKeeps ==
    ASSUME ActsInv, NEW f \in Flows, YesAct(f)
    PROVE  ActsInv'
<1> DEFINE w == flow[f]
           go == [w EXCEPT !.step = "find", !.wasAllowed = allowed(w.item)]
           hurried == [go EXCEPT !.mayDouble = FALSE]
           asked == [w EXCEPT !.final = TRUE]
<1>1. UNCHANGED << policy, svWatched, unit >> /\ w.step = "prompt"
  BY DEF YesAct
<1>2. w \in FlowRecords /\ w.before.inv = -1
  BY <1>1 DEF ActsInv, SvTypes, Looked
<1>3. allowed(w.item) \in BOOLEAN
  BY DEF allowed, ActsInv, SvTypes
<1>4. /\ go \in FlowRecords /\ go.step = "find" /\ go.item = w.item /\ go.verb = w.verb
      /\ go.final = w.final /\ go.wasAllowed = allowed(w.item) /\ go.before = w.before
  BY <1>2, <1>3 DEF FlowRecords, Steps
<1>5. /\ hurried \in FlowRecords /\ hurried.step = "find" /\ hurried.item = w.item
      /\ ~ hurried.mayDouble /\ hurried.wasAllowed = allowed(w.item) /\ hurried.before = w.before
  <2> HIDE DEF go
  <2> QED BY <1>4 DEF FlowRecords
<1>6. asked \in FlowRecords /\ asked.step = "prompt" /\ asked.before = w.before
  BY <1>1, <1>2 DEF FlowRecords
<1>7. \/ FlowGoes(f, IdleFlow)
      \/ FlowGoes(f, asked)
      \/ FlowGoes(f, go) /\ tryLock(f) /\ (w.verb = "start" \/ w.final \/ ~ LockoutRisk(w.item))
      \/ FlowGoes(f, hurried) /\ tryLock(f)
  <2> HIDE DEF go
  <2>1. PICK r : FlowGoes(f, CASE r = "found" /\ LockoutRisk(w.item) ->
                                 IF refusedAct(w.item) THEN IdleFlow ELSE asked
                           [] r = "none" \/ (r = "found" /\ ~ LockoutRisk(w.item)) -> IF tryLock(f) THEN go ELSE IdleFlow
                           [] OTHER -> IF tryLock(f) THEN [(IF tryLock(f) THEN go ELSE IdleFlow) EXCEPT !.mayDouble = FALSE] ELSE IdleFlow)
                 /\ (r \in IF w.item \in Units /\ w.verb # "start" /\ ~ w.final THEN findItem(w.item) ELSE { "none" })
    BY DEF YesAct, go
  <2>2. r = "none" => ~ (w.item \in Units /\ w.verb # "start" /\ ~ w.final)
    BY <2>1 DEF findItem
  <2>3. LockoutRisk(w.item) => w.item \in Units
    BY DEF LockoutRisk, Units
  <2> QED BY <1>2, <2>1, <2>2, <2>3 DEF FlowRecords
<1>8. tryLock(f) => \A g \in Flows \ { f } : Works(flow[g]) => flow[g].item # w.item
  BY DEF tryLock, Works, Working
<1>9. CASE FlowGoes(f, asked)
  <2>1. Asked(asked) /\ Looked(asked, unit.inv) /\ TrueReceipt(asked) /\ ~ Works(asked)
    BY <1>2, <1>6 DEF Asked, Looked, TrueReceipt, Works
  <2> HIDE DEF asked
  <2> QED BY <1>1, <1>6, <1>9, <2>1, FlowStep DEF ActsInv, SvTypes
<1>10. CASE FlowGoes(f, go) /\ tryLock(f) /\ (w.verb = "start" \/ w.final \/ ~ LockoutRisk(w.item))
  <2>1. Asked(go) /\ Looked(go, unit.inv) /\ TrueReceipt(go)
    <3> HIDE DEF go
    <3> QED BY <1>2, <1>4, <1>10 DEF Asked, Looked, TrueReceipt, Works, LockoutRisk
  <2> HIDE DEF go
  <2> QED BY <1>1, <1>4, <1>8, <1>10, <2>1, FlowStep DEF ActsInv, SvTypes
<1>11. CASE FlowGoes(f, hurried) /\ tryLock(f)
  <2>1. Asked(hurried) /\ Looked(hurried, unit.inv) /\ TrueReceipt(hurried)
    <3> HIDE DEF hurried
    <3> QED BY <1>2, <1>5, <1>11 DEF Asked, Looked, TrueReceipt, Works
  <2> HIDE DEF hurried
  <2> QED BY <1>1, <1>5, <1>8, <1>11, <2>1, FlowStep DEF ActsInv, SvTypes
<1> HIDE DEF go, hurried, asked
<1> QED BY <1>1, <1>7, <1>9, <1>10, <1>11, FlowIdles

\* The work goes on only on an item that is allowed now and never denied.
LEMMA RunFindKeeps ==
    ASSUME ActsInv, NEW f \in Flows, RunFind(f)
    PROVE  ActsInv'
<1> DEFINE w == [flow[f] EXCEPT !.step = IF flow[f].item \in Units THEN "before" ELSE "post"]
<1>1. UNCHANGED << policy, svWatched, unit >> /\ flow[f].step = "find"
  BY DEF RunFind
<1>2. flow[f] \in FlowRecords /\ flow[f].before.inv = -1 /\ Asked(flow[f])
  BY <1>1 DEF ActsInv, SvTypes, Looked
<1>3. FlowGoes(f, IdleFlow) \/ (FlowGoes(f, w) /\ ~ refusedAct(flow[f].item))
  BY DEF RunFind
<1>4. /\ w \in FlowRecords /\ w.step = (IF flow[f].item \in Units THEN "before" ELSE "post")
      /\ w.item = flow[f].item /\ w.verb = flow[f].verb /\ w.final = flow[f].final
      /\ w.mayDouble = flow[f].mayDouble /\ w.wasAllowed = flow[f].wasAllowed /\ w.before = flow[f].before
  BY <1>2 DEF FlowRecords, Steps
<1>5. \A g \in Flows \ { f } : Works(flow[g]) => flow[g].item # flow[f].item
  BY <1>1 DEF ActsInv, Exclusive, Works
<1> HIDE DEF w
<1>6. CASE FlowGoes(f, w) /\ ~ refusedAct(flow[f].item)
  <2>1. allowed(flow[f].item) /\ flow[f].item \in { "sshd", "web" }
        /\ (flow[f].item \in Units <=> flow[f].item = "sshd")
    BY <1>2, <1>6 DEF refusedAct, ActionDenied, selfContainer, Units, SvItems, FlowRecords
  <2>2. Asked(w) /\ Looked(w, unit.inv) /\ TrueReceipt(w)
    BY <1>1, <1>2, <1>4, <2>1 DEF Asked, Looked, TrueReceipt, Works
  <2> QED BY <1>1, <1>4, <1>5, <1>6, <2>2, FlowStep DEF ActsInv, SvTypes
<1> QED BY <1>1, <1>3, <1>6, FlowIdles

\* The read before the job is of the run the unit has.
LEMMA BeforeKeeps ==
    ASSUME ActsInv, NEW f \in Flows, Before(f)
    PROVE  ActsInv'
<1> DEFINE read == [flow[f] EXCEPT !.step = "queue", !.before = Now, !.looked = unit.inv]
           unread == [flow[f] EXCEPT !.step = "queue", !.looked = unit.inv]
<1>1. /\ UNCHANGED << policy, svWatched, unit >> /\ flow[f].step = "before"
      /\ FlowGoes(f, read) \/ FlowGoes(f, unread)
  BY DEF Before
<1>2. flow[f] \in FlowRecords /\ flow[f].before.inv = -1 /\ Asked(flow[f])
  BY <1>1 DEF ActsInv, SvTypes, Looked
<1>3. Now \in UnitReads /\ Now.inv = unit.inv /\ unit.inv \in Nat
  BY DEF Now, UnitReads, ActsInv, SvTypes
<1>4. \A w \in { read, unread } :
         /\ w \in FlowRecords /\ w.step = "queue" /\ w.item = flow[f].item /\ w.verb = flow[f].verb
         /\ w.final = flow[f].final /\ w.mayDouble = flow[f].mayDouble /\ w.wasAllowed = flow[f].wasAllowed
         /\ w.looked = unit.inv /\ w.before.inv \in { -1, unit.inv }
  <2>1. read \in FlowRecords /\ read.before = Now
    BY <1>2, <1>3 DEF FlowRecords, Steps
  <2>2. unread \in FlowRecords /\ unread.before = flow[f].before
    BY <1>2, <1>3 DEF FlowRecords, Steps
  <2> QED BY <1>2, <1>3, <2>1, <2>2 DEF FlowRecords
<1>5. \A g \in Flows \ { f } : Works(flow[g]) => flow[g].item # flow[f].item
  BY <1>1 DEF ActsInv, Exclusive, Works
<1> SUFFICES ASSUME NEW w \in { read, unread }, FlowGoes(f, w) PROVE ActsInv'
  BY <1>1
<1> HIDE DEF read, unread
<1>6. Asked(w) /\ Looked(w, unit.inv) /\ TrueReceipt(w)
  BY <1>1, <1>2, <1>3, <1>4 DEF Asked, Looked, TrueReceipt, Works
<1> QED BY <1>1, <1>4, <1>5, <1>6, FlowStep DEF ActsInv, SvTypes

\* The job is queued.
LEMMA QueueKeeps ==
    ASSUME ActsInv, NEW f \in Flows, Queue(f)
    PROVE  ActsInv'
<1> DEFINE w == [flow[f] EXCEPT !.step = "poll"]
<1>1. /\ UNCHANGED << policy, svWatched >> /\ flow[f].step = "queue"
      /\ \/ unit' = [unit EXCEPT !.job = flow[f].verb] /\ FlowGoes(f, w)
         \/ FlowGoes(f, toldOf(flow[f], "error", Now)) /\ UNCHANGED unit
  BY DEF Queue
<1>2. flow[f] \in FlowRecords /\ Asked(flow[f]) /\ Looked(flow[f], unit.inv)
  BY DEF ActsInv, SvTypes
<1>3. /\ w \in FlowRecords /\ w.step = "poll" /\ w.item = flow[f].item /\ w.verb = flow[f].verb
      /\ w.final = flow[f].final /\ w.mayDouble = flow[f].mayDouble /\ w.wasAllowed = flow[f].wasAllowed
      /\ w.before = flow[f].before /\ w.looked = flow[f].looked
  BY <1>2 DEF FlowRecords, Steps
<1>4. \A g \in Flows \ { f } : Works(flow[g]) => flow[g].item # flow[f].item
  BY <1>1 DEF ActsInv, Exclusive, Works
<1>5. CASE unit' = [unit EXCEPT !.job = flow[f].verb] /\ FlowGoes(f, w)
  <2>1. unit' \in [act : Acts, inv : Nat, job : Verbs \cup { "none" }] /\ unit'.inv = unit.inv
    BY <1>2, <1>5 DEF ActsInv, SvTypes, FlowRecords
  <2> HIDE DEF w
  <2>2. Asked(w) /\ Looked(w, unit.inv) /\ TrueReceipt(w)
    BY <1>1, <1>2, <1>3 DEF Asked, Looked, TrueReceipt, Works
  <2> QED BY <1>1, <1>3, <1>4, <1>5, <2>1, <2>2, FlowStep
<1> QED BY <1>1, <1>5, FlowErrs

\* A settled unit is told of as it was read, after the run that was looked at.
LEMMA PollKeeps ==
    ASSUME ActsInv, NEW f \in Flows, Poll(f)
    PROVE  ActsInv'
<1> DEFINE s == settled(flow[f].verb, flow[f].before, Now)
           w == [flow[f] EXCEPT !.step = "told", !.result = s, !.seen = Now]
<1>1. /\ UNCHANGED << policy, svWatched, unit >> /\ flow[f].step = "poll" /\ s # "no"
      /\ FlowGoes(f, toldOf(flow[f], s, Now))
  BY DEF Poll
<1>2. flow[f] \in FlowRecords /\ Looked(flow[f], unit.inv)
  BY DEF ActsInv, SvTypes
<1>3. Now \in UnitReads /\ Now.inv = unit.inv /\ unit.inv \in Nat
  BY DEF Now, UnitReads, ActsInv, SvTypes
<1>4. \/ s = "ok" /\ flow[f].verb = "stop" /\ down(Now.act)
      \/ s = "ok" /\ flow[f].verb = "start" /\ Now.act = "active"
      \/ s = "ok" /\ flow[f].verb = "restart" /\ Now.act = "active" /\ (Now.inv = 0 \/ Now.inv # flow[f].before.inv)
      \/ s = "failed" /\ (Now.inv = 0 \/ Now.inv # flow[f].before.inv)
  BY <1>1 DEF settled
<1> HIDE DEF s
<1>5. FlowGoes(f, w)
  BY <1>1, <1>4 DEF toldOf
<1>6. /\ w \in FlowRecords /\ w.step = "told" /\ w.item = flow[f].item /\ w.verb = flow[f].verb
      /\ w.before = flow[f].before /\ w.looked = flow[f].looked /\ w.result = s /\ w.seen = Now
  BY <1>2, <1>3, <1>4 DEF FlowRecords, Steps
<1> HIDE DEF w
<1>7. flow[f].before.inv # -1 => Now.inv >= flow[f].looked /\ flow[f].before.inv = flow[f].looked
  BY <1>1, <1>2, <1>3 DEF Looked
<1>8. TrueReceipt(w)
  <2>1. flow[f].looked \in Nat \cup { -1 }
    BY <1>2 DEF FlowRecords
  <2>2. w.result = "ok" => IF w.verb = "stop" THEN down(w.seen.act) ELSE w.seen.act = "active"
    BY <1>4, <1>6
  <2>3. w.looked # 0 /\ w.before.inv # -1 /\ (w.result = "failed" \/ (w.result = "ok" /\ w.verb = "restart")) => w.seen.inv > w.looked
    BY <1>3, <1>4, <1>6, <1>7, <2>1
  <2> QED BY <2>2, <2>3 DEF TrueReceipt
<1>9. Asked(w) /\ Looked(w, unit.inv) /\ ~ Works(w)
  BY <1>6 DEF Asked, Looked, Works
<1> QED BY <1>1, <1>5, <1>6, <1>8, <1>9, FlowStep DEF ActsInv, SvTypes

\* Docker's answer is about a container.
LEMMA PostKeeps ==
    ASSUME ActsInv, NEW f \in Flows, Post(f)
    PROVE  ActsInv'
<1> DEFINE w == [flow[f] EXCEPT !.step = "told", !.result = "ok", !.seen = Now]
<1>1. /\ UNCHANGED << policy, svWatched, unit >> /\ flow[f].step = "post"
      /\ \/ FlowGoes(f, toldOf(flow[f], "ok", Now)) \/ FlowGoes(f, toldOf(flow[f], "error", Now))
  BY DEF Post
<1>2. flow[f] \in FlowRecords /\ flow[f].item = "web"
  BY <1>1 DEF ActsInv, SvTypes, Asked
<1>3. Now \in UnitReads
  BY DEF Now, UnitReads, ActsInv, SvTypes
<1>4. w \in FlowRecords /\ w.step = "told" /\ w.item = "web"
  BY <1>2, <1>3 DEF FlowRecords, Steps
<1>5. CASE FlowGoes(f, toldOf(flow[f], "ok", Now))
  <2>1. FlowGoes(f, w)
    BY <1>5 DEF toldOf
  <2> HIDE DEF w
  <2>2. Asked(w) /\ Looked(w, unit.inv) /\ TrueReceipt(w) /\ ~ Works(w)
    BY <1>4 DEF Asked, Looked, TrueReceipt, Works
  <2> QED BY <1>1, <1>4, <2>1, <2>2, FlowStep DEF ActsInv, SvTypes
<1> QED BY <1>1, <1>5, FlowErrs

-----------------------------------------------------------------------------
\* Every step keeps the invariant.
LEMMA NextActs == ActsInv /\ [ActionsNext]_svVars => ActsInv'
<1> SUFFICES ASSUME ActsInv, [ActionsNext]_svVars PROVE ActsInv'
  OBVIOUS
<1>1. CASE UNCHANGED svVars
  BY <1>1 DEF svVars, ActsInv, SvTypes, Exclusive, Works, Asked, Looked, TrueReceipt, allowed, down
<1>2. CASE PickUp \/ Settles \/ OtherHand
  BY <1>2, SystemdKeeps, OtherHandKeeps
<1>3. ASSUME NEW f \in Flows, NEW i \in SvItems, NEW v \in Verbs, AskAct(f, i, v) PROVE ActsInv'
  BY <1>3, AskActKeeps
<1>4. ASSUME NEW f \in Flows, YesAct(f) \/ RunFind(f) \/ Before(f) \/ Queue(f) \/ Poll(f) \/ Post(f) PROVE ActsInv'
  BY <1>4, YesActKeeps, RunFindKeeps, BeforeKeeps, QueueKeeps, PollKeeps, PostKeeps
<1>5. ASSUME NEW f \in Flows, NotSettled(f) PROVE ActsInv'
  BY <1>5, FlowErrs DEF NotSettled
<1> QED BY <1>1, <1>2, <1>3, <1>4, <1>5 DEF ActionsNext

\* However many asks, jobs of other hands and failed looks: nothing runs on the
\* agent itself, against the policy, or twice on one item, and sshd is stopped or
\* restarted without a second Yes only when the list at its first Yes failed or did
\* not show it (serviceAction, targetLocks).
THEOREM ActsGuardedCorrect == ActionsSpec => []ActsGuarded
<1>1. ActsInv => ActsGuarded
  BY DEF ActsInv, ActsGuarded, Asked, Exclusive, Working, Works
<1> QED BY <1>1, InitActs, NextActs, PTL DEF ActionsSpec

\* And what a receipt says happened did: in a run begun after the agent looked,
\* where systemd tells runs apart and ActUnit's first read did not fail; on any other
\* host, or after a failed first read, what it says is only the unit's settled
\* state (ActUnit, settled).
THEOREM OutcomeTrueCorrect == ActionsSpec => []OutcomeTrue
<1>1. ActsInv => OutcomeTrue
  BY DEF ActsInv, OutcomeTrue, TrueReceipt
<1> QED BY <1>1, InitActs, NextActs, PTL DEF ActionsSpec

-----------------------------------------------------------------------------
(* Trusted sources and known keys (SshTrust).                              *)

FileRec(S) == [lines : SUBSET S, bad : BOOLEAN, damage : { "none", "unreadable", "cut" }, lost : SUBSET S]
StoreRec(S) == [loaded : BOOLEAN, mem : SUBSET S, bad : BOOLEAN, readOnly : BOOLEAN]

\* Every known key, in memory and on disk, is vouched for.
TrustTypes ==
    /\ files \in [trusted : FileRec(Networks), known : FileRec(vouched)]
    /\ hand \in [trusted : FileRec(Networks), known : FileRec(vouched)]
    /\ store \in [trusted : StoreRec(Networks), known : StoreRec(vouched)]
    /\ told \in [Networks -> { "yes", "no", "unsaved" }]
    /\ matcher = Merged(store.trusted.mem)

\* A file f, what a hand left in it, and the store s read from it.
Agrees(f, h, s) ==
    /\ h.damage = f.damage
    /\ h.bad => f.bad
    /\ h.damage # "none" => f.lines = h.lines
    /\ s.loaded => (s.readOnly <=> f.damage # "none")
    /\ s.loaded /\ ~ s.readOnly => (s.bad <=> f.bad)

StoresAgree ==
    /\ store.trusted.loaded
    /\ Agrees(files.trusted, hand.trusted, store.trusted)
    /\ Agrees(files.known, hand.known, store.known)

\* A claim that a change is saved is about memory and file alike.
ToldRight ==
    \A p \in Networks :
        /\ told[p] = "yes" => p \in store.trusted.mem /\ p \in files.trusted.lines
        /\ told[p] = "no" => p \notin store.trusted.mem /\ p \notin files.trusted.lines
        /\ files.trusted.damage # "none" => told[p] = "unsaved"

\* A login that alerts for another reason than its key has vouched for it.
HandVouched == login # NoLogin /\ ~ login.newKey => login.key \in vouched

\* The inductive invariant.
TrustInv == TrustTypes /\ StoresAgree /\ ToldRight /\ HandVouched

-----------------------------------------------------------------------------
\* What reading a file gives.
LEMMA LoadStoreReads ==
    ASSUME NEW S, NEW f \in FileRec(S)
    PROVE  LET s == LoadStore(f)
           IN  /\ s \in StoreRec(S) /\ s.loaded /\ s.mem \subseteq f.lines
               /\ s.readOnly <=> f.damage # "none"
               /\ ~ s.readOnly => (s.bad <=> f.bad) /\ s.mem = f.lines
  BY DEF FileRec, StoreRec, LoadStore

\* What an edit or a fault may leave of a file: its lines stay, damage is not undone.
LEMMA DamagedKeeps ==
    ASSUME NEW S, NEW f \in FileRec(S), NEW t \in Damaged(f)
    PROVE  t \in FileRec(S) /\ t.lines = f.lines /\ (t.damage = "none" => f.damage = "none")
<1>1. CASE t \in { f, [f EXCEPT !.bad = TRUE], [f EXCEPT !.damage = "unreadable"] }
  BY <1>1 DEF FileRec
<1>2. ASSUME NEW l \in f.lines, t = [f EXCEPT !.damage = "cut", !.lost = { l }]
      PROVE  t \in FileRec(S) /\ t.lines = f.lines /\ (t.damage = "none" => f.damage = "none")
  <2>1. l \in S /\ { l } \in SUBSET S
    BY DEF FileRec
  <2> DEFINE cutOff == { l }
  <2>2. t = [f EXCEPT !.damage = "cut", !.lost = cutOff]
    BY <1>2
  <2>3. cutOff \in SUBSET S
    BY <2>1
  <2> HIDE DEF cutOff
  <2> QED BY <2>2, <2>3 DEF FileRec
<1> QED BY <1>1, <1>2 DEF Damaged

\* A larger set of vouched keys.
LEMMA VouchedGrows ==
    ASSUME NEW S, NEW T, S \subseteq T
    PROVE  FileRec(S) \subseteq FileRec(T) /\ StoreRec(S) \subseteq StoreRec(T)
  BY DEF FileRec, StoreRec

\* At the start the files are empty and nothing was told.
LEMMA InitTrusted == TrustInit => TrustInv
<1> SUFFICES ASSUME TrustInit PROVE TrustInv
  OBVIOUS
<1>1. EmptyFile \in FileRec(Networks) /\ EmptyFile \in FileRec(vouched)
      /\ EmptyFile.lines = {} /\ EmptyFile.damage = "none"
  BY DEF EmptyFile, FileRec
<1>2. LoadStore(EmptyFile) \in StoreRec(Networks) /\ LoadStore(EmptyFile) \in StoreRec(vouched)
      /\ LoadStore(EmptyFile).mem = {} /\ LoadStore(EmptyFile).loaded
      /\ ~ LoadStore(EmptyFile).readOnly /\ (LoadStore(EmptyFile).bad <=> EmptyFile.bad)
  BY <1>1, LoadStoreReads
<1>3. Unloaded \in StoreRec(vouched) /\ ~ Unloaded.loaded
  BY DEF Unloaded, StoreRec
<1>4. /\ files = [trusted |-> EmptyFile, known |-> EmptyFile] /\ hand = files
      /\ store.trusted = LoadStore(EmptyFile) /\ store.known \in { Unloaded, LoadStore(EmptyFile) }
      /\ store = [trusted |-> store.trusted, known |-> store.known]
      /\ matcher = ConfigTrusted /\ login = NoLogin /\ told = [p \in Networks |-> "no"]
  BY DEF TrustInit
<1>5. TrustTypes
  BY <1>1, <1>2, <1>3, <1>4 DEF TrustTypes, Merged
<1>6. StoresAgree
  BY <1>1, <1>2, <1>3, <1>4 DEF StoresAgree, Agrees
<1>7. ToldRight
  BY <1>1, <1>2, <1>4 DEF ToldRight
<1> QED BY <1>4, <1>5, <1>6, <1>7 DEF TrustInv, HandVouched

-----------------------------------------------------------------------------
(* The auth loop.                                                          *)

\* A login that alerts vouches for its key, unless only its key is new.
LEMMA LoginSeenKeeps ==
    ASSUME TrustInv, NEW ip \in Sources, NEW key, NEW root \in BOOLEAN, NEW fails \in BOOLEAN,
           LoginSeen(ip, key, root, fails)
    PROVE  TrustInv'
<1> DEFINE trusted == trustedLogin(ip, root, fails)
           newKey == trusted /\ key # NoKey /\ key \notin store.known.mem
           l == [ip |-> ip, key |-> key, root |-> root, newKey |-> newKey, fails |-> fails]
<1>1. /\ UNCHANGED << files, hand, store, matcher, told >>
      /\ login' = IF trusted /\ ~ newKey THEN NoLogin ELSE [l EXCEPT !.fails = FALSE]
      /\ vouched' = IF trusted THEN vouched ELSE vouched \cup { key }
  BY DEF LoginSeen
<1>2. vouched \subseteq vouched'
  BY <1>1
<1>3. TrustTypes'
  BY <1>1, <1>2, VouchedGrows DEF TrustInv, TrustTypes, Merged
<1>4. StoresAgree' /\ ToldRight'
  BY <1>1 DEF TrustInv, StoresAgree, ToldRight
<1>5. HandVouched'
  <2>1. [l EXCEPT !.fails = FALSE].key = key /\ ([l EXCEPT !.fails = FALSE].newKey <=> newKey)
    BY DEF trustedLogin
  <2> HIDE DEF l
  <2>2. login' # NoLogin /\ ~ login'.newKey => ~ trusted /\ login'.key = key
    BY <1>1, <2>1
  <2> QED BY <1>1, <2>2 DEF HandVouched
<1> QED BY <1>3, <1>4, <1>5 DEF TrustInv

\* What an accepted save writes is what memory holds; a refused one writes nothing.
LEMMA WrittenIs ==
    ASSUME TrustInv, NEW s, NEW ok \in BOOLEAN
    PROVE  /\ Written("trusted", s, ok) =
                 IF ok /\ ~ s.readOnly
                 THEN [files EXCEPT !.trusted = [files.trusted EXCEPT !.lines = s.mem, !.bad = s.bad]] ELSE files
           /\ Written("known", s, ok) =
                 IF ok /\ ~ s.readOnly
                 THEN [files EXCEPT !.known = [files.known EXCEPT !.lines = s.mem, !.bad = s.bad]] ELSE files
  BY DEF TrustInv, TrustTypes, FileRec, Written, save

\* A key is learned when an alert named it or a login that alerted used it.
LEMMA AlertedKeeps ==
    ASSUME TrustInv, NEW pushed \in BOOLEAN, NEW ok \in BOOLEAN, Alerted(pushed, ok)
    PROVE  TrustInv'
<1> DEFINE known == [store.known EXCEPT !.mem = @ \cup { login.key }]
           learns == learnKey(pushed) /\ login.key \notin store.known.mem
<1>1. /\ UNCHANGED << hand, matcher, told >> /\ login' = NoLogin
      /\ vouched' = IF pushed THEN vouched \cup { login.key } ELSE vouched
      /\ store' = IF learns THEN [store EXCEPT !.known = known] ELSE store
      /\ files' = IF learns THEN Written("known", known, ok) ELSE files
      /\ login # NoLogin
  BY DEF Alerted
<1>2. /\ files.trusted \in FileRec(Networks) /\ files.known \in FileRec(vouched)
      /\ store.trusted \in StoreRec(Networks) /\ store.known \in StoreRec(vouched)
  BY DEF TrustInv, TrustTypes
<1>3. vouched \subseteq vouched' /\ (learns => login.key \in vouched' /\ store.known.loaded)
  BY <1>1 DEF learnKey, TrustInv, HandVouched
<1>4. CASE ~ learns
  <2>1. UNCHANGED << files, store >>
    BY <1>1, <1>4
  <2>2. TrustTypes'
    BY <1>1, <1>3, <2>1, VouchedGrows DEF TrustInv, TrustTypes, Merged
  <2> QED BY <1>1, <2>1, <2>2 DEF TrustInv, StoresAgree, ToldRight, HandVouched
<1>5. CASE learns
  <2>1. /\ known \in StoreRec(vouched') /\ known.loaded
        /\ known.readOnly = store.known.readOnly /\ known.bad = store.known.bad
    <3> DEFINE mem == store.known.mem \cup { login.key }
    <3>1. mem \in SUBSET vouched'
      BY <1>2, <1>3, <1>5 DEF StoreRec
    <3>2. known = [store.known EXCEPT !.mem = mem]
      OBVIOUS
    <3> HIDE DEF mem, known, learns
    <3> QED BY <1>2, <1>3, <1>5, <3>1, <3>2 DEF StoreRec
  <2> HIDE DEF known, learns
  <2>2. /\ store'.trusted = store.trusted /\ store'.known = known
        /\ store' \in [trusted : StoreRec(Networks), known : StoreRec(vouched')]
    BY <1>1, <1>2, <1>5, <2>1 DEF TrustInv, TrustTypes
  <2>3. files' = IF ok /\ ~ known.readOnly
                 THEN [files EXCEPT !.known = [files.known EXCEPT !.lines = known.mem, !.bad = known.bad]] ELSE files
    BY <1>1, <1>5, WrittenIs
  <2>4. files'.trusted = files.trusted
        /\ files'.known \in FileRec(vouched') /\ files'.known.damage = files.known.damage
        /\ (ok /\ ~ known.readOnly => files'.known.bad = known.bad)
        /\ (~ (ok /\ ~ known.readOnly) => files' = files)
        /\ files' \in [trusted : FileRec(Networks), known : FileRec(vouched')]
    <3>1. known.mem \in SUBSET vouched' /\ known.bad \in BOOLEAN
      BY <2>1 DEF StoreRec
    <3>2. files.known \in FileRec(vouched')
      BY <1>2, <1>3, VouchedGrows
    <3>3. CASE ok /\ ~ known.readOnly
      <4> DEFINE k == [files.known EXCEPT !.lines = known.mem, !.bad = known.bad]
      <4>1. k \in FileRec(vouched') /\ k.damage = files.known.damage /\ k.bad = known.bad
        BY <3>1, <3>2 DEF FileRec
      <4>2. files' = [files EXCEPT !.known = k]
        BY <2>3, <3>3
      <4> HIDE DEF k
      <4> QED BY <1>2, <3>3, <4>1, <4>2 DEF TrustInv, TrustTypes
    <3>4. CASE ~ (ok /\ ~ known.readOnly)
      BY <1>2, <2>3, <3>2, <3>4 DEF TrustInv, TrustTypes
    <3> QED BY <3>3, <3>4
  <2>5. TrustTypes'
    BY <1>1, <1>3, <2>2, <2>4, VouchedGrows DEF TrustInv, TrustTypes, Merged
  <2>6. StoresAgree'
    <3>1. Agrees(files.known, hand.known, store.known)
      BY DEF TrustInv, StoresAgree
    <3>2. known.bad \in BOOLEAN /\ store.known.loaded
      BY <1>3, <1>5, <2>1 DEF StoreRec
    <3>3. Agrees(files'.known, hand.known, known)
      <4>1. CASE ok /\ ~ known.readOnly
        BY <2>1, <2>4, <3>1, <3>2, <4>1 DEF Agrees
      <4>2. CASE ~ (ok /\ ~ known.readOnly)
        BY <2>1, <2>4, <3>1, <3>2, <4>2 DEF Agrees
      <4> QED BY <4>1, <4>2
    <3> QED BY <1>1, <2>2, <2>4, <3>3 DEF TrustInv, StoresAgree
  <2>7. ToldRight'
    BY <1>1, <2>2, <2>4 DEF TrustInv, ToldRight
  <2> QED BY <1>1, <2>5, <2>6, <2>7 DEF TrustInv, HandVouched
<1> QED BY <1>4, <1>5

-----------------------------------------------------------------------------
(* Trust from the bot.                                                     *)

\* One prefix is trusted or trusted no more, and the reply claims it only when saved.
LEMMA ApplyTrustKeeps ==
    ASSUME TrustInv, NEW p \in Networks, NEW mem \in SUBSET Networks, NEW says \in { "yes", "no" },
           NEW ok \in BOOLEAN,
           ApplyTrust(p, [store.trusted EXCEPT !.mem = mem], says, ok),
           says = "yes" <=> p \in mem,
           \A q \in Networks \ { p } : q \in mem <=> q \in store.trusted.mem,
           UNCHANGED << hand, login, vouched >>
    PROVE  TrustInv'
<1> DEFINE m == [store.trusted EXCEPT !.mem = mem]
           known == IF Merged(m.mem) # {} /\ ~ store.known.loaded THEN LoadStore(files.known) ELSE store.known
           saved == ok /\ ~ m.readOnly
<1>1. /\ files.trusted \in FileRec(Networks) /\ files.known \in FileRec(vouched)
      /\ store.trusted \in StoreRec(Networks) /\ store.known \in StoreRec(vouched)
  BY DEF TrustInv, TrustTypes
<1>2. /\ m \in StoreRec(Networks) /\ m.mem = mem /\ m.loaded = store.trusted.loaded
      /\ m.readOnly = store.trusted.readOnly /\ m.bad = store.trusted.bad
  BY <1>1 DEF StoreRec
<1>3. /\ files' = Written("trusted", m, ok) /\ matcher' = Merged(m.mem)
      /\ store' = [trusted |-> m, known |-> known]
      /\ told' = [told EXCEPT ![p] = IF saved THEN says ELSE "unsaved"]
  BY DEF ApplyTrust, rebuildTrust, save
<1> HIDE DEF m
<1>4. /\ known \in StoreRec(vouched)
      /\ known.loaded => (known.readOnly <=> files.known.damage # "none")
                         /\ (~ known.readOnly => (known.bad <=> files.known.bad))
  BY <1>1, LoadStoreReads DEF TrustInv, StoresAgree, Agrees
<1> HIDE DEF known
<1>5. /\ files'.known = files.known /\ files'.trusted \in FileRec(Networks)
      /\ files'.trusted.damage = files.trusted.damage
      /\ saved => files'.trusted.lines = mem /\ files'.trusted.bad = m.bad
      /\ ~ saved => files' = files
      /\ files' \in [trusted : FileRec(Networks), known : FileRec(vouched)]
  <2>1. files' = IF saved THEN [files EXCEPT !.trusted = [files.trusted EXCEPT !.lines = m.mem, !.bad = m.bad]] ELSE files
    BY <1>3, WrittenIs
  <2>2. CASE saved
    <3> DEFINE t == [files.trusted EXCEPT !.lines = m.mem, !.bad = m.bad]
    <3>1. m.mem \in SUBSET Networks /\ m.bad \in BOOLEAN
      BY <1>2 DEF StoreRec
    <3>2. t \in FileRec(Networks) /\ t.damage = files.trusted.damage /\ t.lines = mem /\ t.bad = m.bad
      BY <1>1, <1>2, <3>1 DEF FileRec
    <3>3. files' = [files EXCEPT !.trusted = t]
      BY <2>1, <2>2
    <3> HIDE DEF t, saved
    <3> QED BY <1>1, <2>2, <3>2, <3>3 DEF TrustInv, TrustTypes
  <2>3. CASE ~ saved
    BY <1>1, <2>1, <2>3 DEF TrustInv, TrustTypes
  <2> QED BY <2>2, <2>3
<1>6. told' \in [Networks -> { "yes", "no", "unsaved" }]
      /\ told'[p] = (IF saved THEN says ELSE "unsaved")
      /\ \A q \in Networks \ { p } : told'[q] = told[q]
  BY <1>3 DEF TrustInv, TrustTypes
<1>7. TrustTypes'
  BY <1>1, <1>2, <1>3, <1>4, <1>5, <1>6 DEF TrustInv, TrustTypes
<1>8. StoresAgree'
  <2>1. Agrees(files.trusted, hand.trusted, store.trusted) /\ Agrees(files.known, hand.known, store.known)
        /\ store.trusted.loaded
    BY DEF TrustInv, StoresAgree
  <2>2. Agrees(files'.trusted, hand.trusted, m)
    <3>1. m.bad \in BOOLEAN
      BY <1>2 DEF StoreRec
    <3>2. CASE saved
      BY <1>2, <1>5, <2>1, <3>1, <3>2 DEF Agrees
    <3>3. CASE ~ saved
      BY <1>2, <1>5, <2>1, <3>3 DEF Agrees
    <3> QED BY <3>2, <3>3
  <2>3. Agrees(files'.known, hand.known, known)
    BY <1>4, <1>5, <2>1 DEF Agrees
  <2> HIDE DEF saved
  <2> QED BY <1>2, <1>3, <2>1, <2>2, <2>3 DEF StoresAgree
<1>9. ToldRight'
  <2>1. ToldRight /\ (store.trusted.readOnly <=> files.trusted.damage # "none")
    BY DEF TrustInv, StoresAgree, Agrees
  <2>2. store'.trusted.mem = mem
    BY <1>2, <1>3
  <2>3. ASSUME NEW q \in Networks, q # p
        PROVE  /\ told'[q] = "yes" => q \in mem /\ q \in files'.trusted.lines
               /\ told'[q] = "no" => q \notin mem /\ q \notin files'.trusted.lines
               /\ files'.trusted.damage # "none" => told'[q] = "unsaved"
    BY <1>5, <1>6, <2>1, <2>3 DEF ToldRight
  <2>4. /\ told'[p] = "yes" => p \in mem /\ p \in files'.trusted.lines
        /\ told'[p] = "no" => p \notin mem /\ p \notin files'.trusted.lines
        /\ files'.trusted.damage # "none" => told'[p] = "unsaved"
    BY <1>2, <1>5, <1>6, <2>1
  <2> QED BY <2>2, <2>3, <2>4 DEF ToldRight
<1> QED BY <1>7, <1>8, <1>9 DEF TrustInv, HandVouched

\* Nothing but the keyboard or the count of faults changes.
LEMMA StillKeeps ==
    ASSUME TrustInv, UNCHANGED << files, hand, store, matcher, login, told, vouched >>
    PROVE  TrustInv'
  BY DEF TrustInv, TrustTypes, StoresAgree, ToldRight, HandVouched, Merged

\* /trust, and a Yes.
LEMMA TrustAddKeeps ==
    ASSUME TrustInv, NEW p \in Networks, NEW ok \in BOOLEAN, trustAdd(p, ok), UNCHANGED << hand, login, vouched >>
    PROVE  TrustInv'
<1> DEFINE mem == store.trusted.mem \cup { p }
<1>1. CASE UNCHANGED << files, store, matcher, told >>
  BY <1>1, StillKeeps
<1>2. CASE ApplyTrust(p, [store.trusted EXCEPT !.mem = @ \cup { p }], "yes", ok)
  <2>1. [store.trusted EXCEPT !.mem = @ \cup { p }] = [store.trusted EXCEPT !.mem = mem]
    OBVIOUS
  <2>2. mem \in SUBSET Networks /\ p \in mem /\ \A q \in Networks \ { p } : q \in mem <=> q \in store.trusted.mem
    BY DEF TrustInv, TrustTypes, StoreRec
  <2> HIDE DEF mem
  <2> QED BY <1>2, <2>1, <2>2, ApplyTrustKeeps
<1> QED BY <1>1, <1>2 DEF trustAdd

\* Trusted no more.
LEMMA TrustRemoveKeeps ==
    ASSUME TrustInv, NEW p \in Networks, NEW ok \in BOOLEAN, trustRemove(p, ok)
    PROVE  TrustInv'
<1> DEFINE mem == store.trusted.mem \ { p }
<1>1. ApplyTrust(p, [store.trusted EXCEPT !.mem = mem], "no", ok) /\ UNCHANGED << hand, login, vouched >>
  BY DEF trustRemove
<1>2. mem \in SUBSET Networks /\ p \notin mem /\ \A q \in Networks \ { p } : q \in mem <=> q \in store.trusted.mem
  BY DEF TrustInv, TrustTypes, StoreRec
<1> HIDE DEF mem
<1> QED BY <1>1, <1>2, ApplyTrustKeeps

-----------------------------------------------------------------------------
\* A restart reads both files again, whatever became of them.
LEMMA TrustRestartKeeps ==
    ASSUME TrustInv, TrustRestart
    PROVE  TrustInv'
<1>1. /\ files.trusted \in FileRec(Networks) /\ files.known \in FileRec(vouched)
  BY DEF TrustInv, TrustTypes
<1>2. PICK t \in Damaged(files.trusted), k \in Damaged(files.known) :
          /\ files' = [trusted |-> t, known |-> k] /\ hand' = files'
          /\ store' = [trusted |-> LoadStore(t),
                       known |-> IF Merged(LoadStore(t).mem) = {} THEN Unloaded ELSE LoadStore(k)]
          /\ matcher' = Merged(LoadStore(t).mem)
          /\ told' = IF t.damage = "none" THEN told ELSE [p \in Networks |-> "unsaved"]
  BY DEF TrustRestart
<1>3. login' = NoLogin /\ UNCHANGED vouched
  BY DEF TrustRestart
<1>4. /\ t \in FileRec(Networks) /\ t.lines = files.trusted.lines
      /\ t.damage = "none" => files.trusted.damage = "none"
      /\ k \in FileRec(vouched)
  BY <1>1, DamagedKeeps
<1> DEFINE s == LoadStore(t)
           known == IF Merged(s.mem) = {} THEN Unloaded ELSE LoadStore(k)
<1>5. /\ s \in StoreRec(Networks) /\ s.loaded /\ s.mem \subseteq t.lines
      /\ s.readOnly <=> t.damage # "none"
      /\ ~ s.readOnly => (s.bad <=> t.bad) /\ s.mem = t.lines
  BY <1>4, LoadStoreReads
<1>6. /\ known \in StoreRec(vouched)
      /\ known.loaded => (known.readOnly <=> k.damage # "none") /\ (~ known.readOnly => (known.bad <=> k.bad))
  BY <1>4, LoadStoreReads DEF Unloaded, StoreRec
<1>7. store' = [trusted |-> s, known |-> known] /\ matcher' = Merged(s.mem)
  BY <1>2
<1> HIDE DEF s, known
<1>8. TrustTypes'
  BY <1>2, <1>3, <1>4, <1>5, <1>6, <1>7 DEF TrustInv, TrustTypes
<1>9. StoresAgree'
  BY <1>2, <1>5, <1>6, <1>7 DEF StoresAgree, Agrees
<1>10. ToldRight'
  <2>1. CASE t.damage = "none"
    BY <1>2, <1>4, <1>5, <1>7, <2>1 DEF TrustInv, ToldRight
  <2>2. CASE t.damage # "none"
    BY <1>2, <1>7, <2>2 DEF ToldRight
  <2> QED BY <2>1, <2>2
<1> QED BY <1>3, <1>8, <1>9, <1>10 DEF TrustInv, HandVouched

\* Every step keeps the invariant.
LEMMA NextTrusted == TrustInv /\ [TrustNext]_trustVars => TrustInv'
<1> SUFFICES ASSUME TrustInv, [TrustNext]_trustVars PROVE TrustInv'
  OBVIOUS
<1>1. CASE UNCHANGED trustVars \/ AskTrust \/ CancelTrust
  BY <1>1, StillKeeps DEF trustVars, AskTrust, CancelTrust
<1>2. ASSUME NEW ip \in Sources, NEW key \in Keys \cup { NoKey }, NEW root \in BOOLEAN, NEW fails \in BOOLEAN,
             LoginSeen(ip, key, root, fails)
      PROVE  TrustInv'
  BY <1>2, LoginSeenKeeps
<1>3. ASSUME NEW pushed \in BOOLEAN, NEW ok \in BOOLEAN, Alerted(pushed, ok) PROVE TrustInv'
  BY <1>3, AlertedKeeps
<1>4. ASSUME NEW ok \in BOOLEAN, YesTrust(ok) PROVE TrustInv'
  <2>1. "a" \in Networks
    BY DEF Networks, Covers
  <2> QED BY <1>4, <2>1, TrustAddKeeps DEF YesTrust
<1>5. ASSUME NEW p \in Networks, NEW ok \in BOOLEAN, Trust(p, ok) \/ trustRemove(p, ok) PROVE TrustInv'
  BY <1>5, TrustAddKeeps, TrustRemoveKeeps DEF Trust
<1>6. CASE TrustRestart
  BY <1>6, TrustRestartKeeps
<1> QED BY <1>1, <1>2, <1>3, <1>4, <1>5, <1>6 DEF TrustNext

\* What the bot said is saved holds, and what it could not read it never overwrites
\* (trustAdd, trustRemove, save).
THEOREM StoresKeptCorrect == TrustSpec => []StoresKept
<1>1. TrustInv => StoresKept
  <2> SUFFICES ASSUME TrustInv PROVE StoresKept
    OBVIOUS
  <2>1. \A p \in Networks : /\ told[p] = "yes" => p \in matcher
                            /\ told[p] = "no" => p \notin store.trusted.mem
    BY DEF TrustInv, TrustTypes, ToldRight, Merged
  <2>2. Agrees(files.trusted, hand.trusted, store.trusted) /\ Agrees(files.known, hand.known, store.known)
    BY DEF TrustInv, StoresAgree
  <2> QED BY <2>1, <2>2 DEF StoresKept, Agrees
<1> QED BY <1>1, InitTrusted, NextTrusted, PTL DEF TrustSpec

\* A login that passes in silence is vouched for (handleAuthLine, trustedLogin).
THEOREM SilentVouchedCorrect == TrustSpec => SilentVouched
<1> DEFINE Fine ==
        last'.n # last.n /\ last'.l # NoLogin =>
            /\ ~ last'.l.root /\ ~ last'.l.fails
            /\ \E p \in Networks : /\ last'.l.ip \in Covers[p]
                                   /\ p \in ConfigTrusted \/ told[p] # "no"
            /\ last'.l.key \in vouched \cup { NoKey }
<1>1. TrustInv /\ [TrustNext]_trustVars => [Fine]_trustVars
  <2> SUFFICES ASSUME TrustInv, TrustNext, last'.n # last.n, last'.l # NoLogin PROVE Fine
    OBVIOUS
  <2>1. PICK ip \in Sources, key \in Keys \cup { NoKey }, root \in BOOLEAN, fails \in BOOLEAN :
            LoginSeen(ip, key, root, fails)
    BY DEF TrustNext, AskTrust, CancelTrust, YesTrust, Alerted, Trust, trustRemove, TrustRestart
  <2> DEFINE trusted == trustedLogin(ip, root, fails)
             newKey == trusted /\ key # NoKey /\ key \notin store.known.mem
             l == [ip |-> ip, key |-> key, root |-> root, newKey |-> newKey, fails |-> fails]
  <2>2. last' = [n |-> last.n + 1, l |-> IF trusted /\ ~ newKey THEN l ELSE NoLogin]
    BY <2>1 DEF LoginSeen
  <2>3. trusted /\ ~ newKey /\ last'.l = l
    BY <2>2
  <2>4. ~ root /\ ~ fails /\ \E p \in matcher : ip \in Covers[p]
    BY <2>3 DEF trustedLogin, MatchTrusted
  <2>5. PICK p \in matcher : ip \in Covers[p]
    BY <2>4
  <2>6. p \in Networks /\ (p \in ConfigTrusted \/ told[p] # "no")
    BY <2>5, ConfigAssumption DEF TrustInv, TrustTypes, StoreRec, Merged, ToldRight
  <2>7. key \in vouched \cup { NoKey }
    BY <2>3 DEF TrustInv, TrustTypes, StoreRec
  <2>8. last'.l.ip = ip /\ last'.l.key = key /\ last'.l.root = root /\ last'.l.fails = fails
    BY <2>3
  <2> HIDE DEF l, trusted, newKey
  <2> QED BY <2>4, <2>5, <2>6, <2>7, <2>8
<1>2. (TrustSpec => []TrustInv) /\ (TrustSpec => [][TrustNext]_trustVars)
  BY InitTrusted, NextTrusted, PTL DEF TrustSpec
<1> QED BY <1>1, <1>2, PTL DEF SilentVouched

-----------------------------------------------------------------------------
(* Watch lists (WatchLists).                                               *)

WatchSpec == WatchInit /\ [][WatchNext]_watchVars

\* Configurations are records of both; what is claimed of an item is true of
\* memory and of the file, which then agree on it.
ToldInv ==
    /\ cfg = [items |-> cfg.items, thr |-> cfg.thr]
    /\ config = [items |-> config.items, thr |-> config.thr]
    /\ said \in [WatchItems \cup { NoItem } -> { "", "in", "out" }]
    /\ \A i \in WatchItems : said[i] # "" => /\ i \in cfg.items <=> said[i] = "in"
                                             /\ i \in config.items <=> said[i] = "in"
    /\ said[NoItem] # "" => config.thr = cfg.thr

\* A change of one field of the configuration leaves the other.
LEMMA OneField ==
    ASSUME NEW c, c = [items |-> c.items, thr |-> c.thr], NEW i, NEW v
    PROVE  /\ [c EXCEPT !.items = @ \cup { i }] = [items |-> c.items \cup { i }, thr |-> c.thr]
           /\ [c EXCEPT !.items = @ \ { i }] = [items |-> c.items \ { i }, thr |-> c.thr]
           /\ [c EXCEPT !.thr = v] = [items |-> c.items, thr |-> v]
<1> DEFINE S == c.items
           t == c.thr
<1>1. c = [items |-> S, thr |-> t] /\ c.items = S /\ c.thr = t
  OBVIOUS
<1> HIDE DEF S, t
<1> QED BY <1>1, SMT

\* One more item, one less, or another threshold.
LEMMA SavesTold ==
    ASSUME ToldInv, NEW i, NEW claim \in { "", "in", "out" }, NEW S, NEW t,
           \A j : j # i => (j \in S <=> j \in cfg.items),
           t # cfg.thr => i = NoItem,
           i \in WatchItems /\ claim # "" => (i \in S <=> claim = "in"),
           SaveConfig(cfg, [items |-> S, thr |-> t], i, claim)
    PROVE  ToldInv'
<1> DEFINE new == [items |-> S, thr |-> t]
<1>1. cfg' = new /\ (config' = new \/ config' = config)
  BY DEF SaveConfig
<1>2. /\ cfg' = [items |-> cfg'.items, thr |-> cfg'.thr]
      /\ config' = [items |-> config'.items, thr |-> config'.thr]
  BY <1>1 DEF ToldInv
<1>3. CASE config' = new /\ said' = [said EXCEPT ![i] = claim]
  <2>1. said' \in [WatchItems \cup { NoItem } -> { "", "in", "out" }]
    BY <1>3 DEF ToldInv
  <2>2. ASSUME NEW j \in WatchItems, said'[j] # ""
        PROVE  j \in S <=> said'[j] = "in"
    BY <1>3, <2>2 DEF ToldInv
  <2> QED BY <1>1, <1>2, <1>3, <2>1, <2>2 DEF ToldInv
<1>4. CASE said' = [said EXCEPT ![i] = ""] /\ UNCHANGED config
  <2>1. said' \in [WatchItems \cup { NoItem } -> { "", "in", "out" }]
    BY <1>4 DEF ToldInv
  <2>2. ASSUME NEW j \in WatchItems, said'[j] # ""
        PROVE  /\ j \in S <=> said'[j] = "in"
               /\ j \in config.items <=> said'[j] = "in"
    BY <1>4, <2>2 DEF ToldInv
  <2>3. said'[NoItem] # "" => config.thr = t
    BY <1>4 DEF ToldInv
  <2> QED BY <1>1, <1>2, <1>4, <2>1, <2>2, <2>3 DEF ToldInv
<1> QED BY <1>3, <1>4 DEF SaveConfig

\* One more item, or one less, as told.
LEMMA EditsTold ==
    ASSUME ToldInv, NEW i
    PROVE  /\ Watch(i, "in") \/ Watch(i, "") => ToldInv'
           /\ Unwatch(i, "out") \/ Unwatch(i, "") => ToldInv'
           /\ Unchanged => ToldInv'
<1>1. ASSUME NEW claim \in { "", "in" }, Watch(i, claim) PROVE ToldInv'
  <2>1. SaveConfig(cfg, [items |-> cfg.items \cup { i }, thr |-> cfg.thr], i, claim)
    <3>1. [cfg EXCEPT !.items = @ \cup { i }] = [items |-> cfg.items \cup { i }, thr |-> cfg.thr]
      BY OneField DEF ToldInv
    <3> QED BY <1>1, <3>1 DEF Watch
  <2> QED BY <2>1, SavesTold
<1>2. ASSUME NEW claim \in { "", "out" }, Unwatch(i, claim) PROVE ToldInv'
  <2>1. SaveConfig(cfg, [items |-> cfg.items \ { i }, thr |-> cfg.thr], i, claim)
    <3>1. [cfg EXCEPT !.items = @ \ { i }] = [items |-> cfg.items \ { i }, thr |-> cfg.thr]
      BY OneField DEF ToldInv
    <3> QED BY <1>2, <3>1 DEF Unwatch
  <2> QED BY <2>1, SavesTold
<1>3. Unchanged => ToldInv'
  BY DEF Unchanged, ToldInv
<1> QED BY <1>1, <1>2, <1>3

\* Another threshold, as told.
LEMMA ThresholdTold ==
    ASSUME ToldInv, NEW v, SaveConfig(cfg, [cfg EXCEPT !.thr = v], NoItem, "in")
    PROVE  ToldInv'
<1>1. [cfg EXCEPT !.thr = v] = [items |-> cfg.items, thr |-> v]
  BY OneField DEF ToldInv
<1>2. SaveConfig(cfg, [items |-> cfg.items, thr |-> v], NoItem, "in")
  BY <1>1
<1> QED BY <1>2, SavesTold, ItemsAssumption

LEMMA NextTold == ToldInv /\ [WatchNext]_watchVars => ToldInv'
<1> SUFFICES ASSUME ToldInv, [WatchNext]_watchVars
             PROVE  ToldInv'
  OBVIOUS
<1>1. ASSUME NEW i, ButtonOf(i) PROVE ToldInv'
  BY <1>1, EditsTold DEF ButtonOf, watchPress, unwatchPress, legacyAdd, legacyRemove, legacyPort
<1>2. ASSUME NEW v \in ThrValues, thresholdPress(v) PROVE ToldInv'
  BY <1>2, ThresholdTold, EditsTold DEF thresholdPress
<1>3. ASSUME NEW delta \in { -1, 1 }, legacyStep(delta) PROVE ToldInv'
  BY <1>3, ThresholdTold DEF legacyStep
<1>4. ASSUME NEW u, servicesAdd(u) \/ servicesRemove(u) PROVE ToldInv'
  BY <1>4, EditsTold DEF servicesAdd, servicesRemove
<1>5. ASSUME NEW n, portsAdd(n) \/ portsRemove(n) PROVE ToldInv'
  BY <1>5, EditsTold DEF portsAdd, portsRemove
<1>6. ASSUME NEW i, Scan(i) PROVE ToldInv'
  BY <1>6, EditsTold DEF Scan
<1>7. CASE Reload
  BY <1>7 DEF Reload, ToldInv
<1>8. CASE UNCHANGED watchVars
  BY <1>8 DEF watchVars, ToldInv
<1> QED BY <1>1, <1>2, <1>3, <1>4, <1>5, <1>6, <1>7, <1>8 DEF WatchNext

LEMMA InitTold == WatchInit => ToldInv
  BY DEF WatchInit, ToldInv

\* Whatever list is edited by whatever button or command, whichever writes fail
\* and however often the agent restarts, what a reply claimed is in the file
\* (mutateWatch, persist).
THEOREM SavedAsToldCorrect == WatchSpec => []SavedAsTold
<1>1. ToldInv => SavedAsTold
  BY DEF ToldInv, SavedAsTold
<1> QED BY <1>1, InitTold, NextTold, PTL DEF WatchSpec

\* A button of any age changes nothing but the item it was drawn for, for any
\* lists of units and ports (matchWatchItem, watchPress).
THEOREM ButtonMeansItemCorrect == WatchSpec => ButtonMeansItem
<1>1. ASSUME ToldInv, NEW i \in WatchItems, ButtonOf(i)
      PROVE  cfg'.items \ { i } = cfg.items \ { i } /\ cfg'.thr = cfg.thr
  <2>1. CASE \E claim : Watch(i, claim)
    <3>1. cfg' = [cfg EXCEPT !.items = @ \cup { i }]
      BY <2>1 DEF Watch, SaveConfig
    <3>2. cfg' = [items |-> cfg.items \cup { i }, thr |-> cfg.thr]
      BY <1>1, <3>1, OneField DEF ToldInv
    <3> QED BY <3>2
  <2>2. CASE \E claim : Unwatch(i, claim)
    <3>1. cfg' = [cfg EXCEPT !.items = @ \ { i }]
      BY <2>2 DEF Unwatch, SaveConfig
    <3>2. cfg' = [items |-> cfg.items \ { i }, thr |-> cfg.thr]
      BY <1>1, <3>1, OneField DEF ToldInv
    <3> QED BY <3>2
  <2>3. CASE Unchanged
    BY <2>3 DEF Unchanged
  <2>4. \A list, n : matchWatchItem(list, n, i) \in { i, NoItem }
    BY DEF matchWatchItem
  <2>5. (\E claim : Watch(i, claim)) \/ (\E claim : Unwatch(i, claim)) \/ Unchanged
    <3>1. ASSUME NEW n, legacyAdd(n, i) PROVE Watch(i, "") \/ Unchanged
      BY <2>4, <3>1 DEF legacyAdd
    <3>2. ASSUME NEW n, legacyRemove(n, i) PROVE Unwatch(i, "") \/ Unchanged
      BY <2>4, <3>2 DEF legacyRemove
    <3> QED BY <1>1, <3>1, <3>2 DEF ButtonOf, watchPress, unwatchPress, legacyPort
  <2> QED BY <2>1, <2>2, <2>3, <2>5
<1>2. ToldInv => [\A i \in WatchItems : ButtonOf(i) =>
                     cfg'.items \ { i } = cfg.items \ { i } /\ cfg'.thr = cfg.thr]_cfg
  BY <1>1
<1> QED BY <1>2, InitTold, NextTold, PTL DEF WatchSpec, ButtonMeansItem

-----------------------------------------------------------------------------
(* Event loops (EventLoops).                                               *)

EventLoopsSpec == LoopInit /\ [][LoopNext]_loopVars

Containers == [id : Nat, up : BOOLEAN]

LoopTypes ==
    /\ loop \in { "power", "docker", "keys" } /\ looks \in Nat
    /\ lastFired \in [EventKeys -> Nat \cup { -1 }]
    /\ edges \in [last : Int, second : Int, third : Int, gone : BOOLEAN] /\ edges.last <= looks
    /\ loop = "power" => base \in BOOLEAN
    /\ loop = "docker" => base \in Containers /\ fact \in Containers

\* What key k tells of is so in b.
TellsOf(k, b) ==
    \/ k = "power-loss" /\ b = FALSE
    \/ k = "power-restored" /\ b = TRUE
    \/ k = "docker" /\ b.up = FALSE
    \/ k = "docker-up" /\ b.up = TRUE
    \/ k = "keys"

\* A key fired at an edge, and at an earlier one than the last when what it tells of
\* is no longer so: when it is so again, and hushed, two edges lie in the cooldown.
FiredAtEdges ==
    \A k \in EventKeys : lastFired[k] # -1 =>
        /\ seeded /\ lastFired[k] <= edges.last
        /\ ~ TellsOf(k, base) => lastFired[k] <= edges.second

\* The inductive invariant.
LoopInv == LoopTypes /\ FiredAtEdges /\ LastWordTrue

\* At the start nothing was fired, and nothing read.
LEMMA InitLoop == LoopInit => LoopInv
<1> SUFFICES ASSUME LoopInit PROVE LoopInv
  OBVIOUS
<1>1. LoopTypes
  <2>1. LongAgo \in Int /\ LongAgo <= 0
    BY LoopAssumption DEF LongAgo
  <2>2. /\ edges = [last |-> LongAgo, second |-> LongAgo, third |-> LongAgo, gone |-> FALSE]
        /\ looks = 0 /\ lastFired = [k \in EventKeys |-> -1]
    BY DEF LoopInit
  <2> HIDE DEF LongAgo
  <2>3. edges \in [last : Int, second : Int, third : Int, gone : BOOLEAN] /\ edges.last <= looks
    BY <2>1, <2>2
  <2>4. lastFired \in [EventKeys -> Nat \cup { -1 }]
    BY <2>2
  <2>5. loop \in { "power", "docker", "keys" } /\ (loop = "power" => base \in BOOLEAN)
    BY DEF LoopInit
  <2>6. loop = "docker" => base \in Containers /\ fact \in Containers
    <3>1. Gone \in Containers /\ [id |-> 1, up |-> TRUE] \in Containers
      BY DEF Containers, Gone
    <3>2. loop = "docker" => base = Gone /\ fact = [id |-> 1, up |-> TRUE]
      BY DEF LoopInit
    <3> QED BY <3>1, <3>2
  <2>7. looks \in Nat
    BY <2>2
  <2> QED BY <2>3, <2>4, <2>5, <2>6, <2>7 DEF LoopTypes
<1>2. \A k \in EventKeys : lastFired[k] = -1
  BY DEF LoopInit
<1> QED BY <1>1, <1>2 DEF LoopInv, FiredAtEdges, LastWordTrue, LoopInit

\* A read keeps the types of what it does not tell.
LEMMA ReadTypes ==
    ASSUME LoopTypes, NEW which, NEW now, NEW gone \in BOOLEAN, Reads(which, now, gone),
           which = "power" => now \in BOOLEAN, which = "docker" => now \in Containers,
           lastFired' \in [EventKeys -> Nat \cup { -1 }]
    PROVE  LoopTypes'
<1>1. UNCHANGED << loop, looks, fact >> /\ base' = now /\ loop = which
  BY DEF Reads
<1>2. edges' \in [last : Int, second : Int, third : Int, gone : BOOLEAN] /\ edges'.last <= looks
  <2>1. CASE edges' = [last |-> looks, second |-> edges.last, third |-> edges.second, gone |-> gone]
    BY <2>1 DEF LoopTypes
  <2>2. CASE edges' = edges
    BY <2>2 DEF LoopTypes
  <2> QED BY <2>1, <2>2 DEF Reads
<1> QED BY <1>1, <1>2 DEF LoopTypes

\* A read that finds no edge tells nothing.
LEMMA SameKeeps ==
    ASSUME LoopInv, NEW which, NEW gone \in BOOLEAN, Reads(which, base, gone), seeded, Quiet
    PROVE  LoopInv'
<1>1. UNCHANGED << loop, looks, fact, base, edges, lastFired, heard, lost >> /\ seeded' = TRUE
  BY DEF Reads, Quiet
<1>2. LoopTypes'
  BY <1>1 DEF LoopInv, LoopTypes
<1>3. FiredAtEdges'
  BY <1>1 DEF LoopInv, FiredAtEdges, TellsOf
<1>4. LastWordTrue'
  BY <1>1 DEF LoopInv, LastWordTrue, Cooldown
<1> QED BY <1>2, <1>3, <1>4 DEF LoopInv

\* An edge that is no key's: the keys fired at an edge before.
LEMMA OtherEdgeKeeps ==
    ASSUME LoopInv, NEW which, NEW now, NEW gone \in BOOLEAN, Reads(which, now, gone),
           which = "power" => now \in BOOLEAN, which = "docker" => now \in Containers,
           \/ Baseline
           \/ Quiet /\ seeded /\ base # now /\ gone
    PROVE  LoopInv'
<1>1. UNCHANGED << loop, looks, lastFired >> /\ base' = now /\ seeded' = TRUE
  BY DEF Reads, Quiet, Baseline
<1>2. LoopTypes'
  BY <1>1, ReadTypes DEF LoopInv, LoopTypes
<1>3. ASSUME NEW k \in EventKeys, lastFired'[k] # -1
      PROVE  seeded' /\ lastFired'[k] <= edges'.last /\ (~ TellsOf(k, base') => lastFired'[k] <= edges'.second)
  <2>1. /\ seeded /\ lastFired[k] <= edges.last /\ (~ TellsOf(k, base) => lastFired[k] <= edges.second)
        /\ lastFired[k] \in Int
    BY <1>1, <1>3 DEF LoopInv, LoopTypes, FiredAtEdges
  <2>2. CASE base = now
    <3>1. edges' = edges
      BY <2>1, <2>2 DEF Reads
    <3> QED BY <1>1, <2>1, <2>2, <3>1
  <2>3. CASE base # now
    <3>1. edges'.last = looks /\ edges'.second = edges.last
      BY <2>1, <2>3 DEF Reads
    <3>2. edges.last <= looks /\ edges.last \in Int /\ looks \in Nat
      BY DEF LoopInv, LoopTypes
    <3> QED BY <1>1, <2>1, <3>1, <3>2
  <2> QED BY <2>2, <2>3
<1>4. FiredAtEdges'
  BY <1>3 DEF FiredAtEdges, TellsOf
<1>5. LastWordTrue'
  <2>1. CASE Baseline
    BY <2>1 DEF Baseline, LastWordTrue
  <2>2. CASE seeded /\ base # now /\ gone
    BY <2>2 DEF Reads, LastWordTrue
  <2> QED BY <2>1, <2>2
<1> QED BY <1>2, <1>4, <1>5 DEF LoopInv

\* An edge of key k, told, lost or hushed: what k tells of was not so before, unless
\* the key is of every edge.
LEMMA EdgeKeeps ==
    ASSUME LoopInv, NEW which, NEW now, NEW k \in EventKeys, Reads(which, now, FALSE),
           which = "power" => now \in BOOLEAN, which = "docker" => now \in Containers,
           seeded, base # now, Tell(k, now), TellsOf(k, now),
           which # "keys" => ~ TellsOf(k, base)
    PROVE  LoopInv'
<1>1. UNCHANGED << loop, looks >> /\ base' = now /\ seeded' = TRUE /\ loop = which
  BY DEF Reads
<1>2. edges' = [last |-> looks, second |-> edges.last, third |-> edges.second, gone |-> FALSE]
  BY DEF Reads
<1>3. /\ edges'.last = looks /\ edges'.second = edges.last /\ edges'.third = edges.second
  BY <1>2
<1>4. /\ edges.last \in Int /\ edges.second \in Int /\ looks \in Nat /\ edges.last <= looks
      /\ lastFired \in [EventKeys -> Nat \cup { -1 }]
  BY DEF LoopInv, LoopTypes
<1>5. lastFired' = lastFired \/ lastFired' = [lastFired EXCEPT ![k] = looks]
  BY DEF Tell
<1>6. lastFired' \in [EventKeys -> Nat \cup { -1 }]
  BY <1>4, <1>5
<1>7. LoopTypes'
  <2>1. LoopTypes /\ FALSE \in BOOLEAN
    BY DEF LoopInv
  <2> QED BY <1>6, <2>1, ReadTypes
<1>8. ASSUME NEW j \in EventKeys, lastFired'[j] # -1
      PROVE  seeded' /\ lastFired'[j] <= edges'.last /\ (~ TellsOf(j, base') => lastFired'[j] <= edges'.second)
  <2>1. CASE lastFired'[j] = lastFired[j]
    <3>1. lastFired[j] <= edges.last /\ lastFired[j] \in Int
      BY <1>4, <1>8, <2>1 DEF LoopInv, FiredAtEdges
    <3> QED BY <1>1, <1>3, <1>4, <2>1, <3>1
  <2>2. CASE lastFired'[j] # lastFired[j]
    <3>1. j = k /\ lastFired'[j] = looks
      BY <1>4, <1>5, <2>2
    <3>2. TellsOf(j, base')
      BY <1>1, <3>1
    <3> QED BY <1>1, <1>3, <1>4, <3>1, <3>2
  <2> QED BY <2>1, <2>2
<1>9. FiredAtEdges'
  BY <1>8 DEF FiredAtEdges, TellsOf
<1>10. LastWordTrue'
  <2>1. CASE heard' = now
    BY <1>1, <2>1 DEF LastWordTrue
  <2>2. CASE lost' = looks
    BY <1>3, <2>2 DEF LastWordTrue
  <2>3. CASE MayHush(k)
    <3>1. lastFired[k] # -1 /\ looks - lastFired[k] <= Cooldown /\ lastFired[k] \in Int
      BY <1>4, <2>3 DEF MayHush
    <3>2. lastFired[k] <= edges.last /\ (which # "keys" => lastFired[k] <= edges.second)
      BY <3>1 DEF LoopInv, FiredAtEdges
    <3>3. Cooldown \in Int /\ Cooldown' = Cooldown
      BY <1>1, LoopAssumption DEF Cooldown
    <3>4. CASE which = "keys"
      <4>1. edges'.last - edges'.second <= Cooldown
        BY <1>3, <1>4, <3>1, <3>2, <3>3
      <4> QED BY <1>1, <3>3, <3>4, <4>1 DEF LastWordTrue
    <3>5. CASE which # "keys"
      <4>1. edges'.last - edges'.third <= Cooldown
        BY <1>3, <1>4, <3>1, <3>2, <3>3, <3>5
      <4> QED BY <1>1, <3>3, <3>5, <4>1 DEF LastWordTrue
    <3> QED BY <3>4, <3>5
  <2> QED BY <2>1, <2>2, <2>3 DEF Tell
<1> QED BY <1>7, <1>9, <1>10 DEF LoopInv

\* Every step keeps the invariant.
LEMMA NextLoop == LoopInv /\ [LoopNext]_loopVars => LoopInv'
<1> SUFFICES ASSUME LoopInv, [LoopNext]_loopVars
             PROVE  LoopInv'
  OBVIOUS
<1>1. CASE evalPower
  <2> DEFINE now == fact = "on"
             gone == fact = "none"
             key == IF fact = "on" THEN "power-restored" ELSE "power-loss"
  <2>1. loop = "power" /\ Reads("power", now, gone) /\ now \in BOOLEAN /\ gone \in BOOLEAN /\ base \in BOOLEAN
    BY <1>1 DEF evalPower, LoopInv, LoopTypes
  <2>2. \/ Baseline
        \/ seeded /\ Quiet /\ base = now
        \/ seeded /\ Quiet /\ base # now /\ gone
        \/ seeded /\ base # now /\ ~ gone /\ Tell(key, now)
    BY <1>1 DEF evalPower
  <2>3. key \in EventKeys /\ TellsOf(key, now) /\ (base # now => ~ TellsOf(key, base))
    BY <2>1 DEF EventKeys, TellsOf
  <2> HIDE DEF now, gone, key
  <2>4. CASE Baseline \/ (seeded /\ Quiet /\ base # now /\ gone)
    BY <2>1, <2>4, OtherEdgeKeeps
  <2>5. CASE seeded /\ Quiet /\ base = now
    BY <2>1, <2>5, SameKeeps
  <2>6. CASE seeded /\ base # now /\ ~ gone /\ Tell(key, now)
    <3>1. Reads("power", now, FALSE)
      BY <2>1, <2>6
    <3> QED BY <2>1, <2>3, <2>6, <3>1, EdgeKeeps
  <2> QED BY <2>2, <2>4, <2>5, <2>6
<1>2. CASE checkContainers
  <2> DEFINE gone == fact = Gone
             key == IF fact.up THEN "docker-up" ELSE "docker"
  <2>1. loop = "docker" /\ Reads("docker", fact, gone) /\ gone \in BOOLEAN /\ base \in Containers /\ fact \in Containers
    BY <1>2 DEF checkContainers, LoopInv, LoopTypes
  <2>2. \/ Baseline
        \/ seeded /\ Quiet /\ base = fact
        \/ seeded /\ Quiet /\ base # fact /\ gone
        \/ seeded /\ base # fact /\ base.id = fact.id /\ ~ gone /\ Tell(key, fact)
    BY <1>2 DEF checkContainers
  <2>3. key \in EventKeys /\ TellsOf(key, fact)
    BY <2>1 DEF EventKeys, TellsOf, Containers
  <2>4. base # fact /\ base.id = fact.id => ~ TellsOf(key, base)
    BY <2>1 DEF TellsOf, Containers
  <2> HIDE DEF gone, key
  <2>5. CASE Baseline \/ (seeded /\ Quiet /\ base # fact /\ gone)
    BY <2>1, <2>5, OtherEdgeKeeps
  <2>6. CASE seeded /\ Quiet /\ base = fact
    BY <2>1, <2>6, SameKeeps
  <2>7. CASE seeded /\ base # fact /\ base.id = fact.id /\ ~ gone /\ Tell(key, fact)
    <3>1. Reads("docker", fact, FALSE)
      BY <2>1, <2>7
    <3> QED BY <2>1, <2>3, <2>4, <2>7, <3>1, EdgeKeeps
  <2> QED BY <2>2, <2>5, <2>6, <2>7
<1>3. CASE PollKeys
  <2>1. PICK now \in { fact, 0 } :
          /\ Reads("keys", now, FALSE)
          /\ IF ~ seeded THEN Baseline ELSE IF base = now THEN Quiet ELSE Tell("keys", now)
    BY <1>3 DEF PollKeys
  <2>2. "keys" \in EventKeys /\ TellsOf("keys", now) /\ FALSE \in BOOLEAN
    BY DEF EventKeys, TellsOf
  <2>3. CASE Baseline
    BY <2>1, <2>2, <2>3, OtherEdgeKeeps
  <2>4. CASE seeded /\ base = now /\ Quiet
    BY <2>1, <2>2, <2>4, SameKeeps
  <2>5. CASE seeded /\ base # now /\ Tell("keys", now)
    BY <2>1, <2>2, <2>5, EdgeKeeps
  <2> QED BY <2>1, <2>3, <2>4, <2>5
<1>4. ASSUME UNCHANGED << loop, base, seeded, lastFired, heard, edges, lost >>,
             looks' \in Nat /\ looks' >= looks, loop = "docker" => fact' \in Containers
      PROVE  LoopInv'
  <2>1. LoopTypes'
    BY <1>4 DEF LoopInv, LoopTypes
  <2>2. FiredAtEdges'
    BY <1>4 DEF LoopInv, FiredAtEdges, TellsOf
  <2>3. LastWordTrue'
    BY <1>4 DEF LoopInv, LastWordTrue, Cooldown
  <2> QED BY <2>1, <2>2, <2>3 DEF LoopInv
<1>5. looks \in Nat /\ (loop = "docker" => fact \in Containers)
  BY DEF LoopInv, LoopTypes
<1>6. CASE HostMoves
  <2>1. UNCHANGED << loop, looks, base, seeded, lastFired, heard, edges, lost >>
    BY <1>6 DEF HostMoves
  <2>2. ASSUME loop = "docker" PROVE fact' \in Containers
    <3>1. \/ fact' = Gone
          \/ fact' \in { [fact EXCEPT !.up = up] : up \in BOOLEAN }
          \/ fact' = [id |-> 2, up |-> TRUE]
      BY <1>6, <2>2 DEF HostMoves
    <3>2. Gone \in Containers /\ [id |-> 2, up |-> TRUE] \in Containers
      BY DEF Containers, Gone
    <3>3. ASSUME NEW c \in Containers, NEW up \in BOOLEAN PROVE [c EXCEPT !.up = up] \in Containers
      BY DEF Containers
    <3> QED BY <1>5, <2>2, <3>1, <3>2, <3>3
  <2> QED BY <1>4, <1>5, <2>1, <2>2
<1>7. CASE ReadFails \/ LoopTick \/ UNCHANGED loopVars
  BY <1>4, <1>5, <1>7 DEF ReadFails, LoopTick, loopVars
<1> QED BY <1>1, <1>2, <1>3, <1>6, <1>7 DEF LoopNext

\* The chat's last word on what a loop watches is wrong only if the last change's
\* notice was lost, the adapter or container was gone, or the thing flapped within
\* the cooldown: for any cooldown and any number of looks and changes (evalPower,
\* checkContainers, keysLoop, Engine.Event).
THEOREM LastWordTrueCorrect == EventLoopsSpec => []LastWordTrue
<1>1. LoopInv => LastWordTrue
  BY DEF LoopInv
<1> QED BY <1>1, InitLoop, NextLoop, PTL DEF EventLoopsSpec

-----------------------------------------------------------------------------
(* Brute force (BruteDetector).                                            *)

BruteSpec == BruteInit /\ [][BruteNext]_bruteVars

Past(ip) == { i \in DOMAIN all : all[i].ip = ip /\ all[i].t > at - Window }

Attempts == [ip : Scanners, t : Nat]

BruteTypes ==
    /\ at \in Nat /\ attempts \in [Scanners -> SUBSET Nat]
    /\ fired \in [Scanners -> Nat \cup { Never }]
    /\ should.fired \in [Scanners -> Nat \cup { Never }]
    /\ all \in Seq(Attempts)
    /\ \A i \in DOMAIN all : all[i].t <= at

\* What is kept of an address are attempts of its own, those in the window among
\* them.
KeptOwn ==
    \A ip \in Scanners :
        /\ attempts[ip] \subseteq { i \in DOMAIN all : all[i].ip = ip }
        /\ Past(ip) \subseteq attempts[ip]

\* A time an address crossed the threshold is that of an attempt, and what was
\* forgotten of it is as old as the quiet period.
FiredOwn ==
    \A ip \in Scanners :
        /\ should.fired[ip] # Never => \E i \in DOMAIN all : all[i].ip = ip /\ all[i].t = should.fired[ip]
        /\ fired[ip] # should.fired[ip] =>
              fired[ip] = Never /\ at - should.fired[ip] >= Window

BruteInv == BruteTypes /\ KeptOwn /\ FiredOwn /\ alarms = should.alarms

\* The parts of an attempt.
LEMMA AttemptTypes ==
    ASSUME BruteTypes
    PROVE  /\ Len(all) \in Nat /\ DOMAIN all = 1 .. Len(all)
           /\ \A i \in DOMAIN all : all[i].t \in Nat /\ all[i].t <= at
<1>1. \A i \in DOMAIN all : all[i] \in Attempts
  BY DEF BruteTypes
<1> QED BY <1>1 DEF BruteTypes, Attempts

\* What the detector keeps of an address in the window is all there was.
LEMMA WindowSame ==
    ASSUME BruteInv, NEW ip \in Scanners
    PROVE  /\ InWindow(attempts[ip], at) = Past(ip)
           /\ IsFiniteSet(Past(ip)) /\ Cardinality(Past(ip)) \in Nat /\ Past(ip) \subseteq 1 .. Len(all)
<1>1. InWindow(attempts[ip], at) = Past(ip)
  BY DEF BruteInv, KeptOwn, InWindow, Past
<1>2. Past(ip) \subseteq 1 .. Len(all) /\ Len(all) \in Nat
  BY DEF BruteInv, BruteTypes, Past
<1>3. IsFiniteSet(1 .. Len(all))
  BY <1>2, FS_Interval
<1> QED BY <1>1, <1>2, <1>3, FS_Subset, FS_CardinalityType

LEMMA InitBrute == BruteInit => BruteInv
  BY DEF BruteInit, BruteInv, BruteTypes, KeptOwn, FiredOwn, Past, Never

LEMMA NextBrute ==
    ASSUME BruteInv, [BruteNext]_bruteVars
    PROVE  BruteInv'
<1>t. BruteTypes /\ KeptOwn /\ FiredOwn /\ alarms = should.alarms
  BY DEF BruteInv
<1>1. CASE BruteTick
  <2>1. at' = at + 1 /\ at \in Nat /\ UNCHANGED << attempts, fired, all, alarms, should >>
    BY <1>1, <1>t DEF BruteTick, BruteTypes
  <2>a. \A i \in DOMAIN all : all[i].t \in Nat /\ all[i].t <= at
    BY <1>t, AttemptTypes
  <2>2. BruteTypes'
    <3>1. \A i \in DOMAIN all : all[i].t <= at + 1
      BY <2>1, <2>a
    <3> QED BY <1>t, <2>1, <3>1 DEF BruteTypes
  <2>3. KeptOwn'
    <3>1. \A i \in DOMAIN all : all[i].t > at + 1 - Window => all[i].t > at - Window
      BY <2>1, <2>a, BruteAssumption
    <3>2. \A ip \in Scanners : Past(ip)' \subseteq Past(ip)
      <4> SUFFICES ASSUME NEW ip \in Scanners, NEW i \in Past(ip)' PROVE i \in Past(ip)
        OBVIOUS
      <4>1. i \in DOMAIN all /\ all[i].ip = ip /\ all[i].t > at' - Window
        BY <2>1 DEF Past
      <4>2. all[i].t > at + 1 - Window
        BY <2>1, <2>a, <4>1, BruteAssumption
      <4> QED BY <3>1, <4>1, <4>2 DEF Past
    <3> QED BY <1>t, <2>1, <3>2 DEF KeptOwn
  <2>4. FiredOwn'
    BY <1>t, <2>1, BruteAssumption DEF FiredOwn, BruteTypes, Never
  <2> QED BY <1>t, <2>1, <2>2, <2>3, <2>4 DEF BruteInv
<1>2. ASSUME NEW ip \in Scanners, RecordAttempt(ip)
      PROVE  BruteInv'
  <2> DEFINE gone == IF at - lastSweep >= Window THEN prune(at) ELSE {}
             n == Len(all) + 1
             old == IF ip \in gone THEN {} ELSE attempts[ip]
             kept == InWindow(old, at) \cup { n }
             newest == IF ip \in gone THEN Never ELSE fired[ip]
             judged == JudgeAttempt(Cardinality(kept), newest)
             true == JudgeAttempt(Cardinality(Past(ip)) + 1, should.fired[ip])
  <2>1. /\ attempts' = [i \in Scanners |-> IF i = ip THEN kept ELSE IF i \in gone THEN {} ELSE attempts[i]]
        /\ fired' = [i \in Scanners |-> IF i = ip THEN judged.fired ELSE IF i \in gone THEN Never ELSE fired[i]]
        /\ all' = Append(all, [ip |-> ip, t |-> at])
        /\ alarms' = IF judged.alert THEN alarms \cup { [ip |-> ip, n |-> n] } ELSE alarms
        /\ should' = [alarms |-> IF true.alert THEN should.alarms \cup { [ip |-> ip, n |-> n] } ELSE should.alarms,
                      fired |-> [should.fired EXCEPT ![ip] = true.fired]]
        /\ at' = at
    BY <1>2 DEF RecordAttempt, Past
  <2>2. gone \subseteq prune(at)
    OBVIOUS
  <2> HIDE DEF gone
  \* What is forgotten has nothing in the window and is not in its quiet period.
  <2>3. ASSUME NEW i \in Scanners, i \in gone
        PROVE  Past(i) = {} /\ (should.fired[i] # Never => at - should.fired[i] >= Window)
    <3>1. Past(i) = {}
      BY <2>2, <2>3, WindowSame DEF prune
    <3>2. ASSUME should.fired[i] # Never PROVE at - should.fired[i] >= Window
      <4>1. PICK k \in DOMAIN all : all[k].ip = i /\ all[k].t = should.fired[i]
        BY <1>t, <3>2 DEF FiredOwn
      <4>2. ~ (all[k].t > at - Window) /\ all[k].t \in Nat /\ at \in Nat
        <5>1. ~ (all[k].t > at - Window)
          BY <3>1, <4>1 DEF Past
        <5> QED BY <1>t, <5>1, AttemptTypes DEF BruteTypes
      <4> QED BY <4>1, <4>2, BruteAssumption
    <3> QED BY <3>1, <3>2
  <2>4. kept = Past(ip) \cup { n } /\ n \notin Past(ip) /\ n \in Nat /\ DOMAIN all = 1 .. Len(all) /\ Len(all) \in Nat
    <3>1. InWindow(old, at) = Past(ip)
      <4>1. CASE ip \in gone
        BY <2>3, <4>1 DEF InWindow
      <4>2. CASE ip \notin gone
        BY <4>2, WindowSame
      <4> QED BY <4>1, <4>2
    <3>2. Past(ip) \subseteq 1 .. Len(all) /\ Len(all) \in Nat /\ DOMAIN all = 1 .. Len(all)
      BY <1>t, WindowSame DEF BruteTypes
    <3> QED BY <3>1, <3>2
  <2>5. Cardinality(kept) = Cardinality(Past(ip)) + 1 /\ Cardinality(kept) \in Nat
    <3>1. IsFiniteSet(Past(ip)) /\ Cardinality(Past(ip)) \in Nat
      BY WindowSame
    <3>2. Cardinality(Past(ip) \cup { n }) = Cardinality(Past(ip)) + 1
      BY <2>4, <3>1, FS_AddElement
    <3>3. kept = Past(ip) \cup { n }
      BY <2>4
    <3> HIDE DEF kept, n
    <3> QED BY <3>1, <3>2, <3>3
  <2>6. /\ newest \in Nat \cup { Never } /\ should.fired[ip] \in Nat \cup { Never }
        /\ newest # should.fired[ip] => newest = Never /\ at - should.fired[ip] >= Window
    BY <1>t, <2>3 DEF FiredOwn, BruteTypes, Never
  <2> DEFINE c == Cardinality(kept)
  <2>7. judged = JudgeAttempt(c, newest) /\ true = JudgeAttempt(c, should.fired[ip]) /\ c \in Nat
    BY <2>5
  <2> HIDE DEF kept, newest, judged, true, c
  <2>8. /\ judged.alert = true.alert
        /\ true.fired \in Nat \cup { Never }
        /\ true.fired # Never => true.fired = at \/ true.fired = should.fired[ip]
        /\ judged.fired \in Nat \cup { Never }
        /\ judged.fired # true.fired => judged.fired = Never /\ at - true.fired >= Window
    <3>1. at \in Nat
      BY <1>t DEF BruteTypes
    <3>2. CASE c < Threshold
      <4>0. c < Threshold /\ ~ (c >= Threshold)
        BY <2>7, <3>2, BruteAssumption
      <4>1. \A l : JudgeAttempt(c, l) = [alert |-> FALSE, fired |-> l]
        BY <4>0, Zenon DEF JudgeAttempt
      <4>2. judged = [alert |-> FALSE, fired |-> newest] /\ true = [alert |-> FALSE, fired |-> should.fired[ip]]
        BY <2>7, <4>1
      <4> QED BY <2>6, <3>1, <4>2
    <3>3. CASE c >= Threshold
      BY <2>6, <2>7, <3>1, <3>3, BruteAssumption DEF JudgeAttempt, Never
    <3> QED BY <2>7, <3>2, <3>3, BruteAssumption
  <2>9a. [ip |-> ip, t |-> at] \in Attempts
    BY <1>t DEF BruteTypes, Attempts
  <2>9. /\ all' \in Seq(Attempts) /\ DOMAIN all' = 1 .. n
        /\ \A i \in 1 .. n : IF i = n THEN all'[i] = [ip |-> ip, t |-> at] ELSE all'[i] = all[i]
        /\ at \in Nat
    <3> DEFINE e == [ip |-> ip, t |-> at]
    <3>1. e \in Attempts /\ all \in Seq(Attempts) /\ all' = Append(all, e) /\ at \in Nat
      BY <1>t, <2>1, <2>9a DEF BruteTypes
    <3> HIDE DEF e
    <3>2. all' \in Seq(Attempts) /\ DOMAIN all' = 1 .. n
      BY <3>1
    <3>3. \A i \in 1 .. n : IF i = n THEN all'[i] = e ELSE all'[i] = all[i]
      BY <2>4, <3>1
    <3> QED BY <3>1, <3>2, <3>3 DEF e
  <2> DEFINE sf == should.fired
             sf2 == should'.fired
  <2>10. /\ sf2 = [sf EXCEPT ![ip] = true.fired] /\ sf2 \in [Scanners -> Nat \cup { Never }]
         /\ sf \in [Scanners -> Nat \cup { Never }]
    BY <1>t, <2>1, <2>8 DEF BruteTypes
  <2>11. BruteTypes'
    <3>1. attempts' \in [Scanners -> SUBSET Nat]
      <4>1. kept \in SUBSET Nat
        <5>1. \A k \in 1 .. Len(all) : k \in Nat
          OBVIOUS
        <5> QED BY <2>4, <5>1, WindowSame
      <4> QED BY <1>t, <2>1, <4>1 DEF BruteTypes
    <3>2. fired' \in [Scanners -> Nat \cup { Never }]
      BY <1>t, <2>1, <2>8 DEF BruteTypes
    <3>3. \A i \in DOMAIN all' : all'[i].t <= at
      BY <1>t, <2>4, <2>9 DEF BruteTypes
    <3> QED BY <2>1, <2>9, <2>10, <3>1, <3>2, <3>3 DEF BruteTypes
  <2>12. \A i \in Scanners : Past(i)' = IF i = ip /\ Window > 0 THEN Past(i) \cup { n } ELSE Past(i)
    BY <1>t, <2>1, <2>4, <2>9, BruteAssumption DEF Past, BruteTypes
  <2>13. KeptOwn'
    <3> SUFFICES ASSUME NEW i \in Scanners
                 PROVE  /\ attempts'[i] \subseteq { k \in DOMAIN all' : all'[k].ip = i }
                        /\ Past(i)' \subseteq attempts'[i]
      BY DEF KeptOwn
    <3>1. CASE i = ip
      <4>1. attempts'[i] = Past(ip) \cup { n }
        BY <2>1, <2>4, <3>1
      <4> QED BY <2>4, <2>9, <2>12, <3>1, <4>1 DEF Past
    <3>2. CASE i # ip
      <4>1. attempts'[i] = IF i \in gone THEN {} ELSE attempts[i]
        BY <2>1, <3>2
      <4> QED BY <1>t, <2>3, <2>4, <2>9, <2>12, <3>2, <4>1 DEF KeptOwn
    <3> QED BY <3>1, <3>2
  <2>14. FiredOwn'
    <3> SUFFICES ASSUME NEW i \in Scanners
                 PROVE  /\ sf2[i] # Never => \E k \in DOMAIN all' : all'[k].ip = i /\ all'[k].t = sf2[i]
                        /\ fired'[i] # sf2[i] => fired'[i] = Never /\ at - sf2[i] >= Window
      BY <2>1 DEF FiredOwn
    <3>1. CASE i = ip
      <4>1. sf2[i] = true.fired /\ fired'[i] = judged.fired
        BY <2>1, <2>10, <3>1
      <4>2. sf2[i] # Never => \E k \in DOMAIN all' : all'[k].ip = i /\ all'[k].t = sf2[i]
        <5>1. CASE true.fired = at
          <6>1. n \in DOMAIN all' /\ all'[n].ip = i /\ all'[n].t = at
            BY <2>4, <2>9, <3>1
          <6> QED BY <4>1, <5>1, <6>1
        <5>2. CASE true.fired = should.fired[ip]
          BY <1>t, <2>4, <2>9, <3>1, <4>1, <5>2 DEF FiredOwn
        <5> QED BY <2>8, <4>1, <5>1, <5>2
      <4> QED BY <2>8, <4>1, <4>2
    <3>2. CASE i # ip
      <4>1. sf2[i] = sf[i] /\ fired'[i] = (IF i \in gone THEN Never ELSE fired[i])
        BY <2>1, <2>10, <3>2
      <4>2. sf[i] # Never => \E k \in DOMAIN all' : all'[k].ip = i /\ all'[k].t = sf[i]
        BY <1>t, <2>4, <2>9 DEF FiredOwn
      <4>3. (IF i \in gone THEN Never ELSE fired[i]) # sf[i]
               => (IF i \in gone THEN Never ELSE fired[i]) = Never /\ at - sf[i] >= Window
        BY <1>t, <2>3 DEF FiredOwn
      <4> QED BY <4>1, <4>2, <4>3
    <3> QED BY <3>1, <3>2
  <2>15. alarms' = should'.alarms
    BY <1>t, <2>1, <2>8
  <2> QED BY <2>11, <2>13, <2>14, <2>15 DEF BruteInv
<1>3. CASE UNCHANGED bruteVars
  BY <1>3, <1>t DEF bruteVars, BruteInv, BruteTypes, KeptOwn, FiredOwn, Past
<1> QED BY <1>1, <1>2, <1>3 DEF BruteNext

\* PruneHarmless: forgetting addresses changes no alert and no count
\* (BruteDetector.Record, prune).
THEOREM PruneHarmlessCorrect == BruteSpec => []PruneHarmless
<1>1. ASSUME BruteInv PROVE PruneHarmless
  BY <1>1, WindowSame DEF PruneHarmless, Count, Past, BruteInv
<1> QED BY <1>1, InitBrute, NextBrute, PTL DEF BruteSpec

-----------------------------------------------------------------------------
(* Reading the firewall (FwDetect).                                        *)

DetectSpec == DetectInit /\ [][DetectNext]_detectVars

Readings == [step : { "none", "ufw", "verbose", "state", "probe", "plain", "done", "change" },
             for : { "none", "screen", "press" }, ufw : States, fwd : BOOLEAN,
             kind : { "", "ufw", "firewalld", "nftables", "iptables" },
             b : { "none", "ufw", "firewalld" }, p : States, conflict : BOOLEAN]

\* What a reading found was there at some time since it began, and a change goes
\* on only with the one manager found.
Witnessed ==
    /\ reading.step # "none" => Enforcing \subseteq enforced
    /\ reading.step # "none" /\ reading.ufw \in Managed => "ufw" \in enforced
    /\ reading.fwd => "firewalld" \in enforced
    /\ reading.b = "ufw" => reading.ufw \in Managed /\ reading.conflict = reading.fwd
    /\ reading.b = "firewalld" => reading.fwd
    /\ reading.b = "none" /\ reading.step \in { "plain", "done" } => reading.ufw \notin Managed
    /\ reading.step \in { "ufw", "verbose", "state", "plain" } => reading.b = "none"
    /\ reading.step = "probe" => reading.b = "firewalld"
    /\ reading.step = "change" => reading.b # "none" /\ ~ reading.conflict

DetectInv ==
    /\ host \in [ufw : States, fwd : States, plain : { "", "nftables", "iptables" }]
    /\ reading \in Readings
    /\ offered.found \in Readings /\ offered.buttons = firewallFor(offered.found)
    /\ Witnessed

\* A screen has buttons exactly when the action path would accept what it shows.
LEMMA OfferedAccepted ==
    ASSUME NEW f \in Readings
    PROVE  firewallFor(f) # { } <=> refusal(f) = ""
<1> DEFINE p == IF f.b = "none" THEN f.ufw ELSE f.p
<1>1. p \in States /\ f.ufw \in States /\ f.p \in States
  BY DEF Readings
<1>2. probeRefusal(p) = "" <=> p \in Managed
  BY <1>1 DEF probeRefusal, States, Managed
<1>3. refusal(f) = "" <=> ~ f.conflict /\ f.kind \notin { "nftables", "iptables" } /\ probeRefusal(p) = ""
  <2>1. CASE f.conflict
    BY <2>1 DEF refusal
  <2>2. CASE ~ f.conflict /\ f.kind \in { "nftables", "iptables" }
    BY <2>2 DEF refusal
  <2>3. CASE ~ f.conflict /\ f.kind \notin { "nftables", "iptables" } /\ f.b = "none"
    <3>1. refusal(f) = probeRefusal(p)
      BY <2>3 DEF refusal
    <3> QED BY <2>3, <3>1
  <2>4. CASE ~ f.conflict /\ f.kind \notin { "nftables", "iptables" } /\ f.b # "none"
    <3>1. refusal(f) = probeRefusal(p)
      BY <2>4 DEF refusal
    <3> QED BY <2>4, <3>1
  <2> QED BY <2>1, <2>2, <2>3, <2>4
<1>4. firewallFor(f) # { } <=> ~ f.conflict /\ f.kind \notin { "nftables", "iptables" } /\ p \in Managed
  BY DEF firewallFor, manageable
<1> QED BY <1>2, <1>3, <1>4

LEMMA InitDetect == DetectInit => DetectInv
<1> SUFFICES ASSUME DetectInit PROVE DetectInv
  OBVIOUS
<1>1. NoReading \in Readings
  BY DEF NoReading, Readings, States, Managed
<1>2. firewallFor(NoReading) = { }
  BY DEF firewallFor, NoReading, manageable, Managed
<1> QED BY <1>1, <1>2 DEF DetectInit, DetectInv, NoScreen, NoReading, Witnessed, States, Managed

LEMMA NextDetect ==
    ASSUME DetectInv, [DetectNext]_detectVars
    PROVE  DetectInv'
<1>1. CASE HostChanges
  <2>1. host' \in [ufw : States, fwd : States, plain : { "", "nftables", "iptables" }]
    BY <1>1 DEF HostChanges, DetectInv
  <2>2. UNCHANGED << reading, offered >> /\ enforced' = enforced \cup Enforcing'
    BY <1>1 DEF HostChanges
  <2> QED BY <2>1, <2>2 DEF DetectInv, Witnessed
<1>2. ASSUME NEW for \in { "screen", "press" }, Begin(for) PROVE DetectInv'
  <2>1. reading' \in Readings
    BY <1>2 DEF Begin, NoReading, Readings, States, Managed
  <2> QED BY <1>2, <2>1 DEF Begin, DetectInv, Witnessed, NoReading, Enforcing, States, Managed
<1>3. ASSUME NEW from, NEW r \in Readings, Step(from, r), Witnessed' PROVE DetectInv'
  BY <1>3 DEF Step, DetectInv
<1>a. ASSUME UNCHANGED host PROVE Enforcing' = Enforcing
  BY <1>a DEF Enforcing
<1>b. host.ufw \in Managed => "ufw" \in Enforcing
  BY DEF Enforcing
<1>4. CASE probeUFW
  <2> DEFINE r == [reading EXCEPT !.ufw = host.ufw, !.step = IF manageable(host.ufw) THEN "verbose" ELSE "state"]
  <2>1. r \in Readings /\ reading \in Readings
    BY DEF DetectInv, Readings
  <2>2. Step("ufw", r)
    BY <1>4 DEF probeUFW
  <2>3. /\ r.ufw = host.ufw /\ r.step \in { "verbose", "state" } /\ r.fwd = reading.fwd
        /\ r.b = reading.b /\ r.conflict = reading.conflict
    BY <2>1 DEF Readings
  <2> HIDE DEF r
  <2>5. reading.step = "ufw" /\ reading' = r /\ enforced' = enforced /\ Enforcing' = Enforcing
    BY <2>2, <1>a DEF Step
  <2>6. Witnessed
    BY DEF DetectInv
  <2>4. Witnessed'
    BY <1>b, <2>3, <2>5, <2>6 DEF Witnessed
  <2> QED BY <1>3, <2>1, <2>2, <2>4
<1>5. CASE probeUFWVerbose
  <2> DEFINE r == [reading EXCEPT !.step = "state", !.ufw = IF manageable(host.ufw) THEN host.ufw ELSE @]
  <2>1. r \in Readings /\ reading \in Readings
    BY DEF DetectInv, Readings
  <2>2. Step("verbose", r)
    BY <1>5 DEF probeUFWVerbose
  <2>3. /\ r.ufw = (IF host.ufw \in Managed THEN host.ufw ELSE reading.ufw) /\ r.step = "state"
        /\ r.fwd = reading.fwd /\ r.b = reading.b /\ r.conflict = reading.conflict
    BY <2>1 DEF Readings, manageable
  <2> HIDE DEF r
  <2>4. Witnessed'
    BY <1>a, <1>b, <2>2, <2>3 DEF Step, Witnessed, DetectInv
  <2> QED BY <1>3, <2>1, <2>2, <2>4
<1>6. CASE firewalldRunning
  <2> DEFINE fwd == "firewalld" \in Enforcing
             d == [reading EXCEPT !.fwd = fwd]
             r == CASE manageable(d.ufw) -> [d EXCEPT !.step = "done", !.kind = "ufw", !.b = "ufw",
                                                      !.p = d.ufw, !.conflict = fwd]
                    [] ~ manageable(d.ufw) /\ fwd -> [d EXCEPT !.step = "probe", !.kind = "firewalld",
                                                               !.b = "firewalld"]
                    [] OTHER -> [d EXCEPT !.step = "plain"]
  <2>0. reading \in Readings
    BY DEF DetectInv
  <2>1. d \in Readings /\ d.ufw = reading.ufw /\ d.fwd = fwd /\ d.b = reading.b /\ d.conflict = reading.conflict
    <3>1. fwd \in BOOLEAN
      OBVIOUS
    <3> HIDE DEF fwd
    <3> QED BY <2>0, <3>1 DEF Readings
  <2>2. Step("state", r)
    BY <1>6 DEF firewalldRunning
  <2>3. /\ r \in Readings /\ r.ufw = reading.ufw /\ r.fwd = fwd
        /\ \/ reading.ufw \in Managed /\ r.step = "done" /\ r.b = "ufw" /\ r.conflict = fwd
           \/ reading.ufw \notin Managed /\ fwd /\ r.step = "probe" /\ r.b = "firewalld"
           \/ reading.ufw \notin Managed /\ r.step = "plain" /\ r.b = reading.b /\ r.conflict = reading.conflict
    <3> HIDE DEF d, fwd
    <3>1. CASE reading.ufw \in Managed
      <4>1. r = [d EXCEPT !.step = "done", !.kind = "ufw", !.b = "ufw", !.p = d.ufw, !.conflict = fwd]
        BY <2>1, <3>1 DEF manageable
      <4> HIDE DEF r
      <4>2. fwd \in BOOLEAN
        BY DEF fwd
      <4> QED BY <2>1, <3>1, <4>1, <4>2 DEF Readings
    <3>2. CASE reading.ufw \notin Managed /\ fwd
      <4>1. r = [d EXCEPT !.step = "probe", !.kind = "firewalld", !.b = "firewalld"]
        BY <2>1, <3>2 DEF manageable
      <4> HIDE DEF r
      <4> QED BY <2>1, <3>2, <4>1 DEF Readings
    <3>3. CASE reading.ufw \notin Managed /\ ~ fwd
      <4>1. r = [d EXCEPT !.step = "plain"]
        BY <2>1, <3>3 DEF manageable
      <4> HIDE DEF r
      <4> QED BY <2>1, <3>3, <4>1 DEF Readings
    <3> QED BY <3>1, <3>2, <3>3
  <2> HIDE DEF r, d
  <2>4. reading.step = "state" /\ reading' = r /\ enforced' = enforced /\ Enforcing' = Enforcing
    BY <2>2, <1>a DEF Step
  <2>5. Witnessed'
    BY <2>3, <2>4 DEF Witnessed, DetectInv
  <2> QED BY <1>3, <2>2, <2>3, <2>5
<1>7. CASE Probe \/ runFirst
  <2>1. reading \in Readings /\ host.fwd \in States /\ host.plain \in { "", "nftables", "iptables" }
    BY DEF DetectInv
  <2>2. PICK r \in Readings :
          /\ Step(reading.step, r) /\ r.ufw = reading.ufw /\ r.fwd = reading.fwd /\ r.b = reading.b
          /\ r.conflict = reading.conflict /\ r.step = "done"
          /\ reading.step = "plain" \/ (reading.step = "probe")
    <3>1. CASE Probe
      <4> DEFINE r == [reading EXCEPT !.p = host.fwd, !.step = "done"]
      <4>1. /\ r \in Readings /\ r.ufw = reading.ufw /\ r.fwd = reading.fwd /\ r.b = reading.b
            /\ r.conflict = reading.conflict /\ r.step = "done"
        BY <2>1 DEF Readings
      <4>2. Step("probe", r)
        BY <3>1 DEF Probe
      <4> HIDE DEF r
      <4> QED BY <4>1, <4>2 DEF Step
    <3>2. CASE runFirst
      <4> DEFINE r == [reading EXCEPT !.kind = host.plain, !.step = "done"]
      <4>1. /\ r \in Readings /\ r.ufw = reading.ufw /\ r.fwd = reading.fwd /\ r.b = reading.b
            /\ r.conflict = reading.conflict /\ r.step = "done"
        BY <2>1 DEF Readings
      <4>2. Step("plain", r)
        BY <3>2 DEF runFirst
      <4> HIDE DEF r
      <4> QED BY <4>1, <4>2 DEF Step
    <3> QED BY <1>7, <3>1, <3>2
  <2>3. Witnessed'
    BY <1>a, <2>2 DEF Step, Witnessed, DetectInv
  <2> QED BY <1>3, <2>2, <2>3
<1>8. CASE Show
  <2>1. NoReading \in Readings /\ NoReading.step = "none" /\ ~ NoReading.fwd /\ NoReading.b = "none"
    BY DEF NoReading, Readings, States, Managed
  <2>2. /\ reading' = NoReading /\ host' = host
        /\ offered'.found = reading /\ offered'.buttons = firewallFor(reading)
    BY <1>8 DEF Show
  <2>3. Witnessed'
    BY <2>1, <2>2 DEF Witnessed
  <2> QED BY <2>1, <2>2, <2>3 DEF DetectInv
<1>9. CASE Run
  <2>1. NoReading \in Readings /\ NoReading.step = "none" /\ ~ NoReading.fwd /\ NoReading.b = "none"
    BY DEF NoReading, Readings, States, Managed
  <2>2. /\ reading.step = "done" /\ UNCHANGED << host, hosted, offered, enforced >> /\ reading \in Readings
        /\ reading' = IF refusal(reading) # "" THEN NoReading ELSE [reading EXCEPT !.step = "change"]
    BY <1>9 DEF Run, DetectInv
  <2>3. CASE refusal(reading) # ""
    <3>1. Witnessed'
      BY <2>1, <2>2, <2>3 DEF Witnessed
    <3> QED BY <2>1, <2>2, <2>3, <3>1 DEF DetectInv
  <2>4. CASE refusal(reading) = ""
    <3> DEFINE r == [reading EXCEPT !.step = "change"]
    <3>1. /\ r \in Readings /\ r.ufw = reading.ufw /\ r.fwd = reading.fwd /\ r.b = reading.b
          /\ r.conflict = reading.conflict /\ r.step = "change"
      BY <2>2 DEF Readings
    <3>2. reading' = r
      BY <2>2, <2>4
    <3> HIDE DEF r
    <3>3. ~ reading.conflict /\ reading.b # "none"
      <4>1. reading.b = "none" => reading.ufw \notin Managed
        BY <2>2 DEF DetectInv, Witnessed
      <4>2. reading.ufw \in States
        BY <2>2 DEF Readings
      <4> QED BY <2>4, <4>1, <4>2 DEF refusal, probeRefusal, States, Managed
    <3>4. Witnessed'
      BY <1>a, <2>2, <3>1, <3>2, <3>3 DEF DetectInv, Witnessed
    <3> QED BY <2>2, <3>1, <3>2, <3>4 DEF DetectInv
  <2> QED BY <2>3, <2>4
<1>10. CASE Changed
  <2>1. NoReading \in Readings /\ NoReading.step = "none" /\ ~ NoReading.fwd /\ NoReading.b = "none"
    BY DEF NoReading, Readings, States, Managed
  <2>2. Step("change", NoReading)
    BY <1>10 DEF Changed
  <2>3. Witnessed'
    BY <2>1, <2>2 DEF Step, Witnessed
  <2> QED BY <1>3, <2>1, <2>2, <2>3
<1>11. CASE UNCHANGED detectVars
  <2>1. UNCHANGED << host, reading, offered, enforced >>
    BY <1>11 DEF detectVars
  <2> QED BY <1>a, <2>1 DEF DetectInv, Witnessed
<1> QED BY <1>1, <1>2, <1>4, <1>5, <1>6, <1>7, <1>8, <1>9, <1>10, <1>11 DEF DetectNext

\* OffersWhatRuns: a screen offers a change exactly where the action path takes
\* one, and a change goes on with one manager that enforced during its own
\* reading (detectFw, firewallFor, fwFound.refusal).
THEOREM OffersWhatRunsCorrect == DetectSpec => []OffersWhatRuns
<1>1. ASSUME DetectInv PROVE OffersWhatRuns
  <2>1. offered.buttons # { } <=> refusal(offered.found) = ""
    BY <1>1, OfferedAccepted DEF DetectInv
  <2>2. reading.step = "change" => reading.b \in enforced /\ ~ (reading.fwd /\ reading.b = "ufw")
    BY <1>1 DEF DetectInv, Witnessed, Readings
  <2> QED BY <2>1, <2>2 DEF OffersWhatRuns
<1> QED BY <1>1, InitDetect, NextDetect, PTL DEF DetectSpec
=============================================================================
