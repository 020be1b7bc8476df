--------------------------- MODULE ServiceActions ---------------------------
(* Start, stop and restart from the chat (svaction.go): the prompt, the    *)
(* second prompt, the run under the item's lock, and how ActUnit tells the *)
(* end of its own job from what systemd said before it, while systemd,     *)
(* other hands and failed reads go on. systemd and Docker are external:    *)
(* a queued job is picked up later and replaces a waiting one.             *)
EXTENDS Integers

CONSTANTS MaxAsks, MaxHands, MaxLookFails    \* bounds

\* "sshd" is a unit remote access depends on, "statix" the agent's own unit,
\* "web" a container, "self" the one the agent runs in.
SvItems == { "sshd", "statix", "web", "self" }
Units == { "sshd", "statix" }
Verbs == { "start", "stop", "restart" }
Flows == { 1, 2 }

ActionDenied(i) == i = "statix"
selfContainer(i) == i = "self"
LockoutRisk(i) == i = "sshd"

VARIABLES
    policy,     \* [actions] allow: "watched" when empty, "named" when it names all items
    svWatched,  \* sshd is on the watch list
    unit,       \* sshd in systemd: its state, the waiting job and the number of its run,
                \* 0 from a systemd that has no InvocationID
    asks, hands, lookFails,
    flow        \* the presses under way, and what each was told

svVars == << policy, svWatched, unit, asks, hands, lookFails, flow >>

IdleFlow == [step |-> "idle", item |-> "sshd", verb |-> "start", final |-> FALSE, mayDouble |-> TRUE,
         before |-> [act |-> "", inv |-> -1], looked |-> -1, wasAllowed |-> FALSE,
         result |-> "", seen |-> [act |-> "", inv |-> -1]]

ActionsInit ==
    /\ policy \in { "watched", "named" } /\ svWatched = TRUE
    /\ \E inv \in { 0, 1 } : unit = [act |-> "active", inv |-> inv, job |-> "none"]
    /\ asks = 0 /\ hands = 0 /\ lookFails = 0
    /\ flow = [f \in Flows |-> IdleFlow]

-----------------------------------------------------------------------------
(* systemd, and hands other than the agent's.                              *)

down(act) == act \in { "inactive", "failed" }

PickUp ==
    /\ unit.job # "none"
    /\ unit' = CASE unit.job = "stop" /\ ~ down(unit.act) -> [unit EXCEPT !.act = "deactivating", !.job = "none"]
                 [] unit.job = "restart" /\ ~ down(unit.act) -> [unit EXCEPT !.act = "deactivating", !.job = "start"]
                 [] unit.job \in { "start", "restart" } /\ down(unit.act) ->
                        [act |-> "activating", inv |-> IF unit.inv = 0 THEN 0 ELSE unit.inv + 1, job |-> "none"]
                 [] unit.job = "start" /\ unit.act = "deactivating" -> unit
                 [] OTHER -> [unit EXCEPT !.job = "none"]
    /\ UNCHANGED << policy, svWatched, asks, hands, lookFails, flow >>

Settles ==
    /\ unit.act \in { "activating", "deactivating" }
    /\ \E ends \in { IF unit.act = "activating" THEN "active" ELSE "inactive", "failed" } :
          unit' = [unit EXCEPT !.act = ends]
    /\ UNCHANGED << policy, svWatched, asks, hands, lookFails, flow >>

\* The unit dies by itself, an admin queues a job, the unit is watched or no longer.
OtherHand ==
    /\ hands < MaxHands /\ hands' = hands + 1
    /\ \/ /\ unit.act = "active"
          /\ unit' = [unit EXCEPT !.act = "failed"]
          /\ UNCHANGED << svWatched, flow >>
       \/ /\ \E v \in Verbs : unit' = [unit EXCEPT !.job = v]
          /\ UNCHANGED << svWatched, flow >>
       \/ /\ svWatched' = ~ svWatched
          /\ flow' = [f \in Flows |-> [flow[f] EXCEPT !.wasAllowed = @ \/ (flow[f].item = "sshd" /\ ~ svWatched)]]
          /\ UNCHANGED unit
    /\ UNCHANGED << policy, asks, lookFails >>

-----------------------------------------------------------------------------
(* Policy and finding.                                                     *)

\* Agent.allowed: an empty list means the watched units and no container.
allowed(i) == IF policy = "named" THEN TRUE ELSE i = "sshd" /\ svWatched

\* Agent.refusal, for an action.
refusedAct(i) ==
    \/ i \in Units /\ ActionDenied(i)
    \/ i \notin Units /\ selfContainer(i)
    \/ ~ allowed(i)

\* findUnit, findContainer list afresh. An inactive unit nobody watches is not shown.
shown(i) == i = "sshd" => svWatched \/ unit.act # "inactive"

\* The outcomes of a find: the list may fail.
findItem(i) == (IF shown(i) THEN { "found" } ELSE { "gone" })
           \cup (IF lookFails < MaxLookFails THEN { "failed" } ELSE { })

LookedUp(r) == lookFails' = lookFails + (IF r = "failed" THEN 1 ELSE 0)

FlowGoes(f, r) == flow' = [flow EXCEPT ![f] = r]

-----------------------------------------------------------------------------
(* serviceAction under confirmPress.                                       *)

\* (Flows are alike: the first free one takes the press.)
\* An ask press, or an old Yes button's prompt again: the item and the policy are
\* checked from fresh state.
AskAct(f, i, v) ==
    /\ flow[f].step \in { "idle", "told" } /\ (\A g \in 1 .. f - 1 : flow[g].step \notin { "idle", "told" })
    /\ asks < MaxAsks /\ asks' = asks + 1
    /\ \E r \in findItem(i) :
          /\ LookedUp(r)
          /\ FlowGoes(f, IF r = "found" /\ ~ refusedAct(i)
                     THEN [IdleFlow EXCEPT !.step = "prompt", !.item = i, !.verb = v] ELSE IdleFlow)
    /\ UNCHANGED << policy, svWatched, unit, hands >>

Working(f) == flow[f].step \in { "find", "before", "queue", "poll", "post" }

\* The lock of the item, held by no other flow.
tryLock(f) == \A g \in Flows \ { f } : Working(g) => flow[g].item # flow[f].item

\* A first Yes asks again when the unit, found afresh, is a lockout risk; a list
\* that fails or does not show the unit asks no second time.
YesAct(f) ==
    LET w == flow[f]
        asksTwice == w.item \in Units /\ w.verb # "start" /\ ~ w.final
        go == IF tryLock(f) THEN [w EXCEPT !.step = "find", !.wasAllowed = allowed(w.item)] ELSE IdleFlow
    IN  /\ w.step = "prompt"
        /\ \E r \in IF asksTwice THEN findItem(w.item) ELSE { "none" } :
              /\ LookedUp(r)
              /\ FlowGoes(f, CASE r = "found" /\ LockoutRisk(w.item) ->
                                 IF refusedAct(w.item) THEN IdleFlow ELSE [w EXCEPT !.final = TRUE]
                           [] r = "none" \/ (r = "found" /\ ~ LockoutRisk(w.item)) -> go
                           [] OTHER -> IF tryLock(f) THEN [go EXCEPT !.mayDouble = FALSE] ELSE IdleFlow)
        /\ UNCHANGED << policy, svWatched, unit, asks, hands >>

\* Mutant: run does not ask for the policy again.
RunFindBlind(f) ==
    /\ flow[f].step = "find"
    /\ \E r \in findItem(flow[f].item) :
          /\ LookedUp(r)
          /\ FlowGoes(f, IF r = "found"
                     THEN [flow[f] EXCEPT !.step = IF flow[f].item \in Units THEN "before" ELSE "post"]
                     ELSE IdleFlow)
    /\ UNCHANGED << policy, svWatched, unit, asks, hands >>

\* run: the item is found and the policy asked again, or the press drifted.
RunFind(f) ==
    /\ flow[f].step = "find"
    /\ \E r \in findItem(flow[f].item) :
          /\ LookedUp(r)
          /\ FlowGoes(f, IF r = "found" /\ ~ refusedAct(flow[f].item)
                     THEN [flow[f] EXCEPT !.step = IF flow[f].item \in Units THEN "before" ELSE "post"]
                     ELSE IdleFlow)
    /\ UNCHANGED << policy, svWatched, unit, asks, hands >>

\* What the press was told; of an error nothing is kept, it claims nothing.
toldOf(w, result, seen) ==
    IF result = "error" THEN [IdleFlow EXCEPT !.step = "told", !.result = result]
    ELSE [w EXCEPT !.step = "told", !.result = result, !.seen = seen]
Now == [act |-> unit.act, inv |-> unit.inv]

\* ActUnit's first read; its error is ignored.
Before(f) ==
    /\ flow[f].step = "before"
    /\ \/ FlowGoes(f, [flow[f] EXCEPT !.step = "queue", !.before = Now, !.looked = unit.inv]) /\ UNCHANGED lookFails
       \/ /\ lookFails < MaxLookFails /\ lookFails' = lookFails + 1
          /\ FlowGoes(f, [flow[f] EXCEPT !.step = "queue", !.looked = unit.inv])
    /\ UNCHANGED << policy, svWatched, unit, asks, hands >>

\* The job is queued, or systemctl fails.
Queue(f) ==
    /\ flow[f].step = "queue"
    /\ \/ /\ unit' = [unit EXCEPT !.job = flow[f].verb]
          /\ FlowGoes(f, [flow[f] EXCEPT !.step = "poll"])
       \/ FlowGoes(f, toldOf(flow[f], "error", Now)) /\ UNCHANGED unit
    /\ UNCHANGED << policy, svWatched, asks, hands, lookFails >>

\* Mutant: a restart or start is over at the first settled state.
settledSoon(verb, before, now) ==
    CASE now.act = "active" /\ verb # "stop" -> "ok"
      [] now.act = "failed" /\ verb # "stop" -> "failed"
      [] verb = "stop" /\ down(now.act) -> "ok"
      [] OTHER -> "no"

\* settled: a start or restart is over once a new run is active or has failed, or,
\* where runs cannot be told apart, whatever run is.
settled(verb, before, now) ==
    LET fresh == now.inv = 0 \/ now.inv # before.inv
    IN  CASE verb = "stop" /\ down(now.act) -> "ok"
          [] verb = "start" /\ now.act = "active" -> "ok"
          [] verb = "restart" /\ now.act = "active" /\ fresh -> "ok"
          [] verb # "stop" /\ now.act = "failed" /\ fresh -> "failed"
          [] OTHER -> "no"

\* A read of the unit; one that fails is tried again a second later.
Poll(f) ==
    LET s == settled(flow[f].verb, flow[f].before, Now)
    IN  /\ flow[f].step = "poll" /\ s # "no"
        /\ FlowGoes(f, toldOf(flow[f], s, Now))
        /\ UNCHANGED << policy, svWatched, unit, asks, hands, lookFails >>

\* 30 s passed, whatever the job does later.
NotSettled(f) ==
    /\ flow[f].step = "poll"
    /\ FlowGoes(f, toldOf(flow[f], "error", Now))
    /\ UNCHANGED << policy, svWatched, unit, asks, hands, lookFails >>

\* Client.Act blocks until Docker answers 204 or 304, or an error.
Post(f) ==
    /\ flow[f].step = "post"
    /\ \E result \in { "ok", "error" } : FlowGoes(f, toldOf(flow[f], result, Now))
    /\ UNCHANGED << policy, svWatched, unit, asks, hands, lookFails >>

ActionsNext ==
    \/ PickUp \/ Settles \/ OtherHand
    \/ \E f \in Flows :
          \/ \E i \in SvItems, v \in Verbs : AskAct(f, i, v)
          \/ YesAct(f) \/ RunFind(f) \/ Before(f) \/ Queue(f) \/ Poll(f) \/ NotSettled(f) \/ Post(f)

ActionsSpec == ActionsInit /\ [][ActionsNext]_svVars

-----------------------------------------------------------------------------
(* Properties.                                                             *)

\* What the receipt says happened did: a restart's "done" and a "failed" are about
\* a run begun after the agent looked, however late systemd picks the job up and
\* whatever run it showed before; a stop's is about a unit that is down. Excepted
\* are a systemd that does not tell runs apart, where the code lets the first settled
\* state count, and a failed first read, which ActUnit ignores (ActUnit, settled).
OutcomeTrue ==
    \A f \in Flows : flow[f].step = "told" /\ flow[f].item = "sshd" =>
        LET w == flow[f]
        IN  /\ w.result = "ok" => IF w.verb = "stop" THEN down(w.seen.act) ELSE w.seen.act = "active"
            /\ w.looked # 0 /\ w.before.inv # -1 /\ (w.result = "failed" \/ (w.result = "ok" /\ w.verb = "restart"))
                   => w.seen.inv > w.looked

\* Nothing runs on the agent's own unit or container, nor on an item the policy
\* did not allow at some time since the last Yes; two flows never run on one
\* item; a stop or restart of sshd that no second Yes confirmed is one whose list
\* failed, or did not show sshd, at the first (serviceAction, targetLocks).
ActsGuarded ==
    \A f \in Flows : flow[f].step \in { "before", "queue", "poll", "post" } =>
        /\ flow[f].item \notin { "statix", "self" } /\ flow[f].wasAllowed
        /\ \A g \in Flows \ { f } : Working(g) => flow[g].item # flow[f].item
        /\ flow[f].item = "sshd" /\ flow[f].verb # "start" => flow[f].final \/ ~ flow[f].mayDouble
=============================================================================
