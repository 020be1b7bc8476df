----------------------------- MODULE PressGate -----------------------------
(* What becomes of one button press: who may press (authorize), how often  *)
(* (the press limiter), and the paths from there to the one answer that    *)
(* stops the client's spinner (handleCall, handleCallback and what they    *)
(* call). The loop handles presses one after the other. Time is counted in *)
(* the limiter's intervals.                                                *)
EXTENDS Integers, Sequences, FiniteSets

CONSTANTS
    pressBurst,                 \* presses allowed at once
    MaxPresses, MaxGateTime     \* bounds

ASSUME BurstAssumption == pressBurst \in Nat \ { 0 }

\* Who presses, and where: a private chat, whose own user is the admin, a group
\* with and without admin_user_ids; a press without a sender counts as its chat's.
Pressers == { "admin", "member", "nobody" }
Chats == { "private", "group", "adminGroup" }
actorOf(from) == IF from = "nobody" THEN "chat" ELSE from
Buckets == { "admin", "member", "chat" }

Views == { "view", "slowView", "viewNew", "goneScreen", "badView", "live", "liveStop" }
Confirms == { "yes", "no", "ask", "askOnAlert", "askPlan" }
Configs == { "threshold", "snooze", "watch" }
LegacyNav == { "legacyNav", "legacySlow" }
LegacyActs == { "legacySettings", "legacyTrust", "legacySnooze", "legacyAsk", "legacyLive", "legacyUnclaimed" }
Data == Views \cup Confirms \cup Configs \cup { "unknown" } \cup LegacyNav \cup LegacyActs

VARIABLES
    gateTime,
    chat,       \* the chat's kind, fixed by the config
    presses,    \* so far
    actors,     \* each actor's bucket: tokens and when they were counted
    worked,     \* presses that passed the limit: who and when
    notice,     \* groupNoticeSent
    pressed     \* the last press: its answers, and by whom if it changed anything

gateVars == << gateTime, chat, presses, actors, worked, notice, pressed >>

NoBucket == [tokens |-> -1, last |-> 0]
NoPressed == [ignored |-> TRUE, answers |-> 0, by |-> "nobody"]

GateInit ==
    /\ gateTime = 0 /\ chat \in Chats /\ presses = 0
    /\ actors = [a \in Buckets |-> NoBucket] /\ worked = << >> /\ notice = FALSE
    /\ pressed = NoPressed

\* authorize, for a press of the chat; a foreign one is ignored.
authorize(from, foreign, isView) ==
    CASE foreign -> "ignored"
      [] ~ foreign /\ chat = "private" -> IF from = "admin" THEN "allowed" ELSE "ignored"
      [] ~ foreign /\ chat = "adminGroup" -> IF isView \/ from = "admin" THEN "allowed" ELSE "adminOnly"
      [] OTHER -> "allowed"

\* The classes the gate is asked for, and the legacy data that only views.
ViewClass(d) == d \in Views \cup LegacyNav

\* pressLimiter.refill
refill(b) == LET t == b.tokens + gateTime - b.last IN IF t > pressBurst THEN pressBurst ELSE t

\* Mutant: allow starts a full bucket for each press it refuses.
allowAfresh(a) ==
    LET b == IF actors[a] = NoBucket \/ refill(actors[a]) < 1 THEN pressBurst ELSE refill(actors[a])
    IN  [ok |-> TRUE,
         buckets |-> [actors EXCEPT ![a] = [tokens |-> b - 1, last |-> gateTime]]]

\* pressLimiter.allow: full buckets are dropped, then one press is taken.
allow(a) ==
    LET kept == [x \in Buckets |-> IF actors[x] = NoBucket \/ refill(actors[x]) >= pressBurst THEN NoBucket
                                   ELSE [tokens |-> refill(actors[x]), last |-> gateTime]]
        b == IF kept[a] = NoBucket THEN pressBurst ELSE kept[a].tokens
    IN  [ok |-> b >= 1,
         buckets |-> [kept EXCEPT ![a] = [tokens |-> IF b >= 1 THEN b - 1 ELSE b, last |-> gateTime]]]

-----------------------------------------------------------------------------
(* What a handler answers and changes, given that the press was answered   *)
(* before its work or not.                                                 *)

Did(answers, changed) == [answers |-> answers, changed |-> changed]
Once(answered) == IF answered THEN 0 ELSE 1

\* Mutant: refuseCallback answers although a slow press was answered already.
refuseCallbackAgain(answered) == { Did(1, FALSE) }

refuseCallback(answered) == { Did(Once(answered), FALSE) }

\* finishCallback answers after its edit, or the message that stands in for it.
finishCallback(answered, changed) == { Did(Once(answered), changed) }

\* showConfirm: no token could be minted, or the prompt, or the refusal, is shown.
showConfirm(answered) == { Did(Once(answered), FALSE) } \cup finishCallback(answered, FALSE)

\* confirmPress: refused, locked, asked once more, or answered before it runs and
\* finished after it.
confirmPress ==
    finishCallback(FALSE, FALSE) \cup showConfirm(FALSE)
    \cup { Did(1 + d.answers, d.changed) : d \in finishCallback(TRUE, TRUE) \cup finishCallback(TRUE, FALSE) }

\* A config act refuses what no button carries, explains its row, or sets a value;
\* a snooze answers before it edits the keyboard.
configAct == refuseCallback(FALSE) \cup { Did(1, FALSE) } \cup finishCallback(FALSE, TRUE)

\* Registry.Dispatch and handleCall's outcomes.
Dispatch(d, slow) ==
    CASE d = "viewNew" -> { Did(Once(slow), FALSE) }
      [] d = "badView" -> { Did(Once(slow), FALSE) }
      [] d \in { "goneScreen", "unknown" } -> refuseCallback(slow)
      [] OTHER -> finishCallback(slow, FALSE)

\* handleCall after its gate, handleCallback after its own.
Handle(d, slow) ==
    CASE d \in { "live", "liveStop", "legacyLive" } ->
            refuseCallback(FALSE) \cup { Did(1, FALSE) } \cup finishCallback(FALSE, FALSE)
      [] d \in { "yes", "no" } -> confirmPress
      [] d \in { "ask", "askPlan" } -> refuseCallback(FALSE) \cup showConfirm(FALSE)
      [] d = "askOnAlert" -> refuseCallback(FALSE) \cup { Did(1, FALSE) }
      [] d \in Configs -> configAct
      [] d \in { "legacyNav", "legacySlow" } -> refuseCallback(slow) \cup finishCallback(slow, FALSE)
      [] d \in { "legacySettings", "legacyTrust", "legacySnooze" } ->
            refuseCallback(FALSE) \cup { Did(1, TRUE) } \cup finishCallback(FALSE, TRUE)
      [] d = "legacyAsk" -> showConfirm(slow)
      [] d = "legacyUnclaimed" -> refuseCallback(FALSE)
      [] OTHER -> Dispatch(d, slow)

SlowData(d) == d \in { "slowView", "legacySlow" }

-----------------------------------------------------------------------------
(* One press.                                                              *)

Press(from, how, d) ==
    LET v == authorize(from, how = "foreign", ViewClass(d))
        a == actorOf(from)
        took == allow(a)
        outcomes == CASE ~ took.ok -> { Did(1, FALSE) }
                      [] took.ok /\ (how = "inaccessible" \/ v = "adminOnly") -> { Did(1, FALSE) }
                      [] OTHER -> { Did((IF SlowData(d) THEN 1 ELSE 0) + o.answers, o.changed) : o \in Handle(d, SlowData(d)) }
    IN  /\ presses < MaxPresses /\ presses' = presses + 1
        /\ IF v = "ignored"
           THEN /\ pressed' = NoPressed
                /\ UNCHANGED << actors, worked, notice >>
           ELSE /\ notice' = (notice \/ chat = "group")
                /\ actors' = took.buckets
                /\ worked' = IF took.ok THEN Append(worked, [a |-> a, t |-> gateTime]) ELSE worked
                /\ \E o \in outcomes :
                      pressed' = [ignored |-> FALSE, answers |-> o.answers, by |-> IF o.changed THEN from ELSE "nobody"]
        /\ UNCHANGED << gateTime, chat >>

GateTick ==
    /\ gateTime < MaxGateTime /\ gateTime' = gateTime + 1
    /\ UNCHANGED << chat, presses, actors, worked, notice, pressed >>

GateNext ==
    \/ \E from \in Pressers, how \in { "own", "foreign", "inaccessible" }, d \in Data : Press(from, how, d)
    \/ GateTick

-----------------------------------------------------------------------------
(* Property.                                                               *)

\* A press the gate ignores leaves no trace. Any other is answered exactly once,
\* along every path, slow or fast, refused or done (the comments of handleCall and
\* handleCallback); no stretch of d intervals lets an actor work more than the
\* burst and d more presses, though full buckets are forgotten; and in a group with
\* admins only theirs change anything, in a private chat its own user's.
PressGated ==
    /\ pressed.answers = IF pressed.ignored THEN 0 ELSE 1
    /\ \A i, j \in DOMAIN worked : i <= j /\ worked[i].a = worked[j].a =>
          Cardinality({ k \in i..j : worked[k].a = worked[i].a }) <= pressBurst + worked[j].t - worked[i].t
    /\ pressed.by # "nobody" => chat = "group" \/ pressed.by = "admin"
=============================================================================
