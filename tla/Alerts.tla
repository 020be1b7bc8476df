------------------------------- MODULE Alerts -------------------------------
(***************************************************************************)
(* Alerts: the engine (internal/alert/alert.go), the two loops that feed   *)
(* it, sampleLoop for metrics and servicesLoop for watched checks, and the *)
(* snooze buttons under what they send.                                    *)
(*                                                                         *)
(* A round of a loop judges all its keys and then sends what they came to, *)
(* while presses, the host and time move on.  A send may fail, a round may *)
(* fail to read some of the checks, and a restart forgets everything but   *)
(* the chat.  Times are what is left of them, so none has to be bounded;   *)
(* a round judges with the time it is judged at.                           *)
(***************************************************************************)
EXTENDS Naturals

CONSTANTS
    Metrics,    \* keys of thresholds: "cpu", "disk:/", ...
    Checks,     \* keys of checks that may be watched: "svc:<unit>", ...
    Sustain,    \* samples a metric's violation must hold
    Cooldown,   \* the least time between two fires of a key
    Snoozes,    \* how long a snooze button silences a key
    MaxFaults   \* bound: failed sends and reads, and restarts

ASSUME KeysAssumption == Metrics \cap Checks = {}
ASSUME TimesAssumption ==
    /\ Sustain \in Nat \ {0} /\ Cooldown \in Nat /\ Snoozes \subseteq Nat \ {0}
    /\ MaxFaults \in Nat

VARIABLES
    level,      \* the host: how each key's value stands
    watched,    \* the checks on the watch list
    engine,     \* the engine's state of each key
    snoozeLeft, \* how long each key stays snoozed
    svcSeen,    \* checks servicesLoop looked at before
    notice,     \* what a loop decided on a key and has not sent yet
    chat,       \* the last notice of each key that reached the chat
    faults,     \* faults left
    \* Observed by the properties, never read by a guard:
    history,    \* what this process has seen of each key
    blurred     \* keys that moved without a notice, the chat not agreeing

host   == <<level, watched>>
ghosts == <<history, blurred>>
vars   == <<host, engine, snoozeLeft, svcSeen, notice, chat, faults, ghosts>>

-----------------------------------------------------------------------------
Keys == Metrics \cup Checks

\* Past the threshold; back by the margin; and between the two, which for
\* a check is a state that is neither a pass nor a fail.
Levels == {"bad", "good", "between"}

Notices == {"none", "fire", "resolve"}

\* A check this process has not seen pass; a key good, or failing and not
\* alerted; fired; silenced after that; and fired where it should not.
Histories == {"unseen", "good", "fired", "hushed", "again"}

Unlooked == [k \in Keys |-> IF k \in Checks THEN "unseen" ELSE "good"]

violating(k) == level[k] = "bad"
recovered(k) == level[k] = "good"
snoozed(k)   == snoozeLeft[k] > 0

\* A check fires on its first failure.
sustain(k) == IF k \in Metrics THEN Sustain ELSE 1

\* Violating samples in a row, counted as far as they are compared.
streak(k) ==
    IF ~violating(k) THEN 0
    ELSE IF engine[k].streak < sustain(k) THEN engine[k].streak + 1
    ELSE engine[k].streak

\* Mutant: a key that fires already is not passed over.
firesAgain(k) ==
    /\ ~snoozed(k) /\ violating(k) /\ streak(k) >= sustain(k)
    /\ engine[k].cool = 0

\* Mutant: only the very sample that completes the violation fires.
fireAtOnce(k) ==
    /\ ~snoozed(k) /\ violating(k) /\ engine[k].streak = sustain(k) - 1
    /\ ~engine[k].active /\ engine[k].cool = 0

fire(k) ==
    /\ ~snoozed(k) /\ violating(k) /\ streak(k) >= sustain(k)
    /\ ~engine[k].active /\ engine[k].cool = 0

resolve(k) == ~snoozed(k) /\ recovered(k) /\ engine[k].active

\* Mutant: a violation inside the cooldown counts as alerted.
stepCooled(k) ==
    [active |-> (engine[k].active \/ (violating(k) /\ engine[k].cool > 0) \/ fire(k))
                /\ ~recovered(k),
     streak |-> streak(k),
     cool   |-> IF fire(k) THEN Cooldown ELSE engine[k].cool]

\* Engine.step: under a snooze a recovery only clears the firing state.
step(k) ==
    [active |-> (engine[k].active \/ fire(k)) /\ ~recovered(k),
     streak |-> streak(k),
     cool   |-> IF fire(k) THEN Cooldown ELSE engine[k].cool]

\* Mutant: the first look is forgotten.
SeedNothing(k) == engine[k]

\* The first look at a check only records it.
Seed(k) == [active |-> violating(k), streak |-> 0, cool |-> engine[k].cool]

Forgotten == [active |-> FALSE, streak |-> 0, cool |-> 0]

Init ==
    /\ level = [k \in Keys |-> "good"] /\ watched \in SUBSET Checks
    /\ engine = [k \in Keys |-> Forgotten]
    /\ snoozeLeft = [k \in Keys |-> 0] /\ svcSeen = {}
    /\ notice = [k \in Keys |-> "none"] /\ chat = [k \in Keys |-> "none"]
    /\ faults = MaxFaults
    /\ history = Unlooked /\ blurred = {}

Fault == faults > 0 /\ faults' = faults - 1

-----------------------------------------------------------------------------
(* The host and the clock.                                                 *)

Change(k, l) ==
    /\ l # level[k] /\ level' = [level EXCEPT ![k] = l]
    /\ UNCHANGED <<watched, engine, snoozeLeft, svcSeen, notice, chat, faults, ghosts>>

Less(n) == IF n = 0 THEN 0 ELSE n - 1

Tick ==
    /\ engine' = [k \in Keys |-> [engine[k] EXCEPT !.cool = Less(@)]]
    /\ snoozeLeft' = [k \in Keys |-> Less(snoozeLeft[k])]
    /\ UNCHANGED <<host, svcSeen, notice, chat, faults, ghosts>>

-----------------------------------------------------------------------------
(* The loops.                                                              *)

\* What a look makes of a key's history.
after(k) ==
    CASE fire(k) -> IF history[k] \in {"unseen", "fired", "again"} THEN "again" ELSE "fired"
      [] recovered(k) -> "good"
      [] violating(k) /\ ~fire(k) ->
           IF history[k] = "fired" /\ snoozed(k) THEN "hushed" ELSE history[k]
      [] level[k] = "between" -> IF history[k] = "hushed" THEN "fired" ELSE history[k]

\* What one round makes of the keys it judges and the checks it only
\* records, the rest being gone; what it decides is sent before the next.
Judge(judged, first, gone) ==
    /\ \A k \in judged \cup first : notice[k] = "none"
    /\ engine' = [k \in Keys |-> IF k \in judged THEN step(k)
                                 ELSE IF k \in first THEN Seed(k) ELSE engine[k]]
    /\ notice' = [k \in Keys |-> IF k \in judged /\ fire(k) THEN "fire"
                                 ELSE IF k \in judged /\ resolve(k) THEN "resolve"
                                 ELSE notice[k]]
    /\ history' = [k \in Keys |-> IF k \in judged THEN after(k)
                                  ELSE IF k \in first /\ recovered(k) THEN "good"
                                  ELSE IF k \in first \cup gone THEN "unseen"
                                  ELSE history[k]]
    /\ blurred' = {k \in Keys :
         IF k \in first \/ (k \in judged /\ snoozed(k) /\ recovered(k) /\ engine[k].active)
         THEN engine'[k].active # (chat[k] = "fire") ELSE k \in blurred}

\* sampleOnce: every metric is judged.
Sample ==
    /\ Judge(Metrics, {}, {})
    /\ UNCHANGED <<host, snoozeLeft, svcSeen, chat, faults>>

\* checkServices, with the checks it could read: one in between keeps what
\* is known of it, one not read is forgotten.
checkServices(read) ==
    LET known == {k \in read : level[k] # "between"} IN
    /\ Judge(known \cap svcSeen, known \ svcSeen, Checks \ watched)
    /\ svcSeen' = known \cup (read \cap svcSeen)
    /\ UNCHANGED <<host, snoozeLeft, chat>>

Look == checkServices(watched) /\ UNCHANGED faults

\* Units, ports, endpoints or processes cannot be listed this time.
LookFails ==
    \E read \in SUBSET watched :
        read # watched /\ Fault /\ checkServices(read)

\* pushAlert: the send works or not; nobody tries again.
Push(k) ==
    /\ notice[k] # "none"
    /\ notice' = [notice EXCEPT ![k] = "none"]
    /\ \/ /\ chat' = [chat EXCEPT ![k] = notice[k]]
          /\ blurred' = blurred \ {k} /\ UNCHANGED faults
       \/ /\ Fault /\ UNCHANGED chat
          /\ blurred' = IF engine[k].active # (chat[k] = "fire")
                        THEN blurred \cup {k} ELSE blurred \ {k}
    /\ UNCHANGED <<host, engine, snoozeLeft, svcSeen, history>>

-----------------------------------------------------------------------------
(* The bot.                                                                *)

Snoozed(k, d) == d

\* A press of a snooze button, of any alert sent on the key.
Snooze(k, d) ==
    /\ chat[k] # "none"
    /\ snoozeLeft' = [snoozeLeft EXCEPT ![k] = Snoozed(k, d)]
    /\ UNCHANGED <<host, engine, svcSeen, notice, chat, faults, ghosts>>

Unsnooze(k) ==
    /\ chat[k] # "none" /\ snoozeLeft' = [snoozeLeft EXCEPT ![k] = 0]
    /\ UNCHANGED <<host, engine, svcSeen, notice, chat, faults, ghosts>>

\* The watch list changes; the loop finds out at its next round.
Watch(k) ==
    /\ watched' = IF k \in watched THEN watched \ {k} ELSE watched \cup {k}
    /\ UNCHANGED <<level, engine, snoozeLeft, svcSeen, notice, chat, faults, ghosts>>

Restart ==
    /\ Fault
    /\ engine' = [k \in Keys |-> Forgotten]
    /\ snoozeLeft' = [k \in Keys |-> 0] /\ svcSeen' = {}
    /\ notice' = [k \in Keys |-> "none"]
    /\ history' = Unlooked
    /\ blurred' = {k \in Keys : chat[k] = "fire"}
    /\ UNCHANGED <<host, chat>>

Next ==
    \/ \E k \in Keys, l \in Levels : Change(k, l)
    \/ Tick \/ Sample \/ Look \/ LookFails
    \/ \E k \in Keys : Push(k) \/ Unsnooze(k) \/ \E d \in Snoozes : Snooze(k, d)
    \/ \E k \in Checks : Watch(k)
    \/ Restart

\* The loops go round, what they send returns, and time passes.
Fairness ==
    /\ WF_vars(Tick) /\ WF_vars(Sample) /\ WF_vars(Look)
    /\ \A k \in Keys : WF_vars(Push(k))

Spec == Init /\ [][Next]_vars /\ Fairness

-----------------------------------------------------------------------------
(* Properties.                                                             *)

\* Type correctness.
TypeOK ==
    /\ level \in [Keys -> Levels] /\ watched \subseteq Checks
    /\ engine \in [Keys -> [active : BOOLEAN, streak : 0..Sustain, cool : 0..Cooldown]]
    /\ snoozeLeft \in [Keys -> Nat]
    /\ \A k \in Keys : \E d \in Snoozes \cup {0} : snoozeLeft[k] <= d
    /\ svcSeen \subseteq Checks
    /\ notice \in [Keys -> Notices] /\ chat \in [Keys -> Notices]
    /\ faults \in 0..MaxFaults
    /\ history \in [Keys -> Histories] /\ blurred \subseteq Keys

\* One failure is one alert, and one that was there when a check was first
\* looked at is none, so that a restart does not repeat it: until the key
\* is seen good it does not fire (again), whatever is sent, read or timed
\* out meanwhile.  A snooze may bring it back.
OncePerFailure == \A k \in Keys : history[k] # "again"

\* What the engine takes a key for is what the chat was last told, but for
\* a key recorded at its first look, one that recovered under a snooze,
\* one whose notice was not delivered, and what a restart forgot.
ChatAgrees ==
    \A k \in Keys :
        notice[k] = "none" /\ k \notin blurred => (engine[k].active <=> chat[k] = "fire")

Watching(k) == k \in Metrics \cup watched

\* A key that stays past its threshold, or stays back, and is neither
\* snoozed nor unwatched ends up told so, unless it moved unnoticed.
Told ==
    \A k \in Keys :
        /\ <>[](violating(k) /\ ~snoozed(k) /\ Watching(k))
             => <>[](chat[k] = "fire" \/ k \in blurred)
        /\ <>[](recovered(k) /\ ~snoozed(k) /\ Watching(k))
             => <>[](chat[k] # "fire" \/ k \in blurred)

\* What Engine.Snooze says: "A violation still in progress when the snooze
\* expires fires again."
SnoozeRefires ==
    [][Sample => \A k \in Metrics :
         /\ history[k] = "hushed" /\ violating(k) /\ streak(k) >= sustain(k)
         /\ ~snoozed(k) /\ engine[k].cool = 0
         => notice'[k] = "fire"]_vars
=============================================================================
