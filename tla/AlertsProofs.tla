---------------------------- MODULE AlertsProofs ----------------------------
(***************************************************************************)
(* Proofs about Alerts: type correctness, that a failure is alerted once,  *)
(* and that the engine and the chat agree, for any keys, times and faults. *)
(***************************************************************************)
EXTENDS Alerts, TLAPS

\* What holds of every key: one that fired for its failure, or failed at
\* the first look, is firing, so that nothing but a recovery lets it fire;
\* and what a notice on its way says is still true when it arrives.
Consistent(k) ==
    /\ history[k] # "again"
    /\ history[k] \in {"fired", "hushed"} => engine[k].active
    /\ history[k] = "unseen" => k \in Checks /\ (k \in svcSeen => engine[k].active)
    /\ notice[k] = "fire" => engine[k].active
    /\ notice[k] = "resolve" => ~engine[k].active
    /\ notice[k] = "none" /\ k \notin blurred => (engine[k].active <=> chat[k] = "fire")

IInv == TypeOK /\ \A k \in Keys : Consistent(k)

EngineTypes == [active : BOOLEAN, streak : 0..Sustain, cool : 0..Cooldown]

-----------------------------------------------------------------------------
LEMMA InitIInv == Init => IInv
<1> SUFFICES ASSUME Init PROVE IInv
  OBVIOUS
<1>1. Forgotten \in EngineTypes /\ ~Forgotten.active
  BY TimesAssumption DEF Forgotten, EngineTypes
<1>2. Unlooked \in [Keys -> Histories]
      /\ \A k \in Keys : /\ Unlooked[k] \notin {"again", "fired", "hushed"}
                         /\ Unlooked[k] = "unseen" => k \in Checks
  BY DEF Unlooked, Histories
<1>3. TypeOK
  BY <1>1, <1>2, TimesAssumption DEF Init, TypeOK, Levels, Notices, EngineTypes
<1>4. \A k \in Keys : Consistent(k)
  BY <1>1, <1>2 DEF Init, Consistent
<1> QED BY <1>3, <1>4 DEF IInv

LEMMA FaultTypes == ASSUME TypeOK, Fault PROVE faults' \in 0..MaxFaults
<1>1. faults > 0 /\ faults' = faults - 1 /\ faults \in 0..MaxFaults
  BY DEF Fault, TypeOK
<1> QED BY <1>1, TimesAssumption

LEMMA StepTypes ==
    ASSUME TypeOK, NEW k \in Keys
    PROVE  /\ step(k) \in EngineTypes
           /\ step(k).active = ((engine[k].active \/ fire(k)) /\ ~recovered(k))
           /\ Seed(k) \in EngineTypes /\ Seed(k).active = violating(k)
<1>1. engine[k] \in EngineTypes /\ engine[k].streak \in 0..Sustain
      /\ engine[k].cool \in 0..Cooldown
  BY DEF TypeOK, EngineTypes
<1>2. sustain(k) \in 1..Sustain
  BY TimesAssumption DEF sustain
<1>3. streak(k) \in 0..Sustain
  <2>1. CASE ~violating(k)
    BY <2>1, TimesAssumption DEF streak
  <2>2. CASE violating(k) /\ engine[k].streak < sustain(k)
    BY <1>1, <1>2, <2>2, TimesAssumption DEF streak
  <2>3. CASE violating(k) /\ ~(engine[k].streak < sustain(k))
    BY <1>1, <2>3 DEF streak
  <2> QED BY <2>1, <2>2, <2>3
<1>4. (IF fire(k) THEN Cooldown ELSE engine[k].cool) \in 0..Cooldown
  BY <1>1, TimesAssumption
<1>5. step(k) \in EngineTypes
  BY <1>3, <1>4 DEF step, EngineTypes, recovered
<1>6. Seed(k) \in EngineTypes /\ Seed(k).active = violating(k)
  BY <1>1, TimesAssumption DEF Seed, EngineTypes, violating
<1> QED BY <1>5, <1>6 DEF step

-----------------------------------------------------------------------------
(* A round of either loop.                                                 *)

LEMMA JudgeTypes ==
    ASSUME TypeOK, NEW judged, NEW first, NEW gone, Judge(judged, first, gone)
    PROVE  /\ engine' \in [Keys -> EngineTypes] /\ notice' \in [Keys -> Notices]
           /\ history' \in [Keys -> Histories] /\ blurred' \subseteq Keys
<1>1. engine' \in [Keys -> EngineTypes]
  BY StepTypes DEF Judge, TypeOK, EngineTypes
<1>2. notice' \in [Keys -> Notices]
  BY DEF Judge, TypeOK, Notices
<1>3. \A k \in Keys : after(k) \in Histories
  BY DEF after, Histories, TypeOK, Levels, violating, recovered
<1>4. history' \in [Keys -> Histories]
  BY <1>3 DEF Judge, TypeOK, Histories
<1>5. blurred' \subseteq Keys
  BY DEF Judge
<1> QED BY <1>1, <1>2, <1>4, <1>5

LEMMA JudgeConsistent ==
    ASSUME IInv, NEW judged, NEW first, NEW gone, Judge(judged, first, gone),
           first \subseteq Checks, gone \subseteq Checks,
           \A c \in first : level[c] # "between",
           judged \cap (first \cup gone) = {},
           \A k \in judged : k \in Checks => k \in svcSeen,
           svcSeen' \subseteq svcSeen \cup first, svcSeen' \cap gone = {},
           UNCHANGED chat,
           NEW k \in Keys
    PROVE  Consistent(k)'
<1> USE DEF IInv
<1>1. /\ engine'[k] = IF k \in judged THEN step(k)
                      ELSE IF k \in first THEN Seed(k) ELSE engine[k]
      /\ notice'[k] = IF k \in judged /\ fire(k) THEN "fire"
                      ELSE IF k \in judged /\ resolve(k) THEN "resolve"
                      ELSE notice[k]
      /\ history'[k] = IF k \in judged THEN after(k)
                       ELSE IF k \in first /\ recovered(k) THEN "good"
                       ELSE IF k \in first \cup gone THEN "unseen"
                       ELSE history[k]
      /\ k \in judged \cup first => notice[k] = "none"
  BY DEF Judge
<1>2. k \in blurred' <=>
        IF k \in first \/ (k \in judged /\ snoozed(k) /\ recovered(k) /\ engine[k].active)
        THEN engine'[k].active # (chat[k] = "fire") ELSE k \in blurred
  BY DEF Judge
<1>3. Consistent(k) /\ engine[k].active \in BOOLEAN /\ level[k] \in Levels
      /\ history[k] \in Histories
  BY DEF TypeOK
<1>4. CASE k \in judged
  <2>1. engine'[k].active = ((engine[k].active \/ fire(k)) /\ ~recovered(k))
    BY <1>1, <1>4, StepTypes
  <2>2. history[k] = "unseen" => engine[k].active
    BY <1>3, <1>4 DEF Consistent
  <2>3. fire(k) => ~engine[k].active /\ ~recovered(k) /\ ~snoozed(k)
    BY DEF fire, violating, recovered
  <2>4. fire(k) => history[k] \in {"good", "hushed"}
    BY <1>3, <2>2, <2>3 DEF Consistent, Histories
  <2>5. /\ history'[k] # "again"
        /\ history'[k] \in {"fired", "hushed"} => engine'[k].active
        /\ history'[k] = "unseen" => k \in Checks /\ engine'[k].active
    <3>1. CASE fire(k)
      BY <1>1, <1>4, <2>1, <2>3, <2>4, <3>1 DEF after
    <3>2. CASE ~fire(k) /\ recovered(k)
      BY <1>1, <1>4, <3>2 DEF after, violating, recovered
    <3>3. CASE ~fire(k) /\ ~recovered(k)
      <4>1. engine'[k].active = engine[k].active
        BY <1>3, <2>1, <3>3
      <4>2. /\ history'[k] \in {history[k], "hushed", "fired"}
            /\ history'[k] # history[k] => history[k] \in {"fired", "hushed"}
        BY <1>1, <1>3, <1>4, <3>3 DEF after, violating, recovered, Levels
      <4> QED BY <1>3, <2>2, <4>1, <4>2 DEF Consistent
    <3> QED BY <3>1, <3>2, <3>3
  <2>6. /\ notice'[k] = "fire" => engine'[k].active
        /\ notice'[k] = "resolve" => ~engine'[k].active
    BY <1>1, <1>4, <2>1, <2>3 DEF resolve
  <2>7. notice'[k] = "none" /\ k \notin blurred' =>
          (engine'[k].active <=> chat'[k] = "fire")
    <3> SUFFICES ASSUME notice'[k] = "none", k \notin blurred'
                 PROVE  engine'[k].active <=> chat[k] = "fire"
      OBVIOUS
    <3>1. ~fire(k) /\ ~resolve(k)
      BY <1>1, <1>4
    <3>2. CASE snoozed(k) /\ recovered(k) /\ engine[k].active
      BY <1>2, <1>4, <2>1, <3>1, <3>2
    <3>3. CASE ~(snoozed(k) /\ recovered(k) /\ engine[k].active)
      <4>1. engine'[k].active = engine[k].active /\ k \notin blurred
        BY <1>2, <1>3, <1>4, <2>1, <3>1, <3>3 DEF resolve
      <4> QED BY <1>1, <1>3, <1>4, <4>1 DEF Consistent
    <3> QED BY <3>2, <3>3
  <2> QED BY <2>5, <2>6, <2>7 DEF Consistent
<1>5. CASE k \notin judged /\ k \in first
  <2>1. engine'[k].active = violating(k)
    BY <1>1, <1>5, StepTypes
  <2>2. notice'[k] = "none"
    BY <1>1, <1>5
  <2>3. history'[k] \in {"good", "unseen"} /\ k \in Checks
        /\ (history'[k] = "unseen" => ~recovered(k))
    BY <1>1, <1>5
  <2>4. k \notin blurred' => (engine'[k].active <=> chat'[k] = "fire")
    BY <1>2, <1>5, <2>1 DEF violating
  <2>5. violating(k) \/ recovered(k)
    BY <1>3, <1>5 DEF violating, recovered, Levels
  <2> QED BY <1>5, <2>1, <2>2, <2>3, <2>4, <2>5 DEF Consistent
<1>6. CASE k \notin judged \cup first
  <2>1. engine'[k] = engine[k] /\ notice'[k] = notice[k] /\ (k \in blurred' <=> k \in blurred)
    BY <1>1, <1>2, <1>6
  <2>2. history'[k] = IF k \in gone THEN "unseen" ELSE history[k]
    BY <1>1, <1>6
  <2>3. k \in svcSeen' => k \in svcSeen /\ k \notin gone
    BY <1>6
  <2> QED BY <1>3, <2>1, <2>2, <2>3 DEF Consistent
<1> QED BY <1>4, <1>5, <1>6

LEMMA SampleKeepsIInv == ASSUME IInv, Sample PROVE IInv'
<1>1. Judge(Metrics, {}, {})
  BY DEF Sample
<1>2. TypeOK'
  BY <1>1, JudgeTypes DEF Sample, IInv, TypeOK, EngineTypes, host
<1>3. ASSUME NEW k \in Keys PROVE Consistent(k)'
  BY <1>1, JudgeConsistent, KeysAssumption DEF Sample
<1> QED BY <1>2, <1>3 DEF IInv

LEMMA ChecksKeepIInv ==
    ASSUME IInv, NEW read \in SUBSET watched, checkServices(read),
           faults' \in 0..MaxFaults
    PROVE  IInv'
<1> DEFINE known == {k \in read : level[k] # "between"}
<1>1. Judge(known \cap svcSeen, known \ svcSeen, Checks \ watched)
      /\ svcSeen' = known \cup (read \cap svcSeen)
      /\ UNCHANGED <<level, watched, snoozeLeft, chat>>
  BY DEF checkServices, host
<1>2. watched \subseteq Checks /\ TypeOK
  BY DEF IInv, TypeOK
<1>3. /\ engine' \in [Keys -> EngineTypes] /\ notice' \in [Keys -> Notices]
      /\ history' \in [Keys -> Histories] /\ blurred' \subseteq Keys
  BY <1>1, <1>2, JudgeTypes
<1>4. TypeOK'
  BY <1>1, <1>2, <1>3 DEF TypeOK, EngineTypes
<1>5. ASSUME NEW k \in Keys PROVE Consistent(k)'
  <2>1. /\ known \ svcSeen \subseteq Checks /\ Checks \ watched \subseteq Checks
        /\ \A c \in known \ svcSeen : level[c] # "between"
        /\ (known \cap svcSeen) \cap ((known \ svcSeen) \cup (Checks \ watched)) = {}
        /\ \A c \in known \cap svcSeen : c \in Checks => c \in svcSeen
        /\ svcSeen' \subseteq svcSeen \cup (known \ svcSeen)
        /\ svcSeen' \cap (Checks \ watched) = {}
    BY <1>1, <1>2
  <2> HIDE DEF known
  <2> QED BY <1>1, <2>1, JudgeConsistent
<1> QED BY <1>4, <1>5 DEF IInv

-----------------------------------------------------------------------------
(* The other actions.                                                      *)

LEMMA ChangeKeepsIInv ==
    ASSUME IInv, NEW k \in Keys, NEW l \in Levels, Change(k, l) PROVE IInv'
<1>1. TypeOK'
  BY DEF Change, IInv, TypeOK, ghosts
<1>2. \A j \in Keys : Consistent(j)'
  BY DEF Change, IInv, Consistent, ghosts
<1> QED BY <1>1, <1>2 DEF IInv

LEMMA LessLemma == \A n \in Nat : Less(n) \in Nat /\ Less(n) <= n
  BY DEF Less

LEMMA TickKeepsIInv == ASSUME IInv, Tick PROVE IInv'
<1>1. UNCHANGED <<level, watched, svcSeen, notice, chat, faults, history, blurred>>
      /\ engine' = [k \in Keys |-> [engine[k] EXCEPT !.cool = Less(@)]]
      /\ snoozeLeft' = [k \in Keys |-> Less(snoozeLeft[k])]
  BY DEF Tick, host, ghosts
<1>2. \A k \in Keys : /\ engine[k] \in EngineTypes /\ engine[k].cool \in 0..Cooldown
                      /\ snoozeLeft[k] \in Nat
  BY DEF IInv, TypeOK, EngineTypes
<1>3. \A k \in Keys : Less(engine[k].cool) \in 0..Cooldown
  BY <1>2, TimesAssumption DEF Less
<1>4. engine' \in [Keys -> EngineTypes]
  BY <1>1, <1>2, <1>3 DEF EngineTypes
<1>5. \A k \in Keys : engine'[k].active = engine[k].active
  BY <1>1, <1>2 DEF EngineTypes
<1>6. snoozeLeft' \in [Keys -> Nat]
  BY <1>1, <1>2, LessLemma
<1>7. ASSUME NEW k \in Keys PROVE \E d \in Snoozes \cup {0} : snoozeLeft'[k] <= d
  <2>1. PICK d \in Snoozes \cup {0} : snoozeLeft[k] <= d
    BY DEF IInv, TypeOK
  <2>2. snoozeLeft'[k] <= snoozeLeft[k] /\ snoozeLeft'[k] \in Nat
    BY <1>1, <1>2, LessLemma
  <2>3. d \in Nat
    BY TimesAssumption
  <2>4. snoozeLeft'[k] <= d
    BY <1>2, <2>1, <2>2, <2>3
  <2> QED BY <2>4
<1>8. TypeOK'
  BY <1>1, <1>4, <1>6, <1>7 DEF IInv, TypeOK, EngineTypes
<1>9. ASSUME NEW k \in Keys PROVE Consistent(k)'
  BY <1>1, <1>5 DEF IInv, Consistent
<1> QED BY <1>8, <1>9 DEF IInv

LEMMA PushKeepsIInv == ASSUME IInv, NEW k \in Keys, Push(k) PROVE IInv'
<1>1. /\ UNCHANGED <<level, watched, engine, snoozeLeft, svcSeen, history>>
      /\ notice[k] # "none" /\ notice' = [notice EXCEPT ![k] = "none"]
      /\ \/ /\ chat' = [chat EXCEPT ![k] = notice[k]]
            /\ blurred' = blurred \ {k} /\ UNCHANGED faults
         \/ /\ Fault /\ UNCHANGED chat
            /\ blurred' = IF engine[k].active # (chat[k] = "fire")
                          THEN blurred \cup {k} ELSE blurred \ {k}
  BY DEF Push, host
<1>2. faults' \in 0..MaxFaults
  BY <1>1, FaultTypes DEF IInv, TypeOK
<1>3. TypeOK'
  BY <1>1, <1>2 DEF IInv, TypeOK, Notices
<1>4. ASSUME NEW j \in Keys PROVE Consistent(j)'
  <2>1. Consistent(j) /\ notice \in [Keys -> Notices] /\ chat \in [Keys -> Notices]
        /\ engine[j].active \in BOOLEAN
    BY DEF IInv, TypeOK
  <2>2. CASE j # k
    BY <1>1, <2>1, <2>2 DEF Consistent
  <2>3. CASE j = k
    BY <1>1, <2>1, <2>3 DEF Consistent, Notices
  <2> QED BY <2>2, <2>3
<1> QED BY <1>3, <1>4 DEF IInv

LEMMA SnoozeTypes ==
    ASSUME IInv, NEW k \in Keys, NEW d \in Snoozes \cup {0},
           snoozeLeft' = [snoozeLeft EXCEPT ![k] = d],
           UNCHANGED <<host, engine, svcSeen, notice, chat, faults, ghosts>>
    PROVE  IInv'
<1>1. d \in Nat
  BY TimesAssumption
<1>2. snoozeLeft' \in [Keys -> Nat]
  BY <1>1 DEF IInv, TypeOK
<1>3. ASSUME NEW j \in Keys PROVE \E e \in Snoozes \cup {0} : snoozeLeft'[j] <= e
  <2>1. CASE j = k
    <3>1. snoozeLeft'[j] <= d
      BY <1>1, <2>1 DEF IInv, TypeOK
    <3> QED BY <3>1
  <2>2. CASE j # k
    BY <2>2 DEF IInv, TypeOK
  <2> QED BY <2>1, <2>2
<1>4. TypeOK'
  BY <1>2, <1>3 DEF IInv, TypeOK, host, ghosts
<1>5. \A j \in Keys : Consistent(j)'
  BY DEF IInv, Consistent, host, ghosts
<1> QED BY <1>4, <1>5 DEF IInv

LEMMA WatchKeepsIInv == ASSUME IInv, NEW k \in Checks, Watch(k) PROVE IInv'
<1>1. TypeOK'
  BY DEF Watch, IInv, TypeOK, ghosts
<1>2. \A j \in Keys : Consistent(j)'
  BY DEF Watch, IInv, Consistent, ghosts
<1> QED BY <1>1, <1>2 DEF IInv

LEMMA RestartKeepsIInv == ASSUME IInv, Restart PROVE IInv'
<1>1. Forgotten \in EngineTypes /\ ~Forgotten.active
  BY TimesAssumption DEF Forgotten, EngineTypes
<1>2. Unlooked \in [Keys -> Histories]
      /\ \A k \in Keys : /\ Unlooked[k] \notin {"again", "fired", "hushed"}
                         /\ Unlooked[k] = "unseen" => k \in Checks
  BY DEF Unlooked, Histories
<1>3. faults' \in 0..MaxFaults
  BY FaultTypes DEF Restart, IInv
<1>4. TypeOK'
  <2>1. engine' \in [Keys -> EngineTypes]
    BY <1>1 DEF Restart
  <2>2. snoozeLeft' \in [Keys -> Nat] /\ \A k \in Keys : snoozeLeft'[k] = 0
    BY DEF Restart
  <2>3. \A k \in Keys : \E d \in Snoozes \cup {0} : snoozeLeft'[k] <= d
    BY <2>2
  <2>4. /\ notice' \in [Keys -> Notices] /\ history' \in [Keys -> Histories]
        /\ blurred' \subseteq Keys /\ svcSeen' = {}
    BY <1>2 DEF Restart, Notices
  <2>5. UNCHANGED <<level, watched, chat>>
    BY DEF Restart, host
  <2> QED BY <1>3, <2>1, <2>2, <2>3, <2>4, <2>5 DEF IInv, TypeOK, EngineTypes
<1>5. \A k \in Keys : Consistent(k)'
  BY <1>1, <1>2 DEF Restart, Consistent
<1> QED BY <1>4, <1>5 DEF IInv

LEMMA NextIInv == ASSUME IInv, [Next]_vars PROVE IInv'
<1>1. CASE \E k \in Keys, l \in Levels : Change(k, l)
  BY <1>1, ChangeKeepsIInv
<1>2. CASE Tick
  BY <1>2, TickKeepsIInv
<1>3. CASE Sample
  BY <1>3, SampleKeepsIInv
<1>4. CASE Look
  <2>1. faults' \in 0..MaxFaults
    BY <1>4 DEF Look, IInv, TypeOK
  <2> QED BY <1>4, <2>1, ChecksKeepIInv DEF Look
<1>5. CASE LookFails
  <2>1. PICK read \in SUBSET watched : Fault /\ checkServices(read)
    BY <1>5 DEF LookFails
  <2>2. faults' \in 0..MaxFaults
    BY <2>1, FaultTypes DEF IInv
  <2> QED BY <2>1, <2>2, ChecksKeepIInv
<1>6. CASE \E k \in Keys : Push(k)
  BY <1>6, PushKeepsIInv
<1>7. CASE \E k \in Keys : Unsnooze(k)
  BY <1>7, SnoozeTypes DEF Unsnooze
<1>8. CASE \E k \in Keys, d \in Snoozes : Snooze(k, d)
  BY <1>8, SnoozeTypes DEF Snooze, Snoozed
<1>9. CASE \E k \in Checks : Watch(k)
  BY <1>9, WatchKeepsIInv
<1>10. CASE Restart
  BY <1>10, RestartKeepsIInv
<1>11. CASE UNCHANGED vars
  <2>1. TypeOK'
    BY <1>11 DEF vars, host, ghosts, IInv, TypeOK
  <2>2. \A k \in Keys : Consistent(k)'
    BY <1>11 DEF vars, host, ghosts, IInv, Consistent
  <2> QED BY <2>1, <2>2 DEF IInv
<1> QED BY <1>1, <1>2, <1>3, <1>4, <1>5, <1>6, <1>7, <1>8, <1>9, <1>10, <1>11
        DEF Next

-----------------------------------------------------------------------------
\* The inductive invariant holds, whatever the keys, the times and the
\* number of faults: every step of the loops, the bot, the host and a
\* restart keeps it.
THEOREM InductiveInvariant == Spec => []IInv
<1>1. Init => IInv
  BY InitIInv
<1>2. IInv /\ [Next]_vars => IInv'
  BY NextIInv
<1> QED BY <1>1, <1>2, PTL DEF Spec

\* Type correctness, of the state of the engine and of its two loops.
THEOREM TypeCorrect == Spec => []TypeOK
<1>1. IInv => TypeOK
  BY DEF IInv
<1> QED BY <1>1, InductiveInvariant, PTL

\* No failure is alerted twice, whatever is sent, lost or restarted: the
\* engine (alert.go, step) never fires a key it takes for firing, and a
\* first look (servicesloop.go) takes a failing check for firing.
THEOREM OncePerFailureCorrect == Spec => []OncePerFailure
<1>1. IInv => OncePerFailure
  BY DEF IInv, Consistent, OncePerFailure
<1> QED BY <1>1, InductiveInvariant, PTL

\* What the engine takes a key for is what the chat was last told, but for
\* the four ways ChatAgrees names.
THEOREM ChatAgreesCorrect == Spec => []ChatAgrees
<1>1. IInv => ChatAgrees
  BY DEF IInv, Consistent, ChatAgrees
<1> QED BY <1>1, InductiveInvariant, PTL
=============================================================================
