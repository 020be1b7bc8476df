--------------------------- MODULE BotLoopProofs ---------------------------
(***************************************************************************)
(* Proofs about BotLoop: type correctness, that only an update whose       *)
(* cursor nothing kept can take effect twice, that a Yes never does, and   *)
(* that no update is forgotten unseen unless update IDs restart under a    *)
(* running agent.  They hold for any number of updates, starts and faults. *)
(***************************************************************************)
EXTENDS BotLoop, TLAPS

\* The saved cursor is past u, or Telegram has forgotten it.
Kept(u) == u \notin queue \/ (~stale /\ id[u] < saved)

\* The cursor in memory is.
Past(u) == u \notin queue \/ id[u] < offset

\* Updates are sent in order, with rising IDs, and known before anything
\* else happens to them; a dead process leaves nothing in memory.
Numbering ==
    /\ \A u \in Updates : sentIn[u] = 0 =>
         lastId < u /\ u \notin queue \cup seen /\ runs[u] = 0
    /\ \A u \in queue : id[u] <= lastId
    /\ \A u, w \in queue : id[u] = id[w] => u = w
    /\ \A u \in Updates : sentIn[u] <= boot
    /\ ~up => boot < MaxBoots /\ batch = {} /\ job = Idle

\* What was fetched waits at or past the cursor, the update at hand is
\* behind it.
Fetched ==
    /\ \A u \in batch : u \in queue /\ id[u] >= offset
    /\ job # Idle => job.u \in seen /\ Past(job.u)

\* An action that took effect is behind every cursor a restart may use.
Recorded ==
    /\ \A u \in Updates :
         kind[u] \in {"change", "press"} /\ runs[u] > 0 /\ u \notin unkept =>
            /\ runs[u] = 1 /\ u \in seen
            /\ Kept(u) /\ (up => Past(u))
    /\ job # Idle /\ kind[job.u] \in {"change", "press"} /\ job.u \notin unkept =>
            /\ runs[job.u] = 0
            /\ job.at = "act" => Kept(job.u)

\* A Yes that took effect is behind this process's cursor, or from before.
YesRecorded ==
    \A u \in Updates : kind[u] = "yes" =>
        /\ runs[u] <= 1
        /\ runs[u] = 1 /\ up /\ sentIn[u] = boot =>
              Past(u) /\ (job # Idle => job.u # u)

IInv == TypeOK /\ Numbering /\ Fetched /\ Recorded /\ YesRecorded

-----------------------------------------------------------------------------
LEMMA InitIInv == Init => IInv
<1> SUFFICES ASSUME Init PROVE IInv
  OBVIOUS
<1>1. TypeOK
  <2>1. /\ id \in [Updates -> 0..MaxUpdates] /\ kind \in [Updates -> Kinds]
        /\ sentIn \in [Updates -> 0..MaxBoots] /\ runs \in [Updates -> Nat]
    BY BoundsAssumption DEF Init, Kinds
  <2>2. boot \in 1..MaxBoots /\ lastId \in 0..MaxUpdates
        /\ offset \in 0..(MaxUpdates + 1) /\ saved \in 0..(MaxUpdates + 1)
    BY BoundsAssumption DEF Init
  <2>3. faults \in 0..MaxFaults /\ days \in 0..MaxDays
    BY BoundsAssumption DEF Init
  <2> QED BY <2>1, <2>2, <2>3 DEF Init, TypeOK, Jobs
<1>2. Numbering
  BY BoundsAssumption DEF Init, Numbering, Updates
<1>3. Fetched /\ Recorded /\ YesRecorded
  BY DEF Init, Fetched, Recorded, YesRecorded
<1> QED BY <1>1, <1>2, <1>3 DEF IInv

LEMMA JobTypes ==
    ASSUME TypeOK, job # Idle
    PROVE  /\ job.u \in Updates /\ job.at \in {"got", "save", "confirm", "act"}
           /\ \A at \in {"got", "save", "confirm", "act"} :
                /\ [job EXCEPT !.at = at] \in Jobs \ {Idle}
                /\ [job EXCEPT !.at = at].at = at
                /\ [job EXCEPT !.at = at].u = job.u
  BY DEF TypeOK, Jobs, Idle

LEMMA SendIInv ==
    ASSUME IInv, NEW u \in Updates, NEW k \in Kinds, Send(u, k) PROVE IInv'
<1> USE DEF IInv
<1>1. /\ sentIn[u] = 0 /\ lastId' = lastId + 1 /\ lastId \in 0..MaxUpdates
      /\ id' = [id EXCEPT ![u] = lastId'] /\ kind' = [kind EXCEPT ![u] = k]
      /\ sentIn' = [sentIn EXCEPT ![u] = boot] /\ queue' = queue \cup {u}
      /\ \A w \in Updates : w < u => sentIn[w] # 0
      /\ UNCHANGED <<up, boot, cursor, batch, job, faults, days, ghosts>>
  BY DEF Send, TypeOK
<1>2. lastId < u /\ u \notin queue \cup seen /\ runs[u] = 0 /\ u \in Nat
  BY <1>1 DEF Numbering, Updates
<1>3. /\ \A w \in Updates : w # u => /\ id'[w] = id[w] /\ kind'[w] = kind[w]
                                     /\ sentIn'[w] = sentIn[w]
      /\ id'[u] = lastId + 1 /\ sentIn'[u] = boot /\ boot # 0
  BY <1>1, BoundsAssumption DEF TypeOK
<1>4. TypeOK'
  <2>1. lastId' \in 0..MaxUpdates
    BY <1>1, <1>2, BoundsAssumption DEF Updates
  <2>2. id' \in [Updates -> 0..MaxUpdates] /\ kind' \in [Updates -> Kinds]
    BY <1>1, <2>1 DEF TypeOK
  <2>3. sentIn' \in [Updates -> 0..MaxBoots]
    BY <1>1, BoundsAssumption DEF TypeOK
  <2> QED BY <1>1, <2>1, <2>2, <2>3 DEF TypeOK, cursor, ghosts
<1>5. Numbering'
  <2>1. ASSUME NEW w \in Updates, sentIn'[w] = 0
        PROVE  lastId' < w /\ w \notin queue' \cup seen' /\ runs'[w] = 0
    <3>1. w # u /\ sentIn[w] = 0
      BY <1>3, <2>1
    <3>2. u < w
      BY <1>1, <3>1 DEF Updates
    <3> QED BY <1>1, <1>2, <3>1, <3>2 DEF Numbering, ghosts, Updates
  <2>2. \A w \in queue' : id'[w] <= lastId'
    BY <1>1, <1>3 DEF Numbering, TypeOK
  <2>3. \A v, w \in queue' : id'[v] = id'[w] => v = w
    BY <1>1, <1>3 DEF Numbering, TypeOK
  <2>4. \A w \in Updates : sentIn'[w] <= boot'
    BY <1>1, <1>3 DEF Numbering, TypeOK
  <2> QED BY <1>1, <2>1, <2>2, <2>3, <2>4 DEF Numbering
<1>6. \A w \in Updates : w # u => (Past(w) => Past(w)') /\ (Kept(w) => Kept(w)')
  BY <1>1, <1>3 DEF Past, Kept, cursor
<1>7. \A w \in seen : w # u
  BY <1>2
<1>8. job # Idle => job.u # u /\ job.u \in Updates
  BY <1>7, JobTypes DEF Fetched
<1>9. Fetched'
  <2>1. \A w \in batch' : w \in queue' /\ id'[w] >= offset'
    BY <1>1, <1>2, <1>3 DEF Fetched, cursor, TypeOK
  <2> QED BY <1>1, <1>6, <1>8, <2>1 DEF Fetched, ghosts
<1>10. Recorded'
  <2>1. ASSUME NEW w \in Updates, kind'[w] \in {"change", "press"}, runs'[w] > 0,
               w \notin unkept'
        PROVE  runs'[w] = 1 /\ w \in seen' /\ Kept(w)' /\ (up' => Past(w)')
    <3>1. w # u
      BY <1>1, <1>2, <2>1 DEF ghosts
    <3> QED BY <1>1, <1>3, <1>6, <2>1, <3>1 DEF Recorded, ghosts
  <2>2. ASSUME job # Idle, NEW j \in Updates, j = job.u,
               kind'[j] \in {"change", "press"}, j \notin unkept
        PROVE  runs'[j] = 0 /\ (job.at = "act" => Kept(j)')
    <3>1. j # u /\ kind[j] \in {"change", "press"}
      BY <1>3, <1>8, <2>2
    <3>2. runs[j] = 0 /\ (job.at = "act" => Kept(j))
      BY <2>2, <3>1 DEF Recorded
    <3> QED BY <1>1, <1>6, <2>2, <3>1, <3>2 DEF ghosts
  <2> QED BY <1>1, <1>8, <2>1, <2>2 DEF Recorded, ghosts
<1>11. YesRecorded'
  BY <1>1, <1>2, <1>3, <1>6, <1>8 DEF YesRecorded, cursor, ghosts, TypeOK
<1> QED BY <1>4, <1>5, <1>9, <1>10, <1>11

LEMMA DaysIInv ==
    ASSUME IInv, NEW newest \in 0..lastId, DaysPass(newest) PROVE IInv'
<1>1. /\ queue' = {} /\ batch = {} /\ job = Idle /\ lastId' = newest /\ stale' = TRUE
      /\ days > 0 /\ days' = days - 1 /\ expired' = expired \cup queue
      /\ UNCHANGED <<id, kind, sentIn, up, boot, offset, saved, batch, job, faults,
                     seen, unkept, runs>>
  BY DEF DaysPass
<1>2. TypeOK'
  BY <1>1, BoundsAssumption DEF IInv, TypeOK
<1>3. Numbering'
  BY <1>1 DEF IInv, TypeOK, Numbering, Updates
<1>4. Fetched' /\ Recorded' /\ YesRecorded'
  BY <1>1 DEF IInv, Fetched, Recorded, YesRecorded, Past, Kept
<1> QED BY <1>2, <1>3, <1>4 DEF IInv

\* Telegram forgets what a getUpdates confirms: nothing in flight.
LEMMA ConfirmedKeeps ==
    ASSUME IInv, queue' = queue \/ queue' = Confirmed(offset), up,
           UNCHANGED <<id, offset, saved, stale, lastId, sentIn>>
    PROVE  /\ queue' \subseteq queue
           /\ \A u \in batch : u \in queue'
           /\ \A u \in Updates : (Past(u) => Past(u)') /\ (Kept(u) => Kept(u)')
           /\ queue' = Confirmed(offset) =>
                 \A u \in Updates : Past(u) => u \notin queue'
           /\ TypeOK => queue' \subseteq Updates
<1>1. queue' \subseteq queue
  BY DEF Confirmed
<1>2. \A u \in batch : u \in queue'
  BY DEF Confirmed, IInv, Fetched
<1>3. \A u \in Updates : (Past(u) => Past(u)') /\ (Kept(u) => Kept(u)')
  BY <1>1 DEF Past, Kept
<1>4. queue' = Confirmed(offset) => \A u \in Updates : Past(u) => u \notin queue'
  BY DEF Past, Confirmed, IInv, TypeOK
<1> QED BY <1>1, <1>2, <1>3, <1>4 DEF IInv, TypeOK

LEMMA PollIInv == IInv /\ (Poll \/ PollFails) => IInv'
<1> SUFFICES ASSUME IInv, Poll \/ PollFails PROVE IInv'
  OBVIOUS
<1>1. /\ up /\ batch = {} /\ job = Idle
      /\ queue' = queue \/ queue' = Confirmed(offset)
      /\ batch' = {} \/ (batch' = queue' /\ queue' = Confirmed(offset))
      /\ faults' \in 0..MaxFaults
      /\ UNCHANGED <<id, kind, sentIn, lastId, cursor, up, boot, job, days, ghosts>>
  <2>1. CASE Poll
    BY <2>1 DEF Poll, IInv, TypeOK
  <2>2. CASE PollFails
    <3>1. faults > 0 /\ faults' = faults - 1 /\ faults \in 0..MaxFaults
      BY <2>2 DEF PollFails, Fault, IInv, TypeOK
    <3>2. faults' \in 0..MaxFaults
      BY <3>1, BoundsAssumption
    <3> QED BY <2>2, <3>2 DEF PollFails
  <2> QED BY <2>1, <2>2
<1>2. /\ queue' \subseteq queue
      /\ \A u \in Updates : (Past(u) => Past(u)') /\ (Kept(u) => Kept(u)')
  BY <1>1, ConfirmedKeeps DEF cursor
<1>3. TypeOK'
  BY <1>1, <1>2 DEF IInv, TypeOK, cursor, ghosts
<1>4. Numbering'
  BY <1>1, <1>2 DEF IInv, Numbering, ghosts
<1>5. Fetched'
  BY <1>1 DEF IInv, Fetched, Confirmed, cursor
<1>6. Recorded' /\ YesRecorded'
  BY <1>1, <1>2 DEF IInv, Recorded, YesRecorded, cursor, ghosts
<1> QED BY <1>3, <1>4, <1>5, <1>6 DEF IInv

LEMMA TakeIInv == IInv /\ Take => IInv'
<1> SUFFICES ASSUME IInv, Take PROVE IInv'
  OBVIOUS
<1>1. PICK u \in batch :
        /\ up /\ job = Idle /\ \A w \in batch : id[u] <= id[w]
        /\ offset' = IF id[u] >= offset THEN id[u] + 1 ELSE offset
        /\ batch' = batch \ {u} /\ job' = [at |-> "got", u |-> u]
        /\ seen' = seen \cup {u}
        /\ UNCHANGED <<telegram, up, boot, saved, stale, faults, days, expired,
                       unkept, runs>>
  BY DEF Take
<1>2. u \in Updates /\ u \in queue /\ id[u] \in 0..MaxUpdates /\ id[u] >= offset
      /\ offset \in 0..(MaxUpdates + 1)
  BY DEF IInv, TypeOK, Fetched
<1>3. offset' = id[u] + 1 /\ offset' > offset
  BY <1>1, <1>2, BoundsAssumption
<1>4. \A w \in Updates : (Past(w) => Past(w)') /\ (Kept(w) => Kept(w)')
  BY <1>1, <1>2, <1>3, BoundsAssumption DEF Past, Kept, telegram, IInv, TypeOK
<1>5. Past(u)' /\ ~Past(u)
  BY <1>1, <1>2, <1>3, BoundsAssumption DEF Past, telegram
<1>6. job' \in Jobs /\ job' # Idle /\ job'.u = u /\ job'.at = "got"
  BY <1>1, <1>2 DEF Jobs, Idle
<1>7. TypeOK'
  BY <1>1, <1>2, <1>3, <1>6, BoundsAssumption DEF IInv, TypeOK, telegram
<1>8. Numbering'
  <2>1. sentIn[u] # 0
    BY <1>2 DEF IInv, Numbering
  <2> QED BY <1>1, <1>2, <2>1 DEF IInv, Numbering, telegram
<1>9. Fetched'
  <2>1. \A w \in batch' : w \in queue' /\ id'[w] >= offset'
    <3> TAKE w \in batch'
    <3>1. w # u /\ w \in queue /\ id[u] <= id[w] /\ id[w] \in 0..MaxUpdates
      BY <1>1 DEF IInv, TypeOK, Fetched
    <3>2. id[w] # id[u]
      BY <1>2, <3>1 DEF IInv, Numbering
    <3> QED BY <1>1, <1>2, <1>3, <3>1, <3>2, BoundsAssumption DEF telegram
  <2> QED BY <1>1, <1>5, <1>6, <2>1 DEF Fetched
<1>10. kind[u] \in {"change", "press"} /\ u \notin unkept => runs[u] = 0
  <2>1. runs[u] \in Nat
    BY <1>2 DEF IInv, TypeOK
  <2> QED BY <1>1, <1>2, <1>5, <2>1 DEF IInv, Recorded
<1>11. Recorded'
  BY <1>1, <1>4, <1>6, <1>10 DEF IInv, Recorded, telegram
<1>12. YesRecorded'
  BY <1>1, <1>2, <1>4, <1>5, <1>6 DEF IInv, YesRecorded, telegram
<1> QED BY <1>7, <1>8, <1>9, <1>11, <1>12 DEF IInv

-----------------------------------------------------------------------------
(* The update at hand.                                                     *)

LEMMA AtHand ==
    ASSUME IInv, job.at # "idle"
    PROVE  /\ job # Idle /\ up
           /\ job.u \in Updates /\ job.u \in seen /\ Past(job.u)
           /\ runs[job.u] \in Nat
<1>1. job # Idle
  BY DEF Idle
<1> QED BY <1>1, JobTypes DEF IInv, TypeOK, Numbering, Fetched

LEMMA DoneIInv ==
    ASSUME IInv, job.at # "idle", Done(job.u),
           kind[job.u] \in {"change", "press"} => job.at = "act",
           kind[job.u] = "yes" => sentIn[job.u] = boot,
           UNCHANGED <<telegram, cursor, up, boot, batch, faults, days, seen,
                       expired, unkept>>
    PROVE  IInv'
<1> DEFINE u == job.u
<1>1. job # Idle /\ up /\ u \in Updates /\ u \in seen /\ Past(u) /\ runs[u] \in Nat
  BY AtHand
<1>2. /\ job' = Idle /\ runs' = [runs EXCEPT ![u] = @ + 1]
      /\ runs'[u] = runs[u] + 1
      /\ \A w \in Updates : w # u => runs'[w] = runs[w]
      /\ \A w \in Updates : runs[w] \in Nat
  BY <1>1 DEF Done, IInv, TypeOK
<1>3. TypeOK'
  <2>1. runs' \in [Updates -> Nat]
    BY <1>1, <1>2 DEF IInv, TypeOK
  <2>2. job' \in Jobs
    BY <1>2 DEF Jobs
  <2> QED BY <2>1, <2>2 DEF IInv, TypeOK, telegram, cursor
<1>4. Numbering'
  BY <1>1, <1>2 DEF IInv, Numbering, telegram
<1>5. Fetched'
  BY <1>2 DEF IInv, Fetched, telegram, cursor
<1>6. ASSUME NEW w \in Updates, kind[w] \in {"change", "press"}, runs'[w] > 0,
             w \notin unkept
      PROVE  runs'[w] = 1 /\ w \in seen /\ Kept(w) /\ Past(w)
  <2>1. CASE w = u
    BY <1>1, <1>2, <1>6, <2>1 DEF IInv, Recorded
  <2>2. CASE w # u
    BY <1>1, <1>2, <1>6, <2>2 DEF IInv, Recorded
  <2> QED BY <2>1, <2>2
<1>7. Recorded'
  BY <1>2, <1>6 DEF Recorded, Kept, Past, telegram, cursor
<1>8. ASSUME NEW w \in Updates, kind[w] = "yes"
      PROVE  /\ runs'[w] <= 1
             /\ runs'[w] = 1 /\ sentIn[w] = boot => Past(w)
  <2>1. CASE w = u
    <3>1. runs[u] <= 1 /\ runs[u] # 1
      BY <1>1, <1>8, <2>1 DEF IInv, YesRecorded
    <3>2. runs'[u] = 1
      BY <1>1, <1>2, <3>1
    <3> QED BY <1>1, <2>1, <3>2
  <2>2. CASE w # u
    BY <1>1, <1>2, <1>8, <2>2 DEF IInv, YesRecorded
  <2> QED BY <2>1, <2>2
<1>9. YesRecorded'
  BY <1>2, <1>8 DEF YesRecorded, Past, telegram, cursor
<1> QED BY <1>3, <1>4, <1>5, <1>7, <1>9 DEF IInv

\* The update at hand is let go, and what was fetched perhaps too.
LEMMA LetGoIInv ==
    ASSUME IInv, job' = Idle, batch' \subseteq batch, faults' \in 0..MaxFaults,
           UNCHANGED <<telegram, cursor, up, boot, days, ghosts>>
    PROVE  IInv'
<1>1. job' \in Jobs
  BY DEF Jobs
<1>2. TypeOK'
  BY <1>1 DEF IInv, TypeOK, telegram, cursor, ghosts
<1>3. Numbering'
  BY DEF IInv, Numbering, telegram, ghosts
<1>4. Fetched'
  BY DEF IInv, Fetched, telegram, cursor
<1>5. Recorded' /\ YesRecorded'
  BY DEF IInv, Recorded, YesRecorded, Kept, Past, telegram, cursor, ghosts
<1> QED BY <1>2, <1>3, <1>4, <1>5 DEF IInv

LEMMA FaultTypes == ASSUME TypeOK, Fault PROVE faults' \in 0..MaxFaults
<1>1. faults > 0 /\ faults' = faults - 1 /\ faults \in 0..MaxFaults
  BY DEF Fault, TypeOK
<1> QED BY <1>1, BoundsAssumption

LEMMA StepIInv == IInv /\ (View \/ Refuse \/ CommitFirst \/ Act) => IInv'
<1> SUFFICES ASSUME IInv, View \/ Refuse \/ CommitFirst \/ Act PROVE IInv'
  OBVIOUS
<1>1. faults \in 0..MaxFaults
  BY DEF IInv, TypeOK
<1>2. CASE View
  BY <1>2, DoneIInv DEF View
<1>3. CASE Refuse
  BY <1>1, <1>3, LetGoIInv DEF Refuse
<1>4. CASE CommitFirst
  <2>1. job # Idle /\ job.u \in Updates /\ job' = [job EXCEPT !.at = "save"]
    BY <1>4, AtHand DEF CommitFirst
  <2>2. job' \in Jobs /\ job' # Idle /\ job'.u = job.u /\ job'.at = "save"
    BY <2>1, JobTypes DEF IInv
  <2>3. UNCHANGED <<telegram, cursor, up, boot, batch, faults, days, ghosts>>
    BY <1>4 DEF CommitFirst
  <2>4. TypeOK' /\ Numbering'
    BY <2>1, <2>2, <2>3 DEF IInv, TypeOK, Numbering, telegram, cursor, ghosts
  <2>5. Fetched' /\ Recorded' /\ YesRecorded'
    BY <2>1, <2>2, <2>3
    DEF IInv, Fetched, Recorded, YesRecorded, Kept, Past, telegram, cursor, ghosts
  <2> QED BY <2>4, <2>5 DEF IInv
<1>5. CASE Act
  <2>1. CASE kind[job.u] # "yes" \/ TokenLives(job.u)
    BY <1>5, <2>1, DoneIInv DEF Act, TokenLives
  <2>2. CASE ~(kind[job.u] # "yes" \/ TokenLives(job.u))
    BY <1>1, <1>5, <2>2, LetGoIInv DEF Act, ghosts
  <2> QED BY <2>1, <2>2
<1> QED BY <1>2, <1>3, <1>4, <1>5

LEMMA SaveIInv == IInv /\ Save => IInv'
<1> SUFFICES ASSUME IInv, Save PROVE IInv'
  OBVIOUS
<1>1. /\ job # Idle /\ up /\ job.u \in Updates /\ Past(job.u)
      /\ UNCHANGED <<telegram, offset, up, boot, batch, days, ghosts>>
  BY AtHand DEF Save
<1>2. CASE saved' = offset /\ stale' = FALSE /\ job' = [job EXCEPT !.at = "act"]
           /\ UNCHANGED faults
  <2>1. job' \in Jobs /\ job' # Idle /\ job'.u = job.u /\ job'.at = "act"
    BY <1>1, <1>2, JobTypes DEF IInv
  <2>2. \A w \in Updates : Past(w) => Kept(w)' /\ Past(w)'
    BY <1>1, <1>2 DEF Past, Kept, telegram
  <2>3. TypeOK' /\ Numbering'
    BY <1>1, <1>2, <2>1 DEF IInv, TypeOK, Numbering, telegram, ghosts
  <2>4. Fetched'
    BY <1>1, <2>1, <2>2 DEF IInv, Fetched, telegram, ghosts
  <2>5. Recorded'
    BY <1>1, <2>1, <2>2 DEF IInv, Recorded, telegram, ghosts
  <2>6. YesRecorded'
    BY <1>1, <2>1, <2>2 DEF IInv, YesRecorded, telegram, ghosts
  <2> QED BY <2>3, <2>4, <2>5, <2>6 DEF IInv
<1>3. CASE Fault /\ job' = [job EXCEPT !.at = "confirm"] /\ UNCHANGED <<saved, stale>>
  <2>1. job' \in Jobs /\ job' # Idle /\ job'.u = job.u /\ job'.at = "confirm"
    BY <1>1, <1>3, JobTypes DEF IInv
  <2>2. faults' \in 0..MaxFaults
    BY <1>3, FaultTypes DEF IInv
  <2>3. TypeOK' /\ Numbering'
    BY <1>1, <1>3, <2>1, <2>2 DEF IInv, TypeOK, Numbering, telegram, ghosts
  <2>4. Fetched' /\ Recorded' /\ YesRecorded'
    BY <1>1, <1>3, <2>1
    DEF IInv, Fetched, Recorded, YesRecorded, Past, Kept, telegram, ghosts
  <2> QED BY <2>3, <2>4 DEF IInv
<1> QED BY <1>2, <1>3 DEF Save

LEMMA ConfirmIInv == IInv /\ Confirm => IInv'
<1> SUFFICES ASSUME IInv, Confirm PROVE IInv'
  OBVIOUS
<1> DEFINE u == job.u
<1>1. /\ job # Idle /\ up /\ u \in Updates /\ Past(u)
      /\ job' = [job EXCEPT !.at = "act"]
      /\ queue' = queue \/ queue' = Confirmed(offset)
      /\ UNCHANGED <<id, kind, sentIn, lastId, cursor, up, boot, batch, days, seen,
                     expired, runs>>
  BY AtHand DEF Confirm
<1>2. job' \in Jobs /\ job' # Idle /\ job'.u = u /\ job'.at = "act"
  BY <1>1, JobTypes DEF IInv
<1>3. /\ queue' \subseteq queue /\ \A w \in batch : w \in queue'
      /\ \A w \in Updates : (Past(w) => Past(w)') /\ (Kept(w) => Kept(w)')
      /\ queue' = Confirmed(offset) => u \notin queue'
  BY <1>1, ConfirmedKeeps DEF cursor
<1>4. CASE queue' = Confirmed(offset) /\ UNCHANGED <<faults, unkept>>
  <2>1. u \notin queue'
    BY <1>3, <1>4
  <2>2. TypeOK' /\ Numbering'
    BY <1>1, <1>2, <1>3, <1>4 DEF IInv, TypeOK, Numbering, cursor
  <2>3. Fetched'
    BY <1>1, <1>2, <1>3 DEF IInv, Fetched, cursor
  <2>4. Recorded'
    BY <1>1, <1>2, <1>3, <1>4, <2>1 DEF IInv, Recorded, Kept, cursor
  <2>5. YesRecorded'
    BY <1>1, <1>2, <1>3 DEF IInv, YesRecorded, cursor
  <2> QED BY <2>2, <2>3, <2>4, <2>5 DEF IInv
<1>5. CASE Fault /\ unkept' = unkept \cup {u}
  <2>1. faults' \in 0..MaxFaults
    BY <1>5, FaultTypes DEF IInv
  <2>2. TypeOK' /\ Numbering'
    BY <1>1, <1>2, <1>3, <1>5, <2>1 DEF IInv, TypeOK, Numbering, cursor
  <2>3. Fetched'
    BY <1>1, <1>2, <1>3 DEF IInv, Fetched, cursor
  <2>4. Recorded'
    BY <1>1, <1>2, <1>3, <1>5 DEF IInv, Recorded, cursor
  <2>5. YesRecorded'
    BY <1>1, <1>2, <1>3 DEF IInv, YesRecorded, cursor
  <2> QED BY <2>2, <2>3, <2>4, <2>5 DEF IInv
<1> QED BY <1>4, <1>5 DEF Confirm

LEMMA CrashIInv == IInv /\ Crash => IInv'
<1> SUFFICES ASSUME IInv, Crash PROVE IInv'
  OBVIOUS
<1>1. /\ up /\ boot < MaxBoots /\ up' = FALSE /\ job' = Idle /\ batch' = {} /\ offset' = 0
      /\ UNCHANGED <<telegram, saved, stale, boot, faults, days, ghosts>>
  BY DEF Crash
<1>2. TypeOK'
  <2>1. job' \in Jobs /\ offset' \in 0..(MaxUpdates + 1)
    BY <1>1, BoundsAssumption DEF Jobs
  <2> QED BY <1>1, <2>1 DEF IInv, TypeOK, telegram, ghosts
<1>3. Numbering' /\ Fetched'
  BY <1>1 DEF IInv, Numbering, Fetched, telegram, ghosts
<1>4. Recorded' /\ YesRecorded'
  BY <1>1 DEF IInv, Recorded, YesRecorded, Kept, telegram, ghosts
<1> QED BY <1>2, <1>3, <1>4 DEF IInv

LEMMA StartIInv == IInv /\ Start => IInv'
<1> SUFFICES ASSUME IInv, Start PROVE IInv'
  OBVIOUS
<1>1. /\ ~up /\ up' = TRUE /\ boot' = boot + 1 /\ job = Idle /\ boot < MaxBoots
      /\ batch = {}
      /\ UNCHANGED <<telegram, saved, stale, batch, job, days, seen, expired, runs>>
  BY DEF Start, IInv, Numbering
<1>2. /\ boot \in 1..MaxBoots /\ saved \in 0..(MaxUpdates + 1)
      /\ \A w \in Updates : sentIn[w] <= boot /\ sentIn[w] \in 0..MaxBoots
  BY DEF IInv, TypeOK, Numbering
<1>3. boot' \in 1..MaxBoots /\ \A w \in Updates : sentIn'[w] < boot'
  BY <1>1, <1>2, BoundsAssumption DEF telegram
<1>4. offset' \in 0..(MaxUpdates + 1) /\ faults' \in 0..MaxFaults /\ unkept' \subseteq Updates
  <2>1. CASE offset' = loadOffset /\ UNCHANGED <<faults, unkept>>
    BY <1>2, <2>1, BoundsAssumption DEF loadOffset, IInv, TypeOK
  <2>2. CASE Fault /\ offset' = 0 /\ unkept' = unkept \cup seen
    BY <2>2, FaultTypes, BoundsAssumption DEF IInv, TypeOK
  <2> QED BY <2>1, <2>2 DEF Start
<1>5. TypeOK'
  BY <1>1, <1>3, <1>4 DEF IInv, TypeOK, telegram
<1>6. Numbering'
  BY <1>1, <1>3, <1>2 DEF IInv, Numbering, telegram
<1>7. Fetched'
  BY <1>1 DEF Fetched
<1>8. Recorded'
  <2>1. CASE offset' = loadOffset /\ UNCHANGED <<faults, unkept>>
    <3>1. \A w \in Updates : Kept(w) => Kept(w)' /\ Past(w)'
      BY <1>1, <2>1 DEF Kept, Past, loadOffset, telegram
    <3> QED BY <1>1, <2>1, <3>1 DEF IInv, Recorded, telegram
  <2>2. CASE unkept' = unkept \cup seen
    BY <1>1, <2>2 DEF IInv, Recorded, telegram
  <2> QED BY <2>1, <2>2 DEF Start
<1>9. YesRecorded'
  <2>1. \A w \in Updates : kind'[w] = "yes" => runs'[w] <= 1
    BY <1>1 DEF IInv, YesRecorded, telegram
  <2>2. \A w \in Updates : sentIn'[w] # boot'
    BY <1>1, <1>2 DEF telegram
  <2> QED BY <2>1, <2>2 DEF YesRecorded
<1> QED BY <1>5, <1>6, <1>7, <1>8, <1>9 DEF IInv

LEMMA NextIInv == IInv /\ [Next]_vars => IInv'
<1> SUFFICES ASSUME IInv, [Next]_vars PROVE IInv'
  OBVIOUS
<1>1. CASE Panic
  BY <1>1, LetGoIInv, FaultTypes DEF Panic, IInv
<1>2. CASE UNCHANGED vars
  BY <1>2
  DEF IInv, TypeOK, Numbering, Fetched, Recorded, YesRecorded, Kept, Past, vars,
      telegram, cursor, ghosts
<1> QED BY <1>1, <1>2, SendIInv, DaysIInv, PollIInv, TakeIInv, StepIInv, SaveIInv,
           ConfirmIInv, CrashIInv, StartIInv DEF Next, Step

\* The inductive invariant holds in every behaviour.
THEOREM InductiveInvariant == Spec => []IInv
  BY InitIInv, NextIInv, PTL DEF Spec

\* Type correctness, for all bounds.
THEOREM TypeCorrect == Spec => []TypeOK
<1>1. IInv => TypeOK
  BY DEF IInv
<1> QED BY <1>1, InductiveInvariant, PTL

\* No restart, panic or lost answer alone replays an action.
THEOREM NoReplayCorrect == Spec => []NoReplay
<1>1. IInv => NoReplay
  BY DEF IInv, TypeOK, Recorded, NoReplay
<1> QED BY <1>1, InductiveInvariant, PTL

\* A Yes takes effect at most once, whatever fails.
THEOREM YesOnceCorrect == Spec => []YesOnce
<1>1. IInv => YesOnce
  BY DEF IInv, YesRecorded, YesOnce
<1> QED BY <1>1, InductiveInvariant, PTL

-----------------------------------------------------------------------------
(* No update is forgotten unseen, unless update IDs restart under a        *)
(* running agent.                                                          *)

\* What a cursor is past was taken up, and no cursor is past what is to
\* come; updates fetched are taken up in order.
Cursors ==
    /\ NothingDropped
    /\ up => offset <= lastId + 1
    /\ ~stale => saved <= lastId + 1
    /\ \A u \in queue : up /\ id[u] < offset => u \in seen
    /\ \A u \in queue : ~stale /\ id[u] < saved => u \in seen
    /\ \A u \in batch : \A w \in queue :
         w \in batch \cup seen \/ id[u] < id[w]

LEMMA InitCursors == Init => Cursors
  BY DEF Init, Cursors, NothingDropped

LEMMA SendCursors ==
    ASSUME IInv, Cursors, NEW u \in Updates, NEW k \in Kinds, Send(u, k)
    PROVE  Cursors'
<1>1. /\ lastId' = lastId + 1 /\ lastId \in Nat
      /\ queue' = queue \cup {u} /\ id'[u] = lastId'
      /\ \A w \in Updates : w # u => id'[w] = id[w] /\ sentIn'[w] = sentIn[w]
      /\ UNCHANGED <<up, boot, cursor, batch, job, faults, days, ghosts>>
  BY DEF Send, IInv, TypeOK
<1>2. /\ u \notin queue /\ u \notin batch /\ queue \subseteq Updates
      /\ \A w \in queue : id[w] <= lastId /\ id[w] \in Nat
      /\ batch \subseteq queue /\ offset \in Nat /\ saved \in Nat
  BY DEF Send, IInv, TypeOK, Numbering, Fetched
<1>3. NothingDropped'
  BY <1>1 DEF Cursors, NothingDropped, ghosts
<1>4. (up' => offset' <= lastId' + 1) /\ (~stale' => saved' <= lastId' + 1)
  BY <1>1, <1>2 DEF Cursors, cursor
<1>5. \A w \in queue' : /\ up' /\ id'[w] < offset' => w \in seen'
                        /\ ~stale' /\ id'[w] < saved' => w \in seen'
  BY <1>1, <1>2 DEF Cursors, cursor, ghosts
<1>6. \A v \in batch' : \A w \in queue' :
        w \in batch' \cup seen' \/ id'[v] < id'[w]
  BY <1>1, <1>2 DEF Cursors, ghosts
<1> QED BY <1>3, <1>4, <1>5, <1>6 DEF Cursors

LEMMA DaysCursors ==
    ASSUME IInv, Cursors, ~RestartsWhileUp, NEW newest \in 0..lastId, DaysPass(newest)
    PROVE  Cursors'
<1>1. /\ queue' = {} /\ batch' = {} /\ stale' = TRUE /\ expired' = expired \cup queue
      /\ up => lastId' = lastId
      /\ UNCHANGED <<id, sentIn, up, offset, saved, seen>>
  BY DEF DaysPass
<1> QED BY <1>1 DEF Cursors, NothingDropped

\* A getUpdates confirms only what was taken up.
LEMMA ConfirmedCursors ==
    ASSUME IInv, Cursors, up, queue' = queue \/ queue' = Confirmed(offset),
           batch' = batch \/ batch' = queue' \/ batch' = {},
           UNCHANGED <<id, sentIn, lastId, cursor, up, seen, expired>>
    PROVE  Cursors'
<1>1. /\ queue' \subseteq queue
      /\ \A u \in queue : u \in queue' \/ u \in seen
  BY DEF Confirmed, Cursors, IInv, TypeOK
<1>2. NothingDropped'
  BY <1>1 DEF Cursors, NothingDropped
<1>3. \A u \in batch' : \A w \in queue' :
        w \in batch' \cup seen' \/ id'[u] < id'[w]
  BY <1>1 DEF Cursors
<1> QED BY <1>1, <1>2, <1>3 DEF Cursors, cursor

LEMMA TakeCursors == IInv /\ Cursors /\ Take => Cursors'
<1> SUFFICES ASSUME IInv, Cursors, Take PROVE Cursors'
  OBVIOUS
<1>1. PICK u \in batch :
        /\ up /\ \A w \in batch : id[u] <= id[w]
        /\ offset' = IF id[u] >= offset THEN id[u] + 1 ELSE offset
        /\ batch' = batch \ {u} /\ seen' = seen \cup {u}
        /\ UNCHANGED <<telegram, up, saved, stale, expired>>
  BY DEF Take
<1>2. /\ u \in queue /\ offset' = id[u] + 1
      /\ id[u] <= lastId /\ lastId \in Nat
      /\ \A w \in queue : id[w] \in Nat /\ (id[w] = id[u] => w = u)
  BY <1>1 DEF IInv, TypeOK, Numbering, Fetched
<1>3. ASSUME NEW w \in queue, id[w] < id[u] + 1 PROVE w \in seen'
  <2>1. w = u \/ id[w] < id[u]
    BY <1>2, <1>3
  <2>2. id[w] < id[u] => w \in seen
    BY <1>1, <1>2 DEF Cursors
  <2> QED BY <1>1, <2>1, <2>2
<1>4. NothingDropped'
  BY <1>1 DEF Cursors, NothingDropped, telegram
<1>5. \A v \in batch' : \A w \in queue' :
        w \in batch' \cup seen' \/ id'[v] < id'[w]
  BY <1>1 DEF Cursors, telegram
<1>6. offset' <= lastId' + 1
  BY <1>1, <1>2 DEF telegram
<1> QED BY <1>1, <1>2, <1>3, <1>4, <1>5, <1>6 DEF Cursors, telegram

LEMMA StartCursors == Cursors /\ IInv /\ (Save \/ Start \/ Crash) => Cursors'
<1> SUFFICES ASSUME Cursors, IInv, Save \/ Start \/ Crash PROVE Cursors'
  OBVIOUS
<1>1. lastId \in Nat /\ \A u \in queue : id[u] \in Nat
  BY DEF IInv, TypeOK
<1>2. CASE Save
  <2>1. up
    BY <1>2, AtHand DEF Save
  <2> QED BY <1>2, <2>1 DEF Save, Cursors, NothingDropped, telegram, ghosts
<1>3. CASE Start
  <2>1. offset' = 0 \/ (offset' = saved /\ ~stale)
    BY <1>3 DEF Start, loadOffset
  <2>2. /\ batch = {}
        /\ UNCHANGED <<telegram, saved, stale, batch, seen, expired>>
    BY <1>3 DEF Start, IInv, Numbering
  <2> QED BY <1>1, <2>1, <2>2 DEF Cursors, NothingDropped, telegram
<1>4. CASE Crash
  BY <1>4 DEF Crash, Cursors, NothingDropped, telegram, ghosts
<1> QED BY <1>2, <1>3, <1>4

LEMMA OtherCursors ==
    ASSUME Cursors, batch' = batch \/ batch' = {},
           UNCHANGED <<telegram, cursor, up, seen, expired>>
    PROVE  Cursors'
  BY DEF Cursors, NothingDropped, telegram, cursor

LEMMA NextCursors ==
    ASSUME ~RestartsWhileUp
    PROVE  IInv /\ Cursors /\ [Next]_vars => Cursors'
<1> SUFFICES ASSUME IInv, Cursors, [Next]_vars PROVE Cursors'
  OBVIOUS
<1>1. CASE Poll \/ PollFails
  <2>1. /\ up /\ (queue' = queue \/ queue' = Confirmed(offset))
        /\ batch' = queue' \/ batch' = batch
    BY <1>1 DEF Poll, PollFails
  <2>2. UNCHANGED <<id, sentIn, lastId, cursor, up, seen, expired>>
    BY <1>1 DEF Poll, PollFails, ghosts
  <2> QED BY <2>1, <2>2, ConfirmedCursors
<1>2. CASE Confirm
  <2>1. up
    BY <1>2, AtHand DEF Confirm
  <2>2. (queue' = queue \/ queue' = Confirmed(offset)) /\ batch' = batch
        /\ UNCHANGED <<id, sentIn, lastId, cursor, up, seen, expired>>
    BY <1>2 DEF Confirm
  <2> QED BY <2>1, <2>2, ConfirmedCursors
<1>3. CASE View \/ Refuse \/ CommitFirst \/ Act \/ Panic \/ UNCHANGED vars
  <2>1. /\ batch' = batch \/ batch' = {}
        /\ UNCHANGED <<telegram, cursor, up, seen, expired>>
    BY <1>3 DEF View, Refuse, CommitFirst, Act, Panic, Done, vars, ghosts
  <2> QED BY <2>1, OtherCursors
<1> QED BY <1>1, <1>2, <1>3, SendCursors, DaysCursors, TakeCursors, StartCursors
        DEF Next, Step

\* While the agent runs, Telegram keeps counting up: then nothing is
\* confirmed, and so forgotten, before the loop took it up.
THEOREM NothingDroppedCorrect ==
    ASSUME ~RestartsWhileUp
    PROVE  Spec => []NothingDropped
<1>1. Init => Cursors
  BY InitCursors
<1>2. IInv /\ Cursors /\ [Next]_vars => Cursors'
  BY NextCursors
<1>3. Cursors => NothingDropped
  BY DEF Cursors
<1> QED BY <1>1, <1>2, <1>3, InductiveInvariant, PTL DEF Spec
=============================================================================
