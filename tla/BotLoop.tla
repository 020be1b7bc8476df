------------------------------ MODULE BotLoop ------------------------------
(***************************************************************************)
(* The bot loop and its replay safety (internal/agent/replay.go, botLoop   *)
(* in agent.go), against Telegram's update queue.                          *)
(*                                                                         *)
(* Telegram keeps an update until a getUpdates with a higher offset, or a  *)
(* day.  The loop moves its cursor past each update before handling it,    *)
(* and saves the cursor before any update that may change state, so that   *)
(* neither a panic nor a restart hands an action back.  Getting the cursor *)
(* saved may fail, and so may asking Telegram instead; the process may die *)
(* at any step and a new one starts from what was saved.                   *)
(***************************************************************************)
EXTENDS Naturals, FiniteSets

CONSTANTS
    MaxUpdates,    \* bound: updates sent
    MaxBoots,      \* bound: process starts
    MaxFaults,     \* bound: failed file operations and calls, and panics
    MaxDays,       \* bound: days without a process reading updates
    RestartsWhileUp \* whether update IDs may restart under a running agent

ASSUME BoundsAssumption ==
    /\ MaxUpdates \in Nat \ {0} /\ MaxBoots \in Nat \ {0}
    /\ MaxFaults \in Nat /\ MaxDays \in Nat
    /\ RestartsWhileUp \in BOOLEAN

VARIABLES
    \* Telegram:
    queue,    \* updates not confirmed, nor a day old
    id,       \* update IDs, 0 for one not sent yet
    kind,     \* what each update is
    sentIn,   \* the process start each was sent after
    lastId,   \* the newest update's ID
    \* The agent:
    up,       \* the process runs
    boot,     \* how many times it started
    offset,   \* the cursor, in memory
    saved,    \* the cursor in tg-offset, 0 for none
    stale,    \* tg-offset is more than a day old
    batch,    \* updates fetched and not yet taken up
    job,      \* the update at hand and its step; Idle between updates
    faults,   \* faults left
    days,     \* days left
    \* Observed by the properties, never read by a guard:
    seen,     \* updates the loop took up
    expired,  \* updates Telegram dropped for their age
    unkept,   \* updates whose cursor no save and no Telegram call kept
    runs      \* how often each update took effect

telegram == <<queue, id, kind, sentIn, lastId>>
cursor   == <<offset, saved, stale>>
ghosts   == <<seen, expired, unkept, runs>>
vars     == <<telegram, cursor, up, boot, batch, job, faults, days, ghosts>>

-----------------------------------------------------------------------------
Updates == 1..MaxUpdates

\* A view command, any other command, a press of a plain button, and a
\* press of a confirm's Yes, whose token lives in the process's memory.
Kinds == {"view", "change", "press", "yes"}

Idle == [at |-> "idle"]
Jobs == {Idle} \cup [at : {"got", "save", "confirm", "act"}, u : Updates]

\* What is left of the queue after a getUpdates with this offset.
Confirmed(from) == {u \in queue : id[u] >= from}

\* Mutant: a saved offset is used whatever its age.
loadOffsetAnyAge == saved

loadOffset == IF stale THEN 0 ELSE saved

Fault == faults > 0 /\ faults' = faults - 1

Init ==
    /\ queue = {} /\ lastId = 0
    /\ id = [u \in Updates |-> 0] /\ kind = [u \in Updates |-> "view"]
    /\ sentIn = [u \in Updates |-> 0]
    /\ up = TRUE /\ boot = 1
    /\ offset = 0 /\ saved = 0 /\ stale = FALSE
    /\ batch = {} /\ job = Idle
    /\ faults = MaxFaults /\ days = MaxDays
    /\ seen = {} /\ expired = {} /\ unkept = {}
    /\ runs = [u \in Updates |-> 0]

-----------------------------------------------------------------------------
(* Telegram and its users.                                                 *)

Send(u, k) ==
    /\ sentIn[u] = 0 /\ \A w \in Updates : w < u => sentIn[w] # 0
    /\ lastId' = lastId + 1
    /\ id' = [id EXCEPT ![u] = lastId'] /\ kind' = [kind EXCEPT ![u] = k]
    /\ sentIn' = [sentIn EXCEPT ![u] = boot]
    /\ queue' = queue \cup {u}
    /\ UNCHANGED <<up, boot, cursor, batch, job, faults, days, ghosts>>

\* Days pass without updates: what waited expires, a saved offset goes
\* stale, and after a week update IDs restart anywhere.
DaysPass(newest) ==
    /\ days > 0 /\ days' = days - 1
    /\ batch = {} /\ job = Idle
    /\ up => queue \subseteq seen
    /\ queue' = {} /\ expired' = expired \cup queue
    /\ stale' = TRUE
    /\ newest # lastId => ~up \/ RestartsWhileUp
    /\ lastId' = newest
    /\ UNCHANGED <<id, kind, sentIn, up, boot, offset, saved, batch, job, faults,
                   seen, unkept, runs>>

-----------------------------------------------------------------------------
(* The loop.                                                               *)

\* A long poll: it confirms everything below the cursor and brings the rest.
Poll ==
    /\ up /\ batch = {} /\ job = Idle
    /\ queue' = Confirmed(offset) /\ batch' = queue'
    /\ UNCHANGED <<id, kind, sentIn, lastId, cursor, up, boot, job, faults, days,
                   ghosts>>

\* A poll fails, before or after Telegram took it.
PollFails ==
    /\ up /\ batch = {} /\ job = Idle /\ Fault
    /\ queue' \in {queue, Confirmed(offset)}
    /\ UNCHANGED <<id, kind, sentIn, lastId, cursor, up, boot, batch, job, days,
                   ghosts>>

\* The cursor moves past the next update of the batch, which is then handled.
Take ==
    \E u \in batch :
      /\ up /\ job = Idle /\ \A w \in batch : id[u] <= id[w]
      /\ offset' = IF id[u] >= offset THEN id[u] + 1 ELSE offset
      /\ batch' = batch \ {u}
      /\ job' = [at |-> "got", u |-> u]
      /\ seen' = seen \cup {u}
      /\ UNCHANGED <<telegram, up, boot, saved, stale, faults, days, expired,
                     unkept, runs>>

Done(u) ==
    /\ job' = Idle /\ runs' = [runs EXCEPT ![u] = @ + 1]

\* A view command is answered; it is not worth a save.
View ==
    /\ job.at = "got" /\ kind[job.u] = "view"
    /\ Done(job.u)
    /\ UNCHANGED <<telegram, cursor, up, boot, batch, faults, days, seen, expired,
                   unkept>>

\* A command sent well before this start waited while the agent was down,
\* and is refused; within queuedGrace it counts as live.
Refuse ==
    /\ job.at = "got" /\ kind[job.u] = "change" /\ sentIn[job.u] < boot
    /\ job' = Idle
    /\ UNCHANGED <<telegram, cursor, up, boot, batch, faults, days, ghosts>>

\* Anything else saves the cursor first.
CommitFirst ==
    /\ job.at = "got" /\ kind[job.u] # "view"
    /\ job' = [job EXCEPT !.at = "save"]
    /\ UNCHANGED <<telegram, cursor, up, boot, batch, faults, days, ghosts>>

\* Mutant: a failed save goes unnoticed.
SaveUnchecked ==
    /\ job.at = "save" /\ job' = [job EXCEPT !.at = "act"]
    /\ \/ saved' = offset /\ stale' = FALSE /\ UNCHANGED faults
       \/ Fault /\ UNCHANGED <<saved, stale>>
    /\ UNCHANGED <<telegram, offset, up, boot, batch, days, ghosts>>

\* The cursor is written to tg-offset; a failure leaves the old file.
Save ==
    /\ job.at = "save"
    /\ \/ /\ saved' = offset /\ stale' = FALSE
          /\ job' = [job EXCEPT !.at = "act"] /\ UNCHANGED faults
       \/ Fault /\ job' = [job EXCEPT !.at = "confirm"] /\ UNCHANGED <<saved, stale>>
    /\ UNCHANGED <<telegram, offset, up, boot, batch, days, ghosts>>

\* Mutant: what the call returns counts as read.
ConfirmReads ==
    /\ job.at = "confirm" /\ job' = [job EXCEPT !.at = "act"]
    /\ queue' = Confirmed(offset) /\ offset' = lastId + 1
    /\ UNCHANGED <<id, kind, sentIn, lastId, saved, stale, up, boot, batch, faults,
                   days, ghosts>>

\* Telegram is asked to confirm instead; what that call returns is dropped
\* here and fetched again.  The update is handled even if it fails.
Confirm ==
    /\ job.at = "confirm" /\ job' = [job EXCEPT !.at = "act"]
    /\ \/ queue' = Confirmed(offset) /\ UNCHANGED <<faults, unkept>>
       \/ /\ Fault /\ queue' \in {queue, Confirmed(offset)}
          /\ unkept' = unkept \cup {job.u}
    /\ UNCHANGED <<id, kind, sentIn, lastId, cursor, up, boot, batch, days, seen,
                   expired, runs>>

\* Mutant: tokens outlive the process.
TokenKept(u) == kind[u] = "yes"

\* A Yes acts only on a token of this process.
TokenLives(u) == kind[u] = "yes" /\ sentIn[u] = boot

\* The update takes effect, unless it is the Yes of a lost token.
Act ==
    /\ job.at = "act"
    /\ IF kind[job.u] # "yes" \/ TokenLives(job.u)
         THEN Done(job.u) ELSE job' = Idle /\ UNCHANGED runs
    /\ UNCHANGED <<telegram, cursor, up, boot, batch, faults, days, seen, expired,
                   unkept>>

\* A handler panics: the loop starts over, with the cursor as it is.
Panic ==
    /\ job # Idle /\ Fault
    /\ job' = Idle /\ batch' = {}
    /\ UNCHANGED <<telegram, cursor, up, boot, days, ghosts>>

Crash ==
    /\ up /\ boot < MaxBoots
    /\ up' = FALSE /\ job' = Idle /\ batch' = {} /\ offset' = 0
    /\ UNCHANGED <<telegram, saved, stale, boot, faults, days, ghosts>>

\* A new process starts from the saved cursor, or from 0 when the file
\* cannot be read.
Start ==
    /\ ~up /\ up' = TRUE /\ boot' = boot + 1
    /\ \/ offset' = loadOffset /\ UNCHANGED <<faults, unkept>>
       \/ Fault /\ offset' = 0 /\ unkept' = unkept \cup seen
    /\ UNCHANGED <<telegram, saved, stale, batch, job, days, seen, expired, runs>>

Step == View \/ Refuse \/ CommitFirst \/ Save \/ Confirm \/ Act

Next ==
    \/ \E u \in Updates, k \in Kinds : Send(u, k)
    \/ \E newest \in 0..lastId : DaysPass(newest)
    \/ Poll \/ PollFails \/ Take \/ Step \/ Panic \/ Crash \/ Start

\* The loop polls again after every error and panic, handlers come back,
\* and systemd restarts a dead process (Restart=always).
Fairness == WF_vars(Poll) /\ WF_vars(Take) /\ WF_vars(Step) /\ WF_vars(Start)

Spec == Init /\ [][Next]_vars /\ Fairness

-----------------------------------------------------------------------------
(* Properties.                                                             *)

\* Type correctness.
TypeOK ==
    /\ queue \subseteq Updates /\ batch \subseteq Updates
    /\ id \in [Updates -> 0..MaxUpdates] /\ kind \in [Updates -> Kinds]
    /\ sentIn \in [Updates -> 0..MaxBoots] /\ lastId \in 0..MaxUpdates
    /\ up \in BOOLEAN /\ boot \in 1..MaxBoots /\ stale \in BOOLEAN
    /\ offset \in 0..(MaxUpdates + 1) /\ saved \in 0..(MaxUpdates + 1)
    /\ job \in Jobs
    /\ faults \in 0..MaxFaults /\ days \in 0..MaxDays
    /\ seen \subseteq Updates /\ expired \subseteq Updates /\ unkept \subseteq Updates
    /\ runs \in [Updates -> Nat]

\* A press or a command other than a view takes effect twice only if
\* neither its save nor Telegram's confirmation worked (commitOffset): no
\* restart, panic or lost answer alone replays an action.
NoReplay ==
    \A u \in Updates :
        kind[u] \in {"change", "press"} /\ runs[u] > 1 => u \in unkept

\* A Yes takes effect at most once even then: its token died with the
\* process that would have replayed it.
YesOnce == \A u \in Updates : kind[u] = "yes" => runs[u] <= 1

\* No update is confirmed to Telegram, and so forgotten, before the loop
\* took it up; a batch cut short by a panic or a restart is fetched again.
NothingDropped ==
    \A u \in Updates : sentIn[u] # 0 => u \in queue \cup seen \cup expired

\* Every update is taken up, or expires while nobody reads it.
EverySeen ==
    \A u \in Updates : sentIn[u] # 0 ~> u \in seen \cup expired
=============================================================================
