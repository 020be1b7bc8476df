----------------------------- MODULE SelfUpdate -----------------------------
(***************************************************************************)
(* Self-update and the crash-loop guard (internal/update, and its wiring   *)
(* in cmd/statix-agent/main_linux.go).                                     *)
(*                                                                         *)
(* The auto-update loop and a confirmed /update both call Apply: it takes  *)
(* the latest release, downloads and verifies it, swaps it in through two  *)
(* temporary files and has systemd restart the agent two seconds later.    *)
(* Every start first runs RollbackGuard.Check: three starts within the     *)
(* window swap .prev back in.  The swap is the same code for all three.    *)
(* A killed process leaves the files as they are; a process that writes a  *)
(* file keeps writing to it under the name another one renamed it to.      *)
(*                                                                         *)
(* Left out: the check for a pending firewall trial before an Apply (an    *)
(* Apply that was refused did nothing), and signatures and checksums,      *)
(* whose failure ends an Apply as a failed download does.                  *)
(***************************************************************************)
EXTENDS Naturals, Folds, Functions

CONSTANTS
    MaxVersion,    \* releases are the versions 1..MaxVersion
    Window,        \* ticks in which starts count as a crash loop
    MaxStarts,     \* starts that make one
    RestartDelay,  \* ticks systemd waits before a restart
    AutoUpdate,    \* whether the auto-update loop runs
    MaxStops,      \* bound: kills of the process and restarts by hand
    MaxFaults,     \* bound: failed file operations and restarts
    NoFile, Torn   \* no file; one truncated and not yet written

ASSUME VersionAssumption ==
    /\ MaxVersion \in Nat \ {0}
    /\ NoFile # Torn /\ NoFile \notin 1..MaxVersion /\ Torn \notin 1..MaxVersion

\* Three starts five seconds apart fit in the guard's two minutes.
ASSUME TimeAssumption ==
    /\ MaxStarts \in Nat \ {0} /\ Window \in Nat \ {0} /\ RestartDelay \in Nat
    /\ (MaxStarts - 1) * RestartDelay < Window

ASSUME BoundsAssumption ==
    AutoUpdate \in BOOLEAN /\ MaxStops \in Nat /\ MaxFaults \in Nat

VARIABLES
    file,      \* what the binary's path and its three companions hold
    starts,    \* the state file: how many starts of each age it lists
    latest,    \* the latest release
    health,    \* what each version does when it runs; never changes
    agent,     \* the process: down, in its guard, or up
    run,       \* the version that runs, or ran last
    wait,      \* ticks until systemd starts it again
    stage,     \* what each of its swappers does
    step,      \* how far it is with the temporary file of its stage
    data,      \* the binary it installs
    cur,       \* the binary it read as the current one
    fd,        \* the name of the file it writes to
    due,       \* a restart two seconds after a swap is on its way
    stops, faults, \* what is left of the bounds
    \* Observed by the properties, never read by a guard:
    dismissed, \* versions the guard replaced, until an Apply installs one
    first,     \* the version that runs is another one than before the start
    trouble    \* what went wrong: two swaps at once, two Applies in one
               \* life of the process, a rollback cut short

disk   == <<file, starts>>
swap   == <<stage, step, data, cur, fd>>
budget == <<stops, faults>>
ghosts == <<dismissed, first, trouble>>
vars   == <<disk, latest, health, agent, run, wait, swap, due, budget, ghosts>>

-----------------------------------------------------------------------------
Versions == 1..MaxVersion
Contents == Versions \cup {NoFile, Torn}
Names    == {"bin", "prev", "prevtmp", "new"}

\* "crashes" runs the guard and dies right after; "unloadable" dies before
\* it, for instance because it rejects the config.
Healths == {"good", "crashes", "unloadable"}

Appliers == {"auto", "user"}
Swappers == Appliers \cup {"guard"}

\* The stages of an Apply, of SwapBinary (named after its temporary files),
\* and of a rollback after its swap.
Stages == {"idle", "fetching", "prevtmp", "new", "removing", "clearing"}

Ages == 0..(Window - 1)

\* Mutant: the start at hand is not counted.
RecentEarlier(s) == FoldFunction(+, 0, [s EXCEPT ![0] = 0])

\* Starts that the guard counts: those whose age is below the window.
Recent(s) == FoldFunction(+, 0, s)

NoStarts == [a \in Ages |-> 0]

Swapping(p) == stage[p] \in {"prevtmp", "new"}

\* Every goroutine and open file is gone with the process.
ProcessGone ==
    /\ stage' = [p \in Swappers |-> "idle"]
    /\ step'  = [p \in Swappers |-> "open"]
    /\ data'  = [p \in Swappers |-> NoFile]
    /\ cur'   = [p \in Swappers |-> NoFile]
    /\ fd'    = [p \in Swappers |-> "none"]
    /\ due'   = FALSE

Idle(p) ==
    /\ stage' = [stage EXCEPT ![p] = "idle"]
    /\ step'  = [step EXCEPT ![p] = "open"]
    /\ data'  = [data EXCEPT ![p] = NoFile]
    /\ cur'   = [cur EXCEPT ![p] = NoFile]
    /\ fd'    = [fd EXCEPT ![p] = "none"]

\* The first version is installed and works; a later one may not.
Init ==
    /\ file = [n \in Names |-> IF n = "bin" THEN 1 ELSE NoFile]
    /\ starts = NoStarts
    /\ latest = 1
    /\ health \in {h \in [Versions -> Healths] : h[1] = "good"}
    /\ agent = "down" /\ run = 1 /\ wait = 0 /\ due = FALSE
    /\ stage = [p \in Swappers |-> "idle"]
    /\ step = [p \in Swappers |-> "open"]
    /\ data = [p \in Swappers |-> NoFile]
    /\ cur = [p \in Swappers |-> NoFile]
    /\ fd = [p \in Swappers |-> "none"]
    /\ stops = MaxStops /\ faults = MaxFaults
    /\ dismissed = {} /\ first = TRUE /\ trouble = {}

-----------------------------------------------------------------------------
(* systemd, the operator and time.                                         *)

\* ExecStart: the binary runs, unless it is not whole or cannot read the
\* config; then systemd tries again.
Start ==
    /\ agent = "down" /\ wait = 0
    /\ file["bin"] \in Versions /\ health[file["bin"]] # "unloadable"
    /\ agent' = "guard"
    /\ run' = file["bin"]
    /\ first' = (run' # run)
    /\ UNCHANGED <<disk, latest, health, wait, swap, due, budget, dismissed, trouble>>

StartFails ==
    /\ agent = "down" /\ wait = 0
    /\ ~(file["bin"] \in Versions /\ health[file["bin"]] # "unloadable")
    /\ wait' = RestartDelay
    /\ UNCHANGED <<disk, latest, health, agent, run, swap, due, budget, ghosts>>

\* What a version that dies right after its start gets to do.
Dies ==
    /\ agent = "up" /\ health[run] = "crashes"
    /\ agent' = "down" /\ wait' = RestartDelay
    /\ ProcessGone
    /\ UNCHANGED <<disk, latest, health, run, budget, ghosts>>

\* A rollback is cut short between the rename of .prev and the clean slate.
CutShort == stage["guard"] \in {"new", "removing", "clearing"}

Kill ==
    /\ agent # "down" /\ stops > 0
    /\ stops' = stops - 1
    /\ agent' = "down" /\ wait' = RestartDelay
    /\ ProcessGone
    /\ trouble' = IF CutShort THEN trouble \cup {"cut"} ELSE trouble
    /\ UNCHANGED <<disk, latest, health, run, faults, dismissed, first>>

\* systemctl restart, by hand or by the goroutine an Apply left behind.
Stopped ==
    /\ agent = "up"
    /\ agent' = "down" /\ wait' = 0
    /\ ProcessGone
    /\ UNCHANGED <<disk, latest, health, run, faults, ghosts>>

RestartByHand == Stopped /\ stops > 0 /\ stops' = stops - 1

RestartDue == Stopped /\ due /\ UNCHANGED stops

\* Its failure is not looked at.
RestartFails ==
    /\ agent = "up" /\ due /\ faults > 0
    /\ due' = FALSE
    /\ faults' = faults - 1
    /\ UNCHANGED <<disk, latest, health, agent, run, wait, swap, stops, ghosts>>

\* Entries past the window never count again. systemd is punctual, and what
\* dies right after its start does so within the tick.
Tick ==
    /\ \/ agent = "down" /\ wait > 0
       \/ agent = "up" /\ health[run] = "good"
    /\ starts' = [a \in Ages |-> IF a = 0 THEN 0 ELSE starts[a - 1]]
    /\ wait' = IF agent = "down" THEN wait - 1 ELSE wait
    /\ UNCHANGED <<file, latest, health, agent, run, swap, due, budget, ghosts>>

Publish ==
    /\ latest < MaxVersion
    /\ latest' = latest + 1
    /\ UNCHANGED <<disk, health, agent, run, wait, swap, due, budget, ghosts>>

-----------------------------------------------------------------------------
(* Apply.                                                                  *)

\* The loop's tick or the user's Yes: Apply asks for the latest release
\* itself, whatever Check saw before, and goes on if it is newer than the
\* version that runs. A version that dies right after its start does not
\* live to either.
Ask(p) ==
    /\ agent = "up" /\ health[run] = "good" /\ stage[p] = "idle"
    /\ p = "auto" => AutoUpdate
    /\ latest > run
    /\ stage' = [stage EXCEPT ![p] = "fetching"]
    /\ data' = [data EXCEPT ![p] = latest]
    /\ UNCHANGED <<disk, latest, health, agent, run, wait, step, cur, fd, due, budget, ghosts>>

\* The other swappers that are between their first and last file operation.
Others(p) == {q \in Swappers \ {p} : Swapping(q)}

\* The release is downloaded and verified, and SwapBinary reads the current
\* binary.
Fetched(p) ==
    /\ stage[p] = "fetching"
    /\ stage' = [stage EXCEPT ![p] = "prevtmp"]
    /\ cur' = [cur EXCEPT ![p] = file["bin"]]
    /\ trouble' = trouble
          \cup (IF Others(p) # {} THEN {"overlap"} ELSE {})
          \cup (IF file["bin"] # run THEN {"again"} ELSE {})
    /\ UNCHANGED <<disk, latest, health, agent, run, wait, step, data, fd, due, budget, dismissed, first>>

FetchFails(p) ==
    /\ stage[p] = "fetching"
    /\ Idle(p)
    /\ UNCHANGED <<disk, latest, health, agent, run, wait, due, budget, ghosts>>

-----------------------------------------------------------------------------
(* SwapBinary: the current binary goes to .prev and the new one to the     *)
(* path, each through os.WriteFile and os.Rename.                          *)

Target(n) == IF n = "prevtmp" THEN "prev" ELSE "bin"

\* Mutant: .prev gets the new binary.
PayloadNew(p) == data[p]

Payload(p) == IF stage[p] = "prevtmp" THEN cur[p] ELSE data[p]

\* Mutant: the new binary is written in place.
OpenInPlace(p) ==
    /\ Swapping(p) /\ step[p] = "open"
    /\ file' = [file EXCEPT ![IF stage[p] = "new" THEN "bin" ELSE stage[p]] = Torn]
    /\ fd' = [fd EXCEPT ![p] = IF stage[p] = "new" THEN "bin" ELSE stage[p]]
    /\ step' = [step EXCEPT ![p] = "write"]
    /\ UNCHANGED <<starts, latest, health, agent, run, wait, stage, data, cur, due, budget, ghosts>>

\* os.WriteFile truncates an existing file.
Open(p) ==
    /\ Swapping(p) /\ step[p] = "open"
    /\ file' = [file EXCEPT ![stage[p]] = Torn]
    /\ fd' = [fd EXCEPT ![p] = stage[p]]
    /\ step' = [step EXCEPT ![p] = "write"]
    /\ UNCHANGED <<starts, latest, health, agent, run, wait, stage, data, cur, due, budget, ghosts>>

Write(p) ==
    /\ Swapping(p) /\ step[p] = "write"
    /\ file' = IF fd[p] \in Names THEN [file EXCEPT ![fd[p]] = Payload(p)] ELSE file
    /\ fd' = [fd EXCEPT ![p] = "none"]
    /\ step' = [step EXCEPT ![p] = "rename"]
    /\ UNCHANGED <<starts, latest, health, agent, run, wait, stage, data, cur, due, budget, ghosts>>

\* The names of open files after a rename of from over to.
Renamed(from, to) ==
    [q \in Swappers |-> IF fd[q] = from THEN to ELSE IF fd[q] = to THEN "none" ELSE fd[q]]

\* Another swap may have taken the temporary file away.
CanRename(p) == file[stage[p]] # NoFile

\* A swapper is done with prev.tmp, with its Apply, or with the guard's swap.
Rename(p) ==
    LET from == stage[p]
        to   == Target(from)
    IN /\ Swapping(p) /\ step[p] = "rename"
       /\ CanRename(p)
       /\ file' = [file EXCEPT ![to] = file[from], ![from] = NoFile]
       /\ fd' = Renamed(from, to)
       /\ step' = [step EXCEPT ![p] = "open"]
       /\ stage' = [stage EXCEPT ![p] =
              IF from = "prevtmp" THEN "new" ELSE IF p = "guard" THEN "removing" ELSE "idle"]
       /\ IF from = "new"
          THEN /\ data' = [data EXCEPT ![p] = NoFile]
               /\ cur' = [cur EXCEPT ![p] = NoFile]
               /\ due' = (due \/ p # "guard")
               /\ dismissed' = IF p # "guard" THEN {}
                               ELSE dismissed \cup ({run} \ {data[p]})
          ELSE UNCHANGED <<data, cur, due, dismissed>>
       /\ UNCHANGED <<starts, latest, health, agent, run, wait, budget, first, trouble>>

\* A write fails, or another swap took the file away; SwapBinary returns
\* the error, and a guard that could not roll back lets the agent start.
SwapFails(p) ==
    /\ Swapping(p)
    /\ \/ /\ step[p] = "write" /\ faults > 0
          /\ faults' = faults - 1
       \/ /\ step[p] = "rename" /\ ~CanRename(p)
          /\ UNCHANGED faults
    /\ Idle(p)
    /\ agent' = "up"
    /\ trouble' = IF p = "guard" /\ CutShort THEN trouble \cup {"cut"} ELSE trouble
    /\ UNCHANGED <<disk, latest, health, run, wait, due, stops, dismissed, first>>

-----------------------------------------------------------------------------
(* RollbackGuard.Check.                                                    *)

\* This start joins those the file lists; enough of them, and a .prev, begin
\* a rollback. The error of a failed write, which leaves the file empty, is
\* not looked at.
Check ==
    LET listed == [starts EXCEPT ![0] = @ + 1]
    IN /\ agent = "guard" /\ stage["guard"] = "idle"
       /\ \/ starts' = listed /\ UNCHANGED faults
          \/ starts' = NoStarts /\ faults > 0 /\ faults' = faults - 1
       /\ IF Recent(listed) >= MaxStarts /\ file["prev"] # NoFile
          THEN /\ stage' = [stage EXCEPT !["guard"] = "prevtmp"]
               /\ data' = [data EXCEPT !["guard"] = file["prev"]]
               /\ cur' = [cur EXCEPT !["guard"] = file["bin"]]
               /\ UNCHANGED agent
          ELSE /\ agent' = "up"
               /\ UNCHANGED <<stage, data, cur>>
       /\ UNCHANGED <<file, latest, health, run, wait, step, fd, due, stops, ghosts>>

\* Mutant: the .prev is left where it is.
KeepPrev ==
    /\ stage["guard"] = "removing"
    /\ stage' = [stage EXCEPT !["guard"] = "clearing"]
    /\ UNCHANGED <<disk, latest, health, agent, run, wait, step, data, cur, fd, due, budget, ghosts>>

\* os.Remove of .prev; its error is not looked at.
RemovePrev ==
    /\ stage["guard"] = "removing"
    /\ stage' = [stage EXCEPT !["guard"] = "clearing"]
    /\ \/ /\ file' = [file EXCEPT !["prev"] = NoFile]
          /\ UNCHANGED <<faults, trouble>>
       \/ /\ faults > 0 /\ faults' = faults - 1
          /\ trouble' = trouble \cup {"cut"}
          /\ UNCHANGED file
    /\ UNCHANGED <<starts, latest, health, agent, run, wait, step, data, cur, fd, due, stops, dismissed, first>>

\* A clean slate, and main exits for systemd to start the old version.
ClearStarts ==
    /\ stage["guard"] = "clearing"
    /\ starts' = NoStarts
    /\ agent' = "down" /\ wait' = RestartDelay
    /\ ProcessGone
    /\ UNCHANGED <<file, latest, health, run, budget, ghosts>>

-----------------------------------------------------------------------------
Apply(p) == Ask(p) \/ Fetched(p) \/ FetchFails(p)

SwapBinary(p) == Open(p) \/ Write(p) \/ Rename(p) \/ SwapFails(p)

Next ==
    \/ Start \/ StartFails \/ Dies \/ Kill
    \/ RestartByHand \/ RestartDue \/ RestartFails \/ Tick \/ Publish
    \/ \E p \in Appliers : Apply(p)
    \/ \E p \in Swappers : SwapBinary(p)
    \/ Check \/ RemovePrev \/ ClearStarts

\* systemd keeps starting the agent (Restart=always), a bad version dies,
\* the guard goes on and time passes. Nothing is assumed of downloads.
Fairness ==
    /\ WF_vars(Start) /\ WF_vars(Dies) /\ WF_vars(Tick)
    /\ WF_vars(Check \/ RemovePrev \/ ClearStarts \/ SwapBinary("guard"))

Spec == Init /\ [][Next]_vars /\ Fairness

-----------------------------------------------------------------------------
(* Properties.                                                             *)

\* Types, and the ranges of versions, ages and budgets.
TypeOK ==
    /\ file \in [Names -> Contents] /\ file["bin"] # NoFile
    /\ starts \in [Ages -> Nat]
    /\ latest \in Versions /\ health \in [Versions -> Healths]
    /\ agent \in {"down", "guard", "up"} /\ run \in Versions
    /\ wait \in 0..RestartDelay /\ due \in BOOLEAN
    /\ stage \in [Swappers -> Stages] /\ step \in [Swappers -> {"open", "write", "rename"}]
    /\ data \in [Swappers -> Contents] /\ cur \in [Swappers -> Contents]
    /\ fd \in [Swappers -> Names \cup {"none"}]
    /\ stops \in 0..MaxStops /\ faults \in 0..MaxFaults
    /\ dismissed \subseteq Versions /\ first \in BOOLEAN
    /\ trouble \subseteq {"overlap", "again", "cut"}

\* "SwapBinary atomically replaces path with data" (update.go:183): whatever
\* is cut short, the path holds a whole binary and so does .prev, if there
\* is one, unless two swaps went on at once and shared the temporary files.
Runnable ==
    "overlap" \in trouble \/ (file["bin"] \in Versions /\ file["prev"] \in Versions \cup {NoFile})

\* ".prev must be consumed to avoid ping-pong" (update_test.go:187): a
\* version the guard replaced does not come back until an Apply installs
\* it, unless a rollback was cut short before .prev was removed.
DismissedStaysOut ==
    "cut" \in trouble \/ file["bin"] \notin dismissed

\* While a new version waits for its restart, .prev holds the version that
\* runs, so there is a way back; two Applies in one life of the process
\* lose it.
WayBack ==
    (agent = "up" /\ file["bin"] # run /\ trouble = {}) => file["prev"] = run

\* "A crash-loop guard at startup restores .prev automatically if the new
\* binary keeps dying" (README.md:260): from a version that dies right after
\* its starts, with a .prev that works, the path gets to a version that does
\* not die so, unless the rollback was cut short.
Doomed ==
    /\ file["bin"] = run /\ health[run] = "crashes" /\ agent # "down"
    /\ file["prev"] \in Versions /\ health[file["prev"]] = "good"

Rescued ==
    \/ file["bin"] \in Versions /\ health[file["bin"]] # "crashes"
    \/ "cut" \in trouble

Recovers == Doomed ~> Rescued

\* "if this binary keeps dying right after start and a .prev exists, restore
\* it" (main_linux.go:64): no version is replaced in the first of its starts.
OnlyIfDying ==
    [][dismissed' \subseteq dismissed \/ ~first]_vars
=============================================================================
