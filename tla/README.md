# Statix Agent in TLA+

Statix Agent is a daemon that watches one Linux host and is run from a
Telegram chat: it sends alerts, answers commands, and changes the host
(services, SSH sessions, firewall rules) on confirmed presses. This directory
holds TLA+ models of the parts of the agent that are hard to get right, the
TLC configurations that check them on small instances, and proofs of their
main theorems, checked by TLAPS.

    tlc -config FwTrialUFW.cfg MCFwTrial.tla      # a run; all are in PROJECT.json
    tlapm FwTrialProofs.tla                       # a proof module

`PROJECT.json` lists the components, the runs, one mutant per checked property
(a plausible bug that makes TLC find the property violated), the source lines
each definition stands for, the hazards of the code and which property covers
each, the findings, and the theorems.

## 1. The system

One process, started by systemd with `Restart=always`, runs these loops as
goroutines (`Agent.Run`, agent.go:322); each is restarted a second after a
panic.

| part | state | operations | talks to |
|---|---|---|---|
| bot loop (agent.go, replay.go) | the update cursor in memory and in `tg-offset` | long poll, take an update, save the cursor, handle | Telegram; every handler below |
| confirm tokens (tgui/confirm.go, agent/confirm.go) | tokens by nonce, in memory | Mint, Rebind, Claim, Cancel, Finish, evict; ask, press, act | handlers of the bot loop; the firewall trial mints its own |
| firewall trial (fwdeadman.go) | `current.json`, snapshots, a systemd timer, an in-process timer, SSH connections seen | runTrial, Keep, Roll back now, three rollback layers | a backend; `statix-agent --fw-rollback`, a second process, under a file lock |
| firewall backends (fwbackend.go, fwfirewalld.go) | ufw's files and the kernel; firewalld's permanent and runtime configuration | Snapshot, Hash, Apply, Revert, Restore, Commit | other tools edit the same rules |
| firewall plans (fwplan.go, fwrules.go) | pending plans in memory, with the generation they were made against | plan, simulate, guard SSH, show, run | tokens, trial |
| alert engine (alert/alert.go) | firing state, streak, last fire, snooze per key | Threshold, Check, Seed, Event, Snooze | all loops; snooze presses |
| sampling, watched checks, docker, power, certificates, keys, digest | what each loop saw last | read, judge, push | engine, Telegram |
| SSH watching (sshwatch, trust.go) | brute-force windows, known keys, trusted sources | read a log line, alert, learn | engine; bot commands |
| service actions, kick (svaction.go, sshkick.go) | the targets being worked on | list, ask, act, poll the outcome | tokens, systemd, docker, loginctl |
| live mode (live.go) | the one live session | start, frame, stop, ceiling | Telegram |
| self-update (update/, main_linux.go) | the binary, `.prev`, `.new`, recent starts | check, download, verify, swap, restart; roll back a crash loop | systemd; a pending trial blocks it |
| Telegram client (telegram/) | the chat's send budget | send, edit, answer, delete, poll | everything |
| config, audit log, screens, host readers, installer | files; nothing | load and save; append and rotate; render; parse | |

What makes each hard and what makes it correct:

* **Firewall trial.** Two processes, three timers, a reboot and other tools act
  on the same rules; every command may fail and every step may be the last one
  before a crash. Correct: nothing but an explicit Keep leaves new SSH rules in
  force, every trial ends, nobody is locked out, other tools' edits survive.
* **Confirm tokens.** Buttons never go away: presses are doubled, late, made by
  others or on messages of an earlier process, and an edit may fail so that the
  screen ends up in another message. Correct: an action runs at most once per
  request and only for its asker, and the Yes last shown does work.
* **Bot loop.** Telegram delivers at least once; a crash may come between an
  effect and the confirmation of its update. Correct: no effect twice, no update lost.
* **Alerts.** Decisions, sends, snoozes and restarts interleave, reads and sends
  fail. Correct: a failure is told once, and the chat ends up with the truth.
* **Self-update.** Two goroutines swap one file; a kill between renames; a crash
  loop that must end. Correct: always a whole binary, a way back from a new
  version, and one that keeps dying is left and not returned to.
* **Live mode.** A ceiling, a press and a newer session race. Correct: one
  session, and no frame after the message was restored.
* **Trust, limits, plans.** Files that could not be read are never overwritten;
  budgets hold at their boundaries; a plan runs once, on the rules it was made for.

## 2. Modules

| module | models | checked by | proved in |
|---|---|---|---|
| `FwTrial` | the dead-man switch over both backends | `MCFwTrial` | `FwTrialProofs` |
| `FwPromise` | what it promises: rules change only during a trial, which ends kept or as before | `KeepsPromise` of `FwTrial` | `KeepsPromiseCorrect` |
| `ConfirmTokens` | the token store and the handlers around it | `MCConfirmTokens` | `ConfirmTokensProofs` |
| `ConfirmPromise` | at most one run per request, on its asker's word | `KeepsPromise` of `ConfirmTokens` | `Refinement` |
| `BotLoop` | cursor, replay and restarts against Telegram's queue | `MCBotLoop` | `BotLoopProofs` |
| `Alerts` | engine, sampling, watched checks, snoozes | `MCAlerts` | `AlertsProofs` |
| `SelfUpdate` | Apply, the swap, the restart, the crash-loop guard | `MCSelfUpdate` | `SelfUpdateProofs` |
| `FwRules` | rules, first-match verdicts, simulated changes, the SSH guard: no state | by `FwPlans` | `FwPlansProofs` |
| `FwPlans` | planned changes from the command to the trial | `MCFwPlans` | `FwPlansProofs` |
| `FwDetect` | which firewall is in charge, the buttons offered | `MCParts` | `HostProofs` |
| `LiveMode` | live sessions, presses, ceilings | `MCParts` | `ChatProofs` |
| `ChatClient` | pacing of the chat's calls, 429s | `MCParts` | `ChatProofs` |
| `SplitMessage` | long messages cut into several | `MCParts` | `ChatProofs` |
| `BruteDetector` | the window of failed logins | `MCParts` | `HostProofs` |
| `SshTrust` | trusted sources, known keys, their files | `MCParts` | `HostProofs` |
| `PressGate` | who may press, how often, and the one answer | `MCParts` | `ChatProofs` |
| `ServiceActions` | start, stop, restart and their outcome | `MCParts` | `HostProofs` |
| `WatchLists` | the watch lists and a threshold, and the config file | `MCParts` | `HostProofs` |
| `EventLoops` | power, containers, authorized_keys | `MCParts` | `HostProofs` |

`MCParts` holds ten parts whose modules share no state: the chat, the host and the
config file are external to each. A behaviour of it is one of a single part, chosen
at its start, so that one run asks of each part its own question and their states
add up instead of multiplying.

### FwTrial

`stored` is what survives a reboot (ufw's files, firewalld's permanent zone),
`live` what filters packets; `Backend` decides which of the two a snapshot and a
hash read and how changes travel. `rec` is `current.json`, `cs` the critical
section under `lockFw`, as a record with its step: one action per step of
`runTrial` (Snapshot, Record, Arm, Baseline, Apply, Post, Verify), of
`rollbackLocked` (Decide, Revert, Guard, Restore, Finish) and of Keep (Commit,
Uncommit). Commands run one at a time, so a failure or a crash leaves any prefix
of them. Foreign edits, connections, timers, crashes of either process, reboots
and the deadline interleave with every step.

* `Direct` says whether a ufw command reaches the kernel before the reload; the
  ufw runs take the worst case, FALSE. `Kinds` names what may go wrong in a run,
  so that each run spends its faults on one question.
* A hash that cannot be read is left out of the firewalld run: rollback then
  takes the `default` branch (fwdeadman.go:621) and restores the snapshot, which
  drops foreign edits without saying so.
* `Restore` of firewalld that goes straight to the reload because the zone cannot
  be read is the failing case of `Restore`.
* What is on trial is one of two SSH port plans; where plans come from, and the
  plan that restores an older snapshot, is `FwPlans`.

### ConfirmTokens

`tokens` is the store, `job` the handler at work; its steps are the points
between Telegram calls at which the clock, a crash or the host may come in.
`drawn` holds every Yes that was ever shown, each with its message and process
start: any of them may be pressed by anyone at any time, which stands for double
taps and redelivery. Nonces are random in the code and count up here, which
makes the store's order the order of minting. Refused presses change nothing
and are stutters. The per-target locks (svaction.go:446-468, confirm.go:259-270)
are taken and released within one handler, and one loop runs all handlers, so
they are always free and left out. A second prompt may refuse (`RefuseTwice`): its screen
or toast replaces the question, and nothing runs. Authorization, the press limiter and the audit
log are left out. A Keep that its trial refuses counts as run: its token is used.

### BotLoop

Telegram's `queue` keeps an update until a poll with a higher offset, or a day
(`DaysPass`, which also makes `tg-offset` stale and, after a week, lets IDs start
anywhere). `offset` is the cursor in memory, `saved` the one on disk. An update
is a view command, another command, a plain press, or the Yes of a confirm. The
30 seconds of `queuedGrace` are the choice between `Refuse` and `CommitFirst`
for a command of an earlier start. An empty `OffsetPath` (no config directory)
is not modelled. A start that cannot read the file adds everything seen to
`unkept`: then only Telegram's own confirmation protects.

### Alerts

A round judges all its keys in one step (`Judge`) and leaves `notice`s that
`Push` sends one by one, while presses, time and the other loop go on. Times are
what is left of them (`cool`, `snoozeLeft`), and `streak` stops where it is no
longer compared, so nothing has to be bounded. A metric's level is past its
threshold, back by the margin, or between; a change of a threshold is a change
of levels. For a check "between" is a state that is neither a pass nor a fail.
`LookFails` leaves out what could not be read. A restart forgets all but the
chat. A round takes its time when it starts and a press may come before it
judges its last key; the model judges at one moment. `Engine.Event` is
`EventLoops`'.

### SelfUpdate

`file` is what the binary's path, `.prev` and the two temporary files hold:
a version, nothing, or a truncated file. Three swappers run the same
`SwapBinary`: the auto-update loop, a confirmed `/update`, and the guard. Each
`os.WriteFile` is an `Open`, which truncates, and a `Write`; each `os.Rename` a
step. `fd` follows a file that another swapper renames while it is written. A
release is fetched whole or not at all, which stands for signature and checksum.
`starts` counts the listed starts by age: entries older than the window never
count again. A version works, dies right after its guard, or dies before it
(it does not read the config, main_linux.go:59); the first one works. The
refusal of an update while a trial is pending changes nothing here and is left
out; what a restart does to a trial is `FwTrial`'s question. A power loss, after
which files that were not synced may be empty, is not modelled: `Kill` leaves
the files as the process saw them. `trouble` records what the properties except:
two swaps at once, a second Apply before the restart, a rollback cut short.

### FwRules and FwPlans

`FwRules` is pure, as fwplan.go and fwufw.go are: a rule is a record whose empty
sets of ports and sources mean any, `Verdict` is the first match with the rows it
cannot tell, `simulate` and `planSpecs` change a list, `ZoneRules` lays a firewalld
zone out in its order of evaluation. Against them stands a second, direct reading
in `FwPlans`: `Accepts` asks for one packet, and for each set of uncertain rows
that may match it, what the first row that does says. `StaysReachable` and
`DenyHolds` use only that reading, so an error in `Verdict` or in the guard is not
repeated in what judges them.

`fw` is the firewall, `plans` the pending store with its limit and expiry (a plan is
filed under the number of its request, so that the lowest is the oldest), `running`
a plan between its Yes and the rules read back: `RunPlan`, `ApplyPlan`,
`VerifyPlan`, with edits by other tools and logins in between. The trial's records
and timers are `FwTrial`'s; here it ends kept or as before. The token in front of a
plan is `ConfirmTokens`'. A command's text is a set of specs; labels and wording,
and with them rows that differ only in print, are left out.

### FwDetect

`reading` is one `detectFw`, a command per step, while `host` changes; `Show`
keeps what it found and the buttons, `Run` is the action path's own detection.
A probe's many texts are the states of `sshPortState` and the failures before it.
`refusal` is a chain of conditions of which the first that holds decides, as the
code's switch is.

### LiveMode

`sess` holds every session with its step, `press` the update loop's handler, which
blocks until the session it stopped is over. `Edit` lands or fails. A frame that a
cancel interrupts may have landed or not. What a frame shows, and the 429 pause
itself, are left out: a pause only makes `NextFrame` later.

### ChatClient and SplitMessage

`bucket` is the limiter under its mutex, in whole tokens and intervals; `call` is
each goroutine's call: paced, sent, waiting out a 429, sent again. In `SplitMessage`
each turn of the loop is a step; a tag and an entity are two bytes wide and a letter
one, and a cut inside a token moves to its start. The agent's texts are well
nested, at most `MaxDepth` tags deep, and a message has room for that many tags
reopened, one token and the tags closed (`SplitAssumption`): the code's limit is
4096 bytes and its texts hold a tag in a tag. Without that room the code would cut
inside a tag (`broken`). The run takes the smallest limit the assumption allows.

### BruteDetector and SshTrust

`attempts`, `fired` and `lastSweep` are the detector's; `all` and `should` are a
second detector that forgets nothing. An attempt is its number in `all`, and those
of an address are a set: the code only counts them, drops those out of the window
and takes the newest. In `SshTrust`, `files` is the disk, `hand`
what a person or a fault last left there, `store` both stores in memory, `matcher`
the published prefixes. A login is read in one step and alerted in another, with
presses, commands and restarts in between. One user, two addresses and a network
that covers both stand for the prefixes. The failures of an address are a parameter
of the login, since they are `BruteDetector`'s to count.

### PressGate

A press goes through `authorize`, `allow` and one of the paths of `handleCall` and
`handleCallback`, each given by the answers it sends and whether it changed
anything; `Data` has one member for each path, not for each button. A press is one
step because one loop handles all; its answers are counted at its end.

### ServiceActions

`unit` is sshd in systemd: its state, the number of its run, and the waiting job,
which is picked up later and replaces another. `flow` is a press from its prompt to
its receipt: find, read, queue, poll. Two flows stand for a lock that would have to
exclude; the code's one loop never lets them meet. The policy's list is empty or
names everything. A run numbered 0 is one of a systemd without InvocationID, whose
runs `settled` cannot tell apart: there the first settled state counts, as its comment
and the test "old systemd" say, and `OutcomeTrue` claims no more than that state.

### WatchLists

`cfg` is memory, `config` the file; a save writes the whole file or nothing.
Buttons of any age carry an item (new ones) or an index and a fingerprint (old
ones), typed numbers are resolved against the last scan. Units and ports stand for
all four lists, one threshold for all.

### EventLoops

Each loop's baseline, its edges and `Engine.Event`'s cooldown per key. The
cooldown is about as long as the interval of the slower loops, so at its end the
jitter of the ticks decides (`MayTell` and `MayHush` overlap). Snoozes of these keys
are left out: they silence what the user asked to be silent. `heard`, `edges` and
`lost` are history, read by no action: what the chat heard, when what the loop reads
changed the last three times, and when a notice was lost. `LastWordTrue` compares
them: when the chat's last word is not what the loop read last, the last change's
notice was lost, or the adapter or container was gone, or the change before the last
but one (in authorized_keys: the last but one) lies within the cooldown. It is the
keys that make this so, one for each direction of power and of containers: with one
key for both, one outage shorter than a minute would never be told to be over.

## 3. Runs

| run | instance | shows |
|---|---|---|
| `trial_ufw` | 2 trials, 1 fault, 1 crash or reboot, 1 foreign edit, 2 files | types; the snapshot is there; after a trial the rules are the agreed ones in files and kernel; foreign edits survive; `FwPromise` is implemented |
| `trial_firewalld` | 1 trial, 1 fault, 1 crash, 1 edit, 1 connection, with fairness | as before over two configurations; Keep needs a new connection; every trial ends |
| `trial_faults` | 1 trial, 2 faults of any kind, 2 crashes, 1 edit, no systemd | the record always precedes the change; by the stored rules SSH stays reachable (the kernel's after a failed reload: `half_restore`) |
| `half_restore` | 1 fault | a trial that ends with its rules still in force (finding) |
| `confirm_tokens` | 2 users, 2 actions, a store of 2, 3 tokens, 2 messages, 2 starts | `ConfirmPromise` is implemented; the limit drops the oldest and never a newer one; the Yes last shown works |
| `bot_loop` | 2 updates, 3 starts, 2 faults, 1 quiet day | nothing replayed, nothing dropped, everything taken up |
| `alerts` | 1 metric (2 samples), 1 check, cooldown 1, snooze 1, 1 fault | one alert per failure; engine and chat agree; what lasts is told |
| `alerts_snoozed` | one metric | a snoozed violation never comes back (finding) |
| `self_update` | 2 releases of any health, 2 starts in 2 ticks make a loop, 2 stops, 1 fault | binaries whole; a dismissed version stays out; a way back; a crash loop ends in the version before |
| `firewall_plans` | ufw lists of up to 2 + 1 rows and firewalld zones, 3 requests, deletes and restores, 2 asks, 1 edit, any logins | no change on trial cuts an admin off; a planned deny denies; what runs is what was shown |
| `guard_unsure` | ufw lists with a deny bound to an interface | the guard passes over it (finding) |
| `agent_parts` | ten parts, each alone | one or two properties of each, below |

`agent_parts` checks: `OffersWhatRuns` (a change names a manager that enforced
during its own detection), `NoOrphan` (no live frame is left behind, no two
sessions), `Paced` (Telegram's limit, and no debt without a waiter),
`SplitFaithful` (all of the text, balanced, within the limit), `PruneHarmless`
(forgetting changes no alert), `SilentVouched` and `StoresKept` (silent logins,
state files), `PressGated` (one answer, the budget, the rights), `OutcomeTrue` and
`ActsGuarded` (receipts and guards of service actions), `ButtonMeansItem` and
`SavedAsTold` (old buttons, unsaved changes), `LastWordTrue` (the last word on
power, containers and keys).

The type invariants of `ConfirmTokens`, `BotLoop`, `Alerts` and `SelfUpdate` are
proved by TLAPS (section 4) and not listed in their runs.

**Why the bounds are enough.** The second trial of `trial_ufw` is there for
what the first may leave behind (its timers, snapshot, buttons): a third adds
nothing new, since only one trial is pending at a time and `KeepSnaps = 1` already
makes the first one's snapshot a candidate for pruning. Two faults let a
rollback's repair fail as well. Three tokens in a store of two make eviction
happen with every combination of pending, running and expired ones; a third user
would behave as the second (the symmetry set). Two updates give a batch that is
cut short, and three starts let a replayed update be replayed again. One metric
and one check are enough because the engine's keys do not interact; a sustain of
two and a cooldown and a snooze of one tick give every order of their ends.
A crash loop of two starts and one of three differ only in how often the same
steps repeat; two kills or restarts by hand complete a loop after a rollback, and
two releases are one to leave and one to return to.
In `firewall_plans` two rows of one family put an allow, a deny, an unresolved and an
interface-bound rule before and behind each other in every order; two asks let two
plans wait side by side, one edit makes either stale.
In `agent_parts`: three sessions let a takeover be taken over; three callers on a
bucket of two make a queue in which the middle one is cancelled; texts of seven
tokens over a limit of eleven bytes need two cuts with a tag open across both (a
limit of ten leaves no room for an edit's footer and nested tags); seven ticks over
a window of four let an address fire, fall quiet and be forgotten while the other
goes on; two logins let one learn what the other uses; four presses over a burst of
two cross the limit and its refill; two asks, one other hand and one failed look
give each way an outcome could be mistaken, and the second flow for the lock; two
units and a port move every index; five looks pass a cooldown of two
twice, and let power go, come back and go again inside it.
`CHECK_DEADLOCK FALSE` stands where the bounds run out; `Alerts` has no such
bound and, like `SelfUpdate`, is checked for deadlock.

**Fairness.** `FwTrial`: a process that holds the lock goes on, systemd starts
the agent again (`Restart=always` in the unit the installer writes), timers fire.
`BotLoop`: the loop polls again after an error (agent.go:749-755), handlers
return, the process is started again. `Alerts`: both tickers go round, sends
return, with or without success, and time passes. `SelfUpdate`: systemd starts
the agent after its delay, a version that dies does, the guard goes on, time
passes; starts are punctual, so that five seconds never become minutes.
Nothing is assumed of users,
of Telegram's success or of the host. The other modules state no fairness: their
properties are about safety.

## 4. Proofs

All theorems hold for every value of the constants that the named assumptions
allow: any number of trials, files, users, tokens, updates, keys, faults.

* `FwTrialProofs`. `TypeOK` alone is not enough for `TrialHasSnapshot`: between
  the removal of an old trial and the record of a new one, the pruning and the
  snapshot must know which trial is at work. `IInv` adds `SectionMatchesRecord`:
  the critical section's copy of the record and the one on disk agree from the
  moment it is written. From it follow type correctness, that a pending trial has
  its snapshot, and that no step but a reboot changes an SSH rule without a record.
  - `ForeignKeptCorrect`, unless the rules cannot be hashed (`"hash" \notin Kinds`:
    then the rollback restores the snapshot in silence). `CalmWaits` says where a
    foreign rule can be that was added while a complete trial waits, and that the
    records still tell the rules of the trial without it.
  - `KeepNeedsNewConnCorrect`, unless connections cannot be listed (`"ss"`).
    `FreshIds` numbers the trials, `ConnsKnown` says that every connection a verified
    trial finds was in its baseline or opened since.
  - `NoLockoutCorrect`, for ufw. `Undoing` follows the commands that bring the files
    back: the reload is the last of them, and each file is written or still to be.
    `NoLockoutInv` carries along that what a rollback goes back to lets in.
  - `KeepsPromiseCorrect` (the refinement of `FwPromise`, step by step) and
    `RolledBackUfw`, for ufw where no rollback stops half-way
    (no `"revert"`, `"restore"`, `"restoreCrash"` in `Kinds`; `half_restore` shows
    why). `UfwInv` follows the command lists of Apply and Revert through every
    prefix: the plan was made for the agreed rules (`UfwRecords`), what is done and
    what is left of it leads there and back (`UfwRules`); `UfwLive` adds the kernel's
    tables, which may be behind the files only in the middle of a change or an undo.
    `RolledBackUfw` also assumes `Direct` or that no process is killed (section 5).
  - `RolledBackFirewalld`, `NoLockoutFirewalld` and `PromiseStepsFirewalld`, for
    firewalld, crashes and reboots included. `FwdInv` follows the plan through both
    configurations: the runtime rules are the agreed ones or on their way to or from
    them, and the plan's outcome once verified (`FwdLive`); the permanent ones are the
    agreed ones but inside a Keep, where what is left of the plan leads to its outcome
    and undoing what was done leads back (`FwdStored`). The step from one to the next
    is a lemma about prefixes of the four plans there are (`PlanCases`, `PrefixShape`,
    `PrefixBack`). All of it holds while `kept \subseteq verified`, as in the
    properties themselves: a trial resumed in the middle may be kept with the rules it
    happens to have. `KeptStays` shows that the condition, once lost, stays lost.
    The theorems assume that no undo by Revert and no removal of a record fails, that
    no crash strikes inside a Keep, and at most one fault where a Keep's commands may
    fail (a second one would hit the way back). None can go: with `"revert"`,
    `"remove"`, `"commitCrash"` or two faults of `"commit"`, TLC finds traces that
    break `RolledBack` and, with a reboot after them, `NoLockout` (section 5).
  - `KeepsPromiseFirewalld`, the refinement without a condition on what was kept,
    assumes besides that nothing crashes, reboots or fails in a Restore: the Keep
    of a half-done trial makes the two configurations differ, and the reload at the
    next reboot or failed undo is then no step of the promise (TLC finds that as well).
* `FwPlansProofs`. `GuardRight`, about `FwRules` alone: two rule lists, of any length
  and content, that `sshGuard` passes. A verdict that lets the peer in is true
  (`VerdictTrue`); where it does not and is the same before and after, what let the
  peer in was a row the verdict lists, which stands before the deciders of the new
  list too (`LetInListed`, `ListedEarly`). From it and `GuardedTrial` (nothing changes
  the rules between the guard's last look and the trial's end) follows
  `StaysReachableCorrect`: `Known => StaysReachable`. `Known` asks that the lists
  are rows with an action, and that no row of the new list blocks whose match cannot
  be told; without the second part it is false, which is the finding of
  `guard_unsure`. `Known` holds in every state of `firewall_plans`.
  `AsShownUfw`: `ShownInv` says of every pending plan that it shows the outcome of its
  changes on the rules it was made against, and of one whose Yes was accepted that it
  meets these rules until another tool edits them.
  `DenyHoldsCorrect`, on both backends, for any rule lists, zones, plans, edits and
  peers. Three facts carry it. The plan for one spec is deletions, of every spec that
  says otherwise of the same traffic, and last the spec (`PlanOneSpec`). On ufw these
  deletions leave no row that says anything else of the deny's traffic, so that it is
  placed and not only rewritten, before every row of its family (`Deletions`,
  `PlacedFirst`, `DenyFirstUfw`). On firewalld the deny is a rich rule of
  the zone afterwards, and in a zone without negative priorities nothing of its family
  that lets in comes before it (`FwdChangeType`, `ZoneDeny`). `DenyDecides` closes both:
  a row that nothing before it contradicts decides the packet, whatever uncertain rows
  match. The inductive invariants `UfwTyped` and `FwdTyped` say that rules, zones and
  snapshots are what `FirewallAssumption` says of the first ones, and that a pending
  deny is the plan for its one spec on the rules it was made against.
  Lists are picked, and plans made, one entry after the other. The induction this needs
  is not the library's but `NatSet`, over a set of numbers: a definition that
  goes from each step to the next has a value (`StepsExist`), and what holds first and
  at each next step holds at every one (`Along`); `Nth` and `PickedList` say what
  `Picked` leaves of a list, `Flattened` what the zone's groups become. For their sake
  `simulate`, `planSpecs` and `FwdApply` are recursive functions over the plan, and
  the code's zero string is `Zero`.
* `ConfirmTokensProofs`. `IInv`: nonces are handed out once, a pending
  token is its asker's, and the one a handler works for is no longer pending. With
  it every step of the store and the handlers is a step of `ConfirmPromise` or a
  stutter (`Refinement`). `EvictsOldestLastCorrect` rests on `TopCount`: as many of a
  set's numbers as are asked for have fewer than that many above them, an induction
  over that count by the least counterexample. `SeenYesWorksCorrect` needs `SeenInv`:
  the message the store has for a token is the one its Yes was last drawn in, or the
  handler at work is about to say so.
* `BotLoopProofs`. `IInv` relates the three cursors: an update that took effect
  is below the cursor in memory, and below the one on disk or gone from
  Telegram's queue unless it is `unkept`. `NothingDropped` needs
  `~RestartsWhileUp` as a hypothesis (section 5).
* `AlertsProofs`. `IInv` says of each key that one which fired for its failure,
  or failed at its first look, is firing in the engine, and that a notice not
  sent yet is still true. `OncePerFailure` and `ChatAgrees` follow.
* `SelfUpdateProofs`. `IInv` follows each swapper: alone, it renames the file it
  wrote (`OwnFile`), what it read is whole (`Whole`), the guard's own version is
  the one installed until its swap is done (`GuardAtHome`), and neither `.prev`,
  nor a buffer, nor a file on its way to `.prev` holds a dismissed version
  (`NoReturn`). `Runnable`, `DismissedStaysOut` and `WayBack` follow.
* `ChatProofs`.
  - `NoOrphan` is not inductive: a session that ends without being registered
    leaves its frame to somebody. `Owned` says to whom (it is registered, restoring,
    or the press at work waits for it) and `PressKnows` that this press has cancelled
    it and will edit its message.
  - `Paced` needs `PaceInv`: for every h, the calls sleeping that are due within h
    intervals and what the bucket holds by then stay within the pace (`Spread`,
    `Bounded`), the bucket's debt is never more than what still sleeps (`Owed`), and
    what was sent since any earlier request keeps the pace together with what is due
    (`SentBounded`, `SentPaced`).
  - `PressGated` needs `GateInv`: from any press an actor worked on, the presses since
    and what is left in the bucket stay within the burst and the time gone by, a
    forgotten bucket being a full one (`WithinBurst`, `Rated`).
  - `SplitFaithful` needs `SplitInv`: some text was cut off so far, the open tags are
    those it leaves open, and the pieces show what it shows (`Halves`); no text is
    deeper than the agent writes, wherever it is cut (`Deep`). Width, open tags and
    marks are all one reading of a text, token by token (`Through`), so that what is
    said of a text in two parts is proved once (`ThroughBoth`), by induction over
    positions. `CutFits` shows that the shrinking loop ends with a cut of one token
    or more whose piece fits: each turn either fits or takes the cut lower, and one
    token always fits. `PieceShows` says that tags reopened and closed show nothing.
* `HostProofs`.
  - Service actions: `ActsInv` follows a flow: what it has asked for by each step
    (`Asked`), that the read before the job is of the run it looked at and runs only
    follow it (`Looked`), that working flows have different items (`Exclusive`).
    `ActsGuarded` and `OutcomeTrue` follow.
  - Trust: `TrustInv` relates memory, file and what was told: a store that refuses to
    save has a damaged file and the other way round (`Agrees`), a claim holds in both
    (`ToldRight`), every known key is vouched for. `StoresKept` and `SilentVouched`
    follow, for any `ConfigTrusted` within the prefixes (`ConfigAssumption`).
  - Watch lists: `ToldInv` says that what was claimed of an item holds in memory as
    well as in the file, for any lists; `SavedAsTold` and `ButtonMeansItem` follow.
  - Event loops: `LoopInv` relates the cooldowns to the history of edges: a key fired
    at an edge, and at one before the last when what it tells of is no longer so
    (`FiredAtEdges`). A hushed edge therefore has two others in the cooldown before it,
    or one where a key is every edge's, and `LastWordTrue` follows.
  - Brute force: `BruteInv` says that the attempts kept of an address are its own and
    have all of those in the window (`KeptOwn`), and that a forgotten alert is
    one out of its quiet period (`FiredOwn`). `PruneHarmless` follows.
  - Detection: `DetectInv` carries what the reading at work has witnessed at each of
    its steps (`Witnessed`). `OffersWhatRuns` follows.

The named assumptions on constants say what the code's constants are: an address is
of one family (`AddressAssumption`), the burst is at least one (`BurstAssumption`,
`ChatAssumption`), a message has room for the deepest token (`SplitAssumption`),
window and threshold are numbers (`BruteAssumption`), so is the loops' cooldown
(`LoopAssumption`), rules and
zones are lists of rows and a deny is of one source (`FirewallAssumption`), no item is
the mark of the thresholds (`ItemsAssumption`), and so on, each in its module.

Only model-checked:

* Nothing is claimed of `RolledBack`, `NoLockout` and `KeepsPromise` of `FwTrial` with
  the failures their theorems exclude: TLC refutes them there (`half_restore` for ufw,
  section 5 for firewalld).
* `AsShown` with firewalld: it compares what `FwdApply` leaves of a zone with what
  `simulate` shows of its rows, for every kind of change at once; a proof would follow
  both through each list of a zone, as `DenyHoldsCorrect` does for one.
* All liveness (`TrialEnds`, `EverySeen`, `Told`, `Recovers`), which is out of the
  prover's reach with `ENABLED` and fairness.

## 5. What the work found

Three runs end in a violation of something the repository says (PROJECT.json,
findings): a failed ufw reload ends a trial with its rules in force; a snoozed
violation never fires again; the SSH guard passes over a deny it cannot resolve.
Seen while modelling, without a run:

* The second question of a kick is skipped when another session ends between the
  count and the kill (confirm.go:254, against sshkick.go:17-19); `RiskyAskedTwice` of
  `ConfirmTokens` fails.
* Update IDs that restart under a running agent are confirmed unread (agent.go:757,
  against replay.go:31-32): with `RestartsWhileUp = TRUE`, `NothingDropped` fails.
* The guard replaces a new version in its first start, since starts of the old one
  count (rollback.go:46, against main_linux.go:64-65): with three starts in three
  ticks and no fault, `OnlyIfDying` of `SelfUpdate` fails.
* A session at its ceiling may restore its message after a press has put another
  screen there (live.go:135, 215): the press's screen is lost, no frame stays.
* A firewalld rich rule of negative priority that accepts comes before a planned
  deny (`DenyHolds` excepts it).
* An address may fire again without having been silent for a window: only attempts
  over the threshold slide its quiet period (brute.go:58-63, against 9-12).
* `ActUnit` ignores an error of its first read, after which any old run looks new
  (actions.go:82; `OutcomeTrue` excepts it). So it does under a systemd without
  InvocationID, on purpose (actions.go:120-121): there a restart's "done" may be about
  the old run, before the job is picked up.
* A first Yes whose list fails, or does not show the unit, asks no second time
  (svaction.go:316-322), so sshd may be stopped after one Yes, against
  svaction.go:29-30 (`ActsGuarded` excepts both).
* An inactive unit nobody watches is not listed (svhub.go:367), so "only this bot
  can start it again" (svaction.go:355) does not hold for it.
* `config.Save` renames without a sync (config.go:400), unlike `WriteStateFile`.
* Old watch buttons drop the note that a change was not saved; "already" replies
  after a failed save do not save either; edits of config.toml under a running agent
  are overwritten by the next change; numbers are resolved against the last scan,
  whoever asked for it.
* authorized_keys and Docker are polled as often as their cooldown is long, so
  jitter decides whether a second change is told; a removed container is never told;
  an adapter that vanishes and comes back off is never told; a failed read of
  authorized_keys is told as its removal.
* The digest is sent twice on a day whose hour is changed and followed by a restart,
  and one whose send fails loses its counts (digest.go).
* A crash inside firewalld's Keep, after the permanent rules changed, leaves a
  trial whose rollback restores the runtime rules only (fwdeadman.go:823). So does a
  removal of the record that fails ("Keep failed", fwdeadman.go:826), or a permanent
  command that fails while a failed Keep is taken back. The next reboot or reload
  brings in the rules of a trial that was rolled back, be they a deny of SSH. TLC finds
  `NoLockout` violated with `{"crash", "reboot", "commitCrash"}` and two crashes, with
  `{"remove", "reboot"}`, and with `{"commit", "reboot"}` and two faults.
* With firewalld, an undo command of Revert that fails while the guard sees SSH open
  leaves a rule in the runtime only. The next plan is made from the runtime and
  its Keep repeats that plan on the permanent rules, which may keep an old deny: the
  reboot after the Keep shuts SSH. `NoLockout` fails with `{"revert", "reboot"}`, one
  fault, one foreign edit and two trials.
* A round that could not read a watched check forgets it, and its next failure is
  recorded as a first look, in silence (servicesloop.go:83).
* The guard's swap saves the bad binary over `.prev` before it installs the good
  one (rollback.go:54, update.go:187-199): a kill or a full disk in between loses
  the good one. `Recovers` without its exception `"cut"` fails so.
* Two swaps at once share `.new`: one may install the file the other has just
  truncated (update.go:196-200), and a second Apply before the restart leaves the
  new binary in `.prev` too. `Runnable` and `WayBack` except both.
* With auto-update on, the version that a crash loop was rolled back from is still
  the latest release and is installed again at the next tick (main_linux.go:145),
  whereas README.md:261 says that versions cannot ping-pong.
* A new version that cannot load the config dies before the guard
  (main_linux.go:59-62) and is never rolled back, though rollback.go:12 calls the
  guard the first thing on startup.
* A reboot undoes firewalld's runtime change, and the restarted agent still shows
  "Trial applied" with a Keep button (fwdeadman.go:930, 552).
* The SSH baseline is taken before the change and empty after a failed `ss`
  (fwdeadman.go:402, 779): an old connection may count as new evidence.
* A rollback that fails by layer 2 is not retried while the agent runs, though
  current.json is kept so that "a restart tries again" (fwdeadman.go:606).
* A foreign edit between Apply and the hash after it is lost with a rollback
  (fwdeadman.go:601), which no property here rules out.
* A kill during a rollback by Revert, after the files are back and before ufw's
  reload, followed by a foreign rule that comes and goes again: the next rollback
  finds the rules unchanged, finishes, and the kernel still has the trial's rules
  (fwdeadman.go:617). It takes `Kinds = {"crash"}`, `Direct = FALSE` and two edits;
  `trial_ufw` has one. The root is that of `half_restore`: the hash reads the files.
* A failing command of a rollback by Revert leaves rules of the plan while SSH is
  open; the trial still ends with success.
* After a refused Keep whose edit failed, the fresh buttons stay bound to the old
  message (confirm.go:281-288).
* Power that is lost, back and lost again within a minute: the chat ends with
  "restored" (agent.go:554). `LastWordTrue` lets only this and two edits of a file
  within a minute pass; a container looked at once a minute cannot flap so.

`RolledBack` and `NoLockout` speak of trials kept with the rules `verify` passed:
one that a restart resumed halfway may be kept with the rules it happens to have.

## 6. Not modelled

* Parsing and rendering: procfs, sysfs, log lines, ufw and firewall-cmd output,
  screens, button data, TOML, digest text. They have no state; a model would repeat
  the code, and tables of inputs test them better. The models take what they return
  as values, and reads that fail as failures.
* HTTP, JSON, signatures and checksums of downloads: external, seen as calls that
  succeed or fail.
* The audit log, which never blocks what it records.
* The digest's once-a-day bookkeeping, certificates, restart counts of containers
  and the reboot notice: each is one comparison with what was read before, as in
  `EventLoops`.
* The kill of an SSH session and its identity by fingerprint, which depend on
  loginctl's answers more than on the agent's steps.
* The countdown edits of a firewall trial's message, and the keyboard edits of
  snoozed alerts: a lost one changes what is seen, not what happens.
* A power loss that loses what was not synced, in any module.
* The installer and the signing tool, which run once and by hand.

Still worth doing: `ConfirmTokens` composed with `BotLoop` (one Yes, one run, over
restarts); a lossy file system under `SelfUpdate` and `WatchLists`.
