----------------------------- MODULE EventLoops -----------------------------
(* Power, containers and authorized_keys (agent.go's evalPower and         *)
(* keysLoop, docker.go, sshwatch/keys.go): each loop compares what it      *)
(* reads with what it read before and tells the edge through Engine.Event, *)
(* whose cooldown per key is a minute, as is two loops' interval. The      *)
(* loops share nothing, so a behaviour is about one: the power adapter,    *)
(* one container or one file. Time is counted in looks.                    *)
EXTENDS Integers

CONSTANTS
    PowerCooldown,              \* a minute, in looks of the sampling loop
    MaxLooks, MaxUntold         \* bounds

ASSUME LoopAssumption == PowerCooldown \in Nat

Gone == [id |-> 0, up |-> FALSE]
EventKeys == { "power-loss", "power-restored", "docker", "docker-up", "keys" }

VARIABLES
    loop,       \* the loop: power, docker or keys
    looks,      \* the time
    due,        \* whether the loop has yet to look at this time
    fact,       \* the adapter, the container (its ID and state) or the file's content
    base,       \* what the loop read last, if it did: hadAC, prevContainers, hashes
    seeded,
    lastFired,
    untold,     \* notices lost on their way
    (* History, which no action reads. *)
    heard,      \* what the chat was last told, or could read when the loop began
    edges,      \* when what the loop reads changed, the last three times, and whether
                \* it did last because the adapter or the container was gone
    lost        \* when a notice was last lost on its way

loopVars == << loop, looks, due, fact, base, seeded, lastFired, untold, heard, edges, lost >>

\* Of an edge that has not been, longer ago than any cooldown.
LongAgo == - (PowerCooldown + 2)

LoopInit ==
    /\ looks = 0 /\ due = TRUE /\ seeded = FALSE /\ untold = 0
    /\ \/ loop = "power" /\ fact = "on" /\ base = FALSE
       \/ loop = "docker" /\ fact = [id |-> 1, up |-> TRUE] /\ base = Gone
       \/ loop = "keys" /\ fact = 1 /\ base = 0
    /\ heard = base /\ lastFired = [k \in EventKeys |-> -1] /\ lost = -1
    /\ edges = [last |-> LongAgo, second |-> LongAgo, third |-> LongAgo, gone |-> FALSE]

Cooldown == IF loop = "power" THEN PowerCooldown ELSE 1

\* Engine.Event is silent inside the cooldown; at its end the ticks' jitter decides.
\* (A snooze of the key silences it too and is left out: the user asked for it.)
MayTell(k) == lastFired[k] = -1 \/ looks - lastFired[k] >= Cooldown
MayHush(k) == lastFired[k] # -1 /\ looks - lastFired[k] <= Cooldown

\* The edge to `now` is told with key k, is cooled, or fails to be sent.
Tell(k, now) ==
    \/ MayTell(k) /\ heard' = now
           /\ lastFired' = [lastFired EXCEPT ![k] = looks] /\ UNCHANGED << lost, untold >>
    \/ MayTell(k) /\ untold < MaxUntold /\ untold' = untold + 1 /\ lost' = looks
           /\ lastFired' = [lastFired EXCEPT ![k] = looks] /\ UNCHANGED heard
    \/ MayHush(k) /\ UNCHANGED << lastFired, heard, lost, untold >>

Quiet == UNCHANGED << lastFired, heard, lost, untold >>

\* A new baseline: nothing is told, the screens show it.
Baseline == heard' = base' /\ UNCHANGED << lastFired, lost, untold >>

Reads(which, now, gone) ==
    /\ loop = which /\ due /\ due' = FALSE
    /\ base' = now /\ seeded' = TRUE
    /\ edges' = IF seeded /\ base # now
                 THEN [last |-> looks, second |-> edges.last, third |-> edges.second, gone |-> gone]
                 ELSE edges
    /\ UNCHANGED << loop, looks, fact >>

\* A read of the adapter or of Docker that fails changes nothing.
ReadFails ==
    /\ loop # "keys" /\ due /\ due' = FALSE
    /\ UNCHANGED << loop, looks, fact, base, seeded, lastFired, untold, heard, edges, lost >>

\* Mutant: power lost and power restored share one key, and so its cooldown.
evalPowerOneKey ==
    /\ loop = "power"
    /\ Reads("power", fact = "on", fact = "none")
    /\ CASE ~ seeded -> Baseline
         [] seeded /\ (fact = "none" \/ base = (fact = "on")) -> Quiet
         [] OTHER -> Tell("power-loss", fact = "on")

\* evalPower. Without an adapter it is as if it were off, and nothing is told.
evalPower ==
    /\ loop = "power"
    /\ Reads("power", fact = "on", fact = "none")
    /\ CASE ~ seeded -> Baseline
         [] seeded /\ (fact = "none" \/ base = (fact = "on")) -> Quiet
         [] OTHER -> Tell(IF fact = "on" THEN "power-restored" ELSE "power-loss", fact = "on")

\* checkContainers: a container not seen before is baseline only, one that is no
\* longer listed is not compared.
checkContainers ==
    /\ loop = "docker"
    /\ Reads("docker", fact, fact = Gone)
    /\ CASE ~ seeded -> Baseline
         [] seeded /\ (fact = Gone \/ base = fact) -> Quiet
         [] seeded /\ fact # Gone /\ base.id # fact.id -> Baseline
         [] OTHER -> Tell(IF fact.up THEN "docker-up" ELSE "docker", fact)

\* KeysWatcher.Poll: a file that cannot be read counts as absent.
PollKeys ==
    /\ loop = "keys"
    /\ \E now \in { fact, 0 } :
        /\ Reads("keys", now, FALSE)
        /\ IF ~ seeded THEN Baseline ELSE IF base = now THEN Quiet ELSE Tell("keys", now)

\* The adapter is unplugged, or vanishes; the container stops, starts, is removed
\* or made anew with another ID; the file changes.
HostMoves ==
    /\ CASE loop = "power" -> fact' \in { "on", "off", "none" }
         [] loop = "docker" -> \/ fact' = Gone
                               \/ fact # Gone /\ fact' \in { [fact EXCEPT !.up = up] : up \in BOOLEAN }
                               \/ fact.id < 2 /\ fact' = [id |-> 2, up |-> TRUE]
         [] loop = "keys" -> fact' \in 0 .. 2
    /\ UNCHANGED << loop, looks, due, base, seeded, lastFired, untold, heard, edges, lost >>

LoopTick ==
    /\ ~ due /\ looks < MaxLooks
    /\ looks' = looks + 1 /\ due' = TRUE
    /\ UNCHANGED << loop, fact, base, seeded, lastFired, untold, heard, edges, lost >>

LoopNext == evalPower \/ checkContainers \/ PollKeys \/ ReadFails \/ HostMoves \/ LoopTick

-----------------------------------------------------------------------------
(* Property.                                                               *)

\* The chat's last word on the power, a container or authorized_keys is wrong only if
\* the notice of the last change was lost on its way, the change was that the adapter
\* or the container itself was gone, or the thing flapped: the power came back and
\* went again within the cooldown (or the other way round), a file changed twice
\* within it. However reads fail and changes follow one another, no other change
\* stays untold (evalPower, checkContainers, keysLoop, Engine.Event).
LastWordTrue ==
    seeded /\ heard # base =>
        \/ edges.last = lost
        \/ edges.gone
        \/ edges.last - (IF loop = "keys" THEN edges.second ELSE edges.third) <= Cooldown
=============================================================================
