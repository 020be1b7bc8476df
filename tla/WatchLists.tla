----------------------------- MODULE WatchLists -----------------------------
(* The watch lists and a threshold, as the chat edits them (watch.go,      *)
(* settings.go): buttons of any age, numbers typed for a list seen before, *)
(* a config file whose write may fail, and restarts. The loop handles one  *)
(* press or command at a time; the change in memory always sticks.         *)
EXTENDS Integers, Sequences, SequencesExt

CONSTANTS
    WatchUnits, WatchPorts,     \* units and ports, in the order the lists keep
    MaxThr                      \* thresholds are 1 .. MaxThr

ThrValues == 1 .. MaxThr
NoItem == 0
WatchItems == ToSet(WatchUnits) \cup ToSet(WatchPorts)
Indices == 1 .. Len(WatchUnits)
Typed == 1 .. Max(ToSet(WatchPorts))

ASSUME ItemsAssumption == NoItem \notin WatchItems

VARIABLES
    cfg, config,        \* in memory and in the file: the watched items and the threshold
    lastServiceScan, lastPortScan,
    said                \* what a reply last claimed to be saved of each item: "in", "out" or "";
                        \* NoItem stands for the threshold

watchVars == << cfg, config, lastServiceScan, lastPortScan, said >>

WatchInit ==
    /\ cfg = [items |-> { }, thr |-> MaxThr] /\ config = cfg
    /\ lastServiceScan = << >> /\ lastPortScan = << >>
    /\ said = [i \in WatchItems \cup { NoItem } |-> ""]

\* The lists are kept sorted.
services(c) == SelectSeq(WatchUnits, LAMBDA u : u \in c.items)
ports(c) == SelectSeq(WatchPorts, LAMBDA p : p \in c.items)

\* scanServices and scanPorts: what runs or listens, and is not watched.
scanServices(c) == SelectSeq(WatchUnits, LAMBDA u : u \notin c.items)
scanPorts(c) == SelectSeq(WatchPorts, LAMBDA p : p \notin c.items)

\* Mutant: the snapshot to save is taken before the change.
SaveConfigOld(old, new, i, claim) ==
    /\ cfg' = new
    /\ \/ config' = old /\ said' = [said EXCEPT ![i] = claim]
       \/ said' = [said EXCEPT ![i] = ""] /\ UNCHANGED config

\* mutateWatch and persist: the file is written whole, or the reply says it was not.
\* A reply that drops the note claims nothing.
SaveConfig(old, new, i, claim) ==
    /\ cfg' = new
    /\ \/ config' = new /\ said' = [said EXCEPT ![i] = claim]
       \/ said' = [said EXCEPT ![i] = ""] /\ UNCHANGED config

Watch(i, claim) == SaveConfig(cfg, [cfg EXCEPT !.items = @ \cup { i }], i, claim)
Unwatch(i, claim) == SaveConfig(cfg, [cfg EXCEPT !.items = @ \ { i }], i, claim)
Unchanged == UNCHANGED << cfg, config, said >>

\* The screen a unit's or a port's press ends on lists afresh, but Watching does not.
Rescans(i) ==
    IF i \in ToSet(WatchUnits) THEN lastServiceScan' = scanServices(cfg') /\ UNCHANGED lastPortScan
    ELSE lastPortScan' = scanPorts(cfg') /\ UNCHANGED lastServiceScan
NoRescan == UNCHANGED << lastServiceScan, lastPortScan >>

-----------------------------------------------------------------------------
(* Buttons.                                                                *)

\* ~1wa: a unit by digest, against a fresh scan, or a port.
watchPress(i) ==
    /\ IF i \notin cfg.items THEN Watch(i, "in") ELSE Unchanged
    /\ Rescans(i)

\* ~1wr
unwatchPress(i) ==
    /\ IF i \in cfg.items THEN Unwatch(i, "out") ELSE Unchanged
    /\ NoRescan

\* Mutant: matchWatchItem trusts the index.
matchWatchItemIndex(list, n, u) == IF n \in DOMAIN list THEN list[n] ELSE NoItem

\* matchWatchItem: the item at the button's index, if its fingerprint is the button's.
matchWatchItem(list, n, u) == IF n \in DOMAIN list /\ list[n] = u THEN u ELSE NoItem

\* sa: an index of the last scan with a fingerprint. Its reply never has the note.
legacyAdd(n, u) ==
    LET name == matchWatchItem(lastServiceScan, n, u)
    IN  /\ IF name # NoItem THEN Watch(name, "") ELSE Unchanged
        /\ Rescans(u)

\* sr
legacyRemove(n, u) ==
    LET name == matchWatchItem(services(cfg), n, u)
    IN  /\ IF name # NoItem THEN Unwatch(name, "") ELSE Unchanged
        /\ NoRescan

\* pa and pr save even when nothing changes.
legacyPort(p, adds) ==
    /\ IF adds THEN Watch(p, "") ELSE Unwatch(p, "")
    /\ IF adds THEN Rescans(p) ELSE NoRescan

\* ~1th carries the value: one that is set already saves nothing.
thresholdPress(v) ==
    /\ IF v # cfg.thr THEN SaveConfig(cfg, [cfg EXCEPT !.thr = v], NoItem, "in") ELSE Unchanged
    /\ NoRescan

\* th: carries a step, clamped.
legacyStep(delta) ==
    LET next == IF cfg.thr + delta \in ThrValues THEN cfg.thr + delta ELSE cfg.thr
    IN  /\ SaveConfig(cfg, [cfg EXCEPT !.thr = next], NoItem, "in")
        /\ NoRescan

-----------------------------------------------------------------------------
(* Commands. An argument is a name, or a number for a list.                *)

resolveByIndex(n, list) == IF n \in DOMAIN list THEN list[n] ELSE NoItem

servicesAdd(u) ==
    /\ IF u # NoItem /\ u \notin cfg.items THEN Watch(u, "in") ELSE Unchanged
    /\ NoRescan

servicesRemove(u) ==
    /\ IF u \in cfg.items THEN Unwatch(u, "out") ELSE Unchanged
    /\ NoRescan

\* resolvePort: a port of the last scan, an index of it, any port.
resolvePort(n, scan) ==
    IF n \in ToSet(scan) \/ n \notin DOMAIN scan THEN n ELSE scan[n]

portsAdd(n) ==
    LET p == resolvePort(n, lastPortScan)
    IN  /\ p \in WatchItems
        /\ IF p \notin cfg.items THEN Watch(p, "in") ELSE Unchanged
        /\ NoRescan

\* An index only when no watched port has the number.
portsRemove(n) ==
    LET p == IF n \in DOMAIN ports(cfg) /\ n \notin cfg.items THEN ports(cfg)[n] ELSE n
    IN  /\ IF p \in cfg.items THEN Unwatch(p, "out") ELSE Unchanged
        /\ NoRescan

Scan(i) == Unchanged /\ Rescans(i)

\* The agent starts again from the file: nothing of memory is left.
Reload ==
    /\ cfg' = config /\ lastServiceScan' = << >> /\ lastPortScan' = << >>
    /\ UNCHANGED << config, said >>

ButtonOf(i) ==
    \/ watchPress(i) \/ unwatchPress(i)
    \/ i \in ToSet(WatchUnits) /\ \E n \in Indices : legacyAdd(n, i) \/ legacyRemove(n, i)
    \/ i \in ToSet(WatchPorts) /\ \E adds \in BOOLEAN : legacyPort(i, adds)

WatchNext ==
    \/ \E i \in WatchItems : ButtonOf(i)
    \/ \E v \in ThrValues : thresholdPress(v)
    \/ \E delta \in { -1, 1 } : legacyStep(delta)
    \/ \E u \in ToSet(WatchUnits) : servicesAdd(u) \/ servicesRemove(u)
    \/ \E n \in Indices : \/ servicesAdd(resolveByIndex(n, lastServiceScan))
                         \/ servicesRemove(resolveByIndex(n, services(cfg)))
    \/ \E n \in Typed : portsAdd(n) \/ portsRemove(n)
    \/ (\E i \in WatchItems : Scan(i)) \/ Reload

-----------------------------------------------------------------------------
(* Properties.                                                             *)

\* A button of any age, pressed any time later, changes nothing but the item it
\* was drawn for, however the lists moved in between (matchWatchItem, watchPress).
ButtonMeansItem ==
    [][\A i \in WatchItems : ButtonOf(i) =>
          cfg'.items \ { i } = cfg.items \ { i } /\ cfg'.thr = cfg.thr]_cfg

\* What a reply claimed without a note is in the file until a later reply about the
\* same item, whatever failed in between and however often the agent restarted, and
\* a restart loses only what some reply said was not saved, or was an old button's
\* (mutateWatch, persist).
SavedAsTold ==
    /\ \A i \in WatchItems : said[i] # "" => (i \in config.items <=> said[i] = "in")
    /\ said[NoItem] # "" => config.thr = cfg.thr
=============================================================================
