------------------------------ MODULE SshTrust ------------------------------
(* Which SSH logins pass without an alert: trusted sources from the config *)
(* and from the bot, recent failures, and keys a user has used before; the *)
(* two state files behind them (trust.go, truststore.go, knownkeys.go,     *)
(* agent.go's auth loop). One user; a login is in hand while its alert is  *)
(* looked up and sent, and the bot changes trust meanwhile.                *)
EXTENDS Integers, FiniteSets

CONSTANTS
    Keys,               \* fingerprints
    ConfigTrusted,      \* ssh.trusted_ips
    maxTelegramTrusted,
    MaxLogins, MaxTrustFaults, MaxTrustRestarts     \* bounds

\* Two addresses, and a range that covers both.
Sources == { "a", "b" }
Covers == [a |-> { "a" }, net |-> { "a", "b" }]
Networks == DOMAIN Covers
NoKey == "password"

ASSUME ConfigAssumption == ConfigTrusted \subseteq Networks

VARIABLES
    files,      \* trusted_ips and known_keys on disk
    hand,       \* what a person or a fault last left in them
    store,      \* the TrustStore and the KnownKeys in memory
    matcher,    \* the prefixes of the published matcher
    login,      \* the login whose alert is on its way
    last,       \* how many logged in, and the last login if it passed without an alert
    keyboard,   \* the keyboard of address a's login alert
    told,       \* what the last reply about a prefix said will hold
    vouched,    \* keys an alert named, or used from a source that alerts
    trustFaults, trustRestarts

trustVars == << files, hand, store, matcher, login, last, keyboard, told, vouched,
                trustFaults, trustRestarts >>

NoLogin == [ip |-> "-", key |-> NoKey, root |-> FALSE, newKey |-> FALSE, fails |-> FALSE]
Unloaded == [loaded |-> FALSE, mem |-> {}, bad |-> FALSE, readOnly |-> FALSE]

\* LoadTrustStore, LoadKnownKeys: a line that does not parse is kept aside; a file
\* that cannot be opened or read to its end makes the store read-only.
LoadStore(f) ==
    [loaded |-> TRUE,
     mem |-> IF f.damage = "unreadable" THEN {} ELSE IF f.damage = "cut" THEN f.lines \ f.lost ELSE f.lines,
     bad |-> f.damage # "unreadable" /\ f.bad,
     readOnly |-> f.damage # "none"]

Merged(mem) == ConfigTrusted \cup mem

\* rebuildTrust: known_keys is loaded the first time something is trusted.
rebuildTrust(trust, known, m) ==
    /\ matcher' = Merged(m.mem)
    /\ store' = [trusted |-> m,
                 known |-> IF Merged(m.mem) # {} /\ ~ known.loaded THEN LoadStore(files.known) ELSE known]

EmptyFile == [lines |-> {}, bad |-> FALSE, damage |-> "none", lost |-> {}]

TrustInit ==
    /\ files = [trusted |-> EmptyFile, known |-> EmptyFile] /\ hand = files
    /\ store = [trusted |-> LoadStore(EmptyFile),
                known |-> IF ConfigTrusted = {} THEN Unloaded ELSE LoadStore(EmptyFile)]
    /\ matcher = ConfigTrusted
    /\ login = NoLogin /\ last = [n |-> 0, l |-> NoLogin]
    /\ keyboard = "none"
    /\ told = [p \in Networks |-> "no"] /\ vouched = {} /\ trustFaults = 0 /\ trustRestarts = 0

\* Trusted by the matcher (TrustedIPs.Match).
MatchTrusted(ip) == \E p \in matcher : ip \in Covers[p]

\* Mutant: save without the read-only check.
saveAnyway(name, s, ok) == ok

\* save's outcome: refused when the file was not read, or the write fails; what
\* could not be parsed is written back.
save(name, s, ok) == ok /\ ~ s.readOnly

Written(name, s, ok) ==
    IF save(name, s, ok) THEN [files EXCEPT ![name].lines = s.mem, ![name].bad = s.bad] ELSE files

\* A write may fail.
TrustFault(ok) == IF ok THEN UNCHANGED trustFaults
             ELSE trustFaults < MaxTrustFaults /\ trustFaults' = trustFaults + 1

-----------------------------------------------------------------------------
(* The auth loop.                                                          *)

\* Mutant: trustedLogin without the failures.
trustedLoginNoBrute(ip, root, fails) == ~ root /\ MatchTrusted(ip)

trustedLogin(ip, root, fails) == ~ root /\ MatchTrusted(ip) /\ ~ fails

\* handleAuthLine up to its alert; `fails` when the brute-force window holds a failed
\* attempt of the address.
LoginSeen(ip, key, root, fails) ==
    LET trusted == trustedLogin(ip, root, fails)
        newKey == trusted /\ key # NoKey /\ key \notin store.known.mem
        l == [ip |-> ip, key |-> key, root |-> root, newKey |-> newKey, fails |-> fails]
    IN  /\ login = NoLogin /\ last.n < MaxLogins
        /\ last' = [n |-> last.n + 1, l |-> IF trusted /\ ~ newKey THEN l ELSE NoLogin]
        /\ login' = IF trusted /\ ~ newKey THEN NoLogin ELSE [l EXCEPT !.fails = FALSE]
        /\ vouched' = IF trusted THEN vouched ELSE vouched \cup { key }
        /\ UNCHANGED << files, hand, store, matcher, keyboard, told, trustFaults, trustRestarts >>

\* Mutant: every key that was used is learned.
learnKeyAlways(pushed) == matcher # {} /\ store.known.loaded /\ login.key # NoKey

\* learnKey, and when it is called.
learnKey(pushed) ==
    (pushed \/ ~ login.newKey) /\ matcher # {} /\ store.known.loaded /\ login.key # NoKey

\* trustButton: an address that is not trusted is offered.
trustButton == IF MatchTrusted("a") THEN "plain" ELSE "trust"

\* The rest: the alert is sent, fails, or is inside its cooldown or snooze.
Alerted(pushed, ok) ==
    LET known == [store.known EXCEPT !.mem = @ \cup { login.key }]
        learns == learnKey(pushed) /\ login.key \notin store.known.mem
    IN  /\ login # NoLogin /\ login' = NoLogin
        /\ TrustFault(ok) /\ (~ ok => learns)
        /\ vouched' = IF pushed THEN vouched \cup { login.key } ELSE vouched
        /\ keyboard' = IF pushed /\ ~ login.root /\ ~ login.newKey /\ login.ip = "a"
                       THEN trustButton ELSE keyboard
        /\ store' = IF learns THEN [store EXCEPT !.known = known] ELSE store
        /\ files' = IF learns THEN Written("known", known, ok) ELSE files
        /\ UNCHANGED << hand, matcher, last, told, trustRestarts >>

-----------------------------------------------------------------------------
(* Trust from the bot.                                                     *)

\* findTrust: an entry that equals or covers p.
findTrust(p) == \E q \in Merged(store.trusted.mem) : Covers[p] \subseteq Covers[q]

\* trustAdd, trustRemove end with a saved change, or one that will not survive.
ApplyTrust(p, m, says, ok) ==
    /\ TrustFault(ok)
    /\ files' = Written("trusted", m, ok)
    /\ rebuildTrust(store.trusted, store.known, m)
    /\ told' = [told EXCEPT ![p] = IF save("trusted", m, ok) THEN says ELSE "unsaved"]

trustAdd(p, ok) ==
    IF findTrust(p) \/ Cardinality(store.trusted.mem) >= maxTelegramTrusted
    THEN ok /\ UNCHANGED << files, store, matcher, told, trustFaults >>
    ELSE ApplyTrust(p, [store.trusted EXCEPT !.mem = @ \cup { p }], "yes", ok)

\* /trust
Trust(p, ok) ==
    /\ trustAdd(p, ok)
    /\ UNCHANGED << hand, login, last, keyboard, vouched, trustRestarts >>

\* trustRemove: only the bot's own entries.
trustRemove(p, ok) ==
    /\ p \in store.trusted.mem
    /\ ApplyTrust(p, [store.trusted EXCEPT !.mem = @ \ { p }], "no", ok)
    /\ UNCHANGED << hand, login, last, keyboard, vouched, trustRestarts >>

\* handleTrustCallback: Trust this IP asks, unless something covers the address by
\* now; Yes trusts; each restores the alert's keyboard.
AskTrust ==
    /\ keyboard = "trust"
    /\ keyboard' = IF findTrust("a") THEN trustButton ELSE "confirm"
    /\ UNCHANGED << files, hand, store, matcher, login, last, told, vouched, trustFaults, trustRestarts >>

YesTrust(ok) ==
    /\ keyboard = "confirm"
    /\ trustAdd("a", ok)
    /\ keyboard' = IF \E p \in matcher' : "a" \in Covers[p] THEN "plain" ELSE "trust"
    /\ UNCHANGED << hand, login, last, vouched, trustRestarts >>

CancelTrust ==
    /\ keyboard = "confirm"
    /\ keyboard' = trustButton
    /\ UNCHANGED << files, hand, store, matcher, login, last, told, vouched, trustFaults, trustRestarts >>

-----------------------------------------------------------------------------
(* Restart: memory is lost; the files may have been edited or damaged.     *)

Damaged(f) ==
    { f, [f EXCEPT !.bad = TRUE], [f EXCEPT !.damage = "unreadable"] }
    \cup { [f EXCEPT !.damage = "cut", !.lost = { l }] : l \in f.lines }

TrustRestart ==
    /\ trustRestarts < MaxTrustRestarts /\ trustRestarts' = trustRestarts + 1
    /\ \E t \in Damaged(files.trusted), k \in Damaged(files.known) :
          /\ files' = [trusted |-> t, known |-> k] /\ hand' = files'
          /\ store' = [trusted |-> LoadStore(t),
                       known |-> IF Merged(LoadStore(t).mem) = {} THEN Unloaded ELSE LoadStore(k)]
          /\ matcher' = Merged(LoadStore(t).mem)
          /\ told' = IF t.damage = "none" THEN told ELSE [p \in Networks |-> "unsaved"]
    /\ login' = NoLogin
    /\ UNCHANGED << last, keyboard, vouched, trustFaults >>

TrustNext ==
    \/ \E ip \in Sources, key \in Keys \cup { NoKey }, root, fails \in BOOLEAN : LoginSeen(ip, key, root, fails)
    \/ AskTrust \/ CancelTrust \/ \E ok \in BOOLEAN : YesTrust(ok)
    \/ \E pushed, ok \in BOOLEAN : Alerted(pushed, ok)
    \/ \E p \in Networks, ok \in BOOLEAN : Trust(p, ok) \/ trustRemove(p, ok)
    \/ TrustRestart

TrustSpec == TrustInit /\ [][TrustNext]_trustVars

-----------------------------------------------------------------------------
(* Properties.                                                             *)

\* A login passes in silence only when it is vouched for: not root, from a source
\* the config trusts or the owner trusted and was not told is trusted no more, with
\* no failure in the window, and with a key an earlier alert named or that was used
\* where logins alert. Restarts, failed saves and alerts that never arrive included
\* (handleAuthLine, trustedLogin, learnKey).
SilentVouched ==
    [][last'.n # last.n /\ last'.l # NoLogin =>
        /\ ~ last'.l.root /\ ~ last'.l.fails
        /\ \E p \in Networks : /\ last'.l.ip \in Covers[p]
                               /\ p \in ConfigTrusted \/ told[p] # "no"
        /\ last'.l.key \in vouched \cup { NoKey }]_trustVars

\* What the bot said is saved holds across restarts and failed saves, and lines and
\* files the agent could not read outlive every save it makes (trustAdd,
\* trustRemove; save with its readOnly and bad).
StoresKept ==
    /\ \A p \in Networks : /\ told[p] = "yes" => p \in matcher
                           /\ told[p] = "no" => p \notin store.trusted.mem
    /\ \A n \in { "trusted", "known" } :
          /\ hand[n].bad => files[n].bad
          /\ hand[n].damage # "none" => files[n].lines = hand[n].lines
=============================================================================
