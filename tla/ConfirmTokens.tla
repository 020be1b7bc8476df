--------------------------- MODULE ConfirmTokens ---------------------------
(***************************************************************************)
(* Confirm tokens: the store (internal/tgui/confirm.go) and the handlers   *)
(* around it (internal/agent/confirm.go).  A host-changing action never    *)
(* travels in a button: its Yes names a single-use token kept in memory,   *)
(* bound to the user who asked and to the message its screen ended up in.  *)
(*                                                                         *)
(* The bot handles one update at a time: `job` is the handler at work.     *)
(* Between its steps the clock runs, the process may die, and the host may *)
(* change.  Buttons are never taken back here: a press of any button that  *)
(* was ever drawn, by anyone, any number of times, stands for double taps, *)
(* redelivered updates and messages from before a restart.                 *)
(*                                                                         *)
(* Nonces are random in the code; here they count up in the order they are *)
(* minted, which makes the store's `order` the order of the numbers.       *)
(***************************************************************************)
EXTENDS Naturals, Sequences, FiniteSets

CONSTANTS
    Actors,      \* users allowed to press
    Actions,     \* confirm actions
    Doubles,     \* those that ask twice when they risk a lockout
    Trials,      \* those that start a firewall trial, with its own buttons
    TTL,         \* per action, and "keep" for a trial's buttons: how long
                 \* its tokens live, in ticks
    MaxTokens,   \* maxTokens: minting past it evicts
    MaxMints,    \* bound: tokens minted
    MaxMsgs,     \* bound: messages in the chat
    MaxTime,     \* bound: ticks
    MaxBoots     \* bound: process starts

ASSUME ActionsAssumption == Doubles \subseteq Actions /\ Trials \subseteq Actions
ASSUME TTLAssumption == TTL \in [Actions \cup {"keep"} -> Nat \ {0}]
ASSUME StoreAssumption == MaxTokens \in Nat \ {0}
ASSUME MintsAssumption ==
    /\ MaxMints \in Nat \ {0} /\ MaxMsgs \in Nat \ {0}
    /\ MaxTime \in Nat /\ MaxBoots \in Nat \ {0}

VARIABLES
    tokens,   \* the store: nonce -> token
    next,     \* the next nonce
    now,      \* the clock
    boot,     \* the process's epoch
    job,      \* the handler at work; Idle between updates
    risky,    \* actions that would lock the user out right now
    drawn,    \* Yes buttons in the chat
    lastMsg,  \* newest message
    \* Observed by the properties, never read by a guard:
    owner,    \* who asked, per nonce
    screen,   \* the message a confirm screen last went to, 0 when unknown
    ran       \* per nonce, who had its action run

chat   == <<drawn, lastMsg>>
ghosts == <<owner, screen, ran>>
vars   == <<tokens, next, now, boot, job, risky, chat, ghosts>>

-----------------------------------------------------------------------------
Nobody == "nobody"
Nonces == 1..MaxMints
Msgs   == 1..MaxMsgs

Intents == [action : Actions \cup {"keep"}, actor : Actors, msg : Msgs \cup {0},
            final : BOOLEAN]
Tokens  == [in : Intents, expires : Nat, state : {"pending", "running", "done"}]
Buttons == [nonce : Nonces, boot : 1..MaxBoots, msg : Msgs]

\* A handler: its token and what that stands for, the message it answers
\* and who pressed there, the buttons it will show.
Idle == [at |-> "idle"]
Works == [at : {"show", "claimed", "working", "acted", "outcome"},
          nonce : Nonces, in : Intents, by : Actors, msg : Msgs \cup {0},
          shown : SUBSET Nonces]
Jobs  == {Idle} \cup Works

-----------------------------------------------------------------------------
(* The store.                                                              *)

Expired(n) == now >= tokens[n].expires

Without(S) == [n \in DOMAIN tokens \ S |-> tokens[n]]

\* Mutant: expired tokens do not go first.
evictOldest ==
    IF Cardinality(DOMAIN tokens) < MaxTokens THEN {}
    ELSE {n \in DOMAIN tokens :
            Cardinality({m \in DOMAIN tokens : m > n}) >= MaxTokens - 1}

\* The tokens that make room for one more: at the limit the expired ones
\* go, then the oldest.
evict ==
    IF Cardinality(DOMAIN tokens) < MaxTokens THEN {}
    ELSE LET live == {n \in DOMAIN tokens : ~Expired(n)}
         IN  {n \in DOMAIN tokens :
                \/ Expired(n)
                \/ Cardinality({m \in live : m > n}) >= MaxTokens - 1}

\* A token for `in` joins T, the store as its tokens' states are by now.
Mint(T, in) ==
    /\ next \in Nonces
    /\ next' = next + 1
    /\ tokens' = [n \in (DOMAIN tokens \ evict) \cup {next} |->
                    IF n = next
                      THEN [in |-> in, expires |-> now + TTL[in.action],
                            state |-> "pending"]
                      ELSE T[n]]
    /\ owner' = [owner EXCEPT ![next] = in.actor]

Finished(n) ==
    IF n \in DOMAIN tokens THEN [tokens EXCEPT ![n].state = "done"] ELSE tokens

\* Mutant: a token in a new message stays bound to the old one.
NeverRebound(N, msg) == tokens

\* Tokens N follow their screen to message msg.
Rebound(N, msg) ==
    [n \in DOMAIN tokens |->
        IF n \in N /\ tokens[n].state = "pending"
          THEN [tokens[n] EXCEPT !.in.msg = msg] ELSE tokens[n]]

\* Mutant: a used token still passes.
takeUsed(b, actor) ==
    /\ b.nonce \in DOMAIN tokens /\ ~Expired(b.nonce)
    /\ tokens[b.nonce].in.msg = b.msg /\ tokens[b.nonce].in.actor = actor

\* Whether actor's press of b wins its token.  A press that loses is
\* answered and audited, and changes nothing unless the token expired.
take(b, actor) ==
    /\ b.nonce \in DOMAIN tokens /\ ~Expired(b.nonce)
    /\ tokens[b.nonce].in.msg = b.msg /\ tokens[b.nonce].in.actor = actor
    /\ tokens[b.nonce].state = "pending"

-----------------------------------------------------------------------------
Init ==
    /\ tokens = [n \in {} |-> n] /\ next = 1
    /\ now = 0 /\ boot = 1 /\ job = Idle
    /\ risky \in SUBSET Doubles
    /\ drawn = {} /\ lastMsg = 1
    /\ owner = [n \in Nonces |-> Nobody]
    /\ screen = [n \in Nonces |-> 0]
    /\ ran = [n \in Nonces |-> << >>]

(* Asking.                                                                 *)

\* A confirm screen for a press on message msg, or for a typed command or
\* an alert's button, whose message is not known yet (0).
Ask(action, by, msg) ==
    /\ job = Idle
    /\ LET in == [action |-> action, actor |-> by, msg |-> msg, final |-> FALSE]
       IN  /\ Mint(tokens, in)
           /\ job' = [at |-> "show", nonce |-> next, in |-> in, by |-> by,
                      msg |-> msg, shown |-> {next}]
    /\ UNCHANGED <<now, boot, risky, chat, screen, ran>>

Draw(msg) == {[nonce |-> n, boot |-> boot, msg |-> msg] : n \in job.shown}

\* The screen is in message msg now, 0 when nobody knows.
Showed(msg) ==
    /\ screen' = [n \in Nonces |-> IF n \in job.shown THEN msg ELSE screen[n]]
    /\ job' = Idle
    /\ UNCHANGED <<next, now, boot, risky, owner, ran>>

\* It is edited into the pressed message.
ShowHere ==
    /\ job.at \in {"show", "outcome"} /\ job.msg # 0
    /\ drawn' = drawn \cup Draw(job.msg)
    /\ Showed(job.msg)
    /\ UNCHANGED <<tokens, lastMsg>>

\* It goes out as a new message, and its token moves there: a reply, or the
\* fallback of an edit that failed, in effect or only in its answer.  A
\* trial's buttons move when its handler asks for it; the fresh buttons of
\* a refused Keep stay bound to the old message.
ShowAnew ==
    /\ job.at \in {"show", "outcome"} /\ lastMsg < MaxMsgs
    /\ lastMsg' = lastMsg + 1
    /\ \E edited \in BOOLEAN :
         /\ edited => job.msg # 0
         /\ drawn' = drawn \cup Draw(lastMsg')
                           \cup (IF edited THEN Draw(job.msg) ELSE {})
    /\ \/ tokens' = Rebound(job.shown, lastMsg')
       \/ job.at = "outcome" /\ UNCHANGED tokens
    /\ Showed(lastMsg')

\* Nothing reaches the chat as far as the bot knows, though it may have.
ShowFails ==
    /\ job.at \in {"show", "outcome"}
    /\ \/ UNCHANGED chat
       \/ /\ job.msg # 0
          /\ drawn' = drawn \cup Draw(job.msg) /\ UNCHANGED lastMsg
       \/ /\ lastMsg < MaxMsgs
          /\ drawn' = drawn \cup Draw(lastMsg + 1) /\ lastMsg' = lastMsg + 1
    /\ tokens' = IF job.at = "show" THEN Rebound(job.shown, 0) ELSE tokens
    /\ Showed(0)

(* Pressing.                                                               *)

\* A Yes press wins its token.
Claim(b, by) ==
    /\ job = Idle /\ b.boot = boot /\ take(b, by)
    /\ tokens' = [tokens EXCEPT ![b.nonce].state = "running"]
    /\ job' = [at |-> "claimed", nonce |-> b.nonce, in |-> tokens[b.nonce].in,
               by |-> by, msg |-> b.msg, shown |-> {}]
    /\ UNCHANGED <<next, now, boot, risky, chat, ghosts>>

\* A Cancel press wins its token; Cancel carries no epoch.
Cancel(b, by) ==
    /\ job = Idle /\ take(b, by)
    /\ tokens' = Without({b.nonce})
    /\ UNCHANGED <<next, now, boot, job, risky, chat, ghosts>>

\* A press finds its token expired, and drops it.
PressExpired(b) ==
    /\ job = Idle /\ b.nonce \in DOMAIN tokens /\ Expired(b.nonce)
    /\ tokens' = Without({b.nonce})
    /\ UNCHANGED <<next, now, boot, job, risky, chat, ghosts>>

\* A first Yes that risks a lockout asks again, with a token of its own.
AskTwice ==
    /\ job.at = "claimed" /\ ~job.in.final /\ job.in.action \in risky
    /\ LET in == [job.in EXCEPT !.actor = job.by, !.msg = job.msg, !.final = TRUE]
       IN  /\ Mint(Finished(job.nonce), in)
           /\ job' = [job EXCEPT !.at = "show", !.nonce = next, !.in = in,
                                 !.shown = {next}]
    /\ UNCHANGED <<now, boot, risky, chat, screen, ran>>

\* Or the second prompt refuses, its target being gone or no longer allowed, or no
\* token can be made: the first is used up and nothing runs.
RefuseTwice ==
    /\ job.at = "claimed" /\ ~job.in.final /\ job.in.action \in risky
    /\ tokens' = Finished(job.nonce)
    /\ job' = [job EXCEPT !.at = "outcome"]
    /\ UNCHANGED <<next, now, boot, risky, chat, ghosts>>

\* Otherwise the press is answered and its buttons taken away.
Proceed ==
    /\ job.at = "claimed" /\ (job.in.final \/ job.in.action \notin risky)
    /\ job' = [job EXCEPT !.at = "working"]
    /\ UNCHANGED <<tokens, next, now, boot, risky, chat, ghosts>>

\* The action runs, on what its target is now.
Act ==
    /\ job.at = "working"
    /\ job' = [job EXCEPT !.at = "acted"]
    /\ ran' = [ran EXCEPT ![job.nonce] = Append(@, job.by)]
    /\ UNCHANGED <<tokens, next, now, boot, risky, chat, owner, screen>>

\* A trial's Keep and Roll back buttons, one token each: minted when it
\* starts, and again by a refused Keep.
mintTrialKB ==
    /\ job.at = "acted" /\ job.in.action \in Trials \cup {"keep"}
    /\ Cardinality(job.shown) < 2
    /\ Mint(tokens, [job.in EXCEPT !.action = "keep", !.final = FALSE])
    /\ job' = [job EXCEPT !.shown = @ \cup {next}]
    /\ UNCHANGED <<now, boot, risky, chat, screen, ran>>

\* The action returns: its token is used up.  Fewer than both trial buttons
\* are none.
Return ==
    /\ job.at = "acted"
    /\ tokens' = Finished(job.nonce)
    /\ job' = [job EXCEPT !.at = "outcome",
                          !.shown = IF Cardinality(@) = 2 THEN @ ELSE {}]
    /\ UNCHANGED <<next, now, boot, risky, chat, ghosts>>

(* Around the handlers.                                                    *)

\* A handler panics; the bot loop goes on with the next update.
Panic ==
    /\ job # Idle /\ job' = Idle
    /\ UNCHANGED <<tokens, next, now, boot, risky, chat, ghosts>>

\* Mutant: tokens outlive the process.
CrashKeepsTokens ==
    /\ boot < MaxBoots /\ boot' = boot + 1 /\ job' = Idle
    /\ UNCHANGED <<tokens, next, now, risky, chat, ghosts>>

Crash ==
    /\ boot < MaxBoots /\ boot' = boot + 1 /\ job' = Idle
    /\ tokens' = Without(DOMAIN tokens)
    /\ UNCHANGED <<next, now, risky, chat, ghosts>>

Tick ==
    /\ now < MaxTime /\ now' = now + 1
    /\ UNCHANGED <<tokens, next, boot, job, risky, chat, ghosts>>

\* Sessions come and go, units change.
HostChanges ==
    /\ risky' \in SUBSET Doubles /\ risky' # risky
    /\ UNCHANGED <<tokens, next, now, boot, job, chat, ghosts>>

Next ==
    \/ \E a \in Actions, u \in Actors, m \in 0..lastMsg : Ask(a, u, m)
    \/ ShowHere \/ ShowAnew \/ ShowFails
    \/ \E b \in drawn :
         \/ \E u \in Actors : Claim(b, u) \/ Cancel(b, u)
         \/ PressExpired(b)
    \/ AskTwice \/ RefuseTwice \/ Proceed \/ Act \/ mintTrialKB \/ Return
    \/ Panic \/ Crash \/ Tick \/ HostChanges

Spec == Init /\ [][Next]_vars

-----------------------------------------------------------------------------
(* Properties.                                                             *)

\* Type correctness of the store, the handler and the chat.
TypeOK ==
    /\ DOMAIN tokens \subseteq Nonces
    /\ tokens \in [DOMAIN tokens -> Tokens]
    /\ next \in 1..(MaxMints + 1)
    /\ now \in 0..MaxTime /\ boot \in 1..MaxBoots
    /\ job \in Jobs
    /\ risky \subseteq Doubles
    /\ drawn \subseteq Buttons /\ lastMsg \in Msgs
    /\ owner \in [Nonces -> Actors \cup {Nobody}]
    /\ screen \in [Nonces -> Msgs \cup {0}]
    /\ ran \in [Nonces -> Seq(Actors)]

\* Requests that may still run their action: pending, or won by a press
\* whose handler has not come to it.
Open ==
    {n \in DOMAIN tokens : tokens[n].state = "pending"}
        \cup (IF job.at \in {"claimed", "working"} THEN {job.nonce} ELSE {})

Promise == INSTANCE ConfirmPromise
             WITH Requests <- Nonces, Users <- Actors,
                  asked <- 1..(next - 1), open <- Open

\* Whatever presses are repeated, delivered late or made by others, and
\* wherever the process dies or a handler panics, a request's action runs at
\* most once, and then on its asker's word (Claim's pending -> running).
KeepsPromise == Promise!Spec

\* The Yes a user was last shown works for them while its token lives: the
\* store follows a confirm screen to the message it really ended up in
\* (Rebind after a reply, and after an edit that failed).
SeenYesWorks ==
    job = Idle =>
        \A n \in DOMAIN tokens :
            /\ tokens[n].state = "pending" /\ ~Expired(n)
            /\ tokens[n].in.action # "keep" /\ screen[n] # 0
            => LET b == [nonce |-> n, boot |-> boot, msg |-> screen[n]]
               IN  b \in drawn /\ take(b, owner[n])

\* A mint drops a confirm that is still good only when the store is full of
\* good ones that are all newer (evict's order: expired first, then oldest).
EvictsOldestLast ==
    [][\A n \in DOMAIN tokens :
         next' # next /\ n \notin DOMAIN tokens' /\ ~Expired(n)
         => /\ Cardinality(DOMAIN tokens') = MaxTokens
            /\ \A m \in DOMAIN tokens' : m > n /\ (m # next => ~Expired(m))]_vars

\* "every kick goes through a confirm token (confirm.go), and a second one
\* when it is the only session listed" (sshkick.go:17-19): an action that
\* risks a lockout when it runs was confirmed twice.
RiskyAskedTwice ==
    [][job.at = "working" /\ job'.at = "acted" /\ job.in.action \in risky
         => job.in.final]_vars
=============================================================================
