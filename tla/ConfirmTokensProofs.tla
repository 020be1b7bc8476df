------------------------ MODULE ConfirmTokensProofs ------------------------
(***************************************************************************)
(* Proofs about ConfirmTokens: type correctness, and that the store and    *)
(* its handlers implement ConfirmPromise, so that no confirmed action runs *)
(* twice or on another user's word.  They hold for any actors, actions and *)
(* lifetimes and any bounds, the store's limit included.                   *)
(***************************************************************************)
EXTENDS ConfirmTokens, FiniteSetTheorems, WellFoundedInduction, TLAPS

-----------------------------------------------------------------------------
(* The invariant: nonces are handed out once, a pending token is its       *)
(* asker's, and the token a handler works for is no longer pending.        *)

Ownership ==
    /\ DOMAIN tokens \subseteq 1..(next - 1)
    /\ \A n \in DOMAIN tokens :
         tokens[n].state = "pending" => owner[n] = tokens[n].in.actor
    /\ job.at \in {"claimed", "working"} =>
         /\ job.nonce \in 1..(next - 1)
         /\ job.by = owner[job.nonce]
         /\ job.nonce \in DOMAIN tokens => tokens[job.nonce].state # "pending"

IInv == TypeOK /\ Ownership

\* What every handler step but a mint keeps.
LEMMA TokenTypes ==
    ASSUME TypeOK
    PROVE  /\ \A S : Without(S) \in [DOMAIN tokens \ S -> Tokens]
           /\ \A n : Finished(n) \in [DOMAIN tokens -> Tokens]
           /\ \A N, msg : msg \in Msgs \cup {0} =>
                            Rebound(N, msg) \in [DOMAIN tokens -> Tokens]
<1>1. \A S : Without(S) \in [DOMAIN tokens \ S -> Tokens]
  BY DEF TypeOK, Without
<1>2. \A n : Finished(n) \in [DOMAIN tokens -> Tokens]
  BY DEF TypeOK, Finished, Tokens
<1>3. ASSUME NEW N, NEW msg \in Msgs \cup {0}
      PROVE  Rebound(N, msg) \in [DOMAIN tokens -> Tokens]
  <2>1. ASSUME NEW n \in DOMAIN tokens
        PROVE  [tokens[n] EXCEPT !.in.msg = msg] \in Tokens
    <3>1. tokens[n] \in Tokens /\ tokens[n].in \in Intents
      BY DEF TypeOK, Tokens
    <3>2. [tokens[n].in EXCEPT !.msg = msg] \in Intents
      BY <3>1 DEF Intents
    <3> QED BY <3>1, <3>2 DEF Tokens
  <2> QED BY <2>1 DEF Rebound, TypeOK
<1> QED BY <1>1, <1>2, <1>3

LEMMA StatesKept ==
    ASSUME TypeOK
    PROVE  /\ \A n : \A m \in DOMAIN tokens :
                /\ Finished(n)[m].in = tokens[m].in
                /\ Finished(n)[m].state =
                     IF m = n THEN "done" ELSE tokens[m].state
           /\ \A N, msg : \A m \in DOMAIN tokens :
                /\ Rebound(N, msg)[m].in.actor = tokens[m].in.actor
                /\ Rebound(N, msg)[m].state = tokens[m].state
<1>1. \A m \in DOMAIN tokens : tokens[m] \in Tokens /\ tokens[m].in \in Intents
  BY DEF TypeOK, Tokens
<1>2. \A n : \A m \in DOMAIN tokens :
        /\ Finished(n)[m].in = tokens[m].in
        /\ Finished(n)[m].state = IF m = n THEN "done" ELSE tokens[m].state
  BY <1>1 DEF TypeOK, Finished, Tokens
<1>3. \A N, msg : \A m \in DOMAIN tokens :
        /\ Rebound(N, msg)[m].in.actor = tokens[m].in.actor
        /\ Rebound(N, msg)[m].state = tokens[m].state
  BY <1>1 DEF Rebound, Tokens, Intents
<1> QED BY <1>2, <1>3

\* A mint hands out a fresh nonce for the user it was minted for.
LEMMA MintStep ==
    ASSUME IInv, NEW T \in [DOMAIN tokens -> Tokens], NEW in \in Intents,
           \A n \in DOMAIN tokens :
              T[n].state = "pending" => /\ tokens[n].state = "pending"
                                        /\ T[n].in = tokens[n].in,
           Mint(T, in)
    PROVE  /\ next \in Nonces /\ next' = next + 1
           /\ tokens' \in [DOMAIN tokens' -> Tokens]
           /\ DOMAIN tokens' = (DOMAIN tokens \ evict) \cup {next}
           /\ next \notin DOMAIN tokens
           /\ tokens'[next].state = "pending" /\ tokens'[next].in = in
           /\ \A n \in DOMAIN tokens \ evict : tokens'[n] = T[n]
           /\ owner' = [owner EXCEPT ![next] = in.actor]
           /\ owner' \in [Nonces -> Actors \cup {Nobody}]
           /\ DOMAIN tokens' \subseteq 1..(next' - 1) /\ DOMAIN tokens' \subseteq Nonces
           /\ \A n \in DOMAIN tokens' :
                tokens'[n].state = "pending" => owner'[n] = tokens'[n].in.actor
<1>1. next \in Nonces /\ next' = next + 1 /\ next \in Nat /\ next \notin DOMAIN tokens
  BY MintsAssumption DEF Mint, IInv, TypeOK, Ownership, Nonces
<1>2. now + TTL[in.action] \in Nat
  BY TTLAssumption, MintsAssumption DEF IInv, TypeOK, Intents
<1>3. [in |-> in, expires |-> now + TTL[in.action], state |-> "pending"] \in Tokens
  BY <1>2 DEF Tokens
<1>4. /\ DOMAIN tokens' = (DOMAIN tokens \ evict) \cup {next}
      /\ tokens'[next] = [in |-> in, expires |-> now + TTL[in.action], state |-> "pending"]
      /\ \A n \in DOMAIN tokens \ evict : tokens'[n] = T[n]
      /\ tokens' = [n \in DOMAIN tokens' |-> tokens'[n]]
  BY <1>1 DEF Mint
<1>5. tokens' \in [DOMAIN tokens' -> Tokens]
  BY <1>3, <1>4
<1>6. owner' = [owner EXCEPT ![next] = in.actor] /\ in.actor \in Actors
  BY DEF Mint, Intents
<1>7. owner' \in [Nonces -> Actors \cup {Nobody}]
  BY <1>1, <1>6 DEF IInv, TypeOK
<1>8. DOMAIN tokens' \subseteq 1..(next' - 1) /\ DOMAIN tokens' \subseteq Nonces
  BY <1>1, <1>4 DEF IInv, TypeOK, Ownership
<1>9. \A n \in DOMAIN tokens' :
        tokens'[n].state = "pending" => owner'[n] = tokens'[n].in.actor
  <2> TAKE n \in DOMAIN tokens'
  <2>1. CASE n = next
    BY <1>1, <1>4, <1>6, <2>1 DEF IInv, TypeOK
  <2>2. CASE n \in DOMAIN tokens \ evict
    <3>1. n # next /\ tokens'[n] = T[n]
      BY <1>1, <1>4, <2>2
    <3>2. owner'[n] = owner[n]
      BY <1>6, <3>1, <2>2 DEF IInv, TypeOK
    <3>3. T[n].state = "pending" => owner[n] = T[n].in.actor
      BY <2>2 DEF IInv, Ownership
    <3> QED BY <3>1, <3>2, <3>3
  <2> QED BY <1>4, <2>1, <2>2
<1> QED BY <1>1, <1>3, <1>4, <1>5, <1>6, <1>7, <1>8, <1>9

\* A step that mints and shows keeps the invariant.
LEMMA MintIInv ==
    ASSUME IInv, NEW T \in [DOMAIN tokens -> Tokens], NEW in \in Intents,
           \A n \in DOMAIN tokens :
              T[n].state = "pending" => /\ tokens[n].state = "pending"
                                        /\ T[n].in = tokens[n].in,
           Mint(T, in),
           job' \in Jobs, job'.at \notin {"claimed", "working"},
           UNCHANGED <<now, boot, risky, chat, screen, ran>>
    PROVE  IInv'
<1>1. /\ next \in Nonces /\ next' = next + 1
      /\ tokens' \in [DOMAIN tokens' -> Tokens] /\ DOMAIN tokens' \subseteq Nonces
      /\ owner' \in [Nonces -> Actors \cup {Nobody}]
      /\ DOMAIN tokens' \subseteq 1..(next' - 1)
      /\ \A n \in DOMAIN tokens' :
           tokens'[n].state = "pending" => owner'[n] = tokens'[n].in.actor
  BY MintStep
<1>2. next' \in 1..(MaxMints + 1)
  BY <1>1, MintsAssumption DEF Nonces
<1>3. TypeOK'
  BY <1>1, <1>2 DEF IInv, TypeOK, chat
<1>4. Ownership'
  BY <1>1 DEF Ownership
<1> QED BY <1>3, <1>4 DEF IInv

\* A step that hands nobody a token keeps the invariant when every token it
\* leaves is its asker's as before, and no more pending than before.
LEMMA KeepIInv ==
    ASSUME IInv,
           tokens' \in [DOMAIN tokens' -> Tokens],
           DOMAIN tokens' \subseteq DOMAIN tokens,
           \A n \in DOMAIN tokens' :
              tokens'[n].state = "pending" =>
                 /\ tokens[n].state = "pending"
                 /\ tokens'[n].in.actor = tokens[n].in.actor,
           job' \in Jobs,
           job'.at \in {"claimed", "working"} =>
              /\ job.at \in {"claimed", "working"}
              /\ job'.nonce = job.nonce /\ job'.by = job.by,
           now' \in 0..MaxTime, boot' \in 1..MaxBoots, risky' \subseteq Doubles,
           drawn' \subseteq Buttons, lastMsg' \in Msgs,
           screen' \in [Nonces -> Msgs \cup {0}], ran' \in [Nonces -> Seq(Actors)],
           UNCHANGED <<next, owner>>
    PROVE  IInv'
<1>1. TypeOK'
  BY DEF IInv, TypeOK
<1>2. DOMAIN tokens' \subseteq 1..(next' - 1)
  BY DEF IInv, Ownership
<1>3. \A n \in DOMAIN tokens' :
        tokens'[n].state = "pending" => owner'[n] = tokens'[n].in.actor
  BY DEF IInv, Ownership
<1>4. job'.at \in {"claimed", "working"} =>
        /\ job'.nonce \in 1..(next' - 1)
        /\ job'.by = owner'[job'.nonce]
        /\ job'.nonce \in DOMAIN tokens' => tokens'[job'.nonce].state # "pending"
  BY DEF IInv, Ownership
<1> QED BY <1>1, <1>2, <1>3, <1>4 DEF IInv, Ownership

-----------------------------------------------------------------------------
LEMMA InitIInv == Init => IInv
  BY StoreAssumption, MintsAssumption, ActionsAssumption
  DEF Init, IInv, TypeOK, Ownership, Tokens, Nonces, Msgs, Buttons, Jobs, Works, Idle

\* Showing a screen, wherever it ends up.
LEMMA ShowIInv == IInv /\ (ShowHere \/ ShowAnew \/ ShowFails) => IInv'
<1> SUFFICES ASSUME IInv, ShowHere \/ ShowAnew \/ ShowFails PROVE IInv'
  OBVIOUS
<1>1. /\ job \in Jobs /\ job # Idle /\ job.msg \in Msgs \cup {0}
      /\ job.shown \subseteq Nonces
  BY DEF IInv, TypeOK, Jobs, Works, Idle, ShowHere, ShowAnew, ShowFails
<1>2. \A msg \in Msgs : Draw(msg) \subseteq Buttons
  BY <1>1 DEF Draw, Buttons, IInv, TypeOK
<1>3. drawn' \subseteq Buttons /\ lastMsg' \in Msgs
  <2>1. CASE ShowHere
    BY <1>1, <1>2, <2>1 DEF ShowHere, IInv, TypeOK
  <2>2. CASE ShowAnew
    <3>1. lastMsg' \in Msgs
      BY <2>2, MintsAssumption DEF ShowAnew, IInv, TypeOK, Msgs
    <3>2. PICK edited \in BOOLEAN :
            /\ edited => job.msg # 0
            /\ drawn' = drawn \cup Draw(lastMsg')
                              \cup (IF edited THEN Draw(job.msg) ELSE {})
      BY <2>2 DEF ShowAnew
    <3>3. edited => Draw(job.msg) \subseteq Buttons
      BY <1>1, <1>2, <3>2
    <3>4. Draw(lastMsg') \subseteq Buttons /\ drawn \subseteq Buttons
      BY <1>2, <3>1 DEF IInv, TypeOK
    <3> QED BY <3>1, <3>2, <3>3, <3>4
  <2>3. CASE ShowFails
    <3>1. lastMsg < MaxMsgs => lastMsg + 1 \in Msgs
      BY MintsAssumption DEF IInv, TypeOK, Msgs
    <3>2. lastMsg < MaxMsgs => Draw(lastMsg + 1) \subseteq Buttons
      BY <1>2, <3>1
    <3>3. job.msg # 0 => Draw(job.msg) \subseteq Buttons
      BY <1>1, <1>2
    <3> QED BY <2>3, <3>1, <3>2, <3>3 DEF ShowFails, IInv, TypeOK, chat
  <2> QED BY <2>1, <2>2, <2>3
<1>4. PICK msg \in Msgs \cup {0} : Showed(msg)
  BY <1>1, <1>3 DEF ShowHere, ShowAnew, ShowFails
<1>5. PICK to \in Msgs \cup {0} : tokens' = tokens \/ tokens' = Rebound(job.shown, to)
  BY <1>1, <1>3 DEF ShowHere, ShowAnew, ShowFails
<1>6. /\ tokens' \in [DOMAIN tokens' -> Tokens] /\ DOMAIN tokens' = DOMAIN tokens
      /\ \A n \in DOMAIN tokens' :
           /\ tokens'[n].state = tokens[n].state
           /\ tokens'[n].in.actor = tokens[n].in.actor
  <2>1. CASE tokens' = tokens
    BY <2>1 DEF IInv, TypeOK
  <2>2. CASE tokens' = Rebound(job.shown, to)
    BY <2>2, TokenTypes, StatesKept DEF IInv
  <2> QED BY <1>5, <2>1, <2>2
<1>7. screen' \in [Nonces -> Msgs \cup {0}]
  BY <1>4 DEF Showed, IInv, TypeOK
<1>8. job' \in Jobs /\ job'.at = "idle"
  BY <1>4 DEF Showed, Jobs, Idle
<1>9. /\ now' \in 0..MaxTime /\ boot' \in 1..MaxBoots /\ risky' \subseteq Doubles
      /\ ran' \in [Nonces -> Seq(Actors)] /\ UNCHANGED <<next, owner>>
  BY <1>4 DEF Showed, IInv, TypeOK
<1> QED BY <1>3, <1>6, <1>7, <1>8, <1>9, KeepIInv

\* Every step keeps the invariant.
LEMMA NextIInv == IInv /\ [Next]_vars => IInv'
<1> SUFFICES ASSUME IInv, [Next]_vars PROVE IInv'
  OBVIOUS
<1>t. /\ tokens \in [DOMAIN tokens -> Tokens] /\ job \in Jobs
      /\ now \in 0..MaxTime /\ boot \in 1..MaxBoots /\ risky \subseteq Doubles
      /\ drawn \subseteq Buttons /\ lastMsg \in Msgs
      /\ screen \in [Nonces -> Msgs \cup {0}] /\ ran \in [Nonces -> Seq(Actors)]
  BY DEF IInv, TypeOK
<1>j. job.at # "idle" =>
        /\ job.nonce \in Nonces /\ job.in \in Intents /\ job.by \in Actors
        /\ job.msg \in Msgs \cup {0} /\ job.shown \subseteq Nonces
        /\ job \in Works
  BY <1>t DEF Jobs, Works, Idle
<1>i. Idle \in Jobs /\ Idle.at = "idle"
  BY DEF Jobs, Idle
<1>1. ASSUME NEW a \in Actions, NEW u \in Actors, NEW m \in 0..lastMsg, Ask(a, u, m)
      PROVE  IInv'
  <2> DEFINE in == [action |-> a, actor |-> u, msg |-> m, final |-> FALSE]
  <2>1. in \in Intents /\ m \in Msgs \cup {0}
    BY <1>t, MintsAssumption DEF Intents, Msgs
  <2>2. /\ Mint(tokens, in)
        /\ job' = [at |-> "show", nonce |-> next, in |-> in, by |-> u,
                   msg |-> m, shown |-> {next}]
        /\ UNCHANGED <<now, boot, risky, chat, screen, ran>>
    BY <1>1 DEF Ask
  <2>3. next \in Nonces
    BY <2>2 DEF Mint
  <2> HIDE DEF in
  <2>4. job' \in Jobs /\ job'.at = "show"
    BY <2>1, <2>2, <2>3 DEF Jobs, Works
  <2> QED BY <1>t, <2>1, <2>2, <2>4, MintIInv
<1>2. CASE ShowHere \/ ShowAnew \/ ShowFails
  BY <1>2, ShowIInv
<1>3. ASSUME NEW b \in drawn, NEW u \in Actors, Claim(b, u)
      PROVE  IInv'
  <2>1. /\ b.nonce \in DOMAIN tokens /\ b.nonce \in Nonces /\ b.msg \in Msgs
        /\ tokens[b.nonce].state = "pending" /\ tokens[b.nonce].in.actor = u
        /\ tokens[b.nonce] \in Tokens /\ tokens[b.nonce].in \in Intents
    BY <1>t, <1>3 DEF Claim, take, Buttons, Tokens
  <2>2. job' = [at |-> "claimed", nonce |-> b.nonce, in |-> tokens[b.nonce].in,
                by |-> u, msg |-> b.msg, shown |-> {}]
    BY <1>3 DEF Claim
  <2>3. job' \in Jobs
    BY <2>1, <2>2 DEF Jobs, Works
  <2>4. tokens' = [tokens EXCEPT ![b.nonce].state = "running"]
    BY <1>3 DEF Claim
  <2>5. /\ tokens' \in [DOMAIN tokens -> Tokens]
        /\ tokens'[b.nonce].state = "running"
        /\ \A n \in DOMAIN tokens : n # b.nonce => tokens'[n] = tokens[n]
    BY <1>t, <2>1, <2>4 DEF Tokens
  <2>6. UNCHANGED <<next, now, boot, risky, chat, ghosts>>
    BY <1>3 DEF Claim
  <2>7. TypeOK'
    BY <2>3, <2>5, <2>6 DEF IInv, TypeOK, chat, ghosts
  <2>8. Ownership'
    BY <2>1, <2>2, <2>5, <2>6 DEF IInv, Ownership, ghosts
  <2> QED BY <2>7, <2>8 DEF IInv
<1>4. ASSUME NEW b \in drawn, (\E u \in Actors : Cancel(b, u)) \/ PressExpired(b)
      PROVE  IInv'
  <2>1. /\ tokens' = Without({b.nonce}) /\ job' = job
        /\ UNCHANGED <<next, now, boot, risky, chat, ghosts>>
    BY <1>4 DEF Cancel, PressExpired
  <2>2. /\ tokens' \in [DOMAIN tokens' -> Tokens] /\ DOMAIN tokens' \subseteq DOMAIN tokens
        /\ \A n \in DOMAIN tokens' : tokens'[n] = tokens[n]
    BY <2>1, TokenTypes DEF Without, IInv
  <2> QED BY <1>t, <2>1, <2>2, KeepIInv DEF chat, ghosts
<1>5. CASE AskTwice
  <2> DEFINE in == [job.in EXCEPT !.actor = job.by, !.msg = job.msg, !.final = TRUE]
  <2>1. job.at = "claimed" /\ in \in Intents
    BY <1>5, <1>j DEF AskTwice, Intents
  <2>2. /\ Mint(Finished(job.nonce), in)
        /\ job' = [job EXCEPT !.at = "show", !.nonce = next, !.in = in,
                              !.shown = {next}]
        /\ UNCHANGED <<now, boot, risky, chat, screen, ran>>
    BY <1>5 DEF AskTwice
  <2>3. next \in Nonces
    BY <2>2 DEF Mint
  <2> HIDE DEF in
  <2>4. job' \in Jobs /\ job'.at = "show"
    BY <1>j, <2>1, <2>2, <2>3 DEF Jobs, Works
  <2>5. /\ Finished(job.nonce) \in [DOMAIN tokens -> Tokens]
        /\ \A n \in DOMAIN tokens :
             Finished(job.nonce)[n].state = "pending" =>
                /\ tokens[n].state = "pending"
                /\ Finished(job.nonce)[n].in = tokens[n].in
    BY TokenTypes, StatesKept DEF IInv
  <2> QED BY <2>1, <2>2, <2>4, <2>5, MintIInv
<1>6. CASE Proceed \/ Act
  <2>1. /\ tokens' = tokens /\ UNCHANGED <<next, now, boot, risky, chat, owner, screen>>
        /\ job.at \in {"claimed", "working"}
    BY <1>6 DEF Proceed, Act, ghosts
  <2>2. \E at \in {"working", "acted"} : job' = [job EXCEPT !.at = at]
    BY <1>6 DEF Proceed, Act
  <2>3. job' \in Jobs /\ job'.nonce = job.nonce /\ job'.by = job.by
    BY <1>j, <2>1, <2>2 DEF Jobs, Works
  <2>4. ran' \in [Nonces -> Seq(Actors)]
    <3>1. CASE Proceed
      BY <1>t, <3>1 DEF Proceed, ghosts
    <3>2. CASE Act
      <4>1. job.nonce \in Nonces /\ job.by \in Actors /\ ran[job.nonce] \in Seq(Actors)
        BY <1>t, <1>j, <3>2 DEF Act
      <4>2. Append(ran[job.nonce], job.by) \in Seq(Actors)
        BY <4>1
      <4>3. ran' = [ran EXCEPT ![job.nonce] = Append(ran[job.nonce], job.by)]
        BY <3>2 DEF Act
      <4> QED BY <1>t, <4>2, <4>3
    <3> QED BY <1>6, <3>1, <3>2
  <2> QED BY <1>t, <2>1, <2>3, <2>4, KeepIInv DEF chat
<1>7. CASE mintTrialKB
  <2> DEFINE in == [job.in EXCEPT !.action = "keep", !.final = FALSE]
  <2>1. job.at = "acted" /\ in \in Intents
    BY <1>7, <1>j DEF mintTrialKB, Intents
  <2>2. /\ Mint(tokens, in)
        /\ job' = [job EXCEPT !.shown = @ \cup {next}]
        /\ UNCHANGED <<now, boot, risky, chat, screen, ran>>
    BY <1>7 DEF mintTrialKB
  <2>3. next \in Nonces
    BY <2>2 DEF Mint
  <2> HIDE DEF in
  <2>4. job' \in Jobs /\ job'.at = "acted"
    BY <1>j, <2>1, <2>2, <2>3 DEF Jobs, Works
  <2> QED BY <1>t, <2>1, <2>2, <2>4, MintIInv
<1>8. CASE Return \/ RefuseTwice
  <2>1. /\ tokens' = Finished(job.nonce) /\ job.at \in {"acted", "claimed"}
        /\ UNCHANGED <<next, now, boot, risky, chat, ghosts>>
        /\ \/ job' = [job EXCEPT !.at = "outcome"]
           \/ job' = [job EXCEPT !.at = "outcome",
                         !.shown = IF Cardinality(@) = 2 THEN @ ELSE {}]
    BY <1>8 DEF Return, RefuseTwice
  <2>2. job' \in Jobs /\ job'.at = "outcome"
    BY <1>j, <2>1 DEF Jobs, Works
  <2>3. /\ tokens' \in [DOMAIN tokens' -> Tokens] /\ DOMAIN tokens' = DOMAIN tokens
        /\ \A n \in DOMAIN tokens :
             tokens'[n].state = "pending" =>
                tokens[n].state = "pending" /\ tokens'[n].in = tokens[n].in
    BY <2>1, TokenTypes, StatesKept DEF IInv
  <2> QED BY <1>t, <2>1, <2>2, <2>3, KeepIInv DEF chat, ghosts
<1>9. CASE Panic
  BY <1>t, <1>i, <1>9, KeepIInv DEF Panic, chat, ghosts
<1>10. CASE Crash
  <2>1. /\ tokens' = Without(DOMAIN tokens) /\ job' = Idle /\ boot' = boot + 1
        /\ boot < MaxBoots /\ UNCHANGED <<next, now, risky, chat, ghosts>>
    BY <1>10 DEF Crash
  <2>2. DOMAIN tokens' = {} /\ tokens' \in [DOMAIN tokens' -> Tokens]
    BY <2>1 DEF Without
  <2>3. boot' \in 1..MaxBoots
    BY <1>t, <2>1, MintsAssumption
  <2> QED BY <1>t, <1>i, <2>1, <2>2, <2>3, KeepIInv DEF chat, ghosts
<1>11. CASE Tick
  <2>1. now' \in 0..MaxTime
    BY <1>t, <1>11, MintsAssumption DEF Tick
  <2> QED BY <1>t, <1>11, <2>1, KeepIInv DEF Tick, chat, ghosts
<1>12. CASE HostChanges
  BY <1>t, <1>12, KeepIInv DEF HostChanges, chat, ghosts
<1>13. CASE UNCHANGED vars
  BY <1>t, <1>13, KeepIInv DEF vars, chat, ghosts
<1> QED
  BY <1>1, <1>2, <1>3, <1>4, <1>5, <1>6, <1>7, <1>8, <1>9, <1>10, <1>11, <1>12,
     <1>13 DEF Next

\* What the proofs below rest on: every reachable state is well typed, every
\* pending token is its asker's, and a token in use is no longer pending.
THEOREM InductiveInvariant == Spec => []IInv
  BY InitIInv, NextIInv, PTL DEF Spec

\* The store, the handlers and the chat are always well typed.
THEOREM TypeCorrect == Spec => []TypeOK
  BY InductiveInvariant, PTL DEF IInv

-----------------------------------------------------------------------------
(* The refinement.                                                         *)

\* A mint is a request, and drops what eviction took and what it replaces.
LEMMA MintRefines ==
    ASSUME IInv, NEW T \in [DOMAIN tokens -> Tokens], NEW in \in Intents,
           \A n \in DOMAIN tokens :
              T[n].state = "pending" => /\ tokens[n].state = "pending"
                                        /\ T[n].in = tokens[n].in,
           Mint(T, in),
           job'.at \notin {"claimed", "working"},
           UNCHANGED ran
    PROVE  Promise!Next
<1>1. /\ next \in Nonces /\ next' = next + 1
      /\ DOMAIN tokens' = (DOMAIN tokens \ evict) \cup {next}
      /\ tokens'[next].state = "pending"
      /\ \A n \in DOMAIN tokens \ evict : tokens'[n] = T[n]
      /\ owner' = [owner EXCEPT ![next] = in.actor]
  BY MintStep
<1>2. in.actor \in Actors
  BY DEF Intents
<1>3. next \notin 1..(next - 1) /\ 1..(next' - 1) = (1..(next - 1)) \cup {next}
  BY <1>1 DEF Nonces
<1> DEFINE gone == Open \ Open'
<1>4. Open \subseteq Nonces
  BY MintsAssumption DEF Open, IInv, TypeOK, Ownership, Nonces
<1>5. Open' \subseteq Open \cup {next} /\ next \in Open'
  BY <1>1 DEF Open
<1>6. Open' = (Open \ gone) \cup {next}
  BY <1>5
<1>7. Promise!Ask(next, in.actor, gone)
  BY <1>1, <1>3, <1>6 DEF Promise!Ask
<1> QED BY <1>1, <1>2, <1>4, <1>7 DEF Promise!Next

\* Every step of the store and its handlers is one the promise allows.
LEMMA StepRefines == IInv /\ [Next]_vars => [Promise!Next]_(Promise!vars)
<1> SUFFICES ASSUME IInv, [Next]_vars PROVE [Promise!Next]_(Promise!vars)
  OBVIOUS
<1>t. tokens \in [DOMAIN tokens -> Tokens] /\ Open \subseteq Nonces
  BY MintsAssumption DEF IInv, TypeOK, Open, Ownership, Nonces
<1>j. job.at # "idle" => job \in Works
  BY DEF IInv, TypeOK, Jobs, Idle
\* A step that only takes requests away.
<1>d. ASSUME UNCHANGED <<next, owner, ran>>, Open' \subseteq Open
      PROVE  [Promise!Next]_(Promise!vars)
  <2> DEFINE gone == Open \ Open'
  <2>1. gone \in SUBSET Nonces /\ Open' = Open \ gone
    BY <1>t, <1>d
  <2>2. Promise!Drop(gone)
    BY <1>d, <2>1 DEF Promise!Drop
  <2> QED BY <2>1, <2>2 DEF Promise!Next
<1>1. ASSUME NEW a \in Actions, NEW u \in Actors, NEW m \in 0..lastMsg, Ask(a, u, m)
      PROVE  Promise!Next
  <2> DEFINE in == [action |-> a, actor |-> u, msg |-> m, final |-> FALSE]
  <2>1. in \in Intents
    BY MintsAssumption DEF Intents, IInv, TypeOK, Msgs
  <2>2. Mint(tokens, in) /\ job'.at = "show" /\ UNCHANGED ran
    BY <1>1 DEF Ask
  <2> QED BY <1>t, <2>1, <2>2, MintRefines
<1>2. CASE ShowHere \/ ShowAnew \/ ShowFails
  <2>1. job.at \in {"show", "outcome"} /\ job' = Idle /\ UNCHANGED <<next, owner, ran>>
    BY <1>2 DEF ShowHere, ShowAnew, ShowFails, Showed
  <2>2. \/ tokens' = tokens
        \/ \E N, msg : tokens' = Rebound(N, msg)
    BY <1>2 DEF ShowHere, ShowAnew, ShowFails
  <2>3. DOMAIN tokens' = DOMAIN tokens
        /\ \A n \in DOMAIN tokens : tokens'[n].state = tokens[n].state
    <3>1. CASE tokens' = tokens
      BY <3>1
    <3>2. CASE \E N, msg : tokens' = Rebound(N, msg)
      BY <3>2, StatesKept DEF IInv, Rebound
    <3> QED BY <2>2, <3>1, <3>2
  <2>4. Open' \subseteq Open
    BY <2>1, <2>3 DEF Open, Idle
  <2> QED BY <1>d, <2>1, <2>4
<1>3. ASSUME NEW b \in drawn, NEW u \in Actors, Claim(b, u)
      PROVE  UNCHANGED Promise!vars
  <2>1. /\ job = Idle /\ b.nonce \in DOMAIN tokens /\ tokens[b.nonce].state = "pending"
        /\ tokens' = [tokens EXCEPT ![b.nonce].state = "running"]
        /\ job'.at = "claimed" /\ job'.nonce = b.nonce
        /\ UNCHANGED <<next, owner, ran>>
    BY <1>3 DEF Claim, take, ghosts
  <2>2. /\ DOMAIN tokens' = DOMAIN tokens
        /\ tokens'[b.nonce].state = "running"
        /\ \A n \in DOMAIN tokens : n # b.nonce => tokens'[n] = tokens[n]
    BY <1>t, <2>1 DEF Tokens
  <2>3. Open' = Open
    BY <2>1, <2>2 DEF Open, Idle
  <2> QED BY <2>1, <2>3 DEF Promise!vars
<1>4. ASSUME NEW b \in drawn, (\E u \in Actors : Cancel(b, u)) \/ PressExpired(b)
      PROVE  [Promise!Next]_(Promise!vars)
  <2>1. tokens' = Without({b.nonce}) /\ job' = job /\ UNCHANGED <<next, owner, ran>>
    BY <1>4 DEF Cancel, PressExpired, ghosts
  <2>2. Open' \subseteq Open
    BY <2>1 DEF Open, Without
  <2> QED BY <1>d, <2>1, <2>2
<1>5. CASE AskTwice
  <2> DEFINE in == [job.in EXCEPT !.actor = job.by, !.msg = job.msg, !.final = TRUE]
  <2>1. /\ Mint(Finished(job.nonce), in) /\ job.at = "claimed"
        /\ job' = [job EXCEPT !.at = "show", !.nonce = next, !.in = in,
                              !.shown = {next}]
        /\ UNCHANGED ran
    BY <1>5 DEF AskTwice
  <2>2. in \in Intents /\ job'.at = "show"
    BY <1>j, <2>1 DEF Works, Intents
  <2>3. /\ Finished(job.nonce) \in [DOMAIN tokens -> Tokens]
        /\ \A n \in DOMAIN tokens :
             Finished(job.nonce)[n].state = "pending" =>
                /\ tokens[n].state = "pending"
                /\ Finished(job.nonce)[n].in = tokens[n].in
    BY TokenTypes, StatesKept DEF IInv
  <2> HIDE DEF in
  <2> QED BY <2>1, <2>2, <2>3, MintRefines
<1>6. CASE Proceed
  <2>1. /\ job' = [job EXCEPT !.at = "working"] /\ job.at = "claimed"
        /\ UNCHANGED <<tokens, next, owner, ran>>
    BY <1>6 DEF Proceed, ghosts
  <2>2. job'.at = "working" /\ job'.nonce = job.nonce
    BY <1>j, <2>1 DEF Works
  <2>3. Open' = Open
    BY <2>1, <2>2 DEF Open
  <2> QED BY <2>1, <2>3 DEF Promise!vars
<1>7. CASE Act
  <2>1. /\ job.at = "working" /\ job' = [job EXCEPT !.at = "acted"]
        /\ ran' = [ran EXCEPT ![job.nonce] = Append(@, job.by)]
        /\ UNCHANGED <<tokens, next, owner>>
    BY <1>7 DEF Act
  <2>2. job'.at = "acted"
    BY <1>j, <2>1 DEF Works
  <2>3. job.nonce \in Nonces /\ job.nonce \in Open /\ job.by = owner[job.nonce]
    BY <1>t, <2>1 DEF Open, IInv, Ownership
  <2>4. Open' = Open \ {job.nonce}
    BY <2>1, <2>2 DEF Open, IInv, Ownership
  <2>5. ran' = [ran EXCEPT ![job.nonce] = Append(@, owner[job.nonce])]
    BY <2>1, <2>3
  <2>6. Promise!Run(job.nonce)
    BY <2>1, <2>3, <2>4, <2>5 DEF Promise!Run
  <2> QED BY <2>3, <2>6 DEF Promise!Next
<1>8. CASE mintTrialKB
  <2> DEFINE in == [job.in EXCEPT !.action = "keep", !.final = FALSE]
  <2>1. /\ Mint(tokens, in) /\ job.at = "acted"
        /\ job' = [job EXCEPT !.shown = @ \cup {next}]
        /\ UNCHANGED ran
    BY <1>8 DEF mintTrialKB
  <2>2. in \in Intents /\ job'.at = "acted"
    BY <1>j, <2>1 DEF Works, Intents
  <2> HIDE DEF in
  <2> QED BY <1>t, <2>1, <2>2, MintRefines
<1>9. CASE Return \/ RefuseTwice
  <2>1. /\ tokens' = Finished(job.nonce) /\ job.at \in {"acted", "claimed"}
        /\ job'.at = "outcome" /\ UNCHANGED <<next, owner, ran>>
    BY <1>j, <1>9 DEF Return, RefuseTwice, ghosts, Works
  <2>2. DOMAIN tokens' = DOMAIN tokens
    BY <2>1, TokenTypes DEF IInv
  <2>3. Open' \subseteq Open
    BY <2>1, <2>2, StatesKept DEF Open, IInv
  <2> QED BY <1>d, <2>1, <2>3
<1>10. CASE Panic
  <2>1. job' = Idle /\ UNCHANGED <<tokens, next, owner, ran>>
    BY <1>10 DEF Panic, ghosts
  <2>2. Open' \subseteq Open
    BY <2>1 DEF Open, Idle
  <2> QED BY <1>d, <2>1, <2>2
<1>11. CASE Crash
  <2>1. /\ job' = Idle /\ DOMAIN tokens' = {} /\ UNCHANGED <<next, owner, ran>>
    BY <1>11 DEF Crash, Without, ghosts
  <2>2. Open' \subseteq Open
    BY <2>1 DEF Open, Idle
  <2> QED BY <1>d, <2>1, <2>2
<1>12. CASE Tick \/ HostChanges \/ UNCHANGED vars
  <2>1. UNCHANGED <<tokens, next, job, owner, ran>>
    BY <1>12 DEF Tick, HostChanges, vars, ghosts
  <2>2. Open' = Open
    BY <2>1 DEF Open
  <2> QED BY <2>1, <2>2 DEF Promise!vars
<1> QED
  BY <1>1, <1>2, <1>3, <1>4, <1>5, <1>6, <1>7, <1>8, <1>9, <1>10, <1>11, <1>12
  DEF Next

\* The store and its handlers implement the promise: whatever is pressed
\* again, late or by others, and wherever a handler panics or the process
\* dies, a request's action runs at most once and on its asker's word.
THEOREM Refinement == Spec => KeepsPromise
<1>1. Init => Promise!Init
  BY DEF Init, Promise!Init, Open, Idle
<1>2. IInv /\ [Next]_vars => [Promise!Next]_(Promise!vars)
  BY StepRefines
<1> QED BY <1>1, <1>2, InductiveInvariant, PTL DEF Spec, KeepsPromise, Promise!Spec

\* A set of naturals has a least one, and a finite one a greatest one.
LEMMA LeastNat ==
    ASSUME NEW T, T \subseteq Nat, T # {}
    PROVE  \E x \in T : \A y \in T : x <= y
<1> DEFINE R == {ss \in Nat \X Nat : ss[1] < ss[2]}
<1>1. IsWellFoundedOn(R, Nat)
  BY NatLessThanWellFounded DEF OpToRel
<1>2. PICK x \in T : \A y \in T : ~ (<<y, x>> \in R)
  BY <1>1, WFMin
<1>3. \A y \in T : x <= y
  <2> TAKE y \in T
  <2>1. x \in Nat /\ y \in Nat /\ <<y, x>>[1] = y /\ <<y, x>>[2] = x
    OBVIOUS
  <2>2. ~ (y < x)
    BY <1>2, <2>1
  <2> QED BY <2>1, <2>2
<1> QED BY <1>3

LEMMA GreatestNat ==
    ASSUME NEW b \in Nat, NEW T, T \subseteq 0 .. b, T # {}
    PROVE  \E x \in T : \A y \in T : y <= x
<1> DEFINE U == {b - t : t \in T}
<1>1. U \subseteq Nat /\ U # {}
  <2>1. \A t \in T : b - t \in Nat
    OBVIOUS
  <2> QED BY <2>1
<1>2. PICK u \in U : \A v \in U : u <= v
  BY <1>1, LeastNat
<1>3. PICK x \in T : u = b - x
  BY <1>2
<1>4. \A y \in T : y <= x
  <2> TAKE y \in T
  <2>1. b - y \in U /\ b - x <= b - y
    BY <1>2, <1>3
  <2> QED BY <2>1
<1> QED BY <1>4

\* As many of a set's numbers as are asked for have fewer than that many above
\* them: the greatest ones.
Above(S, n) == {m \in S : m > n}
Top(S, r) == {n \in S : Cardinality(Above(S, n)) < r}

LEMMA TopCount ==
    ASSUME NEW b \in Nat, NEW S, S \subseteq 0 .. b, NEW r \in Nat, r <= Cardinality(S)
    PROVE  Cardinality(Top(S, r)) = r
<1> DEFINE c == Cardinality(S)
           Bad == {q \in Nat : q <= c /\ Cardinality(Top(S, q)) # q}
<1>1. IsFiniteSet(S) /\ c \in Nat
  <2>1. IsFiniteSet(0 .. b)
    BY FS_Interval
  <2> QED BY <2>1, FS_Subset, FS_CardinalityType
<1>2. \A n : IsFiniteSet(Above(S, n)) /\ Cardinality(Above(S, n)) \in Nat
  BY <1>1, FS_Subset, FS_CardinalityType DEF Above
<1>3. \A q : IsFiniteSet(Top(S, q)) /\ Top(S, q) \subseteq S
  BY <1>1, FS_Subset DEF Top
<1>4. SUFFICES Bad = {}
  BY <1>1
<1>5. SUFFICES ASSUME NEW q \in Bad, \A p \in Bad : q <= p PROVE FALSE
  BY LeastNat
<1>6. q # 0
  <2>1. Top(S, 0) = {}
    BY <1>2 DEF Top
  <2> QED BY <1>5, <2>1, FS_EmptySet
<1> DEFINE p == q - 1
           K == Top(S, p)
           U == S \ K
<1>7. p \in Nat /\ p < c /\ Cardinality(K) = p
  <2>1. p \in Nat /\ p <= c /\ ~ (q <= p)
    BY <1>1, <1>5, <1>6
  <2> QED BY <1>1, <1>5, <2>1
<1>8. U # {} /\ U \subseteq 0 .. b
  <2>1. K # S
    BY <1>1, <1>7
  <2> QED BY <1>3, <2>1
<1>9. PICK x \in U : \A y \in U : y <= x
  BY <1>8, GreatestNat
<1>10. Above(S, x) = K
  <2>1. ASSUME NEW m \in S, m > x PROVE m \in K
    <3>1. ~ (m <= x)
      BY <2>1, <1>8, <1>9
    <3> QED BY <3>1, <1>9
  <2>2. ASSUME NEW m \in K PROVE m > x
    <3>1. m \in S /\ m \in Nat /\ x \in S /\ x \in Nat /\ m # x
      <4>1. m \in S /\ x \in S /\ x \notin K
        BY <1>3, <1>9, <2>2
      <4> HIDE DEF K
      <4> QED BY <2>2, <4>1
    <3>2. ASSUME m < x PROVE FALSE
      <4>1. Above(S, x) \subseteq Above(S, m)
        <5>1. \A k \in S : k > x => k > m
          BY <3>1, <3>2
        <5> QED BY <5>1 DEF Above
      <4>2. Cardinality(Above(S, x)) <= Cardinality(Above(S, m))
        BY <1>2, <4>1, FS_Subset
      <4>3. Cardinality(Above(S, m)) < p /\ ~ (Cardinality(Above(S, x)) < p)
        BY <1>9, <2>2 DEF Top
      <4> QED BY <1>2, <1>7, <4>2, <4>3
    <3> QED BY <3>1, <3>2
  <2> QED BY <1>3, <2>1, <2>2 DEF Above
<1>11. Top(S, q) = K \cup {x}
  <2>1. K \subseteq Top(S, q)
    BY <1>2, <1>7 DEF Top
  <2>2. x \in Top(S, q)
    BY <1>7, <1>9, <1>10 DEF Top
  <2>3. ASSUME NEW m \in U, m # x PROVE m \notin Top(S, q)
    <3>1. m < x /\ m \in Nat /\ x \in Nat /\ x \in S
      BY <1>8, <1>9, <2>3
    <3>2. K \cup {x} \subseteq Above(S, m)
      <4>1. \A k \in S : k > x => k > m
        BY <3>1
      <4>2. Above(S, x) \subseteq Above(S, m) /\ x \in Above(S, m)
        BY <3>1, <4>1 DEF Above
      <4> QED BY <1>10, <4>2
    <3>3. Cardinality(K \cup {x}) = p + 1
      BY <1>3, <1>7, <1>9, FS_AddElement
    <3>4. p + 1 <= Cardinality(Above(S, m))
      BY <1>2, <3>2, <3>3, FS_Subset
    <3> QED BY <1>2, <1>7, <3>4 DEF Top
  <2> QED BY <1>3, <2>1, <2>2, <2>3
<1>12. Cardinality(Top(S, q)) = q
  BY <1>3, <1>7, <1>9, <1>11, FS_AddElement
<1> QED BY <1>5, <1>12

\* What a mint drops: the expired, and all but the newest good ones.
LEMMA MintEvicts ==
    ASSUME IInv, NEW T \in [DOMAIN tokens -> Tokens], NEW in, Mint(T, in),
           NEW n \in DOMAIN tokens, n \notin DOMAIN tokens', ~ Expired(n)
    PROVE  /\ Cardinality(DOMAIN tokens') = MaxTokens
           /\ \A m \in DOMAIN tokens' : m > n /\ (m # next => ~ Expired(m))
<1> DEFINE live == {m \in DOMAIN tokens : ~ Expired(m)}
           r == MaxTokens - 1
           K == Top(live, r)
           G == Above(live, n)
<1>1. DOMAIN tokens' = (DOMAIN tokens \ evict) \cup {next} /\ next \in Nat
  BY MintsAssumption DEF Mint, IInv, TypeOK
<1>2. /\ DOMAIN tokens \subseteq 1 .. (next - 1) /\ DOMAIN tokens \subseteq Nat
      /\ live \subseteq 0 .. next /\ next \notin DOMAIN tokens
      /\ \A m \in DOMAIN tokens : next > m
  BY <1>1 DEF IInv, Ownership
<1>3. IsFiniteSet(DOMAIN tokens) /\ IsFiniteSet(live) /\ Cardinality(live) \in Nat
  <2>1. IsFiniteSet(1 .. (next - 1))
    BY <1>1, FS_Interval
  <2> QED BY <1>2, <2>1, FS_Subset, FS_CardinalityType
<1>4. n \in evict /\ n \in live
  BY <1>1
<1>5. r \in Nat /\ Cardinality(G) >= r
  BY <1>4, StoreAssumption DEF evict, Above
<1>6. \A m : /\ IsFiniteSet(Above(live, m)) /\ Cardinality(Above(live, m)) \in Nat
             /\ Cardinality(Above(live, m)) <= Cardinality(live)
  BY <1>3, FS_Subset, FS_CardinalityType DEF Above
<1>7. DOMAIN tokens \ evict = K
  <2>1. evict = {m \in DOMAIN tokens : Expired(m) \/ Cardinality(Above(live, m)) >= r}
    BY <1>4 DEF evict, Above
  <2>2. \A m \in live : Cardinality(Above(live, m)) < r <=> ~ (Cardinality(Above(live, m)) >= r)
    BY <1>5, <1>6
  <2> QED BY <2>1, <2>2 DEF Top
<1>8. Cardinality(K) = r
  <2>1. r <= Cardinality(live)
    BY <1>3, <1>5, <1>6
  <2> QED BY <1>1, <1>2, <1>5, <2>1, TopCount
<1>9. Cardinality(DOMAIN tokens') = MaxTokens
  <2>1. IsFiniteSet(K) /\ next \notin K
    BY <1>2, <1>3, FS_Subset DEF Top
  <2> QED BY <1>1, <1>5, <1>7, <1>8, <2>1, FS_AddElement, StoreAssumption
<1>10. ASSUME NEW m \in K PROVE m > n
  <2>1. m \in live /\ m \in Nat /\ n \in Nat /\ Cardinality(Above(live, m)) < r
    BY <1>2 DEF Top
  <2>2. ASSUME m <= n PROVE FALSE
    <3>1. \A k \in live : k > n => k > m
      BY <1>2, <2>1, <2>2
    <3>2. G \subseteq Above(live, m)
      BY <3>1 DEF Above
    <3>3. Cardinality(G) <= Cardinality(Above(live, m))
      BY <1>6, <3>2, FS_Subset
    <3> QED BY <1>5, <1>6, <2>1, <3>3
  <2> QED BY <2>1, <2>2
<1>11. ASSUME NEW m \in DOMAIN tokens' PROVE m > n /\ (m # next => ~ Expired(m))
  <2>1. CASE m = next
    BY <1>2, <1>4, <2>1
  <2>2. CASE m \in K
    BY <1>10, <2>2 DEF Top
  <2> QED BY <1>1, <1>7, <2>1, <2>2
<1> QED BY <1>9, <1>11

\* EvictsOldestLast: a good confirm goes only when the store is full of good
\* newer ones (evict).
THEOREM EvictsOldestLastCorrect == Spec => EvictsOldestLast
<1> DEFINE E == \A n \in DOMAIN tokens :
                  next' # next /\ n \notin DOMAIN tokens' /\ ~ Expired(n)
                  => /\ Cardinality(DOMAIN tokens') = MaxTokens
                     /\ \A m \in DOMAIN tokens' : m > n /\ (m # next => ~ Expired(m))
<1>1. ASSUME IInv, [Next]_vars PROVE [E]_vars
  <2> SUFFICES ASSUME next' # next PROVE E
    OBVIOUS
  <2>1. tokens \in [DOMAIN tokens -> Tokens]
    BY <1>1 DEF IInv, TypeOK
  <2>2. \E T \in [DOMAIN tokens -> Tokens] : \E in : Mint(T, in)
    <3>1. ASSUME NEW a \in Actions, NEW u \in Actors, NEW m \in 0 .. lastMsg, Ask(a, u, m)
          PROVE  Mint(tokens, job'.in)
      BY <3>1 DEF Ask
    <3>2. CASE ShowHere \/ ShowAnew \/ ShowFails
      BY <3>2 DEF ShowHere, ShowAnew, ShowFails, Showed
    <3>3. CASE \E b \in drawn : (\E u \in Actors : Claim(b, u) \/ Cancel(b, u)) \/ PressExpired(b)
      BY <3>3 DEF Claim, Cancel, PressExpired
    <3>4. CASE AskTwice
      <4>1. Mint(Finished(job.nonce), job'.in)
        BY <3>4, <1>1 DEF AskTwice, IInv, TypeOK, Jobs, Works, Idle
      <4> QED BY <4>1, <1>1, TokenTypes DEF IInv
    <3>5. CASE mintTrialKB
      BY <2>1, <3>5 DEF mintTrialKB
    <3>6. CASE RefuseTwice \/ Proceed \/ Act \/ Return \/ Panic \/ Crash \/ Tick \/ HostChanges \/ UNCHANGED vars
      BY <3>6 DEF RefuseTwice, Proceed, Act, Return, Panic, Crash, Tick, HostChanges, vars
    <3> QED BY <1>1, <2>1, <3>1, <3>2, <3>3, <3>4, <3>5, <3>6 DEF Next
  <2>3. PICK T \in [DOMAIN tokens -> Tokens] : \E in : Mint(T, in)
    BY <2>2
  <2>4. PICK in : Mint(T, in)
    BY <2>3
  <2> QED BY <1>1, <2>4, MintEvicts
<1> QED BY <1>1, InductiveInvariant, PTL DEF Spec, EvictsOldestLast

-----------------------------------------------------------------------------
(* Where a confirm screen is: the store and the chat agree on its message. *)

Yes(n, msg) == [nonce |-> n, boot |-> boot, msg |-> msg]

\* A good confirm whose screen is known is bound to it, and drawn there.
Followed ==
    \A n \in DOMAIN tokens :
        tokens[n].state = "pending" /\ tokens[n].in.action # "keep" /\ screen[n] # 0
        => tokens[n].in.msg = screen[n] /\ Yes(n, screen[n]) \in drawn

\* What is not minted was shown nowhere, and what a handler will show is minted.
Unseen ==
    /\ \A n \in Nonces : n >= next => screen[n] = 0
    /\ job # Idle => \A n \in job.shown : n < next

\* A confirm about to be shown is bound to the message its handler answers;
\* other handlers show a trial's buttons only.
ShownBound ==
    /\ job.at = "show" => \A n \in job.shown \cap DOMAIN tokens : tokens[n].in.msg = job.msg
    /\ job.at \in {"claimed", "working"} => job.shown = {}
    /\ job.at \in {"acted", "outcome"} =>
         \A n \in job.shown \cap DOMAIN tokens : tokens[n].in.action = "keep"

SeenInv == Followed /\ Unseen /\ ShownBound

\* A step that binds no token and shows nothing.
LEMMA SeenKept ==
    ASSUME SeenInv, UNCHANGED << drawn, screen, next >>,
           \/ boot' = boot
           \/ DOMAIN tokens' = {},
           DOMAIN tokens' \subseteq DOMAIN tokens,
           \A n \in DOMAIN tokens' :
              /\ tokens'[n].state = "pending" => tokens[n].state = "pending"
              /\ tokens'[n].in = tokens[n].in,
           \/ job' = Idle
           \/ job' = job
           \/ job'.shown = {} /\ job' # Idle
           \/ job'.at = "outcome" /\ job.at = "acted" /\ job # Idle /\ job'.shown = job.shown
    PROVE  SeenInv'
<1>1. Followed'
  BY DEF SeenInv, Followed, Yes
<1>2. Unseen'
  BY DEF SeenInv, Unseen
<1>3. ShownBound'
  BY DEF SeenInv, ShownBound, Idle
<1> QED BY <1>1, <1>2, <1>3 DEF SeenInv

\* A step that mints: the fresh token has not been shown.
LEMMA MintSeen ==
    ASSUME IInv, SeenInv, NEW T \in [DOMAIN tokens -> Tokens], NEW in \in Intents,
           \A n \in DOMAIN tokens :
              /\ T[n].state = "pending" => tokens[n].state = "pending"
              /\ T[n].in = tokens[n].in,
           Mint(T, in), UNCHANGED << boot, drawn, screen >>,
           job # Idle \/ job' # Idle,
           \/ /\ job'.at = "show" /\ job'.shown = {next} /\ in.msg = job'.msg
           \/ /\ job'.at = "acted" /\ job.at = "acted" /\ job # Idle
              /\ job'.shown = job.shown \cup {next} /\ in.action = "keep"
    PROVE  SeenInv'
<1>1. /\ next \in Nonces /\ next' = next + 1 /\ next \notin DOMAIN tokens
      /\ DOMAIN tokens' = (DOMAIN tokens \ evict) \cup {next}
      /\ tokens'[next].in = in
      /\ \A n \in DOMAIN tokens \ evict : tokens'[n] = T[n]
  BY MintStep
<1>2. next \in Nat /\ Nonces \subseteq Nat
  BY <1>1, MintsAssumption DEF Nonces
<1>3. screen[next] = 0
  BY <1>1, <1>2 DEF SeenInv, Unseen
<1>4. Followed'
  BY <1>1, <1>3 DEF SeenInv, Followed, Yes
<1>5. Unseen'
  <2>1. \A n \in Nonces : n >= next' => n >= next
    BY <1>1, <1>2
  <2>2. \A n \in job'.shown : n < next'
    <3>1. CASE job'.shown = {next}
      BY <1>1, <1>2, <3>1
    <3>2. CASE job # Idle /\ job'.shown = job.shown \cup {next} /\ job \in Jobs
      <4>1. \A n \in job.shown : n < next /\ n \in Nat
        BY <1>2, <3>2 DEF SeenInv, Unseen, Jobs, Works, Idle
      <4> QED BY <1>1, <1>2, <3>2, <4>1
    <3> QED BY <3>1, <3>2 DEF IInv, TypeOK
  <2> QED BY <2>1, <2>2 DEF SeenInv, Unseen
<1>6. ShownBound'
  BY <1>1 DEF SeenInv, ShownBound
<1> QED BY <1>4, <1>5, <1>6 DEF SeenInv

\* A screen reaches a message, and its tokens with it, or nobody knows.
LEMMA ShowSeen ==
    ASSUME IInv, SeenInv, ShowHere \/ ShowAnew \/ ShowFails
    PROVE  SeenInv'
<1>1. /\ job \in Works /\ job.at \in {"show", "outcome"} /\ job.shown \subseteq Nonces
      /\ job' = Idle /\ UNCHANGED << next, boot >> /\ drawn \subseteq drawn'
  BY DEF IInv, TypeOK, Jobs, Works, Idle, ShowHere, ShowAnew, ShowFails, Showed, chat
<1>2. PICK msg \in Msgs \cup {0} :
        /\ Showed(msg)
        /\ msg # 0 => Draw(msg) \subseteq drawn'
        /\ \/ tokens' = Rebound(job.shown, msg)
           \/ tokens' = tokens /\ (job.at = "outcome" \/ msg = job.msg)
  <2>1. CASE ShowHere
    <3>1. job.msg \in Msgs
      BY <1>1, <2>1 DEF ShowHere, Works
    <3> QED BY <2>1, <3>1 DEF ShowHere
  <2>2. CASE ShowAnew
    <3>1. lastMsg' \in Msgs
      BY <2>2, MintsAssumption DEF ShowAnew, IInv, TypeOK, Msgs
    <3> QED BY <2>2, <3>1, <1>1 DEF ShowAnew
  <2>3. CASE ShowFails
    <3>1. Showed(0) /\ tokens' = IF job.at = "show" THEN Rebound(job.shown, 0) ELSE tokens
      BY <2>3 DEF ShowFails
    <3> QED BY <1>1, <3>1
  <2> QED BY <2>1, <2>2, <2>3
<1>3. \A n \in Nonces : screen'[n] = IF n \in job.shown THEN msg ELSE screen[n]
  BY <1>2 DEF Showed
<1>4. /\ DOMAIN tokens' = DOMAIN tokens /\ DOMAIN tokens \subseteq Nonces
      /\ \A n \in DOMAIN tokens :
           /\ tokens'[n].state = tokens[n].state
           /\ tokens'[n].in.action = tokens[n].in.action
           /\ n \notin job.shown => tokens'[n] = tokens[n]
           /\ n \in job.shown /\ tokens[n].state = "pending"
                => tokens'[n].in.msg = msg \/ (tokens' = tokens /\ (job.at = "outcome" \/ msg = job.msg))
  <2>1. \A n \in DOMAIN tokens : tokens[n] \in Tokens /\ tokens[n].in \in Intents
    BY DEF IInv, TypeOK, Tokens
  <2>2. DOMAIN tokens \subseteq Nonces
    BY DEF IInv, TypeOK
  <2>3. CASE tokens' = tokens /\ (job.at = "outcome" \/ msg = job.msg)
    BY <2>2, <2>3
  <2>4. CASE tokens' = Rebound(job.shown, msg)
    BY <2>1, <2>2, <2>4 DEF Rebound, Tokens, Intents
  <2> QED BY <1>2, <2>3, <2>4
<1>5. Followed'
  <2> SUFFICES ASSUME NEW n \in DOMAIN tokens, tokens[n].state = "pending",
                      tokens[n].in.action # "keep", screen'[n] # 0
               PROVE  tokens'[n].in.msg = screen'[n] /\ Yes(n, screen'[n]) \in drawn'
    BY <1>1, <1>4 DEF Followed, Yes
  <2>1. CASE n \in job.shown
    <3>1. screen'[n] = msg /\ msg # 0
      BY <1>3, <1>4, <2>1
    <3>2. Yes(n, msg) \in Draw(msg)
      BY <2>1 DEF Draw, Yes
    <3>3. tokens'[n].in.msg = msg
      <4>1. job.at # "outcome"
        BY <1>1, <2>1 DEF SeenInv, ShownBound
      <4>2. tokens[n].in.msg = job.msg
        BY <1>1, <2>1, <4>1 DEF SeenInv, ShownBound
      <4> QED BY <1>4, <2>1, <4>1, <4>2
    <3> QED BY <1>2, <3>1, <3>2, <3>3
  <2>2. CASE n \notin job.shown
    <3>1. screen'[n] = screen[n] /\ tokens'[n] = tokens[n]
      BY <1>3, <1>4, <2>2
    <3> QED BY <1>1, <3>1 DEF SeenInv, Followed
  <2> QED BY <2>1, <2>2
<1>6. Unseen'
  <2>1. \A n \in job.shown : n < next /\ n \in Nat
    BY <1>1, MintsAssumption DEF SeenInv, Unseen, Works, Idle, Nonces
  <2>2. next \in Nat
    BY MintsAssumption DEF IInv, TypeOK
  <2>3. \A n \in Nonces : n >= next => n \notin job.shown
    BY <2>1, <2>2 DEF Nonces
  <2> QED BY <1>1, <1>3, <2>3 DEF SeenInv, Unseen
<1>7. ShownBound'
  BY <1>1 DEF ShownBound, Idle
<1> QED BY <1>5, <1>6, <1>7 DEF SeenInv

LEMMA InitSeen == Init => SeenInv
  BY DEF Init, SeenInv, Followed, Unseen, ShownBound, Idle, Nonces

LEMMA NextSeen ==
    ASSUME IInv, SeenInv, [Next]_vars
    PROVE  SeenInv'
<1>t. tokens \in [DOMAIN tokens -> Tokens] /\ DOMAIN tokens \subseteq Nonces
  BY DEF IInv, TypeOK
<1>j. job # Idle => job \in Works /\ job.in \in Intents
  BY DEF IInv, TypeOK, Jobs, Works
<1>1. ASSUME NEW a \in Actions, NEW u \in Actors, NEW m \in 0 .. lastMsg, Ask(a, u, m)
      PROVE  SeenInv'
  <2> DEFINE in == [action |-> a, actor |-> u, msg |-> m, final |-> FALSE]
  <2>1. in \in Intents /\ in.msg = m
    BY MintsAssumption DEF Intents, IInv, TypeOK, Msgs
  <2>2. /\ Mint(tokens, in)
        /\ job' = [at |-> "show", nonce |-> next, in |-> in, by |-> u, msg |-> m, shown |-> {next}]
        /\ UNCHANGED << boot, drawn, screen >>
    BY <1>1 DEF Ask, chat
  <2> HIDE DEF in
  <2>3. job'.at = "show" /\ job'.shown = {next} /\ job'.msg = m /\ job' # Idle
    BY <2>2 DEF Idle
  <2> QED BY <1>t, <2>1, <2>2, <2>3, MintSeen
<1>2. CASE ShowHere \/ ShowAnew \/ ShowFails
  BY <1>2, ShowSeen
<1>3. ASSUME NEW b \in drawn, NEW u \in Actors, Claim(b, u)
      PROVE  SeenInv'
  <2>1. /\ tokens' = [tokens EXCEPT ![b.nonce].state = "running"]
        /\ job'.shown = {} /\ job' # Idle
        /\ UNCHANGED << boot, drawn, screen, next >>
    BY <1>3 DEF Claim, ghosts, chat, Idle
  <2>2. /\ DOMAIN tokens' = DOMAIN tokens
        /\ \A n \in DOMAIN tokens : /\ tokens'[n].state = "pending" => tokens[n].state = "pending"
                                    /\ tokens'[n].in = tokens[n].in
    BY <1>t, <2>1 DEF Tokens
  <2> QED BY <2>1, <2>2, SeenKept
<1>4. ASSUME NEW b \in drawn, (\E u \in Actors : Cancel(b, u)) \/ PressExpired(b)
      PROVE  SeenInv'
  <2>1. tokens' = Without({b.nonce}) /\ UNCHANGED << boot, drawn, screen, next, job >>
    BY <1>4 DEF Cancel, PressExpired, chat, ghosts
  <2>2. /\ DOMAIN tokens' \subseteq DOMAIN tokens
        /\ \A n \in DOMAIN tokens' : tokens'[n] = tokens[n]
    BY <2>1 DEF Without
  <2> QED BY <2>1, <2>2, SeenKept
<1>5. CASE AskTwice
  <2> DEFINE in == [job.in EXCEPT !.actor = job.by, !.msg = job.msg, !.final = TRUE]
  <2>1. job.at = "claimed" /\ job # Idle
    BY <1>5 DEF AskTwice, Idle
  <2>2. in \in Intents /\ in.msg = job.msg
    BY <1>j, <2>1 DEF Works, Intents
  <2>3. /\ Mint(Finished(job.nonce), in)
        /\ job' = [job EXCEPT !.at = "show", !.nonce = next, !.in = in, !.shown = {next}]
        /\ UNCHANGED << boot, drawn, screen >>
    BY <1>5 DEF AskTwice, chat
  <2> HIDE DEF in
  <2>4. job'.at = "show" /\ job'.shown = {next} /\ job'.msg = job.msg
    BY <1>j, <2>1, <2>3 DEF Works
  <2>5. /\ Finished(job.nonce) \in [DOMAIN tokens -> Tokens]
        /\ \A n \in DOMAIN tokens :
             /\ Finished(job.nonce)[n].state = "pending" => tokens[n].state = "pending"
             /\ Finished(job.nonce)[n].in = tokens[n].in
    BY TokenTypes, StatesKept DEF IInv
  <2> QED BY <2>1, <2>2, <2>3, <2>4, <2>5, MintSeen
<1>6. CASE Proceed
  <2>1. job.at = "claimed" /\ job # Idle /\ job' = [job EXCEPT !.at = "working"]
        /\ UNCHANGED << tokens, boot, drawn, screen, next >>
    BY <1>6 DEF Proceed, Idle, chat, ghosts
  <2>2. job'.shown = {} /\ job' # Idle
    BY <1>j, <2>1 DEF SeenInv, ShownBound, Works, Idle
  <2> QED BY <2>1, <2>2, SeenKept
<1>7. CASE Act
  <2>1. job.at = "working" /\ job # Idle /\ job' = [job EXCEPT !.at = "acted"]
        /\ UNCHANGED << tokens, boot, drawn, screen, next >>
    BY <1>7 DEF Act, Idle, chat
  <2>2. job'.shown = {} /\ job' # Idle
    BY <1>j, <2>1 DEF SeenInv, ShownBound, Works, Idle
  <2> QED BY <2>1, <2>2, SeenKept
<1>8. CASE mintTrialKB
  <2> DEFINE in == [job.in EXCEPT !.action = "keep", !.final = FALSE]
  <2>1. job.at = "acted" /\ job # Idle
    BY <1>8 DEF mintTrialKB, Idle
  <2>2. in \in Intents /\ in.action = "keep"
    BY <1>j, <2>1 DEF Intents
  <2>3. /\ Mint(tokens, in) /\ job' = [job EXCEPT !.shown = @ \cup {next}]
        /\ UNCHANGED << boot, drawn, screen >>
    BY <1>8 DEF mintTrialKB, chat
  <2> HIDE DEF in
  <2>4. job'.at = "acted" /\ job'.shown = job.shown \cup {next}
    BY <1>j, <2>1, <2>3 DEF Works
  <2> QED BY <1>t, <2>1, <2>2, <2>3, <2>4, MintSeen
<1>9. CASE Return
  <2>1. /\ tokens' = Finished(job.nonce) /\ job.at = "acted" /\ job # Idle
        /\ job' = [job EXCEPT !.at = "outcome",
                      !.shown = IF Cardinality(@) = 2 THEN @ ELSE {}]
        /\ UNCHANGED << boot, drawn, screen, next >>
    BY <1>9 DEF Return, chat, ghosts, Idle
  <2>2. job'.at = "outcome" /\ job' # Idle /\ job'.shown \in { job.shown, {} }
    BY <1>j, <2>1 DEF Works, Idle
  <2>3. /\ DOMAIN tokens' = DOMAIN tokens
        /\ \A n \in DOMAIN tokens : /\ tokens'[n].state = "pending" => tokens[n].state = "pending"
                                    /\ tokens'[n].in = tokens[n].in
    BY <2>1, TokenTypes, StatesKept DEF IInv
  <2> QED BY <2>1, <2>2, <2>3, SeenKept
<1>12. CASE RefuseTwice
  <2>1. /\ tokens' = Finished(job.nonce) /\ job.at = "claimed" /\ job # Idle
        /\ job' = [job EXCEPT !.at = "outcome"] /\ UNCHANGED << boot, drawn, screen, next >>
    BY <1>12 DEF RefuseTwice, chat, ghosts, Idle
  <2>2. job'.shown = {} /\ job' # Idle
    BY <1>j, <2>1 DEF SeenInv, ShownBound, Works, Idle
  <2>3. /\ DOMAIN tokens' = DOMAIN tokens
        /\ \A n \in DOMAIN tokens : /\ tokens'[n].state = "pending" => tokens[n].state = "pending"
                                    /\ tokens'[n].in = tokens[n].in
    BY <2>1, TokenTypes, StatesKept DEF IInv
  <2> QED BY <2>1, <2>2, <2>3, SeenKept
<1>10. CASE Panic \/ Tick \/ HostChanges \/ UNCHANGED vars
  <2>1. job' \in { job, Idle } /\ UNCHANGED << tokens, boot, drawn, screen, next >>
    BY <1>10 DEF Panic, Tick, HostChanges, vars, chat, ghosts
  <2> QED BY <2>1, SeenKept
<1>11. CASE Crash
  <2>1. job' = Idle /\ DOMAIN tokens' = {} /\ UNCHANGED << drawn, screen, next >>
    BY <1>11 DEF Crash, Without, chat, ghosts
  <2> QED BY <2>1, SeenKept
<1> QED BY <1>1, <1>2, <1>3, <1>4, <1>5, <1>6, <1>7, <1>8, <1>9, <1>10, <1>11, <1>12 DEF Next

\* SeenYesWorks: the last Yes a user was shown wins its token while it lives
\* (Rebind, after a reply and after an edit that failed).
THEOREM SeenYesWorksCorrect == Spec => []SeenYesWorks
<1>1. ASSUME IInv, SeenInv PROVE SeenYesWorks
  BY <1>1 DEF IInv, TypeOK, Ownership, SeenInv, Followed, Yes, SeenYesWorks, take
<1>2. Spec => []SeenInv
  BY InitSeen, NextSeen, InductiveInvariant, PTL DEF Spec
<1> QED BY <1>1, <1>2, InductiveInvariant, PTL
=============================================================================
