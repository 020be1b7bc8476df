----------------------------- MODULE ChatProofs -----------------------------
(* Proofs about the chat: live mode leaves no orphan, the calls of a chat  *)
(* keep their pace, a press is answered once and works at its rate, and a  *)
(* long text loses nothing when it is sent in pieces.                      *)
EXTENDS LiveMode, ChatClient, PressGate, SplitMessage, WellFoundedInduction, FiniteSetTheorems,
        SequenceTheorems, TLAPS

-----------------------------------------------------------------------------
(* Live mode (LiveMode).                                                   *)

Sessions == [m : Messages, step : { "wait", "frame", "tick", "finish", "restore", "over" }, stop : BOOLEAN]
Texts == { "screen", "frame", "gone" }

LiveTypes ==
    /\ sess \in Seq(Sessions)
    /\ live \in 0 .. Len(sess)
    /\ shows \in [Messages -> Texts]
    /\ stuck \subseteq Messages

\* The press at work knows the session it starts or stops, and has cancelled the
\* one it waits for.
PressKnows ==
    /\ press.step \in { "idle", "swap", "stop" }
    /\ press.step = "swap" =>
          /\ press.m \in Messages /\ press.s \in 1 .. Len(sess)
          /\ sess[press.s].m = press.m /\ sess[press.s].step = "wait"
          /\ press.old \in 0 .. Len(sess)
          /\ press.old # 0 => sess[press.old].stop
    /\ press.step = "stop" =>
          /\ press.m \in Messages /\ press.old = 0
          /\ press.s \in 0 .. Len(sess)
          /\ press.s # 0 => sess[press.s].m = press.m /\ sess[press.s].stop

\* The session the press waits for.
Awaited(s) ==
    \/ press.step = "swap" /\ press.old = s
    \/ press.step = "stop" /\ press.s = s

\* A session that still runs is registered, is restoring its message, or is waited
\* for by the press that took it.
Owned ==
    \A s \in 1 .. Len(sess) :
        sess[s].step # "over" => live = s \/ sess[s].step = "restore" \/ Awaited(s)

NoFrameLeft == \A m \in Messages : shows[m] = "frame" => Busy(m) \/ m \in stuck

\* The inductive invariant: without PressKnows and Owned a session could run with
\* nobody left to restore its message.
OrphanInv == LiveTypes /\ PressKnows /\ Owned /\ NoFrameLeft

-----------------------------------------------------------------------------
\* At the start nothing is live.
LEMMA InitOrphan == LiveInit => OrphanInv
  BY EmptySeq DEF LiveInit, OrphanInv, LiveTypes, PressKnows, Owned, Awaited, NoFrameLeft, NoPress, NoSession,
      Texts

\* A session is about a message.
LEMMA ElementIsSession ==
    ASSUME LiveTypes, NEW s \in 1 .. Len(sess)
    PROVE  sess[s] \in Sessions /\ sess[s].m \in Messages
<1>1. sess[s] \in Sessions
  BY ElementOfSeq DEF LiveTypes
<1> QED BY <1>1 DEF Sessions

\* What an edit leaves: the message shows the text, is gone, or the edit failed.
LEMMA EditLeaves ==
    ASSUME LiveTypes, NEW m \in Messages, NEW what \in { "screen", "frame" }, Edit(m, what)
    PROVE  /\ shows' \in [Messages -> Texts] /\ stuck' \subseteq Messages
           /\ \A x \in Messages : x # m => shows'[x] = shows[x] /\ (x \in stuck' <=> x \in stuck)
           /\ what = "screen" => (shows'[m] = "frame" => m \in stuck')
  BY DEF Edit, LiveTypes, Texts

\* One session moves a step.
LEMMA SessGoesTypes ==
    ASSUME LiveTypes, NEW s \in 1 .. Len(sess),
           NEW step \in { "wait", "frame", "tick", "finish", "restore", "over" },
           SessGoes(s, step)
    PROVE  /\ sess' \in Seq(Sessions) /\ Len(sess') = Len(sess)
           /\ \A x \in 1 .. Len(sess) : /\ sess'[x].m = sess[x].m /\ sess'[x].stop = sess[x].stop
                                        /\ sess'[x].step = IF x = s THEN step ELSE sess[x].step
<1> DEFINE e == [sess[s] EXCEPT !.step = step]
<1>1. sess[s] \in Sessions
  BY ElementOfSeq DEF LiveTypes
<1>2. e \in Sessions
  BY <1>1 DEF Sessions
<1>3. sess' = [sess EXCEPT ![s] = e]
  BY DEF SessGoes
<1>4. \A x \in 1 .. Len(sess) : sess[x] \in Sessions
  BY ElementOfSeq DEF LiveTypes
<1>5. /\ sess' \in Seq(Sessions) /\ Len(sess') = Len(sess)
      /\ \A x \in 1 .. Len(sess) : sess'[x] = IF x = s THEN e ELSE sess[x]
  <2> HIDE DEF e
  <2> QED BY <1>2, <1>3, ExceptSeq DEF LiveTypes
<1> QED BY <1>1, <1>4, <1>5 DEF Sessions

\* Whose edits a message waits for, in terms of the sessions' numbers.
LEMMA BusyIs ==
    ASSUME LiveTypes, PressKnows, NEW m
    PROVE  Busy(m) <=> \/ press.step # "idle" /\ (press.m = m \/ (press.old # 0 /\ sess[press.old].m = m))
                       \/ \E s \in 1 .. Len(sess) : sess[s].m = m /\ sess[s].step # "over"
  BY LenProperties DEF LiveTypes, Busy, Over, NoSession

\* The same after a step.
LEMMA NextBusyIs ==
    ASSUME LiveTypes', PressKnows', NEW m
    PROVE  Busy(m)' <=> \/ press'.step # "idle" /\ (press'.m = m \/ (press'.old # 0 /\ sess'[press'.old].m = m))
                        \/ \E s \in 1 .. Len(sess') : sess'[s].m = m /\ sess'[s].step # "over"
  BY LenProperties DEF LiveTypes, Busy, Over, NoSession

\* A session's own step keeps what the press knows, unless the press has yet to
\* show the session's first frame.
LEMMA SessGoesPress ==
    ASSUME LiveTypes, PressKnows, NEW s \in 1 .. Len(sess), sess[s].step # "wait",
           NEW step \in { "frame", "tick", "finish", "restore", "over" },
           SessGoes(s, step), UNCHANGED press
    PROVE  PressKnows'
<1>1. /\ Len(sess') = Len(sess) /\ Len(sess) \in Nat
      /\ \A x \in 1 .. Len(sess) : /\ sess'[x].m = sess[x].m /\ sess'[x].stop = sess[x].stop
                                   /\ sess'[x].step = IF x = s THEN step ELSE sess[x].step
  BY SessGoesTypes, LenProperties DEF LiveTypes
<1> QED BY <1>1 DEF PressKnows

-----------------------------------------------------------------------------
(* The update loop.                                                        *)

\* A takeover: the old session is waited for, the new one is registered.
LEMMA StartLiveKeeps ==
    ASSUME OrphanInv, NEW m \in Messages, startLive(m)
    PROVE  OrphanInv'
<1> DEFINE new == Len(sess) + 1
           n == [m |-> m, step |-> "wait", stop |-> FALSE]
           all == Append(sess, n)
           old == [all[live] EXCEPT !.stop = TRUE]
<1>1. n \in Sessions
  BY DEF Sessions
<1>2. /\ all \in Seq(Sessions) /\ Len(all) = new /\ all[new] = n /\ Len(sess) \in Nat
      /\ \A x \in 1 .. Len(sess) : all[x] = sess[x] /\ sess[x] \in Sessions
  <2> HIDE DEF n
  <2> QED BY <1>1, AppendProperties, LenProperties, ElementOfSeq DEF OrphanInv, LiveTypes
<1>3. CASE live = 0
  <2>1. sess' = all /\ live' = new /\ UNCHANGED << shows, stuck >>
        /\ press' = [step |-> "swap", m |-> m, s |-> new, old |-> 0]
    BY <1>3 DEF startLive, NoSession
  <2>2. press.step = "idle"
    BY DEF startLive
  <2> HIDE DEF all
  <2>3. LiveTypes' /\ PressKnows'
    BY <1>2, <2>1 DEF OrphanInv, LiveTypes, PressKnows
  <2>4. Owned'
    BY <1>2, <1>3, <2>1, <2>2 DEF OrphanInv, Owned, Awaited
  <2>5. NoFrameLeft'
    BY <1>2, <2>1, <2>2, <2>3, BusyIs, NextBusyIs DEF OrphanInv, NoFrameLeft
  <2> QED BY <2>3, <2>4, <2>5 DEF OrphanInv
<1>4. CASE live # 0
  <2>1. sess' = [all EXCEPT ![live] = old] /\ live' = new /\ UNCHANGED << shows, stuck >>
        /\ press' = [step |-> "swap", m |-> m, s |-> new, old |-> live]
    BY <1>4 DEF startLive, NoSession
  <2>2. press.step = "idle"
    BY DEF startLive
  <2>3. live \in 1 .. Len(sess) /\ live \in 1 .. Len(all)
    BY <1>2, <1>4 DEF OrphanInv, LiveTypes
  <2>4. old \in Sessions /\ old.stop /\ old.m = sess[live].m /\ old.step = sess[live].step
    BY <1>2, <2>3 DEF Sessions
  <2> HIDE DEF all, old
  <2>5. /\ sess' \in Seq(Sessions) /\ Len(sess') = new
        /\ \A x \in 1 .. new : sess'[x] = IF x = live THEN old ELSE all[x]
    BY <1>2, <2>1, <2>3, <2>4, ExceptSeq
  <2>6. LiveTypes' /\ PressKnows'
    BY <1>2, <2>1, <2>3, <2>4, <2>5 DEF OrphanInv, LiveTypes, PressKnows
  <2>7. Owned'
    BY <1>2, <2>1, <2>2, <2>3, <2>4, <2>5 DEF OrphanInv, Owned, Awaited
  <2>8. NoFrameLeft'
    BY <1>2, <2>1, <2>2, <2>3, <2>4, <2>5, <2>6, BusyIs, NextBusyIs DEF OrphanInv, NoFrameLeft
  <2> QED BY <2>6, <2>7, <2>8 DEF OrphanInv
<1> QED BY <1>3, <1>4

\* The new session may show its first frame: the old one is over and its message
\* edited, or its edit failed.
LEMMA SwapKeeps ==
    ASSUME OrphanInv, Swap
    PROVE  OrphanInv'
<1>1. /\ press.step = "swap" /\ press' = NoPress /\ UNCHANGED live
      /\ SessGoes(press.s, "frame")
  BY DEF Swap, SessGoes
<1>2. /\ press.m \in Messages /\ press.s \in 1 .. Len(sess) /\ sess[press.s].m = press.m
      /\ sess[press.s].step = "wait" /\ press.old \in 0 .. Len(sess)
  BY <1>1 DEF OrphanInv, PressKnows
<1>3. /\ sess' \in Seq(Sessions) /\ Len(sess') = Len(sess)
      /\ \A x \in 1 .. Len(sess) : /\ sess'[x].m = sess[x].m /\ sess'[x].stop = sess[x].stop
                                   /\ sess'[x].step = IF x = press.s THEN "frame" ELSE sess[x].step
  BY <1>1, <1>2, SessGoesTypes DEF OrphanInv
<1>4. press.old # 0 => sess[press.old].step = "over"
  BY DEF Swap, Over, NoSession
<1>5. press.old # 0 => sess[press.old].m \in Messages
  <2> SUFFICES ASSUME press.old # 0 PROVE sess[press.old] \in Sessions
    BY DEF Sessions
  <2>1. press.old \in 1 .. Len(sess)
    BY <1>2, LenProperties DEF OrphanInv, LiveTypes
  <2> QED BY <2>1, ElementOfSeq DEF OrphanInv, LiveTypes
<1>6. /\ shows' \in [Messages -> Texts] /\ stuck' \subseteq Messages
      /\ \A x \in Messages : shows'[x] = "frame" =>
            \/ x \in stuck'
            \/ /\ shows[x] = "frame" /\ (x \in stuck => x \in stuck')
               /\ press.old # 0 /\ sess[press.old].m = x => x = press.m
  <2>1. CASE press.old # 0 /\ sess[press.old].m # press.m
    <3>1. Edit(sess[press.old].m, "screen")
      BY <2>1 DEF Swap, NoSession
    <3> QED BY <2>1, <3>1, <1>5, EditLeaves DEF OrphanInv
  <2>2. CASE ~ (press.old # 0 /\ sess[press.old].m # press.m)
    <3>1. UNCHANGED << shows, stuck >>
      BY <2>2 DEF Swap, NoSession
    <3> QED BY <2>2, <3>1 DEF OrphanInv, LiveTypes
  <2> QED BY <2>1, <2>2
<1>7. LiveTypes' /\ PressKnows'
  BY <1>1, <1>3, <1>6 DEF OrphanInv, LiveTypes, PressKnows, NoPress
<1>8. Owned'
  BY <1>1, <1>2, <1>3, <1>4 DEF OrphanInv, Owned, Awaited
<1>9. NoFrameLeft'
  <2> SUFFICES ASSUME NEW x \in Messages, shows'[x] = "frame", x \notin stuck'
               PROVE  \E s \in 1 .. Len(sess) : sess'[s].m = x /\ sess'[s].step # "over"
    BY <1>3, <1>7, NextBusyIs DEF NoFrameLeft
  <2>1. /\ shows[x] = "frame" /\ x \notin stuck
        /\ press.old # 0 /\ sess[press.old].m = x => x = press.m
    BY <1>6
  <2>2. \/ press.m = x
        \/ \E s \in 1 .. Len(sess) : sess[s].m = x /\ sess[s].step # "over"
    BY <2>1, BusyIs DEF OrphanInv, NoFrameLeft
  <2> QED BY <2>2, <1>2, <1>3
<1> QED BY <1>7, <1>8, <1>9 DEF OrphanInv

\* A press on a message takes the session that is registered on it.
LEMMA StopLiveKeeps ==
    ASSUME OrphanInv, NEW m \in Messages, stopLive(m)
    PROVE  OrphanInv'
<1>1. press.step = "idle" /\ UNCHANGED << shows, stuck >>
  BY DEF stopLive
<1>2. Len(sess) \in Nat
  BY LenProperties DEF OrphanInv, LiveTypes
<1>3. CASE live # 0 /\ sess[live].m = m
  <2> DEFINE e == [sess[live] EXCEPT !.stop = TRUE]
  <2>1. live \in 1 .. Len(sess)
    BY <1>2, <1>3 DEF OrphanInv, LiveTypes
  <2>2. sess[live] \in Sessions
    BY <2>1, ElementOfSeq DEF OrphanInv, LiveTypes
  <2>3. e \in Sessions /\ e.stop /\ e.m = m /\ e.step = sess[live].step
    BY <1>3, <2>2 DEF Sessions
  <2>4. /\ sess' = [sess EXCEPT ![live] = e] /\ live' = 0
        /\ press' = [step |-> "stop", m |-> m, s |-> live, old |-> 0]
    BY <1>3 DEF stopLive, NoSession
  <2> HIDE DEF e
  <2>5. /\ sess' \in Seq(Sessions) /\ Len(sess') = Len(sess)
        /\ \A x \in 1 .. Len(sess) : sess'[x] = IF x = live THEN e ELSE sess[x]
    BY <2>1, <2>3, <2>4, ExceptSeq DEF OrphanInv, LiveTypes
  <2>6. LiveTypes' /\ PressKnows'
    BY <1>1, <1>2, <2>1, <2>3, <2>4, <2>5 DEF OrphanInv, LiveTypes, PressKnows
  <2>7. Owned'
    BY <1>1, <2>1, <2>3, <2>4, <2>5 DEF OrphanInv, Owned, Awaited
  <2>8. NoFrameLeft'
    BY <1>1, <1>3, <2>1, <2>3, <2>4, <2>5, <2>6, BusyIs, NextBusyIs DEF OrphanInv, NoFrameLeft
  <2> QED BY <2>6, <2>7, <2>8 DEF OrphanInv
<1>4. CASE ~ (live # 0 /\ sess[live].m = m)
  <2>1. /\ UNCHANGED << sess, live >>
        /\ press' = [step |-> "stop", m |-> m, s |-> 0, old |-> 0]
    BY <1>4 DEF stopLive, NoSession
  <2>2. LiveTypes' /\ PressKnows'
    BY <1>1, <1>2, <2>1 DEF OrphanInv, LiveTypes, PressKnows
  <2>3. Owned'
    BY <1>1, <2>1 DEF OrphanInv, Owned, Awaited
  <2>4. NoFrameLeft'
    BY <1>1, <2>1, <2>2, BusyIs, NextBusyIs DEF OrphanInv, NoFrameLeft
  <2> QED BY <2>2, <2>3, <2>4 DEF OrphanInv
<1> QED BY <1>3, <1>4

\* The press shows its own screen once the session it stopped is over.
LEMMA FinishLiveKeeps ==
    ASSUME OrphanInv, FinishLive
    PROVE  OrphanInv'
<1>1. /\ press.step = "stop" /\ press' = NoPress /\ UNCHANGED << live, sess >>
      /\ Edit(press.m, "screen") /\ (press.s # 0 => sess[press.s].step = "over")
  BY DEF FinishLive, Over, NoSession
<1>2. press.m \in Messages /\ press.old = 0
  BY <1>1 DEF OrphanInv, PressKnows
<1>3. /\ shows' \in [Messages -> Texts] /\ stuck' \subseteq Messages
      /\ \A x \in Messages : x # press.m => shows'[x] = shows[x] /\ (x \in stuck' <=> x \in stuck)
      /\ shows'[press.m] = "frame" => press.m \in stuck'
  BY <1>1, <1>2, EditLeaves DEF OrphanInv
<1>4. LiveTypes' /\ PressKnows'
  BY <1>1, <1>3 DEF OrphanInv, LiveTypes, PressKnows, NoPress
<1>5. Owned'
  BY <1>1 DEF OrphanInv, Owned, Awaited, NoPress
<1>6. NoFrameLeft'
  BY <1>1, <1>2, <1>3, <1>4, BusyIs, NextBusyIs DEF OrphanInv, NoFrameLeft, NoPress
<1> QED BY <1>4, <1>5, <1>6 DEF OrphanInv

-----------------------------------------------------------------------------
(* A session.                                                              *)

\* A frame lands while its session still runs.
LEMMA FrameKeeps ==
    ASSUME OrphanInv, NEW s \in 1 .. Len(sess), Frame(s)
    PROVE  OrphanInv'
<1>1. sess[s].step = "frame" /\ UNCHANGED press
  BY DEF Frame
<1>2. sess[s].m \in Messages
  BY ElementIsSession DEF OrphanInv
<1>3. Len(sess) \in Nat
  BY LenProperties DEF OrphanInv, LiveTypes
<1>4. CASE shows[sess[s].m] = "gone"
  <2>1. SessGoes(s, "over") /\ Take(s) /\ UNCHANGED << shows, stuck >>
    BY <1>4 DEF Frame
  <2>2. /\ sess' \in Seq(Sessions) /\ Len(sess') = Len(sess)
        /\ \A x \in 1 .. Len(sess) : /\ sess'[x].m = sess[x].m /\ sess'[x].stop = sess[x].stop
                                     /\ sess'[x].step = IF x = s THEN "over" ELSE sess[x].step
    BY <2>1, SessGoesTypes DEF OrphanInv
  <2>3. PressKnows'
    BY <1>1, <2>1, SessGoesPress DEF OrphanInv
  <2>4. LiveTypes'
    BY <1>3, <2>1, <2>2 DEF OrphanInv, LiveTypes, Take, NoSession
  <2>5. Owned'
    BY <1>1, <2>1, <2>2 DEF OrphanInv, Owned, Awaited, Take
  <2>6. NoFrameLeft'
    BY <1>1, <1>4, <2>1, <2>2, <2>3, <2>4, BusyIs, NextBusyIs DEF OrphanInv, LiveTypes, PressKnows, NoFrameLeft
  <2> QED BY <2>3, <2>4, <2>5, <2>6 DEF OrphanInv
<1>5. CASE shows[sess[s].m] # "gone"
  <2>1. /\ SessGoes(s, "tick") /\ UNCHANGED live
        /\ Edit(sess[s].m, "frame") \/ UNCHANGED << shows, stuck >>
    BY <1>5 DEF Frame
  <2>2. /\ sess' \in Seq(Sessions) /\ Len(sess') = Len(sess)
        /\ \A x \in 1 .. Len(sess) : /\ sess'[x].m = sess[x].m /\ sess'[x].stop = sess[x].stop
                                     /\ sess'[x].step = IF x = s THEN "tick" ELSE sess[x].step
    BY <2>1, SessGoesTypes DEF OrphanInv
  <2>3. /\ shows' \in [Messages -> Texts] /\ stuck' \subseteq Messages
        /\ \A x \in Messages : x # sess[s].m => shows'[x] = shows[x] /\ (x \in stuck' <=> x \in stuck)
    <3>1. CASE UNCHANGED << shows, stuck >>
      BY <3>1 DEF OrphanInv, LiveTypes
    <3>2. CASE Edit(sess[s].m, "frame")
      BY <3>2, <1>2, EditLeaves DEF OrphanInv
    <3> QED BY <2>1, <3>1, <3>2
  <2>4. PressKnows'
    BY <1>1, <2>1, SessGoesPress DEF OrphanInv
  <2>5. LiveTypes'
    BY <2>1, <2>2, <2>3 DEF OrphanInv, LiveTypes
  <2>6. Owned'
    BY <1>1, <2>1, <2>2 DEF OrphanInv, Owned, Awaited
  <2>7. NoFrameLeft'
    <3> SUFFICES ASSUME NEW x \in Messages, shows'[x] = "frame", x \notin stuck'
                 PROVE  Busy(x)'
      BY DEF NoFrameLeft
    <3>1. CASE x = sess[s].m
      BY <2>2, <2>4, <2>5, <3>1, NextBusyIs
    <3>2. CASE x # sess[s].m
      <4>1. Busy(x)
        BY <2>3, <3>2 DEF OrphanInv, NoFrameLeft
      <4> QED BY <1>1, <2>2, <2>4, <2>5, <3>2, <4>1, BusyIs, NextBusyIs DEF OrphanInv, PressKnows
    <3> QED BY <3>1, <3>2
  <2> QED BY <2>4, <2>5, <2>6, <2>7 DEF OrphanInv
<1> QED BY <1>4, <1>5

\* A session that only moves on, without an edit, and does not end.
LEMMA MovesOnKeeps ==
    ASSUME OrphanInv, NEW s \in 1 .. Len(sess), sess[s].step = "tick",
           NEW step \in { "frame", "finish" }, SessGoes(s, step),
           UNCHANGED << live, press, shows, stuck >>
    PROVE  OrphanInv'
<1>1. /\ sess' \in Seq(Sessions) /\ Len(sess') = Len(sess)
      /\ \A x \in 1 .. Len(sess) : /\ sess'[x].m = sess[x].m /\ sess'[x].stop = sess[x].stop
                                   /\ sess'[x].step = IF x = s THEN step ELSE sess[x].step
  BY SessGoesTypes DEF OrphanInv
<1>2. PressKnows'
  BY SessGoesPress DEF OrphanInv
<1>3. LiveTypes'
  BY <1>1 DEF OrphanInv, LiveTypes
<1>4. Owned'
  BY <1>1 DEF OrphanInv, Owned, Awaited
<1>5. NoFrameLeft'
  BY <1>1, <1>2, <1>3, BusyIs, NextBusyIs DEF OrphanInv, PressKnows, NoFrameLeft
<1> QED BY <1>2, <1>3, <1>4, <1>5 DEF OrphanInv

\* A session that ends unregistered leaves its message to the press that took it.
LEMMA TakeOwnKeeps ==
    ASSUME OrphanInv, NEW s \in 1 .. Len(sess), TakeOwn(s)
    PROVE  OrphanInv'
<1> DEFINE step == IF live = s THEN "restore" ELSE "over"
<1>1. /\ sess[s].step = "finish" /\ Take(s) /\ SessGoes(s, step)
      /\ UNCHANGED << press, shows, stuck >> /\ step \in { "restore", "over" }
  BY DEF TakeOwn
<1>2. /\ sess' \in Seq(Sessions) /\ Len(sess') = Len(sess)
      /\ \A x \in 1 .. Len(sess) : /\ sess'[x].m = sess[x].m /\ sess'[x].stop = sess[x].stop
                                   /\ sess'[x].step = IF x = s THEN step ELSE sess[x].step
  BY <1>1, SessGoesTypes DEF OrphanInv
<1>3. PressKnows'
  BY <1>1, SessGoesPress DEF OrphanInv
<1>4. LiveTypes'
  BY <1>1, <1>2, LenProperties DEF OrphanInv, LiveTypes, Take, NoSession
<1>5. Owned'
  BY <1>1, <1>2 DEF OrphanInv, Owned, Awaited, Take
<1>6. live # s => Awaited(s)
  BY <1>1 DEF OrphanInv, Owned
<1>7. NoFrameLeft'
  <2> SUFFICES ASSUME NEW x \in Messages, shows'[x] = "frame", x \notin stuck'
               PROVE  Busy(x)'
    BY DEF NoFrameLeft
  <2>1. Busy(x)
    BY <1>1 DEF OrphanInv, NoFrameLeft
  <2>2. CASE live = s
    BY <1>1, <1>2, <1>3, <1>4, <2>1, <2>2, BusyIs, NextBusyIs DEF OrphanInv, PressKnows
  <2>3. CASE live # s /\ sess[s].m = x
    <3>1. press.step # "idle" /\ (press.m = x \/ (press.old # 0 /\ sess[press.old].m = x))
      BY <1>6, <2>3 DEF OrphanInv, PressKnows, Awaited
    <3> QED BY <1>1, <1>2, <1>3, <1>4, <3>1, NextBusyIs DEF OrphanInv, PressKnows
  <2>4. CASE sess[s].m # x
    BY <1>1, <1>2, <1>3, <1>4, <2>1, <2>4, BusyIs, NextBusyIs DEF OrphanInv, PressKnows
  <2> QED BY <2>2, <2>3, <2>4
<1> QED BY <1>3, <1>4, <1>5, <1>7 DEF OrphanInv

\* The session's own edit back to the screen.
LEMMA RestoreLiveKeeps ==
    ASSUME OrphanInv, NEW s \in 1 .. Len(sess), restoreLive(s)
    PROVE  OrphanInv'
<1>1. /\ sess[s].step = "restore" /\ SessGoes(s, "over") /\ Edit(sess[s].m, "screen")
      /\ UNCHANGED << live, press >>
  BY DEF restoreLive
<1>2. sess[s].m \in Messages
  BY ElementIsSession DEF OrphanInv
<1>3. /\ sess' \in Seq(Sessions) /\ Len(sess') = Len(sess)
      /\ \A x \in 1 .. Len(sess) : /\ sess'[x].m = sess[x].m /\ sess'[x].stop = sess[x].stop
                                   /\ sess'[x].step = IF x = s THEN "over" ELSE sess[x].step
  BY <1>1, SessGoesTypes DEF OrphanInv
<1>4. /\ shows' \in [Messages -> Texts] /\ stuck' \subseteq Messages
      /\ \A x \in Messages : x # sess[s].m => shows'[x] = shows[x] /\ (x \in stuck' <=> x \in stuck)
      /\ shows'[sess[s].m] = "frame" => sess[s].m \in stuck'
  BY <1>1, <1>2, EditLeaves DEF OrphanInv
<1>5. PressKnows'
  BY <1>1, SessGoesPress DEF OrphanInv
<1>6. LiveTypes'
  BY <1>1, <1>3, <1>4 DEF OrphanInv, LiveTypes
<1>7. Owned'
  BY <1>1, <1>3 DEF OrphanInv, Owned, Awaited
<1>8. NoFrameLeft'
  <2> SUFFICES ASSUME NEW x \in Messages, shows'[x] = "frame", x \notin stuck'
               PROVE  Busy(x)'
    BY DEF NoFrameLeft
  <2>1. x # sess[s].m /\ Busy(x)
    BY <1>4 DEF OrphanInv, NoFrameLeft
  <2> QED BY <1>1, <1>3, <1>5, <1>6, <2>1, BusyIs, NextBusyIs DEF OrphanInv, PressKnows
<1> QED BY <1>5, <1>6, <1>7, <1>8 DEF OrphanInv

-----------------------------------------------------------------------------
(* The agent dies, the user deletes.                                       *)

\* A restart ends every session and press; the frames they leave are counted.
LEMMA LiveRestartKeeps ==
    ASSUME OrphanInv, LiveRestart
    PROVE  OrphanInv'
<1> DEFINE over == [s \in 1 .. Len(sess) |-> [sess[s] EXCEPT !.step = "over"]]
<1>1. /\ sess' = over /\ live' = 0 /\ press' = NoPress /\ UNCHANGED shows
      /\ stuck' = stuck \cup { m \in Messages : shows[m] = "frame" }
  BY LenProperties DEF LiveRestart, NoSession, OrphanInv, LiveTypes
<1>2. Len(sess) \in Nat /\ \A s \in 1 .. Len(sess) : sess[s] \in Sessions
  BY LenProperties, ElementOfSeq DEF OrphanInv, LiveTypes
<1>3. \A s \in 1 .. Len(sess) : over[s] \in Sessions /\ over[s].step = "over"
  BY <1>2 DEF Sessions
<1>4. over \in [1 .. Len(sess) -> Sessions]
  BY <1>3
<1>5. over \in Seq(Sessions)
  <2> HIDE DEF over
  <2> QED BY <1>2, <1>4, SeqDef, Zenon
<1>6. Len(over) = Len(sess)
  BY <1>2, <1>5, LenProperties
<1> HIDE DEF over
<1>7. LiveTypes' /\ PressKnows'
  BY <1>1, <1>2, <1>5 DEF OrphanInv, LiveTypes, PressKnows, NoPress
<1>8. Owned'
  BY <1>1, <1>3, <1>6 DEF Owned
<1>9. NoFrameLeft'
  BY <1>1 DEF NoFrameLeft
<1> QED BY <1>7, <1>8, <1>9 DEF OrphanInv

\* A deleted message shows no frame.
LEMMA DeleteMessageKeeps ==
    ASSUME OrphanInv, NEW m \in Messages, DeleteMessage(m)
    PROVE  OrphanInv'
<1>1. UNCHANGED << live, sess, press, stuck >> /\ shows' = [shows EXCEPT ![m] = "gone"]
  BY DEF DeleteMessage
<1>2. LiveTypes' /\ PressKnows' /\ Owned'
  BY <1>1 DEF OrphanInv, LiveTypes, PressKnows, Owned, Awaited, Texts
<1>3. \A x \in Messages : shows'[x] = "frame" => shows[x] = "frame" /\ (Busy(x) <=> Busy(x)')
  BY <1>1, <1>2, BusyIs, NextBusyIs DEF OrphanInv, LiveTypes
<1> QED BY <1>1, <1>2, <1>3 DEF OrphanInv, NoFrameLeft

-----------------------------------------------------------------------------
\* Every step keeps the invariant.
LEMMA NextOrphan == OrphanInv /\ [LiveNext]_liveVars => OrphanInv'
<1> SUFFICES ASSUME OrphanInv, [LiveNext]_liveVars PROVE OrphanInv'
  OBVIOUS
<1>1. DOMAIN sess = 1 .. Len(sess)
  BY LenProperties DEF OrphanInv, LiveTypes
<1>2. CASE UNCHANGED liveVars
  <2>1. LiveTypes' /\ PressKnows' /\ Owned'
    BY <1>2 DEF liveVars, OrphanInv, LiveTypes, PressKnows, Owned, Awaited
  <2>2. NoFrameLeft'
    BY <1>2, <2>1, BusyIs, NextBusyIs DEF liveVars, OrphanInv, NoFrameLeft
  <2> QED BY <2>1, <2>2 DEF OrphanInv
<1>3. CASE \E m \in Messages : startLive(m) \/ stopLive(m) \/ DeleteMessage(m)
  BY <1>3, StartLiveKeeps, StopLiveKeeps, DeleteMessageKeeps
<1>4. CASE Swap \/ FinishLive \/ LiveRestart
  BY <1>4, SwapKeeps, FinishLiveKeeps, LiveRestartKeeps
<1>5. ASSUME NEW s \in 1 .. Len(sess), NextFrame(s) \/ Ceiling(s) PROVE OrphanInv'
  BY <1>5, MovesOnKeeps DEF NextFrame, Ceiling
<1>6. ASSUME NEW s \in 1 .. Len(sess), Frame(s) \/ TakeOwn(s) \/ restoreLive(s) PROVE OrphanInv'
  BY <1>6, FrameKeeps, TakeOwnKeeps, RestoreLiveKeeps
<1> QED BY <1>1, <1>2, <1>3, <1>4, <1>5, <1>6 DEF LiveNext

\* The invariant is enough: the session a press waits for is cancelled.
LEMMA OrphanEnough == OrphanInv => NoOrphan
<1> SUFFICES ASSUME OrphanInv PROVE NoOrphan
  OBVIOUS
<1>1. DOMAIN sess = 1 .. Len(sess)
  BY LenProperties DEF OrphanInv, LiveTypes
<1>2. ASSUME NEW s \in 1 .. Len(sess), sess[s].step # "over", ~ sess[s].stop
      PROVE  live = s \/ sess[s].step = "restore"
  BY <1>2 DEF OrphanInv, Owned, Awaited, PressKnows
<1> QED BY <1>1, <1>2 DEF OrphanInv, NoFrameLeft, NoOrphan, Over, NoSession

\* For any number of messages, sessions, failed edits and restarts, live mode
\* leaves no frame that nobody is on the way to replace, and no second session
\* that goes on showing frames (live.go: startLive, stopLive, takeLive).
THEOREM NoOrphanCorrect == LiveSpec => []NoOrphan
<1> QED BY InitOrphan, NextOrphan, OrphanEnough, PTL DEF LiveSpec

-----------------------------------------------------------------------------
(* The pace of the calls (ChatClient).                                     *)

ChatSpec == ChatInit /\ [][ChatNext]_chatVars

Calls == [step : { "idle", "paced", "retry" }, due : Nat, attempt : 0 .. 1, until : Nat, asked : Nat]

\* The sleeping calls that go out within h intervals, and all of them.
Soon(h) == { c \in Callers : call[c].step = "paced" /\ call[c].due <= clock + h }
Paces == { c \in Callers : call[c].step = "paced" }
Due(h) == Cardinality(Soon(h))
Asleep == Cardinality(Paces)

\* What the bucket will hold in h intervals, when it holds anything.
Holds(h) == IF Refilled + h > 0 THEN Refilled + h ELSE 0

ChatTypes ==
    /\ clock \in Nat /\ cancels \in Nat
    /\ bucket \in [tokens : Int, last : Nat]
    /\ call \in [Callers -> Calls]
    /\ sent \in Seq(Nat)

\* Whatever falls due between g and h intervals from now, and what the bucket
\* then holds, comes from what it holds at g, the intervals and the reservations
\* given back.
Spread ==
    \A g, h \in Nat : g <= h =>
        Due(h) - Due(g) + Holds(h) <= Holds(g) + (h - g) + cancels

\* What falls due within h intervals, and what the bucket then holds.
Bounded == \A h \in Nat : Due(h) + Holds(h) <= Burst + h + cancels

\* The debt in g intervals is what then still sleeps.
Owed == \A g \in Nat : Asleep - Due(g) + Refilled + g >= 0

\* From each request on, those sent and those about to fall due.
SentBounded ==
    \A i \in DOMAIN sent, h \in Nat :
        (Len(sent) - i + 1) + Due(h) + Holds(h) <= Burst + (clock + h) - sent[i] + cancels

SentPaced == \A i, j \in DOMAIN sent : i <= j => j - i + 1 <= Burst + (sent[j] - sent[i]) + cancels

PaceInv == ChatTypes /\ Spread /\ Bounded /\ Owed /\ SentBounded /\ SentPaced

\* The pacer's numbers are of their types.
LEMMA PaceTypes ==
    ASSUME ChatTypes
    PROVE  /\ Refilled \in Int /\ Refilled <= Burst
           /\ \A h \in Nat : Holds(h) \in Nat
           /\ Burst \in Nat /\ Burst > 0
  BY ChatAssumption DEF ChatTypes, Refilled, Holds

\* The calls asleep, and those due within h intervals, are finitely many.
LEMMA DueTypes ==
    /\ IsFiniteSet(Paces) /\ Asleep \in Nat
    /\ \A h : IsFiniteSet(Soon(h)) /\ Due(h) \in Nat /\ Due(h) <= Asleep
<1>1. IsFiniteSet(Paces)
  BY ChatAssumption, FS_Subset DEF Paces
<1>2. ASSUME NEW h PROVE IsFiniteSet(Soon(h)) /\ Due(h) <= Asleep
  <2>1. Soon(h) \in SUBSET Paces
    BY DEF Soon, Paces
  <2> QED BY <1>1, <2>1, FS_Subset DEF Due, Asleep
<1> QED BY <1>1, <1>2, FS_CardinalityType DEF Due, Asleep

\* DueTypes in the next state.
LEMMA DueNext ==
    /\ Asleep' \in Nat
    /\ \A h \in Nat : Due(h)' \in Nat /\ Due(h)' <= Asleep'
<1>1. (/\ IsFiniteSet(Paces) /\ Asleep \in Nat
       /\ \A h : IsFiniteSet(Soon(h)) /\ Due(h) \in Nat /\ Due(h) <= Asleep)'
  BY DueTypes, PTL
<1> QED BY <1>1

\* A call that begins to sleep, or one that stops.
LEMMA OneSleeps ==
    ASSUME ChatTypes, NEW c \in Callers, call[c].step # "paced", UNCHANGED clock,
           NEW d \in Nat, d >= clock,
           call' \in [Callers -> Calls], call'[c].step = "paced", call'[c].due = d,
           \A e \in Callers \ { c } : call'[e] = call[e]
    PROVE  /\ Asleep' = Asleep + 1
           /\ \A h \in Nat : Due(h)' = IF d <= clock + h THEN Due(h) + 1 ELSE Due(h)
<1>1. Paces' = Paces \cup { c } /\ c \notin Paces
  BY DEF Paces
<1>2. Asleep' = Asleep + 1
  BY <1>1, DueTypes, FS_AddElement DEF Asleep
<1>3. ASSUME NEW h \in Nat
      PROVE  Due(h)' = IF d <= clock + h THEN Due(h) + 1 ELSE Due(h)
  <2>1. Soon(h)' = IF d <= clock + h THEN Soon(h) \cup { c } ELSE Soon(h)
    BY DEF Soon
  <2>2. c \notin Soon(h)
    BY DEF Soon
  <2> QED BY <2>1, <2>2, DueTypes, FS_AddElement DEF Due
<1> QED BY <1>2, <1>3

\* A call that sleeps no longer is one less asleep, and due only where it was.
LEMMA OneWakes ==
    ASSUME ChatTypes, NEW c \in Callers, call[c].step = "paced", UNCHANGED clock,
           call' \in [Callers -> Calls], call'[c].step # "paced",
           \A e \in Callers \ { c } : call'[e] = call[e]
    PROVE  /\ Asleep' = Asleep - 1
           /\ \A h \in Nat : Due(h)' = IF call[c].due <= clock + h THEN Due(h) - 1 ELSE Due(h)
<1>1. Paces' = Paces \ { c } /\ c \in Paces
  BY DEF Paces
<1>2. Asleep' = Asleep - 1
  BY <1>1, DueTypes, FS_RemoveElement DEF Asleep
<1>3. ASSUME NEW h \in Nat
      PROVE  Due(h)' = IF call[c].due <= clock + h THEN Due(h) - 1 ELSE Due(h)
  <2>1. Soon(h)' = Soon(h) \ { c }
    BY DEF Soon
  <2>2. c \in Soon(h) <=> call[c].due <= clock + h
    BY DEF Soon
  <2> QED BY <2>1, <2>2, DueTypes, FS_RemoveElement DEF Due
<1> QED BY <1>2, <1>3

\* Where no call falls asleep or wakes, as many are due.
LEMMA NoneSleeps ==
    ASSUME ChatTypes, UNCHANGED clock, call' \in [Callers -> Calls],
           \A e \in Callers : \/ call'[e] = call[e]
                              \/ call'[e].step # "paced" /\ call[e].step # "paced"
    PROVE  Asleep' = Asleep /\ \A h \in Nat : Due(h)' = Due(h)
<1>1. Paces' = Paces
  BY DEF Paces
<1>2. \A h \in Nat : Soon(h)' = Soon(h)
  BY DEF Soon
<1> QED BY <1>1, <1>2 DEF Asleep, Due

\* chatLimiter.wait takes a token now, or the next one nobody has been promised.
LEMMA ReserveStep ==
    ASSUME PaceInv, NEW c \in Callers, call[c].step # "paced", NEW attempt \in 0 .. 1,
           Reserve(c, attempt), UNCHANGED << clock, sent, cancels >>
    PROVE  PaceInv'
<1> DEFINE L == Refilled
           d == clock + (IF L - 1 < 0 THEN - (L - 1) ELSE 0)
<1>0. /\ ChatTypes /\ clock \in Nat /\ cancels \in Nat /\ sent \in Seq(Nat)
      /\ L \in Int /\ L <= Burst /\ Burst \in Nat /\ Burst > 0
  BY PaceTypes DEF PaceInv, ChatTypes
<1>1. /\ bucket' = [tokens |-> L - 1, last |-> clock]
      /\ call' = [call EXCEPT ![c] = [@ EXCEPT !.step = "paced", !.attempt = attempt,
                                          !.asked = clock, !.due = d]]
  BY DEF Reserve
<1>2. Refilled' = L - 1
  BY <1>0, <1>1 DEF Refilled
<1> HIDE DEF L
<1>3. d \in Nat /\ d >= clock
  BY <1>0
<1>4. call' \in [Callers -> Calls] /\ call'[c].step = "paced" /\ call'[c].due = d
  <2>1. [call[c] EXCEPT !.step = "paced", !.attempt = attempt, !.asked = clock, !.due = d] \in Calls
    BY <1>0, <1>3 DEF ChatTypes, Calls
  <2> QED BY <1>0, <1>1, <2>1 DEF ChatTypes, Calls
<1>5. ChatTypes'
  BY <1>0, <1>1, <1>4 DEF ChatTypes
<1>6. /\ Asleep' = Asleep + 1
      /\ \A h \in Nat : Due(h)' = IF d <= clock + h THEN Due(h) + 1 ELSE Due(h)
  <2>1. \A e \in Callers \ { c } : call'[e] = call[e]
    BY <1>0, <1>1 DEF ChatTypes
  <2> QED BY <1>0, <1>3, <1>4, <2>1, OneSleeps
<1>7. \A h \in Nat : /\ Due(h) \in Nat /\ Due(h) <= Asleep /\ Asleep \in Nat
                     /\ Holds(h) = IF L + h > 0 THEN L + h ELSE 0
  BY DueTypes DEF Holds, L
<1>8. \A h \in Nat : Holds(h)' = IF L - 1 + h > 0 THEN L - 1 + h ELSE 0
  BY <1>2 DEF Holds
<1>9. \A h \in Nat : Due(h)' = IF L + h >= 1 THEN Due(h) + 1 ELSE Due(h)
  <2> SUFFICES ASSUME NEW h \in Nat
               PROVE  Due(h)' = IF L + h >= 1 THEN Due(h) + 1 ELSE Due(h)
    OBVIOUS
  <2>1. d <= clock + h <=> L + h >= 1
    BY <1>0
  <2> QED BY <1>6, <2>1
<1> HIDE DEF d
<1>10. \A h \in Nat : Due(h)' \in Nat /\ Holds(h)' \in Nat /\ Holds(h) \in Nat
                      /\ Due(h)' + Holds(h)' = Due(h) + Holds(h)
  <2> TAKE h \in Nat
  <2> DEFINE A == Due(h)
             B == Holds(h)
             A2 == Due(h)'
             B2 == Holds(h)'
  <2>1. /\ A \in Nat
        /\ B = IF L + h > 0 THEN L + h ELSE 0
        /\ B2 = IF L - 1 + h > 0 THEN L - 1 + h ELSE 0
        /\ A2 = IF L + h >= 1 THEN A + 1 ELSE A
    BY <1>7, <1>8, <1>9
  <2> HIDE DEF A, B, A2, B2
  <2>2. A2 \in Nat /\ B2 \in Nat /\ B \in Nat /\ A2 + B2 = A + B
    BY <1>0, <2>1
  <2> QED BY <2>2 DEF A, B, A2, B2
<1>11. Spread'
  <2> SUFFICES ASSUME NEW g \in Nat, NEW h \in Nat, g <= h
               PROVE  Due(h)' - Due(g)' + Holds(h)' <= Holds(g)' + (h - g) + cancels
    BY <1>0 DEF Spread
  <2> DEFINE Ag == Due(g)
             Ah == Due(h)
             Bg == Holds(g)
             Bh == Holds(h)
             Cg == Due(g)'
             Ch == Due(h)'
             Dg == Holds(g)'
             Dh == Holds(h)'
  <2>1. Ah - Ag + Bh <= Bg + (h - g) + cancels
    BY DEF PaceInv, Spread
  <2>2. /\ Ag \in Nat /\ Ah \in Nat /\ Bg \in Nat /\ Bh \in Nat
        /\ Cg \in Nat /\ Ch \in Nat /\ Dg \in Nat /\ Dh \in Nat
        /\ Cg + Dg = Ag + Bg /\ Ch + Dh = Ah + Bh
    BY <1>7, <1>10
  <2> HIDE DEF Ag, Ah, Bg, Bh, Cg, Ch, Dg, Dh
  <2>3. Ch - Cg + Dh <= Dg + (h - g) + cancels
    BY <1>0, <2>1, <2>2
  <2> QED BY <2>3 DEF Cg, Ch, Dg, Dh
<1>12. Bounded'
  <2> SUFFICES ASSUME NEW h \in Nat PROVE Due(h)' + Holds(h)' <= Burst + h + cancels
    BY <1>0 DEF Bounded
  <2> QED BY <1>10 DEF PaceInv, Bounded
<1>13. SentBounded'
  <2> SUFFICES ASSUME NEW i \in DOMAIN sent, NEW h \in Nat
               PROVE  (Len(sent) - i + 1) + Due(h)' + Holds(h)' <= Burst + (clock + h) - sent[i] + cancels
    BY <1>0 DEF SentBounded
  <2> DEFINE A == Due(h)
             B == Holds(h)
             A2 == Due(h)'
             B2 == Holds(h)'
             n == Len(sent) - i + 1
             t == sent[i]
  <2>0. /\ A \in Nat /\ B \in Nat /\ A2 \in Nat /\ B2 \in Nat /\ A2 + B2 = A + B
    BY <1>7, <1>10
  <2>a. n \in Int /\ t \in Nat
    BY <1>0
  <2>1. /\ A \in Nat /\ B \in Nat /\ A2 \in Nat /\ B2 \in Nat /\ A2 + B2 = A + B
        /\ n \in Int /\ t \in Nat
    BY <2>0, <2>a
  <2>2. n + A + B <= Burst + (clock + h) - t + cancels
    BY DEF PaceInv, SentBounded
  <2> HIDE DEF A, B, A2, B2, n, t
  <2>3. n + A2 + B2 <= Burst + (clock + h) - t + cancels
    BY <1>0, <2>1, <2>2
  <2> QED BY <2>3 DEF A2, B2, n, t
<1>14. SentPaced'
  BY DEF PaceInv, SentPaced
<1>15. Owed'
  <2> SUFFICES ASSUME NEW g \in Nat
               PROVE  Asleep' - Due(g)' + (L - 1) + g >= 0
    BY <1>2 DEF Owed
  <2> DEFINE A == Due(g)
             A2 == Due(g)'
             S == Asleep
             S2 == Asleep'
  <2>1. S - A + L + g >= 0
    BY DEF PaceInv, Owed, L
  <2>2. /\ A \in Nat /\ S \in Nat /\ A <= S /\ S2 = S + 1
        /\ A2 = IF L + g >= 1 THEN A + 1 ELSE A
    BY <1>6, <1>7, <1>9
  <2> HIDE DEF A, A2, S, S2
  <2>3. S2 - A2 + (L - 1) + g >= 0
    BY <1>0, <2>1, <2>2
  <2> QED BY <2>3 DEF A2, S2
<1> QED BY <1>5, <1>11, <1>12, <1>13, <1>14, <1>15 DEF PaceInv

\* A reservation given back: what is due later comes one interval earlier.
LEMMA CancelStep ==
    ASSUME PaceInv, NEW c \in Callers, CancelPaced(c)
    PROVE  PaceInv'
<1> DEFINE L == Refilled
           d == call[c].due
           L2 == IF L + 1 > Burst THEN Burst ELSE L + 1
<1>0. /\ ChatTypes /\ clock \in Nat /\ cancels \in Nat /\ sent \in Seq(Nat)
      /\ L \in Int /\ L <= Burst /\ Burst \in Nat /\ Burst > 0
  BY PaceTypes DEF PaceInv, ChatTypes
<1>1. /\ bucket' = [bucket EXCEPT !.tokens = @ + 1] /\ call' = [call EXCEPT ![c] = NoCall]
      /\ call[c].step = "paced" /\ clock < d /\ cancels' = cancels + 1
      /\ UNCHANGED << clock, sent >>
  BY DEF CancelPaced
<1>2. Refilled' = L2
  BY <1>0, <1>1 DEF Refilled, ChatTypes
<1>3. d \in Nat /\ call' \in [Callers -> Calls] /\ call'[c].step = "idle"
      /\ \A e \in Callers \ { c } : call'[e] = call[e]
  <2>1. NoCall \in Calls /\ NoCall.step = "idle"
    BY DEF NoCall, Calls
  <2> QED BY <1>0, <1>1, <2>1 DEF ChatTypes, Calls
<1>4. ChatTypes'
  BY <1>0, <1>1, <1>3 DEF ChatTypes
<1>5. /\ Asleep' = Asleep - 1
      /\ \A h \in Nat : Due(h)' = IF d <= clock + h THEN Due(h) - 1 ELSE Due(h)
  BY <1>0, <1>1, <1>3, OneWakes
<1>6. \A h \in Nat : /\ Due(h) \in Nat /\ Due(h) <= Asleep /\ Asleep \in Nat
                     /\ Due(h)' \in Nat /\ Due(h)' <= Asleep' /\ Asleep' \in Nat
                     /\ Holds(h) = IF L + h > 0 THEN L + h ELSE 0
  BY DueTypes, DueNext DEF Holds, L
<1>7. \A h \in Nat : Holds(h)' = IF L2 + h > 0 THEN L2 + h ELSE 0
  BY <1>2 DEF Holds
<1> HIDE DEF L, d
\* An interval more is worth a token more.
<1>8. \A h \in Nat : /\ Due(h)' <= Due(h) /\ Due(h) <= Due(h)' + 1
                     /\ Holds(h)' \in Nat /\ Holds(h) \in Nat
                     /\ Holds(h) <= Holds(h)' /\ Holds(h)' <= Holds(h) + 1
  <2> TAKE h \in Nat
  <2> DEFINE A == Due(h)
             B == Holds(h)
             A2 == Due(h)'
             B2 == Holds(h)'
  <2>1. /\ A \in Nat /\ B = IF L + h > 0 THEN L + h ELSE 0
        /\ B2 = IF L2 + h > 0 THEN L2 + h ELSE 0
        /\ A2 = IF d <= clock + h THEN A - 1 ELSE A
    BY <1>5, <1>6, <1>7
  <2> HIDE DEF A, B, A2, B2
  <2>2. A2 <= A /\ A <= A2 + 1 /\ B2 \in Nat /\ B \in Nat /\ B <= B2 /\ B2 <= B + 1
    BY <1>0, <2>1
  <2> QED BY <2>2 DEF A, B, A2, B2
<1>9. Spread'
  <2> SUFFICES ASSUME NEW g \in Nat, NEW h \in Nat, g <= h
               PROVE  Due(h)' - Due(g)' + Holds(h)' <= Holds(g)' + (h - g) + (cancels + 1)
    BY <1>0, <1>1 DEF Spread
  <2> DEFINE Ag == Due(g)
             Ah == Due(h)
             Bg == Holds(g)
             Bh == Holds(h)
             Cg == Due(g)'
             Ch == Due(h)'
             Dg == Holds(g)'
             Dh == Holds(h)'
  <2>1. Ah - Ag + Bh <= Bg + (h - g) + cancels
    BY DEF PaceInv, Spread
  <2>2. /\ Ag \in Nat /\ Ah \in Nat /\ Bg \in Nat /\ Bh \in Nat
        /\ Cg \in Nat /\ Ch \in Nat
        /\ Cg = (IF d <= clock + g THEN Ag - 1 ELSE Ag)
        /\ Ch = (IF d <= clock + h THEN Ah - 1 ELSE Ah)
    BY <1>5, <1>6, <1>8
  <2>3. /\ Bg = (IF L + g > 0 THEN L + g ELSE 0)
        /\ Bh = (IF L + h > 0 THEN L + h ELSE 0)
        /\ Dg = (IF L2 + g > 0 THEN L2 + g ELSE 0)
        /\ Dh = (IF L2 + h > 0 THEN L2 + h ELSE 0)
    BY <1>6, <1>7
  <2> HIDE DEF Ag, Ah, Bg, Bh, Cg, Ch, Dg, Dh
  <2>5. d \in Nat
    BY <1>3
  <2>4. Ch - Cg + Dh <= Dg + (h - g) + (cancels + 1)
    BY <1>0, <2>1, <2>2, <2>3, <2>5
  <2> QED BY <2>4 DEF Cg, Ch, Dg, Dh
<1>10. Bounded'
  <2> SUFFICES ASSUME NEW h \in Nat PROVE Due(h)' + Holds(h)' <= Burst + h + (cancels + 1)
    BY <1>1 DEF Bounded
  <2> DEFINE A == Due(h)
             B == Holds(h)
             A2 == Due(h)'
             B2 == Holds(h)'
  <2>1. A \in Nat /\ B \in Nat /\ A2 \in Nat /\ B2 \in Nat /\ A2 <= A /\ B2 <= B + 1
    BY <1>6, <1>8
  <2>2. A + B <= Burst + h + cancels
    BY DEF PaceInv, Bounded
  <2> HIDE DEF A, B, A2, B2
  <2>3. A2 + B2 <= Burst + h + (cancels + 1)
    BY <1>0, <2>1, <2>2
  <2> QED BY <2>3 DEF A2, B2
<1>11. SentBounded'
  <2> SUFFICES ASSUME NEW i \in DOMAIN sent, NEW h \in Nat
               PROVE  (Len(sent) - i + 1) + Due(h)' + Holds(h)'
                          <= Burst + (clock + h) - sent[i] + (cancels + 1)
    BY <1>1 DEF SentBounded
  <2> DEFINE A == Due(h)
             B == Holds(h)
             A2 == Due(h)'
             B2 == Holds(h)'
             n == Len(sent) - i + 1
             t == sent[i]
  <2>1. A \in Nat /\ B \in Nat /\ A2 \in Nat /\ B2 \in Nat /\ A2 <= A /\ B2 <= B + 1
    BY <1>6, <1>8
  <2>2. n \in Int /\ t \in Nat
    BY <1>0
  <2>3. n + A + B <= Burst + (clock + h) - t + cancels
    BY DEF PaceInv, SentBounded
  <2> HIDE DEF A, B, A2, B2, n, t
  <2>4. n + A2 + B2 <= Burst + (clock + h) - t + (cancels + 1)
    BY <1>0, <2>1, <2>2, <2>3
  <2> QED BY <2>4 DEF A2, B2, n, t
<1>12. SentPaced'
  <2> SUFFICES ASSUME NEW i \in DOMAIN sent, NEW j \in DOMAIN sent, i <= j
               PROVE  j - i + 1 <= Burst + (sent[j] - sent[i]) + (cancels + 1)
    BY <1>1 DEF SentPaced
  <2>1. j - i + 1 <= Burst + (sent[j] - sent[i]) + cancels
    BY DEF PaceInv, SentPaced
  <2> QED BY <1>0, <2>1
<1>13. Owed'
  <2> SUFFICES ASSUME NEW g \in Nat PROVE Asleep' - Due(g)' + L2 + g >= 0
    BY <1>2 DEF Owed
  <2> DEFINE A == Due(g)
             A2 == Due(g)'
             S == Asleep
             S2 == Asleep'
  <2>1. S - A + L + g >= 0
    BY DEF PaceInv, Owed, L
  <2>2. /\ A \in Nat /\ S \in Nat /\ A <= S /\ S2 = S - 1 /\ A2 \in Nat /\ A2 <= S2
        /\ A2 = (IF d <= clock + g THEN A - 1 ELSE A)
    BY <1>5, <1>6
  <2> HIDE DEF A, A2, S, S2
  <2>3. S2 - A2 + L2 + g >= 0
    BY <1>0, <2>1, <2>2
  <2> QED BY <2>3 DEF A2, S2
<1> QED BY <1>4, <1>9, <1>10, <1>11, <1>12, <1>13 DEF PaceInv

\* A request goes out: it moves from those due to those sent.
LEMMA SendStep ==
    ASSUME PaceInv, NEW c \in Callers, SendCall(c)
    PROVE  PaceInv'
<1> DEFINE d == call[c].due
           m == Len(sent)
<1>0. /\ ChatTypes /\ clock \in Nat /\ cancels \in Nat /\ sent \in Seq(Nat)
      /\ Burst \in Nat /\ Burst > 0 /\ call[c] \in Calls /\ d \in Nat /\ m \in Nat
  <2>1. ChatTypes
    BY DEF PaceInv
  <2>2. call[c] \in Calls
    BY <2>1 DEF ChatTypes
  <2>3. d \in Nat
    BY <2>2 DEF Calls
  <2>4. clock \in Nat /\ cancels \in Nat /\ sent \in Seq(Nat)
    BY <2>1 DEF ChatTypes
  <2> QED BY <2>1, <2>2, <2>3, <2>4, PaceTypes
<1>1. /\ sent' = Append(sent, clock) /\ UNCHANGED << clock, bucket, cancels >>
      /\ call[c].step = "paced" /\ d <= clock
  BY <1>0 DEF SendCall
<1>2. PICK r \in Calls : r.step # "paced" /\ call' = [call EXCEPT ![c] = r]
  <2>1. NoCall \in Calls /\ NoCall.step = "idle"
    BY DEF NoCall, Calls
  <2>2. ASSUME NEW wait \in RetryWaits
        PROVE  /\ [call[c] EXCEPT !.step = "retry", !.until = clock + wait] \in Calls
               /\ [call[c] EXCEPT !.step = "retry", !.until = clock + wait].step = "retry"
    <3>1. wait \in Nat /\ clock + wait \in Nat
      BY <1>0, ChatAssumption
    <3> QED BY <1>0, <3>1 DEF Calls
  <2>3. CASE call' = [call EXCEPT ![c] = NoCall]
    BY <2>1, <2>3
  <2>4. ASSUME NEW wait \in RetryWaits,
               call' = [call EXCEPT ![c] = IF call[c].attempt > 0 \/ wait > maxRetryWait THEN NoCall
                                           ELSE [@ EXCEPT !.step = "retry", !.until = clock + wait]]
        PROVE  \E r \in Calls : r.step # "paced" /\ call' = [call EXCEPT ![c] = r]
    <3>1. CASE call[c].attempt > 0 \/ wait > maxRetryWait
      BY <2>1, <2>4, <3>1
    <3>2. CASE ~ (call[c].attempt > 0 \/ wait > maxRetryWait)
      <4>1. call' = [call EXCEPT ![c] = [call[c] EXCEPT !.step = "retry", !.until = clock + wait]]
        BY <2>4, <3>2
      <4> QED BY <2>2, <4>1
    <3> QED BY <3>1, <3>2
  <2> QED BY <2>3, <2>4 DEF SendCall
<1>3. /\ call' \in [Callers -> Calls] /\ call'[c].step # "paced"
      /\ \A e \in Callers \ { c } : call'[e] = call[e]
  BY <1>0, <1>2 DEF ChatTypes
<1>4. /\ ChatTypes' /\ Len(sent') = m + 1 /\ sent' \in Seq(Nat)
      /\ \A i \in DOMAIN sent' : \/ i \in DOMAIN sent /\ sent'[i] = sent[i]
                                 \/ i = m + 1 /\ sent'[i] = clock
  BY <1>0, <1>1, <1>3 DEF ChatTypes
<1>5. Asleep' = Asleep - 1 /\ \A h \in Nat : Due(h)' = Due(h) - 1
  <2>1. \A h \in Nat : d <= clock + h
    BY <1>0, <1>1
  <2>2. /\ Asleep' = Asleep - 1
        /\ \A h \in Nat : Due(h)' = IF call[c].due <= clock + h THEN Due(h) - 1 ELSE Due(h)
    BY <1>0, <1>1, <1>3, OneWakes
  <2> QED BY <2>1, <2>2
<1>6. /\ Refilled' = Refilled /\ \A h \in Nat : Holds(h)' = Holds(h)
  BY <1>1 DEF Refilled, Holds
<1>7. /\ Refilled \in Int /\ Asleep \in Nat
      /\ \A h \in Nat : Holds(h) \in Nat /\ Due(h) \in Nat /\ Due(h)' \in Nat
  BY <1>0, PaceTypes, DueTypes, DueNext
<1> HIDE DEF d, m
<1>8. Spread'
  <2> SUFFICES ASSUME NEW g \in Nat, NEW h \in Nat, g <= h
               PROVE  Due(h)' - Due(g)' + Holds(h)' <= Holds(g)' + (h - g) + cancels
    BY <1>1 DEF Spread
  <2>1. Due(h) - Due(g) + Holds(h) <= Holds(g) + (h - g) + cancels
    BY DEF PaceInv, Spread
  <2> QED BY <1>0, <1>5, <1>6, <1>7, <2>1
<1>9. Bounded'
  <2> SUFFICES ASSUME NEW h \in Nat PROVE Due(h)' + Holds(h)' <= Burst + h + cancels
    BY <1>1 DEF Bounded
  <2>1. Due(h) + Holds(h) <= Burst + h + cancels
    BY DEF PaceInv, Bounded
  <2> QED BY <1>0, <1>5, <1>6, <1>7, <2>1
<1>10. Owed'
  <2> SUFFICES ASSUME NEW g \in Nat PROVE Asleep' - Due(g)' + Refilled + g >= 0
    BY <1>6 DEF Owed
  <2>1. Asleep - Due(g) + Refilled + g >= 0
    BY DEF PaceInv, Owed
  <2> QED BY <1>5, <1>7, <2>1
<1>11. SentBounded'
  <2> SUFFICES ASSUME NEW i \in DOMAIN sent', NEW h \in Nat
               PROVE  (Len(sent') - i + 1) + Due(h)' + Holds(h)'
                          <= Burst + (clock' + h) - sent'[i] + cancels'
    BY DEF SentBounded
  <2>a. Len(sent') = m + 1 /\ clock' = clock /\ cancels' = cancels
    BY <1>1, <1>4
  <2> DEFINE A == Due(h)
             B == Holds(h)
  <2>1. Due(h)' = A - 1 /\ Holds(h)' = B /\ A \in Nat /\ B \in Nat
    BY <1>5, <1>6, <1>7
  <2>2. CASE i \in DOMAIN sent /\ sent'[i] = sent[i]
    <3> DEFINE t == sent[i]
    <3>1. (m - i + 1) + A + B <= Burst + (clock + h) - t + cancels
      BY <2>2 DEF PaceInv, SentBounded, m
    <3>2. t \in Nat /\ i \in Nat /\ sent'[i] = t
      BY <1>0, <2>2
    <3> HIDE DEF t, A, B
    <3>3. (m + 1 - i + 1) + (A - 1) + B <= Burst + (clock + h) - t + cancels
      BY <1>0, <2>1, <3>1, <3>2
    <3>4. (m + 1 - i + 1) + Due(h)' + Holds(h)' <= Burst + (clock + h) - sent'[i] + cancels
      BY <2>1, <3>2, <3>3
    <3> QED BY <1>0, <2>a, <2>1, <3>2, <3>4 DEF A, B, t
  <2>3. CASE i = m + 1 /\ sent'[i] = clock
    <3>1. A + B <= Burst + h + cancels
      BY DEF PaceInv, Bounded
    <3> HIDE DEF A, B
    <3>2. 1 + (A - 1) + B <= Burst + (clock + h) - clock + cancels
      BY <1>0, <2>1, <3>1
    <3>3. m + 1 - i + 1 = 1
      BY <1>0, <2>3
    <3> QED BY <2>a, <2>1, <2>3, <3>2, <3>3
  <2> QED BY <1>4, <2>2, <2>3
<1>12. SentPaced'
  <2> SUFFICES ASSUME NEW i \in DOMAIN sent', NEW j \in DOMAIN sent', i <= j
               PROVE  j - i + 1 <= Burst + (sent'[j] - sent'[i]) + cancels
    BY <1>1 DEF SentPaced
  <2>0. i \in Nat /\ j \in Nat /\ DOMAIN sent = 1 .. m
    BY <1>0, <1>4 DEF m
  <2>1. CASE j \in DOMAIN sent /\ sent'[j] = sent[j]
    <3>1. i \in DOMAIN sent /\ sent'[i] = sent[i]
      BY <1>0, <1>4, <2>0, <2>1
    <3> QED BY <2>1, <3>1 DEF PaceInv, SentPaced
  <2>2. CASE j = m + 1 /\ sent'[j] = clock
    <3>1. CASE i \in DOMAIN sent /\ sent'[i] = sent[i]
      <4> DEFINE t == sent[i]
                 A == Due(0)
                 B == Holds(0)
      <4>1. (m - i + 1) + A + B <= Burst + (clock + 0) - t + cancels
        BY <3>1 DEF PaceInv, SentBounded, m
      <4>2a. t \in Nat
        BY <1>0, <3>1
      <4>2b. 0 \in Nat /\ A \in Nat /\ B \in Nat /\ A - 1 \in Nat
        BY <1>5, <1>7
      <4>2. t \in Nat /\ A \in Nat /\ B \in Nat /\ A - 1 \in Nat
        BY <4>2a, <4>2b
      <4> HIDE DEF t, A, B
      <4>3. (m + 1) - i + 1 <= Burst + (clock - t) + cancels
        BY <1>0, <2>0, <4>1, <4>2
      <4> QED BY <2>2, <3>1, <4>3 DEF t
    <3>2. CASE i = m + 1 /\ sent'[i] = clock
      BY <1>0, <2>2, <3>2
    <3> QED BY <1>4, <3>1, <3>2
  <2> QED BY <1>4, <2>1, <2>2
<1> QED BY <1>4, <1>8, <1>9, <1>10, <1>11, <1>12 DEF PaceInv

\* An interval passes: nobody is due, and what was due in h + 1 is due in h.
LEMMA TickStep ==
    ASSUME PaceInv, ChatTick
    PROVE  PaceInv'
<1> DEFINE L == Refilled
           L2 == IF L + 1 > Burst THEN Burst ELSE L + 1
<1>0. /\ ChatTypes /\ clock \in Nat /\ cancels \in Nat /\ sent \in Seq(Nat)
      /\ L \in Int /\ L <= Burst /\ Burst \in Nat /\ Burst > 0
  BY PaceTypes DEF PaceInv, ChatTypes
<1>1. clock' = clock + 1 /\ UNCHANGED << bucket, call, sent, cancels >>
  BY DEF ChatTick
<1>2. Refilled' = L2
  BY <1>0, <1>1 DEF Refilled, ChatTypes
<1>3. ChatTypes'
  BY <1>0, <1>1 DEF ChatTypes
<1>4. Asleep' = Asleep /\ Asleep \in Nat
  <2>1. Paces' = Paces
    BY <1>1 DEF Paces
  <2> QED BY <2>1, DueTypes DEF Asleep
<1>5. \A h \in Nat : h + 1 \in Nat /\ Due(h)' = Due(h + 1)
  <2>1. ASSUME NEW h \in Nat PROVE Soon(h)' = Soon(h + 1)
    <3>1. \A c \in Callers : call[c].due <= clock + 1 + h <=> call[c].due <= clock + (h + 1)
      <4>1. clock + 1 + h = clock + (h + 1)
        BY <1>0
      <4> QED BY <4>1
    <3> QED BY <1>1, <3>1 DEF Soon
  <2> QED BY <2>1 DEF Due
<1>6. Due(0) = 0
  <2>1. \A c \in Callers : ~ (call[c].step = "paced" /\ call[c].due <= clock + 0)
    <3> SUFFICES ASSUME NEW c \in Callers, call[c].step = "paced"
                 PROVE  ~ (call[c].due <= clock + 0)
      OBVIOUS
    <3>1. call[c].due \in Nat
      BY <1>0 DEF ChatTypes, Calls
    <3>2. clock < call[c].due
      BY DEF ChatTick
    <3> QED BY <1>0, <3>1, <3>2
  <2>2. Soon(0) = {}
    BY <2>1 DEF Soon
  <2> QED BY <2>2, FS_EmptySet DEF Due
<1>7. \A h \in Nat : /\ Due(h) \in Nat /\ Due(h) <= Asleep
                     /\ Holds(h) = IF L + h > 0 THEN L + h ELSE 0
  BY DueTypes DEF Holds, L
<1>8. \A h \in Nat : Holds(h)' = IF L2 + h > 0 THEN L2 + h ELSE 0
  BY <1>2 DEF Holds
<1> HIDE DEF L
<1>9. \A h \in Nat : Holds(h)' \in Nat /\ Holds(h) \in Nat /\ Holds(h)' <= Holds(h + 1)
  <2> TAKE h \in Nat
  <2> DEFINE B == Holds(h)
             D == Holds(h + 1)
             B2 == Holds(h)'
  <2>1. /\ B = (IF L + h > 0 THEN L + h ELSE 0)
        /\ D = (IF L + (h + 1) > 0 THEN L + (h + 1) ELSE 0)
        /\ B2 = (IF L2 + h > 0 THEN L2 + h ELSE 0)
    BY <1>7, <1>8
  <2> HIDE DEF B, D, B2
  <2>2. B2 \in Nat /\ B \in Nat /\ B2 <= D
    BY <1>0, <2>1
  <2> QED BY <2>2 DEF B, D, B2
<1>10. Spread'
  <2> SUFFICES ASSUME NEW g \in Nat, NEW h \in Nat, g <= h
               PROVE  Due(h)' - Due(g)' + Holds(h)' <= Holds(g)' + (h - g) + cancels
    BY <1>1 DEF Spread
  <2> DEFINE Ag == Due(g + 1)
             Ah == Due(h + 1)
             Bg == Holds(g + 1)
             Bh == Holds(h + 1)
             B0 == Holds(0)
             Dg == Holds(g)'
             Dh == Holds(h)'
  <2>0. 0 \in Nat /\ g + 1 \in Nat /\ h + 1 \in Nat /\ g + 1 <= h + 1 /\ 0 <= h + 1
    OBVIOUS
  <2>1. Ah - Ag + Bh <= Bg + ((h + 1) - (g + 1)) + cancels
    BY <2>0 DEF PaceInv, Spread
  <2>2. Ah - Due(0) + Bh <= B0 + ((h + 1) - 0) + cancels
    BY <2>0 DEF PaceInv, Spread
  <2>3. /\ Ag \in Nat /\ Ah \in Nat
        /\ Bg = (IF L + (g + 1) > 0 THEN L + (g + 1) ELSE 0)
        /\ Bh = (IF L + (h + 1) > 0 THEN L + (h + 1) ELSE 0)
        /\ B0 = (IF L + 0 > 0 THEN L + 0 ELSE 0)
    BY <1>7, <2>0
  <2>4. /\ Dg = (IF L2 + g > 0 THEN L2 + g ELSE 0)
        /\ Dh = (IF L2 + h > 0 THEN L2 + h ELSE 0)
    BY <1>8
  <2>a. Due(h)' = Ah /\ Due(g)' = Ag /\ Due(0) = 0
    BY <1>5, <1>6
  <2> HIDE DEF Ag, Ah, Bg, Bh, B0, Dg, Dh
  <2>b. Ah + Bh <= B0 + (h + 1) + cancels
    <3>1. Bh \in Int /\ B0 \in Int
      BY <1>0, <2>3
    <3> QED BY <1>0, <2>2, <2>3, <2>a, <3>1
  <2>5. Ah - Ag + Dh <= Dg + (h - g) + cancels
    <3>1. CASE L + 1 <= Burst
      BY <1>0, <2>1, <2>3, <2>4, <3>1
    <3>2. CASE L + 1 > Burst
      <4>1. L = Burst
        BY <1>0, <3>2
      <4> QED BY <1>0, <2>b, <2>1, <2>3, <2>4, <4>1
    <3> QED BY <1>0, <3>1, <3>2
  <2> QED BY <2>a, <2>5 DEF Dg, Dh
<1>11. Bounded'
  <2> SUFFICES ASSUME NEW h \in Nat PROVE Due(h)' + Holds(h)' <= Burst + h + cancels
    BY <1>1 DEF Bounded
  <2> DEFINE A == Due(h + 1)
             B0 == Holds(0)
             D == Holds(h + 1)
             B2 == Holds(h)'
  <2>0. 0 \in Nat /\ h + 1 \in Nat /\ 0 <= h + 1
    OBVIOUS
  <2>1. A - Due(0) + D <= B0 + ((h + 1) - 0) + cancels
    BY <2>0 DEF PaceInv, Spread
  <2>2. /\ A \in Nat /\ Due(h)' = A /\ Due(0) = 0
        /\ D = (IF L + (h + 1) > 0 THEN L + (h + 1) ELSE 0)
        /\ B0 = (IF L + 0 > 0 THEN L + 0 ELSE 0)
        /\ B2 = (IF L2 + h > 0 THEN L2 + h ELSE 0)
    BY <1>5, <1>6, <1>7, <1>8, <2>0
  <2>3. A + D <= Burst + (h + 1) + cancels
    BY <2>0 DEF PaceInv, Bounded
  <2> HIDE DEF A, B0, D, B2
  <2>4. A + B2 <= Burst + h + cancels
    <3>1. CASE L + 1 <= Burst
      BY <1>0, <2>1, <2>2, <2>3, <3>1
    <3>2. CASE L + 1 > Burst
      <4>1. L = Burst
        BY <1>0, <3>2
      <4> QED BY <1>0, <2>1, <2>2, <2>3, <4>1
    <3> QED BY <1>0, <3>1, <3>2
  <2> QED BY <2>2, <2>4 DEF B2
<1>12. SentBounded'
  <2> SUFFICES ASSUME NEW i \in DOMAIN sent, NEW h \in Nat
               PROVE  (Len(sent) - i + 1) + Due(h)' + Holds(h)'
                          <= Burst + ((clock + 1) + h) - sent[i] + cancels
    BY <1>1 DEF SentBounded
  <2> DEFINE A == Due(h + 1)
             B == Holds(h + 1)
             B2 == Holds(h)'
             n == Len(sent) - i + 1
             t == sent[i]
  <2>0. h + 1 \in Nat
    OBVIOUS
  <2>1. Due(h)' = A /\ A \in Nat /\ B \in Nat /\ B2 \in Nat /\ B2 <= B
    BY <1>5, <1>7, <1>9, <2>0
  <2>2. n \in Int /\ t \in Nat
    BY <1>0
  <2>3. n + A + B <= Burst + (clock + (h + 1)) - t + cancels
    BY <2>0 DEF PaceInv, SentBounded
  <2> HIDE DEF A, B, B2, n, t
  <2>4. n + A + B2 <= Burst + ((clock + 1) + h) - t + cancels
    BY <1>0, <2>1, <2>2, <2>3
  <2> QED BY <2>1, <2>4 DEF B2, n, t
<1>13. SentPaced'
  BY <1>1 DEF PaceInv, SentPaced
<1>14. Owed'
  <2> SUFFICES ASSUME NEW g \in Nat PROVE Asleep - Due(g)' + L2 + g >= 0
    BY <1>2, <1>4 DEF Owed
  <2> DEFINE A == Due(g + 1)
             S == Asleep
  <2>0. g + 1 \in Nat
    OBVIOUS
  <2>1. S - A + L + (g + 1) >= 0
    BY <2>0 DEF PaceInv, Owed, L
  <2>2. Due(g)' = A /\ A \in Nat /\ S \in Nat /\ A <= S
    BY <1>4, <1>5, <1>7, <2>0
  <2> HIDE DEF A, S
  <2>3. S - A + L2 + g >= 0
    BY <1>0, <2>1, <2>2
  <2> QED BY <2>2, <2>3 DEF S
<1> QED BY <1>3, <1>10, <1>11, <1>12, <1>13, <1>14 DEF PaceInv

\* A step that neither reserves nor sends nor moves the clock.
LEMMA IdleStep ==
    ASSUME PaceInv, UNCHANGED << clock, bucket, sent >>, cancels' \in { cancels, cancels + 1 },
           call' \in [Callers -> Calls],
           \A e \in Callers : \/ call'[e] = call[e]
                              \/ call'[e].step # "paced" /\ call[e].step # "paced"
    PROVE  PaceInv'
<1> DEFINE x == cancels'
<1>a. ChatTypes /\ clock \in Nat /\ cancels \in Nat /\ sent \in Seq(Nat) /\ Burst \in Nat
  BY PaceTypes DEF PaceInv, ChatTypes
<1>b. x \in Nat /\ cancels <= x
  BY <1>a
<1> HIDE DEF x
<1>0. /\ ChatTypes /\ clock \in Nat /\ cancels \in Nat /\ sent \in Seq(Nat)
      /\ Burst \in Nat /\ x \in Nat /\ cancels <= x
  BY <1>a, <1>b
<1>1. ChatTypes'
  BY <1>0 DEF ChatTypes, x
<1>2. Asleep' = Asleep /\ \A h \in Nat : Due(h)' = Due(h)
  BY <1>0, NoneSleeps
<1>3. Refilled' = Refilled /\ \A h \in Nat : Holds(h)' = Holds(h)
  BY DEF Refilled, Holds
<1>4. \A h \in Nat : Due(h) \in Nat /\ Holds(h) \in Nat
  BY <1>0, PaceTypes, DueTypes
<1>5. Owed'
  BY <1>2, <1>3 DEF PaceInv, Owed
<1>6. Bounded'
  <2> SUFFICES ASSUME NEW h \in Nat PROVE Due(h)' + Holds(h)' <= Burst + h + x
    BY DEF x, Bounded
  <2>1. Due(h) + Holds(h) <= Burst + h + cancels
    BY DEF PaceInv, Bounded
  <2> QED BY <1>0, <1>2, <1>3, <1>4, <2>1
<1>7. Spread'
  <2> SUFFICES ASSUME NEW g \in Nat, NEW h \in Nat, g <= h
               PROVE  Due(h)' - Due(g)' + Holds(h)' <= Holds(g)' + (h - g) + x
    BY DEF x, Spread
  <2>1. Due(h) - Due(g) + Holds(h) <= Holds(g) + (h - g) + cancels
    BY DEF PaceInv, Spread
  <2> DEFINE A == Due(h)
             B == Due(g)
             C == Holds(h)
             D == Holds(g)
  <2>2. A \in Nat /\ B \in Nat /\ C \in Nat /\ D \in Nat
    BY <1>4
  <2> HIDE DEF A, B, C, D
  <2>3. A - B + C <= D + (h - g) + x
    BY <1>0, <2>1, <2>2 DEF A, B, C, D
  <2> QED BY <1>2, <1>3, <2>3 DEF A, B, C, D
<1>8. SentBounded'
  <2> SUFFICES ASSUME NEW i \in DOMAIN sent, NEW h \in Nat
               PROVE  (Len(sent) - i + 1) + Due(h)' + Holds(h)'
                          <= Burst + (clock + h) - sent[i] + x
    BY DEF x, SentBounded
  <2>1. (Len(sent) - i + 1) + Due(h) + Holds(h) <= Burst + (clock + h) - sent[i] + cancels
    BY DEF PaceInv, SentBounded
  <2>2. Len(sent) - i + 1 \in Int /\ sent[i] \in Nat
    BY <1>0
  <2> DEFINE A == Due(h)
             C == Holds(h)
             n == Len(sent) - i + 1
             v == sent[i]
  <2>3. A \in Nat /\ C \in Nat /\ Due(h)' = A /\ Holds(h)' = C
    BY <1>2, <1>3, <1>4
  <2>4. n + A + C <= Burst + (clock + h) - v + cancels /\ n \in Int /\ v \in Nat
    BY <2>1, <2>2
  <2> HIDE DEF A, C, n, v
  <2>5. n + A + C <= Burst + (clock + h) - v + x
    BY <1>0, <2>3, <2>4
  <2> QED BY <2>3, <2>5 DEF n, v
<1>9. SentPaced'
  <2> SUFFICES ASSUME NEW i \in DOMAIN sent, NEW j \in DOMAIN sent, i <= j
               PROVE  j - i + 1 <= Burst + (sent[j] - sent[i]) + x
    BY DEF x, SentPaced
  <2>1. j - i + 1 <= Burst + (sent[j] - sent[i]) + cancels
    BY DEF PaceInv, SentPaced
  <2> QED BY <1>0, <2>1
<1> QED BY <1>1, <1>5, <1>6, <1>7, <1>8, <1>9 DEF PaceInv

\* Nothing is sent or asked for at first.
LEMMA PaceInit ==
    ASSUME ChatInit
    PROVE  PaceInv
<1>1. ChatTypes
  <2>1. NoCall \in Calls
    BY DEF NoCall, Calls
  <2> QED BY <2>1, ChatAssumption DEF ChatInit, ChatTypes
<1>2. Asleep = 0 /\ \A h \in Nat : Due(h) = 0
  <2>1. Paces = {} /\ \A h \in Nat : Soon(h) = {}
    BY DEF ChatInit, Paces, Soon, NoCall
  <2> QED BY <2>1, FS_EmptySet DEF Asleep, Due
<1>3. Refilled = Burst /\ \A h \in Nat : Holds(h) = Burst + h
  BY ChatAssumption DEF ChatInit, Refilled, Holds
<1>4. Burst \in Nat /\ cancels = 0 /\ sent = << >>
  BY ChatAssumption DEF ChatInit
<1>5. Spread /\ Bounded /\ Owed
  BY <1>2, <1>3, <1>4 DEF Spread, Bounded, Owed
<1>6. SentBounded /\ SentPaced
  BY <1>4 DEF SentBounded, SentPaced
<1> QED BY <1>1, <1>5, <1>6 DEF PaceInv

\* No step leaves it.
LEMMA PaceNext ==
    ASSUME PaceInv, [ChatNext]_chatVars
    PROVE  PaceInv'
<1>0. ChatTypes
  BY DEF PaceInv
<1>1. ASSUME NEW c \in Callers, CallChat(c) PROVE PaceInv'
  BY <1>1, ReserveStep DEF CallChat
<1>2. ASSUME NEW c \in Callers, RetryCall(c) PROVE PaceInv'
  BY <1>2, ReserveStep DEF RetryCall
<1>3. ASSUME NEW c \in Callers, CancelRetry(c) PROVE PaceInv'
  <2>1. NoCall \in Calls /\ NoCall.step = "idle"
    BY DEF NoCall, Calls
  <2>2. /\ call[c].step = "retry" /\ call' = [call EXCEPT ![c] = NoCall]
        /\ UNCHANGED << clock, bucket, sent >> /\ cancels' = cancels + 1
    BY <1>3 DEF CancelRetry
  <2>3. /\ call' \in [Callers -> Calls]
        /\ \A e \in Callers : \/ call'[e] = call[e]
                              \/ call'[e].step # "paced" /\ call[e].step # "paced"
    BY <1>0, <2>1, <2>2 DEF ChatTypes
  <2> QED BY <2>2, <2>3, IdleStep
<1>4. CASE UNCHANGED chatVars
  <2>1. call' = call /\ cancels' = cancels /\ UNCHANGED << clock, bucket, sent >>
    BY <1>4 DEF chatVars
  <2> QED BY <1>0, <2>1, IdleStep DEF ChatTypes
<1> QED BY <1>1, <1>2, <1>3, <1>4, CancelStep, SendStep, TickStep DEF ChatNext

\* Paced: the chat gets no more than the burst and one request an interval (and
\* one more for every reservation given back), and the bucket owes no more than
\* what sleeps (chatLimiter.wait, Client.call).
THEOREM PacedCorrect == ChatSpec => []Paced
<1>1. ASSUME PaceInv PROVE Paced
  <2> DEFINE W == { c \in Callers : call[c].step = "paced" /\ clock < call[c].due }
  <2>0. ChatTypes /\ 0 \in Nat /\ clock \in Nat
    BY <1>1 DEF PaceInv, ChatTypes
  <2>1. W = Paces \ Soon(0) /\ Soon(0) \subseteq Paces
    <3>1. \A c \in Callers : call[c].due \in Nat
      BY <2>0 DEF ChatTypes, Calls
    <3>2. \A c \in Callers : clock < call[c].due <=> ~ (call[c].due <= clock + 0)
      BY <2>0, <3>1
    <3> QED BY <3>2 DEF Paces, Soon
  <2>2. Cardinality(W) = Asleep - Due(0)
    <3>1. Paces \cap Soon(0) = Soon(0)
      BY <2>1
    <3>2. Cardinality(Paces \ Soon(0)) = Cardinality(Paces) - Cardinality(Paces \cap Soon(0))
      BY DueTypes, FS_Difference
    <3> QED BY <2>1, <3>1, <3>2 DEF Asleep, Due
  <2>3. Asleep - Due(0) + Refilled + 0 >= 0
    BY <1>1, <2>0 DEF PaceInv, Owed
  <2>4. - Refilled <= Cardinality(W)
    <3>1. Asleep \in Nat /\ Due(0) \in Nat /\ Refilled \in Int
      BY <2>0, DueTypes, PaceTypes
    <3> QED BY <2>2, <2>3, <3>1
  <2> QED BY <1>1, <2>4 DEF Paced, PaceInv, SentPaced
<1> QED BY <1>1, PaceInit, PaceNext, PTL DEF ChatSpec

-----------------------------------------------------------------------------
(* Presses (PressGate).                                                    *)

GateSpec == GateInit /\ [][GateNext]_gateVars

\* The presses of a among the worked ones from i to j.
Worked(w, i, j, a) == { k \in i .. j : w[k].a = a }

\* What a could still press at once.
Left(a) == IF actors[a] = NoBucket THEN pressBurst ELSE refill(actors[a])

PressTimes == [a : Buckets, t : Nat]

TakenBuckets == [tokens : 0 .. pressBurst, last : Nat]

GateTypes ==
    /\ gateTime \in Nat /\ chat \in Chats
    /\ actors \in [Buckets -> TakenBuckets \cup { NoBucket }]
    /\ \A a \in Buckets : actors[a] # NoBucket => actors[a].last <= gateTime
    /\ worked \in Seq(PressTimes)

\* From each press on, an actor's presses and what it has left now are no more
\* than a full bucket and what came in since.
WithinBurst ==
    \A i \in DOMAIN worked, a \in Buckets :
        worked[i].a = a =>
            Cardinality(Worked(worked, i, Len(worked), a)) + Left(a)
                <= pressBurst + gateTime - worked[i].t

Rated ==
    \A i, j \in DOMAIN worked : i <= j /\ worked[i].a = worked[j].a =>
          Cardinality({ k \in i..j : worked[k].a = worked[i].a }) <= pressBurst + worked[j].t - worked[i].t

\* One answer for a press that was let in, and no change by a stranger.
Answered ==
    /\ pressed.answers = IF pressed.ignored THEN 0 ELSE 1
    /\ pressed.by # "nobody" => chat = "group" \/ pressed.by = "admin"

GateInv == GateTypes /\ WithinBurst /\ Rated /\ Answered

\* The parts of a press.
LEMMA PressTypes == \A x \in PressTimes : x.a \in Buckets /\ x.t \in Nat
  BY DEF PressTimes

\* A bucket never holds more than the burst.
LEMMA LeftTypes ==
    ASSUME GateTypes, NEW a \in Buckets
    PROVE  Left(a) \in 0 .. pressBurst
  BY BurstAssumption DEF GateTypes, Left, refill, TakenBuckets

\* The worked presses of a stretch are finitely many.
LEMMA WorkedTypes ==
    ASSUME NEW w, NEW i \in Nat, NEW j \in Nat, NEW a
    PROVE  /\ IsFiniteSet(Worked(w, i, j, a))
           /\ Cardinality(Worked(w, i, j, a)) \in Nat
<1>1. IsFiniteSet(i .. j) /\ Worked(w, i, j, a) \in SUBSET (i .. j)
  BY FS_Interval DEF Worked
<1> QED BY <1>1, FS_Subset, FS_CardinalityType

\* One more press counts for its actor only.
LEMMA WorkedOneMore ==
    ASSUME NEW w \in Seq(PressTimes), NEW x \in PressTimes,
           NEW i \in 1 .. Len(w) + 1, NEW a
    PROVE  Cardinality(Worked(Append(w, x), i, Len(w) + 1, a)) =
               Cardinality(Worked(w, i, Len(w), a)) + (IF x.a = a THEN 1 ELSE 0)
<1> DEFINE v == Append(w, x)
<1>1. Len(w) \in Nat /\ v[Len(w) + 1] = x /\ \A k \in 1 .. Len(w) : v[k] = w[k]
  OBVIOUS
<1>2. Worked(v, i, Len(w) + 1, a) =
          IF x.a = a THEN Worked(w, i, Len(w), a) \cup { Len(w) + 1 } ELSE Worked(w, i, Len(w), a)
  <2> HIDE DEF v
  <2> SUFFICES ASSUME NEW k \in Nat
               PROVE  k \in Worked(v, i, Len(w) + 1, a) <=>
                          k \in Worked(w, i, Len(w), a) \/ (x.a = a /\ k = Len(w) + 1)
    BY <1>1 DEF Worked
  <2>1. CASE k = Len(w) + 1
    BY <1>1, <2>1 DEF Worked
  <2>2. CASE k # Len(w) + 1
    BY <1>1, <2>2 DEF Worked
  <2> QED BY <2>1, <2>2
<1>3. Len(w) + 1 \notin Worked(w, i, Len(w), a)
  BY <1>1 DEF Worked
<1>4. IsFiniteSet(Worked(w, i, Len(w), a)) /\ Cardinality(Worked(w, i, Len(w), a)) \in Nat
  BY <1>1, WorkedTypes
<1> DEFINE S == Worked(w, i, Len(w), a)
<1>5. Cardinality(S \cup { Len(w) + 1 }) = Cardinality(S) + 1
  BY <1>3, <1>4, FS_AddElement
<1> HIDE DEF S, v
<1> QED BY <1>2, <1>4, <1>5 DEF v, S

\* pressLimiter.allow lets through who has one left, takes it, and leaves the
\* others what they had.
LEMMA AllowTakes ==
    ASSUME GateTypes, NEW a \in Buckets
    PROVE  /\ allow(a).ok <=> Left(a) >= 1
           /\ allow(a).buckets \in [Buckets -> TakenBuckets \cup { NoBucket }]
           /\ \A b \in Buckets :
                 LET c == allow(a).buckets[b]
                     left == IF c = NoBucket THEN pressBurst ELSE refill(c)
                 IN  /\ c # NoBucket => c.last = gateTime
                     /\ left = IF b = a /\ Left(a) >= 1 THEN Left(b) - 1 ELSE Left(b)
<1> DEFINE kept == [x \in Buckets |->
                       IF actors[x] = NoBucket \/ refill(actors[x]) >= pressBurst THEN NoBucket
                       ELSE [tokens |-> refill(actors[x]), last |-> gateTime]]
           n == IF kept[a] = NoBucket THEN pressBurst ELSE kept[a].tokens
           after == [kept EXCEPT ![a] = [tokens |-> IF n >= 1 THEN n - 1 ELSE n, last |-> gateTime]]
<1>0. gateTime \in Nat /\ pressBurst \in Nat
  BY BurstAssumption DEF GateTypes
<1>1. allow(a).ok <=> n >= 1
  BY DEF allow
<1>2. allow(a).buckets = after
  BY DEF allow
<1>3. \A b \in Buckets : /\ Left(b) \in 0 .. pressBurst
                         /\ kept[b] = IF Left(b) = pressBurst THEN NoBucket
                                      ELSE [tokens |-> Left(b), last |-> gateTime]
  <2> TAKE b \in Buckets
  <2>1. Left(b) \in 0 .. pressBurst
    BY LeftTypes
  <2>2. CASE actors[b] = NoBucket
    BY <2>1, <2>2 DEF Left
  <2>3. CASE actors[b] # NoBucket
    BY <1>0, <2>1, <2>3 DEF Left
  <2> QED BY <2>1, <2>2, <2>3
<1>4. \A t \in 0 .. pressBurst :
          /\ [tokens |-> t, last |-> gateTime] # NoBucket
          /\ [tokens |-> t, last |-> gateTime] \in TakenBuckets
          /\ refill([tokens |-> t, last |-> gateTime]) = t
  BY <1>0 DEF NoBucket, TakenBuckets, refill
<1>5. n = Left(a)
  BY <1>3, <1>4
<1> HIDE DEF kept, n
<1>6. kept \in [Buckets -> TakenBuckets \cup { NoBucket }]
  BY <1>3, <1>4 DEF kept
<1>7. (IF n >= 1 THEN n - 1 ELSE n) \in 0 .. pressBurst
  <2>1. n \in 0 .. pressBurst
    BY <1>3, <1>5
  <2> QED BY <1>0, <2>1
<1>8. after \in [Buckets -> TakenBuckets \cup { NoBucket }]
  BY <1>4, <1>6, <1>7
<1>9. ASSUME NEW b \in Buckets
      PROVE  LET c == after[b]
                 left == IF c = NoBucket THEN pressBurst ELSE refill(c)
             IN  /\ c # NoBucket => c.last = gateTime
                 /\ left = IF b = a /\ Left(a) >= 1 THEN Left(b) - 1 ELSE Left(b)
  <2>1. CASE b = a
    <3>1. after[b] = [tokens |-> IF n >= 1 THEN n - 1 ELSE n, last |-> gateTime]
      BY <1>6, <2>1
    <3> QED BY <1>4, <1>5, <1>7, <2>1, <3>1
  <2>2. CASE b # a
    <3>1. after[b] = kept[b]
      BY <1>6, <2>2
    <3>2. CASE Left(b) = pressBurst
      <4>1. after[b] = NoBucket
        BY <1>3, <3>1, <3>2
      <4> QED BY <2>2, <3>2, <4>1
    <3>3. CASE Left(b) # pressBurst
      <4>1. after[b] = [tokens |-> Left(b), last |-> gateTime] /\ Left(b) \in 0 .. pressBurst
        BY <1>3, <3>1, <3>3
      <4> QED BY <1>4, <2>2, <4>1
    <3> QED BY <3>2, <3>3
  <2> QED BY <2>1, <2>2
<1> HIDE DEF after
<1> QED BY <1>1, <1>2, <1>5, <1>8, <1>9

\* Along every path of a press that was let in there is one answer in all, and
\* the classes that only view change nothing.
LEMMA HandleOnce ==
    ASSUME NEW d \in Data, NEW o \in Handle(d, SlowData(d))
    PROVE  /\ (IF SlowData(d) THEN 1 ELSE 0) + o.answers = 1
           /\ o.changed \in BOOLEAN /\ (o.changed => ~ ViewClass(d))
<1> DEFINE One == { Did(1, FALSE), Did(1, TRUE) }
<1>1. /\ \A e \in One : e.answers = 1 /\ e.changed \in BOOLEAN
      /\ Did(1, FALSE).answers = 1 /\ Did(1, FALSE).changed \in BOOLEAN /\ ~ Did(1, FALSE).changed
      /\ Did(0, FALSE).answers = 0 /\ Did(0, FALSE).changed \in BOOLEAN /\ ~ Did(0, FALSE).changed
  BY DEF Did
<1>2. /\ \A changed \in BOOLEAN : finishCallback(FALSE, changed) = { Did(1, changed) }
      /\ finishCallback(TRUE, FALSE) = { Did(0, FALSE) } /\ finishCallback(TRUE, TRUE) = { Did(0, TRUE) }
      /\ refuseCallback(FALSE) = { Did(1, FALSE) } /\ refuseCallback(TRUE) = { Did(0, FALSE) }
      /\ showConfirm(FALSE) = { Did(1, FALSE) }
      /\ Once(FALSE) = 1 /\ Once(TRUE) = 0
  BY DEF finishCallback, refuseCallback, showConfirm, Once
<1>3. confirmPress \subseteq One
  <2>1. \A c \in finishCallback(TRUE, TRUE) \cup finishCallback(TRUE, FALSE) :
            Did(1 + c.answers, c.changed) \in One
    <3>1. ASSUME NEW c \in { Did(0, TRUE), Did(0, FALSE) }
          PROVE  Did(1 + c.answers, c.changed) \in One
      <4>1. c.answers = 0 /\ (c.changed = TRUE \/ c.changed = FALSE)
        BY DEF Did
      <4>2. 1 + c.answers = 1
        BY <4>1
      <4>3. c.changed = TRUE => Did(1, c.changed) = Did(1, TRUE)
        BY Zenon
      <4>4. c.changed = FALSE => Did(1, c.changed) = Did(1, FALSE)
        BY Zenon
      <4> QED BY <4>1, <4>2, <4>3, <4>4, Zenon
    <3>2. finishCallback(TRUE, TRUE) \cup finishCallback(TRUE, FALSE) = { Did(0, TRUE), Did(0, FALSE) }
      BY <1>2
    <3> HIDE DEF One
    <3> QED BY <3>1, <3>2
  <2>2. finishCallback(FALSE, FALSE) \cup showConfirm(FALSE) \subseteq One
    BY <1>2
  <2> HIDE DEF One
  <2> QED BY <2>1, <2>2 DEF confirmPress
<1>4. configAct \subseteq One
  BY <1>2 DEF configAct
<1>5. /\ Dispatch(d, FALSE) = { Did(1, FALSE) }
      /\ Dispatch(d, TRUE) = { Did(0, FALSE) }
  BY <1>2 DEF Dispatch
<1>6. CASE SlowData(d)
  <2>1. SlowData(d) = TRUE /\ d \in { "slowView", "legacySlow" }
    BY <1>6 DEF SlowData
  <2>2. Handle(d, TRUE) = { Did(0, FALSE) }
    BY <1>2, <1>5, <2>1 DEF Handle, Configs
  <2>3. o = Did(0, FALSE)
    BY <2>1, <2>2, Zenon
  <2>4. o.answers = 0 /\ o.changed \in BOOLEAN /\ ~ o.changed
    BY <1>1, <2>3, Zenon
  <2> QED BY <1>6, <2>4
<1>7. CASE ~ SlowData(d)
  <2>1. SlowData(d) = FALSE
    BY <1>7 DEF SlowData
  <2>2. CASE ViewClass(d)
    <3>1. d \in (Views \cup LegacyNav) \ { "slowView", "legacySlow" }
      BY <1>7, <2>2 DEF ViewClass, SlowData
    <3>2. Handle(d, FALSE) = { Did(1, FALSE) }
      BY <1>2, <1>5, <3>1 DEF Handle, Configs, Views, LegacyNav
    <3>3. o = Did(1, FALSE)
      BY <2>1, <3>2, Zenon
    <3>4. o.answers = 1 /\ o.changed \in BOOLEAN /\ ~ o.changed
      BY <1>1, <3>3, Zenon
    <3> QED BY <1>7, <3>4
  <2>3. CASE ~ ViewClass(d)
    <3>1. Handle(d, FALSE) \subseteq One
      <4>1. d \in Confirms \cup Configs \cup { "unknown" } \cup LegacyActs
        BY <2>3 DEF ViewClass, Data
      <4> HIDE DEF One
      <4>2. { Did(1, FALSE), Did(1, TRUE) } \subseteq One
        BY DEF One
      <4> QED BY <1>2, <1>3, <1>4, <1>5, <4>1, <4>2 DEF Handle, Configs, Confirms, LegacyActs
    <3>2. o \in One
      BY <2>1, <3>1, Zenon
    <3> HIDE DEF One
    <3> QED BY <1>1, <1>7, <2>3, <3>2
  <2> QED BY <2>2, <2>3
<1> QED BY <1>6, <1>7

\* A press handled is answered once, whatever it meets.
LEMMA PressAnswered ==
    ASSUME GateTypes, NEW from \in Pressers, NEW kind \in { "own", "foreign", "inaccessible" },
           NEW d \in Data, Press(from, kind, d)
    PROVE  Answered'
<1> DEFINE v == authorize(from, kind = "foreign", ViewClass(d))
           a == actorOf(from)
           took == allow(a)
           done == { Did((IF SlowData(d) THEN 1 ELSE 0) + o.answers, o.changed) : o \in Handle(d, SlowData(d)) }
           outcomes == CASE ~ took.ok -> { Did(1, FALSE) }
                         [] took.ok /\ (kind = "inaccessible" \/ v = "adminOnly") -> { Did(1, FALSE) }
                         [] OTHER -> done
<1>0. UNCHANGED chat /\ chat \in Chats
  BY DEF Press, GateTypes
<1>1. CASE v = "ignored"
  <2>1. pressed' = NoPressed
    BY <1>1 DEF Press
  <2> QED BY <2>1 DEF Answered, NoPressed
<1>2. CASE v # "ignored"
  <2>1. PICK o \in outcomes :
            pressed' = [ignored |-> FALSE, answers |-> o.answers, by |-> IF o.changed THEN from ELSE "nobody"]
    BY <1>2 DEF Press
  <2>2. CASE o = Did(1, FALSE)
    BY <2>1, <2>2 DEF Answered, Did
  <2>3. CASE o \in done /\ v # "adminOnly"
    <3>1. PICK e \in Handle(d, SlowData(d)) :
              o = Did((IF SlowData(d) THEN 1 ELSE 0) + e.answers, e.changed)
      BY <2>3
    <3>2. o.answers = 1 /\ o.changed \in BOOLEAN /\ (o.changed => ~ ViewClass(d))
      BY <3>1, HandleOnce DEF Did
    <3>3. ~ ViewClass(d) => chat = "group" \/ from = "admin"
      BY <1>0, <1>2, <2>3 DEF authorize, Chats
    <3> QED BY <1>0, <2>1, <3>2, <3>3 DEF Answered
  <2> QED BY <2>1, <2>2, <2>3
<1> QED BY <1>1, <1>2

\* A press handled leaves every actor within the burst and the rate.
LEMMA PressWithin ==
    ASSUME GateInv, NEW from \in Pressers, NEW kind, NEW d, Press(from, kind, d)
    PROVE  GateTypes' /\ WithinBurst' /\ Rated'
<1> DEFINE a == actorOf(from)
           took == allow(a)
           x == [a |-> a, t |-> gateTime]
           n == Len(worked)
<1>0. /\ UNCHANGED << gateTime, chat >> /\ gateTime \in Nat /\ chat \in Chats
      /\ pressBurst \in Nat /\ a \in Buckets /\ n \in Nat
      /\ worked \in Seq(PressTimes)
  BY BurstAssumption DEF Press, GateInv, GateTypes, actorOf, Pressers, Buckets
<1>w. \A i \in DOMAIN worked : i \in Nat /\ worked[i].a \in Buckets /\ worked[i].t \in Nat
  BY <1>0, PressTypes
<1>x. x.a = a /\ x.t = gateTime /\ x \in PressTimes
  BY <1>0 DEF PressTimes
<1>t. \/ UNCHANGED << actors, worked >>
      \/ /\ actors' = took.buckets
         /\ worked' = IF took.ok THEN Append(worked, x) ELSE worked
  BY DEF Press
<1> HIDE DEF a, x, took
<1>1. CASE UNCHANGED << actors, worked >>
  BY <1>0, <1>1 DEF GateInv, GateTypes, WithinBurst, Rated, Left, refill
<1>2. CASE /\ actors' = took.buckets
           /\ worked' = IF took.ok THEN Append(worked, x) ELSE worked
  <2>1. /\ took.ok <=> Left(a) >= 1
        /\ actors' \in [Buckets -> TakenBuckets \cup { NoBucket }]
        /\ \A b \in Buckets :
               /\ actors'[b] # NoBucket => actors'[b].last = gateTime
               /\ Left(b)' = IF b = a /\ Left(a) >= 1 THEN Left(b) - 1 ELSE Left(b)
    <3>1. /\ took.ok <=> Left(a) >= 1
          /\ took.buckets \in [Buckets -> TakenBuckets \cup { NoBucket }]
          /\ \A b \in Buckets :
                LET c == took.buckets[b]
                    left == IF c = NoBucket THEN pressBurst ELSE refill(c)
                IN  /\ c # NoBucket => c.last = gateTime
                    /\ left = IF b = a /\ Left(a) >= 1 THEN Left(b) - 1 ELSE Left(b)
      BY <1>0, AllowTakes DEF took, GateInv
    <3> QED BY <1>0, <1>2, <3>1 DEF Left, refill
  <2>2. GateTypes'
    <3>1. worked' \in Seq(PressTimes)
      BY <1>0, <1>2, <1>x
    <3>2. \A b \in Buckets : actors'[b] # NoBucket => actors'[b].last <= gateTime
      BY <1>0, <2>1
    <3> QED BY <1>0, <2>1, <3>1, <3>2 DEF GateTypes
  <2>3. \A b \in Buckets : Left(b) \in 0 .. pressBurst /\ Left(b)' \in 0 .. pressBurst
    BY <2>1, <1>0, LeftTypes DEF GateInv
  <2>4. CASE ~ took.ok
    <3>1. worked' = worked /\ \A b \in Buckets : Left(b)' = Left(b)
      BY <1>2, <2>1, <2>4
    <3>2. WithinBurst'
      BY <1>0, <3>1 DEF GateInv, WithinBurst
    <3> QED BY <2>2, <3>1, <3>2 DEF GateInv, Rated
  <2>5. CASE took.ok
    <3>1. /\ x \in PressTimes
          /\ worked' = Append(worked, x) /\ Len(worked') = n + 1 /\ DOMAIN worked' = 1 .. n + 1
          /\ worked'[n + 1] = x /\ \A i \in 1 .. n : worked'[i] = worked[i]
      BY <1>0, <1>x, <1>2, <2>5
    <3>2. WithinBurst'
      <4> SUFFICES ASSUME NEW i \in 1 .. n + 1, NEW b \in Buckets, worked'[i].a = b
                   PROVE  Cardinality(Worked(worked', i, n + 1, b)) + Left(b)'
                              <= pressBurst + gateTime - worked'[i].t
        BY <1>0, <3>1 DEF WithinBurst
      <4>1. i \in Nat /\ i \in 1 .. Len(worked) + 1
        BY <1>0
      <4>2. Cardinality(Worked(worked', i, n + 1, b))
                = Cardinality(Worked(worked, i, n, b)) + (IF a = b THEN 1 ELSE 0)
        BY <1>0, <1>x, <3>1, <4>1, WorkedOneMore
      <4>3. Cardinality(Worked(worked, i, n, b)) \in Nat
        BY <1>0, <4>1, WorkedTypes
      <4>4. Left(b)' = IF b = a THEN Left(b) - 1 ELSE Left(b)
        BY <2>1, <2>5, <4>1
      <4>5. CASE i = n + 1
        <5>1. Worked(worked, i, n, b) = {} /\ b = a /\ worked'[i].t = gateTime
          BY <1>0, <1>x, <3>1, <4>5 DEF Worked
        <5>2. Cardinality({}) = 0
          BY FS_EmptySet
        <5> QED BY <1>0, <2>3, <4>1, <4>2, <4>4, <5>1, <5>2
      <4>6. CASE i # n + 1
        <5>1. i \in 1 .. n /\ worked'[i] = worked[i] /\ worked[i].t \in Nat
          BY <1>0, <1>w, <3>1, <4>6
        <5>2. Cardinality(Worked(worked, i, n, b)) + Left(b) <= pressBurst + gateTime - worked[i].t
          BY <1>0, <5>1 DEF GateInv, WithinBurst
        <5>3. Left(b) \in Nat
          BY <1>0, <2>3, <4>1
        <5> QED BY <1>0, <4>2, <4>3, <4>4, <5>1, <5>2, <5>3
      <4> QED BY <4>5, <4>6
    <3>3. Rated'
      <4> SUFFICES ASSUME NEW i \in 1 .. n + 1, NEW j \in 1 .. n + 1, i <= j, worked'[i].a = worked'[j].a
                   PROVE  Cardinality(Worked(worked', i, j, worked'[i].a))
                              <= pressBurst + worked'[j].t - worked'[i].t
        BY <3>1 DEF Rated, Worked
      <4>1. CASE j = n + 1
        <5>1. worked'[j].t = gateTime /\ worked'[i].a \in Buckets /\ worked'[i].t \in Nat
              /\ worked'[i].a = a
          BY <1>0, <1>x, <1>w, <3>1, <4>1
        <5>2. Cardinality(Worked(worked', i, n + 1, a)) + Left(a)' <= pressBurst + gateTime - worked'[i].t
          BY <1>0, <3>1, <3>2, <5>1 DEF WithinBurst
        <5>3. Cardinality(Worked(worked', i, n + 1, a)) \in Nat
          BY <1>0, WorkedTypes
        <5>4. Left(a)' \in Nat
          BY <1>0, <2>3, <5>1
        <5>5. pressBurst \in Nat /\ gateTime \in Nat
          BY <1>0
        <5> DEFINE c == Cardinality(Worked(worked', i, n + 1, a))
                   l == Left(a)'
        <5>6. c \in Nat /\ l \in Nat /\ c + l <= pressBurst + gateTime - worked'[i].t
          BY <5>2, <5>3, <5>4
        <5> HIDE DEF c, l
        <5>7. c <= pressBurst + gateTime - worked'[i].t
          BY <5>1, <5>5, <5>6
        <5> QED BY <4>1, <5>1, <5>7 DEF c
      <4>2. CASE j # n + 1
        <5>1. j \in 1 .. n /\ i \in 1 .. n /\ worked'[i] = worked[i] /\ worked'[j] = worked[j]
          BY <1>0, <3>1, <4>2
        <5>2. Worked(worked', i, j, worked[i].a) = Worked(worked, i, j, worked[i].a)
          BY <1>0, <3>1, <5>1 DEF Worked
        <5> QED BY <1>0, <5>1, <5>2 DEF GateInv, Rated, Worked
      <4> QED BY <4>1, <4>2
    <3> QED BY <2>2, <3>2, <3>3
  <2> QED BY <2>4, <2>5
<1> QED BY <1>1, <1>2, <1>t

\* As time passes no bucket refills faster than the rate allows.
LEMMA TickWithin == GateInv /\ GateTick => GateInv'
<1> SUFFICES ASSUME GateInv, GateTick
             PROVE  GateInv'
  OBVIOUS
<1>0. /\ UNCHANGED << chat, actors, worked, pressed >>
      /\ gateTime' = gateTime + 1 /\ gateTime \in Nat /\ pressBurst \in Nat
      /\ worked \in Seq(PressTimes)
  BY BurstAssumption DEF GateTick, GateInv, GateTypes
<1>w. \A i \in DOMAIN worked : i \in Nat /\ worked[i].a \in Buckets /\ worked[i].t \in Nat
  BY <1>0, PressTypes
<1>1. GateTypes'
  BY <1>0 DEF GateInv, GateTypes, TakenBuckets
<1>2. \A b \in Buckets : Left(b)' <= Left(b) + 1 /\ Left(b) \in Nat /\ Left(b)' \in Nat
  <2> TAKE b \in Buckets
  <2>1. Left(b) \in 0 .. pressBurst
    BY LeftTypes DEF GateInv
  <2>2. CASE actors[b] = NoBucket
    BY <1>0, <2>1, <2>2 DEF Left
  <2>3. CASE actors[b] # NoBucket
    <3>1. actors[b].tokens \in 0 .. pressBurst /\ actors[b].last \in Nat /\ actors[b].last <= gateTime
      BY <2>3 DEF GateInv, GateTypes, TakenBuckets
    <3>2. Left(b) = refill(actors[b]) /\ Left(b)' = refill(actors[b])'
      BY <1>0, <2>3 DEF Left
    <3> DEFINE n == actors[b].tokens
               m == actors[b].last
    <3>3. n \in Nat /\ m \in Nat /\ m <= gateTime /\ n <= pressBurst
      BY <1>0, <3>1
    <3>4. Left(b) = IF n + gateTime - m > pressBurst THEN pressBurst ELSE n + gateTime - m
      BY <3>2 DEF refill
    <3>5. Left(b)' = IF n + (gateTime + 1) - m > pressBurst THEN pressBurst ELSE n + (gateTime + 1) - m
      BY <1>0, <3>2 DEF refill
    <3> HIDE DEF n, m
    <3> QED BY <1>0, <3>3, <3>4, <3>5
  <2> QED BY <2>2, <2>3
<1>3. WithinBurst'
  <2> SUFFICES ASSUME NEW i \in DOMAIN worked, NEW a \in Buckets, worked[i].a = a
               PROVE  Cardinality(Worked(worked, i, Len(worked), a)) + Left(a)'
                          <= pressBurst + (gateTime + 1) - worked[i].t
    BY <1>0 DEF WithinBurst
  <2>1. worked[i].a \in Buckets /\ worked[i].t \in Nat /\ i \in Nat /\ Len(worked) \in Nat
    BY <1>0, <1>w
  <2>2. Cardinality(Worked(worked, i, Len(worked), a)) \in Nat
    BY <2>1, WorkedTypes
  <2>3. Cardinality(Worked(worked, i, Len(worked), a)) + Left(a)
            <= pressBurst + gateTime - worked[i].t
    BY DEF GateInv, WithinBurst
  <2> QED BY <1>0, <1>2, <2>1, <2>2, <2>3
<1> QED BY <1>0, <1>1, <1>3 DEF GateInv, Rated, Answered

\* For any burst: a press the gate ignores leaves no trace, any other is answered
\* exactly once along every path; no stretch of d intervals lets an actor work
\* more than the burst and d more presses; strangers change nothing
\* (handleCall, handleCallback, pressLimiter.allow, authorize).
THEOREM PressGatedCorrect == GateSpec => []PressGated
<1>1. GateInit => GateInv
  BY DEF GateInit, GateInv, GateTypes, WithinBurst, Rated, Answered, NoPressed
<1>2. GateInv /\ [GateNext]_gateVars => GateInv'
  <2> SUFFICES ASSUME GateInv, [GateNext]_gateVars
               PROVE  GateInv'
    OBVIOUS
  <2>1. ASSUME NEW from \in Pressers, NEW kind \in { "own", "foreign", "inaccessible" },
               NEW d \in Data, Press(from, kind, d)
        PROVE  GateInv'
    BY <2>1, PressAnswered, PressWithin DEF GateInv
  <2>2. CASE GateTick
    BY <2>2, TickWithin
  <2>3. CASE UNCHANGED gateVars
    BY <2>3 DEF gateVars, GateInv, GateTypes, WithinBurst, Rated, Answered, Left, refill
  <2> QED BY <2>1, <2>2, <2>3 DEF GateNext
<1>3. GateInv => PressGated
  BY DEF GateInv, Rated, Answered, PressGated
<1> QED BY <1>1, <1>2, <1>3, PTL DEF GateSpec

-----------------------------------------------------------------------------
(* Texts that are read token by token (SplitMessage).                      *)

\* Induction, for a set of numbers.
LEMMA NatSet ==
    ASSUME NEW S, 0 \in S, \A n \in Nat : n \in S => n + 1 \in S
    PROVE  Nat \subseteq S
<1> SUFFICES ASSUME Nat \ S # {} PROVE FALSE
  OBVIOUS
<1>1. PICK m \in Nat \ S : \A j \in Nat \ S : ~ (<< j, m >> \in OpToRel(<, Nat))
  BY NatLessThanWellFounded, WFMin
<1>2. m \in Nat /\ m \notin S /\ m # 0
  BY <1>1
<1>3. m - 1 \in Nat /\ m - 1 + 1 = m /\ m - 1 < m
  BY <1>2
<1>4. m - 1 \in S
  BY <1>1, <1>3 DEF OpToRel
<1> QED BY <1>2, <1>3, <1>4

\* What holds first and at each next step holds at every step.
LEMMA Along ==
    ASSUME NEW n \in Nat, NEW S, 0 \in S, \A i \in 1..n : i - 1 \in S => i \in S
    PROVE  \A i \in 0..n : i \in S
<1> DEFINE T == { i \in Nat : i <= n => i \in S }
<1>1. 0 \in T
  OBVIOUS
<1>2. ASSUME NEW i \in Nat, i \in T PROVE i + 1 \in T
  <2> SUFFICES ASSUME i + 1 <= n PROVE i + 1 \in S
    OBVIOUS
  <2>1. i \in S /\ i + 1 \in 1..n /\ (i + 1) - 1 = i
    BY <1>2
  <2> QED BY <2>1
<1> HIDE DEF T
<1>3. Nat \subseteq T
  BY <1>1, <1>2, NatSet
<1> QED BY <1>3 DEF T

\* f goes from b on by the steps g.
Follows(f, n, X, b, g) ==
    f \in [0..n -> X] /\ f[0] = b /\ \A i \in 1..n : f[i] = g[i][f[i - 1]]

\* What a step may be, for each of n.
StepsOn(n, X) == [1..n -> [X -> X]]

\* A definition that goes from each step to the next has a meaning.
LEMMA StepsExist ==
    ASSUME NEW n \in Nat, NEW X, NEW b \in X, NEW g \in StepsOn(n, X)
    PROVE  \E f : Follows(f, n, X, b, g)
<1> USE DEF StepsOn, Follows
<1> DEFINE Begun(m, f) == /\ f \in [0..m -> X]
                          /\ f[0] = b
                          /\ \A i \in 1..m : f[i] = g[i][f[i - 1]]
           S == { m \in 0..n : \E f : Begun(m, f) }
<1>1. 0 \in S
  <2> DEFINE h == [i \in 0..0 |-> b]
  <2>1. h \in [0..0 -> X] /\ h[0] = b /\ 1..0 = {} /\ 0 \in 0..n
    OBVIOUS
  <2> HIDE DEF h
  <2>2. Begun(0, h)
    BY <2>1
  <2> QED BY <2>1, <2>2
<1>2. ASSUME NEW i \in 1..n, i - 1 \in S PROVE i \in S
  <2>1. PICK f : Begun(i - 1, f)
    BY <1>2
  <2> DEFINE h == [j \in 0..i |-> IF j = i THEN g[i][f[i - 1]] ELSE f[j]]
  <2>2. i - 1 \in 0..(i - 1) /\ f[i - 1] \in X
    BY <2>1
  <2>3. g[i][f[i - 1]] \in X
    BY <2>2
  <2>4. h \in [0..i -> X]
    <3> SUFFICES ASSUME NEW j \in 0..i PROVE h[j] \in X
      OBVIOUS
    <3>1. CASE j = i
      BY <2>3, <3>1
    <3>2. CASE j # i
      <4>1. j \in 0..(i - 1)
        BY <3>2
      <4> QED BY <2>1, <3>2, <4>1
    <3> QED BY <3>1, <3>2
  <2>5. h[0] = b
    BY <2>1
  <2>6. ASSUME NEW j \in 1..i PROVE h[j] = g[j][h[j - 1]]
    <3>1. j - 1 \in 0..i /\ j - 1 # i /\ h[j - 1] = f[j - 1] /\ j \in 0..i
      OBVIOUS
    <3>2. CASE j = i
      BY <3>1, <3>2
    <3>3. CASE j # i
      <4>1. j \in 1..(i - 1) /\ h[j] = f[j]
        BY <3>1, <3>3
      <4> QED BY <2>1, <3>1, <4>1
    <3> QED BY <3>2, <3>3
  <2> HIDE DEF h
  <2>7. Begun(i, h)
    BY <2>4, <2>5, <2>6
  <2> QED BY <2>7
<1> HIDE DEF S, Begun
<1>3. \A i \in 0..n : i \in S
  BY <1>1, <1>2, Along
<1>4. n \in S
  <2>1. n \in 0..n
    OBVIOUS
  <2> QED BY <1>3, <2>1
<1>5. PICK f : Begun(n, f)
  BY <1>4 DEF S
<1> QED BY <1>5 DEF Begun

\* f is what is left after each token.
Reads(f, step, X, b, s) ==
    /\ f \in [0..Len(s) -> X] /\ f[0] = b
    /\ \A i \in 1..Len(s) : f[i] = step[f[i - 1]][s[i]]

\* The steps of a reading of tokens.
StepsFor(X, Y) == [X -> [Y -> X]]

\* Reading ends where its last step does.
LEMMA ThroughReads ==
    ASSUME NEW X, NEW Y, NEW step \in StepsFor(X, Y), NEW b \in X, NEW s \in Seq(Y)
    PROVE  \E f : Reads(f, step, X, b, s) /\ Through(step, b, s) = f[Len(s)]
<1> DEFINE n == Len(s)
           F == CHOOSE h : h = [i \in 0..n |-> IF i = 0 THEN b ELSE step[h[i - 1]][s[i]]]
           g == [i \in 1..n |-> [x \in X |-> step[x][s[i]]]]
<1>1. Through(step, b, s) = F[n]
  BY DEF Through
<1>2. n \in Nat /\ \A i \in 1..n : s[i] \in Y
  OBVIOUS
<1> HIDE DEF n
<1>3. g \in StepsOn(n, X)
  <2>1. \A i \in 1..n, x \in X : step[x][s[i]] \in X
    BY <1>2 DEF StepsFor
  <2> QED BY <2>1 DEF StepsOn
<1>4. PICK f : Follows(f, n, X, b, g)
  <2> HIDE DEF g
  <2> QED BY <1>2, <1>3, StepsExist
<1>5. f \in [0..n -> X] /\ f[0] = b /\ \A i \in 1..n : f[i] = step[f[i - 1]][s[i]]
  <2>1. f \in [0..n -> X] /\ f[0] = b /\ \A i \in 1..n : f[i] = g[i][f[i - 1]]
    BY <1>4 DEF Follows
  <2>2. \A i \in 1..n : f[i - 1] \in X
    BY <1>2, <2>1
  <2> QED BY <2>1, <2>2
<1> HIDE DEF g
<1>6. f = [i \in 0..n |-> IF i = 0 THEN b ELSE step[f[i - 1]][s[i]]]
  <2>1. \A i \in 0..n : f[i] = IF i = 0 THEN b ELSE step[f[i - 1]][s[i]]
    BY <1>2, <1>5
  <2> QED BY <1>5, <2>1
<1>7. F = [i \in 0..n |-> IF i = 0 THEN b ELSE step[F[i - 1]][s[i]]]
  BY <1>6
<1> HIDE DEF F
<1>8. F[0] = b /\ \A i \in 1..n : F[i] = step[F[i - 1]][s[i]]
  <2>1. \A i \in 0..n : F[i] = IF i = 0 THEN b ELSE step[F[i - 1]][s[i]]
    BY <1>7
  <2>2. 0 \in 0..n /\ \A i \in 1..n : i \in 0..n /\ i # 0
    BY <1>2
  <2> QED BY <2>1, <2>2, Zenon
<1> DEFINE S == { i \in 0..n : F[i] \in X }
<1>9. 0 \in S
  BY <1>2, <1>8
<1>10. ASSUME NEW i \in 1..n, i - 1 \in S PROVE i \in S
  <2>1. F[i] = step[F[i - 1]][s[i]] /\ F[i - 1] \in X /\ i \in 0..n
    BY <1>2, <1>8, <1>10
  <2> QED BY <1>2, <2>1 DEF StepsFor
<1> HIDE DEF S
<1>11. \A i \in 0..n : i \in S
  BY <1>2, <1>9, <1>10, Along
<1>12. \A i \in 0..n : F[i] \in X
  BY <1>11 DEF S
<1>13. F \in [0..n -> X]
  BY <1>7, <1>12
<1> QED BY <1>1, <1>8, <1>13 DEF n, Reads

\* Two readings of the same tokens are the same.
LEMMA ReadsAlike ==
    ASSUME NEW X, NEW Y, NEW step, NEW b, NEW s \in Seq(Y),
           NEW f, NEW h, Reads(f, step, X, b, s), Reads(h, step, X, b, s)
    PROVE  \A i \in 0..Len(s) : f[i] = h[i]
<1> USE DEF Reads
<1> DEFINE n == Len(s)
           S == { i \in 0..n : f[i] = h[i] }
<1>1. n \in Nat
  OBVIOUS
<1>2. 0 \in S
  BY <1>1
<1>3. ASSUME NEW i \in 1..n, i - 1 \in S PROVE i \in S
  BY <1>1, <1>3
<1> HIDE DEF n, S
<1>4. \A i \in 0..n : i \in S
  BY <1>1, <1>2, <1>3, Along
<1> QED BY <1>4 DEF S, n

\* What a reading ends with is what Through says.
LEMMA ReadsEnd ==
    ASSUME NEW X, NEW Y, NEW step \in StepsFor(X, Y), NEW b \in X, NEW s \in Seq(Y),
           NEW f, Reads(f, step, X, b, s)
    PROVE  Through(step, b, s) = f[Len(s)]
<1>1. PICK h : Reads(h, step, X, b, s) /\ Through(step, b, s) = h[Len(s)]
  BY ThroughReads
<1>2. \A i \in 0..Len(s) : f[i] = h[i]
  BY <1>1, ReadsAlike
<1>3. Len(s) \in 0..Len(s)
  OBVIOUS
<1> QED BY <1>1, <1>2, <1>3

\* A reading ends in a state of its own.
LEMMA ThroughType ==
    ASSUME NEW X, NEW Y, NEW step \in StepsFor(X, Y), NEW b \in X, NEW s \in Seq(Y)
    PROVE  Through(step, b, s) \in X
<1>1. PICK f : Reads(f, step, X, b, s) /\ Through(step, b, s) = f[Len(s)]
  BY ThroughReads
<1>2. Len(s) \in 0..Len(s)
  OBVIOUS
<1> QED BY <1>1, <1>2 DEF Reads

\* Nothing read is no step, a token more is a step more.
LEMMA ThroughNone ==
    ASSUME NEW X, NEW Y, NEW step \in StepsFor(X, Y), NEW b \in X
    PROVE  Through(step, b, << >>) = b
<1>1. << >> \in Seq(Y) /\ Len(<< >>) = 0
  OBVIOUS
<1>2. PICK f : Reads(f, step, X, b, << >>) /\ Through(step, b, << >>) = f[Len(<< >>)]
  BY <1>1, ThroughReads
<1> QED BY <1>1, <1>2 DEF Reads

\* A text in two parts is read one part after the other.
LEMMA ThroughBoth ==
    ASSUME NEW X, NEW Y, NEW step \in StepsFor(X, Y), NEW b \in X, NEW s \in Seq(Y), NEW t \in Seq(Y)
    PROVE  Through(step, b, s \o t) = Through(step, Through(step, b, s), t)
<1> DEFINE m == Len(s)
           n == Len(t)
           u == s \o t
           c == Through(step, b, s)
<1>1. PICK f : Reads(f, step, X, b, s) /\ c = f[m]
  BY ThroughReads
<1>2. c \in X
  BY ThroughType
<1> HIDE DEF c
<1>3. PICK h : Reads(h, step, X, c, t) /\ Through(step, c, t) = h[n]
  BY <1>2, ThroughReads
<1>4. /\ m \in Nat /\ n \in Nat /\ u \in Seq(Y) /\ Len(u) = m + n
      /\ \A i \in 1..m : u[i] = s[i]
      /\ \A i \in 1..n : u[m + i] = t[i]
  OBVIOUS
<1>5. /\ f \in [0..m -> X] /\ f[0] = b /\ \A i \in 1..m : f[i] = step[f[i - 1]][s[i]]
      /\ h \in [0..n -> X] /\ h[0] = c /\ \A i \in 1..n : h[i] = step[h[i - 1]][t[i]]
  BY <1>1, <1>3 DEF Reads
<1> HIDE DEF m, n, u
<1> DEFINE g == [i \in 0..(m + n) |-> IF i <= m THEN f[i] ELSE h[i - m]]
<1>6. /\ g \in [0..(m + n) -> X] /\ g[0] = b
      /\ (\A i \in 0..m : g[i] = f[i]) /\ (\A i \in 0..n : g[m + i] = h[i])
  <2>1. ASSUME NEW i \in 0..(m + n) PROVE g[i] \in X
    <3>1. CASE i <= m
      BY <1>4, <1>5, <3>1
    <3>2. CASE ~ (i <= m)
      <4>1. i - m \in 0..n
        BY <1>4, <3>2
      <4> QED BY <1>5, <3>2, <4>1
    <3> QED BY <3>1, <3>2
  <2>2. \A i \in 0..m : g[i] = f[i]
    BY <1>4
  <2>3. ASSUME NEW i \in 0..n PROVE g[m + i] = h[i]
    <3>1. CASE i = 0
      <4>1. m + i = m /\ m \in 0..m
        BY <1>4, <3>1
      <4> QED BY <1>1, <1>5, <2>2, <3>1, <4>1 DEF m
    <3>2. CASE i # 0
      BY <1>4, <3>2
    <3> QED BY <3>1, <3>2
  <2>4. 0 \in 0..m
    BY <1>4
  <2> QED BY <1>5, <2>1, <2>2, <2>3, <2>4
<1> HIDE DEF g
<1>7. ASSUME NEW i \in 1..(m + n) PROVE g[i] = step[g[i - 1]][u[i]]
  <2>1. CASE i <= m
    <3>1. i \in 1..m /\ i \in 0..m /\ i - 1 \in 0..m
      BY <1>4, <2>1
    <3> QED BY <1>4, <1>5, <1>6, <3>1
  <2>2. CASE ~ (i <= m)
    <3> DEFINE j == i - m
    <3>1. j \in 1..n /\ j \in 0..n /\ j - 1 \in 0..n /\ i = m + j /\ i - 1 = m + (j - 1)
      BY <1>4, <2>2
    <3> HIDE DEF j
    <3>2. g[i] = h[j] /\ g[i - 1] = h[j - 1]
      BY <1>6, <3>1
    <3>3. u[i] = t[j] /\ h[j] = step[h[j - 1]][t[j]]
      BY <1>4, <1>5, <3>1
    <3> QED BY <3>2, <3>3
  <2> QED BY <2>1, <2>2
<1>8. Reads(g, step, X, b, u)
  BY <1>4, <1>6, <1>7 DEF Reads
<1>9. Through(step, b, u) = g[m + n]
  <2>1. Through(step, b, u) = g[Len(u)]
    <3>1. u \in Seq(Y)
      BY <1>4
    <3> QED BY <1>8, <3>1, ReadsEnd, Zenon
  <2> QED BY <1>4, <2>1
<1>10. g[m + n] = h[n]
  BY <1>4, <1>6
<1> QED BY <1>3, <1>9, <1>10 DEF c, u

\* The tokens: a tag, its closing tag and a visible token are never the same.
LEMMA TokenKinds ==
    /\ Tags \subseteq Tokens /\ Closing \subseteq Tokens /\ Visible \subseteq Tokens
    /\ \A t \in Tags : t \notin Closing /\ t \notin Visible /\ Wide(t) = 2
    /\ \A t \in Closing : t \notin Visible /\ Wide(t) = 2
    /\ \A t \in Tags : Closes[t] \in Closing /\ Opened(Closes[t]) = t
    /\ \A tok \in Tokens : Wide(tok) \in { 1, 2 }
<1>1. /\ Closing = { "/b", "/pre" } /\ Closes["b"] = "/b" /\ Closes["pre"] = "/pre"
  BY DEF Closing, Closes, Tags
<1>2. /\ Tags = { "b", "pre" } /\ Visible = { "x", "ent" }
  BY DEF Tags, Visible
<1>3. Opened("/b") = "b" /\ Opened("/pre") = "pre"
  BY <1>1, <1>2 DEF Opened
<1> QED BY <1>1, <1>2, <1>3 DEF Tokens, Wide

\* The greatest of some positions.
LEMMA Greatest ==
    ASSUME NEW n \in Nat, NEW S, S \subseteq 0..n, S # {}
    PROVE  LET m == CHOOSE k \in S : \A j \in S : j <= k
           IN  m \in S /\ \A j \in S : j <= m
<1> DEFINE A == { i \in Nat : \A j \in S : j <= i }
<1>1. n \in A
  OBVIOUS
<1>2. PICK k \in A : \A j \in A : ~ (<< j, k >> \in OpToRel(<, Nat))
  <2>1. A \subseteq Nat /\ A # {}
    BY <1>1
  <2> HIDE DEF A
  <2> QED BY <2>1, NatLessThanWellFounded, WFMin
<1>3. k \in Nat /\ \A j \in S : j <= k
  BY <1>2
<1>4. k \in S
  <2> SUFFICES ASSUME k \notin S PROVE FALSE
    OBVIOUS
  <2>1. ASSUME NEW j \in S PROVE j \in Nat /\ j < k
    <3>1. j \in 0..n /\ j <= k /\ j # k
      BY <1>3
    <3> QED BY <1>3, <3>1
  <2>2. k > 0 /\ k - 1 \in Nat /\ k - 1 < k
    <3>1. PICK j : j \in S
      OBVIOUS
    <3> QED BY <1>3, <2>1, <3>1
  <2>3. k - 1 \in A
    BY <2>1, <2>2, <1>3
  <2> HIDE DEF A
  <2> QED BY <1>2, <1>3, <2>2, <2>3 DEF OpToRel
<1> HIDE DEF A
<1>5. \E m \in S : \A j \in S : j <= m
  BY <1>3, <1>4
<1> QED BY <1>5

\* A token leaves tags, one more at the most.
LEMMA AfterType ==
    ASSUME NEW tags \in Seq(Tags), NEW tok \in Tokens
    PROVE  /\ After(tags, tok) \in Seq(Tags)
           /\ tok \in Tags => After(tags, tok) = Append(tags, tok)
           /\ tok \notin Tags => Len(After(tags, tok)) <= Len(tags)
<1> DEFINE K == { k \in DOMAIN tags : tags[k] = Opened(tok) }
           last == CHOOSE k \in K : \A j \in K : j <= k
<1>1. CASE tok \in Tags
  <2>1. After(tags, tok) = Append(tags, tok)
    BY <1>1, TokenKinds DEF After
  <2>2. Append(tags, tok) \in Seq(Tags)
    BY <1>1
  <2> QED BY <1>1, <2>1, <2>2
<1>2. CASE tok \notin Tags /\ tok \in Closing /\ K # {}
  <2>1. After(tags, tok) = RemoveAt(tags, last)
    BY <1>2 DEF After
  <2>2. Len(tags) \in Nat /\ K \subseteq 0..Len(tags) /\ K \subseteq 1..Len(tags)
    OBVIOUS
  <2>3. last \in K
    <3> HIDE DEF K
    <3> QED BY <1>2, <2>2, Greatest
  <2>4. last \in 1..Len(tags)
    BY <2>2, <2>3
  <2> HIDE DEF last, K
  <2>5. /\ SubSeq(tags, 1, last - 1) \in Seq(Tags) /\ Len(SubSeq(tags, 1, last - 1)) = last - 1
        /\ SubSeq(tags, last + 1, Len(tags)) \in Seq(Tags)
        /\ Len(SubSeq(tags, last + 1, Len(tags))) = Len(tags) - last
    BY <2>2, <2>4
  <2>6. /\ RemoveAt(tags, last) \in Seq(Tags) /\ Len(RemoveAt(tags, last)) = Len(tags) - 1
    <3> DEFINE p == SubSeq(tags, 1, last - 1)
               q == SubSeq(tags, last + 1, Len(tags))
    <3>1. RemoveAt(tags, last) = p \o q
      BY DEF RemoveAt
    <3>2. p \in Seq(Tags) /\ Len(p) = last - 1 /\ q \in Seq(Tags) /\ Len(q) = Len(tags) - last
      BY <2>5
    <3> HIDE DEF p, q
    <3>3. p \o q \in Seq(Tags) /\ Len(p \o q) = Len(p) + Len(q)
      BY <3>2
    <3> QED BY <2>2, <2>4, <3>1, <3>2, <3>3
  <2> QED BY <1>2, <2>1, <2>2, <2>6
<1>3. CASE tok \notin Tags /\ ~ (tok \in Closing /\ K # {})
  <2>1. After(tags, tok) = tags
    BY <1>3 DEF After
  <2> QED BY <1>3, <2>1
<1> QED BY <1>1, <1>2, <1>3

\* Closing the last tag takes it away.
LEMMA AfterClosed ==
    ASSUME NEW tags \in Seq(Tags), NEW m \in 1..Len(tags)
    PROVE  After(SubSeq(tags, 1, m), Closes[tags[m]]) = SubSeq(tags, 1, m - 1)
<1> DEFINE s == SubSeq(tags, 1, m)
           tok == Closes[tags[m]]
           K == { k \in DOMAIN s : s[k] = Opened(tok) }
           last == CHOOSE k \in K : \A j \in K : j <= k
<1>1. m \in Nat /\ m >= 1 /\ s \in Seq(Tags) /\ Len(s) = m /\ s[m] = tags[m] /\ tags[m] \in Tags /\ DOMAIN s = 1..m
  OBVIOUS
<1>2. tok \in Closing /\ tok \notin Tags /\ Opened(tok) = tags[m]
  BY <1>1, TokenKinds
<1> HIDE DEF s, tok
<1>3. m \in K /\ K \subseteq 0..m
  BY <1>1, <1>2
<1>4. last \in K /\ \A j \in K : j <= last
  <2> HIDE DEF K
  <2> QED BY <1>1, <1>3, Greatest
<1>5. last = m
  BY <1>1, <1>3, <1>4
<1>6. After(s, tok) = RemoveAt(s, m)
  BY <1>2, <1>3, <1>5 DEF After
<1> HIDE DEF last, K
<1>7. RemoveAt(s, m) = SubSeq(s, 1, m - 1) \o SubSeq(s, m + 1, m)
  BY <1>1 DEF RemoveAt
<1>8. SubSeq(s, m + 1, m) = << >> /\ SubSeq(s, 1, m - 1) \in Seq(Tags)
  BY <1>1
<1>9. RemoveAt(s, m) = SubSeq(s, 1, m - 1)
  BY <1>7, <1>8
<1>10. SubSeq(s, 1, m - 1) = SubSeq(tags, 1, m - 1)
  BY <1>1 DEF s
<1> QED BY <1>6, <1>9, <1>10 DEF s, tok

\* Size and applyHTMLTags as readings.
SizeStep == [n \in Nat |-> [tok \in Tokens |-> n + Wide(tok)]]
TagsStep == [tags \in Seq(Tags) |-> [tok \in Tokens |-> After(tags, tok)]]

\* Counting bytes is a reading.
LEMMA SizeSteps ==
    /\ SizeStep \in StepsFor(Nat, Tokens) /\ 0 \in Nat
    /\ \A s : Size(s) = Through(SizeStep, 0, s)
<1>1. \A n \in Nat, tok \in Tokens : n + Wide(tok) \in Nat
  <2> SUFFICES ASSUME NEW n \in Nat, NEW tok \in Tokens PROVE n + Wide(tok) \in Nat
    OBVIOUS
  <2>1. Wide(tok) \in { 1, 2 }
    BY TokenKinds
  <2> QED BY <2>1
<1> QED BY <1>1 DEF SizeStep, StepsFor, Size

\* A width is a number, and that of a text the sum of those of its parts.
LEMMA SizeType == ASSUME NEW s \in Seq(Tokens) PROVE Size(s) \in Nat
  BY SizeSteps, ThroughType

\* The count after each token.
LEMMA SizeReads ==
    ASSUME NEW s \in Seq(Tokens)
    PROVE  \E f : Reads(f, SizeStep, Nat, 0, s) /\ Size(s) = f[Len(s)]
<1>1. SizeStep \in StepsFor(Nat, Tokens) /\ 0 \in Nat
  BY SizeSteps
<1>2. PICK f : Reads(f, SizeStep, Nat, 0, s) /\ Through(SizeStep, 0, s) = f[Len(s)]
  BY <1>1, ThroughReads
<1> QED BY <1>2, SizeSteps

\* A count, however it is told, ends with that of Through.
LEMMA SizeEnds ==
    ASSUME NEW a \in Nat, NEW s \in Seq(Tokens), NEW f, Reads(f, SizeStep, Nat, a, s)
    PROVE  Through(SizeStep, a, s) = f[Len(s)]
<1> DEFINE X == Nat
           Y == Tokens
<1>1. SizeStep \in StepsFor(X, Y) /\ a \in X /\ s \in Seq(Y) /\ Reads(f, SizeStep, X, a, s)
  BY SizeSteps
<1> HIDE DEF X, Y
<1> QED BY <1>1, ReadsEnd

\* What was counted before only adds.
LEMMA SizeFrom ==
    ASSUME NEW a \in Nat, NEW s \in Seq(Tokens)
    PROVE  Through(SizeStep, a, s) = a + Size(s)
<1> DEFINE n == Len(s)
<1>1. PICK f : Reads(f, SizeStep, Nat, 0, s) /\ Size(s) = f[n]
  BY SizeReads
<1>2. n \in Nat /\ \A i \in 1..n : s[i] \in Tokens
  OBVIOUS
<1>3. f \in [0..n -> Nat] /\ f[0] = 0 /\ \A i \in 1..n : f[i] = SizeStep[f[i - 1]][s[i]]
  BY <1>1 DEF Reads
<1> HIDE DEF n
<1> DEFINE h == [i \in 0..n |-> a + f[i]]
<1>4. h \in [0..n -> Nat] /\ h[0] = a
  BY <1>2, <1>3
<1>5. ASSUME NEW i \in 1..n PROVE h[i] = SizeStep[h[i - 1]][s[i]]
  <2>1. i \in 0..n /\ i - 1 \in 0..n
    BY <1>2
  <2>2. f[i - 1] \in Nat /\ h[i - 1] \in Nat /\ h[i - 1] = a + f[i - 1] /\ h[i] = a + f[i]
    BY <1>3, <1>4, <2>1
  <2>3. s[i] \in Tokens /\ Wide(s[i]) \in { 1, 2 }
    BY <1>2, TokenKinds
  <2> HIDE DEF h
  <2>4. f[i] = f[i - 1] + Wide(s[i])
    BY <1>3, <2>2, <2>3 DEF SizeStep
  <2>5. SizeStep[h[i - 1]][s[i]] = h[i - 1] + Wide(s[i])
    BY <2>2, <2>3 DEF SizeStep
  <2> QED BY <2>2, <2>3, <2>4, <2>5
<1> HIDE DEF h
<1>6. Reads(h, SizeStep, Nat, a, s)
  BY <1>4, <1>5 DEF Reads, n
<1>7. Through(SizeStep, a, s) = h[n]
  BY <1>6, SizeEnds DEF n
<1>8. n \in 0..n
  BY <1>2
<1> QED BY <1>1, <1>7, <1>8 DEF h

\* The width of a text in two parts is the sum of theirs.
LEMMA SizeBoth ==
    ASSUME NEW s \in Seq(Tokens), NEW t \in Seq(Tokens)
    PROVE  Size(s \o t) = Size(s) + Size(t)
<1>1. Size(s \o t) = Through(SizeStep, Through(SizeStep, 0, s), t)
  <2>1. SizeStep \in StepsFor(Nat, Tokens) /\ 0 \in Nat
    BY SizeSteps
  <2>2. Through(SizeStep, 0, s \o t) = Through(SizeStep, Through(SizeStep, 0, s), t)
    BY <2>1, ThroughBoth
  <2> QED BY <2>2, SizeSteps
<1>2. Through(SizeStep, 0, s) = Size(s) /\ Size(s) \in Nat
  BY SizeSteps, SizeType
<1> QED BY <1>1, <1>2, SizeFrom

\* A text of tags and entities is twice as wide as long.
LEMMA SizeTwo ==
    ASSUME NEW s \in Seq(Tokens), \A i \in 1..Len(s) : Wide(s[i]) = 2
    PROVE  Size(s) = 2 * Len(s)
<1> DEFINE n == Len(s)
           f == [i \in 0..n |-> 2 * i]
<1>1. n \in Nat /\ \A i \in 1..n : s[i] \in Tokens
  OBVIOUS
<1>2. \A i \in 1..n : Wide(s[i]) = 2
  OBVIOUS
<1> HIDE DEF n
<1>3. f \in [0..n -> Nat] /\ f[0] = 0
  BY <1>1
<1>4. ASSUME NEW i \in 1..n PROVE f[i] = SizeStep[f[i - 1]][s[i]]
  <2>1. i \in 0..n /\ i - 1 \in 0..n /\ i \in Nat /\ f[i - 1] = 2 * (i - 1) /\ f[i - 1] \in Nat /\ f[i] = 2 * i
    BY <1>1
  <2> HIDE DEF f
  <2>2. SizeStep[f[i - 1]][s[i]] = f[i - 1] + Wide(s[i])
    BY <1>1, <2>1 DEF SizeStep
  <2>3. Wide(s[i]) = 2
    BY <1>2
  <2> QED BY <2>1, <2>2, <2>3
<1> HIDE DEF f
<1>5. Reads(f, SizeStep, Nat, 0, s)
  BY <1>3, <1>4 DEF Reads, n
<1>6. Through(SizeStep, 0, s) = f[n]
  BY <1>5, SizeEnds DEF n
<1>7. n \in 0..n
  BY <1>1
<1>8. f[n] = 2 * n
  BY <1>7 DEF f
<1> QED BY <1>6, <1>8, SizeSteps DEF n

\* The width of one token.
LEMMA SizeOne ==
    ASSUME NEW tok \in Tokens
    PROVE  << tok >> \in Seq(Tokens) /\ Size(<< tok >>) = Wide(tok)
<1> DEFINE s == << tok >>
           f == [i \in 0..1 |-> IF i = 0 THEN 0 ELSE Wide(tok)]
<1>1. s \in Seq(Tokens) /\ Len(s) = 1 /\ s[1] = tok
  OBVIOUS
<1>2. Wide(tok) \in { 1, 2 }
  BY TokenKinds
<1>3. f \in [0..1 -> Nat] /\ f[0] = 0 /\ f[1] = Wide(tok)
  BY <1>2
<1>4. SizeStep[0][tok] = Wide(tok)
  <2>1. SizeStep[0][tok] = 0 + Wide(tok)
    BY DEF SizeStep
  <2> QED BY <1>2, <2>1
<1> HIDE DEF s, f
<1>5. Reads(f, SizeStep, Nat, 0, s)
  <2>1. \A i \in 1..1 : f[i] = SizeStep[f[i - 1]][s[i]]
    <3>1. \A i \in 1..1 : i = 1
      OBVIOUS
    <3>2. 1 - 1 = 0
      OBVIOUS
    <3>3. f[1] = SizeStep[f[1 - 1]][s[1]]
      BY <1>1, <1>3, <1>4, <3>2
    <3> QED BY <3>1, <3>3
  <2> QED BY <1>1, <1>3, <2>1 DEF Reads
<1>6. Through(SizeStep, 0, s) = f[1]
  <2>1. Through(SizeStep, 0, s) = f[Len(s)]
    BY <1>1, <1>5, SizeEnds
  <2> QED BY <1>1, <2>1
<1> QED BY <1>1, <1>3, <1>6, SizeSteps DEF s

\* One token is one step.
LEMMA ThroughOne ==
    ASSUME NEW X, NEW Y, NEW step \in StepsFor(X, Y), NEW b \in X, NEW y \in Y
    PROVE  Through(step, b, << y >>) = step[b][y]
<1> DEFINE s == << y >>
<1>1. s \in Seq(Y) /\ Len(s) = 1 /\ s[1] = y
  OBVIOUS
<1> HIDE DEF s
<1>2. PICK f : Reads(f, step, X, b, s) /\ Through(step, b, s) = f[Len(s)]
  BY <1>1, ThroughReads
<1>3. f[0] = b /\ f[1] = step[f[1 - 1]][s[1]] /\ 1 - 1 = 0
  BY <1>1, <1>2 DEF Reads
<1> QED BY <1>1, <1>2, <1>3 DEF s

-----------------------------------------------------------------------------
\* Reading tags.
LEMMA TagsSteps ==
    /\ TagsStep \in StepsFor(Seq(Tags), Tokens) /\ << >> \in Seq(Tags)
    /\ \A tags, s : applyHTMLTags(tags, s) = Through(TagsStep, tags, s)
<1>1. \A tags \in Seq(Tags), tok \in Tokens : After(tags, tok) \in Seq(Tags)
  BY AfterType
<1> QED BY <1>1 DEF TagsStep, StepsFor, applyHTMLTags

\* The tags open after each token.
LEMMA TagsReads ==
    ASSUME NEW tags \in Seq(Tags), NEW s \in Seq(Tokens)
    PROVE  \E f : Reads(f, TagsStep, Seq(Tags), tags, s) /\ applyHTMLTags(tags, s) = f[Len(s)]
<1>1. TagsStep \in StepsFor(Seq(Tags), Tokens)
  BY TagsSteps
<1>2. PICK f : Reads(f, TagsStep, Seq(Tags), tags, s) /\ Through(TagsStep, tags, s) = f[Len(s)]
  BY <1>1, ThroughReads
<1> QED BY <1>2, TagsSteps

\* They end with those of applyHTMLTags.
LEMMA TagsEnds ==
    ASSUME NEW tags \in Seq(Tags), NEW s \in Seq(Tokens), NEW f, Reads(f, TagsStep, Seq(Tags), tags, s)
    PROVE  applyHTMLTags(tags, s) = f[Len(s)]
<1> DEFINE X == Seq(Tags)
           Y == Tokens
<1>1. TagsStep \in StepsFor(X, Y) /\ tags \in X /\ s \in Seq(Y) /\ Reads(f, TagsStep, X, tags, s)
  BY TagsSteps
<1> HIDE DEF X, Y
<1>2. Through(TagsStep, tags, s) = f[Len(s)]
  BY <1>1, ReadsEnd
<1> QED BY <1>2, TagsSteps

\* The tags open after a text: of a text in two parts, of none, of one token.
LEMMA TagsType ==
    ASSUME NEW tags \in Seq(Tags), NEW s \in Seq(Tokens)
    PROVE  applyHTMLTags(tags, s) \in Seq(Tags)
<1>1. PICK f : Reads(f, TagsStep, Seq(Tags), tags, s) /\ applyHTMLTags(tags, s) = f[Len(s)]
  BY TagsReads
<1>2. Len(s) \in 0..Len(s)
  OBVIOUS
<1> QED BY <1>1, <1>2 DEF Reads

\* A text in two parts, the tags of the first open for the second.
LEMMA TagsBoth ==
    ASSUME NEW tags \in Seq(Tags), NEW s \in Seq(Tokens), NEW t \in Seq(Tokens)
    PROVE  applyHTMLTags(tags, s \o t) = applyHTMLTags(applyHTMLTags(tags, s), t)
<1> DEFINE X == Seq(Tags)
           Y == Tokens
<1>1. TagsStep \in StepsFor(X, Y) /\ tags \in X /\ s \in Seq(Y) /\ t \in Seq(Y)
  BY TagsSteps
<1> HIDE DEF X, Y
<1>2. Through(TagsStep, tags, s \o t) = Through(TagsStep, Through(TagsStep, tags, s), t)
  BY <1>1, ThroughBoth
<1> QED BY <1>2, TagsSteps

\* No token opens no tag.
LEMMA TagsNone ==
    ASSUME NEW tags \in Seq(Tags)
    PROVE  applyHTMLTags(tags, << >>) = tags
<1> DEFINE X == Seq(Tags)
           Y == Tokens
<1>1. TagsStep \in StepsFor(X, Y) /\ tags \in X
  BY TagsSteps
<1> HIDE DEF X, Y
<1>2. Through(TagsStep, tags, << >>) = tags
  BY <1>1, ThroughNone
<1> QED BY <1>2, TagsSteps

\* One token is one turn of applyHTMLTags.
LEMMA TagsOne ==
    ASSUME NEW tags \in Seq(Tags), NEW tok \in Tokens
    PROVE  applyHTMLTags(tags, << tok >>) = After(tags, tok)
<1> DEFINE X == Seq(Tags)
           Y == Tokens
<1>1. TagsStep \in StepsFor(X, Y) /\ tags \in X /\ tok \in Y
  BY TagsSteps
<1>2. TagsStep[tags][tok] = After(tags, tok)
  BY DEF TagsStep
<1> HIDE DEF X, Y
<1>3. Through(TagsStep, tags, << tok >>) = TagsStep[tags][tok]
  BY <1>1, ThroughOne
<1> QED BY <1>2, <1>3, TagsSteps

\* Reopening gives the open tags back.
LEMMA OpenBack ==
    ASSUME NEW tags \in Seq(Tags)
    PROVE  tags \in Seq(Tokens) /\ applyHTMLTags(<< >>, tags) = tags
<1> DEFINE n == Len(tags)
           f == [i \in 0..n |-> SubSeq(tags, 1, i)]
<1>1. n \in Nat /\ \A i \in 1..n : tags[i] \in Tags /\ tags[i] \in Tokens
  BY TokenKinds
<1>2. tags \in Seq(Tokens)
  BY <1>1
<1>3. f \in [0..n -> Seq(Tags)] /\ f[0] = << >>
  OBVIOUS
<1>4. ASSUME NEW i \in 1..n PROVE f[i] = TagsStep[f[i - 1]][tags[i]]
  <2>1. i \in 0..n /\ i - 1 \in 0..n /\ f[i] = SubSeq(tags, 1, i) /\ f[i - 1] = SubSeq(tags, 1, i - 1)
    BY <1>1
  <2>2. SubSeq(tags, 1, i) = Append(SubSeq(tags, 1, i - 1), tags[i]) /\ SubSeq(tags, 1, i - 1) \in Seq(Tags)
    BY <1>1
  <2> HIDE DEF f
  <2>3. TagsStep[f[i - 1]][tags[i]] = After(f[i - 1], tags[i])
    BY <1>1, <2>1, <2>2 DEF TagsStep
  <2>4. After(f[i - 1], tags[i]) = Append(f[i - 1], tags[i])
    BY <1>1, <2>1, <2>2, AfterType
  <2> QED BY <2>1, <2>2, <2>3, <2>4
<1> HIDE DEF f
<1>5. << >> \in Seq(Tags) /\ Reads(f, TagsStep, Seq(Tags), << >>, tags)
  BY <1>3, <1>4 DEF Reads, n
<1>6. applyHTMLTags(<< >>, tags) = f[n]
  BY <1>2, <1>5, TagsEnds DEF n
<1>7. f[n] = SubSeq(tags, 1, n) /\ SubSeq(tags, 1, n) = tags
  BY <1>1 DEF f, n
<1> QED BY <1>2, <1>6, <1>7

\* closeHTML closes what is open, in as many tokens.
LEMMA CloseBack ==
    ASSUME NEW tags \in Seq(Tags)
    PROVE  /\ closeHTML(tags) \in Seq(Tokens) /\ Len(closeHTML(tags)) = Len(tags)
           /\ \A i \in 1..Len(tags) : closeHTML(tags)[i] \in Closing
           /\ applyHTMLTags(tags, closeHTML(tags)) = << >>
<1> DEFINE n == Len(tags)
           c == closeHTML(tags)
           f == [i \in 0..n |-> SubSeq(tags, 1, n - i)]
<1>1. n \in Nat /\ DOMAIN tags = 1..n /\ \A i \in 1..n : tags[i] \in Tags
  OBVIOUS
<1>2. Len(c) = n /\ c = [i \in 1..n |-> Closes[tags[n - i + 1]]]
  <2> DEFINE d == [i \in DOMAIN tags |-> Closes[tags[i]]]
  <2>1. d = [i \in 1..n |-> Closes[tags[i]]] /\ Len(d) = n
    BY <1>1
  <2>2. c = [i \in 1..n |-> d[n - i + 1]]
    BY <2>1 DEF closeHTML, Reverse
  <2>3. \A i \in 1..n : n - i + 1 \in 1..n
    BY <1>1
  <2>4. \A i \in 1..n : d[n - i + 1] = Closes[tags[n - i + 1]]
    BY <2>1, <2>3
  <2> HIDE DEF d
  <2> QED BY <1>1, <2>2, <2>4
<1>3. \A i \in 1..n : n - i + 1 \in 1..n /\ c[i] = Closes[tags[n - i + 1]] /\ c[i] \in Closing /\ c[i] \in Tokens
  <2> SUFFICES ASSUME NEW i \in 1..n
               PROVE  n - i + 1 \in 1..n /\ c[i] = Closes[tags[n - i + 1]] /\ c[i] \in Closing /\ c[i] \in Tokens
    OBVIOUS
  <2>1. n - i + 1 \in 1..n
    BY <1>1
  <2>2. c[i] = Closes[tags[n - i + 1]]
    BY <1>2
  <2>3. tags[n - i + 1] \in Tags
    BY <1>1, <2>1
  <2> QED BY <2>1, <2>2, <2>3, TokenKinds
<1> HIDE DEF c
<1>4. c \in Seq(Tokens)
  <2>1. c \in [1..n -> Tokens]
    BY <1>2, <1>3
  <2> HIDE DEF n
  <2> QED BY <1>1, <2>1
<1>5. f \in [0..n -> Seq(Tags)] /\ f[0] = tags /\ f[n] = << >>
  <2>1. \A i \in 0..n : SubSeq(tags, 1, n - i) \in Seq(Tags)
    BY <1>1
  <2>2. SubSeq(tags, 1, n - 0) = tags /\ SubSeq(tags, 1, n - n) = << >>
    BY <1>1
  <2>3. 0 \in 0..n /\ n \in 0..n
    BY <1>1
  <2> QED BY <2>1, <2>2, <2>3
<1>6. ASSUME NEW i \in 1..n PROVE f[i] = TagsStep[f[i - 1]][c[i]]
  <2> DEFINE m == n - i + 1
  <2>1. m \in 1..n /\ n - (i - 1) = m /\ n - i = m - 1 /\ i \in 0..n /\ i - 1 \in 0..n
    BY <1>1
  <2>2. f[i] = SubSeq(tags, 1, m - 1) /\ f[i - 1] = SubSeq(tags, 1, m)
    BY <2>1
  <2>3. c[i] = Closes[tags[m]] /\ c[i] \in Tokens
    BY <1>3
  <2> HIDE DEF f, m
  <2>4. f[i - 1] \in Seq(Tags)
    BY <1>5, <2>1
  <2>5. TagsStep[f[i - 1]][c[i]] = After(f[i - 1], c[i])
    BY <2>3, <2>4 DEF TagsStep
  <2>6. After(SubSeq(tags, 1, m), Closes[tags[m]]) = SubSeq(tags, 1, m - 1)
    BY <2>1, AfterClosed DEF n
  <2> QED BY <2>2, <2>3, <2>5, <2>6
<1> HIDE DEF f
<1>7. Reads(f, TagsStep, Seq(Tags), tags, c)
  BY <1>2, <1>5, <1>6 DEF Reads
<1>8. applyHTMLTags(tags, c) = f[Len(c)]
  BY <1>4, <1>7, TagsEnds
<1> QED BY <1>2, <1>3, <1>4, <1>5, <1>8 DEF c, n

\* Marking as a reading: the tags open, and what was seen.
MarkStates == [tags : Seq(Tags), seen : Marks]
MarkStep == [r \in MarkStates |-> [tok \in Tokens |-> Mark(r, tok)]]

\* A token marked, or passed over.
LEMMA MarkType ==
    ASSUME NEW r \in MarkStates, NEW tok \in Tokens
    PROVE  Mark(r, tok) \in MarkStates
<1>1. r.tags \in Seq(Tags) /\ r.seen \in Marks
  BY DEF MarkStates
<1>2. After(r.tags, tok) \in Seq(Tags)
  BY <1>1, AfterType
<1>3. tok \in Visible => Append(r.seen, << tok, r.tags >>) \in Marks
  <2> DEFINE e == << tok, r.tags >>
             E == Visible \X Seq(Tags)
  <2>1. tok \in Visible => e \in E
    BY <1>1
  <2>2. r.seen \in Seq(E)
    BY <1>1 DEF Marks
  <2> HIDE DEF e, E
  <2>3. tok \in Visible => Append(r.seen, e) \in Seq(E)
    BY <2>1, <2>2
  <2> QED BY <2>3 DEF e, E, Marks
<1> QED BY <1>1, <1>2, <1>3 DEF Mark, MarkStates

\* MarkedFrom is what that reading has seen.
LEMMA MarkSteps ==
    /\ MarkStep \in StepsFor(MarkStates, Tokens) /\ << >> \in Marks
    /\ \A tags, s : MarkedFrom(tags, s) = Through(MarkStep, [tags |-> tags, seen |-> << >>], s).seen
<1>1. << >> \in Marks
  BY DEF Marks
<1> QED BY <1>1, MarkType DEF MarkStep, StepsFor, MarkedFrom, MarkStates

\* The marks after each token.
LEMMA MarkReads ==
    ASSUME NEW r \in MarkStates, NEW s \in Seq(Tokens)
    PROVE  \E f : Reads(f, MarkStep, MarkStates, r, s) /\ Through(MarkStep, r, s) = f[Len(s)]
<1>1. MarkStep \in StepsFor(MarkStates, Tokens)
  BY MarkSteps
<1> QED BY <1>1, ThroughReads

\* They end with those of Through.
LEMMA MarkEnds ==
    ASSUME NEW r \in MarkStates, NEW s \in Seq(Tokens), NEW f, Reads(f, MarkStep, MarkStates, r, s)
    PROVE  Through(MarkStep, r, s) = f[Len(s)]
<1> DEFINE X == MarkStates
           Y == Tokens
<1>1. MarkStep \in StepsFor(X, Y) /\ r \in X /\ s \in Seq(Y) /\ Reads(f, MarkStep, X, r, s)
  BY MarkSteps
<1> HIDE DEF X, Y
<1> QED BY <1>1, ReadsEnd

\* What is marked first stays in front of the marks of a text, and the tags are
\* those of applyHTMLTags.
LEMMA MarkedShift ==
    ASSUME NEW tags \in Seq(Tags), NEW m \in Marks, NEW s \in Seq(Tokens)
    PROVE  /\ MarkedFrom(tags, s) \in Marks
           /\ Through(MarkStep, [tags |-> tags, seen |-> m], s) =
                 [tags |-> applyHTMLTags(tags, s), seen |-> m \o MarkedFrom(tags, s)]
<1> DEFINE n == Len(s)
           r0 == [tags |-> tags, seen |-> << >>]
           r1 == [tags |-> tags, seen |-> m]
<1>1. r0 \in MarkStates /\ r1 \in MarkStates /\ r0.tags = tags /\ r0.seen = << >>
  BY MarkSteps DEF MarkStates
<1>2. PICK f : Reads(f, MarkStep, MarkStates, r0, s) /\ Through(MarkStep, r0, s) = f[n]
  <2> HIDE DEF r0
  <2> QED BY <1>1, MarkReads
<1>3. PICK g : Reads(g, TagsStep, Seq(Tags), tags, s) /\ applyHTMLTags(tags, s) = g[n]
  BY TagsReads
<1>4. MarkedFrom(tags, s) = f[n].seen
  BY <1>2, MarkSteps
<1>5. n \in Nat /\ \A i \in 1..n : s[i] \in Tokens
  OBVIOUS
<1> HIDE DEF r0
<1>6. /\ f \in [0..n -> MarkStates] /\ f[0] = r0 /\ \A i \in 1..n : f[i] = MarkStep[f[i - 1]][s[i]]
      /\ g \in [0..n -> Seq(Tags)] /\ g[0] = tags /\ \A i \in 1..n : g[i] = TagsStep[g[i - 1]][s[i]]
  BY <1>2, <1>3 DEF Reads
<1> HIDE DEF n
<1>7. ASSUME NEW i \in 1..n
      PROVE  /\ i \in 0..n /\ i - 1 \in 0..n /\ f[i - 1] \in MarkStates /\ s[i] \in Tokens
             /\ f[i] = Mark(f[i - 1], s[i])
             /\ g[i] = After(g[i - 1], s[i])
  <2>1. i \in 0..n /\ i - 1 \in 0..n
    BY <1>5
  <2>2. f[i - 1] \in MarkStates /\ g[i - 1] \in Seq(Tags)
    BY <1>6, <2>1
  <2>3. MarkStep[f[i - 1]][s[i]] = Mark(f[i - 1], s[i])
    BY <1>5, <2>2 DEF MarkStep
  <2>4. TagsStep[g[i - 1]][s[i]] = After(g[i - 1], s[i])
    BY <1>5, <2>2 DEF TagsStep
  <2> QED BY <1>5, <1>6, <2>1, <2>2, <2>3, <2>4
<1> DEFINE S == { i \in 0..n : f[i].tags = g[i] }
<1>8. 0 \in S
  BY <1>1, <1>5, <1>6
<1>9. ASSUME NEW i \in 1..n, i - 1 \in S PROVE i \in S
  <2>1. f[i].tags = After(f[i - 1].tags, s[i])
    <3> DEFINE a == f[i - 1]
               tok == s[i]
    <3>1. f[i] = Mark(a, tok)
      BY <1>7
    <3> HIDE DEF a, tok
    <3>2. f[i].tags = After(a.tags, tok)
      BY <3>1 DEF Mark
    <3> QED BY <3>2 DEF a, tok
  <2> QED BY <1>7, <1>9, <2>1
<1>10. \A i \in 0..n : f[i].tags = g[i]
  <2> HIDE DEF S
  <2>1. \A i \in 0..n : i \in S
    BY <1>5, <1>8, <1>9, Along
  <2> QED BY <2>1 DEF S
<1> HIDE DEF S
<1> DEFINE h == [i \in 0..n |-> [tags |-> f[i].tags, seen |-> m \o f[i].seen]]
<1>11. ASSUME NEW i \in 0..n
       PROVE  h[i].tags = f[i].tags /\ h[i].seen = m \o f[i].seen /\ h[i] \in MarkStates /\ f[i].seen \in Marks
  <2>1. f[i].tags \in Seq(Tags) /\ f[i].seen \in Marks
    BY <1>6 DEF MarkStates
  <2>2. m \o f[i].seen \in Marks
    BY <2>1 DEF Marks
  <2> QED BY <2>1, <2>2 DEF MarkStates
<1>12. h \in [0..n -> MarkStates] /\ h[0] = r1
  <2>1. \A i \in 0..n : h[i] \in MarkStates
    BY <1>11
  <2>2. h \in [0..n -> MarkStates]
    BY <2>1
  <2>3. m \o << >> = m /\ 0 \in 0..n
    BY <1>5 DEF Marks
  <2>4. h[0] = [tags |-> tags, seen |-> m \o << >>]
    BY <1>1, <1>6, <2>3
  <2> QED BY <2>2, <2>3, <2>4
<1>13. ASSUME NEW i \in 1..n PROVE h[i] = MarkStep[h[i - 1]][s[i]]
  <2> DEFINE a == f[i - 1]
             b == h[i - 1]
             tok == s[i]
  <2>1. i \in 0..n /\ i - 1 \in 0..n /\ tok \in Tokens /\ f[i] = Mark(a, tok)
    BY <1>7
  <2>2. b.tags = a.tags /\ b.seen = m \o a.seen /\ b \in MarkStates /\ a.seen \in Marks
    BY <1>11, <2>1
  <2>3. h[i] = [tags |-> f[i].tags, seen |-> m \o f[i].seen]
    BY <2>1
  <2> HIDE DEF h
  <2>4. MarkStep[b][tok] = Mark(b, tok)
    BY <2>1, <2>2 DEF MarkStep
  <2> HIDE DEF a, b, tok
  <2>5. f[i].tags = After(a.tags, tok)
    BY <2>1 DEF Mark
  <2>6. f[i].seen = IF tok \in Visible THEN Append(a.seen, << tok, a.tags >>) ELSE a.seen
    BY <2>1 DEF Mark
  <2>7. m \o Append(a.seen, << tok, a.tags >>) = Append(m \o a.seen, << tok, a.tags >>)
    <3> DEFINE e == << tok, a.tags >>
               p == a.seen
    <3>1. m \in Seq(Range(m) \cup Range(p) \cup { e }) /\ p \in Seq(Range(m) \cup Range(p) \cup { e })
      <4>1. p \in Marks
        BY <2>2
      <4> HIDE DEF p, e
      <4> QED BY <4>1 DEF Marks, Range
    <3> HIDE DEF e, p
    <3>2. m \o Append(p, e) = Append(m \o p, e)
      BY <3>1
    <3> QED BY <3>2 DEF e, p
  <2>8. Mark(b, tok) = [tags |-> f[i].tags, seen |-> m \o f[i].seen]
    BY <2>2, <2>5, <2>6, <2>7 DEF Mark
  <2> QED BY <2>3, <2>4, <2>8 DEF b, tok
<1>14. Reads(h, MarkStep, MarkStates, r1, s)
  <2> HIDE DEF h, r1
  <2> QED BY <1>12, <1>13 DEF Reads, n
<1>15. Through(MarkStep, r1, s) = h[n]
  <2> HIDE DEF h, r1
  <2> QED BY <1>1, <1>14, MarkEnds DEF n
<1>16. n \in 0..n
  BY <1>5
<1>17. h[n] = [tags |-> g[n], seen |-> m \o f[n].seen] /\ f[n].seen \in Marks
  BY <1>10, <1>11, <1>16
<1> QED BY <1>3, <1>4, <1>15, <1>17

\* Marks are tokens, each with its tags.
LEMMA MarkedType ==
    ASSUME NEW tags \in Seq(Tags), NEW s \in Seq(Tokens)
    PROVE  MarkedFrom(tags, s) \in Marks
BY MarkSteps, MarkedShift

\* The marks of a text in two parts.
LEMMA MarkedBoth ==
    ASSUME NEW tags \in Seq(Tags), NEW s \in Seq(Tokens), NEW t \in Seq(Tokens)
    PROVE  MarkedFrom(tags, s \o t) = MarkedFrom(tags, s) \o MarkedFrom(applyHTMLTags(tags, s), t)
<1> DEFINE X == MarkStates
           Y == Tokens
           r == [tags |-> tags, seen |-> << >>]
           open1 == applyHTMLTags(tags, s)
           m == MarkedFrom(tags, s)
<1>1. MarkStep \in StepsFor(X, Y) /\ r \in X /\ s \in Seq(Y) /\ t \in Seq(Y) /\ << >> \in Marks
  BY MarkSteps DEF MarkStates
<1>2. Through(MarkStep, r, s \o t) = Through(MarkStep, Through(MarkStep, r, s), t)
  <2> HIDE DEF X, Y, r
  <2> QED BY <1>1, ThroughBoth
<1>3. Through(MarkStep, r, s) = [tags |-> open1, seen |-> << >> \o m] /\ m \in Marks
  <2> HIDE DEF m, open1
  <2> QED BY <1>1, MarkedShift DEF m, open1
<1>4. << >> \o m = m /\ open1 \in Seq(Tags)
  <2>1. m \in Marks
    BY <1>3
  <2> HIDE DEF m
  <2> QED BY <2>1, TagsType DEF Marks
<1>5. Through(MarkStep, r, s) = [tags |-> open1, seen |-> m]
  BY <1>3, <1>4
<1>6. Through(MarkStep, [tags |-> open1, seen |-> m], t).seen = m \o MarkedFrom(open1, t)
  <2>1. m \in Marks /\ open1 \in Seq(Tags)
    BY <1>3, <1>4
  <2> HIDE DEF m, open1
  <2>2. Through(MarkStep, [tags |-> open1, seen |-> m], t) =
           [tags |-> applyHTMLTags(open1, t), seen |-> m \o MarkedFrom(open1, t)]
    BY <2>1, MarkedShift
  <2> QED BY <2>2
<1>7. MarkedFrom(tags, s \o t) = Through(MarkStep, r, s \o t).seen
  BY MarkSteps
<1> QED BY <1>2, <1>5, <1>6, <1>7

\* A text without visible tokens has no marks.
LEMMA MarkedBlind ==
    ASSUME NEW tags \in Seq(Tags), NEW s \in Seq(Tokens), htmlVisibleEmpty(s)
    PROVE  MarkedFrom(tags, s) = << >>
<1> DEFINE n == Len(s)
           r == [tags |-> tags, seen |-> << >>]
<1>1. PICK g : Reads(g, TagsStep, Seq(Tags), tags, s) /\ applyHTMLTags(tags, s) = g[n]
  BY TagsReads
<1>2. n \in Nat /\ \A i \in 1..n : s[i] \in Tokens /\ s[i] \notin Visible
  BY DEF htmlVisibleEmpty
<1>3. r \in MarkStates
  BY MarkSteps DEF MarkStates
<1>4. g \in [0..n -> Seq(Tags)] /\ g[0] = tags /\ \A i \in 1..n : g[i] = TagsStep[g[i - 1]][s[i]]
  BY <1>1 DEF Reads
<1> HIDE DEF n
<1> DEFINE h == [i \in 0..n |-> [tags |-> g[i], seen |-> << >>]]
<1>5. h \in [0..n -> MarkStates] /\ h[0] = r
  <2>1. \A i \in 0..n : [tags |-> g[i], seen |-> << >>] \in MarkStates
    BY <1>4, MarkSteps DEF MarkStates
  <2> QED BY <1>2, <1>4, <2>1
<1>6. ASSUME NEW i \in 1..n PROVE h[i] = MarkStep[h[i - 1]][s[i]]
  <2> DEFINE a == h[i - 1]
             tok == s[i]
  <2>1. i \in 0..n /\ i - 1 \in 0..n /\ tok \in Tokens /\ tok \notin Visible
    BY <1>2
  <2>2. a = [tags |-> g[i - 1], seen |-> << >>] /\ a \in MarkStates /\ g[i - 1] \in Seq(Tags)
    BY <1>4, <1>5, <2>1
  <2>3. h[i] = [tags |-> g[i], seen |-> << >>]
    BY <2>1
  <2>4. g[i] = After(g[i - 1], tok)
    BY <1>4, <2>1, <2>2 DEF TagsStep
  <2>5. a.tags = g[i - 1] /\ a.seen = << >>
    BY <2>2
  <2> HIDE DEF h, a, tok
  <2>6. MarkStep[a][tok] = Mark(a, tok)
    BY <2>1, <2>2 DEF MarkStep
  <2>7. Mark(a, tok) = [tags |-> After(a.tags, tok), seen |-> a.seen]
    BY <2>1 DEF Mark
  <2>8. MarkStep[a][tok] = h[i]
    BY <2>3, <2>4, <2>5, <2>6, <2>7
  <2> QED BY <2>8 DEF a, tok
<1> HIDE DEF h, r
<1>7. Reads(h, MarkStep, MarkStates, r, s)
  BY <1>5, <1>6 DEF Reads, n
<1>8. Through(MarkStep, r, s) = h[n]
  BY <1>3, <1>7, MarkEnds DEF n
<1>9. n \in 0..n
  BY <1>2
<1>10. h[n].seen = << >>
  BY <1>9 DEF h
<1>11. MarkedFrom(tags, s) = Through(MarkStep, r, s).seen
  BY MarkSteps DEF r
<1> QED BY <1>8, <1>10, <1>11

\* What a piece shows: the tags it reopens and those it closes show nothing.
LEMMA PieceShows ==
    ASSUME NEW tags \in Seq(Tags), NEW s \in Seq(Tokens)
    PROVE  LET c == closeHTML(applyHTMLTags(tags, s))
           IN  /\ Marked(tags \o s) = MarkedFrom(tags, s)
               /\ Marked(tags \o s \o c) = MarkedFrom(tags, s)
               /\ applyHTMLTags(<< >>, tags \o s) = applyHTMLTags(tags, s)
               /\ applyHTMLTags(<< >>, tags \o s \o c) = << >>
               /\ tags \o s \in Seq(Tokens) /\ tags \o s \o c \in Seq(Tokens)
<1> DEFINE now1 == applyHTMLTags(tags, s)
           c == closeHTML(now1)
           u == tags \o s
<1>1. tags \in Seq(Tokens) /\ applyHTMLTags(<< >>, tags) = tags /\ << >> \in Seq(Tags) /\ now1 \in Seq(Tags)
  BY OpenBack, TagsSteps, TagsType
<1>2. c \in Seq(Tokens) /\ applyHTMLTags(now1, c) = << >> /\ htmlVisibleEmpty(c)
  <2>1. now1 \in Seq(Tags)
    BY <1>1
  <2> HIDE DEF now1
  <2>2. c \in Seq(Tokens) /\ applyHTMLTags(now1, c) = << >> /\ Len(c) = Len(now1) /\ \A i \in 1..Len(now1) : c[i] \in Closing
    BY <2>1, CloseBack
  <2> HIDE DEF c
  <2>3. DOMAIN c = 1..Len(now1)
    BY <2>2
  <2> QED BY <2>2, <2>3, TokenKinds DEF htmlVisibleEmpty
<1>3. htmlVisibleEmpty(tags)
  <2>1. \A i \in DOMAIN tags : tags[i] \in Tags
    OBVIOUS
  <2> QED BY <2>1, TokenKinds DEF htmlVisibleEmpty
<1>4. u \in Seq(Tokens) /\ applyHTMLTags(<< >>, u) = now1
  <2> DEFINE none == << >>
  <2>1. none \in Seq(Tags) /\ tags \in Seq(Tokens) /\ applyHTMLTags(none, tags) = tags /\ u \in Seq(Tokens)
    BY <1>1
  <2> HIDE DEF none
  <2>2. applyHTMLTags(none, tags \o s) = applyHTMLTags(applyHTMLTags(none, tags), s)
    BY <2>1, TagsBoth
  <2> QED BY <2>1, <2>2 DEF none
<1>5. MarkedFrom(<< >>, u) = MarkedFrom(tags, s) /\ MarkedFrom(tags, s) \in Marks
  <2>1. MarkedFrom(<< >>, tags) = << >>
    BY <1>1, <1>3, MarkedBlind
  <2>2. MarkedFrom(<< >>, u) = MarkedFrom(<< >>, tags) \o MarkedFrom(tags, s)
    <3> DEFINE none == << >>
    <3>1. none \in Seq(Tags) /\ tags \in Seq(Tokens) /\ applyHTMLTags(none, tags) = tags
      BY <1>1
    <3> HIDE DEF none
    <3>2. MarkedFrom(none, tags \o s) = MarkedFrom(none, tags) \o MarkedFrom(applyHTMLTags(none, tags), s)
      BY <3>1, MarkedBoth
    <3> QED BY <3>1, <3>2 DEF none
  <2>3. MarkedFrom(tags, s) \in Marks
    BY MarkedType
  <2> DEFINE m == MarkedFrom(tags, s)
  <2>4. m \in Marks
    BY <2>3
  <2> HIDE DEF m
  <2>5. << >> \o m = m
    BY <2>4 DEF Marks
  <2> QED BY <2>1, <2>2, <2>3, <2>5 DEF m
<1> HIDE DEF c, now1, u
<1>6. u \o c \in Seq(Tokens) /\ applyHTMLTags(<< >>, u \o c) = << >>
  <2>1. applyHTMLTags(<< >>, u \o c) = applyHTMLTags(applyHTMLTags(<< >>, u), c)
    BY <1>1, <1>2, <1>4, TagsBoth
  <2> QED BY <1>2, <1>4, <2>1
<1>7. MarkedFrom(<< >>, u \o c) = MarkedFrom(tags, s)
  <2>1. MarkedFrom(<< >>, u \o c) = MarkedFrom(<< >>, u) \o MarkedFrom(now1, c)
    BY <1>1, <1>2, <1>4, MarkedBoth
  <2>2. MarkedFrom(now1, c) = << >>
    BY <1>1, <1>2, MarkedBlind
  <2> DEFINE m == MarkedFrom(tags, s)
  <2>3. m \in Marks /\ MarkedFrom(<< >>, u) = m
    BY <1>5
  <2> HIDE DEF m
  <2>4. m \o << >> = m
    BY <2>3 DEF Marks
  <2> QED BY <2>1, <2>2, <2>3, <2>4 DEF m
<1> QED BY <1>4, <1>5, <1>6, <1>7 DEF Marked, c, now1, u

-----------------------------------------------------------------------------
\* Shown as a reading of pieces.
PieceStep == [m \in Marks |-> [piece \in Seq(Tokens) |-> m \o Marked(piece)]]

\* A piece adds its marks.
LEMMA PieceSteps ==
    /\ PieceStep \in StepsFor(Marks, Seq(Tokens)) /\ << >> \in Marks
    /\ \A pieces : Shown(pieces) = Through(PieceStep, << >>, pieces)
<1>1. ASSUME NEW m \in Marks, NEW piece \in Seq(Tokens) PROVE m \o Marked(piece) \in Marks
  <2> DEFINE q == Marked(piece)
  <2>1. q \in Marks
    BY TagsSteps, MarkedType DEF Marked
  <2> HIDE DEF q
  <2>2. m \o q \in Marks
    BY <2>1 DEF Marks
  <2> QED BY <2>2 DEF q
<1> QED BY <1>1, MarkSteps DEF PieceStep, StepsFor, Shown

\* What no piece, and what one more piece shows.
LEMMA ShownMore ==
    ASSUME NEW pieces \in Seq(Seq(Tokens)), NEW piece \in Seq(Tokens)
    PROVE  /\ Shown(<< >>) = << >>
           /\ Shown(pieces) \in Marks
           /\ Shown(Append(pieces, piece)) = Shown(pieces) \o Marked(piece)
<1> DEFINE X == Marks
           Y == Seq(Tokens)
           one == << piece >>
           b == << >>
<1>1. PieceStep \in StepsFor(X, Y) /\ b \in X /\ pieces \in Seq(Y) /\ piece \in Y
  BY PieceSteps
<1>2. Append(pieces, piece) = pieces \o one /\ one \in Seq(Y)
  OBVIOUS
<1> HIDE DEF b, X, Y
<1>3. Through(PieceStep, b, << >>) = b
  BY <1>1, ThroughNone
<1>4. Through(PieceStep, b, pieces) \in X
  BY <1>1, ThroughType
<1> DEFINE m == Through(PieceStep, b, pieces)
<1>5. Through(PieceStep, b, pieces \o one) = Through(PieceStep, m, one)
  <2> HIDE DEF one
  <2> QED BY <1>1, <1>2, ThroughBoth
<1>6. Through(PieceStep, m, one) = PieceStep[m][piece]
  <2>1. m \in X
    BY <1>4
  <2> HIDE DEF m
  <2> QED BY <1>1, <2>1, ThroughOne
<1>7. PieceStep[m][piece] = m \o Marked(piece)
  <2>1. m \in Marks
    BY <1>4 DEF X
  <2> HIDE DEF m
  <2> QED BY <2>1 DEF PieceStep
<1> QED BY <1>2, <1>3, <1>4, <1>5, <1>6, <1>7, PieceSteps DEF b, X

-----------------------------------------------------------------------------
\* No text is deeper than the agent writes, nowhere.
Deep(s) == \A n \in 0..Len(s) : Len(applyHTMLTags(<< >>, SubSeq(s, 1, n))) <= MaxDepth

\* The text is what was cut off and the rest; the pieces show what was cut off.
Halves(done) ==
    /\ done \in Seq(Tokens) /\ rest \in Seq(Tokens) /\ rest # << >>
    /\ text = done \o rest /\ open = applyHTMLTags(<< >>, done)
    /\ Shown(chunks) = Marked(done)

\* What Telegram takes: within the limit, its tags closed.
Taken(p) == Size(p) <= (IF p = text THEN Limit ELSE limit) /\ applyHTMLTags(<< >>, p) = << >>

\* The text is no deeper than the agent writes, each piece is one Telegram takes,
\* and they show what was cut off so far.
SplitInv ==
    /\ text \in Seq(Tokens) /\ Deep(text) /\ how \in { "send", "edit" } /\ ~ broken
    /\ chunks \in Seq(Seq(Tokens)) /\ \A i \in DOMAIN chunks : Taken(chunks[i])
    /\ phase = "writing" => chunks = << >> /\ open = << >>
    /\ phase = "splitting" => applyHTMLTags(<< >>, text) = << >> /\ \E done : Halves(done)
    /\ phase = "done" => IF how = "send" THEN Shown(chunks) = Marked(text)
                                         ELSE IsPrefix(Shown(chunks), Marked(text))

\* The limit is a number, and leaves room for the deepest token.
LEMMA LimitRoom == limit \in Int /\ limit <= Limit /\ limit >= 4 * MaxDepth + 2 /\ Limit \in Nat /\ MaxDepth \in Nat
  BY SplitAssumption DEF limit

\* Tags take two bytes each, to reopen as to close.
LEMMA TagsWide ==
    ASSUME NEW tags \in Seq(Tags)
    PROVE  Size(tags) = 2 * Len(tags) /\ Size(closeHTML(tags)) = 2 * Len(tags) /\ Len(tags) \in Nat
<1>1. tags \in Seq(Tokens) /\ \A i \in 1..Len(tags) : tags[i] \in Tags
  BY OpenBack
<1>2. \A i \in 1..Len(tags) : Wide(tags[i]) = 2
  BY <1>1, TokenKinds
<1>3. Size(tags) = 2 * Len(tags)
  BY <1>1, <1>2, SizeTwo
<1> DEFINE c == closeHTML(tags)
<1>4. c \in Seq(Tokens) /\ Len(c) = Len(tags) /\ \A i \in 1..Len(tags) : c[i] \in Closing
  BY CloseBack
<1> HIDE DEF c
<1>5. \A i \in 1..Len(c) : Wide(c[i]) = 2
  BY <1>4, TokenKinds
<1>6. Size(c) = 2 * Len(c)
  BY <1>4, <1>5, SizeTwo
<1>7. Len(tags) \in Nat
  OBVIOUS
<1> QED BY <1>3, <1>4, <1>6, <1>7 DEF c

\* Whatever is cut off next, no more tags are open than the agent writes.
LEMMA DepthAt ==
    ASSUME NEW done, Halves(done), Deep(text), NEW k \in 0..Len(rest)
    PROVE  /\ Upto(k) \in Seq(Tokens) /\ open \in Seq(Tags)
           /\ applyHTMLTags(open, Upto(k)) \in Seq(Tags)
           /\ Len(applyHTMLTags(open, Upto(k))) <= MaxDepth
<1> DEFINE u == Upto(k)
<1>1. done \in Seq(Tokens) /\ rest \in Seq(Tokens) /\ text = done \o rest /\ open = applyHTMLTags(<< >>, done)
  BY DEF Halves
<1>2. u \in Seq(Tokens)
  BY <1>1 DEF Upto
<1>3. open \in Seq(Tags)
  BY <1>1, TagsSteps, TagsType
<1>4. Len(done) + k \in 0..Len(text) /\ SubSeq(text, 1, Len(done) + k) = done \o u
  BY <1>1 DEF Upto
<1> HIDE DEF u
<1>5. applyHTMLTags(<< >>, done \o u) = applyHTMLTags(open, u)
  <2> DEFINE none == << >>
  <2>1. none \in Seq(Tags) /\ open = applyHTMLTags(none, done)
    BY <1>1
  <2> HIDE DEF none
  <2>2. applyHTMLTags(none, done \o u) = applyHTMLTags(applyHTMLTags(none, done), u)
    BY <1>1, <1>2, <2>1, TagsBoth
  <2> QED BY <2>1, <2>2 DEF none
<1>6. Len(applyHTMLTags(<< >>, SubSeq(text, 1, Len(done) + k))) <= MaxDepth
  BY <1>4 DEF Deep
<1>7. applyHTMLTags(open, u) \in Seq(Tags)
  BY <1>2, <1>3, TagsType
<1> QED BY <1>2, <1>3, <1>4, <1>5, <1>6, <1>7 DEF u

\* One token fits, with the tags reopened and closed.
LEMMA OneFits ==
    ASSUME NEW done, Halves(done), Deep(text)
    PROVE  /\ FitsAt(1) /\ 1 \in 0..Len(rest) /\ Len(rest) \in Nat
           /\ Size(Upto(1)) <= limit - Size(open) - Size(closeHTML(open))
<1>1. rest \in Seq(Tokens) /\ Len(rest) \in Nat /\ Len(rest) >= 1 /\ 1 \in 0..Len(rest) /\ 0 \in 0..Len(rest)
  BY DEF Halves
<1> DEFINE tags == applyHTMLTags(open, Upto(1))
<1>2. Upto(1) \in Seq(Tokens) /\ open \in Seq(Tags) /\ tags \in Seq(Tags) /\ Len(tags) <= MaxDepth
  BY <1>1, DepthAt
<1>3. Len(open) <= MaxDepth
  <2>1. Upto(0) = << >>
    BY <1>1 DEF Upto
  <2>2. Len(applyHTMLTags(open, << >>)) <= MaxDepth
    BY <1>1, <2>1, DepthAt
  <2>3. applyHTMLTags(open, << >>) = open
    BY <1>2, TagsNone
  <2> QED BY <2>2, <2>3
<1>4. Upto(1) = << rest[1] >> /\ rest[1] \in Tokens
  <2> DEFINE u == SubSeq(rest, 1, 1)
             v == << rest[1] >>
  <2>1. rest[1] \in Tokens
    BY <1>1
  <2>2. u \in Seq(Tokens) /\ Len(u) = 1 /\ u[1] = rest[1]
    BY <1>1
  <2>3. v \in Seq(Tokens) /\ Len(v) = 1 /\ v[1] = rest[1]
    BY <2>1
  <2> HIDE DEF u, v
  <2>4. \A i \in 1..Len(u) : u[i] = v[i]
    <3>1. \A i \in 1..1 : i = 1
      OBVIOUS
    <3> QED BY <2>2, <2>3, <3>1
  <2>5. u = v
    BY <2>2, <2>3, <2>4, SeqEqual
  <2> QED BY <2>1, <2>5 DEF u, v, Upto
<1>5. Size(Upto(1)) \in { 1, 2 }
  BY <1>4, SizeOne, TokenKinds
<1>6. Size(open) = 2 * Len(open) /\ Size(closeHTML(open)) = 2 * Len(open) /\ Len(open) \in Nat
  BY <1>2, TagsWide
<1> HIDE DEF tags
<1>7. Size(closeHTML(tags)) = 2 * Len(tags) /\ Len(tags) \in Nat
  BY <1>2, TagsWide
<1>8. Size(open) + Size(Upto(1)) + Size(closeHTML(tags)) <= limit
  BY <1>2, <1>3, <1>5, <1>6, <1>7, LimitRoom
<1>9. Size(Upto(1)) <= limit - Size(open) - Size(closeHTML(open))
  BY <1>3, <1>5, <1>6, LimitRoom
<1> QED BY <1>1, <1>8, <1>9 DEF FitsAt, tags

\* A cut before a newline is still a cut.
LEMMA BoundaryType ==
    ASSUME NEW k \in 1..Len(rest), Len(rest) \in Nat
    PROVE  Boundary(k) \in 1..k
<1> DEFINE N == { j \in 2..k : rest[j] = "nl" }
           last == CHOOSE j \in N : \A i \in N : i <= j
<1>1. CASE N = {}
  BY <1>1 DEF Boundary
<1>2. CASE N # {}
  <2>1. k \in Nat /\ N \subseteq 0..k
    OBVIOUS
  <2>2. last \in N
    <3> HIDE DEF N
    <3> QED BY <1>2, <2>1, Greatest
  <2>3. Boundary(k) = last - 1
    BY <1>2 DEF Boundary
  <2>4. last \in 2..k
    BY <2>2
  <2> HIDE DEF last
  <2> QED BY <2>1, <2>3, <2>4
<1> QED BY <1>1, <1>2

\* The first cut takes one token at least.
LEMMA FirstCutType ==
    ASSUME NEW done, Halves(done), Deep(text)
    PROVE  FirstCut \in 1..Len(rest)
<1> DEFINE room == limit - Size(open) - Size(closeHTML(open))
           least == IF room < 1 THEN 1 ELSE room
           K == { k \in 0..Len(rest) : Size(Upto(k)) <= least }
           last == CHOOSE k \in K : \A j \in K : j <= k
<1>1. 1 \in 0..Len(rest) /\ Len(rest) \in Nat /\ Size(Upto(1)) <= room
  BY OneFits
<1>2. room \in Int /\ Size(Upto(1)) \in Nat
  <2>1. open \in Seq(Tags) /\ Upto(1) \in Seq(Tokens)
    BY <1>1, DepthAt
  <2>2. Size(open) \in Int /\ Size(closeHTML(open)) \in Int
    BY <2>1, TagsWide
  <2> QED BY <2>1, <2>2, SizeType, LimitRoom
<1> HIDE DEF room
<1>3. Size(Upto(1)) <= least
  BY <1>1, <1>2
<1> HIDE DEF least
<1>4. 1 \in K /\ K \subseteq 0..Len(rest)
  BY <1>1, <1>3
<1>5. last \in K /\ \A j \in K : j <= last
  <2> HIDE DEF K
  <2> QED BY <1>1, <1>4, Greatest
<1>6. last \in 1..Len(rest)
  <2>1. 1 <= last /\ last \in 0..Len(rest)
    BY <1>4, <1>5
  <2> HIDE DEF last
  <2> QED BY <1>1, <2>1
<1>7. FirstCut = Boundary(last)
  BY DEF FirstCut, room, least
<1> HIDE DEF last
<1>8. Boundary(last) \in 1..last
  BY <1>1, <1>6, BoundaryType
<1> QED BY <1>1, <1>6, <1>7, <1>8

\* One turn of the loop that shrinks a cut leaves a cut, one that fits or a lower one.
LEMMA ShrunkType ==
    ASSUME NEW done, Halves(done), Deep(text), NEW k \in 1..Len(rest)
    PROVE  /\ Shrunk(k) \in 1..Len(rest)
           /\ FitsAt(k) => Shrunk(k) = k
           /\ FitsAt(Shrunk(k)) \/ Shrunk(k) <= k - 1
<1>1. FitsAt(1) /\ Len(rest) \in Nat
  BY OneFits
<1>2. CASE k <= 1 \/ FitsAt(k)
  <2>1. Shrunk(k) = k
    BY <1>2 DEF Shrunk
  <2>2. k = 1 \/ FitsAt(k)
    BY <1>1, <1>2
  <2> QED BY <1>1, <2>1, <2>2
<1>3. CASE ~ (k <= 1 \/ FitsAt(k))
  <2>1. k - 1 \in 1..Len(rest) /\ k \in Nat
    BY <1>1, <1>3
  <2>2. Boundary(k - 1) \in 1..(k - 1)
    BY <1>1, <2>1, BoundaryType
  <2>3. Shrunk(k) = Boundary(k - 1)
    BY <1>3 DEF Shrunk
  <2> QED BY <1>1, <1>3, <2>1, <2>2, <2>3
<1> QED BY <1>2, <1>3

\* The cut that is made fits.
LEMMA CutFits ==
    ASSUME NEW done, Halves(done), Deep(text)
    PROVE  Cut \in 1..Len(rest) /\ FitsAt(Cut)
<1> DEFINE n == Len(rest)
           X == 1..n
           F == CHOOSE h : h = [i \in 0..n |-> IF i = 0 THEN FirstCut ELSE Shrunk(h[i - 1])]
           g == [i \in 1..n |-> [k \in X |-> Shrunk(k)]]
<1>1. Cut = F[n]
  BY DEF Cut
<1>2. n \in Nat /\ FirstCut \in X
  BY FirstCutType, OneFits
<1>3. \A k \in X : Shrunk(k) \in X /\ (FitsAt(k) => Shrunk(k) = k) /\ (FitsAt(Shrunk(k)) \/ Shrunk(k) <= k - 1)
  BY ShrunkType
<1> HIDE DEF n
<1>4. g \in StepsOn(n, X)
  BY <1>3 DEF StepsOn
<1>5. PICK f : Follows(f, n, X, FirstCut, g)
  <2> HIDE DEF g, X
  <2> QED BY <1>2, <1>4, StepsExist
<1>6. f \in [0..n -> X] /\ f[0] = FirstCut /\ \A i \in 1..n : f[i] = Shrunk(f[i - 1])
  <2>1. f \in [0..n -> X] /\ f[0] = FirstCut /\ \A i \in 1..n : f[i] = g[i][f[i - 1]]
    BY <1>5 DEF Follows
  <2>2. \A i \in 1..n : f[i - 1] \in X
    BY <1>2, <2>1
  <2> QED BY <2>1, <2>2
<1> HIDE DEF g
<1>7. f = [i \in 0..n |-> IF i = 0 THEN FirstCut ELSE Shrunk(f[i - 1])]
  <2>1. \A i \in 0..n : f[i] = IF i = 0 THEN FirstCut ELSE Shrunk(f[i - 1])
    BY <1>2, <1>6
  <2> QED BY <1>6, <2>1
<1>8. F = [i \in 0..n |-> IF i = 0 THEN FirstCut ELSE Shrunk(F[i - 1])]
  BY <1>7
<1> HIDE DEF F
<1>9. F[0] = FirstCut /\ \A i \in 1..n : F[i] = Shrunk(F[i - 1])
  <2>1. \A i \in 0..n : F[i] = IF i = 0 THEN FirstCut ELSE Shrunk(F[i - 1])
    BY <1>8
  <2>2. 0 \in 0..n /\ \A i \in 1..n : i \in 0..n /\ i # 0
    BY <1>2
  <2> QED BY <2>1, <2>2, Zenon
<1> DEFINE S == { i \in 0..n : F[i] \in X /\ (FitsAt(F[i]) \/ F[i] <= n - i) }
<1>10. 0 \in S
  BY <1>2, <1>9
<1>11. ASSUME NEW i \in 1..n, i - 1 \in S PROVE i \in S
  <2> DEFINE k == F[i - 1]
  <2>1. k \in X /\ (FitsAt(k) \/ k <= n - (i - 1)) /\ i \in 0..n /\ i \in Nat
    BY <1>2, <1>11
  <2>2. F[i] = Shrunk(k)
    BY <1>9
  <2> HIDE DEF k
  <2>3. Shrunk(k) \in X /\ (FitsAt(k) => Shrunk(k) = k) /\ (FitsAt(Shrunk(k)) \/ Shrunk(k) <= k - 1)
    BY <1>3, <2>1
  <2>4. FitsAt(Shrunk(k)) \/ Shrunk(k) <= n - i
    <3>1. CASE FitsAt(k)
      BY <2>3, <3>1
    <3>2. CASE ~ FitsAt(k)
      BY <1>2, <2>1, <2>3, <3>2
    <3> QED BY <3>1, <3>2
  <2> QED BY <2>1, <2>2, <2>3, <2>4
<1>12. n \in S
  <2> HIDE DEF S
  <2>1. \A i \in 0..n : i \in S
    BY <1>2, <1>10, <1>11, Along
  <2>2. n \in 0..n
    BY <1>2
  <2> QED BY <2>1, <2>2
<1>13. F[n] \in X /\ (FitsAt(F[n]) \/ F[n] <= n - n)
  BY <1>12 DEF S
<1>14. FitsAt(F[n])
  BY <1>2, <1>13
<1> QED BY <1>1, <1>13, <1>14 DEF n

-----------------------------------------------------------------------------
\* Nothing is written yet.
LEMMA SplitInvInit == SplitInit => SplitInv
<1> SUFFICES ASSUME SplitInit PROVE SplitInv
  OBVIOUS
<1> USE DEF SplitInit
<1>1. text = << >> /\ text \in Seq(Tokens) /\ Len(text) = 0 /\ chunks = << >> /\ chunks \in Seq(Seq(Tokens)) /\ DOMAIN chunks = {}
  OBVIOUS
<1>2. Deep(text)
  <2>1. \A n \in 0..Len(text) : n = 0
    BY <1>1
  <2>2. SubSeq(text, 1, 0) = << >>
    BY <1>1
  <2>3. applyHTMLTags(<< >>, << >>) = << >>
    BY TagsSteps, TagsNone
  <2>4. Len(<< >>) = 0 /\ 0 <= MaxDepth
    BY LimitRoom
  <2> QED BY <2>1, <2>2, <2>3, <2>4 DEF Deep
<1>3. phase = "writing" /\ phase # "splitting" /\ phase # "done"
  OBVIOUS
<1> QED BY <1>1, <1>2, <1>3 DEF SplitInv

\* A token written keeps the text as deep as may be.
LEMMA WriteDeep ==
    ASSUME NEW s \in Seq(Tokens), Deep(s), NEW tok \in Tokens,
           tok \in Tags => Len(applyHTMLTags(<< >>, s)) < MaxDepth
    PROVE  Deep(Append(s, tok))
<1> DEFINE t == Append(s, tok)
           m == Len(s)
           tags == applyHTMLTags(<< >>, s)
<1>1. m \in Nat /\ t \in Seq(Tokens) /\ Len(t) = m + 1 /\ t = s \o << tok >>
  OBVIOUS
<1>2. SubSeq(t, 1, m + 1) = t /\ \A n \in 0..m : SubSeq(t, 1, n) = SubSeq(s, 1, n)
  OBVIOUS
<1>3. tags \in Seq(Tags) /\ Len(tags) \in Nat /\ Len(tags) <= MaxDepth
  <2>1. SubSeq(s, 1, m) = s /\ m \in 0..m
    BY <1>1
  <2>2. tags \in Seq(Tags)
    BY TagsSteps, TagsType
  <2>3. Len(tags) <= MaxDepth
    BY <2>1 DEF Deep
  <2> HIDE DEF tags
  <2> QED BY <2>2, <2>3
<1>4. applyHTMLTags(<< >>, t) = After(tags, tok)
  <2> DEFINE none == << >>
             one == << tok >>
  <2>1. none \in Seq(Tags) /\ one \in Seq(Tokens) /\ tags = applyHTMLTags(none, s) /\ t = s \o one
    BY TagsSteps, SizeOne, <1>1
  <2> HIDE DEF none, one, tags
  <2>2. applyHTMLTags(none, s \o one) = applyHTMLTags(applyHTMLTags(none, s), one)
    BY <2>1, TagsBoth
  <2>3. applyHTMLTags(tags, one) = After(tags, tok)
    BY <1>3, TagsOne DEF one
  <2> QED BY <2>1, <2>2, <2>3 DEF none
<1>5. Len(After(tags, tok)) <= MaxDepth
  <2>1. tok \in Tags => Len(tags) < MaxDepth
    OBVIOUS
  <2> HIDE DEF tags
  <2>2. After(tags, tok) \in Seq(Tags) /\ (tok \in Tags => After(tags, tok) = Append(tags, tok))
        /\ (tok \notin Tags => Len(After(tags, tok)) <= Len(tags))
    BY <1>3, AfterType
  <2>3. CASE tok \in Tags
    <3>1. Len(Append(tags, tok)) = Len(tags) + 1
      BY <1>3, <2>3
    <3> QED BY <1>3, <2>1, <2>2, <2>3, <3>1, LimitRoom
  <2>4. CASE tok \notin Tags
    <3>1. Len(After(tags, tok)) \in Nat
      BY <2>2
    <3> QED BY <1>3, <2>2, <2>4, <3>1, LimitRoom
  <2> QED BY <2>3, <2>4
<1>6. ASSUME NEW n \in 0..Len(t) PROVE Len(applyHTMLTags(<< >>, SubSeq(t, 1, n))) <= MaxDepth
  <2>1. n \in 0..m \/ n = m + 1
    BY <1>1
  <2>2. CASE n \in 0..m
    BY <1>2, <2>2 DEF Deep
  <2>3. CASE n = m + 1
    <3>1. SubSeq(t, 1, n) = t
      BY <1>2, <2>3
    <3> HIDE DEF t
    <3> QED BY <1>4, <1>5, <3>1
  <2> QED BY <2>1, <2>2, <2>3
<1> QED BY <1>6 DEF Deep

\* What is said first is the head of all that is said.
LEMMA HeadOf ==
    ASSUME NEW E, NEW s \in Seq(E), NEW t \in Seq(E)
    PROVE  IsPrefix(s, s \o t) /\ IsPrefix(s, s)
<1>1. Len(s) <= Len(s \o t) /\ SubSeq(s, 1, Len(s)) = s /\ SubSeq(s \o t, 1, Len(s)) = s
  OBVIOUS
<1> QED BY <1>1 DEF IsPrefix

\* What is cut off joins what was: the text is that and what is left, and shows
\* what the two show.
LEMMA CutMore ==
    ASSUME NEW done, Halves(done), Deep(text), NEW k \in 1..Len(rest)
    PROVE  LET u == Upto(k)
               left == SubSeq(rest, k + 1, Len(rest))
           IN  /\ u \in Seq(Tokens) /\ left \in Seq(Tokens) /\ done \o u \in Seq(Tokens)
               /\ text = (done \o u) \o left
               /\ NewOpen(k) = applyHTMLTags(<< >>, done \o u) /\ NewOpen(k) \in Seq(Tags)
               /\ Marked(done \o u) = Marked(done) \o MarkedFrom(open, u)
               /\ Marked(text) = Marked(done \o u) \o MarkedFrom(NewOpen(k), left)
<1> DEFINE u == Upto(k)
           left == SubSeq(rest, k + 1, Len(rest))
           none == << >>
<1>1. done \in Seq(Tokens) /\ rest \in Seq(Tokens) /\ text = done \o rest /\ open = applyHTMLTags(none, done)
  BY DEF Halves
<1>2. u \in Seq(Tokens) /\ left \in Seq(Tokens) /\ rest = u \o left /\ done \o u \in Seq(Tokens)
  BY <1>1 DEF Upto
<1>3. text = (done \o u) \o left
  <2> HIDE DEF u, left
  <2> QED BY <1>1, <1>2
<1>4. none \in Seq(Tags) /\ open \in Seq(Tags)
  BY <1>1, TagsSteps, TagsType
<1>5. NewOpen(k) = applyHTMLTags(open, u)
  BY DEF NewOpen
<1> HIDE DEF u, left, none
<1>6. applyHTMLTags(none, done \o u) = applyHTMLTags(open, u) /\ applyHTMLTags(open, u) \in Seq(Tags)
  BY <1>1, <1>2, <1>4, TagsBoth, TagsType
<1>7. MarkedFrom(none, done \o u) = MarkedFrom(none, done) \o MarkedFrom(open, u)
  BY <1>1, <1>2, <1>4, MarkedBoth
<1>8. MarkedFrom(none, (done \o u) \o left) = MarkedFrom(none, done \o u) \o MarkedFrom(NewOpen(k), left)
  <2> DEFINE w == done \o u
  <2>1. w \in Seq(Tokens) /\ applyHTMLTags(none, w) = NewOpen(k)
    BY <1>2, <1>5, <1>6
  <2> HIDE DEF w
  <2>2. MarkedFrom(none, w \o left) = MarkedFrom(none, w) \o MarkedFrom(applyHTMLTags(none, w), left)
    BY <1>2, <1>4, <2>1, MarkedBoth
  <2> QED BY <2>1, <2>2 DEF w
<1> QED BY <1>2, <1>3, <1>5, <1>6, <1>7, <1>8 DEF u, left, none, Marked

\* A piece that is kept adds what it shows, one that is not shows nothing.
LEMMA PieceKept ==
    ASSUME chunks \in Seq(Seq(Tokens)), \A i \in DOMAIN chunks : Taken(chunks[i]),
           NEW p \in Seq(Tokens), Taken(p), Piece(p), text' = text, how' = how
    PROVE  /\ chunks' \in Seq(Seq(Tokens))
           /\ (\A i \in DOMAIN chunks : Taken(chunks[i]))'
           /\ Shown(chunks') = Shown(chunks) \o Marked(p)
<1>1. limit' = limit
  BY DEF limit
<1>2. Shown(chunks) \in Marks /\ Shown(Append(chunks, p)) = Shown(chunks) \o Marked(p)
  BY ShownMore
<1>3. CASE htmlVisibleEmpty(p)
  <2>1. chunks' = chunks
    BY <1>3 DEF Piece
  <2>2. Marked(p) = << >>
    BY <1>3, MarkedBlind, TagsSteps DEF Marked
  <2>3. Shown(chunks) \o << >> = Shown(chunks)
    <3> DEFINE m == Shown(chunks)
    <3>1. m \in Marks
      BY <1>2
    <3> HIDE DEF m
    <3>2. m \o << >> = m
      BY <3>1 DEF Marks
    <3> QED BY <3>2 DEF m
  <2>4. (\A i \in DOMAIN chunks : Taken(chunks[i]))'
    BY <1>1, <2>1 DEF Taken
  <2> QED BY <2>1, <2>2, <2>3, <2>4
<1>4. CASE ~ htmlVisibleEmpty(p)
  <2>1. chunks' = Append(chunks, p)
    BY <1>4 DEF Piece
  <2>2. chunks' \in Seq(Seq(Tokens))
    BY <2>1
  <2>3. ASSUME NEW i \in DOMAIN chunks' PROVE Taken(chunks'[i])
    <3>1. (i \in DOMAIN chunks /\ chunks'[i] = chunks[i]) \/ chunks'[i] = p
      BY <2>1
    <3> QED BY <3>1
  <2>4. (\A i \in DOMAIN chunks : Taken(chunks[i]))'
    BY <1>1, <2>3 DEF Taken
  <2> QED BY <1>2, <2>1, <2>2, <2>4
<1> QED BY <1>3, <1>4

-----------------------------------------------------------------------------
\* A token written.
LEMMA WriteKeeps == ASSUME SplitInv, NEW tok \in Tokens, WriteToken(tok) PROVE SplitInv'
<1>1. text \in Seq(Tokens) /\ Deep(text) /\ phase = "writing" /\ chunks = << >> /\ open = << >>
      /\ how \in { "send", "edit" } /\ ~ broken
  BY DEF SplitInv, WriteToken
<1>2. text' = Append(text, tok) /\ UNCHANGED << phase, how, rest, open, chunks, broken >>
      /\ (tok \in Tags => Len(applyHTMLTags(<< >>, text)) < MaxDepth)
  BY DEF WriteToken
<1>3. text' \in Seq(Tokens)
  BY <1>1, <1>2
<1>4. Deep(text')
  <2>1. Deep(Append(text, tok))
    BY <1>1, <1>2, WriteDeep
  <2> QED BY <1>2, <2>1
<1>5. Deep(text)'
  BY <1>4 DEF Deep
<1>6. chunks' = << >> /\ DOMAIN chunks' = {} /\ chunks' \in Seq(Seq(Tokens)) /\ open' = << >>
  BY <1>1, <1>2
<1>7. phase' = "writing" /\ phase' # "splitting" /\ phase' # "done"
  BY <1>1, <1>2
<1>8. how' \in { "send", "edit" } /\ ~ broken'
  BY <1>1, <1>2
<1> QED BY <1>3, <1>5, <1>6, <1>7, <1>8 DEF SplitInv

\* A text that fits is one piece as it is; the splitting of another begins with
\* nothing cut off.
LEMMA StartKeeps ==
    ASSUME SplitInv, NEW purpose \in { "send", "edit" }, StartSplit(purpose)
    PROVE  SplitInv'
<1>1. text \in Seq(Tokens) /\ Deep(text) /\ ~ broken /\ chunks = << >> /\ open = << >>
      /\ applyHTMLTags(<< >>, text) = << >> /\ text # << >> /\ how' \in { "send", "edit" }
      /\ UNCHANGED << text, open, broken >>
  BY DEF SplitInv, StartSplit
<1>2. Deep(text)' /\ text' \in Seq(Tokens) /\ ~ broken' /\ how' \in { "send", "edit" }
  BY <1>1 DEF Deep
<1>3. Shown(<< >>) = << >> /\ Shown(<< text >>) = Marked(text) /\ Marked(text) \in Marks
  <2> DEFINE none == << >>
  <2>1. none \in Seq(Seq(Tokens)) /\ Append(none, text) = << text >>
    BY <1>1
  <2> HIDE DEF none
  <2>2. Shown(<< >>) = << >> /\ Shown(<< text >>) = Shown(none) \o Marked(text)
    BY <1>1, <2>1, ShownMore
  <2> DEFINE m == Marked(text)
  <2>3. m \in Marks
    BY <1>1, MarkedType, TagsSteps DEF Marked
  <2> HIDE DEF m
  <2>4. << >> \o m = m
    BY <2>3 DEF Marks
  <2> QED BY <2>2, <2>3, <2>4 DEF none, m
<1>4. CASE Size(text) <= Limit
  <2>1. phase' = "done" /\ chunks' = << text >>
    BY <1>4 DEF StartSplit
  <2>2. phase' # "writing" /\ phase' # "splitting"
    BY <2>1
  <2>3. chunks' \in Seq(Seq(Tokens)) /\ \A i \in DOMAIN chunks' : chunks'[i] = text
    BY <1>1, <2>1
  <2>4. (\A i \in DOMAIN chunks : Taken(chunks[i]))'
    BY <1>1, <1>4, <2>3 DEF Taken
  <2>5. Shown(chunks') = Marked(text') /\ IsPrefix(Shown(chunks'), Marked(text'))
    <3> DEFINE m == Marked(text)
    <3>1. Shown(chunks') = m /\ Marked(text') = m /\ m \in Marks
      BY <1>1, <1>3, <2>1
    <3> HIDE DEF m
    <3>2. IsPrefix(m, m)
      BY <3>1, HeadOf DEF Marks
    <3> QED BY <3>1, <3>2
  <2> QED BY <1>2, <2>1, <2>2, <2>3, <2>4, <2>5 DEF SplitInv
<1>5. CASE ~ (Size(text) <= Limit)
  <2>1. phase' = "splitting" /\ chunks' = << >> /\ rest' = text /\ open' = << >> /\ text' = text
    BY <1>1, <1>5 DEF StartSplit
  <2>2. phase' # "writing" /\ phase' # "done" /\ DOMAIN chunks' = {} /\ chunks' \in Seq(Seq(Tokens))
    BY <2>1
  <2>3. applyHTMLTags(<< >>, << >>) = << >> /\ Marked(<< >>) = << >> /\ << >> \in Seq(Tokens)
    <3> DEFINE none == << >>
    <3>1. none \in Seq(Tags) /\ none \in Seq(Tokens) /\ htmlVisibleEmpty(none)
      BY DEF htmlVisibleEmpty
    <3> HIDE DEF none
    <3>2. MarkedFrom(none, none) = << >>
      BY <3>1, MarkedBlind
    <3>3. applyHTMLTags(none, << >>) = none
      BY <3>1, TagsNone
    <3> QED BY <3>1, <3>2, <3>3 DEF none, Marked
  <2>4. text = << >> \o text
    BY <1>1
  <2>5. Halves(<< >>)'
    BY <1>1, <1>3, <2>1, <2>3, <2>4 DEF Halves
  <2>6. applyHTMLTags(<< >>, text)' = << >>
    BY <1>1, <2>1
  <2> QED BY <1>2, <2>1, <2>2, <2>5, <2>6 DEF SplitInv
<1> QED BY <1>4, <1>5

\* The rest fits: the last piece ends the text.
LEMMA LastKeeps ==
    ASSUME SplitInv, phase = "splitting", Size(open) + Size(rest) <= limit,
           Piece(open \o rest), phase' = "done", UNCHANGED << rest, open, broken, text, how >>
    PROVE  SplitInv'
<1> DEFINE p == open \o rest
           none == << >>
<1>1. /\ text \in Seq(Tokens) /\ Deep(text) /\ how \in { "send", "edit" } /\ ~ broken
      /\ chunks \in Seq(Seq(Tokens)) /\ \A i \in DOMAIN chunks : Taken(chunks[i])
      /\ applyHTMLTags(none, text) = none /\ \E done : Halves(done)
  BY DEF SplitInv
<1>2. PICK done : Halves(done)
  BY <1>1
<1>3. done \in Seq(Tokens) /\ rest \in Seq(Tokens) /\ text = done \o rest /\ open = applyHTMLTags(none, done)
      /\ Shown(chunks) = Marked(done)
  BY <1>2 DEF Halves
<1>4. none \in Seq(Tags) /\ open \in Seq(Tags)
  BY <1>3, TagsSteps, TagsType
<1>5. p \in Seq(Tokens) /\ Marked(p) = MarkedFrom(open, rest) /\ applyHTMLTags(<< >>, p) = applyHTMLTags(open, rest)
  BY <1>3, <1>4, PieceShows
<1>6. open \in Seq(Tokens)
  BY <1>4, OpenBack
<1> HIDE DEF none
<1>7. applyHTMLTags(open, rest) = none /\ Marked(text) = Marked(done) \o MarkedFrom(open, rest)
  <2>1. applyHTMLTags(none, done \o rest) = applyHTMLTags(applyHTMLTags(none, done), rest)
    BY <1>3, <1>4, TagsBoth
  <2>2. MarkedFrom(none, done \o rest) = MarkedFrom(none, done) \o MarkedFrom(applyHTMLTags(none, done), rest)
    BY <1>3, <1>4, MarkedBoth
  <2> QED BY <1>1, <1>3, <2>1, <2>2 DEF Marked, none
<1>8. Taken(p)
  <2>1. Size(p) = Size(open) + Size(rest)
    BY <1>3, <1>6, SizeBoth
  <2>2. Size(p) \in Nat /\ Size(p) <= limit
    BY <1>5, <2>1, SizeType
  <2> HIDE DEF p
  <2>3. Size(p) <= IF p = text THEN Limit ELSE limit
    BY <2>2, LimitRoom
  <2> QED BY <1>5, <1>7, <2>3 DEF Taken, none
<1>9. /\ chunks' \in Seq(Seq(Tokens)) /\ (\A i \in DOMAIN chunks : Taken(chunks[i]))'
      /\ Shown(chunks') = Shown(chunks) \o Marked(p)
  <2>1. p \in Seq(Tokens) /\ Piece(p) /\ text' = text /\ how' = how
    BY <1>5
  <2> HIDE DEF p
  <2> QED BY <1>1, <1>8, <2>1, PieceKept
<1>10. Shown(chunks') = Marked(text') /\ IsPrefix(Shown(chunks'), Marked(text'))
  <2>1. Shown(chunks') = Marked(text) /\ text' = text
    BY <1>3, <1>5, <1>7, <1>9
  <2> DEFINE m == Marked(text)
  <2>2. m \in Marks
    BY <1>1, MarkedType, TagsSteps DEF Marked
  <2>3. Shown(chunks') = m /\ Marked(text') = m
    BY <2>1
  <2> HIDE DEF m
  <2>4. IsPrefix(m, m)
    BY <2>2, HeadOf DEF Marks
  <2> QED BY <2>3, <2>4
<1>11. phase' # "writing" /\ phase' # "splitting"
  OBVIOUS
<1>12. Deep(text)' /\ text' \in Seq(Tokens) /\ how' \in { "send", "edit" } /\ ~ broken'
  BY <1>1 DEF Deep
<1> QED BY <1>9, <1>10, <1>11, <1>12 DEF SplitInv

\* A piece is cut off: it is one Telegram takes, and shows what was cut off.
LEMMA CutKeeps ==
    ASSUME SplitInv, phase = "splitting", NEW k, k \in 1..Len(rest), FitsAt(k),
           Piece(open \o Upto(k) \o closeHTML(applyHTMLTags(open, Upto(k)))),
           open' = NewOpen(k), rest' = SubSeq(rest, k + 1, Len(rest)), UNCHANGED << broken, text, how >>,
           phase' = IF SubSeq(rest, k + 1, Len(rest)) = << >> \/ (how = "edit" /\ chunks' # << >>) THEN "done" ELSE phase
    PROVE  SplitInv'
<1> DEFINE u == Upto(k)
           tags == applyHTMLTags(open, u)
           c == closeHTML(tags)
           p == open \o u \o c
           left == SubSeq(rest, k + 1, Len(rest))
<1>1. /\ text \in Seq(Tokens) /\ Deep(text) /\ how \in { "send", "edit" } /\ ~ broken
      /\ chunks \in Seq(Seq(Tokens)) /\ \A i \in DOMAIN chunks : Taken(chunks[i])
      /\ applyHTMLTags(<< >>, text) = << >> /\ \E done : Halves(done)
  BY DEF SplitInv
<1>2. PICK done : Halves(done)
  BY <1>1
<1>3. done \in Seq(Tokens) /\ rest \in Seq(Tokens) /\ open = applyHTMLTags(<< >>, done) /\ Shown(chunks) = Marked(done)
  BY <1>2 DEF Halves
<1>4. open \in Seq(Tags) /\ open \in Seq(Tokens)
  BY <1>3, TagsSteps, TagsType, OpenBack
<1>5. /\ u \in Seq(Tokens) /\ left \in Seq(Tokens) /\ done \o u \in Seq(Tokens)
      /\ text = (done \o u) \o left
      /\ NewOpen(k) = applyHTMLTags(<< >>, done \o u) /\ NewOpen(k) \in Seq(Tags)
      /\ Marked(done \o u) = Marked(done) \o MarkedFrom(open, u)
      /\ Marked(text) = Marked(done \o u) \o MarkedFrom(NewOpen(k), left)
  BY <1>1, <1>2, CutMore
<1>6. p \in Seq(Tokens) /\ Marked(p) = MarkedFrom(open, u) /\ applyHTMLTags(<< >>, p) = << >> /\ open \o u \in Seq(Tokens)
  <2> HIDE DEF u
  <2> QED BY <1>4, <1>5, PieceShows
<1>7. c \in Seq(Tokens)
  <2>1. tags \in Seq(Tags)
    BY <1>4, <1>5, TagsType
  <2> HIDE DEF tags
  <2> QED BY <2>1, CloseBack
<1>8. Taken(p)
  <2>1. Size(open \o u) = Size(open) + Size(u)
    BY <1>4, <1>5, SizeBoth
  <2>2. Size(p) = Size(open \o u) + Size(c)
    <3> DEFINE w == open \o u
    <3>1. w \in Seq(Tokens) /\ p = w \o c
      BY <1>6
    <3> HIDE DEF w, c, p
    <3> QED BY <1>7, <3>1, SizeBoth DEF w
  <2>3. Size(open) + Size(u) + Size(c) <= limit
    BY DEF FitsAt
  <2>4. Size(p) \in Nat /\ Size(p) <= limit
    BY <1>6, <2>1, <2>2, <2>3, SizeType
  <2> HIDE DEF p
  <2>5. Size(p) <= IF p = text THEN Limit ELSE limit
    BY <2>4, LimitRoom
  <2> QED BY <1>6, <2>5 DEF Taken
<1>9. /\ chunks' \in Seq(Seq(Tokens)) /\ (\A i \in DOMAIN chunks : Taken(chunks[i]))'
      /\ Shown(chunks') = Shown(chunks) \o Marked(p)
  <2>1. p \in Seq(Tokens) /\ Piece(p) /\ text' = text /\ how' = how
    BY <1>6
  <2> HIDE DEF p
  <2> QED BY <1>1, <1>8, <2>1, PieceKept
<1>10. Shown(chunks') = Marked(done \o u)
  BY <1>3, <1>5, <1>6, <1>9
<1>11. Deep(text)' /\ text' = text /\ text' \in Seq(Tokens) /\ how' \in { "send", "edit" } /\ ~ broken' /\ phase' # "writing"
  BY <1>1 DEF Deep
<1>12. open' = NewOpen(k) /\ rest' = left /\ (phase' = "splitting" <=> ~ (left = << >> \/ (how = "edit" /\ chunks' # << >>)))
       /\ (phase' = "done" => left = << >> \/ how = "edit") /\ how' = how
  OBVIOUS
<1> DEFINE w == done \o u
<1>13. w \in Seq(Tokens) /\ text = w \o left /\ NewOpen(k) = applyHTMLTags(<< >>, w) /\ NewOpen(k) \in Seq(Tags)
       /\ Shown(chunks') = Marked(w) /\ Marked(text) = Marked(w) \o MarkedFrom(NewOpen(k), left) /\ left \in Seq(Tokens)
  BY <1>5, <1>10
<1> HIDE DEF w, left, u, p
<1>14. phase' = "splitting" => (applyHTMLTags(<< >>, text) = << >> /\ \E d : Halves(d))'
  <2> SUFFICES ASSUME phase' = "splitting" PROVE (applyHTMLTags(<< >>, text) = << >> /\ \E d : Halves(d))'
    OBVIOUS
  <2>1. left # << >> /\ rest' = left /\ text' = w \o rest' /\ open' = applyHTMLTags(<< >>, w)
    BY <1>11, <1>12, <1>13
  <2>2. PICK d : d = w
    OBVIOUS
  <2>3. Halves(d)'
    BY <1>13, <2>1, <2>2 DEF Halves
  <2> QED BY <1>1, <1>11, <2>3
<1>15. phase' = "done" => (IF how = "send" THEN Shown(chunks) = Marked(text) ELSE IsPrefix(Shown(chunks), Marked(text)))'
  <2> DEFINE m == Marked(w)
             q == MarkedFrom(NewOpen(k), left)
  <2>1. m \in Marks /\ q \in Marks /\ m \in Seq(Visible \X Seq(Tags)) /\ q \in Seq(Visible \X Seq(Tags))
    BY <1>13, MarkedType, TagsSteps DEF Marked, Marks
  <2>2. Shown(chunks') = m /\ Marked(text') = m \o q
    BY <1>11, <1>13
  <2>3. left = << >> => q = << >>
    <3> SUFFICES ASSUME left = << >> PROVE q = << >>
      OBVIOUS
    <3>1. htmlVisibleEmpty(left)
      BY DEF htmlVisibleEmpty
    <3> QED BY <1>13, <3>1, MarkedBlind
  <2> HIDE DEF m, q
  <2>4. IsPrefix(m, m \o q)
    BY <2>1, HeadOf
  <2>5. q = << >> => m \o q = m
    BY <2>1
  <2>6. CASE how = "send"
    <3>1. phase' = "done" => Shown(chunks') = Marked(text')
      BY <1>12, <2>2, <2>3, <2>5, <2>6
    <3> QED BY <1>12, <2>6, <3>1
  <2>7. CASE how # "send"
    <3>1. IsPrefix(Shown(chunks'), Marked(text'))
      BY <2>2, <2>4
    <3> QED BY <1>12, <2>7, <3>1
  <2> QED BY <2>6, <2>7
<1> QED BY <1>9, <1>11, <1>14, <1>15 DEF SplitInv

\* A turn of the loop.
LEMMA SplitKeeps == ASSUME SplitInv, Split PROVE SplitInv'
<1>1. phase = "splitting" /\ text' = text /\ how' = how
  BY DEF Split
<1>2. CASE Size(open) + Size(rest) <= limit
  <2>1. Piece(open \o rest) /\ phase' = "done" /\ UNCHANGED << rest, open, broken >>
    BY <1>2 DEF Split
  <2> QED BY <1>1, <1>2, <2>1, LastKeeps
<1>3. CASE ~ (Size(open) + Size(rest) <= limit)
  <2>1. Deep(text) /\ \E done : Halves(done)
    BY <1>1 DEF SplitInv
  <2>2. Cut \in 1..Len(rest) /\ FitsAt(Cut)
    BY <2>1, CutFits
  <2> DEFINE k == Cut
  <2>3. k # 0 /\ k \in 1..Len(rest) /\ FitsAt(k)
    BY <2>2
  <2>4. /\ Piece(open \o Upto(k) \o closeHTML(applyHTMLTags(open, Upto(k))))
        /\ open' = NewOpen(k) /\ rest' = SubSeq(rest, k + 1, Len(rest)) /\ UNCHANGED broken
        /\ phase' = IF SubSeq(rest, k + 1, Len(rest)) = << >> \/ (how = "edit" /\ chunks' # << >>) THEN "done" ELSE phase
    BY <1>3, <2>3 DEF Split
  <2> HIDE DEF k
  <2> QED BY <1>1, <2>3, <2>4, CutKeeps
<1> QED BY <1>2, <1>3

\* No step of a text's life leaves SplitInv.
LEMMA SplitInvNext == SplitInv /\ [SplitNext]_splitVars => SplitInv'
<1> SUFFICES ASSUME SplitInv, [SplitNext]_splitVars PROVE SplitInv'
  OBVIOUS
<1>1. CASE \E tok \in Tokens : WriteToken(tok)
  BY <1>1, WriteKeeps
<1>2. CASE \E purpose \in { "send", "edit" } : StartSplit(purpose)
  BY <1>2, StartKeeps
<1>3. CASE Split
  BY <1>3, SplitKeeps
<1>4. CASE UNCHANGED splitVars
  <2>1. UNCHANGED << text, phase, how, rest, open, chunks, broken >>
    BY <1>4 DEF splitVars
  <2>2. limit' = limit
    BY <2>1 DEF limit
  <2>3. (\A i \in DOMAIN chunks : Taken(chunks[i]))' <=> (\A i \in DOMAIN chunks : Taken(chunks[i]))
    BY <2>1, <2>2 DEF Taken
  <2>4. (\E done : Halves(done))' <=> \E done : Halves(done)
    BY <2>1 DEF Halves
  <2>5. Deep(text)' <=> Deep(text)
    BY <2>1 DEF Deep
  <2> QED BY <2>1, <2>3, <2>4, <2>5 DEF SplitInv
<1> QED BY <1>1, <1>2, <1>3, <1>4 DEF SplitNext

\* What SplitInv says of the pieces is the property.
LEMMA SplitInvFaithful == SplitInv => SplitFaithful
BY DEF SplitInv, SplitFaithful, Taken

\* Whatever the text the agent writes, the pieces splitMessage sends show all of
\* it, each with the tags it had, and each is one Telegram takes; FitEdit's piece
\* is the head of the text with room for its footer.
THEOREM SplitFaithfulCorrect == SplitSpec => []SplitFaithful
<1>1. SplitInit => SplitInv
  BY SplitInvInit
<1>2. SplitInv /\ [SplitNext]_splitVars => SplitInv'
  BY SplitInvNext
<1>3. SplitInv => SplitFaithful
  BY SplitInvFaithful
<1> QED BY <1>1, <1>2, <1>3, PTL DEF SplitSpec
=============================================================================
