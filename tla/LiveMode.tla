------------------------------ MODULE LiveMode ------------------------------
(* Live mode (live.go): sessions are goroutines that edit one message each *)
(* until a press, their ceiling or a deleted message ends them; the update *)
(* loop presses buttons one after the other and waits for a session it     *)
(* stops. A live registration is taken under the mutex by exactly one.     *)
EXTENDS Integers, Sequences

CONSTANTS
    Messages,                               \* messages with a keyboard
    MaxSessions, MaxEditFails, MaxCrashes   \* bounds

NoSession == 0       \* no session; sessions are numbered from 1

VARIABLES
    live,       \* the registered session
    sess,       \* all sessions: message, step, and whether cancelled
    press,      \* the press the update loop handles, and how far it got
    shows,      \* what each message shows: screen, frame or gone
    stuck,      \* messages whose last edit back to a screen failed
    editFails, crashes

liveVars == << live, sess, press, shows, stuck, editFails, crashes >>

NoPress == [step |-> "idle", m |-> "-", s |-> NoSession, old |-> NoSession]

LiveInit ==
    /\ live = NoSession /\ sess = << >> /\ press = NoPress
    /\ shows = [m \in Messages |-> "screen"] /\ stuck = {}
    /\ editFails = 0 /\ crashes = 0

\* Its goroutine has ended; waiting for no session is no wait.
Over(s) == s # NoSession => sess[s].step = "over"

\* Messages an edit of a running handler or session is still about to reach.
Busy(m) == \/ press.step # "idle" /\ (press.m = m \/ (press.old # NoSession /\ sess[press.old].m = m))
           \/ \E s \in DOMAIN sess : sess[s].m = m /\ ~ Over(s)

\* An edit puts `what` on m, or fails; a message that is gone stays gone.
Edit(m, what) ==
    \/ /\ shows' = [shows EXCEPT ![m] = IF @ = "gone" THEN @ ELSE what]
       /\ stuck' = stuck \ { m } /\ UNCHANGED editFails
    \/ /\ editFails < MaxEditFails /\ editFails' = editFails + 1
       /\ stuck' = IF what = "screen" THEN stuck \cup { m } ELSE stuck
       /\ UNCHANGED shows

-----------------------------------------------------------------------------
(* The update loop.                                                        *)

\* startLive registers the new session and takes over the old one, which it
\* cancels and waits for.
startLive(m) ==
    LET new == Len(sess) + 1
        all == Append(sess, [m |-> m, step |-> "wait", stop |-> FALSE])
    IN  /\ press.step = "idle" /\ new <= MaxSessions
        /\ live' = new
        /\ sess' = IF live = NoSession THEN all ELSE [all EXCEPT ![live].stop = TRUE]
        /\ press' = [step |-> "swap", m |-> m, s |-> new, old |-> live]
        /\ UNCHANGED << shows, stuck, editFails, crashes >>

\* The old session is over: its message goes back to its screen, unless the new
\* session shows itself there.
Swap ==
    /\ press.step = "swap" /\ Over(press.old)
    /\ IF press.old # NoSession /\ sess[press.old].m # press.m
       THEN Edit(sess[press.old].m, "screen")
       ELSE UNCHANGED << shows, stuck, editFails >>
    /\ sess' = [sess EXCEPT ![press.s].step = "frame"]
    /\ press' = NoPress
    /\ UNCHANGED << live, crashes >>

\* stopLive, for Stop and for any other press on a message: the session that is
\* registered on it, if any, is taken and cancelled.
stopLive(m) ==
    LET s == IF live # NoSession /\ sess[live].m = m THEN live ELSE NoSession
    IN  /\ press.step = "idle"
        /\ live' = IF s = NoSession THEN live ELSE NoSession
        /\ sess' = IF s = NoSession THEN sess ELSE [sess EXCEPT ![s].stop = TRUE]
        /\ press' = [step |-> "stop", m |-> m, s |-> s, old |-> NoSession]
        /\ UNCHANGED << shows, stuck, editFails, crashes >>

\* Mutant: the handler does not wait for the session's last frame.
FinishLiveAtOnce ==
    /\ press.step = "stop"
    /\ Edit(press.m, "screen")
    /\ press' = NoPress
    /\ UNCHANGED << live, sess, crashes >>

\* The session is over: the press shows its own screen.
FinishLive ==
    /\ press.step = "stop" /\ Over(press.s)
    /\ Edit(press.m, "screen")
    /\ press' = NoPress
    /\ UNCHANGED << live, sess, crashes >>

-----------------------------------------------------------------------------
(* A session.                                                              *)

SessGoes(s, step) == sess' = [sess EXCEPT ![s].step = step]

\* takeLive
Take(s) == live' = IF live = s THEN NoSession ELSE live

\* One frame: it lands, fails, is cancelled midway, or finds the message gone,
\* which ends the session.
Frame(s) ==
    /\ sess[s].step = "frame"
    /\ IF shows[sess[s].m] = "gone"
       THEN SessGoes(s, "over") /\ Take(s) /\ UNCHANGED << shows, stuck, editFails >>
       ELSE /\ SessGoes(s, "tick") /\ UNCHANGED live
            /\ \/ Edit(sess[s].m, "frame")
               \/ sess[s].stop /\ UNCHANGED << shows, stuck, editFails >>
    /\ UNCHANGED << press, crashes >>

\* The next tick: another frame, or none while a 429 pauses them.
NextFrame(s) ==
    /\ sess[s].step = "tick" /\ ~ sess[s].stop
    /\ SessGoes(s, "frame")
    /\ UNCHANGED << live, press, shows, stuck, editFails, crashes >>

\* The ceiling passes or the context is done.
Ceiling(s) ==
    /\ sess[s].step = "tick"
    /\ SessGoes(s, "finish")
    /\ UNCHANGED << live, press, shows, stuck, editFails, crashes >>

\* finish: a session no press took restores its message itself.
TakeOwn(s) ==
    /\ sess[s].step = "finish"
    /\ Take(s) /\ SessGoes(s, IF live = s THEN "restore" ELSE "over")
    /\ UNCHANGED << press, shows, stuck, editFails, crashes >>

restoreLive(s) ==
    /\ sess[s].step = "restore"
    /\ Edit(sess[s].m, "screen") /\ SessGoes(s, "over")
    /\ UNCHANGED << live, press, crashes >>

\* The process dies: its sessions and the press are gone, the frames stay.
LiveRestart ==
    /\ crashes < MaxCrashes /\ crashes' = crashes + 1
    /\ sess' = [s \in DOMAIN sess |-> [sess[s] EXCEPT !.step = "over"]]
    /\ live' = NoSession /\ press' = NoPress
    /\ stuck' = stuck \cup { m \in Messages : shows[m] = "frame" }
    /\ UNCHANGED << shows, editFails >>

\* The user deletes a message.
DeleteMessage(m) ==
    /\ shows[m] # "gone" /\ shows' = [shows EXCEPT ![m] = "gone"]
    /\ UNCHANGED << live, sess, press, stuck, editFails, crashes >>

LiveNext ==
    \/ \E m \in Messages : startLive(m) \/ stopLive(m) \/ DeleteMessage(m)
    \/ Swap \/ FinishLive \/ LiveRestart
    \/ \E s \in DOMAIN sess : Frame(s) \/ NextFrame(s) \/ Ceiling(s) \/ TakeOwn(s) \/ restoreLive(s)

LiveSpec == LiveInit /\ [][LiveNext]_liveVars

-----------------------------------------------------------------------------
(* Property.                                                               *)

\* Presses, ceilings, takeovers and deletions in any order leave no orphan: a
\* message shows a frame only while a session or a press is still on its way to
\* it, so no frame lands after the edit of the press that stopped its session,
\* unless the edit back failed or the agent died over it. And two sessions never
\* show frames: one that is not cancelled is the registered one, or has taken
\* itself to restore its message (startLive, stop, takeLive, restoreLive).
NoOrphan ==
    /\ \A m \in Messages : shows[m] = "frame" => Busy(m) \/ m \in stuck
    /\ \A s \in DOMAIN sess : ~ Over(s) /\ ~ sess[s].stop => live = s \/ sess[s].step = "restore"
=============================================================================
