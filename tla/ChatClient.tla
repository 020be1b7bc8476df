----------------------------- MODULE ChatClient -----------------------------
(* The Telegram client's calls to the one chat: a token bucket paces sends *)
(* and edits of the update loop, live mode and the alert loops; a 429 is   *)
(* retried once when its wait is short (telegram.go, ratelimit.go). Time   *)
(* is counted in the bucket's intervals; tokens are whole, refilled at     *)
(* whole intervals.                                                        *)
EXTENDS Integers, FiniteSets, Sequences

CONSTANTS
    Callers,        \* goroutines that send, one call at a time
    Burst,          \* the bucket's size
    RetryWaits,     \* waits a 429 may ask for
    maxRetryWait,   \* longer ones are not waited for
    MaxCalls, MaxCancels, MaxPaceTime   \* bounds

ASSUME ChatAssumption ==
    IsFiniteSet(Callers) /\ Burst \in Nat \ { 0 } /\ RetryWaits \subseteq Nat

VARIABLES
    clock,
    bucket,     \* tokens and when they were last counted; the queue's debt is negative
    call,       \* each caller's call: step, when it goes on, attempts, 429 and its end
    sent,       \* when requests went out, in order
    calls, cancels

chatVars == << clock, bucket, call, sent, calls, cancels >>

NoCall == [step |-> "idle", due |-> 0, attempt |-> 0, until |-> 0, asked |-> 0]

ChatInit ==
    /\ clock = 0 /\ bucket = [tokens |-> Burst, last |-> 0]
    /\ call = [c \in Callers |-> NoCall]
    /\ sent = << >> /\ calls = 0 /\ cancels = 0

\* What the bucket holds now.
Refilled == LET t == bucket.tokens + clock - bucket.last IN IF t > Burst THEN Burst ELSE t

\* chatLimiter.wait: one token is reserved under the lock; without one the caller
\* sleeps until its own is due.
Reserve(c, attempt) ==
    LET tokens == Refilled - 1
    IN  /\ bucket' = [tokens |-> tokens, last |-> clock]
        /\ call' = [call EXCEPT ![c] = [@ EXCEPT !.step = "paced", !.attempt = attempt, !.asked = clock,
                                            !.due = clock + (IF tokens < 0 THEN - tokens ELSE 0)]]

CallChat(c) ==
    /\ call[c].step = "idle" /\ calls < MaxCalls /\ calls' = calls + 1
    /\ Reserve(c, 0)
    /\ UNCHANGED << clock, sent, cancels >>

\* The context ends while the call sleeps: its reservation is given back.
CancelPaced(c) ==
    /\ call[c].step = "paced" /\ clock < call[c].due
    /\ cancels < MaxCancels /\ cancels' = cancels + 1
    /\ bucket' = [bucket EXCEPT !.tokens = @ + 1]
    /\ call' = [call EXCEPT ![c] = NoCall]
    /\ UNCHANGED << clock, sent, calls >>

\* Mutant: a call does not wait for its turn.
SendCallAtOnce(c) ==
    /\ call[c].step = "paced"
    /\ sent' = Append(sent, clock)
    /\ call' = [call EXCEPT ![c] = NoCall]
    /\ UNCHANGED << clock, bucket, calls, cancels >>

\* The request goes out. Telegram takes it, or answers 429: the first one with a
\* short enough wait is waited for, any other ends the call with its error.
SendCall(c) ==
    /\ call[c].step = "paced" /\ clock >= call[c].due
    /\ sent' = Append(sent, clock)
    /\ \/ call' = [call EXCEPT ![c] = NoCall]
       \/ \E wait \in RetryWaits :
             call' = [call EXCEPT ![c] = IF call[c].attempt > 0 \/ wait > maxRetryWait THEN NoCall
                                         ELSE [@ EXCEPT !.step = "retry", !.until = clock + wait]]
    /\ UNCHANGED << clock, bucket, calls, cancels >>

\* The 429's wait is over: the second attempt reserves a token of its own.
RetryCall(c) ==
    /\ call[c].step = "retry" /\ clock >= call[c].until
    /\ Reserve(c, 1)
    /\ UNCHANGED << clock, sent, calls, cancels >>

CancelRetry(c) ==
    /\ call[c].step = "retry" /\ clock < call[c].until
    /\ cancels < MaxCancels /\ cancels' = cancels + 1
    /\ call' = [call EXCEPT ![c] = NoCall]
    /\ UNCHANGED << clock, bucket, sent, calls >>

\* Time passes; who is due goes on first.
ChatTick ==
    /\ clock < MaxPaceTime /\ clock' = clock + 1
    /\ \A c \in Callers : /\ call[c].step = "paced" => clock < call[c].due
                          /\ call[c].step = "retry" => clock < call[c].until
    /\ UNCHANGED << bucket, call, sent, calls, cancels >>

ChatNext ==
    \/ \E c \in Callers : CallChat(c) \/ CancelPaced(c) \/ SendCall(c) \/ RetryCall(c) \/ CancelRetry(c)
    \/ ChatTick

-----------------------------------------------------------------------------
(* Property.                                                               *)

\* Telegram's limit: any stretch of d intervals carries at most the burst and d
\* more requests, however callers queue and 429s are retried; reservations given
\* back may bunch as many more. And the bucket's debt is the queue: it never owes
\* more tokens than calls are waiting, so nobody waits for a reservation that never
\* became a request (chatLimiter.wait).
Paced ==
    /\ \A i, j \in DOMAIN sent : i <= j => j - i + 1 <= Burst + (sent[j] - sent[i]) + cancels
    /\ - Refilled <= Cardinality({ c \in Callers : call[c].step = "paced" /\ clock < call[c].due })
=============================================================================
