--------------------------- MODULE ConfirmPromise ---------------------------
(***************************************************************************)
(* What confirm tokens promise: a host-changing action runs at most once   *)
(* per request, and only on the word of the user who asked for it.  A      *)
(* request that has not run may be dropped at any time.                    *)
(***************************************************************************)
EXTENDS Sequences

CONSTANTS Requests, Users, Nobody

VARIABLES
    asked,   \* requests made so far
    owner,   \* who asked, Nobody before
    open,    \* requests that may still run
    ran      \* per request, who had it run, in order

vars == <<asked, owner, open, ran>>

Init ==
    /\ asked = {}
    /\ owner = [r \in Requests |-> Nobody]
    /\ open = {}
    /\ ran = [r \in Requests |-> << >>]

\* A new request; the store's limit may drop older ones for it.
Ask(r, u, gone) ==
    /\ r \notin asked /\ asked' = asked \cup {r}
    /\ owner' = [owner EXCEPT ![r] = u]
    /\ open' = (open \ gone) \cup {r}
    /\ UNCHANGED ran

Run(r) ==
    /\ r \in open
    /\ open' = open \ {r}
    /\ ran' = [ran EXCEPT ![r] = Append(@, owner[r])]
    /\ UNCHANGED <<asked, owner>>

Drop(gone) == open' = open \ gone /\ UNCHANGED <<asked, owner, ran>>

Next ==
    \/ \E r \in Requests, u \in Users, gone \in SUBSET Requests : Ask(r, u, gone)
    \/ \E r \in Requests : Run(r)
    \/ \E gone \in SUBSET Requests : Drop(gone)

Spec == Init /\ [][Next]_vars
=============================================================================
