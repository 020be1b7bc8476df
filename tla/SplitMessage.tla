---------------------------- MODULE SplitMessage ----------------------------
(* How a long HTML text becomes several messages, or one edit cut short    *)
(* (splitMessage, FitEdit of telegram.go): each turn of the loop is a      *)
(* step. A text is a sequence of tokens, as wide as each is in bytes; a    *)
(* cut inside a tag or an entity moves to its start (safeCut).             *)
EXTENDS Integers, Sequences, SequencesExt

CONSTANTS
    Limit,      \* maxMessageLen
    Footer,     \* width of truncatedFooter
    MaxDepth,   \* tags that are open at once in the agent's texts
    MaxTokens   \* bound on texts

\* A piece holds the tags reopened, a token of two bytes and all the tags closed.
ASSUME SplitAssumption ==
    Limit \in Nat /\ Footer \in Nat /\ MaxDepth \in Nat /\ Limit - Footer >= 4 * MaxDepth + 2

Tags == { "b", "pre" }              \* htmlSplitTags
Closes == [b |-> "/b", pre |-> "/pre"]
Opened(tok) == CHOOSE t \in Tags : Closes[t] = tok
Closing == { Closes[t] : t \in Tags }

Visible == { "x", "ent" }           \* a letter, an entity
Tokens == Visible \cup { "nl" } \cup Tags \cup Closing

\* From b on by a step for each token of s.
Through(step, b, s) ==
    LET at[n \in 0..Len(s)] == IF n = 0 THEN b ELSE step[at[n - 1]][s[n]]
    IN  at[Len(s)]

\* A letter or a newline is one byte, an entity and a tag more.
Wide(tok) == IF tok \in { "x", "nl" } THEN 1 ELSE 2
Size(s) == Through([n \in Nat |-> [tok \in Tokens |-> n + Wide(tok)]], 0, s)

\* The tags open after a token: a closing tag takes the last one of its name.
After(tags, tok) ==
    LET K == { k \in DOMAIN tags : tags[k] = Opened(tok) }
    IN  CASE tok \in Tags -> Append(tags, tok)
          [] tok \in Closing /\ K # {} -> RemoveAt(tags, CHOOSE k \in K : \A j \in K : j <= k)
          [] OTHER -> tags

\* applyHTMLTags: the tags open after s, when these were open before.
applyHTMLTags(open, s) == Through([tags \in Seq(Tags) |-> [tok \in Tokens |-> After(tags, tok)]], open, s)

closeHTML(tags) == Reverse([i \in DOMAIN tags |-> Closes[tags[i]]])

htmlVisibleEmpty(s) == \A i \in DOMAIN s : s[i] \notin Visible

VARIABLES
    text,       \* the text that is sent or edited in, as it is written
    phase,      \* writing, splitting, then done
    how,        \* for a send or for an edit
    rest,       \* what is left of it
    open,       \* tags still open at the start of the rest
    chunks,
    broken      \* a cut fell inside a tag that could not be avoided

splitVars == << text, phase, how, rest, open, chunks, broken >>

SplitInit ==
    /\ text = << >> /\ phase = "writing" /\ how = "send" /\ rest = << >> /\ open = << >> /\ chunks = << >> /\ broken = FALSE

\* The agent's texts are well nested, and not too deep.
WriteToken(tok) ==
    LET tags == applyHTMLTags(<< >>, text)
    IN  /\ phase = "writing" /\ Len(text) < MaxTokens
        /\ tok \in Tags => Len(tags) < MaxDepth
        /\ tok \in Closing => tags # << >> /\ Closes[tags[Len(tags)]] = tok
        /\ text' = Append(text, tok)
        /\ UNCHANGED << phase, how, rest, open, chunks, broken >>

limit == IF how = "edit" THEN Limit - Footer ELSE Limit

\* SendReplyKB or FitEdit: a text that fits is one piece as it is.
StartSplit(purpose) ==
    /\ phase = "writing" /\ applyHTMLTags(<< >>, text) = << >> /\ text # << >>
    /\ how' = purpose
    /\ IF Size(text) <= Limit THEN phase' = "done" /\ chunks' = << text >> /\ UNCHANGED rest
                              ELSE phase' = "splitting" /\ rest' = text /\ UNCHANGED chunks
    /\ UNCHANGED << text, open, broken >>

Upto(k) == SubSeq(rest, 1, k)

\* The last cut of at most k tokens: before a newline that is not the first.
Boundary(k) ==
    LET N == { j \in 2..k : rest[j] = "nl" }
    IN  IF N = {} THEN k ELSE (CHOOSE j \in N : \A i \in N : i <= j) - 1

\* The first cut leaves room for the reopened tags and for closing them; it
\* shrinks until what the piece opens can be closed as well.
FirstCut ==
    LET room == limit - Size(open) - Size(closeHTML(open))
        K == { k \in 0..Len(rest) : Size(Upto(k)) <= (IF room < 1 THEN 1 ELSE room) }
    IN  Boundary(CHOOSE k \in K : \A j \in K : j <= k)

FitsAt(k) == Size(open) + Size(Upto(k)) + Size(closeHTML(applyHTMLTags(open, Upto(k)))) <= limit

Shrunk(k) == IF k <= 1 \/ FitsAt(k) THEN k ELSE Boundary(k - 1)

Cut == LET cuts[n \in 0..Len(rest)] == IF n = 0 THEN FirstCut ELSE Shrunk(cuts[n - 1])
       IN  cuts[Len(rest)]

\* Mutant: the next piece does not reopen the tags.
OpensNone(k) == << >>

\* The tags the next piece reopens.
NewOpen(k) == applyHTMLTags(open, Upto(k))

Piece(p) == chunks' = IF htmlVisibleEmpty(p) THEN chunks ELSE Append(chunks, p)

Split ==
    /\ phase = "splitting" /\ ~ broken
    /\ IF Size(open) + Size(rest) <= limit
       THEN Piece(open \o rest) /\ phase' = "done" /\ UNCHANGED << rest, open, broken >>
       ELSE LET k == Cut
                piece == open \o Upto(k) \o closeHTML(applyHTMLTags(open, Upto(k)))
                left == SubSeq(rest, k + 1, Len(rest))
            IN  IF k = 0 THEN broken' = TRUE /\ UNCHANGED << phase, rest, open, chunks >>
                ELSE /\ Piece(piece) /\ open' = NewOpen(k) /\ rest' = left /\ UNCHANGED broken
                     /\ phase' = IF left = << >> \/ (how = "edit" /\ chunks' # << >>) THEN "done" ELSE phase
    /\ UNCHANGED << text, how >>

SplitNext ==
    \/ \E tok \in Tokens : WriteToken(tok)
    \/ \E purpose \in { "send", "edit" } : StartSplit(purpose)
    \/ Split

SplitSpec == SplitInit /\ [][SplitNext]_splitVars

-----------------------------------------------------------------------------
(* Property.                                                               *)

\* Each visible token with the tags around it, after these.
Mark(r, tok) == [tags |-> After(r.tags, tok),
                 seen |-> IF tok \in Visible THEN Append(r.seen, << tok, r.tags >>) ELSE r.seen]
Marks == Seq(Visible \X Seq(Tags))
MarkedFrom(tags, s) ==
    Through([r \in [tags : Seq(Tags), seen : Marks] |-> [tok \in Tokens |-> Mark(r, tok)]],
            [tags |-> tags, seen |-> << >>], s).seen
Marked(s) == MarkedFrom(<< >>, s)

\* What the pieces show, one after the other.
Shown(pieces) == Through([m \in Marks |-> [piece \in Seq(Tokens) |-> m \o Marked(piece)]], << >>, pieces)

\* Whatever the text, the pieces show all of it with the tags it had, in order;
\* each is one Telegram takes: within the limit, its tags closed. An edit is the
\* head of the text with room for its footer (splitMessage, FitEdit).
SplitFaithful ==
    /\ ~ broken
    /\ \A i \in DOMAIN chunks :
          /\ Size(chunks[i]) <= IF chunks[i] = text THEN Limit ELSE limit
          /\ applyHTMLTags(<< >>, chunks[i]) = << >>
    /\ phase = "done" =>
          IF how = "send" THEN Shown(chunks) = Marked(text) ELSE IsPrefix(Shown(chunks), Marked(text))
=============================================================================
