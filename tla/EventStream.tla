---------------------------- MODULE EventStream ----------------------------
(***************************************************************************)
(* The results page and its stream of signals. Search renders the rows     *)
(* stored so far (ResultsPage); the page then opens /events, whose handler *)
(* polls the tables and patches the cards of the page until all of them    *)
(* are sent, a minute has passed, or a read or a write fails. Meanwhile    *)
(* the pipeline fills the catalogue, row by row, in any order.             *)
(*                                                                         *)
(* The page opens the stream with the script it ships, Datastar: when the  *)
(* connection breaks or the tab is hidden, the script opens a new stream   *)
(* later; when the handler ends the stream, it does not.                   *)
(*                                                                         *)
(* Every read of a table, every patch and every tick is a step of its own. *)
(***************************************************************************)
EXTENDS Catalogue

CONSTANT Visitors           \* open pages, one stream each

VARIABLES
    at,         \* visitor -> where its page or its stream is
    query,      \* visitor -> the query of its page, or None
    card,       \* visitor -> cell -> the row its page shows, or None (a skeleton)
    read,       \* visitor -> cell -> the rows its handler read last
    sent        \* visitor -> the cells in sentResults and sentAds

pageVars == <<at, query, card, read, sent>>
vars == <<rows, sites, at, query, card, read, sent>>

Polling == {"push", "pushAds", "write", "open"}

Places == {"away", "loadAds", "page", "retry", "closed", "complete"} \cup Polling

Skeletons == [c \in Cells |-> None]

TypeOK ==
    /\ rows \in [Cells -> Fabrics \cup {None}]
    /\ sites \in [Cells -> Websites \cup {None}]
    /\ at \in [Visitors -> Places]
    /\ query \in [Visitors -> Queries \cup {None}]
    /\ card \in [Visitors -> [Cells -> Fabrics \cup {None}]]
    /\ read \in [Visitors -> [Cells -> Fabrics \cup {None}]]
    /\ sent \in [Visitors -> SUBSET Cells]

Init ==
    /\ CatalogueInit
    /\ at = [v \in Visitors |-> "away"]
    /\ query = [v \in Visitors |-> None]
    /\ card = [v \in Visitors |-> Skeletons]
    /\ read = [v \in Visitors |-> Skeletons]
    /\ sent = [v \in Visitors |-> {}]

GoTo(v, place) == at' = [at EXCEPT ![v] = place]

-----------------------------------------------------------------------------
(* Reading the tables *)

CellsOf(q) == {c \in Cells : c[2] = q}

GetResults(q) == [c \in Cells |-> IF c[1] = "result" /\ c[2] = q THEN rows[c] ELSE None]

\* The rows read before, and the ads of the query as they are now.
WithAds(snapshot, q) ==
    [c \in Cells |-> IF c[1] = "ad" /\ c[2] = q THEN rows[c] ELSE snapshot[c]]

-----------------------------------------------------------------------------
(* The page *)

LoadResults(v, q) ==
    /\ at[v] = "away"
    /\ query' = [query EXCEPT ![v] = q]
    /\ read' = [read EXCEPT ![v] = GetResults(q)]
    /\ GoTo(v, "loadAds")
    /\ UNCHANGED <<catalogueVars, card, sent>>

\* The page is rendered with the rows read; the other cards are skeletons.
LoadAds(v) ==
    /\ at[v] = "loadAds"
    /\ card' = [card EXCEPT ![v] = WithAds(read[v], query[v])]
    /\ read' = [read EXCEPT ![v] = Skeletons]
    /\ GoTo(v, "page")
    /\ UNCHANGED <<catalogueVars, query, sent>>

\* The visitor leaves, or reloads; loading may also fail with an error page.
Leave(v) ==
    /\ at[v] # "away"
    /\ query' = [query EXCEPT ![v] = None]
    /\ card' = [card EXCEPT ![v] = Skeletons]
    /\ read' = [read EXCEPT ![v] = Skeletons]
    /\ sent' = [sent EXCEPT ![v] = {}]
    /\ GoTo(v, "away")
    /\ UNCHANGED catalogueVars

-----------------------------------------------------------------------------
(* The stream *)

\* The handler bails out quietly if it does not find the query (GetQueryByText
\* fails); nothing is sent then.
OpenEvents(v) ==
    /\ at[v] = "page"
    /\ GoTo(v, "push") \/ GoTo(v, "closed")
    /\ UNCHANGED <<catalogueVars, query, card, read, sent>>

\* The connection breaks, also under a write, or the tab is hidden and the
\* script aborts the stream. What the handler had marked as sent is lost with it.
ConnectionLost(v) ==
    /\ at[v] \in Polling
    /\ GoTo(v, "retry")
    /\ read' = [read EXCEPT ![v] = Skeletons]
    /\ sent' = [sent EXCEPT ![v] = {}]
    /\ UNCHANGED <<catalogueVars, query, card>>

\* Variant: the handler takes up what an earlier stream of the page has sent.
ReconnectRemembering(v) ==
    /\ at[v] = "retry"
    /\ GoTo(v, "push")
    /\ sent' = [sent EXCEPT ![v] = {c \in CellsOf(query[v]) : rows[c] # None}]
    /\ UNCHANGED <<catalogueVars, query, card, read>>

\* The script opens a new stream, whose handler starts afresh, or gives up.
Reconnect(v) ==
    /\ at[v] = "retry"
    /\ GoTo(v, "push") \/ GoTo(v, "closed")
    /\ UNCHANGED <<catalogueVars, query, card, read, sent>>

\* Variants: positions counted from 1; ads forgotten.
FreshFromOne(v, snapshot) ==
    {<<c[1], c[2], c[3] + 1>> : c \in {d \in Cells : snapshot[d] # None}} \ sent[v]

FreshResults(v, snapshot) ==
    {c \in Cells : c[1] = "result" /\ snapshot[c] # None} \ sent[v]

Fresh(v, snapshot) == {c \in Cells : snapshot[c] # None} \ sent[v]

\* Variant: the ads are not counted.
DoneWithResults(v) == {c \in CellsOf(query[v]) : c[1] = "result"} \subseteq sent[v]

Done(v) == CellsOf(query[v]) \subseteq sent[v]

\* pushState, first read.
PushResults(v) ==
    /\ at[v] = "push"
    /\ read' = [read EXCEPT ![v] = GetResults(query[v])]
    /\ GoTo(v, "pushAds")
    /\ UNCHANGED <<catalogueVars, query, card, sent>>

\* pushState, second read: what is new counts as sent from here on, and is
\* written next.
PushAds(v) ==
    /\ at[v] = "pushAds"
    /\ LET snapshot == WithAds(read[v], query[v]) IN
          /\ read' = [read EXCEPT ![v] = snapshot]
          /\ sent' = [sent EXCEPT ![v] = @ \cup Fresh(v, snapshot)]
          /\ GoTo(v, IF Fresh(v, snapshot) = {} THEN "open" ELSE "write")
    /\ UNCHANGED <<catalogueVars, query, card>>

\* A patch holds every position read and sent so far; the page keeps what it
\* shows in the other positions.
Patch(v) == [c \in Cells |-> IF c \in sent[v] /\ read[v][c] # None
                             THEN read[v][c] ELSE card[v][c]]

WriteSignalsPatch(v) ==
    /\ at[v] = "write"
    /\ card' = [card EXCEPT ![v] = Patch(v)]
    /\ GoTo(v, IF Done(v) THEN "complete" ELSE "open")
    /\ UNCHANGED <<catalogueVars, query, read, sent>>

\* A read fails (the database, or the minute is over during a push): the
\* handler ends the stream.
PushFails(v) ==
    /\ at[v] \in {"push", "pushAds"}
    /\ GoTo(v, "closed")
    /\ UNCHANGED <<catalogueVars, query, card, read, sent>>

Tick(v) ==
    /\ at[v] = "open"
    /\ GoTo(v, "push")
    /\ UNCHANGED <<catalogueVars, query, card, read, sent>>

\* The minute is over while the handler waits.
Deadline(v) ==
    /\ at[v] = "open"
    /\ GoTo(v, "closed")
    /\ UNCHANGED <<catalogueVars, query, card, read, sent>>

\* The process stops and starts again: its streams and the pages it was about
\* to render are gone, the pages in the browsers stay.
Crash ==
    LET lost   == {v \in Visitors : at[v] \in Polling}
        failed == {v \in Visitors : at[v] = "loadAds"}
    IN  /\ at' = [v \in Visitors |-> IF v \in lost THEN "retry"
                                     ELSE IF v \in failed THEN "away" ELSE at[v]]
        /\ query' = [v \in Visitors |-> IF v \in failed THEN None ELSE query[v]]
        /\ read' = [v \in Visitors |-> IF v \in lost \cup failed THEN Skeletons ELSE read[v]]
        /\ sent' = [v \in Visitors |-> IF v \in lost THEN {} ELSE sent[v]]
        /\ UNCHANGED <<catalogueVars, card>>

-----------------------------------------------------------------------------
HandlerStep(v) == PushResults(v) \/ PushAds(v) \/ WriteSignalsPatch(v) \/ Tick(v)

Pipeline == CatalogueNext /\ UNCHANGED pageVars

Next == \/ Pipeline
        \/ \E v \in Visitors :
              \/ \E q \in Queries : LoadResults(v, q)
              \/ LoadAds(v)
              \/ OpenEvents(v)
              \/ HandlerStep(v)
              \/ PushFails(v)
              \/ Deadline(v)
              \/ ConnectionLost(v)
              \/ Reconnect(v)
              \/ Leave(v)
        \/ Crash

Spec == Init /\ [][Next]_vars

\* A handler that runs keeps running; nothing else has to happen.
FairSpec == Spec /\ \A v \in Visitors : WF_vars(HandlerStep(v))

-----------------------------------------------------------------------------
(* Properties *)

\* A card shows a row that is stored, so its link leads to that row, although
\* its handler reads the two tables at different moments and writes later
\* still (pushState, ResultsPage).
CardsAreRows ==
    \A v \in Visitors, c \in Cells : card[v][c] # None => card[v][c] = rows[c]

KeepsCards ==
    \A v \in Visitors, c \in Cells :
        card[v][c] # None /\ at'[v] # "away" => card'[v][c] = card[v][c]

\* A filled card never turns back into a skeleton and never changes under the
\* visitor while the page stays open (writeSignalsPatch sends rows again, from
\* later reads).
CardsStay == [][KeepsCards]_vars

\* pushState marks positions as sent before it writes them; all the same a
\* stream that goes on has shown all it marked, because a failed write ends it
\* and the stream that takes its place starts with nothing marked.
MarkedIsShown ==
    \A v \in Visitors : at[v] \in {"open", "push", "pushAds", "complete"} =>
        \A c \in sent[v] : card[v][c] # None

\* The stream ends by itself only when nothing is missing on the page.
CompleteMeansComplete ==
    \A v \in Visitors : at[v] = "complete" =>
        \A c \in CellsOf(query[v]) : card[v][c] # None

\* As long as the stream lasts, a row that is stored gets onto the page, also
\* one stored between the render of the page and the start of the stream, or
\* between the two reads of a push.
FilledCardsAppear ==
    \A v \in Visitors, c \in Cells :
        rows[c] # None /\ at[v] \in Polling /\ c[2] = query[v]
            ~> card[v][c] # None \/ at[v] \in {"closed", "away", "retry"}
=============================================================================
