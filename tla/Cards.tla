------------------------------- MODULE Cards -------------------------------
(***************************************************************************)
(* The cards of the results page. The server renders each card twice over: *)
(* as markup (resultCard, adCard) and as an initial signal, to which the   *)
(* script of the page binds the same markup as soon as it runs. The stream *)
(* patches the signals later (writeSignalsPatch). A row here is what the   *)
(* tables hold: the fields of an answer, and an id.                        *)
(***************************************************************************)
EXTENDS Naturals

CONSTANT NoRow          \* no row at a position

Prefix(kind) == IF kind = "result" THEN "/site/" ELSE "/ad/"

\* The slug of a link, by what it is made of (Links has the text of it).
Slug(row) == [title |-> row.fields["title"], id |-> row.id]

\* A field that the kind does not have is not shown.
Field(row, field) == IF field \in DOMAIN row.fields THEN row.fields[field] ELSE ""

\* The texts of a signal: t, u, d, n, c; f is filled, s the slug.
TextKeys == [t |-> "title", u |-> "displayURL", d |-> "description", n |-> "sponsor", c |-> "cta"]

FilledSignal(row) ==
    [f |-> TRUE, s |-> Slug(row), texts |-> [key \in DOMAIN TextKeys |-> Field(row, TextKeys[key])]]

EmptySignal == [f |-> FALSE, s |-> NoRow, texts |-> [key \in DOMAIN TextKeys |-> ""]]

InitialSignals(rows) ==
    [p \in DOMAIN rows |-> IF rows[p] = NoRow THEN EmptySignal ELSE FilledSignal(rows[p])]

\* The stream sends the rows marked as sent; the script keeps the other signals.
PatchSignals(signals, rows, sent) ==
    [p \in DOMAIN signals |-> IF p \in sent /\ rows[p] # NoRow
                              THEN FilledSignal(rows[p]) ELSE signals[p]]

\* What a visitor sees of a card: the skeleton, or the row with its link.
Skeleton == [filled |-> FALSE, href |-> <<>>, texts |-> [key \in DOMAIN TextKeys |-> ""]]

\* The markup of the server: the card is filled if the row has a title.
RenderedCard(kind, row) ==
    IF row = NoRow \/ row.fields["title"] = "" THEN Skeleton
    ELSE [filled |-> TRUE,
          href   |-> <<Prefix(kind), Slug(row)>>,
          texts  |-> [key \in DOMAIN TextKeys |-> Field(row, TextKeys[key])]]

\* What the script makes of the same markup.
BoundCard(kind, signal) ==
    IF ~signal.f THEN Skeleton
    ELSE [filled |-> TRUE, href |-> <<Prefix(kind), signal.s>>, texts |-> signal.texts]
=============================================================================
