------------------------------- MODULE Links -------------------------------
(***************************************************************************)
(* The links behind the cards: a cosmetic slug of the title, a dash and    *)
(* the id of the row. Package http makes them for the stream and takes     *)
(* them apart when somebody follows one; package html has a copy of the    *)
(* function for the first render, "kept in sync by hand".                  *)
(***************************************************************************)
EXTENDS QueryText

CONSTANTS
    SlugBytes,      \* 60: where the slug of a title is cut
    IdDigits        \* 32: hexadecimal digits of an id

ASSUME LinksAssumption == SlugBytes \in Nat /\ IdDigits \in Nat \ {0}

HexDigits == {"0", "1", "a", "f"}

SlugCharacters == HexDigits \cup {"r", "u", "w"}

\* The ids of a table: its letter, an underscore and the digits.
IsId(letter, s) ==
    /\ Len(s) = IdDigits + 2
    /\ s[1] = letter /\ s[2] = "_"
    /\ \A i \in 3 .. Len(s) : s[i] \in HexDigits

NonSlug(s) == {s[i] : i \in DOMAIN s} \ SlugCharacters

Kebab(title) ==
    LET slug == ToLower(title) IN Trim(Squeeze(slug, NonSlug(slug), "-"), {"-"})

\* Variant: no dash is trimmed after the cut.
TitleToSlugRagged(title) ==
    LET slug == Kebab(title)
    IN  IF Len(slug) > SlugBytes THEN SubSeq(slug, 1, SlugBytes) ELSE slug

TitleToSlug(title) ==
    LET slug == Kebab(title)
    IN  IF Len(slug) > SlugBytes THEN TrimRight(SubSeq(slug, 1, SlugBytes), {"-"}) ELSE slug

\* http.siteSlug
SiteSlug(title, id) ==
    IF TitleToSlug(title) = <<>> THEN id ELSE TitleToSlug(title) \o <<"-">> \o id

\* html.siteSlug
CardSlug(title, id) ==
    LET slug == Kebab(title)
        cut  == IF Len(slug) > SlugBytes
                THEN TrimRight(SubSeq(slug, 1, SlugBytes), {"-"}) ELSE slug
    IN  IF cut = <<>> THEN id ELSE cut \o <<"-">> \o id

\* The regular expression is anchored at the end and of fixed length: it finds
\* the last characters of the slug or nothing.
FindId(letter, slug) ==
    LET tail == SubSeq(slug, Len(slug) - IdDigits - 1, Len(slug))
    IN  IF Len(slug) >= IdDigits + 2 /\ IsId(letter, tail) THEN tail ELSE <<>>

ExtractResultID(slug) == FindId("r", slug)

ExtractAdID(slug) == FindId("a", slug)
=============================================================================
