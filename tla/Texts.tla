------------------------------- MODULE Texts -------------------------------
(***************************************************************************)
(* The conversions of text, on every input up to a bound: an input grows   *)
(* by one symbol at a time, and each state asks what the code makes of it. *)
(***************************************************************************)
EXTENDS Links, ImagePrompt, Answers, Cards

CONSTANTS
    QueryLetters, TitleLetters, PathLetters, Parts,     \* the symbols
    MaxQuery, MaxTitle, MaxPath, MaxParts               \* bounds on the inputs

\* What is no prompt is none of the texts.
ASSUME RefusedAssumption ==
    Refused \notin Seq(PathLetters \cup Bytes \cup LowerLetters \cup {"space", "-"})

\* An object has the fields of an ad, empty ones where they are missing.
FieldTexts == {"text", "padded", "blank", ""}

ASSUME AnswersAssumption ==
    \A part \in Parts : Is(part, "object") => part.fields \in [AdFields -> FieldTexts]

VARIABLES
    conversion,     \* what the input is: "query", "title", "path" or "answer"
    input           \* the sequence of symbols

textVars == <<conversion, input>>

Symbols == CASE conversion = "query"  -> QueryLetters
             [] conversion = "title"  -> TitleLetters
             [] conversion = "path"   -> PathLetters
             [] conversion = "answer" -> Parts

MaxInput == CASE conversion = "query"  -> MaxQuery
              [] conversion = "title"  -> MaxTitle
              [] conversion = "path"   -> MaxPath
              [] conversion = "answer" -> MaxParts

TextsInit == /\ conversion \in {"query", "title", "path", "answer"}
             /\ input = <<>>

Extend == /\ Len(input) < MaxInput
          /\ \E symbol \in Symbols : input' = Append(input, symbol)
          /\ UNCHANGED conversion

TextsSpec == TextsInit /\ [][Extend]_textVars

-----------------------------------------------------------------------------
(* Properties *)

\* No white space but single spaces inside, no upper case.
IsPlain(s) ==
    /\ \A i \in DOMAIN s : s[i] \notin DOMAIN LowerCase \cup (WhiteSpace \ {"space"})
    /\ \A i \in DOMAIN s : s[i] = "space" => i \notin {1, Len(s)} /\ s[i - 1] # "space"

\* The letters of a text, one after the other.
PutLetter(out, c) == IF c \in WhiteSpace THEN out ELSE Append(out, c)

Picking(s) ==
    LET out[n \in 0 .. Len(s)] == IF n = 0 THEN <<>> ELSE PutLetter(out[n - 1], s[n])
    IN  out

Solid(s) == Picking(s)[Len(s)]

\* The same words, written with other spaces.
PutWider(out, c) == IF c = "space" THEN Append(Append(out, "space"), "tab") ELSE Append(out, c)

Respacing(s) ==
    LET out[n \in 0 .. Len(s)] == IF n = 0 THEN <<>> ELSE PutWider(out[n - 1], s[n])
    IN  out

Respaced(s) == <<"tab">> \o Respacing(s)[Len(s)]

\* Equal words find equal rows: the stored text is plain, keeps the letters,
\* is its own normal form, so that the page and the stream of events agree on
\* it, and comes out the same from any spacing of its words; a query is the
\* home page's exactly when nothing is left of it.
QueriesMeet ==
    conversion = "query" =>
        LET text == NormalizeQuery(input)
        IN  /\ IsPlain(text)
            /\ Solid(text) = Solid(ToLower(input))
            /\ NormalizeQuery(text) = text
            /\ NormalizeQuery(Respaced(text)) = text
            /\ IsHome(input) <=> text = <<>>

Ids(letter) == {<<letter, "_">> \o digits : digits \in [1 .. IdDigits -> HexDigits]}

\* A link leads back to the row it was made for, whatever the title is and
\* wherever it is cut, and to no row of the other table; its cosmetic part
\* has no stray dashes; and the link of the first render is the one that the
\* stream puts in its place (siteSlug exists twice).
LinksLeadBack ==
    conversion = "title" =>
        /\ \A id \in Ids("r") :
              /\ ExtractResultID(SiteSlug(input, id)) = id
              /\ ExtractAdID(SiteSlug(input, id)) = <<>>
        /\ \A id \in Ids("a") :
              /\ ExtractAdID(SiteSlug(input, id)) = id
              /\ ExtractResultID(SiteSlug(input, id)) = <<>>
        /\ \A id \in Ids("r") \cup Ids("a") :
              /\ CardSlug(input, id) = SiteSlug(input, id)
              /\ \A i \in 1 .. Len(SiteSlug(input, id)) - 1 :
                    SiteSlug(input, id)[i] = "-" =>
                        i > 1 /\ SiteSlug(input, id)[i + 1] # "-"

KebabCase(s) == [i \in DOMAIN s |-> IF s[i] = "space" THEN "-" ELSE s[i]]

\* One picture, one file: a prompt is plain text, and the path in kebab case
\* that the websites are told to write for it leads to the same prompt, hence
\* to the same hash, unless the prompt holds a percent sign.
PromptsMeet ==
    conversion = "path" =>
        LET prompt == HandlePath(input)
        IN  prompt # Refused =>
                /\ prompt # <<>>
                /\ IsPlain(prompt)
                /\ \A i \in DOMAIN prompt : prompt[i] \notin {"-", "/", "bad"}
                /\ "%" \notin {prompt[i] : i \in DOMAIN prompt} =>
                      /\ HandlePath(prompt) = prompt
                      /\ HandlePath(KebabCase(prompt)) = prompt

\* The row that an answer becomes, at position 0, or none.
RowOf(answer) == [p \in {0, 1} |-> IF p = 0 /\ answer # NoAnswer
                                   THEN [id |-> "id", fields |-> answer] ELSE NoRow]

\* Whatever the model answers, a card never flickers or stays empty: an answer
\* that is refused leaves a skeleton, one that is accepted makes a card whose
\* texts are all there, and the markup of the server, the initial signals and
\* the patch of the stream show the same card (haveResult asks for a title, the
\* signals are filled if there is a row at all).
CardsAgree ==
    conversion = "answer" =>
        \A kind \in {"result", "ad"} :
            LET answer  == IF kind = "result" THEN GenerateResult(input) ELSE GenerateAd(input)
                rows    == RowOf(answer)
                signals == InitialSignals(rows)
                patched == PatchSignals(InitialSignals(RowOf(NoAnswer)), rows, {0})
            IN  /\ answer # NoAnswer =>
                      /\ \A field \in DOMAIN answer : answer[field] = "text"
                      /\ \A i \in DOMAIN input : ~Is(input[i], "error")
                /\ \A p \in {0, 1} :
                      /\ RenderedCard(kind, rows[p]) = BoundCard(kind, signals[p])
                      /\ RenderedCard(kind, rows[p]) = BoundCard(kind, patched[p])
                      /\ RenderedCard(kind, rows[p]).filled <=> rows[p] # NoRow

-----------------------------------------------------------------------------
(* What the comments say *)

\* "The URL path after /image/ is URL-decoded, normalised to a prompt": decoded
\* once, that is (handleImage).
PathsDecodedOnce ==
    conversion = "path" => Requested(input) = ToPrompt(PathUnescape(input))

\* "stripHTMLFences removes a leading/trailing ``` or ```html fence if present."
FencesRemoved ==
    conversion = "answer" =>
        LET html == GenerateWebsite(input)
        IN  html # NoAnswer => ~Is(html[1], "fence") /\ ~Is(Last(html), "fence")
=============================================================================
