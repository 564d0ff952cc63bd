------------------------------ MODULE Answers ------------------------------
(***************************************************************************)
(* What the client of the language model (package llm) makes of an answer: *)
(* the text of the parts of a stream is put together, a code fence around  *)
(* it removed, and what is inside decoded, or looked over, or refused.     *)
(*                                                                         *)
(* A part is a piece of text, a piece of something else (a thought) or an  *)
(* error. A piece of text is a code fence, its tag, white space, a JSON    *)
(* object, an HTML document (its doctype, that is) or prose. The fields of *)
(* an object are "text", "padded" (with white space around), "blank" or    *)
(* "" (empty or missing).                                                  *)
(***************************************************************************)
EXTENDS Sequences, SequencesExt, FiniteSetsExt

CONSTANT NoAnswer       \* the call returns an error

ItemFields == {"title", "displayURL", "description"}
AdFields == ItemFields \cup {"sponsor", "cta"}

Is(part, type) == part.type = type

IsText(part) == part.type \notin {"other", "error"}

\* The loop over the parts: what is written after n of them.
PutText(out, part) == IF IsText(part) THEN Append(out, part) ELSE out

Writing(parts) ==
    LET out[n \in 0 .. Len(parts)] == IF n = 0 THEN <<>> ELSE PutText(out[n - 1], parts[n])
    IN  out

\* An error anywhere in the stream is one of the call.
Output(parts) ==
    IF \E i \in DOMAIN parts : Is(parts[i], "error") THEN NoAnswer
    ELSE Writing(parts)[Len(parts)]

TrimBlanks(text) ==
    LET kept == {i \in DOMAIN text : ~Is(text[i], "whitespace")}
    IN  IF kept = {} THEN <<>> ELSE SubSeq(text, Min(kept), Max(kept))

\* Both ends must be fences; the tag of the first may be missing.
StripFences(tag, output) ==
    LET text == TrimBlanks(output)
        body == SubSeq(text, 2, Len(text) - 1)
    IN  IF Len(text) < 2 \/ ~Is(text[1], "fence") \/ ~Is(Last(text), "fence") THEN text
        ELSE IF body # <<>> /\ Is(body[1], tag) THEN TrimBlanks(Tail(body))
        ELSE TrimBlanks(body)

StripJSONFences(output) == StripFences("json", output)

StripHTMLFences(output) == StripFences("html", output)

\* strings.TrimSpace on a field.
TrimField(field) == CASE field \in {"text", "padded"} -> "text"
                      [] field \in {"blank", ""}      -> ""

Item(object, fields) == [field \in fields |-> TrimField(object.fields[field])]

\* Variant: the fields are looked at before they are trimmed.
DecodeUntrimmed(output, fields) ==
    LET text == StripJSONFences(output)
    IN  IF Len(text) # 1 \/ ~Is(text[1], "object")               THEN NoAnswer
        ELSE IF \E field \in fields : text[1].fields[field] = "" THEN NoAnswer
        ELSE Item(text[1], fields)

\* One object and nothing else, none of whose fields is empty.
Decode(output, fields) ==
    LET text == StripJSONFences(output)
    IN  IF Len(text) # 1 \/ ~Is(text[1], "object") THEN NoAnswer
        ELSE IF \E field \in fields : Item(text[1], fields)[field] = "" THEN NoAnswer
        ELSE Item(text[1], fields)

GenerateItem(parts, fields) ==
    IF Output(parts) = NoAnswer THEN NoAnswer ELSE Decode(Output(parts), fields)

GenerateResult(parts) == GenerateItem(parts, ItemFields)

GenerateAd(parts) == GenerateItem(parts, AdFields)

\* The text must contain the beginning of a document; what is before or behind
\* it is not looked at.
GenerateDocument(parts) ==
    LET html == StripHTMLFences(Output(parts))
    IN  IF Output(parts) = NoAnswer                              THEN NoAnswer
        ELSE IF \A i \in DOMAIN html : ~Is(html[i], "document")  THEN NoAnswer
        ELSE html

GenerateWebsite(parts) == GenerateDocument(parts)

GenerateAdWebsite(parts) == GenerateDocument(parts)
=============================================================================
