------------------------------ MODULE MCTexts ------------------------------
(* Texts on short inputs over few symbols.                                 *)
EXTENDS Texts

Object(fields) == [type |-> "object", fields |-> fields]

\* A good object, one whose title is blank, one without what only ads have.
Objects ==
    {Object([field \in AdFields |-> "padded"]),
     Object([field \in AdFields |-> IF field = "title" THEN "blank" ELSE "text"]),
     Object([field \in AdFields |-> IF field \in ItemFields THEN "text" ELSE ""])}

SomeParts ==
    Objects \cup [type : {"fence", "json", "html", "whitespace", "document", "prose",
                          "other", "error"}]
=============================================================================
