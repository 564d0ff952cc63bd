----------------------------- MODULE QueryText -----------------------------
(***************************************************************************)
(* Texts as sequences of characters, and NormalizeQuery (package model),   *)
(* whose result is what the table queries stores and matches on. The page  *)
(* and its stream of events normalise the raw query independently.         *)
(***************************************************************************)
EXTENDS Naturals, Sequences, SequencesExt, FiniteSetsExt

WhiteSpace == {"space", "tab"}

\* Characters with an upper case, and what unicode.ToLower makes of them.
LowerCase == [A |-> "a", R |-> "r", U |-> "u", F |-> "f", W |-> "w"]

LowerLetters == {LowerCase[c] : c \in DOMAIN LowerCase}

ToLower(s) == [i \in DOMAIN s |-> IF s[i] \in DOMAIN LowerCase THEN LowerCase[s[i]] ELSE s[i]]

\* What is left between the first and the last character not in cut.
Trim(s, cut) ==
    LET kept == {i \in DOMAIN s : s[i] \notin cut}
    IN  IF kept = {} THEN <<>> ELSE SubSeq(s, Min(kept), Max(kept))

TrimRight(s, cut) ==
    LET kept == {i \in DOMAIN s : s[i] \notin cut}
    IN  IF kept = {} THEN <<>> ELSE SubSeq(s, 1, Max(kept))

\* A loop over the characters of a text is the function that has at n what is
\* written after n of them.

\* Every run of the characters in run becomes one mark.
PutOrMark(out, c, run, mark) ==
    IF c \notin run                        THEN Append(out, c)
    ELSE IF out # <<>> /\ Last(out) = mark THEN out
    ELSE Append(out, mark)

Squeezing(s, run, mark) ==
    LET out[n \in 0 .. Len(s)] ==
            IF n = 0 THEN <<>> ELSE PutOrMark(out[n - 1], s[n], run, mark)
    IN  out

Squeeze(s, run, mark) == Squeezing(s, run, mark)[Len(s)]

\* A run of white space becomes one space, none at the beginning.
PutCharacter(out, c) ==
    IF c \notin WhiteSpace                THEN Append(out, c)
    ELSE IF out = <<>> \/ Last(out) = "space" THEN out
    ELSE Append(out, "space")

Collapsing(s) ==
    LET out[n \in 0 .. Len(s)] == IF n = 0 THEN <<>> ELSE PutCharacter(out[n - 1], s[n])
    IN  out

CollapseSpaces(s) == Collapsing(s)[Len(s)]

\* Variant: white space inside is kept.
NormalizeEnds(q) == ToLower(Trim(q, WhiteSpace))

NormalizeQuery(q) ==
    TrimRight(CollapseSpaces(ToLower(Trim(q, WhiteSpace))), {"space"})

\* Search answers a blank query with the home page before and after normalising.
IsHome(q) == Trim(q, WhiteSpace) = <<>> \/ NormalizeQuery(q) = <<>>
=============================================================================
