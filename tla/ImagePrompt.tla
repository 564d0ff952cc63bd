---------------------------- MODULE ImagePrompt ----------------------------
(***************************************************************************)
(* How the path of an image becomes a prompt (handleImage and              *)
(* imagePathToPrompt): the prompt is sent to the model, and its hash names *)
(* the file in the image store.                                            *)
(*                                                                         *)
(* A path is a sequence of characters; a byte that is no UTF-8 is "bad".   *)
(***************************************************************************)
EXTENDS QueryText

CONSTANTS
    PathBytes,      \* imagePathMaxBytes
    Refused         \* no prompt

ASSUME PathAssumption == PathBytes \in Nat

\* The bytes written with the digits that occur in the instance; a byte from
\* 128 on is not UTF-8 by itself.
Byte(high, low) ==
    CASE <<high, low>> = <<"2", "2">> -> "quote"
      [] <<high, low>> = <<"2", "5">> -> "%"
      [] <<high, low>> = <<"2", "F">> -> "/"
      [] <<high, low>> = <<"5", "2">> -> "R"
      [] <<high, low>> = <<"5", "5">> -> "U"
      [] <<high, low>> = <<"5", "F">> -> "_"
      [] high = "F"                   -> "bad"

Hex == {"2", "5", "F"}

Bytes == {Byte(high, low) : high \in Hex, low \in Hex}

\* What is decoded from i on, and the percent signs that are met there.
Decoding(s) ==
    LET from[i \in 1 .. Len(s) + 3] ==
            IF i > Len(s) THEN <<>>
            ELSE IF s[i] # "%" THEN <<s[i]>> \o from[i + 1]
            ELSE <<Byte(s[i + 1], s[i + 2])>> \o from[i + 3]
    IN  from

Percents(s) ==
    LET from[i \in 1 .. Len(s) + 3] ==
            IF i > Len(s) THEN {}
            ELSE IF s[i] # "%" THEN from[i + 1]
            ELSE {i} \cup from[i + 3]
    IN  from

\* url.PathUnescape: each percent sign with the two digits behind it becomes one
\* byte; a percent sign without them is an error.
PathUnescape(s) ==
    IF \A i \in Percents(s)[1] : i + 2 <= Len(s) /\ s[i + 1] \in Hex /\ s[i + 2] \in Hex
    THEN Decoding(s)[1] ELSE Refused

\* Variant: a slash is kept.
ToSpacesKebab(s) == [i \in DOMAIN s |-> IF s[i] = "-" THEN "space" ELSE s[i]]

ToSpaces(s) == [i \in DOMAIN s |-> IF s[i] \in {"-", "/"} THEN "space" ELSE s[i]]

Normalise(decoded) == TrimRight(CollapseSpaces(ToLower(ToSpaces(decoded))), {"space"})

IsUTF8(s) == \A i \in DOMAIN s : s[i] # "bad"

\* A decoded path that is UTF-8 and normalises to something is a prompt.
ToPrompt(decoded) ==
    IF decoded = Refused          THEN Refused
    ELSE IF ~IsUTF8(decoded)      THEN Refused
    ELSE IF Normalise(decoded) = <<>> THEN Refused
    ELSE Normalise(decoded)

ImagePathToPrompt(raw) == ToPrompt(PathUnescape(raw))

\* handleImage: its path has been decoded by net/http already (r.URL.Path).
HandlePath(path) == IF Len(path) > PathBytes THEN Refused ELSE ImagePathToPrompt(path)

\* What a browser requests, and what the handler makes of it.
Requested(escaped) ==
    LET path == PathUnescape(escaped)
    IN  IF path = Refused THEN Refused ELSE HandlePath(path)
=============================================================================
