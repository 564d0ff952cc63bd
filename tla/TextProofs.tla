----------------------------- MODULE TextProofs -----------------------------
(***************************************************************************)
(* The conversions of text do what Texts asks of them on inputs of every   *)
(* length over every alphabet. Each loop is a recursive function on 0 ..   *)
(* Len(s) (InductionLemmas says that it exists, and what it computes): the *)
(* lemmas show what one turn of a loop keeps, then what is there after the *)
(* last. A set of the n that are fine stands for the induction hypothesis. *)
(***************************************************************************)
EXTENDS Texts, InductionLemmas, SequenceTheorems

-----------------------------------------------------------------------------
(* The loops: what each has written after n steps.                         *)

\* What a turn of the loop of CollapseSpaces writes is a text.
LEMMA PutCharacterType ==
    ASSUME NEW T, "space" \in T, NEW out \in Seq(T), NEW c \in T
    PROVE  PutCharacter(out, c) \in Seq(T)
  BY DEF PutCharacter

\* CollapseSpaces.
LEMMA CollapsingIs ==
    ASSUME NEW T, "space" \in T, NEW s \in Seq(T)
    PROVE  /\ Collapsing(s) \in [0 .. Len(s) -> Seq(T)]
           /\ Collapsing(s)[0] = <<>>
           /\ \A n \in 1 .. Len(s) : Collapsing(s)[n] = PutCharacter(Collapsing(s)[n - 1], s[n])
<1> DEFINE Computed(f) ==
              f = [n \in 0 .. Len(s) |-> IF n = 0 THEN <<>> ELSE PutCharacter(f[n - 1], s[n])]
           step == [x \in Seq(T) \X (1 .. Len(s)) |-> PutCharacter(x[1], s[x[2]])]
           loop == Collapsing(s)
<1>1. step \in [Seq(T) \X (1 .. Len(s)) -> Seq(T)]
  <2>1. ASSUME NEW x \in Seq(T) \X (1 .. Len(s))
        PROVE  PutCharacter(x[1], s[x[2]]) \in Seq(T)
    <3>1. x[1] \in Seq(T) /\ s[x[2]] \in T
      OBVIOUS
    <3> QED
      BY <3>1, PutCharacterType
  <2> QED
    BY <2>1
<1>2. PICK out : IsLoop(out, Len(s), Seq(T), <<>>, step)
  <2>1. Len(s) \in Nat /\ <<>> \in Seq(T)
    OBVIOUS
  <2> HIDE DEF step
  <2> QED
    BY <1>1, <2>1, LoopExists
<1>3. Computed(out)
  <2>1. out \in [0 .. Len(s) -> Seq(T)] /\ out[0] = <<>>
    BY <1>2 DEF IsLoop
  <2>2. ASSUME NEW n \in 1 .. Len(s)
        PROVE  out[n] = PutCharacter(out[n - 1], s[n])
    <3>1. out[n - 1] \in Seq(T)
      BY <2>1
    <3> QED
      BY <1>2, <3>1 DEF IsLoop
  <2> QED
    BY <2>1, <2>2
<1>4. Computed(loop)
  <2>1. loop = CHOOSE f : Computed(f)
    BY DEF Collapsing
  <2> HIDE DEF Computed, loop
  <2> QED
    BY <1>3, <2>1
<1> HIDE DEF loop
<1>5. /\ loop[0] = <<>>
      /\ \A n \in 1 .. Len(s) : loop[n] = PutCharacter(loop[n - 1], s[n])
  BY <1>4
<1>6. \A n \in 0 .. Len(s) : loop[n] \in Seq(T)
  <2>1. loop[0] \in Seq(T)
    BY <1>5
  <2>2. ASSUME NEW n \in 1 .. Len(s), loop[n - 1] \in Seq(T)
        PROVE  loop[n] \in Seq(T)
    <3>1. s[n] \in T
      OBVIOUS
    <3> QED
      BY <1>5, <2>2, <3>1, PutCharacterType
  <2>3. Len(s) \in Nat
    OBVIOUS
  <2> HIDE DEF Computed, step
  <2> QED
    BY <2>1, <2>2, <2>3, Throughout
<1> QED
  BY <1>4, <1>5, <1>6 DEF loop

\* The same for Squeeze.
LEMMA PutOrMarkType ==
    ASSUME NEW T, NEW run, NEW mark \in T, NEW out \in Seq(T), NEW c \in T
    PROVE  PutOrMark(out, c, run, mark) \in Seq(T)
  BY DEF PutOrMark

Squeezes(loop, s, run, mark, T) ==
    /\ loop \in [0 .. Len(s) -> Seq(T)]
    /\ loop[0] = <<>>
    /\ \A n \in 1 .. Len(s) : loop[n] = PutOrMark(loop[n - 1], s[n], run, mark)

\* Squeeze.
LEMMA SqueezingIs ==
    ASSUME NEW T, NEW run, NEW mark \in T, NEW s \in Seq(T)
    PROVE  Squeezes(Squeezing(s, run, mark), s, run, mark, T)
<1> DEFINE Computed(f) ==
              f = [n \in 0 .. Len(s) |-> IF n = 0 THEN <<>> ELSE PutOrMark(f[n - 1], s[n], run, mark)]
           step == [x \in Seq(T) \X (1 .. Len(s)) |-> PutOrMark(x[1], s[x[2]], run, mark)]
           loop == Squeezing(s, run, mark)
<1>1. step \in [Seq(T) \X (1 .. Len(s)) -> Seq(T)]
  <2>1. ASSUME NEW x \in Seq(T) \X (1 .. Len(s))
        PROVE  PutOrMark(x[1], s[x[2]], run, mark) \in Seq(T)
    <3>1. x[1] \in Seq(T) /\ s[x[2]] \in T
      OBVIOUS
    <3> QED
      BY <3>1, PutOrMarkType
  <2> QED
    BY <2>1
<1>2. PICK out : IsLoop(out, Len(s), Seq(T), <<>>, step)
  <2>1. Len(s) \in Nat /\ <<>> \in Seq(T)
    OBVIOUS
  <2> HIDE DEF step
  <2> QED
    BY <1>1, <2>1, LoopExists
<1>3. Computed(out)
  <2>1. out \in [0 .. Len(s) -> Seq(T)] /\ out[0] = <<>>
    BY <1>2 DEF IsLoop
  <2>2. ASSUME NEW n \in 1 .. Len(s)
        PROVE  out[n] = PutOrMark(out[n - 1], s[n], run, mark)
    <3>1. out[n - 1] \in Seq(T)
      BY <2>1
    <3> QED
      BY <1>2, <3>1 DEF IsLoop
  <2> QED
    BY <2>1, <2>2
<1>4. Computed(loop)
  <2>1. loop = CHOOSE f : Computed(f)
    BY DEF Squeezing
  <2> HIDE DEF Computed, loop
  <2> QED
    BY <1>3, <2>1
<1> HIDE DEF loop
<1>5. /\ loop[0] = <<>>
      /\ \A n \in 1 .. Len(s) : loop[n] = PutOrMark(loop[n - 1], s[n], run, mark)
  BY <1>4
<1>6. \A n \in 0 .. Len(s) : loop[n] \in Seq(T)
  <2>1. loop[0] \in Seq(T)
    BY <1>5
  <2>2. ASSUME NEW n \in 1 .. Len(s), loop[n - 1] \in Seq(T)
        PROVE  loop[n] \in Seq(T)
    <3>1. s[n] \in T
      OBVIOUS
    <3> QED
      BY <1>5, <2>2, <3>1, PutOrMarkType
  <2>3. Len(s) \in Nat
    OBVIOUS
  <2> HIDE DEF Computed, step
  <2> QED
    BY <2>1, <2>2, <2>3, Throughout
<1> QED
  BY <1>4, <1>5, <1>6 DEF loop, Squeezes

\* The same for Solid.
LEMMA PutLetterType ==
    ASSUME NEW T, NEW out \in Seq(T), NEW c \in T
    PROVE  PutLetter(out, c) \in Seq(T)
  BY DEF PutLetter

\* Solid.
LEMMA PickingIs ==
    ASSUME NEW T, NEW s \in Seq(T)
    PROVE  /\ Picking(s) \in [0 .. Len(s) -> Seq(T)]
           /\ Picking(s)[0] = <<>>
           /\ \A n \in 1 .. Len(s) : Picking(s)[n] = PutLetter(Picking(s)[n - 1], s[n])
<1> DEFINE Computed(f) ==
              f = [n \in 0 .. Len(s) |-> IF n = 0 THEN <<>> ELSE PutLetter(f[n - 1], s[n])]
           step == [x \in Seq(T) \X (1 .. Len(s)) |-> PutLetter(x[1], s[x[2]])]
           loop == Picking(s)
<1>1. step \in [Seq(T) \X (1 .. Len(s)) -> Seq(T)]
  <2>1. ASSUME NEW x \in Seq(T) \X (1 .. Len(s))
        PROVE  PutLetter(x[1], s[x[2]]) \in Seq(T)
    <3>1. x[1] \in Seq(T) /\ s[x[2]] \in T
      OBVIOUS
    <3> QED
      BY <3>1, PutLetterType
  <2> QED
    BY <2>1
<1>2. PICK out : IsLoop(out, Len(s), Seq(T), <<>>, step)
  <2>1. Len(s) \in Nat /\ <<>> \in Seq(T)
    OBVIOUS
  <2> HIDE DEF step
  <2> QED
    BY <1>1, <2>1, LoopExists
<1>3. Computed(out)
  <2>1. out \in [0 .. Len(s) -> Seq(T)] /\ out[0] = <<>>
    BY <1>2 DEF IsLoop
  <2>2. ASSUME NEW n \in 1 .. Len(s)
        PROVE  out[n] = PutLetter(out[n - 1], s[n])
    <3>1. out[n - 1] \in Seq(T)
      BY <2>1
    <3> QED
      BY <1>2, <3>1 DEF IsLoop
  <2> QED
    BY <2>1, <2>2
<1>4. Computed(loop)
  <2>1. loop = CHOOSE f : Computed(f)
    BY DEF Picking
  <2> HIDE DEF Computed, loop
  <2> QED
    BY <1>3, <2>1
<1> HIDE DEF loop
<1>5. /\ loop[0] = <<>>
      /\ \A n \in 1 .. Len(s) : loop[n] = PutLetter(loop[n - 1], s[n])
  BY <1>4
<1>6. \A n \in 0 .. Len(s) : loop[n] \in Seq(T)
  <2>1. loop[0] \in Seq(T)
    BY <1>5
  <2>2. ASSUME NEW n \in 1 .. Len(s), loop[n - 1] \in Seq(T)
        PROVE  loop[n] \in Seq(T)
    <3>1. s[n] \in T
      OBVIOUS
    <3> QED
      BY <1>5, <2>2, <3>1, PutLetterType
  <2>3. Len(s) \in Nat
    OBVIOUS
  <2> HIDE DEF Computed, step
  <2> QED
    BY <2>1, <2>2, <2>3, Throughout
<1> QED
  BY <1>4, <1>5, <1>6 DEF loop

\* The same for Respaced.
LEMMA PutWiderType ==
    ASSUME NEW T, "space" \in T, "tab" \in T, NEW out \in Seq(T), NEW c \in T
    PROVE  PutWider(out, c) \in Seq(T)
  BY DEF PutWider

\* Respaced.
LEMMA RespacingIs ==
    ASSUME NEW T, "space" \in T, "tab" \in T, NEW s \in Seq(T)
    PROVE  /\ Respacing(s) \in [0 .. Len(s) -> Seq(T)]
           /\ Respacing(s)[0] = <<>>
           /\ \A n \in 1 .. Len(s) : Respacing(s)[n] = PutWider(Respacing(s)[n - 1], s[n])
<1> DEFINE Computed(f) ==
              f = [n \in 0 .. Len(s) |-> IF n = 0 THEN <<>> ELSE PutWider(f[n - 1], s[n])]
           step == [x \in Seq(T) \X (1 .. Len(s)) |-> PutWider(x[1], s[x[2]])]
           loop == Respacing(s)
<1>1. step \in [Seq(T) \X (1 .. Len(s)) -> Seq(T)]
  <2>1. ASSUME NEW x \in Seq(T) \X (1 .. Len(s))
        PROVE  PutWider(x[1], s[x[2]]) \in Seq(T)
    <3>1. x[1] \in Seq(T) /\ s[x[2]] \in T
      OBVIOUS
    <3> QED
      BY <3>1, PutWiderType
  <2> QED
    BY <2>1
<1>2. PICK out : IsLoop(out, Len(s), Seq(T), <<>>, step)
  <2>1. Len(s) \in Nat /\ <<>> \in Seq(T)
    OBVIOUS
  <2> HIDE DEF step
  <2> QED
    BY <1>1, <2>1, LoopExists
<1>3. Computed(out)
  <2>1. out \in [0 .. Len(s) -> Seq(T)] /\ out[0] = <<>>
    BY <1>2 DEF IsLoop
  <2>2. ASSUME NEW n \in 1 .. Len(s)
        PROVE  out[n] = PutWider(out[n - 1], s[n])
    <3>1. out[n - 1] \in Seq(T)
      BY <2>1
    <3> QED
      BY <1>2, <3>1 DEF IsLoop
  <2> QED
    BY <2>1, <2>2
<1>4. Computed(loop)
  <2>1. loop = CHOOSE f : Computed(f)
    BY DEF Respacing
  <2> HIDE DEF Computed, loop
  <2> QED
    BY <1>3, <2>1
<1> HIDE DEF loop
<1>5. /\ loop[0] = <<>>
      /\ \A n \in 1 .. Len(s) : loop[n] = PutWider(loop[n - 1], s[n])
  BY <1>4
<1>6. \A n \in 0 .. Len(s) : loop[n] \in Seq(T)
  <2>1. loop[0] \in Seq(T)
    BY <1>5
  <2>2. ASSUME NEW n \in 1 .. Len(s), loop[n - 1] \in Seq(T)
        PROVE  loop[n] \in Seq(T)
    <3>1. s[n] \in T
      OBVIOUS
    <3> QED
      BY <1>5, <2>2, <3>1, PutWiderType
  <2>3. Len(s) \in Nat
    OBVIOUS
  <2> HIDE DEF Computed, step
  <2> QED
    BY <2>1, <2>2, <2>3, Throughout
<1> QED
  BY <1>4, <1>5, <1>6 DEF loop

\* The same for Output.
LEMMA PutTextType ==
    ASSUME NEW T, NEW out \in Seq(T), NEW c \in T
    PROVE  PutText(out, c) \in Seq(T)
  BY DEF PutText

\* Output.
LEMMA WritingIs ==
    ASSUME NEW T, NEW s \in Seq(T)
    PROVE  /\ Writing(s) \in [0 .. Len(s) -> Seq(T)]
           /\ Writing(s)[0] = <<>>
           /\ \A n \in 1 .. Len(s) : Writing(s)[n] = PutText(Writing(s)[n - 1], s[n])
<1> DEFINE Computed(f) ==
              f = [n \in 0 .. Len(s) |-> IF n = 0 THEN <<>> ELSE PutText(f[n - 1], s[n])]
           step == [x \in Seq(T) \X (1 .. Len(s)) |-> PutText(x[1], s[x[2]])]
           loop == Writing(s)
<1>1. step \in [Seq(T) \X (1 .. Len(s)) -> Seq(T)]
  <2>1. ASSUME NEW x \in Seq(T) \X (1 .. Len(s))
        PROVE  PutText(x[1], s[x[2]]) \in Seq(T)
    <3>1. x[1] \in Seq(T) /\ s[x[2]] \in T
      OBVIOUS
    <3> QED
      BY <3>1, PutTextType
  <2> QED
    BY <2>1
<1>2. PICK out : IsLoop(out, Len(s), Seq(T), <<>>, step)
  <2>1. Len(s) \in Nat /\ <<>> \in Seq(T)
    OBVIOUS
  <2> HIDE DEF step
  <2> QED
    BY <1>1, <2>1, LoopExists
<1>3. Computed(out)
  <2>1. out \in [0 .. Len(s) -> Seq(T)] /\ out[0] = <<>>
    BY <1>2 DEF IsLoop
  <2>2. ASSUME NEW n \in 1 .. Len(s)
        PROVE  out[n] = PutText(out[n - 1], s[n])
    <3>1. out[n - 1] \in Seq(T)
      BY <2>1
    <3> QED
      BY <1>2, <3>1 DEF IsLoop
  <2> QED
    BY <2>1, <2>2
<1>4. Computed(loop)
  <2>1. loop = CHOOSE f : Computed(f)
    BY DEF Writing
  <2> HIDE DEF Computed, loop
  <2> QED
    BY <1>3, <2>1
<1> HIDE DEF loop
<1>5. /\ loop[0] = <<>>
      /\ \A n \in 1 .. Len(s) : loop[n] = PutText(loop[n - 1], s[n])
  BY <1>4
<1>6. \A n \in 0 .. Len(s) : loop[n] \in Seq(T)
  <2>1. loop[0] \in Seq(T)
    BY <1>5
  <2>2. ASSUME NEW n \in 1 .. Len(s), loop[n - 1] \in Seq(T)
        PROVE  loop[n] \in Seq(T)
    <3>1. s[n] \in T
      OBVIOUS
    <3> QED
      BY <1>5, <2>2, <3>1, PutTextType
  <2>3. Len(s) \in Nat
    OBVIOUS
  <2> HIDE DEF Computed, step
  <2> QED
    BY <2>1, <2>2, <2>3, Throughout
<1> QED
  BY <1>4, <1>5, <1>6 DEF loop

-----------------------------------------------------------------------------
(* Cutting and lower case.                                                 *)

\* t is what s has between two places.
IsPart(t, s, lo, hi) ==
    /\ Len(t) = hi - lo + 1
    /\ \A i \in 1 .. Len(t) : t[i] = s[lo + i - 1]

\* What lies between two places of a text.
LEMMA SubSeqIs ==
    ASSUME NEW T, NEW s \in Seq(T), NEW lo \in 1 .. Len(s), NEW hi \in 1 .. Len(s), lo <= hi
    PROVE  /\ SubSeq(s, lo, hi) \in Seq(T)
           /\ IsPart(SubSeq(s, lo, hi), s, lo, hi)
<1>1. \A i \in lo .. hi : s[i] \in T
  OBVIOUS
<1>2. /\ SubSeq(s, lo, hi) \in Seq(T)
      /\ Len(SubSeq(s, lo, hi)) = hi - lo + 1
      /\ \A i \in 1 .. hi - lo + 1 : SubSeq(s, lo, hi)[i] = s[lo + i - 1]
  BY <1>1, SubSeqProperties
<1> QED
  BY <1>2 DEF IsPart

\* What a text begins with.
LEMMA PrefixIs ==
    ASSUME NEW T, NEW s \in Seq(T), NEW hi \in 1 .. Len(s)
    PROVE  /\ SubSeq(s, 1, hi) \in Seq(T)
           /\ Len(SubSeq(s, 1, hi)) = hi
           /\ \A i \in 1 .. hi : SubSeq(s, 1, hi)[i] = s[i]
<1>1. 1 \in 1 .. Len(s) /\ 1 <= hi
  OBVIOUS
<1>2. SubSeq(s, 1, hi) \in Seq(T) /\ IsPart(SubSeq(s, 1, hi), s, 1, hi)
  BY <1>1, SubSeqIs
<1> DEFINE t == SubSeq(s, 1, hi)
<1>3. Len(t) = hi
  <2> HIDE DEF t
  <2>1. Len(t) = hi - 1 + 1
    BY <1>2 DEF IsPart, t
  <2> QED
    BY <2>1
<1>4. ASSUME NEW i \in 1 .. hi
      PROVE  t[i] = s[i]
  <2>1. t[i] = s[1 + i - 1] /\ 1 + i - 1 = i
    BY <1>2, <1>3 DEF IsPart
  <2> QED
    BY <2>1
<1> QED
  BY <1>2, <1>3, <1>4

\* Nothing but what is cut lies around a part that begins and ends with what is not.
IsCore(s, cut, lo, hi) ==
    /\ lo \in 1 .. Len(s) /\ hi \in 1 .. Len(s) /\ lo <= hi
    /\ s[lo] \notin cut /\ s[hi] \notin cut
    /\ \A i \in 1 .. Len(s) : i < lo \/ i > hi => s[i] \in cut

\* Trim cuts down to the core, the part between the outermost characters that stay.
LEMMA TrimTo ==
    ASSUME NEW T, NEW s \in Seq(T), NEW cut, NEW lo, NEW hi, IsCore(s, cut, lo, hi)
    PROVE  Trim(s, cut) = SubSeq(s, lo, hi)
<1> DEFINE kept == {i \in DOMAIN s : s[i] \notin cut}
<1>1. kept \in SUBSET (1 .. Len(s)) /\ kept # {} /\ lo \in kept /\ hi \in kept
  BY DEF IsCore
<1>2. \A i \in kept : lo <= i /\ i <= hi
  BY DEF IsCore
<1>3. /\ Max(kept) \in kept /\ Min(kept) \in kept
      /\ \A n \in kept : n <= Max(kept) /\ Min(kept) <= n
  <2> HIDE DEF kept
  <2>1. Len(s) \in Nat
    OBVIOUS
  <2> QED
    BY <1>1, <2>1, MaxIs, MinIs
<1>4. Min(kept) = lo /\ Max(kept) = hi
  <2> DEFINE least == Min(kept)
             largest == Max(kept)
  <2>1. least \in Nat /\ largest \in Nat /\ lo \in Nat /\ hi \in Nat
    BY <1>1, <1>3
  <2>2. lo <= least /\ least <= lo /\ hi <= largest /\ largest <= hi
    BY <1>1, <1>2, <1>3
  <2> HIDE DEF least, largest
  <2>3. least = lo /\ largest = hi
    BY <2>1, <2>2
  <2> QED
    BY <2>3 DEF least, largest
<1> QED
  BY <1>1, <1>4 DEF Trim

\* There is nothing to stay, or a core.
LEMMA TrimIs ==
    ASSUME NEW T, NEW s \in Seq(T), NEW cut
    PROVE  \/ /\ \A i \in 1 .. Len(s) : s[i] \in cut
              /\ Trim(s, cut) = <<>>
           \/ \E lo, hi : IsCore(s, cut, lo, hi)
<1> DEFINE kept == {i \in DOMAIN s : s[i] \notin cut}
<1>1. CASE kept = {}
  BY <1>1 DEF Trim
<1>2. CASE kept # {}
  <2>1. kept \in SUBSET (1 .. Len(s)) /\ Len(s) \in Nat
    OBVIOUS
  <2>2. /\ Max(kept) \in kept /\ Min(kept) \in kept
        /\ \A n \in kept : n <= Max(kept) /\ Min(kept) <= n
    <3> HIDE DEF kept
    <3> QED
      BY <1>2, <2>1, MaxIs, MinIs
  <2> DEFINE lo == Min(kept)
             hi == Max(kept)
  <2> HIDE DEF lo, hi
  <2>3. lo \in kept /\ hi \in kept /\ \A n \in kept : n <= hi /\ lo <= n
    BY <2>2 DEF lo, hi
  <2>4. IsCore(s, cut, lo, hi)
    BY <2>3 DEF IsCore
  <2> QED
    BY <2>4
<1> QED
  BY <1>1, <1>2

\* The same on the right only.
LEMMA TrimRightIs ==
    ASSUME NEW T, NEW s \in Seq(T), NEW cut
    PROVE  \/ /\ \A i \in 1 .. Len(s) : s[i] \in cut
              /\ TrimRight(s, cut) = <<>>
           \/ \E hi \in 1 .. Len(s) :
                 /\ s[hi] \notin cut
                 /\ \A i \in 1 .. Len(s) : i > hi => s[i] \in cut
                 /\ TrimRight(s, cut) = SubSeq(s, 1, hi)
<1> DEFINE kept == {i \in DOMAIN s : s[i] \notin cut}
<1>1. CASE kept = {}
  BY <1>1 DEF TrimRight
<1>2. CASE kept # {}
  <2>1. kept \in SUBSET (1 .. Len(s)) /\ Len(s) \in Nat
    OBVIOUS
  <2>2. Max(kept) \in kept /\ \A n \in kept : n <= Max(kept)
    <3> HIDE DEF kept
    <3> QED
      BY <1>2, <2>1, MaxIs
  <2>3. TrimRight(s, cut) = SubSeq(s, 1, Max(kept))
    BY <1>2 DEF TrimRight
  <2> DEFINE hi == Max(kept)
  <2> HIDE DEF hi
  <2>4. hi \in kept /\ \A n \in kept : n <= hi
    BY <2>2 DEF hi
  <2>5. TrimRight(s, cut) = SubSeq(s, 1, hi)
    BY <2>3 DEF hi
  <2> QED
    BY <2>4, <2>5
<1> QED
  BY <1>1, <1>2

\* What ends with something that stays is not trimmed on the right.
LEMMA TrimRightFull ==
    ASSUME NEW T, NEW s \in Seq(T), NEW cut, s # <<>> => s[Len(s)] \notin cut
    PROVE  TrimRight(s, cut) = s
<1>1. CASE s = <<>>
  <2>1. {i \in DOMAIN s : s[i] \notin cut} = {}
    BY <1>1
  <2> QED
    BY <1>1, <2>1 DEF TrimRight
<1>2. CASE s # <<>>
  <2>1. Len(s) \in 1 .. Len(s)
    BY <1>2
  <2>2. PICK hi \in 1 .. Len(s) :
           /\ \A i \in 1 .. Len(s) : i > hi => s[i] \in cut
           /\ TrimRight(s, cut) = SubSeq(s, 1, hi)
    BY <1>2, <2>1, TrimRightIs
  <2>3. hi = Len(s)
    BY <1>2, <2>1, <2>2
  <2> QED
    BY <2>2, <2>3, SubSeqFull
<1> QED
  BY <1>1, <1>2

\* Letters in lower case.
Lowered(T) == (T \ DOMAIN LowerCase) \cup {"a", "r", "u", "f", "w"}

\* The letters that have an upper case.
LEMMA LowerCaseIs ==
    /\ DOMAIN LowerCase = {"A", "R", "U", "F", "W"}
    /\ \A c \in DOMAIN LowerCase : LowerCase[c] \in {"a", "r", "u", "f", "w"}
  BY DEF LowerCase

\* A text in lower case, place by place.
LEMMA ToLowerIs ==
    ASSUME NEW T, NEW s \in Seq(T)
    PROVE  /\ ToLower(s) \in Seq(Lowered(T))
           /\ Len(ToLower(s)) = Len(s)
           /\ \A i \in 1 .. Len(s) :
                 ToLower(s)[i] = IF s[i] \in DOMAIN LowerCase THEN LowerCase[s[i]] ELSE s[i]
           /\ \A i \in 1 .. Len(s) : ToLower(s)[i] \in WhiteSpace <=> s[i] \in WhiteSpace
<1> DEFINE low(c) == IF c \in DOMAIN LowerCase THEN LowerCase[c] ELSE c
<1>1. ASSUME NEW i \in 1 .. Len(s)
      PROVE  /\ low(s[i]) \in Lowered(T)
             /\ low(s[i]) \in WhiteSpace <=> s[i] \in WhiteSpace
  <2>1. s[i] \in T
    OBVIOUS
  <2> HIDE DEF WhiteSpace
  <2>2. low(s[i]) \in Lowered(T)
    BY <2>1, LowerCaseIs DEF Lowered
  <2>3. low(s[i]) \in WhiteSpace <=> s[i] \in WhiteSpace
    <3>1. CASE s[i] \in DOMAIN LowerCase
      <4>1. s[i] \notin WhiteSpace
        BY <3>1, LowerCaseIs DEF WhiteSpace
      <4>2. low(s[i]) \notin WhiteSpace
        BY <3>1, LowerCaseIs DEF WhiteSpace
      <4> QED
        BY <4>1, <4>2
    <3>2. CASE s[i] \notin DOMAIN LowerCase
      BY <3>2
    <3> QED
      BY <3>1, <3>2
  <2> QED
    BY <2>2, <2>3
<1>2. ToLower(s) = [i \in 1 .. Len(s) |-> low(s[i])]
  BY DEF ToLower
<1> HIDE DEF low
<1>3. /\ \A i \in 1 .. Len(s) : ToLower(s)[i] = low(s[i])
      /\ ToLower(s) \in [1 .. Len(s) -> Lowered(T)]
  BY <1>1, <1>2
<1>4. ToLower(s) \in Seq(Lowered(T)) /\ Len(ToLower(s)) = Len(s)
  BY <1>3
<1>5. \A i \in 1 .. Len(s) : ToLower(s)[i] \in WhiteSpace <=> s[i] \in WhiteSpace
  BY <1>1, <1>3
<1> QED
  BY <1>3, <1>4, <1>5 DEF low

\* Text in lower case stays as it is.
LEMMA ToLowerFull ==
    ASSUME NEW T, NEW s \in Seq(T), \A i \in 1 .. Len(s) : s[i] \notin DOMAIN LowerCase
    PROVE  ToLower(s) = s
  BY DEF ToLower

-----------------------------------------------------------------------------
(* White space collapsed: what NormalizeQuery and Normalise have in common. *)

IsCollapsed(s) ==
    \A i \in 1 .. Len(s) : s[i] \in WhiteSpace => s[i] = "space" /\ i > 1 /\ s[i - 1] # "space"

\* One turn of CollapseSpaces leaves what is written collapsed.
LEMMA PutCharacterKeeps ==
    ASSUME NEW T, "space" \in T, NEW out \in Seq(T), NEW c \in T, IsCollapsed(out)
    PROVE  IsCollapsed(PutCharacter(out, c)) /\ Len(PutCharacter(out, c)) <= Len(out) + 1
<1>1. CASE PutCharacter(out, c) = out
  BY <1>1
<1>2. CASE PutCharacter(out, c) = Append(out, c) /\ c \notin WhiteSpace
  <2>1. ASSUME NEW i \in 1 .. Len(Append(out, c)), Append(out, c)[i] \in WhiteSpace
        PROVE  Append(out, c)[i] = "space" /\ i > 1 /\ Append(out, c)[i - 1] # "space"
    <3>1. i \in 1 .. Len(out) /\ Append(out, c)[i] = out[i]
      BY <1>2, <2>1
    <3>2. out[i] = "space" /\ i > 1 /\ out[i - 1] # "space"
      BY <2>1, <3>1 DEF IsCollapsed
    <3> QED
      BY <3>1, <3>2
  <2> QED
    BY <1>2, <2>1 DEF IsCollapsed
<1>3. CASE PutCharacter(out, c) = Append(out, "space") /\ out # <<>> /\ Last(out) # "space"
  <2>1. ASSUME NEW i \in 1 .. Len(Append(out, "space")), Append(out, "space")[i] \in WhiteSpace
        PROVE  Append(out, "space")[i] = "space" /\ i > 1 /\ Append(out, "space")[i - 1] # "space"
    <3>1. CASE i \in 1 .. Len(out)
      <4>1. Append(out, "space")[i] = out[i]
        BY <3>1
      <4>2. out[i] = "space" /\ i > 1 /\ out[i - 1] # "space"
        BY <2>1, <3>1, <4>1 DEF IsCollapsed
      <4> QED
        BY <3>1, <4>1, <4>2
    <3>2. CASE i = Len(out) + 1
      <4>1. Len(out) \in Nat \ {0} /\ out[Len(out)] # "space"
        BY <1>3 DEF Last
      <4> QED
        BY <3>2, <4>1
    <3> QED
      BY <3>1, <3>2
  <2> QED
    BY <1>3, <2>1 DEF IsCollapsed
<1> QED
  BY <1>1, <1>2, <1>3 DEF PutCharacter

\* What CollapseSpaces writes is collapsed, and not longer than what it has read.
LEMMA CollapsedIs ==
    ASSUME NEW T, "space" \in T, NEW s \in Seq(T), NEW n \in 0 .. Len(s)
    PROVE  IsCollapsed(Collapsing(s)[n]) /\ Len(Collapsing(s)[n]) <= n
<1> DEFINE loop == Collapsing(s)
           Fine == {k \in 0 .. Len(s) : IsCollapsed(loop[k]) /\ Len(loop[k]) <= k}
<1>1. /\ loop \in [0 .. Len(s) -> Seq(T)]
      /\ loop[0] = <<>>
      /\ \A k \in 1 .. Len(s) : loop[k] = PutCharacter(loop[k - 1], s[k])
  BY CollapsingIs
<1> HIDE DEF loop
<1>2. 0 \in Fine
  BY <1>1 DEF IsCollapsed
<1>3. ASSUME NEW k \in 1 .. Len(s), k - 1 \in Fine
      PROVE  k \in Fine
  <2>1. loop[k - 1] \in Seq(T) /\ s[k] \in T /\ loop[k] \in Seq(T)
    BY <1>1
  <2>2. IsCollapsed(loop[k]) /\ Len(loop[k]) <= Len(loop[k - 1]) + 1
    BY <1>1, <1>3, <2>1, PutCharacterKeeps
  <2> QED
    BY <1>3, <2>1, <2>2
<1>4. Len(s) \in Nat
  OBVIOUS
<1>5. 0 .. Len(s) \subseteq Fine
  <2> HIDE DEF Fine
  <2> QED
    BY <1>2, <1>3, <1>4, BoundedInduction
<1> QED
  BY <1>5 DEF loop

\* Collapsed text stays as it is.
LEMMA CollapseFull ==
    ASSUME NEW T, "space" \in T, NEW s \in Seq(T), IsCollapsed(s)
    PROVE  CollapseSpaces(s) = s
<1> DEFINE loop == Collapsing(s)
           Fine == {n \in 0 .. Len(s) :
                      Len(loop[n]) = n /\ \A i \in 1 .. n : loop[n][i] = s[i]}
<1>1. /\ loop \in [0 .. Len(s) -> Seq(T)]
      /\ loop[0] = <<>>
      /\ \A n \in 1 .. Len(s) : loop[n] = PutCharacter(loop[n - 1], s[n])
  BY CollapsingIs
<1> HIDE DEF loop
<1>2. 0 \in Fine
  BY <1>1
<1>3. ASSUME NEW n \in 1 .. Len(s), n - 1 \in Fine
      PROVE  n \in Fine
  <2> DEFINE out == loop[n - 1]
  <2>1. /\ out \in Seq(T) /\ Len(out) = n - 1
        /\ \A i \in 1 .. n - 1 : out[i] = s[i]
        /\ loop[n] = PutCharacter(out, s[n])
    BY <1>1, <1>3
  <2> HIDE DEF out
  <2>2. loop[n] = Append(out, s[n])
    <3>1. CASE s[n] \notin WhiteSpace
      BY <2>1, <3>1 DEF PutCharacter
    <3>2. CASE s[n] \in WhiteSpace
      <4>1. s[n] = "space" /\ n > 1 /\ s[n - 1] # "space"
        BY <3>2 DEF IsCollapsed
      <4>2. out # <<>> /\ Last(out) # "space"
        <5>1. n - 1 \in 1 .. n - 1 /\ Len(out) = n - 1
          BY <2>1, <4>1
        <5> QED
          BY <2>1, <4>1, <5>1 DEF Last
      <4> QED
        BY <2>1, <3>2, <4>1, <4>2 DEF PutCharacter
    <3> QED
      BY <3>1, <3>2
  <2>3. Len(loop[n]) = n /\ \A i \in 1 .. n : loop[n][i] = s[i]
    BY <2>1, <2>2
  <2> QED
    BY <2>3
<1>4. Len(s) \in Nat
  OBVIOUS
<1>5. 0 .. Len(s) \subseteq Fine
  <2> HIDE DEF Fine
  <2> QED
    BY <1>2, <1>3, <1>4, BoundedInduction
<1>6. Len(s) \in Fine
  BY <1>4, <1>5
<1>7. loop[Len(s)] \in Seq(T)
  BY <1>1, <1>4
<1>8. loop[Len(s)] = s
  <2> DEFINE t == loop[Len(s)]
  <2>1. t \in Seq(T) /\ Len(t) = Len(s) /\ \A i \in 1 .. Len(t) : t[i] = s[i]
    BY <1>6, <1>7
  <2> HIDE DEF t
  <2>2. t = s
    BY <2>1, SeqEqual
  <2> QED
    BY <2>2 DEF t
<1> QED
  BY <1>8 DEF loop, CollapseSpaces

\* The tail of both.
Settle(s) == TrimRight(CollapseSpaces(ToLower(s)), {"space"})

\* A text that is settled is plain.
LEMMA SettledIsPlain ==
    ASSUME NEW T, "space" \in T, NEW s \in Seq(T)
    PROVE  /\ Settle(s) \in Seq(Lowered(T))
           /\ IsPlain(Settle(s))
           /\ Len(Settle(s)) <= Len(s)
<1> DEFINE L == Lowered(T)
           low == ToLower(s)
           c == CollapseSpaces(low)
           t == Settle(s)
<1>1. "space" \in L /\ low \in Seq(L) /\ Len(low) = Len(s)
  BY ToLowerIs, LowerCaseIs DEF Lowered
<1> HIDE DEF L, low
<1>2. c \in Seq(L) /\ IsCollapsed(c) /\ Len(c) <= Len(s)
  <2>1. Len(low) \in 0 .. Len(low)
    BY <1>1
  <2>2. Collapsing(low)[Len(low)] \in Seq(L)
    BY <1>1, <2>1, CollapsingIs
  <2>3. IsCollapsed(Collapsing(low)[Len(low)]) /\ Len(Collapsing(low)[Len(low)]) <= Len(low)
    BY <1>1, <2>1, CollapsedIs
  <2> QED
    BY <1>1, <2>2, <2>3 DEF CollapseSpaces
<1>3. t = TrimRight(c, {"space"})
  BY DEF Settle, low
<1> HIDE DEF c, t
<1>4. CASE t = <<>>
  <2>1. t \in Seq(L) /\ IsPlain(t) /\ Len(t) <= Len(s)
    BY <1>4 DEF IsPlain
  <2> QED
    BY <2>1 DEF t, L
<1>5. CASE t # <<>>
  <2>1. PICK hi \in 1 .. Len(c) : c[hi] # "space" /\ t = SubSeq(c, 1, hi)
    BY <1>2, <1>3, <1>5, TrimRightIs
  <2>4. t \in Seq(L) /\ Len(t) = hi /\ \A i \in 1 .. hi : t[i] = c[i]
    BY <1>2, <2>1, PrefixIs
  <2>5. ASSUME NEW i \in 1 .. hi
        PROVE  /\ t[i] \notin DOMAIN LowerCase
               /\ t[i] \in WhiteSpace => t[i] = "space"
               /\ t[i] = "space" => i # 1 /\ i # hi /\ t[i - 1] # "space"
    <3>1. c[i] \in L /\ t[i] = c[i]
      BY <1>2, <2>4
    <3>2. t[i] \notin DOMAIN LowerCase
      BY <3>1, LowerCaseIs DEF L, Lowered
    <3>3. c[i] \in WhiteSpace => c[i] = "space" /\ i > 1 /\ c[i - 1] # "space"
      BY <1>2 DEF IsCollapsed
    <3>4. "space" \in WhiteSpace
      BY DEF WhiteSpace
    <3>5. ASSUME t[i] = "space"
          PROVE  i # 1 /\ i # hi /\ t[i - 1] # "space"
      <4>1. i > 1 /\ c[i - 1] # "space" /\ i # hi
        BY <2>1, <3>1, <3>3, <3>4, <3>5
      <4>2. i - 1 \in 1 .. hi
        BY <4>1
      <4> QED
        BY <2>4, <4>1, <4>2
    <3> QED
      BY <3>1, <3>2, <3>3, <3>5
  <2>6. IsPlain(t)
    <3>1. DOMAIN t = 1 .. hi /\ Len(t) = hi
      BY <2>4
    <3> QED
      BY <2>5, <3>1 DEF IsPlain
  <2>7. Len(t) <= Len(s)
    BY <1>1, <1>2, <2>4
  <2> QED
    BY <2>4, <2>6, <2>7 DEF t, L
<1> QED
  BY <1>4, <1>5

\* What plain text is, place by place.
LEMMA PlainIs ==
    ASSUME NEW T, NEW s \in Seq(T), IsPlain(s)
    PROVE  /\ IsCollapsed(s)
           /\ \A i \in 1 .. Len(s) : s[i] \notin DOMAIN LowerCase /\ s[i] # "tab"
           /\ s # <<>> => s[1] \notin WhiteSpace /\ s[Len(s)] \notin WhiteSpace
<1>1. ASSUME NEW i \in 1 .. Len(s)
      PROVE  /\ s[i] \notin DOMAIN LowerCase
             /\ s[i] \in WhiteSpace => s[i] = "space"
             /\ s[i] = "space" => i # 1 /\ i # Len(s) /\ s[i - 1] # "space"
  BY DEF IsPlain
<1>2. IsCollapsed(s)
  BY <1>1 DEF IsCollapsed
<1>3. ASSUME s # <<>>
      PROVE  s[1] \notin WhiteSpace /\ s[Len(s)] \notin WhiteSpace
  <2>1. 1 \in 1 .. Len(s) /\ Len(s) \in 1 .. Len(s)
    BY <1>3
  <2> QED
    BY <1>1, <2>1
<1>4. \A i \in 1 .. Len(s) : s[i] \notin DOMAIN LowerCase /\ s[i] # "tab"
  BY <1>1 DEF WhiteSpace
<1> QED
  BY <1>2, <1>3, <1>4

\* Plain text stays as it is.
LEMMA PlainSettles ==
    ASSUME NEW T, "space" \in T, NEW s \in Seq(T), IsPlain(s)
    PROVE  Settle(s) = s
<1>1. ToLower(s) = s
  BY PlainIs, ToLowerFull
<1>2. CollapseSpaces(s) = s
  BY PlainIs, CollapseFull
<1>3. TrimRight(s, {"space"}) = s
  <2>1. s # <<>> => s[Len(s)] \notin {"space"}
    BY PlainIs DEF WhiteSpace
  <2> QED
    BY <2>1, TrimRightFull
<1> QED
  BY <1>1, <1>2, <1>3 DEF Settle

-----------------------------------------------------------------------------
(* Queries.                                                                *)

\* White space has no letters.
LEMMA PickingBlanks ==
    ASSUME NEW T, NEW s \in Seq(T), NEW from \in 0 .. Len(s), NEW to \in 0 .. Len(s),
           from <= to, \A i \in from + 1 .. to : s[i] \in WhiteSpace
    PROVE  Picking(s)[to] = Picking(s)[from]
<1> DEFINE loop == Picking(s)
           Fine == {n \in 0 .. Len(s) : from <= n /\ n <= to => loop[n] = loop[from]}
<1>1. \A n \in 1 .. Len(s) : loop[n] = PutLetter(loop[n - 1], s[n])
  BY PickingIs
<1> HIDE DEF loop
<1>2. 0 \in Fine
  OBVIOUS
<1>3. ASSUME NEW n \in 1 .. Len(s), n - 1 \in Fine
      PROVE  n \in Fine
  <2>1. CASE from < n /\ n <= to
    <3>1. s[n] \in WhiteSpace /\ loop[n - 1] = loop[from]
      BY <1>3, <2>1
    <3>2. loop[n] = loop[from]
      BY <1>1, <3>1 DEF PutLetter
    <3> QED
      BY <3>2
  <2>2. CASE ~(from < n /\ n <= to)
    BY <2>2
  <2> QED
    BY <2>1, <2>2
<1>4. 0 .. Len(s) \subseteq Fine
  <2>1. Len(s) \in Nat
    OBVIOUS
  <2> HIDE DEF Fine
  <2> QED
    BY <1>2, <1>3, <2>1, BoundedInduction
<1> QED
  BY <1>4 DEF loop

\* Where only white space goes before, the letters are those of the part alone.
LEMMA PickingPart ==
    ASSUME NEW T, NEW s \in Seq(T), NEW t \in Seq(T), NEW k \in 0 .. Len(s),
           k + Len(t) <= Len(s), Picking(s)[k] = <<>>,
           \A i \in 1 .. Len(t) : t[i] = s[k + i]
    PROVE  \A n \in 0 .. Len(t) : Picking(t)[n] = Picking(s)[k + n]
<1> DEFINE P == Picking(s)
           Q == Picking(t)
           Fine == {n \in 0 .. Len(t) : Q[n] = P[k + n]}
<1>1. /\ Q[0] = <<>> /\ P[k + 0] = <<>>
      /\ \A n \in 1 .. Len(s) : P[n] = PutLetter(P[n - 1], s[n])
      /\ \A n \in 1 .. Len(t) : Q[n] = PutLetter(Q[n - 1], t[n])
  BY PickingIs
<1> HIDE DEF P, Q
<1>2. 0 \in Fine
  BY <1>1
<1>3. ASSUME NEW n \in 1 .. Len(t), n - 1 \in Fine
      PROVE  n \in Fine
  <2>1. k + n \in 1 .. Len(s) /\ (k + n) - 1 = k + (n - 1) /\ t[n] = s[k + n]
    OBVIOUS
  <2>2. P[k + n] = PutLetter(P[k + (n - 1)], s[k + n])
    BY <1>1, <2>1
  <2>3. Q[n] = P[k + n]
    BY <1>1, <1>3, <2>1, <2>2
  <2> QED
    BY <2>3
<1>4. 0 .. Len(t) \subseteq Fine
  <2>1. Len(t) \in Nat
    OBVIOUS
  <2> HIDE DEF Fine
  <2> QED
    BY <1>2, <1>3, <2>1, BoundedInduction
<1> QED
  BY <1>4 DEF P, Q

\* White space around a text changes none of its letters.
LEMMA SolidOfPart ==
    ASSUME NEW T, NEW s \in Seq(T), NEW t \in Seq(T),
           NEW lo \in 1 .. Len(s), NEW hi \in 1 .. Len(s), lo <= hi, IsPart(t, s, lo, hi),
           \A i \in 1 .. Len(s) : i < lo \/ i > hi => s[i] \in WhiteSpace
    PROVE  Solid(t) = Solid(s)
<1>1. Picking(s)[lo - 1] = <<>>
  <2>1. Picking(s)[lo - 1] = Picking(s)[0]
    BY PickingBlanks
  <2> QED
    BY <2>1, PickingIs
<1>2. Picking(s)[Len(s)] = Picking(s)[hi]
  BY PickingBlanks
<1>3. Len(t) = hi - lo + 1 /\ \A i \in 1 .. Len(t) : t[i] = s[(lo - 1) + i]
  BY DEF IsPart
<1>4. Picking(t)[Len(t)] = Picking(s)[(lo - 1) + Len(t)]
  <2> DEFINE k == lo - 1
  <2>1. k \in 0 .. Len(s) /\ k + Len(t) <= Len(s) /\ Len(t) \in 0 .. Len(t)
    BY <1>3
  <2>2. Picking(s)[k] = <<>> /\ \A i \in 1 .. Len(t) : t[i] = s[k + i]
    BY <1>1, <1>3
  <2> HIDE DEF k
  <2>3. Picking(t)[Len(t)] = Picking(s)[k + Len(t)]
    BY <2>1, <2>2, PickingPart
  <2> QED
    BY <2>3 DEF k
<1>5. (lo - 1) + Len(t) = hi
  BY <1>3
<1> QED
  BY <1>2, <1>4, <1>5 DEF Solid

\* Nothing has no letters.
LEMMA SolidOfNothing ==
    ASSUME NEW T, NEW s \in Seq(T), \A i \in 1 .. Len(s) : s[i] \in WhiteSpace
    PROVE  Solid(s) = <<>>
<1>1. Picking(s)[Len(s)] = Picking(s)[0]
  BY PickingBlanks
<1> QED
  BY <1>1, PickingIs DEF Solid

\* The letters of a text and one more character.
LEMMA SolidOfAppend ==
    ASSUME NEW T, NEW s \in Seq(T), NEW c \in T
    PROVE  Solid(Append(s, c)) = PutLetter(Solid(s), c)
<1> DEFINE t == Append(s, c)
<1>1. t \in Seq(T) /\ Len(t) = Len(s) + 1 /\ t[Len(t)] = c /\ \A i \in 1 .. Len(s) : s[i] = t[0 + i]
  OBVIOUS
<1> HIDE DEF t
<1>2. Picking(s)[Len(s)] = Picking(t)[0 + Len(s)]
  <2>1. 0 \in 0 .. Len(t) /\ 0 + Len(s) <= Len(t) /\ Len(s) \in 0 .. Len(s)
    BY <1>1
  <2>2. Picking(t)[0] = <<>>
    BY <1>1, PickingIs
  <2> QED
    BY <1>1, <2>1, <2>2, PickingPart
<1>3. Picking(t)[Len(t)] = PutLetter(Picking(t)[Len(t) - 1], c)
  <2>1. Len(t) \in 1 .. Len(t)
    BY <1>1
  <2> QED
    BY <1>1, <2>1, PickingIs
<1>4. 0 + Len(s) = Len(t) - 1
  BY <1>1
<1> QED
  BY <1>2, <1>3, <1>4 DEF Solid, t

\* Nor does white space that is collapsed.
LEMMA SolidOfCollapsed ==
    ASSUME NEW T, "space" \in T, NEW s \in Seq(T)
    PROVE  Solid(CollapseSpaces(s)) = Solid(s)
<1> DEFINE loop == Collapsing(s)
           P == Picking(s)
           Fine == {n \in 0 .. Len(s) : Solid(loop[n]) = P[n]}
<1>1. /\ loop \in [0 .. Len(s) -> Seq(T)]
      /\ loop[0] = <<>>
      /\ \A n \in 1 .. Len(s) : loop[n] = PutCharacter(loop[n - 1], s[n])
  BY CollapsingIs
<1>2. P[0] = <<>> /\ \A n \in 1 .. Len(s) : P[n] = PutLetter(P[n - 1], s[n])
  BY PickingIs
<1> HIDE DEF loop, P
<1>3. 0 \in Fine
  <2>1. Solid(<<>>) = <<>>
    <3>1. <<>> \in Seq(T) /\ \A i \in 1 .. Len(<<>>) : <<>>[i] \in WhiteSpace
      OBVIOUS
    <3> QED
      BY <3>1, SolidOfNothing
  <2> QED
    BY <1>1, <1>2, <2>1
<1>4. ASSUME NEW n \in 1 .. Len(s), n - 1 \in Fine
      PROVE  n \in Fine
  <2> DEFINE out == loop[n - 1]
  <2>1. out \in Seq(T) /\ s[n] \in T /\ loop[n] = PutCharacter(out, s[n])
    <3>1. n - 1 \in 0 .. Len(s) /\ s[n] \in T
      OBVIOUS
    <3> QED
      BY <1>1, <3>1
  <2>2. P[n] = PutLetter(Solid(out), s[n])
    BY <1>2, <1>4
  <2> HIDE DEF out
  <2>3. Solid(loop[n]) = PutLetter(Solid(out), s[n])
    <3>1. CASE s[n] \notin WhiteSpace
      BY <2>1, <3>1, SolidOfAppend DEF PutCharacter
    <3>2. CASE s[n] \in WhiteSpace
      <4>1. Solid(Append(out, "space")) = Solid(out)
        BY <2>1, SolidOfAppend DEF PutLetter, WhiteSpace
      <4>2. loop[n] = out \/ loop[n] = Append(out, "space")
        BY <2>1, <3>2 DEF PutCharacter
      <4> QED
        BY <3>2, <4>1, <4>2 DEF PutLetter
    <3> QED
      BY <3>1, <3>2
  <2> QED
    BY <2>2, <2>3
<1>5. 0 .. Len(s) \subseteq Fine
  <2>1. Len(s) \in Nat
    OBVIOUS
  <2> HIDE DEF Fine
  <2> QED
    BY <1>3, <1>4, <2>1, BoundedInduction
<1>6. Len(s) \in Fine
  BY <1>5
<1> QED
  BY <1>6 DEF loop, P, CollapseSpaces, Solid

\* Nor does white space that is cut off at the end.
LEMMA SolidOfTrimmedRight ==
    ASSUME NEW T, NEW s \in Seq(T)
    PROVE  Solid(TrimRight(s, {"space"})) = Solid(s)
<1>0. "space" \in WhiteSpace
  BY DEF WhiteSpace
<1>1. CASE (\A i \in 1 .. Len(s) : s[i] \in {"space"}) /\ TrimRight(s, {"space"}) = <<>>
  <2>1. Solid(s) = <<>>
    BY <1>0, <1>1, SolidOfNothing
  <2>2. <<>> \in Seq(T) /\ \A i \in 1 .. Len(<<>>) : <<>>[i] \in WhiteSpace
    OBVIOUS
  <2>3. Solid(<<>>) = <<>>
    BY <2>2, SolidOfNothing
  <2> QED
    BY <1>1, <2>1, <2>3
<1>2. ASSUME NEW hi \in 1 .. Len(s), \A i \in 1 .. Len(s) : i > hi => s[i] \in {"space"},
             TrimRight(s, {"space"}) = SubSeq(s, 1, hi)
      PROVE  Solid(TrimRight(s, {"space"})) = Solid(s)
  <2>1. 1 \in 1 .. Len(s) /\ 1 <= hi
    OBVIOUS
  <2>2. SubSeq(s, 1, hi) \in Seq(T) /\ IsPart(SubSeq(s, 1, hi), s, 1, hi)
    BY <2>1, SubSeqIs
  <2>3. \A i \in 1 .. Len(s) : i < 1 \/ i > hi => s[i] \in WhiteSpace
    BY <1>0, <1>2
  <2> QED
    BY <1>2, <2>1, <2>2, <2>3, SolidOfPart
<1> QED
  BY <1>1, <1>2, TrimRightIs

\* CollapseSpaces writes the same for what two texts begin with.
LEMMA CollapsePrefix ==
    ASSUME NEW T, "space" \in T, NEW s \in Seq(T), NEW t \in Seq(T), Len(t) <= Len(s),
           \A i \in 1 .. Len(t) : t[i] = s[i]
    PROVE  \A n \in 0 .. Len(t) : Collapsing(t)[n] = Collapsing(s)[n]
<1> DEFINE P == Collapsing(s)
           Q == Collapsing(t)
           Fine == {n \in 0 .. Len(t) : Q[n] = P[n]}
<1>1. /\ Q[0] = <<>> /\ P[0] = <<>>
      /\ \A n \in 1 .. Len(s) : P[n] = PutCharacter(P[n - 1], s[n])
      /\ \A n \in 1 .. Len(t) : Q[n] = PutCharacter(Q[n - 1], t[n])
  BY CollapsingIs
<1> HIDE DEF P, Q
<1>2. 0 \in Fine
  BY <1>1
<1>3. ASSUME NEW n \in 1 .. Len(t), n - 1 \in Fine
      PROVE  n \in Fine
  <2>1. n \in 1 .. Len(s)
    OBVIOUS
  <2>2. Q[n] = P[n]
    BY <1>1, <1>3, <2>1
  <2> QED
    BY <2>2
<1>4. 0 .. Len(t) \subseteq Fine
  <2>1. Len(t) \in Nat
    OBVIOUS
  <2> HIDE DEF Fine
  <2> QED
    BY <1>2, <1>3, <2>1, BoundedInduction
<1> QED
  BY <1>4 DEF P, Q

\* CollapseSpaces on one more character.
LEMMA CollapseAppend ==
    ASSUME NEW T, "space" \in T, NEW s \in Seq(T), NEW c \in T
    PROVE  CollapseSpaces(Append(s, c)) = PutCharacter(CollapseSpaces(s), c)
<1> DEFINE t == Append(s, c)
<1>1. t \in Seq(T) /\ Len(t) = Len(s) + 1 /\ t[Len(t)] = c /\ \A i \in 1 .. Len(s) : s[i] = t[i]
  OBVIOUS
<1> HIDE DEF t
<1>2. Collapsing(s)[Len(s)] = Collapsing(t)[Len(s)]
  <2>1. Len(s) <= Len(t) /\ Len(s) \in 0 .. Len(s)
    BY <1>1
  <2> QED
    BY <1>1, <2>1, CollapsePrefix
<1>3. Collapsing(t)[Len(t)] = PutCharacter(Collapsing(t)[Len(t) - 1], c)
  <2>1. Len(t) \in 1 .. Len(t)
    BY <1>1
  <2> QED
    BY <1>1, <2>1, CollapsingIs
<1>4. Len(t) - 1 = Len(s)
  BY <1>1
<1> QED
  BY <1>2, <1>3, <1>4 DEF CollapseSpaces, t

\* A space and a tab count like the space alone.
LEMMA PutTwice ==
    ASSUME NEW T, "space" \in T, NEW out \in Seq(T)
    PROVE  PutCharacter(PutCharacter(out, "space"), "tab") = PutCharacter(out, "space")
<1>1. "space" \in WhiteSpace /\ "tab" \in WhiteSpace
  BY DEF WhiteSpace
<1>2. CASE out = <<>> \/ Last(out) = "space"
  BY <1>1, <1>2 DEF PutCharacter
<1>3. CASE ~(out = <<>> \/ Last(out) = "space")
  <2> DEFINE new == Append(out, "space")
  <2>1. PutCharacter(out, "space") = new
    BY <1>1, <1>3 DEF PutCharacter
  <2>2. Last(new) = "space"
    BY DEF Last
  <2> HIDE DEF new
  <2>3. PutCharacter(new, "tab") = new
    BY <1>1, <2>2 DEF PutCharacter
  <2> QED
    BY <2>1, <2>3
<1> QED
  BY <1>2, <1>3

\* Each beginning of the respaced text collapses to what the text does.
LEMMA RespacedIs ==
    ASSUME NEW T, "space" \in T, "tab" \in T, NEW s \in Seq(T), IsPlain(s), s # <<>>,
           NEW n \in 1 .. Len(s)
    PROVE  /\ Respacing(s)[n] \in Seq(T)
           /\ CollapseSpaces(Respacing(s)[n]) = Collapsing(s)[n]
           /\ \A i \in 1 .. Len(Respacing(s)[n]) : Respacing(s)[n][i] \notin DOMAIN LowerCase
           /\ Respacing(s)[n] # <<>>
           /\ Respacing(s)[n][1] = s[1]
           /\ s[n] # "space" => Respacing(s)[n][Len(Respacing(s)[n])] = s[n]
<1> DEFINE wide == Respacing(s)
           loop == Collapsing(s)
           Low(r) == \A i \in 1 .. Len(r) : r[i] \notin DOMAIN LowerCase
           Fine == {k \in 0 .. Len(s) :
                      /\ CollapseSpaces(wide[k]) = loop[k]
                      /\ Low(wide[k])
                      /\ k > 0 => wide[k] # <<>> /\ wide[k][1] = s[1]
                      /\ k > 0 /\ s[k] # "space" => wide[k][Len(wide[k])] = s[k]}
<1>1. /\ wide \in [0 .. Len(s) -> Seq(T)]
      /\ wide[0] = <<>>
      /\ \A k \in 1 .. Len(s) : wide[k] = PutWider(wide[k - 1], s[k])
  BY RespacingIs
<1>2. loop[0] = <<>> /\ \A k \in 1 .. Len(s) : loop[k] = PutCharacter(loop[k - 1], s[k])
  BY CollapsingIs
<1>3. \A k \in 1 .. Len(s) : s[k] \in T /\ s[k] \notin DOMAIN LowerCase
  BY PlainIs
<1>4. s[1] # "space" /\ "space" \notin DOMAIN LowerCase /\ "tab" \notin DOMAIN LowerCase
  BY PlainIs, LowerCaseIs DEF WhiteSpace
<1> HIDE DEF wide, loop
<1>5. 0 \in Fine
  <2>1. CollapseSpaces(<<>>) = <<>>
    <3>1. <<>> \in Seq(T) /\ Len(<<>>) = 0
      OBVIOUS
    <3> QED
      BY <3>1, CollapsingIs DEF CollapseSpaces
  <2> QED
    BY <1>1, <1>2, <2>1
<1>6. ASSUME NEW k \in 1 .. Len(s), k - 1 \in Fine
      PROVE  k \in Fine
  <2> DEFINE r == wide[k - 1]
             new == wide[k]
  <2>1. r \in Seq(T) /\ new \in Seq(T) /\ new = PutWider(r, s[k]) /\ loop[k] = PutCharacter(loop[k - 1], s[k])
    <3>1. k - 1 \in 0 .. Len(s) /\ k \in 0 .. Len(s)
      OBVIOUS
    <3> QED
      BY <1>1, <1>2, <3>1
  <2>2. CollapseSpaces(r) = loop[k - 1] /\ Low(r) /\ (k > 1 => r # <<>> /\ r[1] = s[1])
    BY <1>6
  <2>3. k = 1 => r = <<>>
    BY <1>1
  <2> HIDE DEF r, new
  <2>4. CASE s[k] = "space"
    <3> DEFINE first == Append(r, "space")
    <3>1. first \in Seq(T) /\ new = Append(first, "tab")
      BY <2>1, <2>4 DEF PutWider
    <3>2. CollapseSpaces(new) = PutCharacter(CollapseSpaces(first), "tab")
      <4> HIDE DEF first
      <4> QED
        BY <3>1, CollapseAppend
    <3>3. CollapseSpaces(first) = PutCharacter(CollapseSpaces(r), "space")
      BY <2>1, CollapseAppend
    <3>4. CollapseSpaces(r) \in Seq(T)
      <4>1. Len(r) \in 0 .. Len(r)
        BY <2>1
      <4> QED
        BY <2>1, <4>1, CollapsingIs DEF CollapseSpaces
    <3>5. CollapseSpaces(new) = loop[k]
      BY <2>1, <2>2, <2>4, <3>2, <3>3, <3>4, PutTwice
    <3>6. Low(new) /\ new # <<>>
      <4>1. Low(first)
        BY <1>4, <2>1, <2>2
      <4> HIDE DEF first
      <4> QED
        BY <1>4, <3>1, <4>1
    <3>7. k > 1 /\ new[1] = s[1]
      <4>1. k # 1
        BY <1>4, <2>4
      <4> QED
        BY <2>1, <2>2, <3>1, <4>1
    <3> QED
      BY <2>4, <3>5, <3>6, <3>7 DEF new
  <2>5. CASE s[k] # "space"
    <3>1. new = Append(r, s[k])
      BY <2>1, <2>5 DEF PutWider
    <3>2. CollapseSpaces(new) = loop[k]
      BY <1>3, <2>1, <2>2, <3>1, CollapseAppend
    <3>3. Low(new) /\ new # <<>> /\ new[Len(new)] = s[k]
      BY <1>3, <2>1, <2>2, <3>1
    <3>4. new[1] = s[1]
      <4>1. CASE k = 1
        BY <2>1, <2>3, <3>1, <4>1
      <4>2. CASE k # 1
        BY <2>1, <2>2, <3>1, <4>2
      <4> QED
        BY <4>1, <4>2
    <3> QED
      BY <3>2, <3>3, <3>4 DEF new
  <2> QED
    BY <2>4, <2>5
<1>7. 0 .. Len(s) \subseteq Fine
  <2>1. Len(s) \in Nat
    OBVIOUS
  <2> HIDE DEF Fine
  <2> QED
    BY <1>5, <1>6, <2>1, BoundedInduction
<1>8. n \in Fine /\ n > 0 /\ wide[n] \in Seq(T)
  <2>1. n \in 0 .. Len(s) /\ n > 0
    OBVIOUS
  <2> HIDE DEF Fine
  <2> QED
    BY <1>1, <1>7, <2>1
<1> QED
  BY <1>8 DEF wide, loop

\* Normalising is settling what Trim leaves.
LEMMA NormalizeIs ==
    ASSUME NEW q
    PROVE  NormalizeQuery(q) = Settle(Trim(q, WhiteSpace))
  BY DEF NormalizeQuery, Settle

\* A trimmed text is a text.
LEMMA TrimType ==
    ASSUME NEW T, NEW s \in Seq(T), NEW cut
    PROVE  Trim(s, cut) \in Seq(T)
<1>1. ASSUME NEW lo, NEW hi, IsCore(s, cut, lo, hi)
      PROVE  Trim(s, cut) \in Seq(T)
  <2>1. lo \in 1 .. Len(s) /\ hi \in 1 .. Len(s) /\ lo <= hi
    BY <1>1 DEF IsCore
  <2>2. Trim(s, cut) = SubSeq(s, lo, hi)
    BY <1>1, TrimTo
  <2>3. SubSeq(s, lo, hi) \in Seq(T)
    BY <2>1, SubSeqIs
  <2> QED
    BY <2>2, <2>3
<1>2. CASE Trim(s, cut) = <<>>
  BY <1>2
<1> QED
  BY <1>1, <1>2, TrimIs, Zenon

\* Nothing stays nothing.
LEMMA NothingSettles ==
    /\ Settle(<<>>) = <<>>
    /\ Solid(<<>>) = <<>>
<1>1. <<>> \in Seq({"space"}) /\ IsPlain(<<>>) /\ \A i \in 1 .. Len(<<>>) : <<>>[i] \in WhiteSpace
  BY DEF IsPlain
<1> QED
  BY <1>1, PlainSettles, SolidOfNothing

\* Plain text is normal.
LEMMA PlainIsNormal ==
    ASSUME NEW T, "space" \in T, NEW s \in Seq(T), IsPlain(s)
    PROVE  NormalizeQuery(s) = s
<1>1. Trim(s, WhiteSpace) = s
  <2>1. CASE s = <<>>
    <3>1. {i \in DOMAIN s : s[i] \notin WhiteSpace} = {}
      BY <2>1
    <3> QED
      BY <2>1, <3>1 DEF Trim
  <2>2. CASE s # <<>>
    <3>1. 1 \in 1 .. Len(s) /\ Len(s) \in 1 .. Len(s) /\ 1 <= Len(s)
      BY <2>2
    <3>2. IsCore(s, WhiteSpace, 1, Len(s))
      BY <2>2, <3>1, PlainIs DEF IsCore
    <3>3. Trim(s, WhiteSpace) = SubSeq(s, 1, Len(s))
      BY <3>2, TrimTo
    <3> QED
      BY <3>3, SubSeqFull
  <2> QED
    BY <2>1, <2>2
<1> QED
  BY <1>1, PlainSettles, NormalizeIs

\* And comes out of any spacing of its words.
LEMMA RespacedIsNormal ==
    ASSUME NEW T, "space" \in T, "tab" \in T, NEW s \in Seq(T), IsPlain(s)
    PROVE  NormalizeQuery(Respaced(s)) = s
<1> DEFINE wide == Respacing(s)[Len(s)]
           all == <<"tab">> \o wide
<1>1. Respaced(s) = all
  BY DEF Respaced
<1>2. CASE s = <<>>
  <2>1. wide = <<>>
    BY <1>2, RespacingIs
  <2>2. all = <<"tab">>
    BY <2>1
  <2>3. {i \in DOMAIN all : all[i] \notin WhiteSpace} = {}
    BY <2>2 DEF WhiteSpace
  <2>4. Trim(all, WhiteSpace) = <<>>
    BY <2>3 DEF Trim
  <2> QED
    BY <1>1, <1>2, <2>4, NormalizeIs, NothingSettles
<1>3. CASE s # <<>>
  <2>1. Len(s) \in 1 .. Len(s)
    BY <1>3
  <2>2. s[1] \notin WhiteSpace /\ s[Len(s)] \notin WhiteSpace /\ s[Len(s)] # "space"
    BY <1>3, PlainIs DEF WhiteSpace
  <2>3. /\ wide \in Seq(T)
        /\ CollapseSpaces(wide) = Collapsing(s)[Len(s)]
        /\ \A i \in 1 .. Len(wide) : wide[i] \notin DOMAIN LowerCase
        /\ wide # <<>> /\ wide[1] = s[1] /\ wide[Len(wide)] = s[Len(s)]
    BY <1>3, <2>1, <2>2, RespacedIs
  <2> HIDE DEF wide
  <2>4. /\ all \in Seq(T) /\ Len(all) = Len(wide) + 1 /\ all[1] = "tab"
        /\ \A i \in 2 .. Len(all) : all[i] = wide[i - 1]
    BY <2>3
  <2> HIDE DEF all
  <2>5. Len(wide) \in Nat \ {0}
    BY <2>3
  <2>6. IsCore(all, WhiteSpace, 2, Len(all))
    <3>1. all[2] = wide[1] /\ all[Len(all)] = wide[Len(wide)]
      BY <2>4, <2>5
    <3>2. "tab" \in WhiteSpace
      BY DEF WhiteSpace
    <3>3. \A i \in 1 .. Len(all) : i < 2 \/ i > Len(all) => all[i] \in WhiteSpace
      BY <2>4, <3>2
    <3> QED
      BY <2>2, <2>3, <2>4, <2>5, <3>1, <3>3 DEF IsCore
  <2>7. Trim(all, WhiteSpace) = wide
    <3>1. Trim(all, WhiteSpace) = SubSeq(all, 2, Len(all))
      BY <2>4, <2>6, TrimTo
    <3> DEFINE t == SubSeq(all, 2, Len(all))
    <3>2. t \in Seq(T) /\ IsPart(t, all, 2, Len(all))
      <4>1. 2 \in 1 .. Len(all) /\ Len(all) \in 1 .. Len(all) /\ 2 <= Len(all)
        BY <2>4, <2>5
      <4> QED
        BY <2>4, <4>1, SubSeqIs
    <3> HIDE DEF t
    <3>3. Len(t) = Len(wide)
      BY <2>4, <2>5, <3>2 DEF IsPart
    <3>4. ASSUME NEW i \in 1 .. Len(t)
          PROVE  t[i] = wide[i]
      <4>1. t[i] = all[2 + i - 1]
        BY <3>2 DEF IsPart
      <4>2. 2 + i - 1 \in 2 .. Len(all) /\ (2 + i - 1) - 1 = i
        BY <2>4, <2>5, <3>3
      <4> QED
        BY <2>4, <4>1, <4>2
    <3>5. t = wide
      BY <2>3, <3>2, <3>3, <3>4, SeqEqual
    <3> QED
      BY <3>1, <3>5 DEF t
  <2>8. ToLower(wide) = wide
    BY <2>3, ToLowerFull
  <2>9. CollapseSpaces(wide) = s
    BY <2>3, PlainIs, CollapseFull DEF CollapseSpaces
  <2>10. TrimRight(s, {"space"}) = s
    BY <2>2, TrimRightFull
  <2>11. Settle(wide) = s
    BY <2>8, <2>9, <2>10 DEF Settle
  <2> QED
    BY <1>1, <2>7, <2>11, NormalizeIs
<1> QED
  BY <1>2, <1>3

\* No letter of a query is lost or changed but for its case.
LEMMA NormalizeKeepsLetters ==
    ASSUME NEW T, "space" \in T, NEW q \in Seq(T)
    PROVE  Solid(NormalizeQuery(q)) = Solid(ToLower(q))
<1> DEFINE L == Lowered(T)
           t == Trim(q, WhiteSpace)
<1>0. "space" \in L
  BY LowerCaseIs DEF Lowered
<1>1. /\ ToLower(q) \in Seq(L) /\ Len(ToLower(q)) = Len(q)
      /\ \A i \in 1 .. Len(q) : ToLower(q)[i] \in WhiteSpace <=> q[i] \in WhiteSpace
  BY ToLowerIs
<1>2. CASE (\A i \in 1 .. Len(q) : q[i] \in WhiteSpace) /\ t = <<>>
  <2>1. \A i \in 1 .. Len(ToLower(q)) : ToLower(q)[i] \in WhiteSpace
    BY <1>1, <1>2
  <2>2. Solid(ToLower(q)) = <<>>
    BY <1>1, <2>1, SolidOfNothing
  <2> QED
    BY <1>2, <2>2, NormalizeIs, NothingSettles
<1>3. ASSUME NEW lo, NEW hi, IsCore(q, WhiteSpace, lo, hi)
      PROVE  Solid(NormalizeQuery(q)) = Solid(ToLower(q))
  <2>1. /\ lo \in 1 .. Len(q) /\ hi \in 1 .. Len(q) /\ lo <= hi
        /\ \A i \in 1 .. Len(q) : i < lo \/ i > hi => q[i] \in WhiteSpace
    BY <1>3 DEF IsCore
  <2>2. t \in Seq(T) /\ IsPart(t, q, lo, hi)
    BY <1>3, <2>1, TrimTo, SubSeqIs
  <2> HIDE DEF t
  <2>3. ToLower(t) \in Seq(L) /\ Len(ToLower(t)) = Len(t)
    BY <2>2, ToLowerIs
  <2>4. IsPart(ToLower(t), ToLower(q), lo, hi)
    <3>1. Len(ToLower(t)) = hi - lo + 1
      BY <2>2, <2>3 DEF IsPart
    <3>2. ASSUME NEW i \in 1 .. Len(t)
          PROVE  ToLower(t)[i] = ToLower(q)[lo + i - 1]
      <4>1. t[i] = q[lo + i - 1] /\ lo + i - 1 \in 1 .. Len(q)
        BY <2>1, <2>2 DEF IsPart
      <4> QED
        BY <2>2, <4>1, ToLowerIs
    <3> QED
      BY <2>3, <3>1, <3>2 DEF IsPart
  <2>5. Solid(ToLower(t)) = Solid(ToLower(q))
    BY <1>1, <2>1, <2>3, <2>4, SolidOfPart
  <2>6. Solid(CollapseSpaces(ToLower(t))) = Solid(ToLower(t))
    BY <1>0, <2>3, SolidOfCollapsed
  <2>7. CollapseSpaces(ToLower(t)) \in Seq(L)
    <3>1. Len(ToLower(t)) \in 0 .. Len(ToLower(t))
      BY <2>3
    <3> QED
      BY <1>0, <2>3, <3>1, CollapsingIs DEF CollapseSpaces
  <2>8. Solid(Settle(t)) = Solid(CollapseSpaces(ToLower(t)))
    BY <2>7, SolidOfTrimmedRight DEF Settle
  <2> QED
    BY <2>5, <2>6, <2>8, NormalizeIs DEF t
<1> QED
  BY <1>2, <1>3, TrimIs

-----------------------------------------------------------------------------
(* Links.                                                                  *)

\* Dashes inside only, and one at a time.
IsDashed(s) == \A i \in 1 .. Len(s) : s[i] = "-" => i > 1 /\ i < Len(s) /\ s[i + 1] # "-"

\* One at a time.
IsSqueezed(s, mark) == \A i \in 1 .. Len(s) - 1 : s[i] = mark => s[i + 1] # mark

\* One turn of Squeeze leaves no two marks side by side.
LEMMA PutOrMarkKeeps ==
    ASSUME NEW T, NEW run, NEW mark \in T, NEW out \in Seq(T), NEW c \in T,
           IsSqueezed(out, mark), c \notin run => c # mark
    PROVE  IsSqueezed(PutOrMark(out, c, run, mark), mark)
<1>1. CASE PutOrMark(out, c, run, mark) = out
  BY <1>1
<1>2. ASSUME NEW d \in T, d = mark /\ out # <<>> => Last(out) # mark
      PROVE  IsSqueezed(Append(out, d), mark)
  <2> DEFINE new == Append(out, d)
  <2>1. /\ new \in Seq(T) /\ Len(new) = Len(out) + 1 /\ new[Len(new)] = d
        /\ \A i \in 1 .. Len(out) : new[i] = out[i]
    OBVIOUS
  <2> HIDE DEF new
  <2>2. ASSUME NEW i \in 1 .. Len(new) - 1, new[i] = mark
        PROVE  new[i + 1] # mark
    <3>1. i \in 1 .. Len(out) /\ out[i] = mark
      BY <2>1, <2>2
    <3>2. CASE i = Len(out)
      <4>1. out # <<>> /\ Last(out) = mark
        BY <3>1, <3>2 DEF Last
      <4> QED
        BY <1>2, <2>1, <3>2, <4>1
    <3>3. CASE i # Len(out)
      <4>1. i \in 1 .. Len(out) - 1 /\ i + 1 \in 1 .. Len(out)
        BY <3>1, <3>3
      <4> QED
        BY <2>1, <3>1, <4>1 DEF IsSqueezed
    <3> QED
      BY <3>2, <3>3
  <2>3. IsSqueezed(new, mark)
    BY <2>2 DEF IsSqueezed
  <2> QED
    BY <2>3 DEF new
<1> QED
  BY <1>1, <1>2 DEF PutOrMark

\* What is squeezed has no two marks side by side.
LEMMA SqueezeIs ==
    ASSUME NEW T, NEW run, NEW mark \in T, NEW s \in Seq(T),
           \A i \in 1 .. Len(s) : s[i] \notin run => s[i] # mark
    PROVE  Squeeze(s, run, mark) \in Seq(T) /\ IsSqueezed(Squeeze(s, run, mark), mark)
<1> DEFINE loop == Squeezing(s, run, mark)
           Fine == {out \in Seq(T) : IsSqueezed(out, mark)}
<1>1. /\ loop \in [0 .. Len(s) -> Seq(T)]
      /\ loop[0] = <<>>
      /\ \A n \in 1 .. Len(s) : loop[n] = PutOrMark(loop[n - 1], s[n], run, mark)
  <2>1. Squeezes(loop, s, run, mark, T)
    BY SqueezingIs
  <2> QED
    BY <2>1 DEF Squeezes
<1> HIDE DEF loop
<1>2. loop[0] \in Fine
  BY <1>1 DEF IsSqueezed
<1>3. ASSUME NEW n \in 1 .. Len(s), loop[n - 1] \in Fine
      PROVE  loop[n] \in Fine
  <2>1. s[n] \in T /\ loop[n - 1] \in Seq(T) /\ IsSqueezed(loop[n - 1], mark)
    BY <1>3
  <2>2. loop[n] \in Seq(T) /\ IsSqueezed(loop[n], mark)
    BY <1>1, <2>1, PutOrMarkKeeps
  <2> QED
    BY <2>2
<1>4. Len(s) \in Nat
  OBVIOUS
<1>5. \A n \in 0 .. Len(s) : loop[n] \in Fine
  <2> HIDE DEF Fine
  <2> QED
    BY <1>2, <1>3, <1>4, Throughout
<1>6. loop[Len(s)] \in Fine
  BY <1>4, <1>5
<1> QED
  BY <1>6 DEF loop, Squeeze

\* A part that does not begin or end with a dash.
LEMMA DashedPart ==
    ASSUME NEW T, NEW s \in Seq(T), IsSqueezed(s, "-"), NEW t \in Seq(T),
           NEW lo \in 1 .. Len(s), NEW hi \in 1 .. Len(s), lo <= hi, IsPart(t, s, lo, hi),
           s[lo] # "-", s[hi] # "-"
    PROVE  IsDashed(t)
<1>1. Len(t) = hi - lo + 1
  BY DEF IsPart
<1>2. ASSUME NEW i \in 1 .. Len(t), t[i] = "-"
      PROVE  i > 1 /\ i < Len(t) /\ t[i + 1] # "-"
  <2>1. s[lo + i - 1] = "-"
    BY <1>2 DEF IsPart
  <2>2. i # 1
    BY <2>1
  <2>3. i # Len(t)
    BY <1>1, <2>1
  <2>4. i + 1 \in 1 .. Len(t) /\ lo + i - 1 \in 1 .. Len(s) - 1
    BY <1>1, <2>2, <2>3
  <2>5. t[i + 1] = s[lo + (i + 1) - 1] /\ lo + (i + 1) - 1 = (lo + i - 1) + 1
    BY <2>4 DEF IsPart
  <2>6. s[(lo + i - 1) + 1] # "-"
    BY <2>1, <2>4 DEF IsSqueezed
  <2> QED
    BY <2>2, <2>3, <2>5, <2>6
<1> QED
  BY <1>2 DEF IsDashed

\* A title in kebab case has dashes inside only.
LEMMA KebabIs ==
    ASSUME NEW T, "-" \in T, NEW title \in Seq(T)
    PROVE  Kebab(title) \in Seq(Lowered(T)) /\ IsDashed(Kebab(title))
<1> DEFINE L == Lowered(T)
           low == ToLower(title)
           s == Squeeze(low, NonSlug(low), "-")
           t == Trim(s, {"-"})
<1>1. low \in Seq(L) /\ "-" \in L
  BY ToLowerIs, LowerCaseIs DEF Lowered
<1>2. Kebab(title) = t
  BY DEF Kebab
<1> HIDE DEF L, low
<1>3. s \in Seq(L) /\ IsSqueezed(s, "-")
  <2>1. ASSUME NEW i \in 1 .. Len(low), low[i] = "-"
        PROVE  low[i] \in NonSlug(low)
    <3>1. "-" \notin SlugCharacters
      BY DEF SlugCharacters, HexDigits
    <3> QED
      BY <1>1, <2>1, <3>1 DEF NonSlug
  <2> QED
    BY <1>1, <2>1, SqueezeIs
<1> HIDE DEF s
<1>4. t \in Seq(L)
  BY <1>3, TrimType
<1>5. IsDashed(t)
  <2>1. CASE t = <<>>
    BY <2>1 DEF IsDashed
  <2>2. ASSUME NEW lo, NEW hi, IsCore(s, {"-"}, lo, hi)
        PROVE  IsDashed(t)
    <3>1. lo \in 1 .. Len(s) /\ hi \in 1 .. Len(s) /\ lo <= hi /\ s[lo] # "-" /\ s[hi] # "-"
      BY <2>2 DEF IsCore
    <3>2. t = SubSeq(s, lo, hi)
      BY <1>3, <2>2, TrimTo
    <3>3. IsPart(t, s, lo, hi)
      BY <1>3, <3>1, <3>2, SubSeqIs
    <3> HIDE DEF t
    <3> QED
      BY <1>3, <1>4, <3>1, <3>3, DashedPart
  <2> QED
    BY <1>3, <2>1, <2>2, TrimIs
<1> QED
  BY <1>2, <1>4, <1>5 DEF L

\* A slug has dashes inside only, wherever it is cut.
LEMMA TitleToSlugIs ==
    ASSUME NEW T, "-" \in T, NEW title \in Seq(T)
    PROVE  TitleToSlug(title) \in Seq(Lowered(T)) /\ IsDashed(TitleToSlug(title))
<1> DEFINE L == Lowered(T)
           slug == Kebab(title)
           head == SubSeq(slug, 1, SlugBytes)
           t == TrimRight(head, {"-"})
<1>1. slug \in Seq(L) /\ IsDashed(slug)
  BY KebabIs
<1> HIDE DEF slug, L
<1>2. CASE Len(slug) <= SlugBytes
  <2>1. TitleToSlug(title) = slug
    BY <1>1, <1>2, LinksAssumption DEF TitleToSlug, slug
  <2> QED
    BY <1>1, <2>1 DEF L
<1>3. CASE Len(slug) > SlugBytes
  <2>1. TitleToSlug(title) = t
    BY <1>3 DEF TitleToSlug, slug
  <2>2. CASE SlugBytes = 0
    <3>1. head = <<>>
      BY <2>2, SubSeqEmpty
    <3>2. <<>> \in Seq(L) /\ IsDashed(<<>>)
      BY DEF IsDashed
    <3>3. t = <<>>
      BY <3>1, <3>2, TrimRightFull
    <3> HIDE DEF t
    <3> QED
      BY <2>1, <3>2, <3>3 DEF L
  <2>3. CASE SlugBytes # 0
    <3>1. SlugBytes \in 1 .. Len(slug)
      BY <1>1, <1>3, <2>3, LinksAssumption
    <3>2. head \in Seq(L) /\ Len(head) = SlugBytes /\ \A i \in 1 .. SlugBytes : head[i] = slug[i]
      BY <1>1, <3>1, PrefixIs
    <3> HIDE DEF head
    <3>3. IsSqueezed(head, "-") /\ head[1] # "-"
      <4>1. ASSUME NEW i \in 1 .. Len(head) - 1, head[i] = "-"
            PROVE  head[i + 1] # "-"
        <5>1. i \in 1 .. SlugBytes /\ i + 1 \in 1 .. SlugBytes /\ i \in 1 .. Len(slug)
          BY <1>1, <3>1, <3>2
        <5> QED
          BY <1>1, <3>2, <4>1, <5>1 DEF IsDashed
      <4>2. 1 \in 1 .. SlugBytes /\ 1 \in 1 .. Len(slug)
        BY <3>1
      <4> QED
        BY <1>1, <3>2, <4>1, <4>2 DEF IsDashed, IsSqueezed
    <3>4. CASE t = <<>>
      BY <2>1, <3>4 DEF IsDashed
    <3>5. ASSUME NEW hi \in 1 .. Len(head), head[hi] # "-", t = SubSeq(head, 1, hi)
          PROVE  t \in Seq(L) /\ IsDashed(t)
      <4>1. 1 \in 1 .. Len(head) /\ 1 <= hi
        BY <3>2
      <4>2. t \in Seq(L) /\ IsPart(t, head, 1, hi)
        BY <3>2, <3>5, <4>1, SubSeqIs
      <4> HIDE DEF t
      <4>3. IsDashed(t)
        BY <3>2, <3>3, <3>5, <4>1, <4>2, DashedPart
      <4> QED
        BY <4>2, <4>3
    <3>6. t = <<>> \/ \E hi \in 1 .. Len(head) : head[hi] # "-" /\ t = SubSeq(head, 1, hi)
      BY <3>2, TrimRightIs
    <3>7. CASE t # <<>>
      <4> HIDE DEF t
      <4> QED
        BY <2>1, <3>5, <3>6, <3>7 DEF L
    <3> QED
      BY <3>4, <3>7
  <2> QED
    BY <2>2, <2>3
<1> QED
  BY <1>1, <1>2, <1>3, LinksAssumption

\* An id: its letter, an underscore and digits.
LEMMA IdIs ==
    ASSUME NEW letter, NEW id \in Ids(letter)
    PROVE  /\ id \in Seq(HexDigits \cup {letter, "_"}) /\ Len(id) = IdDigits + 2
           /\ id[1] = letter /\ id[2] = "_"
           /\ \A i \in 3 .. Len(id) : id[i] \in HexDigits
<1>1. PICK digits \in [1 .. IdDigits -> HexDigits] : id = <<letter, "_">> \o digits
  BY DEF Ids
<1> DEFINE C == HexDigits \cup {letter, "_"}
<1>2. IdDigits \in Nat \ {0} /\ digits \in [1 .. IdDigits -> C]
  BY LinksAssumption
<1>3. \A i \in 1 .. IdDigits : digits[i] \in HexDigits
  OBVIOUS
<1> DEFINE start == <<letter, "_">>
<1>4. start \in Seq(C) /\ Len(start) = 2 /\ start[1] = letter /\ start[2] = "_"
  OBVIOUS
<1> HIDE DEF C, start
<1>5. digits \in Seq(C) /\ Len(digits) = IdDigits
  BY <1>2
<1> DEFINE whole == start \o digits
<1>6. /\ whole \in Seq(C) /\ Len(whole) = IdDigits + 2
      /\ whole[1] = letter /\ whole[2] = "_"
      /\ \A i \in 3 .. IdDigits + 2 : whole[i] = digits[i - 2]
  <2>1. /\ whole \in Seq(C)
        /\ Len(whole) = Len(start) + Len(digits)
        /\ \A i \in 1 .. Len(start) + Len(digits) :
              whole[i] = IF i <= Len(start) THEN start[i] ELSE digits[i - Len(start)]
    BY <1>4, <1>5, ConcatProperties
  <2> HIDE DEF whole
  <2>2. Len(start) = 2 /\ Len(digits) = IdDigits /\ Len(whole) = IdDigits + 2
    <3>1. Len(start) = 2 /\ Len(digits) = IdDigits /\ Len(whole) = Len(start) + Len(digits)
      BY <1>4, <1>5, <2>1, Zenon
    <3>2. IdDigits \in Nat
      BY <1>2
    <3> QED
      BY <3>1, <3>2
  <2>3. whole[1] = start[1] /\ whole[2] = start[2]
    BY <1>2, <2>1, <2>2
  <2>4. ASSUME NEW i \in 3 .. IdDigits + 2
        PROVE  whole[i] = digits[i - 2]
    BY <1>2, <2>1, <2>2
  <2> QED
    BY <1>4, <2>1, <2>2, <2>3, <2>4
<1>7. ASSUME NEW i \in 3 .. IdDigits + 2
      PROVE  i - 2 \in 1 .. IdDigits
  BY <1>2
<1>8. id = whole
  BY <1>1 DEF start
<1> HIDE DEF whole
<1>9. \A i \in 3 .. Len(id) : id[i] \in HexDigits
  BY <1>3, <1>6, <1>7, <1>8
<1> QED
  BY <1>6, <1>8, <1>9 DEF C

\* A link ends with the id it was made of, and the dash before it stands alone.
EndsWith(link, id) ==
    \E k \in Nat : /\ Len(link) = k + Len(id)
                   /\ \A i \in 1 .. Len(id) : link[k + i] = id[i]
                   /\ \A i \in 1 .. k : link[i] = "-" => i > 1 /\ i < Len(link) /\ link[i + 1] # "-"

\* A link is made of letters and digits, and ends with its id.
LEMMA SiteSlugIs ==
    ASSUME NEW T, "-" \in T, NEW title \in Seq(T), NEW letter, letter # "-", NEW id \in Ids(letter)
    PROVE  /\ SiteSlug(title, id) \in Seq(Lowered(T) \cup HexDigits \cup {letter, "_"})
           /\ EndsWith(SiteSlug(title, id), id)
<1> DEFINE D == Lowered(T) \cup HexDigits \cup {letter, "_"}
           slug == TitleToSlug(title)
           link == SiteSlug(title, id)
<1>1. slug \in Seq(D) /\ IsDashed(slug)
  <2>1. slug \in Seq(Lowered(T)) /\ IsDashed(slug)
    BY TitleToSlugIs
  <2>2. Lowered(T) \subseteq D
    OBVIOUS
  <2> HIDE DEF D, slug
  <2> QED
    BY <2>1, <2>2, SeqMonotonic
<1>2. id \in Seq(D) /\ Len(id) = IdDigits + 2 /\ id[1] = letter
  <2>1. HexDigits \cup {letter, "_"} \subseteq D
    OBVIOUS
  <2>2. id \in Seq(HexDigits \cup {letter, "_"}) /\ Len(id) = IdDigits + 2 /\ id[1] = letter
    BY IdIs
  <2> HIDE DEF D
  <2> QED
    BY <2>1, <2>2, SeqMonotonic
<1>3. "-" \in D
  BY LowerCaseIs DEF Lowered
<1>4. link = IF slug = <<>> THEN id ELSE slug \o <<"-">> \o id
  BY DEF SiteSlug
<1> HIDE DEF D, slug, link
<1>5. CASE slug = <<>>
  <2>1. link = id
    BY <1>4, <1>5
  <2>2. 0 \in Nat /\ Len(link) = 0 + Len(id) /\ \A i \in 1 .. Len(id) : link[0 + i] = id[i]
    BY <1>2, <2>1
  <2>3. EndsWith(link, id)
    BY <2>2 DEF EndsWith
  <2> QED
    BY <1>2, <2>1, <2>3 DEF D, link
<1>6. CASE slug # <<>>
  <2> DEFINE n == Len(slug)
             start == slug \o <<"-">>
             whole == start \o id
  <2>1. n \in Nat \ {0}
    BY <1>1, <1>6
  <2>2. /\ start \in Seq(D) /\ Len(start) = n + 1
        /\ \A i \in 1 .. n : start[i] = slug[i]
        /\ start[n + 1] = "-"
    BY <1>1, <1>3
  <2>3. link = whole
    BY <1>4, <1>6
  <2> HIDE DEF n, start
  <2>4. /\ whole \in Seq(D) /\ Len(whole) = Len(start) + Len(id)
        /\ \A i \in 1 .. Len(start) + Len(id) :
              whole[i] = IF i <= Len(start) THEN start[i] ELSE id[i - Len(start)]
    BY <1>2, <2>2, ConcatProperties
  <2> HIDE DEF whole
  <2> DEFINE k == Len(start)
  <2>5. k \in Nat /\ k = n + 1 /\ Len(id) \in Nat \ {0}
    BY <1>2, <2>1, <2>2, LinksAssumption
  <2>6. Len(link) = k + Len(id)
    BY <2>3, <2>4
  <2> HIDE DEF k
  <2>7. ASSUME NEW i \in 1 .. Len(id)
        PROVE  link[k + i] = id[i]
    <3>1. k + i \in 1 .. k + Len(id) /\ ~(k + i <= k) /\ (k + i) - k = i
      BY <2>5
    <3> QED
      BY <2>3, <2>4, <3>1 DEF k
  <2>8. ASSUME NEW i \in 1 .. k
        PROVE  link[i] = start[i]
    <3>1. i \in 1 .. k + Len(id) /\ i <= k
      BY <2>5
    <3> QED
      BY <2>3, <2>4, <3>1 DEF k
  <2>9. ASSUME NEW i \in 1 .. k, link[i] = "-"
        PROVE  i > 1 /\ i < Len(link) /\ link[i + 1] # "-"
    <3>1. CASE i = k
      <4>1. link[k + 1] = id[1] /\ k > 1
        BY <2>1, <2>5, <2>7
      <4> QED
        BY <1>2, <2>5, <2>6, <3>1, <4>1
    <3>2. CASE i # k
      <4>1. i \in 1 .. n /\ i + 1 \in 1 .. k
        BY <2>1, <2>5, <3>2
      <4>2. slug[i] = "-"
        BY <2>2, <2>8, <2>9, <4>1
      <4>3. i > 1 /\ i < n /\ slug[i + 1] # "-"
        BY <1>1, <4>1, <4>2 DEF IsDashed, n
      <4>4. i + 1 \in 1 .. n
        BY <2>1, <4>1, <4>3
      <4>5. link[i + 1] = slug[i + 1]
        BY <2>2, <2>8, <4>1, <4>4
      <4> QED
        BY <2>1, <2>5, <2>6, <4>3, <4>5
    <3> QED
      BY <3>1, <3>2
  <2>10. EndsWith(link, id)
    BY <2>5, <2>6, <2>7, <2>9 DEF EndsWith
  <2> QED
    BY <2>3, <2>4, <2>10 DEF D, link
<1> QED
  BY <1>5, <1>6

\* The id is found, under its own letter only.
LEMMA FindIdIs ==
    ASSUME NEW T, NEW link \in Seq(T), NEW letter, NEW id \in Ids(letter), EndsWith(link, id),
           NEW other
    PROVE  FindId(other, link) = IF other = letter THEN id ELSE <<>>
<1> DEFINE tail == SubSeq(link, Len(link) - IdDigits - 1, Len(link))
           C == HexDigits \cup {letter, "_"}
<1>1. PICK k \in Nat : Len(link) = k + Len(id) /\ \A i \in 1 .. Len(id) : link[k + i] = id[i]
  BY DEF EndsWith
<1>2. /\ id \in Seq(C) /\ Len(id) = IdDigits + 2 /\ id[1] = letter /\ id[2] = "_"
      /\ \A i \in 3 .. Len(id) : id[i] \in HexDigits
  BY IdIs
<1> HIDE DEF C
<1>0. IdDigits \in Nat /\ Len(id) \in Nat /\ Len(id) = IdDigits + 2 /\ Len(link) = k + Len(id)
  <2>1. IdDigits \in Nat
    BY LinksAssumption
  <2>2. Len(id) = IdDigits + 2 /\ Len(link) = k + Len(id)
    BY <1>1, <1>2, Zenon
  <2>3. Len(id) \in Nat
    BY <2>1, <2>2
  <2> QED
    BY <2>1, <2>2, <2>3, Zenon
<1>3. tail = id
  <2>1. /\ Len(link) - IdDigits - 1 = k + 1
        /\ k + 1 \in 1 .. Len(link) /\ Len(link) \in 1 .. Len(link) /\ k + 1 <= Len(link)
    BY <1>0
  <2> DEFINE t == SubSeq(link, k + 1, Len(link))
  <2>2. t \in Seq(T) /\ IsPart(t, link, k + 1, Len(link))
    BY <2>1, SubSeqIs
  <2>3. tail = t
    BY <2>1
  <2> HIDE DEF t, tail
  <2>4. Len(t) = Len(id)
    <3>1. Len(t) = Len(link) - (k + 1) + 1
      BY <2>2 DEF IsPart
    <3> QED
      BY <1>0, <3>1
  <2>5. ASSUME NEW i \in 1 .. Len(t)
        PROVE  t[i] = id[i]
    <3>1. t[i] = link[k + 1 + i - 1]
      BY <2>2 DEF IsPart
    <3>2. k + 1 + i - 1 = k + i
      OBVIOUS
    <3> QED
      BY <1>1, <2>4, <3>1, <3>2
  <2>6. t \in Seq(T \cup C) /\ id \in Seq(T \cup C)
    BY <1>2, <2>2, SeqMonotonic
  <2>7. t = id
    BY <2>4, <2>5, <2>6, SeqEqual
  <2> QED
    BY <2>3, <2>7
<1>4. Len(link) >= IdDigits + 2
  BY <1>0
<1>5. IsId(other, id) <=> other = letter
  BY <1>2 DEF IsId
<1> QED
  BY <1>3, <1>4, <1>5 DEF FindId

\* The dashes of a link.
LEMMA LinkIsDashed ==
    ASSUME NEW link, NEW letter, letter # "-", NEW id \in Ids(letter), EndsWith(link, id)
    PROVE  \A i \in 1 .. Len(link) - 1 : link[i] = "-" => i > 1 /\ link[i + 1] # "-"
<1>1. PICK k \in Nat :
         /\ Len(link) = k + Len(id)
         /\ \A i \in 1 .. Len(id) : link[k + i] = id[i]
         /\ \A i \in 1 .. k : link[i] = "-" => i > 1 /\ i < Len(link) /\ link[i + 1] # "-"
  BY DEF EndsWith
<1>2. Len(id) = IdDigits + 2 /\ \A i \in 1 .. Len(id) : id[i] # "-"
  <2>1. /\ Len(id) = IdDigits + 2 /\ id[1] = letter /\ id[2] = "_"
        /\ \A i \in 3 .. Len(id) : id[i] \in HexDigits
    BY IdIs
  <2>2. "-" \notin HexDigits
    BY DEF HexDigits
  <2>3. ASSUME NEW i \in 1 .. Len(id)
        PROVE  i = 1 \/ i = 2 \/ i \in 3 .. Len(id)
    <3>1. IdDigits \in Nat /\ Len(id) = IdDigits + 2
      BY <2>1, LinksAssumption
    <3> QED
      BY <3>1
  <2> QED
    BY <2>1, <2>2, <2>3
<1>3. ASSUME NEW i \in 1 .. Len(link) - 1, link[i] = "-"
      PROVE  i > 1 /\ link[i + 1] # "-"
  <2>1. i \in 1 .. k
    <3>1. CASE i > k
      <4>1. i - k \in 1 .. Len(id) /\ k + (i - k) = i
        BY <1>1, <1>2, <3>1, LinksAssumption
      <4> QED
        BY <1>1, <1>2, <1>3, <4>1
    <3> QED
      BY <1>1, <1>2, <3>1, LinksAssumption
  <2> QED
    BY <1>1, <1>3, <2>1
<1> QED
  BY <1>3

-----------------------------------------------------------------------------
(* Paths and prompts.                                                      *)

DecodeStep(s, f, i) ==
    IF i > Len(s) THEN <<>>
    ELSE IF s[i] # "%" THEN <<s[i]>> \o f[i + 1]
    ELSE <<Byte(s[i + 1], s[i + 2])>> \o f[i + 3]

PercentStep(s, f, i) ==
    IF i > Len(s) THEN {}
    ELSE IF s[i] # "%" THEN f[i + 1]
    ELSE {i} \cup f[i + 3]

\* What is decoded from a place on.
LEMMA DecodingIs ==
    ASSUME NEW T, NEW s \in Seq(T)
    PROVE  \A i \in 1 .. Len(s) + 3 : Decoding(s)[i] = DecodeStep(s, Decoding(s), i)
<1> DEFINE N == Len(s) + 3
           C == T \cup {Byte(s[i + 1], s[i + 2]) : i \in 1 .. Len(s)}
           V == Seq(C)
           step == [x \in [1 .. N -> V] \X (1 .. N) |-> DecodeStep(s, x[1], x[2])]
           Computed(f) == f = [i \in 1 .. N |-> DecodeStep(s, f, i)]
<1>1. N \in Nat /\ <<>> \in V /\ Len(s) \in Nat
  OBVIOUS
<1>2. ASSUME NEW f \in [1 .. N -> V], NEW i \in 1 .. N
      PROVE  DecodeStep(s, f, i) \in V
  <2>1. CASE i > Len(s)
    BY <1>1, <2>1 DEF DecodeStep
  <2>2. CASE i <= Len(s)
    <3>1. i \in 1 .. Len(s) /\ i + 1 \in 1 .. N /\ i + 3 \in 1 .. N
      BY <2>2
    <3>2. s[i] \in C /\ Byte(s[i + 1], s[i + 2]) \in C
      BY <3>1
    <3>3. f[i + 1] \in V /\ f[i + 3] \in V
      BY <3>1
    <3> HIDE DEF C, N
    <3>4. <<s[i]>> \o f[i + 1] \in V /\ <<Byte(s[i + 1], s[i + 2])>> \o f[i + 3] \in V
      BY <3>2, <3>3
    <3> HIDE DEF V
    <3>5. ~(i > Len(s))
      BY <3>1
    <3> QED
      BY <3>4, <3>5 DEF DecodeStep
  <2> QED
    BY <1>1, <2>1, <2>2
<1>3. ASSUME NEW i \in 1 .. N, NEW f \in [1 .. N -> V], NEW g \in [1 .. N -> V],
             \A m \in i + 1 .. N : f[m] = g[m]
      PROVE  DecodeStep(s, f, i) = DecodeStep(s, g, i)
  <2>1. CASE i > Len(s)
    BY <2>1 DEF DecodeStep
  <2>2. CASE i <= Len(s)
    <3>1. i + 1 \in i + 1 .. N /\ i + 3 \in i + 1 .. N
      BY <1>1, <2>2
    <3>2. f[i + 1] = g[i + 1] /\ f[i + 3] = g[i + 3]
      BY <1>3, <3>1
    <3> QED
      BY <3>2 DEF DecodeStep
  <2> QED
    BY <1>1, <2>1, <2>2
<1>4. IsBackward(N, V, <<>>, step)
  <2> HIDE DEF V, N
  <2>1. step \in [[1 .. N -> V] \X (1 .. N) -> V]
    <3>1. ASSUME NEW x \in [1 .. N -> V] \X (1 .. N)
          PROVE  DecodeStep(s, x[1], x[2]) \in V
      <4>1. x[1] \in [1 .. N -> V] /\ x[2] \in 1 .. N
        OBVIOUS
      <4> QED
        BY <1>2, <4>1
    <3> QED
      BY <3>1
  <2>2. ASSUME NEW i \in 1 .. N, NEW f \in [1 .. N -> V], NEW g \in [1 .. N -> V],
               \A m \in i + 1 .. N : f[m] = g[m]
        PROVE  step[<<f, i>>] = step[<<g, i>>]
    BY <1>3, <2>2
  <2> HIDE DEF step
  <2> QED
    BY <1>1, <2>1, <2>2 DEF IsBackward
<1>5. PICK out : SolvesBackward(out, N, V, step)
  <2> HIDE DEF step, V, N
  <2> QED
    BY <1>1, <1>4, BackwardExists
<1>6. Computed(out)
  <2> HIDE DEF V, N
  <2>1. out \in [1 .. N -> V]
    BY <1>5 DEF SolvesBackward
  <2>2. ASSUME NEW i \in 1 .. N
        PROVE  out[i] = DecodeStep(s, out, i)
    <3>1. step[<<out, i>>] = DecodeStep(s, out, i)
      BY <2>1
    <3> QED
      BY <1>5, <3>1 DEF SolvesBackward
  <2> QED
    BY <2>1, <2>2
<1>7. Decoding(s) = CHOOSE f : Computed(f)
  BY DEF Decoding, DecodeStep
<1>8. Computed(Decoding(s))
  <2> HIDE DEF Computed
  <2> QED
    BY <1>6, <1>7
<1> DEFINE from == Decoding(s)
<1> HIDE DEF from
<1>9. from = [i \in 1 .. N |-> DecodeStep(s, from, i)]
  BY <1>8 DEF from
<1>10. \A i \in 1 .. N : from[i] = DecodeStep(s, from, i)
  BY <1>9
<1> QED
  BY <1>10 DEF from

\* The percent signs from a place on.
LEMMA PercentsIs ==
    ASSUME NEW T, NEW s \in Seq(T)
    PROVE  \A i \in 1 .. Len(s) + 3 : Percents(s)[i] = PercentStep(s, Percents(s), i)
<1> DEFINE N == Len(s) + 3
           V == SUBSET (1 .. Len(s))
           step == [x \in [1 .. N -> V] \X (1 .. N) |-> PercentStep(s, x[1], x[2])]
           Computed(f) == f = [i \in 1 .. N |-> PercentStep(s, f, i)]
<1>1. N \in Nat /\ {} \in V /\ Len(s) \in Nat
  OBVIOUS
<1>2. ASSUME NEW f \in [1 .. N -> V], NEW i \in 1 .. N
      PROVE  PercentStep(s, f, i) \in V
  <2>1. CASE i > Len(s)
    BY <1>1, <2>1 DEF PercentStep
  <2>2. CASE i <= Len(s)
    <3>1. i \in 1 .. Len(s) /\ i + 1 \in 1 .. N /\ i + 3 \in 1 .. N
      BY <2>2
    <3>2. f[i + 1] \in V /\ f[i + 3] \in V
      BY <3>1
    <3>3. {i} \cup f[i + 3] \in V
      BY <3>1, <3>2
    <3> HIDE DEF V, N
    <3> QED
      BY <2>2, <3>2, <3>3 DEF PercentStep
  <2> QED
    BY <1>1, <2>1, <2>2
<1>3. ASSUME NEW i \in 1 .. N, NEW f \in [1 .. N -> V], NEW g \in [1 .. N -> V],
             \A m \in i + 1 .. N : f[m] = g[m]
      PROVE  PercentStep(s, f, i) = PercentStep(s, g, i)
  <2>1. CASE i > Len(s)
    BY <2>1 DEF PercentStep
  <2>2. CASE i <= Len(s)
    <3>1. i + 1 \in i + 1 .. N /\ i + 3 \in i + 1 .. N
      BY <1>1, <2>2
    <3>2. f[i + 1] = g[i + 1] /\ f[i + 3] = g[i + 3]
      BY <1>3, <3>1
    <3> QED
      BY <3>2 DEF PercentStep
  <2> QED
    BY <1>1, <2>1, <2>2
<1>4. IsBackward(N, V, {}, step)
  <2> HIDE DEF V, N
  <2>1. step \in [[1 .. N -> V] \X (1 .. N) -> V]
    <3>1. ASSUME NEW x \in [1 .. N -> V] \X (1 .. N)
          PROVE  PercentStep(s, x[1], x[2]) \in V
      <4>1. x[1] \in [1 .. N -> V] /\ x[2] \in 1 .. N
        OBVIOUS
      <4> QED
        BY <1>2, <4>1
    <3> QED
      BY <3>1
  <2>2. ASSUME NEW i \in 1 .. N, NEW f \in [1 .. N -> V], NEW g \in [1 .. N -> V],
               \A m \in i + 1 .. N : f[m] = g[m]
        PROVE  step[<<f, i>>] = step[<<g, i>>]
    BY <1>3, <2>2
  <2> HIDE DEF step
  <2> QED
    BY <1>1, <2>1, <2>2 DEF IsBackward
<1>5. PICK out : SolvesBackward(out, N, V, step)
  <2> HIDE DEF step, V, N
  <2> QED
    BY <1>1, <1>4, BackwardExists
<1>6. Computed(out)
  <2> HIDE DEF V, N
  <2>1. out \in [1 .. N -> V]
    BY <1>5 DEF SolvesBackward
  <2>2. ASSUME NEW i \in 1 .. N
        PROVE  out[i] = PercentStep(s, out, i)
    <3>1. step[<<out, i>>] = PercentStep(s, out, i)
      BY <2>1
    <3> QED
      BY <1>5, <3>1 DEF SolvesBackward
  <2> QED
    BY <2>1, <2>2
<1>7. Percents(s) = CHOOSE f : Computed(f)
  BY DEF Percents, PercentStep
<1>8. Computed(Percents(s))
  <2> HIDE DEF Computed
  <2> QED
    BY <1>6, <1>7
<1> DEFINE from == Percents(s)
<1> HIDE DEF from
<1>9. from = [i \in 1 .. N |-> PercentStep(s, from, i)]
  BY <1>8 DEF from
<1>10. \A i \in 1 .. N : from[i] = PercentStep(s, from, i)
  BY <1>9
<1> QED
  BY <1>10 DEF from

HexFollows(s, i) == i + 2 <= Len(s) /\ s[i + 1] \in Hex /\ s[i + 2] \in Hex

\* What is decoded is made of characters and bytes, and not longer.
LEMMA DecodedFits ==
    ASSUME NEW T, NEW s \in Seq(T), \A i \in Percents(s)[1] : HexFollows(s, i)
    PROVE  Decoding(s)[1] \in Seq(T \cup Bytes) /\ Len(Decoding(s)[1]) <= Len(s)
<1> DEFINE N == Len(s) + 3
           C == T \cup Bytes
           from == Decoding(s)
           signs == Percents(s)
           Rest(i) == IF i <= Len(s) THEN Len(s) - i + 1 ELSE 0
           Fits(i) == from[i] \in Seq(C) /\ Len(from[i]) <= Rest(i)
           Fine == {i \in 1 .. N : (\A j \in signs[i] : HexFollows(s, j)) => Fits(i)}
<1>1. /\ Len(s) \in Nat /\ N \in Nat
      /\ \A i \in 1 .. N : from[i] = DecodeStep(s, from, i)
      /\ \A i \in 1 .. N : signs[i] = PercentStep(s, signs, i)
  BY DecodingIs, PercentsIs
<1> HIDE DEF from, signs
<1>2. ASSUME NEW i \in 1 .. N, \A m \in i + 1 .. N : m \in Fine,
             \A j \in signs[i] : HexFollows(s, j)
      PROVE  Fits(i)
  <2>1. CASE i > Len(s)
    <3>1. from[i] = <<>>
      <4>1. from[i] = DecodeStep(s, from, i)
        BY <1>1
      <4> QED
        BY <2>1, <4>1 DEF DecodeStep
    <3>2. Rest(i) = 0
      BY <1>1, <2>1
    <3>3. <<>> \in Seq(C) /\ Len(<<>>) = 0
      OBVIOUS
    <3> HIDE DEF C, Rest
    <3> QED
      BY <3>1, <3>2, <3>3
  <2>2. CASE i <= Len(s) /\ s[i] # "%"
    <3>1. i \in 1 .. Len(s) /\ i + 1 \in i + 1 .. N /\ i + 1 \in 1 .. N
      BY <1>1, <2>2
    <3>2. signs[i] = signs[i + 1] /\ from[i] = <<s[i]>> \o from[i + 1]
      <4>1. from[i] = DecodeStep(s, from, i) /\ signs[i] = PercentStep(s, signs, i)
        BY <1>1
      <4>2. ~(i > Len(s))
        BY <3>1
      <4> QED
        BY <2>2, <4>1, <4>2 DEF DecodeStep, PercentStep
    <3>3. from[i + 1] \in Seq(C) /\ Len(from[i + 1]) <= Rest(i + 1)
      BY <1>2, <3>1, <3>2
    <3>4. s[i] \in C
      BY <3>1
    <3> DEFINE rest == from[i + 1]
               new == <<s[i]>> \o rest
    <3> HIDE DEF rest, C
    <3>5. new \in Seq(C) /\ Len(new) = 1 + Len(rest)
      BY <3>3, <3>4 DEF rest
    <3>6. Rest(i) = 1 + Rest(i + 1)
      BY <1>1, <2>2, <3>1
    <3> HIDE DEF new
    <3>7. Len(new) <= Rest(i)
      <4>1. Len(rest) \in Nat /\ Len(rest) <= Rest(i + 1)
        BY <3>3 DEF rest
      <4>2. Rest(i + 1) \in Nat
        BY <1>1, <3>1
      <4> HIDE DEF Rest
      <4> QED
        BY <3>5, <3>6, <4>1, <4>2
    <3>8. from[i] = new
      BY <3>2 DEF new, rest
    <3> QED
      BY <3>5, <3>7, <3>8
  <2>3. CASE i <= Len(s) /\ s[i] = "%"
    <3>1. i \in 1 .. Len(s) /\ i + 3 \in i + 1 .. N /\ i + 3 \in 1 .. N
      BY <1>1, <2>3
    <3>2. signs[i] = {i} \cup signs[i + 3] /\ from[i] = <<Byte(s[i + 1], s[i + 2])>> \o from[i + 3]
      <4>1. from[i] = DecodeStep(s, from, i) /\ signs[i] = PercentStep(s, signs, i)
        BY <1>1
      <4>2. ~(i > Len(s))
        BY <3>1
      <4> QED
        BY <2>3, <4>1, <4>2 DEF DecodeStep, PercentStep
    <3>3. from[i + 3] \in Seq(C) /\ Len(from[i + 3]) <= Rest(i + 3)
      BY <1>2, <3>1, <3>2
    <3>4. i + 2 <= Len(s) /\ s[i + 1] \in Hex /\ s[i + 2] \in Hex
      BY <1>2, <3>2 DEF HexFollows
    <3>5. Byte(s[i + 1], s[i + 2]) \in C
      BY <3>4 DEF Bytes
    <3> DEFINE rest == from[i + 3]
               byte == Byte(s[i + 1], s[i + 2])
               new == <<byte>> \o rest
    <3> HIDE DEF rest, C, byte
    <3>6. new \in Seq(C) /\ Len(new) = 1 + Len(rest)
      BY <3>3, <3>5 DEF rest, byte
    <3>7. Rest(i) = 3 + Rest(i + 3)
      BY <1>1, <3>1, <3>4
    <3> HIDE DEF new
    <3>8. Len(new) <= Rest(i)
      <4>1. Len(rest) \in Nat /\ Len(rest) <= Rest(i + 3)
        BY <3>3 DEF rest
      <4>2. Rest(i + 3) \in Nat
        BY <1>1, <3>1
      <4> HIDE DEF Rest
      <4> QED
        BY <3>6, <3>7, <4>1, <4>2
    <3>9. from[i] = new
      BY <3>2 DEF new, rest, byte
    <3> QED
      BY <3>6, <3>8, <3>9
  <2> QED
    BY <1>1, <2>1, <2>2, <2>3
<1>3. 1 .. N \subseteq Fine
  <2>1. ASSUME NEW i \in 1 .. N, \A m \in i + 1 .. N : m \in Fine
        PROVE  i \in Fine
    <3>1. (\A j \in signs[i] : HexFollows(s, j)) => Fits(i)
      BY <1>2, <2>1
    <3> HIDE DEF Fits
    <3> QED
      BY <3>1
  <2> HIDE DEF Fine, N
  <2> QED
    BY <1>1, <2>1, BackwardInduction
<1>4. 1 \in Fine
  <2>1. 1 \in 1 .. N
    BY <1>1
  <2> HIDE DEF Fine, N
  <2> QED
    BY <1>3, <2>1
<1>5. Fits(1)
  <2>1. \A j \in signs[1] : HexFollows(s, j)
    BY DEF signs
  <2> HIDE DEF Fits
  <2> QED
    BY <1>4, <2>1
<1>6. Rest(1) = Len(s)
  BY <1>1
<1> QED
  <2> HIDE DEF Rest
  <2> QED
    BY <1>5, <1>6 DEF from

\* A text without percent signs is decoded to itself.
LEMMA NothingToDecode ==
    ASSUME NEW T, NEW s \in Seq(T), \A i \in 1 .. Len(s) : s[i] # "%"
    PROVE  PathUnescape(s) = s
<1> DEFINE N == Len(s) + 3
           from == Decoding(s)
           signs == Percents(s)
           Left(i) == SubSeq(s, i, Len(s))
           Fine == {i \in 1 .. N : signs[i] = {} /\ from[i] = Left(i)}
<1>1. /\ Len(s) \in Nat /\ N \in Nat
      /\ \A i \in 1 .. N : from[i] = DecodeStep(s, from, i)
      /\ \A i \in 1 .. N : signs[i] = PercentStep(s, signs, i)
  BY DecodingIs, PercentsIs
<1> HIDE DEF from, signs
<1>2. ASSUME NEW i \in 1 .. N, \A m \in i + 1 .. N : m \in Fine
      PROVE  signs[i] = {} /\ from[i] = Left(i)
  <2>1. CASE i > Len(s)
    <3>1. Left(i) = <<>>
      BY <1>1, <2>1, SubSeqEmpty
    <3> QED
      BY <1>1, <2>1, <3>1 DEF DecodeStep, PercentStep
  <2>2. CASE i <= Len(s)
    <3>1. i \in 1 .. Len(s) /\ i + 1 \in i + 1 .. N /\ Len(s) \in i .. Len(s)
      BY <1>1, <2>2
    <3>2. signs[i] = signs[i + 1] /\ from[i] = <<s[i]>> \o from[i + 1]
      <4>1. ~(i > Len(s)) /\ s[i] # "%"
        BY <3>1
      <4> QED
        BY <1>1, <4>1 DEF DecodeStep, PercentStep
    <3>3. signs[i + 1] = {} /\ from[i + 1] = Left(i + 1)
      BY <1>2, <3>1
    <3>4. Left(i) = <<s[i]>> \o Left(i + 1)
      BY <3>1, SubSeqRecursiveFirst
    <3> HIDE DEF Left
    <3> QED
      BY <3>2, <3>3, <3>4
  <2> QED
    BY <1>1, <2>1, <2>2
<1>3. 1 .. N \subseteq Fine
  <2>1. ASSUME NEW i \in 1 .. N, \A m \in i + 1 .. N : m \in Fine
        PROVE  i \in Fine
    <3>1. signs[i] = {} /\ from[i] = Left(i)
      BY <1>2, <2>1
    <3> HIDE DEF Left
    <3> QED
      BY <3>1
  <2> HIDE DEF Fine, N
  <2> QED
    BY <1>1, <2>1, BackwardInduction
<1>4. signs[1] = {} /\ from[1] = Left(1)
  <2>1. 1 \in 1 .. N
    BY <1>1
  <2>2. 1 \in Fine
    <3> HIDE DEF Fine, N
    <3> QED
      BY <1>3, <2>1
  <2> QED
    BY <2>2
<1>5. Left(1) = s
  BY SubSeqFull
<1> QED
  BY <1>4, <1>5 DEF PathUnescape, from, signs

\* Dashes and slashes become spaces.
LEMMA ToSpacesIs ==
    ASSUME NEW T, "space" \in T, NEW s \in Seq(T)
    PROVE  /\ ToSpaces(s) \in Seq(T \ {"-", "/"}) /\ Len(ToSpaces(s)) = Len(s)
           /\ \A i \in 1 .. Len(s) :
                 ToSpaces(s)[i] = IF s[i] \in {"-", "/"} THEN "space" ELSE s[i]
<1>1. DOMAIN s = 1 .. Len(s) /\ Len(s) \in Nat
  OBVIOUS
<1>2. ToSpaces(s) = [i \in 1 .. Len(s) |-> IF s[i] \in {"-", "/"} THEN "space" ELSE s[i]]
  BY <1>1 DEF ToSpaces
<1>3. ASSUME NEW i \in 1 .. Len(s)
      PROVE  (IF s[i] \in {"-", "/"} THEN "space" ELSE s[i]) \in T \ {"-", "/"}
  BY <1>1
<1> QED
  BY <1>1, <1>2, <1>3

\* A prompt with dashes for some of its spaces leads back to it.
LEMMA PromptIsMet ==
    ASSUME NEW T, "space" \in T, Refused \notin Seq(T), NEW p \in Seq(T), NEW q \in Seq(T),
           p # <<>>, IsPlain(p), Len(p) <= PathBytes, Len(q) = Len(p),
           \A i \in 1 .. Len(p) : p[i] \notin {"-", "/", "bad", "%"},
           \A i \in 1 .. Len(p) : q[i] = p[i] \/ (p[i] = "space" /\ q[i] = "-")
    PROVE  HandlePath(q) = p
<1>1. \A i \in 1 .. Len(q) : q[i] # "%" /\ q[i] # "bad"
  OBVIOUS
<1>2. PathUnescape(q) = q
  BY <1>1, NothingToDecode
<1>3. q # Refused
  OBVIOUS
<1>4. IsUTF8(q)
  <2>1. DOMAIN q = 1 .. Len(q)
    OBVIOUS
  <2> QED
    BY <1>1, <2>1 DEF IsUTF8
<1>5. ToSpaces(q) = p
  <2> DEFINE t == ToSpaces(q)
  <2>1. /\ t \in Seq(T \ {"-", "/"}) /\ Len(t) = Len(q)
        /\ \A i \in 1 .. Len(q) : t[i] = IF q[i] \in {"-", "/"} THEN "space" ELSE q[i]
    BY ToSpacesIs
  <2> HIDE DEF t
  <2>2. ASSUME NEW i \in 1 .. Len(p)
        PROVE  t[i] = p[i]
    BY <2>1
  <2>3. t \in Seq(T) /\ Len(t) = Len(p)
    BY <2>1
  <2> QED
    BY <2>2, <2>3, SeqEqual DEF t
<1>6. Normalise(q) = p
  <2>1. Settle(p) = p
    BY PlainSettles
  <2> QED
    BY <1>5, <2>1 DEF Normalise, Settle
<1>7. ToPrompt(q) = p
  BY <1>3, <1>4, <1>6 DEF ToPrompt
<1>8. ~(Len(q) > PathBytes)
  BY PathAssumption
<1> QED
  BY <1>2, <1>7, <1>8 DEF HandlePath, ImagePathToPrompt

\* What becomes of a path that is not refused.
LEMMA PromptIs ==
    ASSUME NEW T, NEW path \in Seq(T), Refused \notin Seq(T \cup Bytes), HandlePath(path) # Refused
    PROVE  \E s \in Seq((T \cup Bytes \cup {"space"}) \ {"-", "/", "bad"}) :
              /\ Len(s) <= Len(path) /\ Len(path) <= PathBytes
              /\ HandlePath(path) = Settle(s) /\ Settle(s) # <<>>
<1> DEFINE d == PathUnescape(path)
           B == T \cup Bytes
           K == B \cup {"space"}
           s == ToSpaces(d)
<1>1. Len(path) <= PathBytes /\ HandlePath(path) = ToPrompt(d)
  <2>1. Len(path) \in Nat
    OBVIOUS
  <2> QED
    BY <2>1, PathAssumption DEF HandlePath, ImagePathToPrompt
<1> HIDE DEF d
<1>2. /\ d # Refused
      /\ IsUTF8(d)
      /\ Normalise(d) # <<>>
      /\ HandlePath(path) = Normalise(d)
  BY <1>1 DEF ToPrompt
<1>3. d \in Seq(B) /\ Len(d) <= Len(path)
  <2>1. (\A i \in Percents(path)[1] : HexFollows(path, i)) /\ d = Decoding(path)[1]
    BY <1>2 DEF d, PathUnescape, HexFollows
  <2> HIDE DEF B
  <2> QED
    BY <2>1, DecodedFits DEF B
<1>4. d \in Seq(K \ {"bad"})
  <2>1. DOMAIN d = 1 .. Len(d) /\ \A i \in 1 .. Len(d) : d[i] # "bad" /\ d[i] \in B
    BY <1>2, <1>3 DEF IsUTF8
  <2>2. \A i \in 1 .. Len(d) : d[i] \in K \ {"bad"}
    BY <2>1
  <2> HIDE DEF K
  <2> QED
    BY <1>3, <2>1, <2>2
<1>5. s \in Seq((K \ {"bad"}) \ {"-", "/"}) /\ Len(s) = Len(d)
  <2>1. "space" \in K \ {"bad"}
    OBVIOUS
  <2> HIDE DEF K
  <2> QED
    BY <1>4, <2>1, ToSpacesIs
<1>6. (K \ {"bad"}) \ {"-", "/"} = K \ {"-", "/", "bad"}
  OBVIOUS
<1>7. Normalise(d) = Settle(s)
  BY DEF Normalise, Settle
<1>8. Len(s) <= Len(path)
  BY <1>3, <1>5
<1>9. s \in Seq(K \ {"-", "/", "bad"})
  BY <1>5, <1>6
<1> HIDE DEF s
<1> QED
  BY <1>1, <1>2, <1>7, <1>8, <1>9

-----------------------------------------------------------------------------
(* Answers.                                                                *)

\* Cutting an answer leaves parts of it.
LEMMA TrimBlanksType ==
    ASSUME NEW T, NEW s \in Seq(T)
    PROVE  TrimBlanks(s) \in Seq(T)
<1> DEFINE kept == {i \in DOMAIN s : ~Is(s[i], "whitespace")}
<1>1. CASE kept = {}
  <2>1. <<>> \in Seq(T)
    OBVIOUS
  <2> QED
    BY <1>1, <2>1 DEF TrimBlanks
<1>2. CASE kept # {}
  <2>1. kept \in SUBSET (1 .. Len(s)) /\ Len(s) \in Nat
    OBVIOUS
  <2> DEFINE lo == Min(kept)
             hi == Max(kept)
  <2>2. lo \in kept /\ hi \in kept
    <3> HIDE DEF kept
    <3> QED
      BY <1>2, <2>1, MaxIs, MinIs
  <2>3. TrimBlanks(s) = SubSeq(s, lo, hi)
    BY <1>2 DEF TrimBlanks
  <2>4. lo \in Int /\ hi \in Int /\ lo >= 1 /\ hi <= Len(s)
    <3> HIDE DEF lo, hi
    <3> QED
      BY <2>1, <2>2
  <2> HIDE DEF lo, hi
  <2>5. \A i \in lo .. hi : s[i] \in T
    BY <2>1, <2>4
  <2> QED
    BY <2>3, <2>4, <2>5, SubSeqProperties
<1> QED
  BY <1>1, <1>2

\* And so does taking off a fence.
LEMMA StripFencesType ==
    ASSUME NEW T, NEW s \in Seq(T), NEW tag
    PROVE  StripFences(tag, s) \in Seq(T)
<1> DEFINE text == TrimBlanks(s)
           body == SubSeq(text, 2, Len(text) - 1)
<1>1. text \in Seq(T) /\ Len(text) \in Nat
  BY TrimBlanksType
<1> HIDE DEF text
<1>2. body \in Seq(T)
  <2>1. \A i \in 2 .. Len(text) - 1 : text[i] \in T
    BY <1>1
  <2>2. 2 \in Int /\ Len(text) - 1 \in Int
    BY <1>1
  <2> QED
    BY <2>1, <2>2, SubSeqProperties
<1> HIDE DEF body
<1>3. TrimBlanks(body) \in Seq(T)
  BY <1>2, TrimBlanksType
<1>4. body # <<>> => TrimBlanks(Tail(body)) \in Seq(T)
  BY <1>2, HeadTailProperties, TrimBlanksType
<1>5. StripFences(tag, s) \in {text, TrimBlanks(body), TrimBlanks(Tail(body))}
  BY DEF StripFences, text, body
<1>6. CASE body # <<>>
  BY <1>1, <1>3, <1>4, <1>5, <1>6
<1>7. CASE body = <<>>
  <2>1. StripFences(tag, s) \in {text, TrimBlanks(body)}
    BY <1>7 DEF StripFences, text, body
  <2> QED
    BY <1>1, <1>3, <2>1
<1> QED
  BY <1>6, <1>7

\* The field of an object, as it is kept.
LEMMA ItemIs ==
    ASSUME NEW part \in Parts, Is(part, "object"), NEW fields \in {ItemFields, AdFields}
    PROVE  Item(part, fields) \in [fields -> {"text", ""}]
<1>1. part.fields \in [AdFields -> FieldTexts]
  BY AnswersAssumption
<1>2. fields \subseteq AdFields
  BY DEF AdFields
<1>3. ASSUME NEW field \in fields
      PROVE  TrimField(part.fields[field]) \in {"text", ""}
  <2>1. part.fields[field] \in FieldTexts
    BY <1>1, <1>2
  <2> QED
    BY <2>1 DEF TrimField, FieldTexts
<1> QED
  BY <1>3 DEF Item

\* An answer that is accepted has all its texts, and no error.
LEMMA AcceptedIs ==
    ASSUME NEW parts \in Seq(Parts), NEW fields \in {ItemFields, AdFields},
           GenerateItem(parts, fields) # NoAnswer
    PROVE  /\ GenerateItem(parts, fields) \in [fields -> {"text"}]
           /\ \A i \in DOMAIN parts : ~Is(parts[i], "error")
<1> DEFINE output == Output(parts)
           text == StripJSONFences(output)
<1>1. output # NoAnswer /\ GenerateItem(parts, fields) = Decode(output, fields)
  BY DEF GenerateItem
<1>2. /\ \A i \in DOMAIN parts : ~Is(parts[i], "error")
      /\ output = Writing(parts)[Len(parts)]
  BY <1>1 DEF Output
<1>3. output \in Seq(Parts)
  <2>1. Writing(parts) \in [0 .. Len(parts) -> Seq(Parts)]
    BY WritingIs
  <2>2. Len(parts) \in 0 .. Len(parts)
    OBVIOUS
  <2> QED
    BY <1>2, <2>1, <2>2
<1> HIDE DEF output
<1>4. text \in Seq(Parts)
  BY <1>3, StripFencesType DEF StripJSONFences
<1>5. Decode(output, fields) # NoAnswer
  BY <1>1
<1>6. /\ Len(text) = 1 /\ Is(text[1], "object")
      /\ \A field \in fields : Item(text[1], fields)[field] # ""
      /\ Decode(output, fields) = Item(text[1], fields)
  BY <1>5 DEF Decode
<1> HIDE DEF text
<1>7. text[1] \in Parts
  <2>1. Len(text) = 1
    BY <1>6
  <2>2. 1 \in 1 .. Len(text)
    BY <2>1
  <2> QED
    BY <1>4, <2>2
<1> DEFINE item == Item(text[1], fields)
<1>8. item \in [fields -> {"text", ""}]
  BY <1>6, <1>7, ItemIs
<1>9. \A field \in fields : item[field] # ""
  BY <1>6
<1> HIDE DEF item
<1>10. item \in [fields -> {"text"}]
  BY <1>8, <1>9
<1> QED
  BY <1>1, <1>2, <1>6, <1>10 DEF item

\* The cards of an answer: the row at position 0, none at position 1.
LEMMA CardsOf ==
    ASSUME NEW kind, NEW answer, NEW fields \in {ItemFields, AdFields},
           answer # NoAnswer => answer \in [fields -> {"text"}],
           NEW p \in {0, 1}
    PROVE  LET rows    == RowOf(answer)
               signals == InitialSignals(rows)
               patched == PatchSignals(InitialSignals(RowOf(NoAnswer)), rows, {0})
           IN  /\ RenderedCard(kind, rows[p]) = BoundCard(kind, signals[p])
               /\ RenderedCard(kind, rows[p]) = BoundCard(kind, patched[p])
               /\ RenderedCard(kind, rows[p]).filled <=> rows[p] # NoRow
<1> DEFINE rows == RowOf(answer)
           none == RowOf(NoAnswer)
           signals == InitialSignals(rows)
           patched == PatchSignals(InitialSignals(none), rows, {0})
           row == [id |-> "id", fields |-> answer]
<1>1. /\ rows = [q \in {0, 1} |-> IF q = 0 /\ answer # NoAnswer THEN row ELSE NoRow]
      /\ none = [q \in {0, 1} |-> NoRow]
  BY DEF RowOf
<1> HIDE DEF rows, none
<1>2. /\ signals[p] = IF rows[p] = NoRow THEN EmptySignal ELSE FilledSignal(rows[p])
      /\ patched[p] = IF p = 0 /\ rows[p] # NoRow THEN FilledSignal(rows[p]) ELSE EmptySignal
  BY <1>1 DEF InitialSignals, PatchSignals
<1> HIDE DEF signals, patched
<1>3. CASE rows[p] = NoRow
  <2>1. signals[p] = EmptySignal /\ patched[p] = EmptySignal
    BY <1>2, <1>3
  <2>2. RenderedCard(kind, rows[p]) = Skeleton /\ Skeleton.filled = FALSE
    BY <1>3 DEF RenderedCard, Skeleton
  <2>3. BoundCard(kind, EmptySignal) = Skeleton
    BY DEF BoundCard, EmptySignal
  <2> QED
    BY <1>3, <2>1, <2>2, <2>3 DEF rows, signals, patched, none
<1>4. CASE rows[p] # NoRow
  <2>1. p = 0 /\ answer # NoAnswer /\ rows[p] = row
    BY <1>1, <1>4
  <2>2. answer \in [fields -> {"text"}]
    BY <2>1
  <2>3. row.fields["title"] = "text"
    BY <2>2 DEF AdFields, ItemFields
  <2>4. signals[p] = FilledSignal(row) /\ patched[p] = FilledSignal(row)
    BY <1>2, <1>4, <2>1
  <2> HIDE DEF row
  <2>5. row # NoRow
    BY <1>4, <2>1
  <2>6. RenderedCard(kind, row) = [filled |-> TRUE, href |-> <<Prefix(kind), Slug(row)>>,
                                   texts |-> [key \in DOMAIN TextKeys |-> Field(row, TextKeys[key])]]
    BY <2>3, <2>5 DEF RenderedCard
  <2>7. BoundCard(kind, FilledSignal(row)) = RenderedCard(kind, row)
    BY <2>6 DEF BoundCard, FilledSignal
  <2>8. RenderedCard(kind, row).filled
    BY <2>6
  <2> QED
    BY <1>4, <2>1, <2>4, <2>7, <2>8 DEF rows, signals, patched, none
<1> QED
  BY <1>3, <1>4

-----------------------------------------------------------------------------
(* The theorems.                                                           *)

\* The input is a sequence of the symbols of its conversion.
InputFits ==
    /\ conversion \in {"query", "title", "path", "answer"}
    /\ input \in Seq(Symbols)

\* An input grows by symbols only (TextsInit, Extend).
LEMMA InputsFit == TextsSpec => []InputFits
<1>1. TextsInit => InputFits
  BY DEF TextsInit, InputFits
<1>2. InputFits /\ [Extend]_textVars => InputFits'
  <2> SUFFICES ASSUME InputFits, [Extend]_textVars
               PROVE  InputFits'
    OBVIOUS
  <2>1. CASE Extend
    <3>1. PICK symbol \in Symbols : input' = Append(input, symbol)
      BY <2>1 DEF Extend
    <3>2. conversion' = conversion
      BY <2>1 DEF Extend
    <3>3. Symbols' = Symbols
      BY <3>2 DEF Symbols
    <3>4. input' \in Seq(Symbols)
      BY <3>1 DEF InputFits
    <3> QED
      BY <3>2, <3>3, <3>4 DEF InputFits
  <2>2. CASE UNCHANGED textVars
    <3>1. conversion' = conversion /\ input' = input
      BY <2>2 DEF textVars
    <3>2. Symbols' = Symbols
      BY <3>1 DEF Symbols
    <3> QED
      BY <3>1, <3>2 DEF InputFits
  <2> QED
    BY <2>1, <2>2
<1> QED
  BY <1>1, <1>2, PTL DEF TextsSpec

\* What is said of queries holds of every input.
LEMMA QueriesHold ==
    InputFits => QueriesMeet
<1> SUFFICES ASSUME InputFits, conversion = "query"
             PROVE  LET text == NormalizeQuery(input)
                    IN  /\ IsPlain(text)
                        /\ Solid(text) = Solid(ToLower(input))
                        /\ NormalizeQuery(text) = text
                        /\ NormalizeQuery(Respaced(text)) = text
                        /\ IsHome(input) <=> text = <<>>
  BY DEF QueriesMeet
<1> DEFINE T == QueryLetters \cup {"space", "tab"}
           L == Lowered(T)
           text == NormalizeQuery(input)
<1>1. input \in Seq(T) /\ "space" \in T
  <2>1. Symbols = QueryLetters
    BY DEF Symbols
  <2> QED
    BY <2>1 DEF InputFits
<1>2. "space" \in L /\ "tab" \in L
  BY LowerCaseIs DEF Lowered
<1> HIDE DEF T
<1>3. text \in Seq(L) /\ IsPlain(text)
  BY <1>1, TrimType, SettledIsPlain, NormalizeIs
<1>4. Solid(text) = Solid(ToLower(input))
  BY <1>1, NormalizeKeepsLetters
<1> HIDE DEF L
<1>5. IsHome(input) <=> text = <<>>
  BY NormalizeIs, NothingSettles DEF IsHome
<1> HIDE DEF text
<1>6. NormalizeQuery(text) = text /\ NormalizeQuery(Respaced(text)) = text
  BY <1>2, <1>3, PlainIsNormal, RespacedIsNormal
<1> QED
  BY <1>3, <1>4, <1>5, <1>6 DEF text

\* Of queries of any length over any letters: the stored text is plain, keeps the
\* letters, is its own normal form and that of any spacing of its words, and is
\* empty exactly for the home page (NormalizeQuery, Search).
THEOREM QueriesAlwaysMeet == TextsSpec => []QueriesMeet
<1>1. InputFits => QueriesMeet
  BY QueriesHold
<1> QED
  BY <1>1, InputsFit, PTL

\* What is said of links holds of every input.
LEMMA LinksHold ==
    InputFits => LinksLeadBack
<1> SUFFICES ASSUME InputFits, conversion = "title"
             PROVE  LinksLeadBack
  BY DEF LinksLeadBack
<1> DEFINE T == TitleLetters \cup {"-"}
<1>1. input \in Seq(T) /\ "-" \in T
  <2>1. Symbols = TitleLetters
    BY DEF Symbols
  <2> QED
    BY <2>1 DEF InputFits
<1> HIDE DEF T
<1>2. ASSUME NEW letter \in {"r", "a"}, NEW id \in Ids(letter)
      PROVE  /\ FindId(letter, SiteSlug(input, id)) = id
             /\ \A other \in {"r", "a"} \ {letter} : FindId(other, SiteSlug(input, id)) = <<>>
             /\ CardSlug(input, id) = SiteSlug(input, id)
             /\ \A i \in 1 .. Len(SiteSlug(input, id)) - 1 :
                   SiteSlug(input, id)[i] = "-" => i > 1 /\ SiteSlug(input, id)[i + 1] # "-"
  <2> DEFINE link == SiteSlug(input, id)
             D == Lowered(T) \cup HexDigits \cup {letter, "_"}
  <2>1. letter # "-"
    OBVIOUS
  <2>2. link \in Seq(D) /\ EndsWith(link, id)
    BY <1>1, <2>1, SiteSlugIs
  <2>3. CardSlug(input, id) = link
    BY DEF CardSlug, SiteSlug, TitleToSlug
  <2> HIDE DEF link, D
  <2>4. FindId(letter, link) = id /\ \A other \in {"r", "a"} \ {letter} : FindId(other, link) = <<>>
    BY <2>2, FindIdIs
  <2>5. \A i \in 1 .. Len(link) - 1 : link[i] = "-" => i > 1 /\ link[i + 1] # "-"
    BY <2>1, <2>2, LinkIsDashed
  <2> QED
    BY <2>3, <2>4, <2>5 DEF link
<1>3. ASSUME NEW id \in Ids("r")
      PROVE  ExtractResultID(SiteSlug(input, id)) = id /\ ExtractAdID(SiteSlug(input, id)) = <<>>
  BY <1>2 DEF ExtractResultID, ExtractAdID
<1>4. ASSUME NEW id \in Ids("a")
      PROVE  ExtractAdID(SiteSlug(input, id)) = id /\ ExtractResultID(SiteSlug(input, id)) = <<>>
  BY <1>2 DEF ExtractResultID, ExtractAdID
<1>5. ASSUME NEW id \in Ids("r") \cup Ids("a")
      PROVE  /\ CardSlug(input, id) = SiteSlug(input, id)
             /\ \A i \in 1 .. Len(SiteSlug(input, id)) - 1 :
                   SiteSlug(input, id)[i] = "-" => i > 1 /\ SiteSlug(input, id)[i + 1] # "-"
  BY <1>2
<1> QED
  BY <1>3, <1>4, <1>5 DEF LinksLeadBack

\* Of titles of any length over any letters, cut at any place, with ids of any
\* length: a link leads back to its row and to none of the other table, has no
\* stray dashes, and is the same in both copies of siteSlug.
THEOREM LinksAlwaysLeadBack == TextsSpec => []LinksLeadBack
<1>1. InputFits => LinksLeadBack
  BY LinksHold
<1> QED
  BY <1>1, InputsFit, PTL

\* What is said of prompts holds of every input.
LEMMA PromptsHold ==
    InputFits => PromptsMeet
<1> SUFFICES ASSUME InputFits, conversion = "path", HandlePath(input) # Refused
             PROVE  LET prompt == HandlePath(input)
                    IN  /\ prompt # <<>>
                        /\ IsPlain(prompt)
                        /\ \A i \in DOMAIN prompt : prompt[i] \notin {"-", "/", "bad"}
                        /\ "%" \notin {prompt[i] : i \in DOMAIN prompt} =>
                              /\ HandlePath(prompt) = prompt
                              /\ HandlePath(KebabCase(prompt)) = prompt
  BY DEF PromptsMeet
<1> DEFINE prompt == HandlePath(input)
           M == (PathLetters \cup Bytes \cup {"space"}) \ {"-", "/", "bad"}
           T == PathLetters \cup Bytes \cup LowerLetters \cup {"space", "-"}
<1>1. input \in Seq(PathLetters)
  <2>1. Symbols = PathLetters
    BY DEF Symbols
  <2> QED
    BY <2>1 DEF InputFits
<1>2. Refused \notin Seq(PathLetters \cup Bytes) /\ Refused \notin Seq(T)
  <2>1. Refused \notin Seq(T)
    BY RefusedAssumption
  <2>2. PathLetters \cup Bytes \subseteq T
    OBVIOUS
  <2> HIDE DEF T
  <2> QED
    BY <2>1, <2>2
<1>3. PICK s \in Seq(M) : /\ Len(s) <= Len(input) /\ Len(input) <= PathBytes
                          /\ prompt = Settle(s) /\ Settle(s) # <<>>
  BY <1>1, <1>2, PromptIs
<1>4. "space" \in M
  OBVIOUS
<1> HIDE DEF prompt
<1>5. prompt \in Seq(Lowered(M)) /\ IsPlain(prompt) /\ Len(prompt) <= Len(s)
  <2> HIDE DEF M
  <2> QED
    BY <1>3, <1>4, SettledIsPlain
<1>6. prompt # <<>>
  BY <1>3
<1>7. ASSUME NEW c \in Lowered(M)
      PROVE  c \in T /\ c \notin {"-", "/", "bad"}
  <2>1. CASE c \in M
    BY <2>1
  <2>2. CASE c \in {"a", "r", "u", "f", "w"}
    <3>1. c \in LowerLetters
      BY <2>2 DEF LowerLetters, LowerCase
    <3> QED
      BY <2>2, <3>1
  <2> QED
    BY <1>7, <2>1, <2>2 DEF Lowered
<1>8. \A i \in 1 .. Len(prompt) : prompt[i] \in T /\ prompt[i] \notin {"-", "/", "bad"}
  <2> HIDE DEF T, M
  <2> QED
    BY <1>5, <1>7
<1>9. prompt \in Seq(T) /\ DOMAIN prompt = 1 .. Len(prompt) /\ Len(prompt) \in Nat
  <2> HIDE DEF T, M
  <2> QED
    BY <1>5, <1>8
<1>10. Len(prompt) <= PathBytes
  <2>1. Len(s) \in Nat /\ Len(input) \in Nat
    BY <1>1
  <2> QED
    BY <1>3, <1>5, <1>9, <2>1, PathAssumption
<1>11. ASSUME \A i \in 1 .. Len(prompt) : prompt[i] # "%"
       PROVE  HandlePath(prompt) = prompt /\ HandlePath(KebabCase(prompt)) = prompt
  <2> DEFINE kebab == KebabCase(prompt)
  <2>1. "space" \in T
    OBVIOUS
  <2>2. /\ kebab \in Seq(T) /\ Len(kebab) = Len(prompt)
        /\ \A i \in 1 .. Len(prompt) :
              kebab[i] = prompt[i] \/ (prompt[i] = "space" /\ kebab[i] = "-")
    <3>1. kebab = [i \in 1 .. Len(prompt) |-> IF prompt[i] = "space" THEN "-" ELSE prompt[i]]
      BY <1>9 DEF KebabCase
    <3>2. "-" \in T
      OBVIOUS
    <3> HIDE DEF T
    <3>3. \A i \in 1 .. Len(prompt) : (IF prompt[i] = "space" THEN "-" ELSE prompt[i]) \in T
      BY <1>8, <3>2
    <3>4. kebab \in Seq(T) /\ Len(kebab) = Len(prompt)
      BY <1>9, <3>1, <3>3
    <3> QED
      BY <3>1, <3>4
  <2>3. \A i \in 1 .. Len(prompt) : prompt[i] \notin {"-", "/", "bad", "%"}
    BY <1>8, <1>11
  <2> HIDE DEF kebab, T, M
  <2>4. HandlePath(kebab) = prompt
    BY <1>2, <1>5, <1>6, <1>9, <1>10, <2>1, <2>2, <2>3, PromptIsMet
  <2>5. HandlePath(prompt) = prompt
    BY <1>2, <1>5, <1>6, <1>9, <1>10, <2>1, <2>3, PromptIsMet
  <2> QED
    BY <2>4, <2>5 DEF kebab
<1>12. "%" \notin {prompt[i] : i \in DOMAIN prompt} => \A i \in 1 .. Len(prompt) : prompt[i] # "%"
  BY <1>9
<1> QED
  BY <1>5, <1>6, <1>8, <1>9, <1>11, <1>12 DEF prompt

\* Of paths of any length over any letters: a prompt is plain text without
\* dashes, slashes or bytes that are no UTF-8, and it and its kebab case lead
\* back to it unless it holds a percent sign (handleImage, imagePathToPrompt).
THEOREM PromptsAlwaysMeet == TextsSpec => []PromptsMeet
<1>1. InputFits => PromptsMeet
  BY PromptsHold
<1> QED
  BY <1>1, InputsFit, PTL

\* What is said of answers holds of every input.
LEMMA CardsHold ==
    InputFits => CardsAgree
<1> SUFFICES ASSUME InputFits, conversion = "answer", NEW kind \in {"result", "ad"}
             PROVE  LET answer  == IF kind = "result" THEN GenerateResult(input)
                                   ELSE GenerateAd(input)
                        rows    == RowOf(answer)
                        signals == InitialSignals(rows)
                        patched == PatchSignals(InitialSignals(RowOf(NoAnswer)), rows, {0})
                    IN  /\ answer # NoAnswer =>
                              /\ \A field \in DOMAIN answer : answer[field] = "text"
                              /\ \A i \in DOMAIN input : ~Is(input[i], "error")
                        /\ \A p \in {0, 1} :
                              /\ RenderedCard(kind, rows[p]) = BoundCard(kind, signals[p])
                              /\ RenderedCard(kind, rows[p]) = BoundCard(kind, patched[p])
                              /\ RenderedCard(kind, rows[p]).filled <=> rows[p] # NoRow
  BY DEF CardsAgree
<1> DEFINE answer == IF kind = "result" THEN GenerateResult(input) ELSE GenerateAd(input)
           fields == IF kind = "result" THEN ItemFields ELSE AdFields
<1>1. input \in Seq(Parts)
  <2>1. Symbols = Parts
    BY DEF Symbols
  <2> QED
    BY <2>1 DEF InputFits
<1>2. fields \in {ItemFields, AdFields} /\ answer = GenerateItem(input, fields)
  BY DEF GenerateResult, GenerateAd
<1> HIDE DEF answer, fields
<1>3. answer # NoAnswer => /\ answer \in [fields -> {"text"}]
                           /\ \A i \in DOMAIN input : ~Is(input[i], "error")
  BY <1>1, <1>2, AcceptedIs
<1>4. answer # NoAnswer => \A field \in DOMAIN answer : answer[field] = "text"
  BY <1>3
<1>5. ASSUME NEW p \in {0, 1}
      PROVE  LET rows    == RowOf(answer)
                 signals == InitialSignals(rows)
                 patched == PatchSignals(InitialSignals(RowOf(NoAnswer)), rows, {0})
             IN  /\ RenderedCard(kind, rows[p]) = BoundCard(kind, signals[p])
                 /\ RenderedCard(kind, rows[p]) = BoundCard(kind, patched[p])
                 /\ RenderedCard(kind, rows[p]).filled <=> rows[p] # NoRow
  BY <1>2, <1>3, CardsOf
<1> QED
  BY <1>3, <1>4, <1>5 DEF answer

\* Of answers of any number of parts: one that is accepted has all its texts and
\* came without an error, and the markup, the initial signals and the patch of
\* the stream show the same card, filled exactly if there is a row (GenerateResult,
\* GenerateAd, resultCard, adCard, writeSignalsPatch).
THEOREM CardsAlwaysAgree == TextsSpec => []CardsAgree
<1>1. InputFits => CardsAgree
  BY CardsHold
<1> QED
  BY <1>1, InputsFit, PTL

\* The path is decoded as net/http has left it, and short enough.
PlainlyEscaped ==
    LET path == PathUnescape(input)
    IN  path # Refused => Len(path) <= PathBytes /\ \A i \in 1 .. Len(path) : path[i] # "%"

LEMMA DecodedOnceHolds ==
    InputFits => (PlainlyEscaped => PathsDecodedOnce)
<1> SUFFICES ASSUME InputFits, PlainlyEscaped, conversion = "path"
             PROVE  Requested(input) = ToPrompt(PathUnescape(input))
  BY DEF PathsDecodedOnce
<1> DEFINE path == PathUnescape(input)
<1>1. CASE path = Refused
  BY <1>1 DEF Requested, ToPrompt
<1>2. CASE path # Refused
  <2>1. input \in Seq(PathLetters)
    <3>1. Symbols = PathLetters
      BY DEF Symbols
    <3> QED
      BY <3>1 DEF InputFits
  <2>2. path \in Seq(PathLetters \cup Bytes)
    <3>1. (\A i \in Percents(input)[1] : HexFollows(input, i)) /\ path = Decoding(input)[1]
      BY <1>2 DEF PathUnescape, HexFollows
    <3> QED
      BY <2>1, <3>1, DecodedFits
  <2>3. Len(path) <= PathBytes /\ \A i \in 1 .. Len(path) : path[i] # "%"
    BY <1>2 DEF PlainlyEscaped
  <2> HIDE DEF path
  <2>4. PathUnescape(path) = path
    BY <2>2, <2>3, NothingToDecode
  <2>5. Len(path) \in Nat
    BY <2>2
  <2>6. ~(Len(path) > PathBytes)
    BY <2>3, <2>5, PathAssumption
  <2>7. Requested(input) = HandlePath(path)
    BY <1>2 DEF Requested, path
  <2> QED
    BY <2>4, <2>6, <2>7 DEF HandlePath, ImagePathToPrompt, path
<1> QED
  BY <1>1, <1>2

\* That a path is decoded twice matters only if a percent sign is left the first
\* time (handleImage, imagePathToPrompt): any other path that is not too long
\* becomes the prompt that the comment of handleImage speaks of.
THEOREM DecodedOnceUnlessEscapedTwice ==
    TextsSpec => [](PlainlyEscaped => PathsDecodedOnce)
<1>1. InputFits => (PlainlyEscaped => PathsDecodedOnce)
  BY DecodedOnceHolds
<1> QED
  BY <1>1, InputsFit, PTL
=============================================================================
