--------------------------- MODULE PipelineProofs ---------------------------
(***************************************************************************)
(* Proofs about the two normalizations, for every text and every limit,    *)
(* and about the path of an event from the decoder to the list.            *)
(***************************************************************************)
EXTENDS Pipeline, CommonTheorems, SequenceTheorems

-----------------------------------------------------------------------------
(* Trimming *)

\* A set of positions that is not empty has a first and a last one.
LEMMA FirstAndLast ==
  ASSUME NEW n \in Nat, NEW S \in SUBSET (1..n), S # {}
  PROVE  /\ Min(S) \in S /\ \A i \in S : Min(S) <= i
         /\ Max(S) \in S /\ \A i \in S : i <= Max(S)
<1>1. ASSUME NEW T \in SUBSET Nat, T # {}
      PROVE  \E x \in T : \A y \in T : x <= y
  <2>1. PICK x \in T : \A y \in T : ~ (<<y, x>> \in OpToRel(<, Nat))
    BY <1>1, WFMin, NatLessThanWellFounded
  <2>2. \A y \in T : ~(y < x)
    BY <1>1, <2>1 DEF OpToRel
  <2> QED BY <1>1, <2>2
<1>2. \E x \in S : \A y \in S : x <= y
  <2>1. S \in SUBSET Nat OBVIOUS
  <2> QED BY <1>1, <2>1
<1>3. \E x \in S : \A y \in S : x >= y
  <2> DEFINE T == {i \in 0..n : n - i \in S}
  <2>1. T \in SUBSET Nat OBVIOUS
  <2>2. T # {}
    <3>1. PICK i : i \in S OBVIOUS
    <3>2. n - i \in T BY <3>1
    <3> QED BY <3>2
  <2> HIDE DEF T
  <2>3. PICK x \in T : \A y \in T : x <= y BY <1>1, <2>1, <2>2
  <2>4. n - x \in S /\ x \in 0..n BY <2>3 DEF T
  <2>5. ASSUME NEW y \in S PROVE n - x >= y
    <3>1. n - y \in T BY DEF T
    <3>2. x <= n - y BY <2>3, <3>1
    <3> QED BY <3>2, <2>4
  <2> QED BY <2>4, <2>5
<1> QED BY <1>2, <1>3 DEF Min, Max

\* TrimSpace cuts out a part of the text: only spaces are left outside, and it neither
\* begins nor ends with one.
IsTrimmed(part, offset, text) ==
  /\ part \in Seq(Runes)
  /\ offset \in Nat /\ offset + Len(part) <= Len(text)
  /\ \A i \in 1..Len(part) : part[i] = text[i + offset]
  /\ \A i \in 1..Len(text) : i <= offset \/ i > offset + Len(part) => IsSpace(text[i])
  /\ part # <<>> => ~IsSpace(part[1]) /\ ~IsSpace(part[Len(part)])

LEMMA TrimSpaceTrims ==
  ASSUME NEW text \in Seq(Runes)
  PROVE  \E offset \in Nat : IsTrimmed(TrimSpace(text), offset, text)
<1> DEFINE solid == {i \in DOMAIN text : ~IsSpace(text[i])}
<1>0. /\ Len(text) \in Nat /\ DOMAIN text = 1..Len(text)
      /\ \A i \in 1..Len(text) : text[i] \in Runes
  BY LenProperties, ElementOfSeq
<1>1. CASE solid = {}
  <2>1. TrimSpace(text) = <<>> BY <1>1 DEF TrimSpace
  <2>2. \A i \in 1..Len(text) : IsSpace(text[i]) BY <1>0, <1>1
  <2>3. IsTrimmed(<<>>, 0, text) BY <1>0, <2>2 DEF IsTrimmed
  <2> QED BY <2>1, <2>3
<1>2. CASE solid # {}
  <2> DEFINE first == Min(solid)
             last  == Max(solid)
             part  == SubSeq(text, first, last)
  <2>1. TrimSpace(text) = part BY <1>2 DEF TrimSpace
  <2>2. solid \in SUBSET (1..Len(text)) BY <1>0
  <2>3. /\ first \in 1..Len(text) /\ ~IsSpace(text[first])
        /\ last \in 1..Len(text) /\ ~IsSpace(text[last])
        /\ \A i \in solid : first <= i /\ i <= last
    <3> HIDE DEF solid
    <3>1. first \in solid /\ last \in solid /\ \A i \in solid : first <= i /\ i <= last
      BY <1>0, <1>2, <2>2, FirstAndLast
    <3> QED BY <3>1, <1>0 DEF solid
  <2>4. \A i \in 1..Len(text) : i < first \/ i > last => IsSpace(text[i])
    <3> HIDE DEF first, last
    <3> QED BY <1>0, <2>3
  <2>5. first <= last
    <3> HIDE DEF first, last
    <3> QED BY <1>0, <2>3
  <2> HIDE DEF first, last, solid
  <2>6. /\ part \in Seq(Runes)
        /\ Len(part) = last - first + 1
        /\ \A i \in 1..(last - first + 1) : part[i] = text[first + i - 1]
    <3>1. \A i \in first..last : text[i] \in Runes BY <1>0, <2>3
    <3>2. first \in Int /\ last \in Int BY <2>3
    <3> QED BY <3>1, <3>2, <2>5, SubSeqProperties
  <2> HIDE DEF part
  <2>7. IsTrimmed(part, first - 1, text)
    <3>1. first - 1 \in Nat /\ first - 1 + Len(part) = last BY <2>3, <2>6
    <3>2. \A i \in 1..Len(part) : part[i] = text[i + (first - 1)] BY <2>3, <2>6
    <3>3. \A i \in 1..Len(text) :
            i <= first - 1 \/ i > first - 1 + Len(part) => IsSpace(text[i])
      BY <2>3, <2>4, <3>1
    <3>4. part[1] = text[first] /\ part[Len(part)] = text[last]
      BY <2>3, <2>5, <2>6
    <3>5. first - 1 + Len(part) <= Len(text) BY <3>1, <2>3, <1>0
    <3> QED BY <3>1, <3>2, <3>3, <3>4, <3>5, <2>3, <2>6 DEF IsTrimmed
  <2>8. first - 1 \in Nat BY <2>3
  <2> QED BY <2>1, <2>7, <2>8
<1> QED BY <1>1, <1>2

\* A text that neither begins nor ends with a space is left as it is.
LEMMA TrimFixed ==
  ASSUME NEW text \in Seq(Runes), text # <<>>, ~IsSpace(text[1]), ~IsSpace(text[Len(text)])
  PROVE  TrimSpace(text) = text
<1> DEFINE part == TrimSpace(text)
<1>1. PICK offset \in Nat : IsTrimmed(part, offset, text) BY TrimSpaceTrims
<1>2. Len(text) \in Nat \ {0} BY EmptySeq, LenProperties
<1> HIDE DEF part
<1>3. Len(part) \in Nat /\ part \in Seq(Runes) BY <1>1, LenProperties DEF IsTrimmed
<1>4. offset = 0 BY <1>1, <1>2, <1>3 DEF IsTrimmed
<1>5. Len(part) = Len(text) BY <1>1, <1>2, <1>3, <1>4 DEF IsTrimmed
<1>6. \A i \in 1..Len(part) : part[i] = text[i] BY <1>1, <1>3, <1>4 DEF IsTrimmed
<1>7. part = text BY <1>3, <1>5, <1>6, SeqEqual
<1> QED BY <1>7 DEF part

\* A space that ends a text after a rune that is none is cut off.
LEMMA TrimLast ==
  ASSUME NEW text \in Seq(Runes), Len(text) > 1, ~IsSpace(text[1]),
         IsSpace(text[Len(text)]), ~IsSpace(text[Len(text) - 1])
  PROVE  TrimSpace(text) = SubSeq(text, 1, Len(text) - 1)
<1> DEFINE part == TrimSpace(text)
           rest == SubSeq(text, 1, Len(text) - 1)
<1>1. PICK offset \in Nat : IsTrimmed(part, offset, text) BY TrimSpaceTrims
<1>2. Len(text) \in Nat /\ \A i \in 1..Len(text) : text[i] \in Runes
  BY LenProperties, ElementOfSeq
<1>3. /\ rest \in Seq(Runes) /\ Len(rest) = Len(text) - 1
      /\ \A i \in 1..(Len(text) - 1) : rest[i] = text[i]
  <2>1. \A i \in 1..(Len(text) - 1) : text[i] \in Runes BY <1>2
  <2> QED BY <1>2, <2>1, SubSeqProperties
<1> HIDE DEF part, rest
<1>4. Len(part) \in Nat /\ part \in Seq(Runes) BY <1>1, LenProperties DEF IsTrimmed
<1>5. offset = 0 BY <1>1, <1>2, <1>4 DEF IsTrimmed
<1>6. Len(part) >= Len(text) - 1 BY <1>1, <1>2, <1>4, <1>5 DEF IsTrimmed
<1>7. Len(part) # Len(text)
  <2>1. SUFFICES ASSUME Len(part) = Len(text) PROVE FALSE OBVIOUS
  <2>2. part[Len(part)] = text[Len(text)] BY <2>1, <1>1, <1>2, <1>4, <1>5 DEF IsTrimmed
  <2>3. part # <<>> BY <2>1, <1>4, EmptySeq
  <2> QED BY <2>2, <2>3, <1>1 DEF IsTrimmed
<1>8. Len(part) = Len(text) - 1 BY <1>1, <1>2, <1>4, <1>5, <1>6, <1>7 DEF IsTrimmed
<1>9. \A i \in 1..Len(part) : part[i] = rest[i]
  BY <1>1, <1>2, <1>3, <1>4, <1>5, <1>8 DEF IsTrimmed
<1>10. part = rest BY <1>3, <1>4, <1>8, <1>9, SeqEqual
<1> QED BY <1>10 DEF part, rest

-----------------------------------------------------------------------------
(* The runes that are written *)

PlainRunes == {"a", "b", "space"}

Builders == [out : Seq(PlainRunes), previousWasSpace : BOOLEAN, tooLong : BOOLEAN]

\* What both loops maintain: no space at the front, no two in a row, and
\* previousWasSpace tells whether the last rune written is one.
IsClean(builder) ==
  /\ builder \in Builders
  /\ builder.out # <<>> => builder.out[1] # "space"
  /\ builder.previousWasSpace <=> builder.out # <<>> /\ builder.out[Len(builder.out)] = "space"
  /\ \A i \in 1..(Len(builder.out) - 1) :
       builder.out[i] # "space" \/ builder.out[i + 1] # "space"

\* A text that both normalizations leave alone.
IsNormal(text) ==
  /\ text \in Seq(PlainRunes) /\ text # <<>>
  /\ text[1] # "space" /\ text[Len(text)] # "space"
  /\ \A i \in 1..(Len(text) - 1) : text[i] # "space" \/ text[i + 1] # "space"

LEMMA PlainTexts ==
  ASSUME NEW text \in Seq(PlainRunes)
  PROVE  /\ text \in Seq(Runes) /\ Len(text) \in Nat
         /\ \A i \in 1..Len(text) :
              text[i] \in PlainRunes /\ (IsSpace(text[i]) <=> text[i] = "space")
         /\ text = <<>> <=> Len(text) = 0
<1>1. text \in Seq(Runes)
  <2>1. PlainRunes \subseteq Runes BY DEF PlainRunes, Runes
  <2> QED BY <2>1, SeqMonotonic
<1>2. Len(text) \in Nat /\ \A i \in 1..Len(text) : text[i] \in PlainRunes
  BY LenProperties, ElementOfSeq
<1>3. \A r \in PlainRunes : IsSpace(r) <=> r = "space" BY DEF PlainRunes, IsSpace
<1>4. text = <<>> <=> Len(text) = 0 BY EmptySeq
<1> QED BY <1>1, <1>2, <1>3, <1>4

LEMMA LowerIsPlain ==
  ASSUME NEW r \in Runes, IsLetter(r)
  PROVE  ToLower(r) \in PlainRunes /\ ToLower(r) # "space"
BY DEF Runes, IsLetter, IsSpace, IsControl, ToLower, PlainRunes

\* Appending a rune, position by position.
LEMMA AppendPlain ==
  ASSUME NEW text \in Seq(PlainRunes), NEW r \in PlainRunes
  PROVE  /\ Append(text, r) \in Seq(PlainRunes) /\ Append(text, r) # <<>>
         /\ Len(text) \in Nat /\ Len(Append(text, r)) = Len(text) + 1
         /\ Append(text, r)[Len(text) + 1] = r
         /\ \A i \in 1..Len(text) : Append(text, r)[i] = text[i]
BY AppendProperties, LenProperties

LEMMA NewIsClean == IsClean(NewBuilder)
<1>1. <<>> \in Seq(PlainRunes) /\ Len(<<>>) = 0 BY EmptySeq
<1> QED BY <1>1 DEF IsClean, NewBuilder, Builders

\* A builder with one rune more.
LEMMA WriteIsClean ==
  ASSUME NEW builder, IsClean(builder), NEW r \in PlainRunes, NEW long \in BOOLEAN,
         r = "space" => builder.out # <<>> /\ ~builder.previousWasSpace
  PROVE  IsClean([out |-> Append(builder.out, r), previousWasSpace |-> r = "space",
                  tooLong |-> long])
<1> DEFINE old == builder.out
           new == Append(old, r)
           b   == [out |-> new, previousWasSpace |-> r = "space", tooLong |-> long]
<1>1. old \in Seq(PlainRunes) BY DEF IsClean, Builders
<1>2. /\ new \in Seq(PlainRunes) /\ new # <<>>
      /\ Len(old) \in Nat /\ Len(new) = Len(old) + 1
      /\ new[Len(old) + 1] = r
      /\ \A i \in 1..Len(old) : new[i] = old[i]
  BY <1>1, AppendPlain
<1>3. old = <<>> <=> Len(old) = 0 BY <1>1, PlainTexts
<1>4. /\ old # <<>> => old[1] # "space"
      /\ builder.previousWasSpace <=> old # <<>> /\ old[Len(old)] = "space"
      /\ \A i \in 1..(Len(old) - 1) : old[i] # "space" \/ old[i + 1] # "space"
  BY DEF IsClean
<1>5. r = "space" => old # <<>> /\ ~builder.previousWasSpace OBVIOUS
<1> HIDE DEF new, old
<1>6. new[1] # "space" BY <1>2, <1>3, <1>4, <1>5
<1>7. ASSUME NEW i \in 1..(Len(new) - 1) PROVE new[i] # "space" \/ new[i + 1] # "space"
  <2>1. CASE i = Len(old) BY <2>1, <1>2, <1>3, <1>4, <1>5
  <2>2. CASE i # Len(old)
    <3>1. i \in 1..(Len(old) - 1) /\ i + 1 \in 1..Len(old) /\ i \in 1..Len(old)
      BY <2>2, <1>2
    <3> QED BY <3>1, <1>2, <1>4
  <2> QED BY <2>1, <2>2
<1>8. b \in Builders BY <1>2 DEF Builders
<1>9. b.previousWasSpace <=> new # <<>> /\ new[Len(new)] = "space" BY <1>2
<1>10. IsClean(b) BY <1>6, <1>7, <1>8, <1>9 DEF IsClean
<1> QED BY <1>10 DEF new, old

\* What an update of two fields yields.
LEMMA WrittenRecord ==
  ASSUME NEW builder \in Builders, NEW text \in Seq(PlainRunes), NEW flag \in BOOLEAN
  PROVE  [builder EXCEPT !.out = text, !.previousWasSpace = flag] =
           [out |-> text, previousWasSpace |-> flag, tooLong |-> builder.tooLong]
<1> DEFINE b == [builder EXCEPT !.out = text, !.previousWasSpace = flag]
<1>1. b \in Builders BY Zenon DEF Builders
<1>2. b.out = text /\ b.previousWasSpace = flag /\ b.tooLong = builder.tooLong BY DEF Builders
<1> HIDE DEF b
<1>3. b = [out |-> b.out, previousWasSpace |-> b.previousWasSpace, tooLong |-> b.tooLong]
  BY <1>1 DEF Builders
<1>4. b = [out |-> text, previousWasSpace |-> flag, tooLong |-> builder.tooLong]
  BY <1>2, <1>3
<1> QED BY <1>4 DEF b

LEMMA LongRecord ==
  ASSUME NEW builder \in Builders, NEW long \in BOOLEAN
  PROVE  [builder EXCEPT !.tooLong = long] =
           [out |-> builder.out, previousWasSpace |-> builder.previousWasSpace, tooLong |-> long]
BY DEF Builders

LEMMA WriteRuneIs ==
  ASSUME NEW builder \in Builders, NEW r \in Runes, IsLetter(r)
  PROVE  WriteRune(builder, r) =
           [out |-> Append(builder.out, ToLower(r)), previousWasSpace |-> FALSE,
            tooLong |-> builder.tooLong]
<1>1. Append(builder.out, ToLower(r)) \in Seq(PlainRunes)
  BY LowerIsPlain, AppendPlain DEF Builders
<1> QED BY <1>1, WrittenRecord DEF WriteRune

LEMMA WriteSpaceIs ==
  ASSUME NEW builder \in Builders
  PROVE  WriteSpace(builder) =
           IF builder.out = <<>> \/ builder.previousWasSpace THEN builder
           ELSE [out |-> Append(builder.out, "space"), previousWasSpace |-> TRUE,
                 tooLong |-> builder.tooLong]
<1>1. "space" \in PlainRunes BY DEF PlainRunes
<1>2. Append(builder.out, "space") \in Seq(PlainRunes)
  BY <1>1, AppendPlain DEF Builders
<1> QED BY <1>2, WrittenRecord DEF WriteSpace

\* The four cases of the loop of NormalizeQuery.
LEMMA QueryRuneIs ==
  ASSUME NEW builder \in Builders, NEW r \in Runes, NEW max \in Nat
  PROVE  /\ builder.tooLong => QueryRune(builder, r, max) = builder
         /\ ~builder.tooLong /\ IsSpace(r) => QueryRune(builder, r, max) = WriteSpace(builder)
         /\ ~IsSpace(r) /\ IsControl(r) => QueryRune(builder, r, max) = builder
         /\ ~builder.tooLong /\ IsLetter(r) =>
              QueryRune(builder, r, max) =
                [out |-> Append(builder.out, ToLower(r)), previousWasSpace |-> FALSE,
                 tooLong |-> Len(builder.out) + 1 > max]
<1>1. builder.tooLong => QueryRune(builder, r, max) = builder BY DEF QueryRune
<1>2. ~builder.tooLong /\ IsSpace(r) => QueryRune(builder, r, max) = WriteSpace(builder)
  BY DEF QueryRune
<1>3. ~IsSpace(r) /\ IsControl(r) => QueryRune(builder, r, max) = builder BY DEF QueryRune
<1>4. ASSUME ~builder.tooLong, IsLetter(r)
      PROVE  QueryRune(builder, r, max) =
                [out |-> Append(builder.out, ToLower(r)), previousWasSpace |-> FALSE,
                 tooLong |-> Len(builder.out) + 1 > max]
  <2> DEFINE new     == Append(builder.out, ToLower(r))
             written == WriteRune(builder, r)
  <2>1. written = [out |-> new, previousWasSpace |-> FALSE, tooLong |-> builder.tooLong]
    BY <1>4, WriteRuneIs
  <2>2. Len(new) = Len(builder.out) + 1
    <3>1. ToLower(r) \in PlainRunes BY <1>4, LowerIsPlain
    <3>2. builder.out \in Seq(PlainRunes) BY DEF Builders
    <3> QED BY <3>1, <3>2, AppendPlain
  <2>3. QueryRune(builder, r, max) = [written EXCEPT !.tooLong = Len(written.out) > max]
    BY <1>4 DEF QueryRune, IsLetter
  <2>4. new \in Seq(PlainRunes)
    BY <1>4, LowerIsPlain, AppendPlain DEF Builders
  <2> HIDE DEF new, written
  <2>5. written \in Builders /\ written.out = new /\ ~written.previousWasSpace
    BY <2>1, <2>4, <1>4 DEF Builders
  <2> DEFINE long == Len(written.out) > max
  <2>6. QueryRune(builder, r, max) = [written EXCEPT !.tooLong = long] BY <2>3
  <2>7. long \in BOOLEAN OBVIOUS
  <2>8. long <=> Len(builder.out) + 1 > max BY <2>2, <2>5
  <2> HIDE DEF long
  <2>9. [written EXCEPT !.tooLong = long] =
          [out |-> written.out, previousWasSpace |-> written.previousWasSpace, tooLong |-> long]
    BY <2>5, <2>7, LongRecord
  <2>10. written.previousWasSpace = FALSE BY <2>1
  <2>11. QueryRune(builder, r, max) =
           [out |-> new, previousWasSpace |-> FALSE, tooLong |-> long]
    BY <2>5, <2>6, <2>9, <2>10
  <2>12. long = (Len(builder.out) + 1 > max) BY <2>7, <2>8
  <2> QED BY <2>11, <2>12 DEF new
<1> QED BY <1>1, <1>2, <1>3, <1>4

\* The three cases of the loop of normalize.
LEMMA StopRuneIs ==
  ASSUME NEW builder \in Builders, NEW r \in Runes
  PROVE  /\ IsControl(r) => StopRune(builder, r) = builder
         /\ ~IsControl(r) /\ IsSpace(r) => StopRune(builder, r) = WriteSpace(builder)
         /\ IsLetter(r) =>
              StopRune(builder, r) =
                [out |-> Append(builder.out, ToLower(r)), previousWasSpace |-> FALSE,
                 tooLong |-> builder.tooLong]
<1>1. IsControl(r) => StopRune(builder, r) = builder BY DEF StopRune
<1>2. ~IsControl(r) /\ IsSpace(r) => StopRune(builder, r) = WriteSpace(builder) BY DEF StopRune
<1>3. IsLetter(r) => StopRune(builder, r) = WriteRune(builder, r) BY DEF StopRune, IsLetter
<1> QED BY <1>1, <1>2, <1>3, WriteRuneIs

LEMMA WriteSpaceClean ==
  ASSUME NEW builder, IsClean(builder)
  PROVE  IsClean(WriteSpace(builder))
<1>1. builder \in Builders BY DEF IsClean
<1>2. CASE builder.out = <<>> \/ builder.previousWasSpace
  BY <1>1, <1>2, WriteSpaceIs
<1>3. CASE ~(builder.out = <<>> \/ builder.previousWasSpace)
  <2> DEFINE long == builder.tooLong
  <2>1. "space" \in PlainRunes BY DEF PlainRunes
  <2>2. long \in BOOLEAN BY <1>1 DEF Builders
  <2>3. WriteSpace(builder) =
          [out |-> Append(builder.out, "space"), previousWasSpace |-> TRUE, tooLong |-> long]
    BY <1>1, <1>3, WriteSpaceIs
  <2> HIDE DEF long
  <2>4. IsClean([out |-> Append(builder.out, "space"), previousWasSpace |-> "space" = "space",
                 tooLong |-> long])
    BY <1>3, <2>1, <2>2, WriteIsClean
  <2> QED BY <2>3, <2>4
<1> QED BY <1>2, <1>3

LEMMA WriteLetterClean ==
  ASSUME NEW builder, IsClean(builder), NEW r \in Runes, IsLetter(r), NEW long \in BOOLEAN
  PROVE  IsClean([out |-> Append(builder.out, ToLower(r)), previousWasSpace |-> FALSE,
                  tooLong |-> long])
<1> DEFINE c == ToLower(r)
<1>1. c \in PlainRunes /\ c # "space" BY LowerIsPlain
<1> HIDE DEF c
<1>2. IsClean([out |-> Append(builder.out, c), previousWasSpace |-> c = "space",
               tooLong |-> long])
  BY <1>1, WriteIsClean
<1>3. (c = "space") = FALSE BY <1>1
<1>4. IsClean([out |-> Append(builder.out, c), previousWasSpace |-> FALSE, tooLong |-> long])
  BY <1>2, <1>3
<1> QED BY <1>4 DEF c

LEMMA RuneClasses ==
  ASSUME NEW r \in Runes
  PROVE  IsSpace(r) \/ (~IsSpace(r) /\ IsControl(r)) \/ IsLetter(r)
BY DEF IsLetter

LEMMA QueryRuneClean ==
  ASSUME NEW builder, IsClean(builder), NEW r \in Runes, NEW max \in Nat
  PROVE  IsClean(QueryRune(builder, r, max))
<1>1. builder \in Builders BY DEF IsClean
<1>2. CASE builder.tooLong BY <1>1, <1>2, QueryRuneIs
<1>3. CASE ~builder.tooLong /\ IsSpace(r) BY <1>1, <1>3, QueryRuneIs, WriteSpaceClean
<1>4. CASE ~IsSpace(r) /\ IsControl(r) BY <1>1, <1>4, QueryRuneIs
<1>5. CASE ~builder.tooLong /\ IsLetter(r)
  <2> DEFINE long == Len(builder.out) + 1 > max
  <2>1. long \in BOOLEAN OBVIOUS
  <2>2. QueryRune(builder, r, max) =
          [out |-> Append(builder.out, ToLower(r)), previousWasSpace |-> FALSE, tooLong |-> long]
    BY <1>1, <1>5, QueryRuneIs
  <2> HIDE DEF long
  <2> QED BY <1>5, <2>1, <2>2, WriteLetterClean
<1> QED BY <1>2, <1>3, <1>4, <1>5, RuneClasses

LEMMA StopRuneClean ==
  ASSUME NEW builder, IsClean(builder), NEW r \in Runes
  PROVE  IsClean(StopRune(builder, r))
<1>1. builder \in Builders BY DEF IsClean
<1>2. CASE IsControl(r) BY <1>1, <1>2, StopRuneIs
<1>3. CASE ~IsControl(r) /\ IsSpace(r) BY <1>1, <1>3, StopRuneIs, WriteSpaceClean
<1>4. CASE IsLetter(r)
  <2>1. builder.tooLong \in BOOLEAN BY <1>1 DEF Builders
  <2> QED BY <1>1, <1>4, <2>1, StopRuneIs, WriteLetterClean
<1> QED BY <1>2, <1>3, <1>4, RuneClasses

-----------------------------------------------------------------------------
(* The loops *)

\* What NormalizeQuery has built after each rune of a text.
QuerySteps(s, text, max) ==
  /\ s \in [0..Len(text) -> Builders]
  /\ s[0] = NewBuilder
  /\ \A n \in 1..Len(text) : s[n] = QueryRune(s[n - 1], text[n], max)

\* What normalize has built after each rune of a text.
StopSteps(s, text) ==
  /\ s \in [0..Len(text) -> Builders]
  /\ s[0] = NewBuilder
  /\ \A n \in 1..Len(text) : s[n] = StopRune(s[n - 1], text[n])

\* A loop whose body is a function has a run, by induction on its length.
LEMMA RunExists ==
  ASSUME NEW n \in Nat, NEW step \in [1..n -> [Builders -> Builders]]
  PROVE  \E s \in [0..n -> Builders] :
           s[0] = NewBuilder /\ \A k \in 1..n : s[k] = step[k][s[k - 1]]
<1> DEFINE Run(s, m) == /\ s \in [0..m -> Builders]
                        /\ s[0] = NewBuilder
                        /\ \A k \in 1..m : s[k] = step[k][s[k - 1]]
           S == {m \in Nat : m <= n => \E s : Run(s, m)}
<1>1. 0 \in S
  <2>1. NewBuilder \in Builders BY NewIsClean DEF IsClean
  <2>2. Run([k \in 0..0 |-> NewBuilder], 0) BY <2>1
  <2> QED BY <2>2
<1>2. ASSUME NEW m \in S PROVE m + 1 \in S
  <2>0. m \in Nat /\ (m <= n => \E s : Run(s, m)) OBVIOUS
  <2>1. SUFFICES ASSUME m + 1 <= n PROVE \E s : Run(s, m + 1)
    <3> HIDE DEF Run
    <3> QED BY <2>0
  <2>2. m + 1 \in 1..n /\ m \in Nat BY <2>0, <2>1
  <2>3. PICK s : Run(s, m) BY <2>0, <2>1
  <2> DEFINE t == [k \in 0..(m + 1) |-> IF k = m + 1 THEN step[m + 1][s[m]] ELSE s[k]]
  <2>4. step[m + 1][s[m]] \in Builders BY <2>2, <2>3
  <2>5. t \in [0..(m + 1) -> Builders] BY <2>2, <2>3, <2>4
  <2>6. t[0] = NewBuilder BY <2>2, <2>3
  <2>7. ASSUME NEW k \in 1..(m + 1) PROVE t[k] = step[k][t[k - 1]]
    <3>1. CASE k = m + 1
      <4>1. t[k - 1] = s[m] /\ t[k] = step[m + 1][s[m]] BY <3>1, <2>2
      <4> QED BY <4>1, <3>1
    <3>2. CASE k # m + 1
      <4>1. k \in 1..m /\ k - 1 \in 0..m /\ k - 1 # m + 1 BY <3>2, <2>2
      <4>2. t[k] = s[k] /\ t[k - 1] = s[k - 1] BY <4>1, <3>2, <2>2
      <4> QED BY <4>1, <4>2, <2>3
    <3> QED BY <3>1, <3>2
  <2>8. Run(t, m + 1) BY <2>5, <2>6, <2>7
  <2> QED BY <2>8
<1>3. S = Nat
  <2>1. S \subseteq Nat OBVIOUS
  <2> HIDE DEF S
  <2> QED BY <1>1, <1>2, <2>1, SetInduction
<1>4. n \in S BY <1>3
<1>5. \E s : Run(s, n)
  <2> HIDE DEF Run
  <2> QED BY <1>4
<1> QED BY <1>5

LEMMA WriteTypes ==
  ASSUME NEW builder \in Builders, NEW r \in PlainRunes,
         NEW flag \in BOOLEAN, NEW long \in BOOLEAN
  PROVE  [out |-> Append(builder.out, r), previousWasSpace |-> flag, tooLong |-> long] \in Builders
<1>1. Append(builder.out, r) \in Seq(PlainRunes) BY AppendPlain DEF Builders
<1> QED BY <1>1 DEF Builders

LEMMA WriteSpaceType ==
  ASSUME NEW builder \in Builders
  PROVE  WriteSpace(builder) \in Builders
<1>1. "space" \in PlainRunes BY DEF PlainRunes
<1>2. builder.tooLong \in BOOLEAN BY DEF Builders
<1> QED BY <1>1, <1>2, WriteSpaceIs, WriteTypes

LEMMA QueryRuneType ==
  ASSUME NEW builder \in Builders, NEW r \in Runes, NEW max \in Nat
  PROVE  QueryRune(builder, r, max) \in Builders
<1>1. CASE builder.tooLong BY <1>1, QueryRuneIs
<1>2. CASE ~builder.tooLong /\ IsSpace(r) BY <1>2, QueryRuneIs, WriteSpaceType
<1>3. CASE ~IsSpace(r) /\ IsControl(r) BY <1>3, QueryRuneIs
<1>4. CASE ~builder.tooLong /\ IsLetter(r)
  <2> DEFINE long == Len(builder.out) + 1 > max
  <2>1. long \in BOOLEAN OBVIOUS
  <2>2. QueryRune(builder, r, max) =
          [out |-> Append(builder.out, ToLower(r)), previousWasSpace |-> FALSE, tooLong |-> long]
    BY <1>4, QueryRuneIs
  <2> HIDE DEF long
  <2>3. ToLower(r) \in PlainRunes BY <1>4, LowerIsPlain
  <2> QED BY <2>1, <2>2, <2>3, WriteTypes
<1> QED BY <1>1, <1>2, <1>3, <1>4, RuneClasses

LEMMA StopRuneType ==
  ASSUME NEW builder \in Builders, NEW r \in Runes
  PROVE  StopRune(builder, r) \in Builders
<1>1. CASE IsControl(r) BY <1>1, StopRuneIs
<1>2. CASE ~IsControl(r) /\ IsSpace(r) BY <1>2, StopRuneIs, WriteSpaceType
<1>3. CASE IsLetter(r)
  <2>1. builder.tooLong \in BOOLEAN BY DEF Builders
  <2>2. ToLower(r) \in PlainRunes BY <1>3, LowerIsPlain
  <2>3. StopRune(builder, r) =
          [out |-> Append(builder.out, ToLower(r)), previousWasSpace |-> FALSE,
           tooLong |-> builder.tooLong]
    BY <1>3, StopRuneIs
  <2> QED BY <2>1, <2>2, <2>3, WriteTypes
<1> QED BY <1>1, <1>2, <1>3, RuneClasses

LEMMA QueryStepsExist ==
  ASSUME NEW text \in Seq(Runes), NEW max \in Nat
  PROVE  \E s : QuerySteps(s, text, max)
<1> DEFINE body(n, b) == QueryRune(b, text[n], max)
           step == [n \in 1..Len(text) |-> [b \in Builders |-> body(n, b)]]
<1>1. Len(text) \in Nat /\ \A n \in 1..Len(text) : text[n] \in Runes
  BY LenProperties, ElementOfSeq
<1>2. \A n \in 1..Len(text), b \in Builders : body(n, b) \in Builders
  BY <1>1, QueryRuneType
<1> HIDE DEF body
<1>3. step \in [1..Len(text) -> [Builders -> Builders]] BY <1>2
<1>4. \A n \in 1..Len(text), b \in Builders : step[n][b] = body(n, b) OBVIOUS
<1> HIDE DEF step
<1>5. PICK s \in [0..Len(text) -> Builders] :
        s[0] = NewBuilder /\ \A k \in 1..Len(text) : s[k] = step[k][s[k - 1]]
  BY <1>1, <1>3, RunExists
<1>6. ASSUME NEW n \in 1..Len(text) PROVE s[n] = body(n, s[n - 1])
  <2>1. n - 1 \in 0..Len(text) BY <1>1
  <2>2. s[n - 1] \in Builders BY <1>5, <2>1
  <2> QED BY <1>4, <1>5, <2>2
<1>7. QuerySteps(s, text, max) BY <1>5, <1>6 DEF QuerySteps, body
<1> QED BY <1>7

\* The loop computes the last of its steps.
LEMMA QueryLoopIs ==
  ASSUME NEW text \in Seq(Runes), NEW max \in Nat, NEW s, QuerySteps(s, text, max)
  PROVE  QueryLoop(text, max) = s[Len(text)]
<1> DEFINE r == CHOOSE r : r = [n \in 0..Len(text) |->
                  IF n = 0 THEN NewBuilder ELSE QueryRune(r[n - 1], text[n], max)]
<1>0. Len(text) \in Nat BY LenProperties
<1>1. s = [n \in 0..Len(text) |->
             IF n = 0 THEN NewBuilder ELSE QueryRune(s[n - 1], text[n], max)]
  BY <1>0 DEF QuerySteps
<1>2. r = [n \in 0..Len(text) |->
             IF n = 0 THEN NewBuilder ELSE QueryRune(r[n - 1], text[n], max)]
  BY <1>1
<1>3. QueryLoop(text, max) = r[Len(text)] BY DEF QueryLoop
<1> HIDE DEF r
<1> DEFINE S == {n \in Nat : n <= Len(text) => r[n] = s[n]}
<1>4. 0 \in S BY <1>0, <1>2 DEF QuerySteps
<1>5. ASSUME NEW n \in S PROVE n + 1 \in S
  <2>1. SUFFICES ASSUME n + 1 <= Len(text) PROVE r[n + 1] = s[n + 1] OBVIOUS
  <2>2. n \in Nat /\ n + 1 \in 1..Len(text) /\ n + 1 - 1 = n /\ r[n] = s[n] BY <2>1, <1>0
  <2>3. r[n + 1] = QueryRune(r[n], text[n + 1], max) BY <1>2, <2>2
  <2>4. s[n + 1] = QueryRune(s[n], text[n + 1], max) BY <2>2 DEF QuerySteps
  <2> QED BY <2>2, <2>3, <2>4
<1>6. S = Nat
  <2>1. S \subseteq Nat OBVIOUS
  <2> HIDE DEF S
  <2> QED BY <1>4, <1>5, <2>1, SetInduction
<1>7. r[Len(text)] = s[Len(text)] BY <1>0, <1>6
<1> QED BY <1>3, <1>7

LEMMA QueryStepsClean ==
  ASSUME NEW text \in Seq(Runes), NEW max \in Nat, NEW s, QuerySteps(s, text, max)
  PROVE  \A n \in 0..Len(text) : IsClean(s[n])
<1>1. Len(text) \in Nat /\ \A n \in 1..Len(text) : text[n] \in Runes
  BY LenProperties, ElementOfSeq
<1> DEFINE S == {n \in Nat : n <= Len(text) => IsClean(s[n])}
<1>2. 0 \in S BY NewIsClean DEF QuerySteps
<1>3. ASSUME NEW n \in S PROVE n + 1 \in S
  <2>1. SUFFICES ASSUME n + 1 <= Len(text) PROVE IsClean(s[n + 1]) OBVIOUS
  <2>2. n \in Nat /\ n + 1 \in 1..Len(text) /\ n + 1 - 1 = n /\ IsClean(s[n])
    BY <2>1, <1>1
  <2>3. s[n + 1] = QueryRune(s[n], text[n + 1], max) BY <2>2 DEF QuerySteps
  <2> QED BY <1>1, <2>2, <2>3, QueryRuneClean
<1>4. S = Nat
  <2>1. S \subseteq Nat OBVIOUS
  <2> HIDE DEF S
  <2> QED BY <1>2, <1>3, <2>1, SetInduction
<1> QED BY <1>1, <1>4

LEMMA StopStepsExist ==
  ASSUME NEW text \in Seq(Runes)
  PROVE  \E s : StopSteps(s, text)
<1> DEFINE body(n, b) == StopRune(b, text[n])
           step == [n \in 1..Len(text) |-> [b \in Builders |-> body(n, b)]]
<1>1. Len(text) \in Nat /\ \A n \in 1..Len(text) : text[n] \in Runes
  BY LenProperties, ElementOfSeq
<1>2. \A n \in 1..Len(text), b \in Builders : body(n, b) \in Builders
  BY <1>1, StopRuneType
<1> HIDE DEF body
<1>3. step \in [1..Len(text) -> [Builders -> Builders]] BY <1>2
<1>4. \A n \in 1..Len(text), b \in Builders : step[n][b] = body(n, b) OBVIOUS
<1> HIDE DEF step
<1>5. PICK s \in [0..Len(text) -> Builders] :
        s[0] = NewBuilder /\ \A k \in 1..Len(text) : s[k] = step[k][s[k - 1]]
  BY <1>1, <1>3, RunExists
<1>6. ASSUME NEW n \in 1..Len(text) PROVE s[n] = body(n, s[n - 1])
  <2>1. n - 1 \in 0..Len(text) BY <1>1
  <2>2. s[n - 1] \in Builders BY <1>5, <2>1
  <2> QED BY <1>4, <1>5, <2>2
<1>7. StopSteps(s, text) BY <1>5, <1>6 DEF StopSteps, body
<1> QED BY <1>7

\* The loop computes the last of its steps.
LEMMA StopLoopIs ==
  ASSUME NEW text \in Seq(Runes), NEW s, StopSteps(s, text)
  PROVE  StopLoop(text) = s[Len(text)]
<1> DEFINE r == CHOOSE r : r = [n \in 0..Len(text) |->
                  IF n = 0 THEN NewBuilder ELSE StopRune(r[n - 1], text[n])]
<1>0. Len(text) \in Nat BY LenProperties
<1>1. s = [n \in 0..Len(text) |->
             IF n = 0 THEN NewBuilder ELSE StopRune(s[n - 1], text[n])]
  BY <1>0 DEF StopSteps
<1>2. r = [n \in 0..Len(text) |->
             IF n = 0 THEN NewBuilder ELSE StopRune(r[n - 1], text[n])]
  BY <1>1
<1>3. StopLoop(text) = r[Len(text)] BY DEF StopLoop
<1> HIDE DEF r
<1> DEFINE S == {n \in Nat : n <= Len(text) => r[n] = s[n]}
<1>4. 0 \in S BY <1>0, <1>2 DEF StopSteps
<1>5. ASSUME NEW n \in S PROVE n + 1 \in S
  <2>1. SUFFICES ASSUME n + 1 <= Len(text) PROVE r[n + 1] = s[n + 1] OBVIOUS
  <2>2. n \in Nat /\ n + 1 \in 1..Len(text) /\ n + 1 - 1 = n /\ r[n] = s[n] BY <2>1, <1>0
  <2>3. r[n + 1] = StopRune(r[n], text[n + 1]) BY <1>2, <2>2
  <2>4. s[n + 1] = StopRune(s[n], text[n + 1]) BY <2>2 DEF StopSteps
  <2> QED BY <2>2, <2>3, <2>4
<1>6. S = Nat
  <2>1. S \subseteq Nat OBVIOUS
  <2> HIDE DEF S
  <2> QED BY <1>4, <1>5, <2>1, SetInduction
<1>7. r[Len(text)] = s[Len(text)] BY <1>0, <1>6
<1> QED BY <1>3, <1>7

LEMMA StopStepsClean ==
  ASSUME NEW text \in Seq(Runes), NEW s, StopSteps(s, text)
  PROVE  \A n \in 0..Len(text) : IsClean(s[n])
<1>1. Len(text) \in Nat /\ \A n \in 1..Len(text) : text[n] \in Runes
  BY LenProperties, ElementOfSeq
<1> DEFINE S == {n \in Nat : n <= Len(text) => IsClean(s[n])}
<1>2. 0 \in S BY NewIsClean DEF StopSteps
<1>3. ASSUME NEW n \in S PROVE n + 1 \in S
  <2>1. SUFFICES ASSUME n + 1 <= Len(text) PROVE IsClean(s[n + 1]) OBVIOUS
  <2>2. n \in Nat /\ n + 1 \in 1..Len(text) /\ n + 1 - 1 = n /\ IsClean(s[n])
    BY <2>1, <1>1
  <2>3. s[n + 1] = StopRune(s[n], text[n + 1]) BY <2>2 DEF StopSteps
  <2> QED BY <1>1, <2>2, <2>3, StopRuneClean
<1>4. S = Nat
  <2>1. S \subseteq Nat OBVIOUS
  <2> HIDE DEF S
  <2> QED BY <1>2, <1>3, <2>1, SetInduction
<1> QED BY <1>1, <1>4

-----------------------------------------------------------------------------
(* Normal forms *)

\* What is left of a builder's text: nothing, or a normal form.
LEMMA CleanTrims ==
  ASSUME NEW builder, IsClean(builder)
  PROVE  /\ builder.out = <<>> => TrimSpace(builder.out) = <<>>
         /\ builder.out # <<>> => IsNormal(TrimSpace(builder.out))
         /\ builder.out # <<>> /\ ~builder.previousWasSpace =>
              TrimSpace(builder.out) = builder.out
         /\ builder.previousWasSpace =>
              TrimSpace(builder.out) = SubSeq(builder.out, 1, Len(builder.out) - 1)
<1> DEFINE out == builder.out
<1>1. /\ out \in Seq(PlainRunes)
      /\ out # <<>> => out[1] # "space"
      /\ builder.previousWasSpace <=> out # <<>> /\ out[Len(out)] = "space"
      /\ \A i \in 1..(Len(out) - 1) : out[i] # "space" \/ out[i + 1] # "space"
  BY DEF IsClean, Builders
<1>2. /\ out \in Seq(Runes) /\ Len(out) \in Nat
      /\ \A i \in 1..Len(out) : out[i] \in PlainRunes /\ (IsSpace(out[i]) <=> out[i] = "space")
      /\ out = <<>> <=> Len(out) = 0
  BY <1>1, PlainTexts
<1> HIDE DEF out
<1>3. ASSUME out = <<>> PROVE TrimSpace(out) = <<>>
  <2>1. DOMAIN out = {} BY <1>3, EmptySeq
  <2> QED BY <2>1 DEF TrimSpace
<1>4. ASSUME out # <<>>, ~builder.previousWasSpace
      PROVE  TrimSpace(out) = out /\ IsNormal(out)
  <2>1. out[1] # "space" /\ out[Len(out)] # "space" BY <1>1, <1>4
  <2>2. 1 \in 1..Len(out) /\ Len(out) \in 1..Len(out) BY <1>2, <1>4
  <2>3. ~IsSpace(out[1]) /\ ~IsSpace(out[Len(out)]) BY <1>2, <2>1, <2>2
  <2>4. TrimSpace(out) = out BY <1>2, <1>4, <2>3, TrimFixed
  <2>5. IsNormal(out) BY <1>1, <1>4, <2>1 DEF IsNormal
  <2> QED BY <2>4, <2>5
<1>5. ASSUME builder.previousWasSpace
      PROVE  TrimSpace(out) = SubSeq(out, 1, Len(out) - 1) /\ IsNormal(SubSeq(out, 1, Len(out) - 1))
  <2> DEFINE rest == SubSeq(out, 1, Len(out) - 1)
  <2>1. out # <<>> /\ out[Len(out)] = "space" /\ out[1] # "space" BY <1>1, <1>5
  <2>2. Len(out) > 1 BY <1>2, <2>1
  <2>3. out[Len(out) - 1] # "space" BY <1>1, <1>2, <2>1, <2>2
  <2>4. 1 \in 1..Len(out) /\ Len(out) \in 1..Len(out) /\ Len(out) - 1 \in 1..Len(out)
    BY <1>2, <2>2
  <2>5. ~IsSpace(out[1]) /\ IsSpace(out[Len(out)]) /\ ~IsSpace(out[Len(out) - 1])
    BY <1>2, <2>1, <2>3, <2>4
  <2>6. TrimSpace(out) = rest BY <1>2, <2>2, <2>5, TrimLast
  <2>7. /\ rest \in Seq(PlainRunes) /\ Len(rest) = Len(out) - 1
        /\ \A i \in 1..(Len(out) - 1) : rest[i] = out[i]
    <3>1. \A i \in 1..(Len(out) - 1) : out[i] \in PlainRunes BY <1>2
    <3> QED BY <1>2, <2>2, <3>1, SubSeqProperties
  <2> HIDE DEF rest
  <2>8. rest # <<>> /\ rest[1] # "space" /\ rest[Len(rest)] # "space"
    BY <1>2, <2>1, <2>2, <2>3, <2>7, EmptySeq
  <2>9. \A i \in 1..(Len(rest) - 1) : rest[i] # "space" \/ rest[i + 1] # "space"
    BY <1>1, <1>2, <2>2, <2>7
  <2>10. IsNormal(rest) BY <2>7, <2>8, <2>9 DEF IsNormal
  <2> QED BY <2>6, <2>10 DEF rest
<1>6. builder.previousWasSpace => out # <<>> BY <1>1
<1> QED BY <1>3, <1>4, <1>5, <1>6 DEF out

LEMMA TrimType ==
  ASSUME NEW text \in Seq(Runes)
  PROVE  TrimSpace(text) \in Seq(Runes)
BY TrimSpaceTrims DEF IsTrimmed

\* The answers of NormalizeQuery.
LEMMA QueryAnswers ==
  ASSUME NEW text \in Seq(Runes), NEW max \in Nat,
         NEW s, QuerySteps(s, TrimSpace(text), max)
  PROVE  LET trimmed == TrimSpace(text)
             builder == s[Len(trimmed)]
             answer  == NormalizeQuery(text, max)
         IN  \/ /\ trimmed = <<>> /\ answer = Failed("empty")
             \/ /\ trimmed # <<>> /\ builder.tooLong /\ answer = Failed("tooLong")
             \/ /\ trimmed # <<>> /\ ~builder.tooLong /\ TrimSpace(builder.out) = <<>>
                /\ answer = Failed("empty")
             \/ /\ trimmed # <<>> /\ ~builder.tooLong /\ Len(TrimSpace(builder.out)) > max
                /\ TrimSpace(builder.out) # <<>> /\ answer = Failed("tooLong")
             \/ /\ trimmed # <<>> /\ ~builder.tooLong /\ TrimSpace(builder.out) # <<>>
                /\ ~(Len(TrimSpace(builder.out)) > max)
                /\ answer = Normal(TrimSpace(builder.out))
<1>1. QueryLoop(TrimSpace(text), max) = s[Len(TrimSpace(text))]
  BY TrimType, QueryLoopIs
<1> QED BY <1>1 DEF NormalizeQuery

\* A query that is accepted is accepted as a normal form within the limit.
LEMMA QueryNormal ==
  ASSUME NEW text \in Seq(Runes), NEW max \in Nat, NormalizeQuery(text, max).err = "none"
  PROVE  LET form == NormalizeQuery(text, max).text
         IN  /\ NormalizeQuery(text, max) = Normal(form)
             /\ IsNormal(form) /\ Len(form) <= max
<1> DEFINE trimmed == TrimSpace(text)
<1>1. PICK s : QuerySteps(s, trimmed, max) BY TrimType, QueryStepsExist
<1> DEFINE builder == s[Len(trimmed)]
           form == TrimSpace(builder.out)
<1>2. IsClean(builder)
  <2>1. Len(trimmed) \in 0..Len(trimmed) BY TrimType, LenProperties
  <2> QED BY <1>1, <2>1, TrimType, QueryStepsClean
<1>3. form # <<>> /\ ~(Len(form) > max) /\ NormalizeQuery(text, max) = Normal(form)
  <2>1. Failed("empty").err # "none" /\ Failed("tooLong").err # "none" BY DEF Failed
  <2> QED BY <1>1, <2>1, QueryAnswers
<1>4. IsNormal(form) BY <1>2, <1>3, CleanTrims
<1>5. Len(form) <= max
  <2>1. Len(form) \in Nat BY <1>4, LenProperties DEF IsNormal
  <2> QED BY <1>3, <2>1
<1> QED BY <1>3, <1>4, <1>5 DEF Normal

\* What normalize answers is a normal form or nothing.
LEMMA StopNormal ==
  ASSUME NEW text \in Seq(Runes)
  PROVE  normalize(text) = <<>> \/ IsNormal(normalize(text))
<1> DEFINE trimmed == TrimSpace(text)
<1>1. PICK s : StopSteps(s, trimmed) BY TrimType, StopStepsExist
<1>2. IsClean(s[Len(trimmed)])
  <2>1. Len(trimmed) \in 0..Len(trimmed) BY TrimType, LenProperties
  <2> QED BY <1>1, <2>1, TrimType, StopStepsClean
<1>3. normalize(text) = TrimSpace(s[Len(trimmed)].out)
  BY <1>1, TrimType, StopLoopIs DEF normalize
<1> QED BY <1>2, <1>3, CleanTrims

\* The builder after the first n runes of a normal form: it has copied them.
Copied(form, n) ==
  [out |-> SubSeq(form, 1, n),
   previousWasSpace |-> IF n = 0 THEN FALSE ELSE form[n] = "space",
   tooLong |-> FALSE]

LEMMA CopiedFacts ==
  ASSUME NEW form, IsNormal(form), NEW n \in 0..Len(form)
  PROVE  /\ Copied(form, n) \in Builders
         /\ Copied(form, n).out = SubSeq(form, 1, n) /\ Len(SubSeq(form, 1, n)) = n
         /\ n = 0 => SubSeq(form, 1, n) = <<>>
         /\ n # 0 => SubSeq(form, 1, n) # <<>>
         /\ Copied(form, n).previousWasSpace <=> (n # 0 /\ form[n] = "space")
         /\ ~Copied(form, n).tooLong
         /\ Copied(form, n).tooLong = FALSE
<1>1. /\ form \in Seq(PlainRunes) /\ Len(form) \in Nat
      /\ \A i \in 1..Len(form) : form[i] \in PlainRunes
  BY PlainTexts DEF IsNormal
<1>2. /\ SubSeq(form, 1, n) \in Seq(PlainRunes)
      /\ Len(SubSeq(form, 1, n)) = n
  <2>1. \A i \in 1..n : form[i] \in PlainRunes BY <1>1
  <2> QED BY <1>1, <2>1, SubSeqProperties
<1>3. (IF n = 0 THEN FALSE ELSE form[n] = "space") \in BOOLEAN OBVIOUS
<1>4. Copied(form, n) \in Builders BY <1>2, <1>3 DEF Copied, Builders
<1>5. SubSeq(form, 1, n) = <<>> <=> n = 0 BY <1>2, EmptySeq
<1> QED BY <1>2, <1>4, <1>5 DEF Copied

\* One more rune of a normal form.
LEMMA CopiedNext ==
  ASSUME NEW form, IsNormal(form), NEW n \in 1..Len(form)
  PROVE  /\ form[n] \in Runes /\ ~IsControl(form[n])
         /\ IsSpace(form[n]) => WriteSpace(Copied(form, n - 1)) = Copied(form, n)
         /\ IsLetter(form[n]) =>
              [out |-> Append(Copied(form, n - 1).out, ToLower(form[n])),
               previousWasSpace |-> FALSE, tooLong |-> FALSE] = Copied(form, n)
         /\ Len(Copied(form, n - 1).out) + 1 = n
<1>1. /\ form \in Seq(PlainRunes) /\ Len(form) \in Nat
      /\ \A i \in 1..Len(form) : form[i] \in PlainRunes
      /\ form[1] # "space"
      /\ \A i \in 1..(Len(form) - 1) : form[i] # "space" \/ form[i + 1] # "space"
  BY PlainTexts DEF IsNormal
<1>2. n - 1 \in 0..Len(form) /\ n \in 0..Len(form) BY <1>1
<1>3. form[n] \in Runes /\ ~IsControl(form[n])
  BY <1>1 DEF PlainRunes, Runes, IsControl
<1>4. SubSeq(form, 1, n) = Append(SubSeq(form, 1, n - 1), form[n])
  <2>1. SubSeq(form, 1, n) = SubSeq(form, 1, n - 1) \o <<form[n]>>
    <3>1. 1 \in 1..Len(form) /\ n \in 1..Len(form) BY <1>1
    <3> QED BY <1>1, <3>1, SubSeqRecursiveSecond
  <2>2. SubSeq(form, 1, n - 1) \in Seq(PlainRunes)
    <3>1. Copied(form, n - 1) \in Builders /\ Copied(form, n - 1).out = SubSeq(form, 1, n - 1)
      BY <1>2, CopiedFacts
    <3> QED BY <3>1 DEF Builders
  <2> QED BY <1>1, <2>1, <2>2, AppendIsConcat
<1> DEFINE b == Copied(form, n - 1)
<1>5. /\ b \in Builders /\ b.out = SubSeq(form, 1, n - 1) /\ b.tooLong = FALSE
      /\ Len(b.out) = n - 1
      /\ b.out = <<>> <=> n = 1
      /\ b.previousWasSpace <=> (n # 1 /\ form[n - 1] = "space")
  <2>1. n - 1 = 0 <=> n = 1 BY <1>1
  <2>2. /\ b \in Builders
        /\ b.out = SubSeq(form, 1, n - 1) /\ Len(SubSeq(form, 1, n - 1)) = n - 1
        /\ n - 1 = 0 => SubSeq(form, 1, n - 1) = <<>>
        /\ n - 1 # 0 => SubSeq(form, 1, n - 1) # <<>>
        /\ b.previousWasSpace <=> (n - 1 # 0 /\ form[n - 1] = "space")
        /\ b.tooLong = FALSE
    BY <1>2, CopiedFacts
  <2> HIDE DEF b
  <2> QED BY <2>1, <2>2
<1> HIDE DEF b
<1>6. ASSUME IsSpace(form[n]) PROVE WriteSpace(b) = Copied(form, n)
  <2>1. form[n] = "space" BY <1>1, <1>6 DEF PlainRunes, IsSpace
  <2>2. n # 1 BY <1>1, <2>1
  <2>3. form[n - 1] # "space" BY <1>1, <2>1, <2>2
  <2>4. WriteSpace(b) =
          [out |-> Append(b.out, "space"), previousWasSpace |-> TRUE, tooLong |-> b.tooLong]
    BY <1>5, <2>2, <2>3, WriteSpaceIs
  <2>5. (IF n = 0 THEN FALSE ELSE form[n] = "space") = TRUE BY <2>1
  <2> QED BY <1>4, <1>5, <2>1, <2>4, <2>5 DEF Copied
<1>7. ASSUME IsLetter(form[n])
      PROVE  [out |-> Append(b.out, ToLower(form[n])), previousWasSpace |-> FALSE,
              tooLong |-> FALSE] = Copied(form, n)
  <2>1. form[n] # "space" /\ ToLower(form[n]) = form[n]
    BY <1>1, <1>7 DEF PlainRunes, IsLetter, IsSpace, ToLower
  <2>2. (IF n = 0 THEN FALSE ELSE form[n] = "space") = FALSE BY <2>1
  <2> QED BY <1>4, <1>5, <2>1, <2>2 DEF Copied
<1>8. Len(b.out) + 1 = n BY <1>5
<1> QED BY <1>3, <1>6, <1>7, <1>8 DEF b

LEMMA NormalTrimmed ==
  ASSUME NEW form, IsNormal(form)
  PROVE  TrimSpace(form) = form /\ form \in Seq(Runes) /\ Len(form) \in Nat \ {0}
<1>1. /\ form \in Seq(Runes) /\ Len(form) \in Nat \ {0}
      /\ \A i \in 1..Len(form) : IsSpace(form[i]) <=> form[i] = "space"
  BY PlainTexts DEF IsNormal
<1>2. 1 \in 1..Len(form) /\ Len(form) \in 1..Len(form) BY <1>1
<1>3. ~IsSpace(form[1]) /\ ~IsSpace(form[Len(form)]) BY <1>1, <1>2 DEF IsNormal
<1> QED BY <1>1, <1>3, TrimFixed DEF IsNormal

\* normalize leaves a normal form alone.
LEMMA StopFixed ==
  ASSUME NEW form, IsNormal(form)
  PROVE  normalize(form) = form
<1> DEFINE s == [n \in 0..Len(form) |-> Copied(form, n)]
<1>1. TrimSpace(form) = form /\ form \in Seq(Runes) /\ Len(form) \in Nat \ {0}
  BY NormalTrimmed
<1>2. StopSteps(s, form)
  <2>1. s \in [0..Len(form) -> Builders] BY CopiedFacts
  <2>2. s[0] = NewBuilder
    <3>1. 0 \in 0..Len(form) BY <1>1
    <3>2. SubSeq(form, 1, 0) = <<>> BY <3>1, CopiedFacts
    <3> QED BY <3>1, <3>2 DEF Copied, NewBuilder
  <2>3. ASSUME NEW n \in 1..Len(form) PROVE s[n] = StopRune(s[n - 1], form[n])
    <3> DEFINE b == Copied(form, n - 1)
    <3>1. n - 1 \in 0..Len(form) /\ n \in 0..Len(form) BY <1>1
    <3>2. s[n] = Copied(form, n) /\ s[n - 1] = b BY <3>1
    <3>3. b \in Builders /\ b.tooLong = FALSE BY <3>1, CopiedFacts
    <3>4. /\ form[n] \in Runes /\ ~IsControl(form[n])
          /\ IsSpace(form[n]) => WriteSpace(b) = Copied(form, n)
          /\ IsLetter(form[n]) =>
               [out |-> Append(b.out, ToLower(form[n])),
                previousWasSpace |-> FALSE, tooLong |-> FALSE] = Copied(form, n)
      BY CopiedNext
    <3> HIDE DEF b, s
    <3>5. CASE IsSpace(form[n])
      <4>1. StopRune(b, form[n]) = WriteSpace(b) BY <3>3, <3>4, <3>5, StopRuneIs
      <4> QED BY <3>2, <3>4, <3>5, <4>1
    <3>6. CASE IsLetter(form[n])
      <4>1. StopRune(b, form[n]) =
              [out |-> Append(b.out, ToLower(form[n])), previousWasSpace |-> FALSE,
               tooLong |-> b.tooLong]
        BY <3>3, <3>4, <3>6, StopRuneIs
      <4> QED BY <3>2, <3>3, <3>4, <3>6, <4>1
    <3> QED BY <3>4, <3>5, <3>6, RuneClasses
  <2> QED BY <2>1, <2>2, <2>3 DEF StopSteps
<1>3. StopLoop(form) = s[Len(form)]
  <2> HIDE DEF s
  <2> QED BY <1>1, <1>2, StopLoopIs
<1>4. s[Len(form)].out = form
  <2>1. Len(form) \in 0..Len(form) BY <1>1
  <2>2. Copied(form, Len(form)).out = SubSeq(form, 1, Len(form)) BY <2>1, CopiedFacts
  <2>3. SubSeq(form, 1, Len(form)) = form BY <1>1, SubSeqFull
  <2> QED BY <2>1, <2>2, <2>3
<1> HIDE DEF s
<1> QED BY <1>1, <1>3, <1>4 DEF normalize

\* NormalizeQuery leaves a normal form within the limit alone.
LEMMA QueryFixed ==
  ASSUME NEW form, IsNormal(form), NEW max \in Nat, Len(form) <= max
  PROVE  NormalizeQuery(form, max) = Normal(form)
<1> DEFINE s == [n \in 0..Len(form) |-> Copied(form, n)]
<1>1. TrimSpace(form) = form /\ form \in Seq(Runes) /\ Len(form) \in Nat \ {0}
  BY NormalTrimmed
<1>2. QuerySteps(s, form, max)
  <2>1. s \in [0..Len(form) -> Builders] BY CopiedFacts
  <2>2. s[0] = NewBuilder
    <3>1. 0 \in 0..Len(form) BY <1>1
    <3>2. SubSeq(form, 1, 0) = <<>> BY <3>1, CopiedFacts
    <3> QED BY <3>1, <3>2 DEF Copied, NewBuilder
  <2>3. ASSUME NEW n \in 1..Len(form) PROVE s[n] = QueryRune(s[n - 1], form[n], max)
    <3> DEFINE b == Copied(form, n - 1)
               long == Len(b.out) + 1 > max
    <3>1. n - 1 \in 0..Len(form) /\ n \in 0..Len(form) BY <1>1
    <3>2. s[n] = Copied(form, n) /\ s[n - 1] = b BY <3>1
    <3>3. b \in Builders /\ ~b.tooLong BY <3>1, CopiedFacts
    <3>4. /\ form[n] \in Runes /\ ~IsControl(form[n])
          /\ IsSpace(form[n]) => WriteSpace(b) = Copied(form, n)
          /\ IsLetter(form[n]) =>
               [out |-> Append(b.out, ToLower(form[n])),
                previousWasSpace |-> FALSE, tooLong |-> FALSE] = Copied(form, n)
          /\ Len(b.out) + 1 = n
      BY CopiedNext
    <3>5. long = FALSE BY <1>1, <3>4
    <3> HIDE DEF b, s
    <3>6. CASE IsSpace(form[n]) BY <3>2, <3>3, <3>4, <3>6, QueryRuneIs
    <3>7. CASE IsLetter(form[n])
      <4>1. QueryRune(b, form[n], max) =
              [out |-> Append(b.out, ToLower(form[n])), previousWasSpace |-> FALSE,
               tooLong |-> long]
        BY <3>3, <3>4, <3>7, QueryRuneIs
      <4> HIDE DEF long
      <4> QED BY <3>2, <3>4, <3>5, <3>7, <4>1
    <3> QED BY <3>4, <3>6, <3>7, RuneClasses
  <2> QED BY <2>1, <2>2, <2>3 DEF QuerySteps
<1>3. s[Len(form)].out = form /\ ~s[Len(form)].tooLong
  <2>1. Len(form) \in 0..Len(form) BY <1>1
  <2>2. /\ Copied(form, Len(form)).out = SubSeq(form, 1, Len(form))
        /\ ~Copied(form, Len(form)).tooLong
    BY <2>1, CopiedFacts
  <2>3. SubSeq(form, 1, Len(form)) = form BY <1>1, SubSeqFull
  <2> QED BY <2>1, <2>2, <2>3
<1> HIDE DEF s
<1>4. form # <<>> /\ ~(Len(form) > max) BY <1>1, EmptySeq
<1> QED BY <1>1, <1>2, <1>3, <1>4, QueryAnswers

\* A text without tabs and the like is normalized alike in both packages.
LEMMA Agreement ==
  ASSUME NEW text \in Seq(Runes), NEW max \in Nat, \A i \in 1..Len(text) : text[i] # "tab",
         NormalizeQuery(text, max).err = "none"
  PROVE  normalize(text) = NormalizeQuery(text, max).text
<1> DEFINE trimmed == TrimSpace(text)
<1>1. trimmed \in Seq(Runes) /\ Len(trimmed) \in Nat BY TrimType, LenProperties
<1>2. \A i \in 1..Len(trimmed) : trimmed[i] \in Runes /\ trimmed[i] # "tab"
  <2>1. PICK offset \in Nat : IsTrimmed(trimmed, offset, text) BY TrimSpaceTrims
  <2> HIDE DEF trimmed
  <2>2. Len(text) \in Nat BY LenProperties
  <2>3. ASSUME NEW i \in 1..Len(trimmed) PROVE trimmed[i] # "tab"
    <3>1. i + offset \in 1..Len(text) BY <1>1, <2>1, <2>2 DEF IsTrimmed
    <3> QED BY <2>1, <3>1 DEF IsTrimmed
  <2> QED BY <1>1, <2>3, ElementOfSeq
<1>3. PICK s : QuerySteps(s, trimmed, max) BY <1>1, QueryStepsExist
<1>4. PICK t : StopSteps(t, trimmed) BY <1>1, StopStepsExist
<1>5. ~s[Len(trimmed)].tooLong /\ NormalizeQuery(text, max).text = TrimSpace(s[Len(trimmed)].out)
  <2>1. Failed("empty").err # "none" /\ Failed("tooLong").err # "none" BY DEF Failed
  <2> QED BY <1>3, <2>1, QueryAnswers DEF Normal
<1>6. normalize(text) = TrimSpace(t[Len(trimmed)].out)
  BY <1>1, <1>4, StopLoopIs DEF normalize
<1> HIDE DEF trimmed
<1> DEFINE Alike(n) ==
             s[n].tooLong \/ (s[n].out = t[n].out /\ s[n].previousWasSpace = t[n].previousWasSpace)
           S == {n \in Nat : n <= Len(trimmed) => Alike(n)}
<1>7. 0 \in S BY <1>1, <1>3, <1>4 DEF QuerySteps, StopSteps
<1>8. ASSUME NEW n \in S PROVE n + 1 \in S
  <2>1. SUFFICES ASSUME n + 1 <= Len(trimmed) PROVE Alike(n + 1) OBVIOUS
  <2>2. n \in Nat /\ n + 1 \in 1..Len(trimmed) /\ n + 1 - 1 = n /\ n \in 0..Len(trimmed)
    BY <2>1, <1>1
  <2>3. Alike(n) BY <2>2
  <2> DEFINE r == trimmed[n + 1]
  <2>4. r \in Runes /\ r # "tab" BY <1>2, <2>2
  <2>5. s[n] \in Builders /\ t[n] \in Builders BY <1>3, <1>4, <2>2 DEF QuerySteps, StopSteps
  <2>6. s[n + 1] = QueryRune(s[n], r, max) /\ t[n + 1] = StopRune(t[n], r)
    BY <1>3, <1>4, <2>2 DEF QuerySteps, StopSteps
  <2> HIDE DEF r
  <2>7. CASE s[n].tooLong
    BY <2>4, <2>5, <2>6, <2>7, QueryRuneIs
  <2>8. CASE ~s[n].tooLong /\ IsSpace(r)
    <3>1. ~IsControl(r) BY <2>4, <2>8 DEF IsSpace, IsControl
    <3>2. s[n + 1] = WriteSpace(s[n]) /\ t[n + 1] = WriteSpace(t[n])
      BY <2>4, <2>5, <2>6, <2>8, <3>1, QueryRuneIs, StopRuneIs
    <3>3. s[n].out = t[n].out /\ s[n].previousWasSpace = t[n].previousWasSpace BY <2>3, <2>8
    <3>4. s[n + 1].out = t[n + 1].out /\ s[n + 1].previousWasSpace = t[n + 1].previousWasSpace
      <4>1. CASE s[n].out = <<>> \/ s[n].previousWasSpace
        BY <2>5, <3>2, <3>3, <4>1, WriteSpaceIs
      <4>2. CASE ~(s[n].out = <<>> \/ s[n].previousWasSpace)
        <5>1. s[n + 1] = [out |-> Append(s[n].out, "space"), previousWasSpace |-> TRUE,
                          tooLong |-> s[n].tooLong]
          BY <2>5, <3>2, <4>2, WriteSpaceIs
        <5>2. t[n + 1] = [out |-> Append(t[n].out, "space"), previousWasSpace |-> TRUE,
                          tooLong |-> t[n].tooLong]
          BY <2>5, <3>2, <3>3, <4>2, WriteSpaceIs
        <5> QED BY <3>3, <5>1, <5>2
      <4> QED BY <4>1, <4>2
    <3> QED BY <3>4
  <2>9. CASE ~s[n].tooLong /\ ~IsSpace(r) /\ IsControl(r)
    BY <2>3, <2>4, <2>5, <2>6, <2>9, QueryRuneIs, StopRuneIs
  <2>10. CASE ~s[n].tooLong /\ IsLetter(r)
    <3>1. s[n].out = t[n].out BY <2>3, <2>10
    <3>2. s[n + 1].out = Append(s[n].out, ToLower(r)) /\ s[n + 1].previousWasSpace = FALSE
      <4> DEFINE long == Len(s[n].out) + 1 > max
      <4>1. s[n + 1] = [out |-> Append(s[n].out, ToLower(r)), previousWasSpace |-> FALSE,
                        tooLong |-> long]
        BY <2>4, <2>5, <2>6, <2>10, QueryRuneIs
      <4> HIDE DEF long
      <4> QED BY <4>1
    <3>3. t[n + 1].out = Append(t[n].out, ToLower(r)) /\ t[n + 1].previousWasSpace = FALSE
      BY <2>4, <2>5, <2>6, <2>10, StopRuneIs
    <3> QED BY <3>1, <3>2, <3>3
  <2> QED BY <2>4, <2>7, <2>8, <2>9, <2>10, RuneClasses
<1>9. S = Nat
  <2>1. S \subseteq Nat OBVIOUS
  <2> HIDE DEF S
  <2> QED BY <1>7, <1>8, <2>1, SetInduction
<1>10. Len(trimmed) \in S BY <1>1, <1>9
<1>11. s[Len(trimmed)].out = t[Len(trimmed)].out BY <1>1, <1>5, <1>10
<1> QED BY <1>5, <1>6, <1>11

-----------------------------------------------------------------------------
(* What the loop of NormalizeQuery computes *)

\* The i-th rune is the first space after a letter.
Opens(text, i) ==
  /\ IsSpace(text[i])
  /\ \E j \in 1..(i - 1) :
       IsLetter(text[j]) /\ \A k \in (j + 1)..(i - 1) : ~IsLetter(text[k]) /\ ~IsSpace(text[k])

\* The runes that make the loop write one, among the first n.
Writing(text, n) == {i \in 1..n : IsLetter(text[i]) \/ Opens(text, i)}

\* What is written for a rune.
Plain(r) == IF IsSpace(r) THEN "space" ELSE ToLower(r)

\* place tells for each rune of `out' which rune of the text it was written for.
Traced(out, place, text, n) ==
  /\ place \in [1..Len(out) -> Writing(text, n)]
  /\ \A i \in Writing(text, n) : \E k \in 1..Len(out) : place[k] = i
  /\ \A k, l \in 1..Len(out) : k < l => place[k] < place[l]
  /\ \A k \in 1..Len(out) : out[k] = Plain(text[place[k]])

\* Nothing that matters has been read since the last letter was written.
Quiet(builder, place, text, n) ==
  builder.out # <<>> /\ ~builder.previousWasSpace =>
    \A k \in (place[Len(builder.out)] + 1)..n : ~IsLetter(text[k]) /\ ~IsSpace(text[k])

LEMMA PlainSpaces ==
  ASSUME NEW r \in Runes, IsSpace(r) \/ IsLetter(r)
  PROVE  (Plain(r) = "space" <=> IsSpace(r)) /\ (Plain(r) # "space" <=> IsLetter(r))
BY DEF Runes, IsSpace, IsLetter, IsControl, Plain, ToLower

LEMMA WritingClasses ==
  ASSUME NEW text \in Seq(Runes), NEW n \in 0..Len(text), NEW i \in Writing(text, n)
  PROVE  /\ i \in 1..n /\ i \in 1..Len(text) /\ text[i] \in Runes
         /\ IsSpace(text[i]) \/ IsLetter(text[i])
<1>1. Len(text) \in Nat /\ \A k \in 1..Len(text) : text[k] \in Runes
  BY LenProperties, ElementOfSeq
<1> QED BY <1>1 DEF Writing, Opens

\* A rune that does not make the loop write.
LEMMA TraceSkip ==
  ASSUME NEW text \in Seq(Runes), NEW n \in Nat, n + 1 <= Len(text),
         NEW out, NEW place, Traced(out, place, text, n),
         ~IsLetter(text[n + 1]), ~Opens(text, n + 1)
  PROVE  Traced(out, place, text, n + 1)
<1>1. Writing(text, n + 1) = Writing(text, n) BY DEF Writing
<1> QED BY <1>1 DEF Traced

\* A rune that does.
LEMMA TraceWrite ==
  ASSUME NEW text \in Seq(Runes), NEW n \in Nat, n + 1 <= Len(text),
         NEW out \in Seq(PlainRunes), NEW place, Traced(out, place, text, n),
         IsLetter(text[n + 1]) \/ Opens(text, n + 1),
         NEW r \in PlainRunes, r = Plain(text[n + 1])
  PROVE  \E next : /\ Traced(Append(out, r), next, text, n + 1)
                   /\ next[Len(out) + 1] = n + 1
<1> DEFINE L    == Len(out)
           new  == Append(out, r)
           next == [k \in 1..(L + 1) |-> IF k = L + 1 THEN n + 1 ELSE place[k]]
<1>1. L \in Nat /\ Len(new) = L + 1 /\ new[L + 1] = r /\ \A i \in 1..L : new[i] = out[i]
  BY AppendPlain
<1>2. Writing(text, n + 1) = Writing(text, n) \cup {n + 1} BY DEF Writing
<1>3. /\ place \in [1..L -> Writing(text, n)]
      /\ \A i \in Writing(text, n) : \E k \in 1..L : place[k] = i
      /\ \A k, l \in 1..L : k < l => place[k] < place[l]
      /\ \A k \in 1..L : out[k] = Plain(text[place[k]])
  BY DEF Traced
<1>4. \A k \in 1..L : place[k] \in 1..n BY <1>3 DEF Writing
<1> HIDE DEF L, new
<1>5. next[L + 1] = n + 1 /\ \A k \in 1..L : next[k] = place[k] BY <1>1
<1>6. next \in [1..(L + 1) -> Writing(text, n + 1)] BY <1>1, <1>2, <1>3
<1> HIDE DEF next
<1>7. ASSUME NEW i \in Writing(text, n + 1) PROVE \E k \in 1..(L + 1) : next[k] = i
  <2>1. CASE i = n + 1
    <3>1. L + 1 \in 1..(L + 1) BY <1>1
    <3> QED BY <2>1, <3>1, <1>5
  <2>2. CASE i \in Writing(text, n)
    <3>1. PICK k \in 1..L : place[k] = i BY <2>2, <1>3
    <3>2. k \in 1..(L + 1) BY <1>1
    <3> QED BY <3>1, <3>2, <1>5
  <2> QED BY <2>1, <2>2, <1>2
<1>8. ASSUME NEW k \in 1..(L + 1), NEW l \in 1..(L + 1), k < l PROVE next[k] < next[l]
  <2>1. k \in 1..L BY <1>1, <1>8
  <2>2. CASE l = L + 1
    <3>1. next[k] \in 1..n /\ next[l] = n + 1 BY <1>4, <1>5, <2>1, <2>2
    <3> QED BY <3>1
  <2>3. CASE l \in 1..L BY <1>3, <1>5, <1>8, <2>1, <2>3
  <2> QED BY <1>1, <2>2, <2>3
<1>9. ASSUME NEW k \in 1..(L + 1) PROVE new[k] = Plain(text[next[k]])
  <2>1. CASE k = L + 1 BY <1>1, <1>5, <2>1
  <2>2. CASE k \in 1..L BY <1>1, <1>3, <1>5, <2>2
  <2> QED BY <1>1, <2>1, <2>2
<1>10. Traced(new, next, text, n + 1)
  BY <1>1, <1>6, <1>7, <1>8, <1>9 DEF Traced
<1> QED BY <1>5, <1>10 DEF new, L

\* Which rune was written last.
LEMMA LastTraced ==
  ASSUME NEW text \in Seq(Runes), NEW n \in 0..Len(text), NEW builder, IsClean(builder),
         NEW place, Traced(builder.out, place, text, n), builder.out # <<>>
  PROVE  LET last == place[Len(builder.out)]
         IN  /\ last \in 1..n
             /\ \A i \in Writing(text, n) : i <= last
             /\ builder.previousWasSpace <=> IsSpace(text[last])
             /\ ~builder.previousWasSpace <=> IsLetter(text[last])
<1> DEFINE out == builder.out
           L   == Len(out)
           last == place[L]
<1>1. out \in Seq(PlainRunes) /\ (builder.previousWasSpace <=> out[L] = "space")
  BY DEF IsClean, Builders
<1>2. L \in Nat /\ L \in 1..L BY <1>1, PlainTexts
<1>3. /\ place \in [1..L -> Writing(text, n)]
      /\ \A i \in Writing(text, n) : \E k \in 1..L : place[k] = i
      /\ \A k, l \in 1..L : k < l => place[k] < place[l]
      /\ \A k \in 1..L : out[k] = Plain(text[place[k]])
  BY DEF Traced
<1> HIDE DEF out, L
<1>4. last \in Writing(text, n) /\ out[L] = Plain(text[last]) BY <1>2, <1>3
<1>5. last \in 1..n /\ text[last] \in Runes /\ (IsSpace(text[last]) \/ IsLetter(text[last]))
  BY <1>4, WritingClasses
<1>6. ASSUME NEW i \in Writing(text, n) PROVE i <= last
  <2>1. PICK k \in 1..L : place[k] = i BY <1>3
  <2>2. k = L \/ k < L BY <1>2
  <2>3. i \in 1..n BY DEF Writing
  <2>4. k < L => place[k] < place[L] BY <1>2, <1>3
  <2> QED BY <2>1, <2>2, <2>3, <2>4, <1>5
<1>7. /\ builder.previousWasSpace <=> IsSpace(text[last])
      /\ ~builder.previousWasSpace <=> IsLetter(text[last])
  BY <1>1, <1>4, <1>5, PlainSpaces
<1> QED BY <1>5, <1>6, <1>7 DEF L, out

\* The loop writes a space exactly for the first one after a letter.
LEMMA SpaceOpens ==
  ASSUME NEW text \in Seq(Runes), NEW n \in Nat, n + 1 <= Len(text), IsSpace(text[n + 1]),
         NEW builder, IsClean(builder), NEW place, Traced(builder.out, place, text, n),
         Quiet(builder, place, text, n)
  PROVE  Opens(text, n + 1) <=> builder.out # <<>> /\ ~builder.previousWasSpace
<1>0. Len(text) \in Nat /\ n \in 0..Len(text) /\ n + 1 - 1 = n BY LenProperties
<1>1. \A j \in 1..n : IsLetter(text[j]) => j \in Writing(text, n) BY DEF Writing
<1>2. ASSUME Opens(text, n + 1), builder.out = <<>> PROVE FALSE
  <2>1. PICK j \in 1..n : IsLetter(text[j]) BY <1>0, <1>2 DEF Opens
  <2>2. j \in Writing(text, n) BY <1>1, <2>1
  <2>3. 1..Len(builder.out) = {} BY <1>2, EmptySeq
  <2> QED BY <2>2, <2>3 DEF Traced
<1>3. ASSUME Opens(text, n + 1), builder.previousWasSpace PROVE FALSE
  <2> DEFINE last == place[Len(builder.out)]
  <2>1. builder.out # <<>> BY <1>3 DEF IsClean
  <2>2. last \in 1..n /\ IsSpace(text[last]) /\ \A i \in Writing(text, n) : i <= last
    BY <1>0, <1>3, <2>1, LastTraced
  <2> HIDE DEF last
  <2>3. PICK j \in 1..n : /\ IsLetter(text[j])
                          /\ \A k \in (j + 1)..n : ~IsLetter(text[k]) /\ ~IsSpace(text[k])
    BY <1>0, <1>3 DEF Opens
  <2>4. j <= last BY <1>1, <2>2, <2>3
  <2>5. j # last BY <2>2, <2>3 DEF IsLetter
  <2>6. last \in (j + 1)..n BY <2>2, <2>3, <2>4, <2>5
  <2> QED BY <2>2, <2>3, <2>6
<1>4. ASSUME builder.out # <<>>, ~builder.previousWasSpace PROVE Opens(text, n + 1)
  <2> DEFINE last == place[Len(builder.out)]
  <2>1. last \in 1..n /\ IsLetter(text[last]) BY <1>0, <1>4, LastTraced
  <2>2. \A k \in (last + 1)..n : ~IsLetter(text[k]) /\ ~IsSpace(text[k]) BY <1>4 DEF Quiet
  <2> HIDE DEF last
  <2> QED BY <1>0, <2>1, <2>2 DEF Opens
<1> QED BY <1>2, <1>3, <1>4

\* The state of the loop after n runes: what it has written is traced to the text read so
\* far, or to the text read when the limit was exceeded, by a letter.
Follows(builder, text, max, n) ==
  \E m \in 0..n : \E place :
    /\ Traced(builder.out, place, text, m) /\ Quiet(builder, place, text, m)
    /\ ~builder.tooLong => m = n
    /\ builder.tooLong =>
         Len(builder.out) > max /\ builder.out # <<>> /\ ~builder.previousWasSpace

LEMMA FollowsStart ==
  ASSUME NEW text \in Seq(Runes), NEW max \in Nat
  PROVE  Follows(NewBuilder, text, max, 0)
<1> DEFINE place == [k \in 1..0 |-> 0]
<1>1. Len(<<>>) = 0 /\ Writing(text, 0) = {} BY DEF Writing
<1>2. Traced(<<>>, place, text, 0) BY <1>1 DEF Traced
<1>3. NewBuilder.out = <<>> /\ ~NewBuilder.tooLong BY DEF NewBuilder
<1>4. Quiet(NewBuilder, place, text, 0) BY <1>3 DEF Quiet
<1> HIDE DEF place
<1>5. 0 \in 0..0 OBVIOUS
<1> QED BY <1>2, <1>3, <1>4, <1>5 DEF Follows

LEMMA FollowsStep ==
  ASSUME NEW text \in Seq(Runes), NEW max \in Nat, NEW n \in Nat, n + 1 <= Len(text),
         NEW builder, IsClean(builder), Follows(builder, text, max, n)
  PROVE  Follows(QueryRune(builder, text[n + 1], max), text, max, n + 1)
<1> DEFINE r == text[n + 1]
           next == QueryRune(builder, r, max)
<1>0. /\ Len(text) \in Nat /\ r \in Runes /\ builder \in Builders
      /\ builder.out \in Seq(PlainRunes) /\ n \in 0..n + 1
  BY LenProperties, ElementOfSeq DEF IsClean, Builders
<1> DEFINE At(m, place) ==
             /\ Traced(builder.out, place, text, m) /\ Quiet(builder, place, text, m)
             /\ ~builder.tooLong => m = n
             /\ builder.tooLong =>
                  Len(builder.out) > max /\ builder.out # <<>> /\ ~builder.previousWasSpace
<1>a. PICK m \in 0..n : \E place : At(m, place) BY DEF Follows
<1>b. PICK place : At(m, place) BY <1>a
<1>1. /\ m \in 0..n
      /\ Traced(builder.out, place, text, m) /\ Quiet(builder, place, text, m)
      /\ ~builder.tooLong => m = n
      /\ builder.tooLong =>
           Len(builder.out) > max /\ builder.out # <<>> /\ ~builder.previousWasSpace
  BY <1>a, <1>b
<1> HIDE DEF At
<1>2. CASE builder.tooLong
  <2>1. next = builder BY <1>0, <1>2, QueryRuneIs
  <2>2. m \in 0..n + 1 BY <1>1
  <2> QED BY <1>1, <1>2, <2>1, <2>2 DEF Follows
<1>3. ASSUME ~builder.tooLong, ~IsLetter(r), ~Opens(text, n + 1), next = builder,
             IsSpace(r) => builder.out = <<>> \/ builder.previousWasSpace
      PROVE  Follows(next, text, max, n + 1)
  <2>1. Traced(builder.out, place, text, n) /\ Quiet(builder, place, text, n) BY <1>1, <1>3
  <2>2. Traced(builder.out, place, text, n + 1) BY <1>3, <2>1, TraceSkip
  <2>3. Quiet(builder, place, text, n + 1)
    <3> DEFINE last == place[Len(builder.out)]
    <3> SUFFICES ASSUME builder.out # <<>>, ~builder.previousWasSpace,
                        NEW k \in (last + 1)..(n + 1)
                 PROVE  ~IsLetter(text[k]) /\ ~IsSpace(text[k])
      BY DEF Quiet
    <3>1. last \in 1..n BY <1>0, <2>1, LastTraced
    <3>2. \A j \in (last + 1)..n : ~IsLetter(text[j]) /\ ~IsSpace(text[j]) BY <2>1 DEF Quiet
    <3> HIDE DEF last
    <3>3. k = n + 1 \/ k \in (last + 1)..n BY <3>1
    <3>4. ~IsLetter(text[n + 1]) /\ ~IsSpace(text[n + 1]) BY <1>3
    <3> QED BY <3>2, <3>3, <3>4
  <2>4. n + 1 \in 0..n + 1 OBVIOUS
  <2> QED BY <1>3, <2>2, <2>3, <2>4 DEF Follows
<1>4. CASE ~builder.tooLong /\ ~IsSpace(r) /\ IsControl(r)
  <2>1. next = builder BY <1>0, <1>4, QueryRuneIs
  <2>2. ~IsLetter(r) /\ ~Opens(text, n + 1) BY <1>4 DEF IsLetter, Opens
  <2> QED BY <1>3, <1>4, <2>1, <2>2
<1>5. CASE ~builder.tooLong /\ IsSpace(r)
  <2>1. Traced(builder.out, place, text, n) /\ Quiet(builder, place, text, n) BY <1>1, <1>5
  <2>2. Opens(text, n + 1) <=> builder.out # <<>> /\ ~builder.previousWasSpace
    BY <1>5, <2>1, SpaceOpens
  <2>3. next = WriteSpace(builder) BY <1>0, <1>5, QueryRuneIs
  <2>4. CASE builder.out = <<>> \/ builder.previousWasSpace
    <3>1. next = builder BY <1>0, <2>3, <2>4, WriteSpaceIs
    <3>2. ~IsLetter(r) /\ ~Opens(text, n + 1) BY <1>5, <2>2, <2>4 DEF IsLetter
    <3> QED BY <1>3, <1>5, <2>4, <3>1, <3>2
  <2>5. CASE ~(builder.out = <<>> \/ builder.previousWasSpace)
    <3>1. next = [out |-> Append(builder.out, "space"), previousWasSpace |-> TRUE,
                  tooLong |-> builder.tooLong]
      BY <1>0, <2>3, <2>5, WriteSpaceIs
    <3>2. Opens(text, n + 1) BY <2>2, <2>5
    <3>3. "space" \in PlainRunes /\ "space" = Plain(text[n + 1])
      BY <1>5 DEF PlainRunes, Plain
    <3>4. PICK q : Traced(Append(builder.out, "space"), q, text, n + 1)
      BY <1>0, <2>1, <3>2, <3>3, TraceWrite
    <3>5. next.out = Append(builder.out, "space") /\ next.previousWasSpace /\ ~next.tooLong
      BY <1>5, <3>1
    <3> HIDE DEF next
    <3>6. Quiet(next, q, text, n + 1) BY <3>5 DEF Quiet
    <3>7. n + 1 \in 0..n + 1 OBVIOUS
    <3>8. Follows(next, text, max, n + 1) BY <3>4, <3>5, <3>6, <3>7 DEF Follows
    <3> QED BY <3>8 DEF next
  <2> QED BY <2>4, <2>5
<1>6. CASE ~builder.tooLong /\ IsLetter(r)
  <2> DEFINE c == ToLower(r)
             out == Append(builder.out, c)
             long == Len(builder.out) + 1 > max
  <2>1. Traced(builder.out, place, text, n) BY <1>1, <1>6
  <2>2. next = [out |-> out, previousWasSpace |-> FALSE, tooLong |-> long]
    BY <1>0, <1>6, QueryRuneIs
  <2>3. c \in PlainRunes /\ c = Plain(text[n + 1])
    BY <1>0, <1>6, LowerIsPlain DEF Plain, IsLetter
  <2>4. out # <<>> /\ Len(out) = Len(builder.out) + 1 BY <1>0, <2>3, AppendPlain
  <2>5. PICK q : Traced(out, q, text, n + 1) /\ q[Len(builder.out) + 1] = n + 1
    BY <1>0, <1>6, <2>1, <2>3, TraceWrite
  <2>6. next.out = out /\ ~next.previousWasSpace BY <2>2
  <2>7. next.tooLong <=> Len(out) > max
    <3>1. long <=> Len(out) > max BY <2>4
    <3>2. next.tooLong = long
      <4> HIDE DEF long
      <4> QED BY <2>2
    <3> QED BY <3>1, <3>2
  <2> HIDE DEF next, out
  <2>8. Quiet(next, q, text, n + 1)
    <3>1. q[Len(next.out)] = n + 1 BY <2>4, <2>5, <2>6
    <3>2. (n + 1 + 1)..(n + 1) = {} OBVIOUS
    <3> QED BY <3>1, <3>2 DEF Quiet
  <2>9. n + 1 \in 0..n + 1 OBVIOUS
  <2>10. Follows(next, text, max, n + 1)
    BY <2>4, <2>5, <2>6, <2>7, <2>8, <2>9 DEF Follows
  <2> QED BY <2>10 DEF next
<1> QED BY <1>0, <1>2, <1>4, <1>5, <1>6, RuneClasses

\* The loop follows the text to its end.
LEMMA QueryFollows ==
  ASSUME NEW text \in Seq(Runes), NEW max \in Nat, NEW s, QuerySteps(s, text, max)
  PROVE  Follows(s[Len(text)], text, max, Len(text))
<1>1. Len(text) \in Nat BY LenProperties
<1> DEFINE S == {n \in Nat : n <= Len(text) => Follows(s[n], text, max, n)}
<1>2. 0 \in S BY FollowsStart DEF QuerySteps
<1>3. ASSUME NEW n \in S PROVE n + 1 \in S
  <2>1. SUFFICES ASSUME n + 1 <= Len(text) PROVE Follows(s[n + 1], text, max, n + 1) OBVIOUS
  <2>2. /\ n \in Nat /\ n + 1 \in 1..Len(text) /\ n + 1 - 1 = n /\ n \in 0..Len(text)
        /\ Follows(s[n], text, max, n)
    BY <2>1, <1>1
  <2>3. s[n + 1] = QueryRune(s[n], text[n + 1], max) BY <2>2 DEF QuerySteps
  <2>4. IsClean(s[n]) BY <2>2, QueryStepsClean
  <2> QED BY <2>1, <2>2, <2>3, <2>4, FollowsStep
<1>4. S = Nat
  <2>1. S \subseteq Nat OBVIOUS
  <2> HIDE DEF S
  <2> QED BY <1>2, <1>3, <2>1, SetInduction
<1> QED BY <1>1, <1>4

\* What was written is kept, but for a space at the end.
LEMMA TracedKept ==
  ASSUME NEW text \in Seq(Runes), NEW n \in 0..Len(text), NEW builder, IsClean(builder),
         NEW place, Traced(builder.out, place, text, n), NEW k \in 1..Len(builder.out),
         k < Len(builder.out) \/ ~builder.previousWasSpace
  PROVE  place[k] \in Kept(text)
<1> DEFINE out == builder.out
           L   == Len(out)
           i   == place[k]
<1>1. /\ out \in Seq(PlainRunes) /\ (builder.previousWasSpace <=> out # <<>> /\ out[L] = "space")
      /\ \A j \in 1..(L - 1) : out[j] # "space" \/ out[j + 1] # "space"
  BY DEF IsClean, Builders
<1>2. L \in Nat /\ (out = <<>> <=> L = 0) BY <1>1, PlainTexts
<1>3. /\ place \in [1..L -> Writing(text, n)]
      /\ \A j, l \in 1..L : j < l => place[j] < place[l]
      /\ \A j \in 1..L : out[j] = Plain(text[place[j]])
  BY DEF Traced
<1>4. Len(text) \in Nat /\ DOMAIN text = 1..Len(text) BY LenProperties
<1> HIDE DEF out, L
<1>5. k \in 1..L /\ (k < L \/ ~builder.previousWasSpace) BY DEF out, L
<1>6. i \in Writing(text, n) BY <1>3, <1>5
<1>7. /\ i \in 1..Len(text) /\ text[i] \in Runes
      /\ IsSpace(text[i]) \/ IsLetter(text[i])
  BY <1>6, WritingClasses
<1>8. CASE IsLetter(text[i]) BY <1>4, <1>7, <1>8 DEF Kept
<1>9. CASE IsSpace(text[i])
  <2>1. out[k] = "space" BY <1>3, <1>5, <1>9 DEF Plain
  <2>2. k # L
    <3>1. k = L => out # <<>> BY <1>2, <1>5
    <3> QED BY <1>1, <1>2, <1>5, <2>1, <3>1
  <2>3. k \in 1..(L - 1) /\ k + 1 \in 1..L /\ k < k + 1 BY <1>2, <1>5, <2>2
  <2>4. out[k + 1] # "space" BY <1>1, <2>1, <2>3
  <2> DEFINE j == place[k + 1]
  <2>5. j \in Writing(text, n) /\ i < j /\ out[k + 1] = Plain(text[j]) BY <1>3, <1>5, <2>3
  <2>6. j \in 1..Len(text) /\ text[j] \in Runes /\ (IsSpace(text[j]) \/ IsLetter(text[j]))
    BY <2>5, WritingClasses
  <2>7. IsLetter(text[j]) BY <2>4, <2>5, <2>6, PlainSpaces
  <2> HIDE DEF j, i
  <2>8. j \in (i + 1)..Len(text) BY <1>4, <1>7, <2>5, <2>6
  <2>9. Opens(text, i) BY <1>6, <1>9 DEF Writing, IsLetter
  <2>10. IsGap(text, i) BY <2>7, <2>8, <2>9 DEF IsGap, Opens
  <2>11. i \in Kept(text) BY <1>4, <1>7, <2>10 DEF Kept
  <2> QED BY <2>11 DEF i
<1> QED BY <1>7, <1>8, <1>9

LEMMA KeptIsWritten ==
  ASSUME NEW text \in Seq(Runes)
  PROVE  Kept(text) \subseteq Writing(text, Len(text))
<1>1. DOMAIN text = 1..Len(text) BY LenProperties
<1> QED BY <1>1 DEF Kept, IsGap, Writing, Opens

\* A text that has been read to the end: what is left after trimming is its normal form.
LEMMA FollowedForm ==
  ASSUME NEW text \in Seq(Runes), NEW builder, IsClean(builder),
         NEW place, Traced(builder.out, place, text, Len(text)), builder.out # <<>>
  PROVE  IsNormalFormOf(TrimSpace(builder.out), text)
<1> DEFINE out  == builder.out
           L    == Len(out)
           form == TrimSpace(out)
           F    == IF builder.previousWasSpace THEN L - 1 ELSE L
           p    == [k \in 1..F |-> place[k]]
<1>0. Len(text) \in Nat /\ Len(text) \in 0..Len(text) BY LenProperties
<1>1. out \in Seq(PlainRunes) BY DEF IsClean, Builders
<1>2. L \in Nat \ {0} /\ \A i \in 1..L : out[i] \in PlainRunes BY <1>1, PlainTexts
<1>3. DOMAIN form = 1..F /\ \A k \in 1..F : form[k] = out[k]
  <2>1. CASE builder.previousWasSpace
    <3>1. form = SubSeq(out, 1, L - 1) BY <2>1, CleanTrims
    <3>2. \A i \in 1..(L - 1) : out[i] \in PlainRunes BY <1>2
    <3>3. /\ SubSeq(out, 1, L - 1) \in Seq(PlainRunes) /\ Len(SubSeq(out, 1, L - 1)) = L - 1
          /\ \A i \in 1..(L - 1) : SubSeq(out, 1, L - 1)[i] = out[i]
      BY <1>2, <3>2, SubSeqProperties
    <3> QED BY <2>1, <3>1, <3>3, LenProperties
  <2>2. CASE ~builder.previousWasSpace
    <3>1. form = out BY <2>2, CleanTrims
    <3> QED BY <1>1, <2>2, <3>1, LenProperties
  <2> QED BY <2>1, <2>2
<1>4. F \in Nat /\ F <= L /\ (F = L \/ (F = L - 1 /\ builder.previousWasSpace))
  BY <1>2
<1>5. \A k \in 1..F : place[k] \in Kept(text)
  <2>1. ASSUME NEW k \in 1..F PROVE place[k] \in Kept(text)
    <3>1. k \in 1..L /\ (k < L \/ ~builder.previousWasSpace) BY <1>2
    <3> QED BY <1>0, <3>1, TracedKept
  <2> QED BY <2>1
<1>6. /\ place \in [1..L -> Writing(text, Len(text))]
      /\ \A i \in Writing(text, Len(text)) : \E k \in 1..L : place[k] = i
      /\ \A k, l \in 1..L : k < l => place[k] < place[l]
      /\ \A k \in 1..L : out[k] = Plain(text[place[k]])
  BY DEF Traced
<1>7. /\ \A i \in Writing(text, Len(text)) : i <= place[L]
      /\ place[L] \in 1..Len(text)
      /\ builder.previousWasSpace <=> IsSpace(text[place[L]])
  BY <1>0, LastTraced
<1> HIDE DEF F, form, L, out
<1>8. p \in [1..F -> Kept(text)] BY <1>5
<1>9. ASSUME NEW i \in Kept(text) PROVE \E k \in 1..F : p[k] = i
  <2>1. i \in Writing(text, Len(text)) BY KeptIsWritten
  <2>2. PICK k \in 1..L : place[k] = i BY <1>6, <2>1
  <2>3. k \in 1..F
    <3>1. SUFFICES ASSUME k = L, builder.previousWasSpace PROVE FALSE BY <1>2, <1>4
    <3>2. IsSpace(text[i]) BY <1>7, <2>2, <3>1
    <3>3. PICK j \in (i + 1)..Len(text) : IsLetter(text[j])
      BY <3>2 DEF Kept, IsGap, IsLetter
    <3>4. i \in 1..Len(text) BY <2>1, <1>0, WritingClasses
    <3>5. j \in Writing(text, Len(text)) BY <1>0, <3>3, <3>4 DEF Writing
    <3>6. j <= i BY <1>7, <2>2, <3>1, <3>5
    <3> QED BY <1>0, <3>3, <3>4, <3>6
  <2> QED BY <2>2, <2>3
<1>10. \A k, l \in 1..F : k < l => p[k] < p[l] BY <1>2, <1>4, <1>6
<1>11. ASSUME NEW k \in 1..F
       PROVE  form[k] = IF IsSpace(text[p[k]]) THEN "space" ELSE ToLower(text[p[k]])
  <2>1. k \in 1..L /\ p[k] = place[k] BY <1>2, <1>4
  <2> HIDE DEF p
  <2> QED BY <1>3, <1>6, <2>1 DEF Plain
<1> HIDE DEF p
<1>12. IsNormalFormOf(form, text)
  <2> DEFINE D == 1..F
  <2>1. DOMAIN form = D BY <1>3
  <2>2. p \in [D -> Kept(text)] BY <1>8
  <2>3. \A i \in Kept(text) : \E k \in D : p[k] = i BY <1>9
  <2>4. \A k, l \in D : k < l => p[k] < p[l] BY <1>10
  <2>5. \A k \in D : form[k] = IF IsSpace(text[p[k]]) THEN "space" ELSE ToLower(text[p[k]])
    BY <1>11
  <2> HIDE DEF D
  <2> QED BY <2>1, <2>2, <2>3, <2>4, <2>5 DEF IsNormalFormOf
<1> QED BY <1>12 DEF form, out

\* As many runes as can be placed in order are kept.
LEMMA PlacesCount ==
  ASSUME NEW text \in Seq(Runes), NEW n \in Nat, NEW place \in [1..n -> Kept(text)],
         \A k, l \in 1..n : k < l => place[k] < place[l]
  PROVE  n <= Cardinality(Kept(text)) /\ Cardinality(Kept(text)) \in Nat
<1>1. Len(text) \in Nat /\ DOMAIN text = 1..Len(text) BY LenProperties
<1>2. Kept(text) \in SUBSET (1..Len(text)) BY <1>1 DEF Kept
<1>3. IsFiniteSet(Kept(text))
  <2>1. 1 \in Int /\ Len(text) \in Int BY <1>1
  <2>2. IsFiniteSet(1..Len(text)) BY <2>1, FS_Interval
  <2> QED BY <1>2, <2>2, FS_Subset
<1>4. place \in Injection(1..n, Kept(text))
  <2>1. ASSUME NEW k \in 1..n, NEW l \in 1..n, place[k] = place[l] PROVE k = l
    <3>1. place[k] \in Int /\ place[l] \in Int BY <1>1, <1>2
    <3>2. ~(k < l) /\ ~(l < k) BY <2>1, <3>1
    <3> QED BY <3>2
  <2> QED BY <2>1 DEF Injection, IsInjective
<1>5. Cardinality(1..n) = n BY FS_Interval
<1>6. Cardinality(1..n) <= Cardinality(Kept(text)) BY <1>3, <1>4, FS_Injection
<1>7. Cardinality(Kept(text)) \in Nat BY <1>3, FS_CardinalityType
<1> QED BY <1>5, <1>6, <1>7

\* Trimming moves what is kept, and loses none of it.
LEMMA KeptShift ==
  ASSUME NEW text \in Seq(Runes), NEW part, NEW offset, IsTrimmed(part, offset, text)
  PROVE  /\ \A i \in Kept(part) : i + offset \in Kept(text) /\ part[i] = text[i + offset]
         /\ \A i \in Kept(text) : i - offset \in Kept(part) /\ i \in Nat
<1>1. /\ part \in Seq(Runes) /\ offset \in Nat /\ offset + Len(part) <= Len(text)
      /\ \A i \in 1..Len(part) : part[i] = text[i + offset]
      /\ \A i \in 1..Len(text) : i <= offset \/ i > offset + Len(part) => IsSpace(text[i])
  BY DEF IsTrimmed
<1>2. /\ Len(text) \in Nat /\ DOMAIN text = 1..Len(text)
      /\ Len(part) \in Nat /\ DOMAIN part = 1..Len(part)
  BY <1>1, LenProperties
<1>3. ASSUME NEW i \in Int, i + offset \in 1..Len(text), IsLetter(text[i + offset])
      PROVE  i \in 1..Len(part)
  <2>1. ~IsSpace(text[i + offset]) BY <1>3 DEF IsLetter
  <2> QED BY <1>1, <1>2, <1>3, <2>1
<1>4. ASSUME NEW i \in 1..Len(part) PROVE IsGap(part, i) <=> IsGap(text, i + offset)
  <2> DEFINE e == i + offset
  <2>1. e \in 1..Len(text) /\ part[i] = text[e] /\ e = i + offset BY <1>1, <1>2
  <2> HIDE DEF e
  <2>2. ASSUME IsGap(part, i) PROVE IsGap(text, e)
    <3>1. IsSpace(text[e]) BY <2>1, <2>2 DEF IsGap
    <3>2. PICK j \in 1..(i - 1) :
            /\ IsLetter(part[j])
            /\ \A k \in (j + 1)..(i - 1) : ~IsLetter(part[k]) /\ ~IsSpace(part[k])
      BY <2>2 DEF IsGap
    <3> DEFINE jj == j + offset
    <3>3. jj \in 1..(e - 1) /\ IsLetter(text[jj]) /\ jj = j + offset
      <4>1. j \in 1..Len(part) BY <1>2
      <4> QED BY <1>1, <1>2, <2>1, <3>2, <4>1
    <3> HIDE DEF jj
    <3>4. ASSUME NEW k \in (jj + 1)..(e - 1)
          PROVE  ~IsLetter(text[k]) /\ ~IsSpace(text[k])
      <4>1. /\ k - offset \in (j + 1)..(i - 1) /\ k - offset \in 1..Len(part)
            /\ k - offset + offset = k
        BY <1>1, <1>2, <2>1, <3>2, <3>3
      <4>2. part[k - offset] = text[k] BY <1>1, <4>1
      <4> QED BY <3>2, <4>1, <4>2
    <3>5. PICK l \in (i + 1)..Len(part) : IsLetter(part[l]) BY <2>2 DEF IsGap
    <3> DEFINE ll == l + offset
    <3>6. ll \in (e + 1)..Len(text) /\ IsLetter(text[ll])
      <4>1. l \in 1..Len(part) BY <1>2
      <4>2. part[l] = text[ll] BY <1>1, <4>1
      <4>3. ll \in (e + 1)..Len(text) BY <1>1, <1>2, <2>1, <4>1
      <4> QED BY <3>5, <4>2, <4>3
    <3> HIDE DEF ll
    <3> QED BY <3>1, <3>3, <3>4, <3>6 DEF IsGap
  <2>3. ASSUME IsGap(text, e) PROVE IsGap(part, i)
    <3>1. IsSpace(part[i]) BY <2>1, <2>3 DEF IsGap
    <3>2. PICK j \in 1..(e - 1) :
            /\ IsLetter(text[j])
            /\ \A k \in (j + 1)..(e - 1) : ~IsLetter(text[k]) /\ ~IsSpace(text[k])
      BY <2>3 DEF IsGap
    <3> DEFINE jj == j - offset
    <3>3. jj \in Int /\ jj + offset = j /\ jj + offset \in 1..Len(text) BY <1>1, <1>2, <2>1, <3>2
    <3> HIDE DEF jj
    <3>4. jj \in 1..Len(part) BY <1>3, <3>2, <3>3
    <3>5. jj \in 1..(i - 1) /\ IsLetter(part[jj]) BY <1>1, <2>1, <3>2, <3>3, <3>4
    <3>6. ASSUME NEW k \in (jj + 1)..(i - 1) PROVE ~IsLetter(part[k]) /\ ~IsSpace(part[k])
      <4>1. k + offset \in (j + 1)..(e - 1) /\ k \in 1..Len(part)
        BY <1>1, <1>2, <2>1, <3>3, <3>4
      <4>2. part[k] = text[k + offset] BY <1>1, <4>1
      <4> QED BY <3>2, <4>1, <4>2
    <3>7. PICK l \in (e + 1)..Len(text) : IsLetter(text[l]) BY <2>3 DEF IsGap
    <3> DEFINE ll == l - offset
    <3>8. ll \in Int /\ ll + offset = l /\ ll + offset \in 1..Len(text) BY <1>1, <1>2, <2>1, <3>7
    <3> HIDE DEF ll
    <3>9. ll \in 1..Len(part) BY <1>3, <3>7, <3>8
    <3>10. ll \in (i + 1)..Len(part) /\ IsLetter(part[ll])
      <4>1. part[ll] = text[l] BY <1>1, <3>8, <3>9
      <4>2. ll \in (i + 1)..Len(part) BY <1>1, <1>2, <2>1, <3>8, <3>9
      <4> QED BY <3>7, <4>1, <4>2
    <3> QED BY <3>1, <3>5, <3>6, <3>10 DEF IsGap
  <2> QED BY <2>2, <2>3 DEF e
<1>5. ASSUME NEW i \in Kept(part) PROVE i + offset \in Kept(text) /\ part[i] = text[i + offset]
  <2>1. i \in 1..Len(part) /\ (IsLetter(part[i]) \/ IsGap(part, i)) BY <1>2 DEF Kept
  <2>2. i + offset \in 1..Len(text) /\ part[i] = text[i + offset] BY <1>1, <1>2, <2>1
  <2>3. IsLetter(text[i + offset]) \/ IsGap(text, i + offset) BY <1>4, <2>1, <2>2
  <2> QED BY <1>2, <2>2, <2>3 DEF Kept
<1>6. ASSUME NEW i \in Kept(text) PROVE i - offset \in Kept(part) /\ i \in Nat
  <2>1. i \in 1..Len(text) /\ (IsLetter(text[i]) \/ IsGap(text, i)) BY <1>2 DEF Kept
  <2> DEFINE ii == i - offset
  <2>2. ii \in Int /\ ii + offset = i /\ i \in Nat BY <1>1, <1>2, <2>1
  <2> HIDE DEF ii
  <2>3. ii \in 1..Len(part)
    <3>1. CASE IsLetter(text[i]) BY <1>3, <2>1, <2>2, <3>1
    <3>2. CASE IsGap(text, i)
      <4>1. PICK j \in 1..(i - 1) : IsLetter(text[j]) BY <3>2 DEF IsGap
      <4>2. PICK l \in (i + 1)..Len(text) : IsLetter(text[l]) BY <3>2 DEF IsGap
      <4>3. j \in 1..Len(text) /\ l \in 1..Len(text) BY <1>2, <2>1
      <4>4. ~IsSpace(text[j]) /\ ~IsSpace(text[l]) BY <4>1, <4>2 DEF IsLetter
      <4>5. j > offset /\ l <= offset + Len(part) BY <1>1, <1>2, <4>3, <4>4
      <4> QED BY <1>1, <1>2, <2>1, <2>2, <4>1, <4>2, <4>5
    <3> QED BY <2>1, <3>1, <3>2
  <2>4. part[ii] = text[i] BY <1>1, <2>2, <2>3
  <2>5. IsLetter(part[ii]) \/ IsGap(part, ii) BY <1>4, <2>1, <2>2, <2>3, <2>4
  <2>6. ii \in Kept(part) BY <1>2, <2>3, <2>5 DEF Kept
  <2> QED BY <2>2, <2>6 DEF ii
<1> QED BY <1>5, <1>6

\* A normal form of the trimmed text is one of the text.
LEMMA FormShift ==
  ASSUME NEW text \in Seq(Runes), NEW part, NEW offset, IsTrimmed(part, offset, text),
         NEW form, IsNormalFormOf(form, part)
  PROVE  IsNormalFormOf(form, text)
<1>0. offset \in Nat BY DEF IsTrimmed
<1>1. PICK place \in [DOMAIN form -> Kept(part)] :
        /\ \A i \in Kept(part) : \E k \in DOMAIN form : place[k] = i
        /\ \A k, l \in DOMAIN form : k < l => place[k] < place[l]
        /\ \A k \in DOMAIN form :
             form[k] = IF IsSpace(part[place[k]]) THEN "space" ELSE ToLower(part[place[k]])
  BY DEF IsNormalFormOf
<1> DEFINE moved == [k \in DOMAIN form |-> place[k] + offset]
<1>2. \A k \in DOMAIN form : /\ moved[k] \in Kept(text) /\ moved[k] = place[k] + offset
                             /\ part[place[k]] = text[moved[k]]
  BY <1>1, KeptShift
<1>3. \A k \in DOMAIN form : place[k] \in Int
  <2>1. part \in Seq(Runes) BY DEF IsTrimmed
  <2>2. Len(part) \in Nat /\ DOMAIN part = 1..Len(part) BY <2>1, LenProperties
  <2> QED BY <1>1, <2>2 DEF Kept
<1>4. moved \in [DOMAIN form -> Kept(text)] BY <1>2
<1> HIDE DEF moved
<1>5. ASSUME NEW i \in Kept(text) PROVE \E k \in DOMAIN form : moved[k] = i
  <2>1. i - offset \in Kept(part) /\ i \in Nat BY KeptShift
  <2>2. PICK k \in DOMAIN form : place[k] = i - offset BY <1>1, <2>1
  <2>3. moved[k] = i BY <1>0, <1>2, <2>1, <2>2
  <2> QED BY <2>3
<1>6. ASSUME NEW k \in DOMAIN form, NEW l \in DOMAIN form, k < l PROVE moved[k] < moved[l]
  <2>1. place[k] < place[l] BY <1>1, <1>6
  <2> QED BY <1>0, <1>2, <1>3, <2>1
<1>7. \A k \in DOMAIN form :
        form[k] = IF IsSpace(text[moved[k]]) THEN "space" ELSE ToLower(text[moved[k]])
  BY <1>1, <1>2
<1> QED BY <1>4, <1>5, <1>6, <1>7 DEF IsNormalFormOf

\* NormalizeQuery answers, for every text and every limit, what a normal form is:
\* the letters in lower case with single spaces between them, no form if there is no
\* letter, and an error exactly when the form exceeds the limit, although the loop gives
\* up before it has seen the rest of the text (normalizer.go:17-66).
THEOREM NormalizeQueryIsRight ==
  ASSUME NEW text \in Seq(Runes), NEW max \in Nat
  PROVE  IsNormalization(NormalizeQuery(text, max), text, max)
<1> DEFINE part   == TrimSpace(text)
           answer == NormalizeQuery(text, max)
<1>1. PICK offset \in Nat : IsTrimmed(part, offset, text) BY TrimSpaceTrims
<1>2. part \in Seq(Runes) /\ Len(part) \in Nat BY TrimType, LenProperties
<1>3. PICK s : QuerySteps(s, part, max) BY <1>2, QueryStepsExist
<1> DEFINE builder == s[Len(part)]
           form == TrimSpace(builder.out)
<1>4. IsClean(builder)
  <2>1. Len(part) \in 0..Len(part) BY <1>2
  <2> QED BY <1>2, <1>3, <2>1, QueryStepsClean
<1>5. Follows(builder, part, max, Len(part)) BY <1>2, <1>3, QueryFollows
<1>6. \/ part = <<>> /\ answer = Failed("empty")
      \/ builder.tooLong /\ answer = Failed("tooLong")
      \/ ~builder.tooLong /\ form = <<>> /\ answer = Failed("empty")
      \/ ~builder.tooLong /\ form # <<>> /\ Len(form) > max /\ answer = Failed("tooLong")
      \/ ~builder.tooLong /\ form # <<>> /\ ~(Len(form) > max) /\ answer = Normal(form)
  BY <1>3, QueryAnswers
<1>7. /\ Failed("empty").err = "empty" /\ Failed("tooLong").err = "tooLong"
      /\ Normal(form).err = "none" /\ Normal(form).text = form
  BY DEF Failed, Normal
<1> HIDE DEF part, builder, form, answer
<1>8. ASSUME ~builder.tooLong PROVE \E place : Traced(builder.out, place, part, Len(part))
  BY <1>5, <1>8 DEF Follows
<1>9. builder.out = <<>> => form = <<>> BY <1>4, CleanTrims DEF form
<1>10. builder.out # <<>> => IsNormal(form) BY <1>4, CleanTrims DEF form
<1>11. Kept(part) = {} => Kept(text) = {}
  BY <1>1, KeptShift
<1>12. CASE part = <<>> /\ answer = Failed("empty")
  <2>1. DOMAIN part = {} BY <1>12, EmptySeq
  <2>2. Kept(part) = {} BY <2>1 DEF Kept
  <2> QED BY <1>7, <1>11, <1>12, <2>2 DEF IsNormalization, answer
<1>13. CASE ~builder.tooLong /\ form = <<>> /\ answer = Failed("empty")
  <2>1. PICK place : Traced(builder.out, place, part, Len(part)) BY <1>8, <1>13
  <2>2. builder.out = <<>> BY <1>10, <1>13 DEF IsNormal
  <2>3. 1..Len(builder.out) = {} BY <2>2, EmptySeq
  <2>4. Writing(part, Len(part)) = {} BY <2>1, <2>3 DEF Traced
  <2>5. Kept(part) = {} BY <1>2, <2>4, KeptIsWritten
  <2> QED BY <1>7, <1>11, <1>13, <2>5 DEF IsNormalization, answer
<1>14. ASSUME ~builder.tooLong, form # <<>>
       PROVE  IsNormalFormOf(form, text) /\ Len(form) \in Nat \ {0} /\ DOMAIN form = 1..Len(form)
  <2>1. PICK place : Traced(builder.out, place, part, Len(part)) BY <1>8, <1>14
  <2>2. builder.out # <<>> BY <1>9, <1>14
  <2>3. IsNormalFormOf(form, part) BY <1>2, <1>4, <2>1, <2>2, FollowedForm DEF form
  <2>4. IsNormalFormOf(form, text) BY <1>1, <2>3, FormShift
  <2>5. IsNormal(form) BY <1>10, <2>2
  <2>6. Len(form) \in Nat \ {0} BY <2>5, NormalTrimmed
  <2>7. DOMAIN form = 1..Len(form) BY <2>5, LenProperties DEF IsNormal
  <2> QED BY <2>4, <2>6, <2>7
<1>15. CASE ~builder.tooLong /\ form # <<>> /\ Len(form) > max /\ answer = Failed("tooLong")
  <2>1. IsNormalFormOf(form, text) /\ Len(form) \in Nat /\ DOMAIN form = 1..Len(form)
    BY <1>14, <1>15
  <2>2. PICK place \in [1..Len(form) -> Kept(text)] :
          \A k, l \in 1..Len(form) : k < l => place[k] < place[l]
    BY <2>1 DEF IsNormalFormOf
  <2>3. Len(form) <= Cardinality(Kept(text)) /\ Cardinality(Kept(text)) \in Nat
    BY <2>1, <2>2, PlacesCount
  <2>4. Cardinality(Kept(text)) > max BY <1>15, <2>1, <2>3
  <2> QED BY <1>7, <1>15, <2>4 DEF IsNormalization, answer
<1>16. CASE ~builder.tooLong /\ form # <<>> /\ ~(Len(form) > max) /\ answer = Normal(form)
  <2>1. IsNormalFormOf(form, text) /\ Len(form) \in Nat \ {0} BY <1>14, <1>16
  <2>2. Len(form) \in 1..max BY <1>16, <2>1
  <2> QED BY <1>7, <1>16, <2>1, <2>2 DEF IsNormalization, answer
<1>17. CASE builder.tooLong /\ answer = Failed("tooLong")
  <2> DEFINE L == Len(builder.out)
  <2>1. PICK m \in 0..Len(part) : \E place :
          /\ Traced(builder.out, place, part, m)
          /\ builder.tooLong => L > max /\ builder.out # <<>> /\ ~builder.previousWasSpace
    BY <1>5 DEF Follows
  <2>2. PICK place : Traced(builder.out, place, part, m) BY <2>1
  <2>3. L > max /\ ~builder.previousWasSpace BY <1>17, <2>1
  <2>4. L \in Nat BY <1>4, LenProperties DEF IsClean, Builders
  <2>5. \A k \in 1..L : place[k] \in Kept(part) BY <1>2, <1>4, <2>2, <2>3, TracedKept
  <2>6. \A k, l \in 1..L : k < l => place[k] < place[l] BY <2>2 DEF Traced
  <2> HIDE DEF L
  <2>7. \A k \in 1..L : place[k] \in Int
    <3>1. DOMAIN part = 1..Len(part) BY <1>2, LenProperties
    <3> QED BY <1>2, <2>5, <3>1 DEF Kept
  <2> DEFINE moved == [k \in 1..L |-> place[k] + offset]
  <2>8. moved \in [1..L -> Kept(text)] BY <1>1, <2>5, KeptShift
  <2>9. \A k, l \in 1..L : k < l => moved[k] < moved[l] BY <2>6, <2>7
  <2> HIDE DEF moved
  <2>10. L <= Cardinality(Kept(text)) /\ Cardinality(Kept(text)) \in Nat
    BY <2>4, <2>8, <2>9, PlacesCount
  <2>11. Cardinality(Kept(text)) > max BY <2>3, <2>4, <2>10
  <2> QED BY <1>7, <1>17, <2>11 DEF IsNormalization, answer
<1> QED BY <1>6, <1>12, <1>13, <1>15, <1>16, <1>17

-----------------------------------------------------------------------------
(* The path of an event *)

\* A message that has been passed on carries a text that was sent, and once the
\* stop-list has let it pass, its text is not among the words that blocked it all along.
Checked ==
  /\ call.pc \in {"contains", "allow", "add"} => call.query \in Texts
  /\ call.pc \in {"allow", "add"} => normalize(call.query) \notin call.blocked

\* Every stop word is a normal form.
WordsNormal == \A word \in words : IsNormal(word)

IInv == TypeOK /\ Checked /\ WordsNormal

LEMMA NoMessageType ==
  ASSUME NEW set
  PROVE  /\ NoMessage \in [pc : {"idle", "contains", "allow", "add", "returned"},
                           query : Texts \cup {<<>>}, blocked : SUBSET set]
         /\ [NoMessage EXCEPT !.pc = "returned"] =
              [pc |-> "returned", query |-> <<>>, blocked |-> {}]
         /\ [NoMessage EXCEPT !.pc = "returned"] \in
              [pc : {"idle", "contains", "allow", "add", "returned"},
               query : Texts \cup {<<>>}, blocked : SUBSET set]
<1>1. <<>> \in Texts \cup {<<>>} OBVIOUS
<1>2. NoMessage \in [pc : {"idle", "contains", "allow", "add", "returned"},
                    query : Texts \cup {<<>>}, blocked : SUBSET set]
  BY <1>1 DEF NoMessage
<1>3. NoMessage.query = <<>> /\ NoMessage.blocked = {} BY DEF NoMessage
<1>4. [NoMessage EXCEPT !.pc = "returned"] =
        [pc |-> "returned", query |-> NoMessage.query, blocked |-> NoMessage.blocked]
  BY <1>2
<1> QED BY <1>1, <1>2, <1>3, <1>4

\* The word a request stands for.
LEMMA StopWordNormal ==
  ASSUME NEW request \in WordRequests, StopWord(request).err = "none"
  PROVE  /\ IsNormal(StopWord(request).text)
         /\ Len(StopWord(request).text) <= MaxWordRunes
<1> DEFINE validated == NormalizeQuery(TrimSpace(request), MaxWordRunes)
<1>1. TrimSpace(request) \in Seq(Runes) /\ MaxWordRunes \in Nat
  BY PipelineAssumption, TrimType
<1>2. validated.err = "none" BY DEF StopWord
<1>3. IsNormal(validated.text) /\ Len(validated.text) <= MaxWordRunes
  BY <1>1, <1>2, QueryNormal
<1>4. normalize(validated.text) = validated.text BY <1>3, StopFixed
<1>5. StopWord(request) = Normal(normalize(validated.text)) BY <1>2 DEF StopWord
<1> HIDE DEF validated
<1> QED BY <1>3, <1>4, <1>5 DEF Normal

LEMMA InitIInv == Init => IInv
<1>1. SUFFICES ASSUME Init PROVE IInv OBVIOUS
<1>2. WordsNormal
  <2>1. SUFFICES ASSUME NEW word \in words PROVE IsNormal(word) BY DEF WordsNormal
  <2>2. PICK text \in InitialWords : word = normalize(text) BY <1>1 DEF Init
  <2>3. word # <<>> BY <1>1 DEF Init
  <2>4. text \in Seq(Runes) BY PipelineAssumption
  <2> QED BY <2>2, <2>3, <2>4, StopNormal
<1>3. words \subseteq Seq(Runes) BY <1>2, NormalTrimmed DEF WordsNormal
<1>4. TypeOK BY <1>1, <1>3, NoMessageType DEF Init, TypeOK
<1>5. Checked BY <1>1 DEF Init, Checked, NoMessage
<1> QED BY <1>2, <1>4, <1>5 DEF IInv

LEMMA NextIInv == IInv /\ [Next]_vars => IInv'
<1> SUFFICES ASSUME IInv, [Next]_vars PROVE IInv' OBVIOUS
<1> DEFINE Calls(set) == [pc : {"idle", "contains", "allow", "add", "returned"},
                          query : Texts \cup {<<>>}, blocked : SUBSET set]
<1>0. /\ words \subseteq Seq(Runes) /\ call \in Calls(words)
      /\ recent \subseteq Forms /\ older \subseteq Forms /\ top \subseteq Forms
      /\ cancelled \in BOOLEAN
  BY DEF IInv, TypeOK
<1>1. ASSUME NEW query \in Texts, NEW fault \in Faults, Decode(query, fault) PROVE IInv'
  <2>1. UNCHANGED <<words, recent, older, top, cancelled>> BY <1>1 DEF Decode
  <2>2. call' \in Calls(words) /\ Checked'
    <3>1. CASE Rejected(query, fault)
      <4>1. call' = NoMessage BY <1>1, <3>1 DEF Decode
      <4>2. call' \in Calls(words) BY <4>1, NoMessageType
      <4>3. Checked' BY <4>1 DEF Checked, NoMessage
      <4> QED BY <4>2, <4>3
    <3>2. CASE ~Rejected(query, fault)
      <4>1. call' = [pc |-> "contains", query |-> query, blocked |-> words]
        BY <1>1, <3>2 DEF Decode
      <4> QED BY <4>1 DEF Checked
    <3> QED BY <3>1, <3>2
  <2> QED BY <1>0, <2>1, <2>2 DEF IInv, TypeOK, WordsNormal
<1>2. CASE Contains
  <2>1. UNCHANGED <<words, recent, older, top, cancelled>> BY <1>2 DEF Contains
  <2>2. call' \in Calls(words) /\ Checked'
    <3>1. CASE normalize(call.query) \in words
      <4>1. call' = NoMessage BY <1>2, <3>1 DEF Contains
      <4>2. call' \in Calls(words) BY <4>1, NoMessageType
      <4>3. Checked' BY <4>1 DEF Checked, NoMessage
      <4> QED BY <4>2, <4>3
    <3>2. CASE normalize(call.query) \notin words
      <4>1. call' = [call EXCEPT !.pc = "allow"] BY <1>2, <3>2 DEF Contains
      <4>2. call' = [pc |-> "allow", query |-> call.query, blocked |-> call.blocked]
        BY <1>0, <4>1
      <4>3. call.query \in Texts BY <1>2 DEF IInv, Checked, Contains
      <4>4. call.blocked \subseteq words BY <1>0
      <4>5. normalize(call.query) \notin call.blocked BY <3>2, <4>4
      <4>6. call' \in Calls(words) BY <4>2, <4>3, <4>4
      <4> QED BY <4>2, <4>3, <4>5, <4>6 DEF Checked
    <3> QED BY <3>1, <3>2
  <2> QED BY <1>0, <2>1, <2>2 DEF IInv, TypeOK, WordsNormal
<1>3. CASE Allow
  <2>1. UNCHANGED <<words, recent, older, top, cancelled>> BY <1>3 DEF Allow
  <2>2. call' \in Calls(words) /\ Checked'
    <3>1. CASE cancelled
      <4>1. call' = [NoMessage EXCEPT !.pc = "returned"] BY <1>3, <3>1 DEF Allow, Abort
      <4>2. call' \in Calls(words) BY <4>1, NoMessageType
      <4>3. call'.pc = "returned" BY <4>1, NoMessageType
      <4> QED BY <4>2, <4>3 DEF Checked
    <3>2. CASE ~cancelled
      <4>1. call' = [call EXCEPT !.pc = "add"] BY <1>3, <3>2 DEF Allow
      <4>2. call' = [pc |-> "add", query |-> call.query, blocked |-> call.blocked]
        BY <1>0, <4>1
      <4>3. call.query \in Texts /\ normalize(call.query) \notin call.blocked
        BY <1>3 DEF IInv, Checked, Allow
      <4>4. call.blocked \subseteq words BY <1>0
      <4>5. call' \in Calls(words) BY <4>2, <4>3, <4>4
      <4> QED BY <4>2, <4>3, <4>5 DEF Checked
    <3> QED BY <3>1, <3>2
  <2> QED BY <1>0, <2>1, <2>2 DEF IInv, TypeOK, WordsNormal
<1>4. ASSUME NEW time \in {"current", "expired", "invalid"}, Add(time) PROVE IInv'
  <2> DEFINE normalized == NormalizeQuery(call.query, MaxQueryRunes)
  <2>1. UNCHANGED <<words, older, top, cancelled>> BY <1>4 DEF Add
  <2>2. call' \in Calls(words) /\ Checked'
    <3>1. call' = NoMessage \/ call' = [NoMessage EXCEPT !.pc = "returned"]
      BY <1>4 DEF Add, Abort
    <3>2. call' \in Calls(words) BY <3>1, NoMessageType
    <3>3. call'.pc \in {"idle", "returned"} BY <3>1, NoMessageType DEF NoMessage
    <3> QED BY <3>2, <3>3 DEF Checked
  <2>3. recent' \subseteq Forms
    <3>1. call.query \in Texts BY <1>4 DEF IInv, Checked, Add
    <3>2. normalized.err = "none" => normalized.text \in Forms BY <3>1 DEF Forms
    <3>3. recent' = recent \/ (normalized.err = "none" /\ recent' = recent \cup {normalized.text})
      BY <1>4 DEF Add, Accepted
    <3> QED BY <1>0, <3>2, <3>3
  <2> QED BY <1>0, <2>1, <2>2, <2>3 DEF IInv, TypeOK, WordsNormal
<1>5. ASSUME NEW request \in WordRequests, AddStopWord(request) PROVE IInv'
  <2> DEFINE word == StopWord(request)
  <2>1. word.err = "none" /\ words' = words \cup {word.text} BY <1>5 DEF AddStopWord
  <2>2. UNCHANGED <<call, recent, older, top, cancelled>> BY <1>5 DEF AddStopWord
  <2>3. IsNormal(word.text) BY <2>1, StopWordNormal
  <2> HIDE DEF word
  <2>4. WordsNormal' BY <2>1, <2>3 DEF IInv, WordsNormal
  <2>5. words' \subseteq Seq(Runes) BY <1>0, <2>1, <2>3, NormalTrimmed
  <2>6. call' \in Calls(words')
    <3>1. words \subseteq words' BY <2>1
    <3> QED BY <1>0, <2>2, <3>1
  <2>7. Checked' BY <2>2 DEF IInv, Checked
  <2> QED BY <1>0, <2>2, <2>4, <2>5, <2>6, <2>7 DEF IInv, TypeOK
<1>6. ASSUME NEW request \in WordRequests, RemoveStopWord(request) PROVE IInv'
  <2> DEFINE word == StopWord(request)
  <2>1. /\ words' = words \ {word.text}
        /\ call' = [call EXCEPT !.blocked = @ \ {word.text}]
        /\ UNCHANGED <<recent, older, top, cancelled>>
    BY <1>6 DEF RemoveStopWord
  <2> HIDE DEF word
  <2>2. call' = [pc |-> call.pc, query |-> call.query, blocked |-> call.blocked \ {word.text}]
    BY <1>0, <2>1
  <2>3. call' \in Calls(words')
    <3>1. call.blocked \ {word.text} \subseteq words' BY <1>0, <2>1
    <3>2. /\ call.pc \in {"idle", "contains", "allow", "add", "returned"}
          /\ call.query \in Texts \cup {<<>>}
      BY <1>0
    <3> QED BY <2>2, <3>1, <3>2
  <2>4. Checked' BY <2>2 DEF IInv, Checked
  <2>5. WordsNormal' BY <2>1 DEF IInv, WordsNormal
  <2>6. words' \subseteq Seq(Runes) BY <1>0, <2>1
  <2> QED BY <1>0, <2>1, <2>3, <2>4, <2>5, <2>6 DEF IInv, TypeOK
<1>7. CASE Slide BY <1>0, <1>7 DEF Slide, IInv, TypeOK, Checked, WordsNormal
<1>8. CASE RebuildTop BY <1>0, <1>8 DEF RebuildTop, IInv, TypeOK, Checked, WordsNormal
<1>9. CASE Cancel BY <1>0, <1>9 DEF Cancel, IInv, TypeOK, Checked, WordsNormal
<1>10. CASE UNCHANGED vars BY <1>10 DEF vars, IInv, TypeOK, Checked, WordsNormal
<1> QED BY <1>1, <1>2, <1>3, <1>4, <1>5, <1>6, <1>7, <1>8, <1>9, <1>10
        DEF Next, HandleMessage

LEMMA IInvariant == Spec => []IInv
BY InitIInv, NextIInv, PTL DEF Spec

\* What the handler works on has the right shape, for every set of texts and requests:
\* what is counted and listed is always the normal form of a query that was sent, and
\* the words that blocked a message all along are in the stop-list
\* (main.go:93-124, aggregator.go:112-139).
THEOREM TypeCorrect == Spec => []TypeOK
BY IInvariant, PTL DEF IInv

\* If no query contains a control character that is a space, a query that is blocked all
\* the time from the receipt of its message on is not counted: both packages give
\* it the same normal form (main.go:94-115, stoplist.go:114-141, normalizer.go:17-66).
\* The run pipeline_tab shows that the condition is needed.
THEOREM BlockedNeverCounted ==
  ASSUME \A text \in Texts : \A i \in 1..Len(text) : text[i] # "tab"
  PROVE  Spec => BlockedIsNotCounted
<1>1. IInv /\ [Next]_vars => [(recent' \ recent) \cap call.blocked = {}]_vars
  <2> SUFFICES ASSUME IInv, Next PROVE (recent' \ recent) \cap call.blocked = {}
    OBVIOUS
  <2>1. ASSUME NEW time \in {"current", "expired", "invalid"}, Add(time)
        PROVE  (recent' \ recent) \cap call.blocked = {}
    <3> DEFINE normalized == NormalizeQuery(call.query, MaxQueryRunes)
    <3>1. call.query \in Texts /\ normalize(call.query) \notin call.blocked
      BY <2>1 DEF IInv, Checked, Add
    <3>2. call.query \in Seq(Runes) /\ MaxQueryRunes \in Nat BY <3>1, PipelineAssumption
    <3>3. normalized.err = "none" => normalized.text = normalize(call.query)
      BY <3>1, <3>2, Agreement
    <3>4. recent' = recent \/ (normalized.err = "none" /\ recent' = recent \cup {normalized.text})
      BY <2>1 DEF Add, Accepted
    <3> HIDE DEF normalized
    <3> QED BY <3>1, <3>3, <3>4
  <2>2. ASSUME NEW query \in Texts, NEW fault \in Faults, Decode(query, fault)
        PROVE  recent' = recent
    BY <2>2 DEF Decode
  <2>3. ASSUME NEW request \in WordRequests, AddStopWord(request) \/ RemoveStopWord(request)
        PROVE  recent' = recent
    BY <2>3 DEF AddStopWord, RemoveStopWord
  <2>4. Contains \/ Allow \/ RebuildTop \/ Cancel => recent' = recent
    BY DEF Contains, Allow, RebuildTop, Cancel
  <2>5. Slide => recent' = {} BY DEF Slide
  <2> QED BY <2>1, <2>2, <2>3, <2>4, <2>5 DEF Next, HandleMessage
<1> QED BY <1>1, IInvariant, PTL DEF Spec, BlockedIsNotCounted

\* Only a word of the configuration is longer than a request may make it.
WordsShort ==
  \A word \in words :
    Len(word) <= MaxWordRunes \/ word \in {normalize(initial) : initial \in InitialWords}

\* A normal form that is too long is refused as that.
LEMMA LongRefused ==
  ASSUME NEW form, IsNormal(form), NEW max \in Nat, Len(form) > max
  PROVE  NormalizeQuery(form, max) = Failed("tooLong")
<1> DEFINE answer == NormalizeQuery(form, max)
<1>1. /\ form \in Seq(Runes) /\ Len(form) \in Nat \ {0}
      /\ \A i \in 1..Len(form) : form[i] \in PlainRunes
  BY NormalTrimmed, PlainTexts DEF IsNormal
<1>2. IsNormalization(answer, form, max) BY <1>1, NormalizeQueryIsRight
<1>3. \/ answer = Failed("empty") \/ answer = Failed("tooLong")
      \/ answer.err = "none"
  BY DEF NormalizeQuery, Normal, Failed
<1>4. answer.err # "none"
  <2> SUFFICES ASSUME answer.err = "none" PROVE FALSE OBVIOUS
  <2>1. \A i \in 1..Len(form) : form[i] # "tab" BY <1>1 DEF PlainRunes
  <2>2. normalize(form) = answer.text BY <1>1, <2>1, Agreement
  <2>3. answer.text = form BY <2>2, StopFixed
  <2>4. Len(answer.text) \in 1..max BY <1>2 DEF IsNormalization
  <2> QED BY <1>1, <2>3, <2>4
<1>5. answer # Failed("empty")
  <2> SUFFICES ASSUME answer = Failed("empty") PROVE FALSE OBVIOUS
  <2>1. answer.err = "empty" BY DEF Failed
  <2>2. Kept(form) = {} BY <1>2, <2>1 DEF IsNormalization
  <2>3. 1 \in DOMAIN form /\ IsLetter(form[1])
    BY <1>1 DEF IsNormal, PlainRunes, IsLetter, IsSpace, IsControl
  <2> QED BY <2>2, <2>3 DEF Kept
<1> QED BY <1>3, <1>4, <1>5

\* Every stop word is at all times a fixed point of both normalizations, so that a query
\* can match it and a request can remove it, but for a word of the configuration that is
\* too long for a request (search_trends.go:180-196, stoplist.go:94-141).
THEOREM StopWordsFixed == Spec => []StopWordsMatchable
<1>1. Init => WordsShort BY DEF Init, WordsShort
<1>2. WordsShort /\ [Next]_vars => WordsShort'
  <2> SUFFICES ASSUME WordsShort, [Next]_vars PROVE WordsShort' OBVIOUS
  <2>1. ASSUME NEW request \in WordRequests, AddStopWord(request) PROVE WordsShort'
    <3>1. StopWord(request).err = "none" /\ words' = words \cup {StopWord(request).text}
      BY <2>1 DEF AddStopWord
    <3>2. Len(StopWord(request).text) <= MaxWordRunes BY <3>1, StopWordNormal
    <3> QED BY <3>1, <3>2 DEF WordsShort
  <2>2. ASSUME NEW request \in WordRequests, RemoveStopWord(request) PROVE WordsShort'
    BY <2>2 DEF RemoveStopWord, WordsShort
  <2>3. ASSUME NEW query \in Texts, NEW fault \in Faults, Decode(query, fault)
        PROVE  words' = words
    BY <2>3 DEF Decode
  <2>4. ASSUME NEW time \in {"current", "expired", "invalid"}, Add(time) PROVE words' = words
    BY <2>4 DEF Add
  <2>5. Contains \/ Allow \/ Slide \/ RebuildTop \/ Cancel \/ UNCHANGED vars => words' = words
    BY DEF Contains, Allow, Slide, RebuildTop, Cancel, vars
  <2>6. words' = words => WordsShort' BY DEF WordsShort
  <2> QED BY <2>1, <2>2, <2>3, <2>4, <2>5, <2>6 DEF Next, HandleMessage
<1>3. IInv /\ WordsShort => StopWordsMatchable
  <2> SUFFICES ASSUME IInv, WordsShort, NEW word \in words
               PROVE  /\ normalize(word) = word
                      /\ \/ NormalizeQuery(word, MaxWordRunes) = Normal(word)
                         \/ /\ NormalizeQuery(word, MaxWordRunes) = Failed("tooLong")
                            /\ word \in {normalize(initial) : initial \in InitialWords}
    BY DEF StopWordsMatchable
  <2>1. IsNormal(word) /\ MaxWordRunes \in Nat /\ Len(word) \in Nat
    BY PipelineAssumption, NormalTrimmed DEF IInv, WordsNormal
  <2>2. normalize(word) = word BY <2>1, StopFixed
  <2>3. CASE Len(word) <= MaxWordRunes
    BY <2>1, <2>2, <2>3, QueryFixed
  <2>4. CASE Len(word) > MaxWordRunes
    <3>1. NormalizeQuery(word, MaxWordRunes) = Failed("tooLong") BY <2>1, <2>4, LongRefused
    <3>2. word \in {normalize(initial) : initial \in InitialWords}
      BY <2>1, <2>4 DEF WordsShort
    <3> QED BY <2>2, <3>1, <3>2
  <2> QED BY <2>1, <2>3, <2>4
<1> QED BY <1>1, <1>2, <1>3, IInvariant, PTL DEF Spec

\* Whatever text reaches the handler, NormalizeQuery gives the right answer to it
\* (normalizer.go:17-66, main.go:93-124).
THEOREM NormalizesRightAlways == Spec => []NormalizesRight
<1>1. IInv => NormalizesRight
  <2> SUFFICES ASSUME IInv, call.pc # "idle", call.pc # "returned"
               PROVE  IsNormalization(NormalizeQuery(call.query, MaxQueryRunes),
                                      call.query, MaxQueryRunes)
    BY DEF NormalizesRight
  <2>1. call.pc \in {"contains", "allow", "add"} BY DEF IInv, TypeOK
  <2>2. call.query \in Texts BY <2>1 DEF IInv, Checked
  <2>3. call.query \in Seq(Runes) /\ MaxQueryRunes \in Nat BY <2>2, PipelineAssumption
  <2> QED BY <2>3, NormalizeQueryIsRight
<1> QED BY <1>1, IInvariant, PTL

=============================================================================
