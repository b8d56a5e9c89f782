----------------------------- MODULE Normalizer -----------------------------
(***************************************************************************)
(* The two normalizations of query texts: NormalizeQuery of package        *)
(* aggregator, applied to a query before it is counted and to a stop word  *)
(* before it is stored, and normalize of package stoplist, applied before  *)
(* a text is looked up in the stop-list.                                   *)
(*                                                                         *)
(* A text is a sequence of runes, and a rune is a representative of what   *)
(* the functions tell apart: a letter in two cases, another letter, a      *)
(* space, a control character that is a space too (a tab, a line feed) and *)
(* a control character that is not.                                        *)
(***************************************************************************)
EXTENDS Integers, Sequences, FiniteSets, FiniteSetsExt

Runes == {"a", "A", "b", "space", "tab", "nul"}

IsSpace(r) == r \in {"space", "tab"}

IsControl(r) == r \in {"tab", "nul"}

ToLower(r) == IF r = "A" THEN "a" ELSE r

TrimSpace(text) ==
  LET solid == {i \in DOMAIN text : ~IsSpace(text[i])}
  IN  IF solid = {} THEN <<>> ELSE SubSeq(text, Min(solid), Max(solid))

\* What the loops of the two functions carry along.
NewBuilder == [out |-> <<>>, previousWasSpace |-> FALSE, tooLong |-> FALSE]

WriteSpace(builder) ==
  IF builder.out = <<>> \/ builder.previousWasSpace THEN builder
  ELSE [builder EXCEPT !.out = Append(@, "space"), !.previousWasSpace = TRUE]

WriteRune(builder, r) ==
  [builder EXCEPT !.out = Append(@, ToLower(r)), !.previousWasSpace = FALSE]

Normal(text) == [err |-> "none", text |-> text]
Failed(err) == [err |-> err, text |-> <<>>]

\* One rune of NormalizeQuery; after the error the rest of the loop is skipped.
QueryRune(builder, r, maxRunes) ==
  LET written == WriteRune(builder, r)
  IN  IF builder.tooLong THEN builder
      ELSE IF IsSpace(r) THEN WriteSpace(builder)
      ELSE IF IsControl(r) THEN builder
      ELSE [written EXCEPT !.tooLong = Len(written.out) > maxRunes]

\* The loop of NormalizeQuery.
QueryLoop(text, maxRunes) ==
  LET built[n \in 0..Len(text)] ==
        IF n = 0 THEN NewBuilder ELSE QueryRune(built[n - 1], text[n], maxRunes)
  IN  built[Len(text)]

\* Fault: the space before trailing control characters is left in place.
NormalizeQueryUntrimmed(query, maxRunes) ==
  LET builder == QueryLoop(TrimSpace(query), maxRunes)
  IN  IF builder.tooLong THEN Failed("tooLong")
      ELSE IF builder.out = <<>> THEN Failed("empty")
      ELSE Normal(builder.out)

\* maxRunes is positive: anything else is replaced by a default.
NormalizeQuery(query, maxRunes) ==
  LET trimmed    == TrimSpace(query)
      builder    == QueryLoop(trimmed, maxRunes)
      normalized == TrimSpace(builder.out)
  IN  IF trimmed = <<>> THEN Failed("empty")
      ELSE IF builder.tooLong THEN Failed("tooLong")
      ELSE IF normalized = <<>> THEN Failed("empty")
      ELSE IF Len(normalized) > maxRunes THEN Failed("tooLong")
      ELSE Normal(normalized)

\* Fault: the case and the spaces inside a text are left alone.
normalizeTrimOnly(word) == TrimSpace(word)

\* One rune of normalize, which looks for control characters first.
StopRune(builder, r) ==
  IF IsControl(r) THEN builder
  ELSE IF IsSpace(r) THEN WriteSpace(builder)
  ELSE WriteRune(builder, r)

\* The loop of normalize.
StopLoop(text) ==
  LET built[n \in 0..Len(text)] ==
        IF n = 0 THEN NewBuilder ELSE StopRune(built[n - 1], text[n])
  IN  built[Len(text)]

\* normalize of the stop-list.
normalize(word) == TrimSpace(StopLoop(TrimSpace(word)).out)

-----------------------------------------------------------------------------
(* What a normal form is, without saying how it is computed. *)

IsLetter(r) == ~IsSpace(r) /\ ~IsControl(r)

\* The i-th rune is the first space after a letter, and another letter follows.
IsGap(text, i) ==
  /\ IsSpace(text[i])
  /\ \E j \in 1..(i - 1) :
       IsLetter(text[j]) /\ \A k \in (j + 1)..(i - 1) : ~IsLetter(text[k]) /\ ~IsSpace(text[k])
  /\ \E j \in (i + 1)..Len(text) : IsLetter(text[j])

\* What a normal form keeps of a text: its letters and one space between two of them.
Kept(text) == {i \in DOMAIN text : IsLetter(text[i]) \/ IsGap(text, i)}

\* What is kept, in order, in lower case and with a plain space for every gap.
IsNormalFormOf(form, text) ==
  \E place \in [DOMAIN form -> Kept(text)] :
    /\ \A i \in Kept(text) : \E k \in DOMAIN form : place[k] = i
    /\ \A k, l \in DOMAIN form : k < l => place[k] < place[l]
    /\ \A k \in DOMAIN form :
         form[k] = IF IsSpace(text[place[k]]) THEN "space" ELSE ToLower(text[place[k]])

\* What NormalizeQuery has to answer.
IsNormalization(result, query, maxRunes) ==
  CASE result.err = "none"    -> /\ IsNormalFormOf(result.text, query)
                                 /\ Len(result.text) \in 1..maxRunes
    [] result.err = "empty"   -> Kept(query) = {}
    [] result.err = "tooLong" -> Cardinality(Kept(query)) > maxRunes

=============================================================================
