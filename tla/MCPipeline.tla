----------------------------- MODULE MCPipeline -----------------------------
(* Pipeline on small instances: all short texts with few normal forms. *)
EXTENDS Pipeline

MCMaxRunes == 3

ShortTexts(runes) == UNION {[1..n -> runes] : n \in 0..3}

TooLong == <<"a", "space", "A", "a">>
LongWithControl == <<"a", "space", "A", "space", "nul">>

\* Texts without letters, or with one of two normal forms.
OfFewForms(texts) ==
  {text \in texts :
     NormalizeQuery(text, MCMaxRunes).text \in {<<>>, <<"a">>, <<"a", "space", "a">>}}

MCTexts == OfFewForms(ShortTexts({"a", "A", "space", "nul"})) \cup {TooLong, LongWithControl}

MCTabTexts == OfFewForms(ShortTexts({"a", "space", "tab"}))

MCWordRequests == {<<"A">>, <<"space", "a", "space", "nul", "space", "A">>, <<"nul">>}

\* The last one is longer than a request may be.
MCInitialWords == {<<"a", "space">>, <<"space">>, <<"a", "A", "space", "a">>}

=============================================================================
