---------------------------- MODULE MCAggregator ----------------------------
(* Aggregator on small instances. *)
EXTENDS Aggregator

\* Two spellings of one query, others, and one that is empty when normalized.
MCRawQueries == {"a", " A", "b", "c", "  "}

MCNormalizedOf(raw) ==
  CASE raw \in {"a", " A"} -> 1
    [] raw = "b" -> 2
    [] raw = "c" -> 3
    [] OTHER -> NoQuery

\* Only the first n queries are known; the text of any other is too long.
MCNormalized ==
  [raw \in MCRawQueries |->
     IF MCNormalizedOf(raw) \in Queries THEN MCNormalizedOf(raw) ELSE NoQuery]

MCFewLags == {0, 1, 3}
MCForward == {1}

=============================================================================
