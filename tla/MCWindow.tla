------------------------------ MODULE MCWindow ------------------------------
(* WindowHistory on small instances. *)
EXTENDS WindowHistory, TLC

MCNormalized == [raw \in RawQueries |-> raw]

\* Events of the last Window of seconds, whatever the phase of the clock, for
\* seconds of two ticks and a window of four.
MCPunctual == {0, 1, 2}
MCAnyLag == {-3} \cup -1..5
MCEdgeLags == {-2, 0, 2, 4}
MCNoLag == {0}
MCForward == {1}
MCBackAndForth == {-1, 1}

AdderSymmetry == Permutations(Adders)

=============================================================================
