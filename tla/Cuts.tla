-------------------------------- MODULE Cuts --------------------------------
(***************************************************************************)
(* Where a text is cut: what a loop over find() or std::getline() finds,   *)
(* from delimiter to delimiter (Server's read handler, SplitString).       *)
(***************************************************************************)
EXTENDS Naturals, FiniteSets

\* The k-th of some positions, in their order; the 0-th is before the first.
Nth(positions, k) ==
    CHOOSE i \in positions \cup {0} : Cardinality({j \in positions : j <= i}) = k
=============================================================================
