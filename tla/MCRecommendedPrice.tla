------------------------- MODULE MCRecommendedPrice -------------------------
(***************************************************************************)
(* Model values and bounds for RecommendedPrice.  Three tables in cents:   *)
(*   TableA  ranges of unequal widths (99, 100, 300), so the virtual-range *)
(*           arithmetic and the position map disagree on widths;          *)
(*   TableB  two ranges of width 75;                                       *)
(*   TableC  one range of width 40 (half-cent ties in the interpolation).  *)
(* Amounts fall inside a range, on a boundary and past the last range of  *)
(* each table.                                                             *)
(***************************************************************************)
EXTENDS RecommendedPrice

CONSTANTS R1, R2

MCRegions == {R1, R2}

TableA == << RangeRec(0, 99, 0), RangeRec(99, 199, 1), RangeRec(199, 499, 2) >>
TableB == << RangeRec(0, 75, 0), RangeRec(75, 150, 1) >>
TableC == << RangeRec(0, 40, 0) >>

MCTables == {TableA, TableB, TableC}
\* A stored table with no ranges, which the specification calls InvalidTable
\* (7) and getPriceTableRange indexes at len-1 (price_groups.go:231).
MCTablesWithEmpty == MCTables \cup {<< >>}

\* Amounts in cents: inside, on an upper boundary, and past the end.
MCAmounts == {37, 99, 150, 420, 700}

\* Amounts at or below the first range's lower bound.
MCAmountsLow == {0}

\* 0.05, 0.5, 0.95, 0.09, 0 and an unsupported code (0.1).
MCFractions == {0, 5, 9, 50, 95, 10}

\* Currency-service results in cents: whole, exactly x.95, a half-cent tie,
\* x.996.
MCConverted == {Rat(1234, 1), Rat(1295, 1), Rat(19995, 10), Rat(12996, 10)}

====
