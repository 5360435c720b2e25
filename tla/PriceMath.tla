----------------------------- MODULE PriceMath -----------------------------
(***************************************************************************)
(* The pricing arithmetic of internal/service/price_groups.go:             *)
(*   getPriceTableRange          locate the source range of an amount      *)
(*   getRecommendedPriceForRegion  map the position into a region's table  *)
(*                               and interpolate inside it                 *)
(*   CalculatePriceWithFraction  the "fraction" psychological rounding     *)
(*                                                                         *)
(* All money is in cents.  Table bounds and request amounts are integers;  *)
(* an interpolated price is an exact rational [num |-> n, den |-> d],      *)
(* meaning n/d cents.  The float64 arithmetic of the code is exact on      *)
(* these inputs except where the code formats with "%.2f": a value lying   *)
(* exactly on a half cent is stored as a binary double that may fall on    *)
(* either side, so that conversion yields both roundings (a set).          *)
(* Fraction codes are in cents as well: 0.05 is 5, 0.95 is 95, and so on.  *)
(***************************************************************************)
EXTENDS Integers, Sequences, FiniteSets

CONSTANT Panic   \* result of an index out of range: the Go runtime panics

\* A price table range (billing.PriceTableRange).
RangeRec(f, t, p) == [from |-> f, to |-> t, position |-> p]

\* math.Ceil of a quotient of integers, b > 0 (TLA+ \div is floor division).
CeilDiv(a, b) == -((-a) \div b)

\* A rational number of cents.
Rat(n, d) == [num |-> n, den |-> d]

(***************************************************************************)
(* getPriceTableRange: the first range with From < amount <= To; when none *)
(* matches, a virtual range of the last range's width, "step" widths past  *)
(* the last range.  pt.Ranges[len-1] on an empty table panics.             *)
(***************************************************************************)
\* Variant whose bracket test excludes the upper bound (To > amount).
GetPriceTableRangeOpenTo(pt, amount) ==
    LET hits == {k \in 1..Len(pt) : pt[k].from < amount /\ pt[k].to > amount}
    IN  IF hits # {}
        THEN LET k == CHOOSE k \in hits : \A j \in hits : k <= j
             IN  RangeRec(pt[k].from, pt[k].to, pt[k].position)
        ELSE IF Len(pt) = 0 THEN Panic
        ELSE LET item  == pt[Len(pt)]
                 delta == item.to - item.from
                 step  == CeilDiv(amount - item.to, delta)
             IN  RangeRec(item.from + delta * step, item.to + delta * step,
                          Len(pt) + step - 1)

GetPriceTableRange(pt, amount) ==
    LET hits == {k \in 1..Len(pt) : pt[k].from < amount /\ pt[k].to >= amount}
    IN  IF hits # {}
        THEN LET k == CHOOSE k \in hits : \A j \in hits : k <= j
             IN  RangeRec(pt[k].from, pt[k].to, pt[k].position)
        ELSE IF Len(pt) = 0 THEN Panic
        ELSE LET item  == pt[Len(pt)]
                 delta == item.to - item.from
                 step  == CeilDiv(amount - item.to, delta)
             IN  RangeRec(item.from + delta * step, item.to + delta * step,
                          Len(pt) + step - 1)

(***************************************************************************)
(* The region range of getRecommendedPriceForRegion: the range at the same *)
(* position in the region's table, or past its end a virtual range         *)
(* anchored on the table's last range.  Indexing Ranges with a negative    *)
(* position, or the last range of an empty table, panics.                  *)
(***************************************************************************)
RegionRange(table, rng) ==
    IF rng.position >= Len(table)
    THEN IF Len(table) = 0 THEN Panic
         ELSE LET item  == table[Len(table)]
                  delta == item.to - item.from
                  step  == rng.position - item.position
              IN  RangeRec(item.from + delta * step,
                           item.from + delta * step + delta, rng.position)
    ELSE IF rng.position < 0 THEN Panic
    ELSE RangeRec(table[rng.position + 1].from, table[rng.position + 1].to,
                  rng.position)

(***************************************************************************)
(* ratio = (rng.To - amount) / (rng.To - rng.From), with 0 and 1 swapped,  *)
(* and price = regionRange.From + (regionRange.To - regionRange.From) *    *)
(* ratio, as an exact rational with the source width as denominator.      *)
(***************************************************************************)
Interpolate(rng, regionRange, amount) ==
    LET den  == rng.to - rng.from
        raw  == rng.to - amount
        rnum == IF raw = 0 THEN den ELSE IF raw = den THEN 0 ELSE raw
    IN  Rat(regionRange.from * den + (regionRange.to - regionRange.from) * rnum,
            den)

(***************************************************************************)
(* math.Modf of a non-negative price: the whole units, and the fractional  *)
(* part after strconv.ParseFloat(fmt.Sprintf("%.2f", frac)), in cents      *)
(* (0..100; 100 when the fraction rounds up to "1.00").                    *)
(***************************************************************************)
IntPart(p) == p.num \div (100 * p.den)

FracCents(p) ==
    LET rem == p.num - IntPart(p) * 100 * p.den
        q   == rem \div p.den
        r   == rem % p.den
    IN  IF 2 * r < p.den THEN {q}
        ELSE IF 2 * r > p.den THEN {q + 1}
        ELSE {q, q + 1}

(***************************************************************************)
(* CalculatePriceWithFraction, in cents, for one value of the formatted    *)
(* fractional part fc.                                                     *)
(***************************************************************************)
\* Variant that moves a fraction of exactly .95 to the next unit.
PriceWithFractionGe95(fraction, p, fc) ==
    LET i == IntPart(p) IN
    CASE fraction \in {5, 50} -> 100 * i + CeilDiv(fc, fraction) * fraction
      [] fraction = 95        -> 100 * (IF fc >= 95 THEN i + 1 ELSE i) + 95
      [] fraction = 9         -> 100 * i + (fc \div 10) * 10 + 9
      [] fraction = 0         -> 100 * CeilDiv(p.num, 100 * p.den)
      [] OTHER                -> 100 * i

PriceWithFraction(fraction, p, fc) ==
    LET i == IntPart(p) IN
    CASE fraction \in {5, 50} -> 100 * i + CeilDiv(fc, fraction) * fraction
      [] fraction = 95        -> 100 * (IF fc > 95 THEN i + 1 ELSE i) + 95
      [] fraction = 9         -> 100 * i + (fc \div 10) * 10 + 9
      [] fraction = 0         -> 100 * CeilDiv(p.num, 100 * p.den)
      [] OTHER                -> 100 * i

\* Every value CalculatePriceWithFraction can return for price p.
CalculatePriceWithFraction(fraction, p) ==
    {PriceWithFraction(fraction, p, fc) : fc \in FracCents(p)}

=============================================================================
