-------------------------- MODULE RecommendedPrice --------------------------
(***************************************************************************)
(* The two recommended-price handlers of internal/service/price_groups.go, *)
(* one request at a time:                                                  *)
(*   GetRecommendedPriceByPriceGroup  (strategy "table")                   *)
(*   GetRecommendedPriceByConversion  (strategy "conversion")              *)
(* Both load every active price group (priceGroup.GetAll) and loop over    *)
(* them, appending one RecommendedPrice per group; any error inside the    *)
(* loop ends the whole request with that error.  The loop visits the       *)
(* groups in the order the database returns them, which nothing fixes, so *)
(* the model visits them in every order.                                   *)
(***************************************************************************)
EXTENDS PriceMath, TLC

CONSTANTS
    Regions,        \* price-group regions; a price table is keyed by region
    Source,         \* req.Currency: the key of the source price table
    Amounts,        \* request amounts, in cents
    Fractions,      \* fraction codes a price group may carry (cents)
    TableChoices,   \* price tables the store may hold
    Converted,      \* results the currency service may return (rationals)
    NoTable,        \* the store has no table for a key
    None            \* no source range located yet

ASSUME Source \in Regions

Strategies == {"table", "conversion"}

VARIABLES
    pc,         \* step of the handler
    strategy,   \* which handler serves the request
    amount,     \* req.Amount
    groups,     \* active price groups: region -> fraction
    tables,     \* price table store: region -> table or NoTable
    rng,        \* the source range located by getPriceTableRange
    pending,    \* groups the loop has not visited yet
    response,   \* region -> [raw |-> price before rounding, price |-> cents]
    err         \* which call ended the request with an error

vars == <<pc, strategy, amount, groups, tables, rng, pending, response, err>>

Steps == {"GetAll", "SourceTable", "Regions", "Done", "Failed", "Panicked"}

Init ==
    /\ pc = "GetAll"
    /\ strategy \in Strategies
    /\ amount \in Amounts
    /\ groups \in [Regions -> Fractions]
    /\ tables \in [Regions -> TableChoices \cup {NoTable}]
    /\ rng = None
    /\ pending = Regions
    /\ response = [r \in {} |-> 0]
    /\ err = "none"

\* priceGroup.GetAll fails: "Unable to get price regions".
GetAllFails ==
    /\ pc = "GetAll"
    /\ pc' = "Failed"
    /\ err' = "GetAll"
    /\ UNCHANGED <<strategy, amount, groups, tables, rng, pending, response>>

GetAllOk ==
    /\ pc = "GetAll"
    /\ pc' = IF strategy = "table" THEN "SourceTable" ELSE "Regions"
    /\ UNCHANGED <<strategy, amount, groups, tables, rng, pending, response, err>>

\* Variant that ignores the error of priceTable.GetByRegion.
LoadSourceTableIgnoreErr ==
    /\ pc = "SourceTable"
    /\ IF tables[Source] = NoTable
       THEN /\ pc' = "Regions"
            /\ UNCHANGED <<rng, err>>
       ELSE /\ rng' = GetPriceTableRange(tables[Source], amount)
            /\ pc' = IF rng' = Panic THEN "Panicked" ELSE "Regions"
            /\ UNCHANGED err
    /\ UNCHANGED <<strategy, amount, groups, tables, pending, response>>

\* priceTable.GetByRegion(req.Currency) then getPriceTableRange.
LoadSourceTable ==
    /\ pc = "SourceTable"
    /\ IF tables[Source] = NoTable
       THEN /\ pc' = "Failed"
            /\ err' = "SourceTable"
            /\ UNCHANGED rng
       ELSE /\ rng' = GetPriceTableRange(tables[Source], amount)
            /\ pc' = IF rng' = Panic THEN "Panicked" ELSE "Regions"
            /\ UNCHANGED err
    /\ UNCHANGED <<strategy, amount, groups, tables, pending, response>>

\* getRecommendedPriceForRegion fails: the region has no price table.
RegionTableMissing(r) ==
    /\ pc = "Regions" /\ strategy = "table" /\ r \in pending
    /\ tables[r] = NoTable
    /\ pc' = "Failed"
    /\ err' = "RegionTable"
    /\ UNCHANGED <<strategy, amount, groups, tables, rng, pending, response>>

\* getRecommendedPriceForRegion succeeds (or panics) and the loop appends.
RegionRecommended(r) ==
    /\ pc = "Regions" /\ strategy = "table" /\ r \in pending
    /\ tables[r] # NoTable
    /\ LET rr == RegionRange(tables[r], rng) IN
       IF rr = Panic
       THEN /\ pc' = "Panicked"
            /\ UNCHANGED <<pending, response>>
       ELSE LET raw == Interpolate(rng, rr, amount) IN
            \E p \in CalculatePriceWithFraction(groups[r], raw) :
                /\ response' = response @@ (r :> [raw |-> raw, price |-> p])
                /\ pending' = pending \ {r}
                /\ UNCHANGED pc
    /\ UNCHANGED <<strategy, amount, groups, tables, rng, err>>

\* getPriceInCurrencyByAmount fails: "Unable to get amount for region".
ConversionFails(r) ==
    /\ pc = "Regions" /\ strategy = "conversion" /\ r \in pending
    /\ pc' = "Failed"
    /\ err' = "Conversion"
    /\ UNCHANGED <<strategy, amount, groups, tables, rng, pending, response>>

ConversionOk(r) ==
    /\ pc = "Regions" /\ strategy = "conversion" /\ r \in pending
    /\ \E x \in Converted : \E p \in CalculatePriceWithFraction(groups[r], x) :
          /\ response' = response @@ (r :> [raw |-> x, price |-> p])
          /\ pending' = pending \ {r}
    /\ UNCHANGED <<pc, strategy, amount, groups, tables, rng, err>>

\* The loop is over: the handler returns the response.
Finish ==
    /\ pc = "Regions" /\ pending = {}
    /\ pc' = "Done"
    /\ UNCHANGED <<strategy, amount, groups, tables, rng, pending, response, err>>

\* The request has been answered; nothing more happens.
Terminated ==
    /\ pc \in {"Done", "Failed", "Panicked"}
    /\ UNCHANGED vars

Next ==
    \/ GetAllFails \/ GetAllOk \/ LoadSourceTable \/ Finish
    \/ \E r \in Regions :
          \/ RegionTableMissing(r) \/ RegionRecommended(r)
          \/ ConversionFails(r) \/ ConversionOk(r)
    \/ Terminated

Spec == Init /\ [][Next]_vars

-----------------------------------------------------------------------------
(***************************************************************************)
(* Reference definitions, from the prose of the pricing specification     *)
(* (locate / map_position / interpolate): a range is located by what it    *)
(* contains, not by the code's ceil arithmetic.                            *)
(***************************************************************************)
RatEq(a, b) == a.num * b.den = b.num * a.den

\* The k-th virtual range past the last range of table t (k >= 1).
SpecVirtual(t, k) ==
    LET last == t[Len(t)]  w == last.to - last.from
    IN  RangeRec(last.from + k * w, last.to + k * w, Len(t) - 1 + k)

\* The range, real or virtual, with from < a <= to; the first real one wins.
SpecLocate(t, a) ==
    LET w      == t[Len(t)].to - t[Len(t)].from
        ranges == {t[k] : k \in 1..Len(t)}
                  \cup {SpecVirtual(t, k) : k \in 1..(a \div w + 1)}
        hits   == {v \in ranges : v.from < a /\ a <= v.to}
    IN  CHOOSE v \in hits : \A u \in hits : v.position <= u.position

SpecMapPosition(t, pos) ==
    IF pos < Len(t) THEN t[pos + 1] ELSE SpecVirtual(t, pos - (Len(t) - 1))

SpecInterpolate(src, tgt, a) ==
    LET ratio == (src.to - a)
        flip  == IF ratio = 0 THEN src.to - src.from
                 ELSE IF ratio = src.to - src.from THEN 0 ELSE ratio
    IN  Rat(tgt.from * (src.to - src.from) + (tgt.to - tgt.from) * flip,
            src.to - src.from)

\* The values "%.2f" can make of price x, in cents.
Cents(x) == {100 * IntPart(x) + fc : fc \in FracCents(x)}

-----------------------------------------------------------------------------
TypeOK ==
    /\ pc \in Steps
    /\ strategy \in Strategies
    /\ amount \in Amounts
    /\ groups \in [Regions -> Fractions]
    /\ tables \in [Regions -> TableChoices \cup {NoTable}]
    /\ rng \in {None, Panic} \cup [from : Int, to : Int, position : Int]
    /\ pending \subseteq Regions
    /\ DOMAIN response \subseteq Regions
    /\ \A r \in DOMAIN response : response[r].price \in Int
    /\ err \in {"none", "GetAll", "SourceTable", "RegionTable", "Conversion"}
    /\ (pc = "Regions" /\ strategy = "table")
           => rng \in [from : Int, to : Int, position : Int]

(***************************************************************************)
(* A completed table-based request recommends, for every region, the       *)
(* interpolation between the range that contains the amount in the source *)
(* table and the range at the same position in the region's table         *)
(* (extrapolated past its end).  Breaks if getPriceTableRange's bracket    *)
(* test, its ceil step or its position, or the extrapolation of            *)
(* getRecommendedPriceForRegion, goes wrong.                               *)
(***************************************************************************)
RecommendationFollowsSpec ==
    (pc = "Done" /\ strategy = "table") =>
        LET loc == SpecLocate(tables[Source], amount) IN
        /\ DOMAIN response = Regions
        /\ \A r \in Regions :
              RatEq(response[r].raw,
                    SpecInterpolate(loc, SpecMapPosition(tables[r], loc.position),
                                    amount))

(***************************************************************************)
(* CalculatePriceWithFraction rounds the two-decimal price c UP onto its   *)
(* policy's grid: 0.05 / 0.5 to the next multiple at or above c; 0.95 to   *)
(* the first x.95 at or above c; 0.09 to the x.y9 of c's dime; 0 to the    *)
(* next whole unit at or above the raw price; any other code truncates.    *)
(* Together these make the rounding idempotent, as the specification      *)
(* requires.  Checked for every recommended price of both handlers.        *)
(***************************************************************************)
FractionRoundsUpToGrid ==
    \A r \in DOMAIN response :
        LET f == groups[r]
            p == response[r].price
            x == response[r].raw
        IN
        CASE f \in {5, 50} -> p % f = 0 /\ \E c \in Cents(x) : c <= p /\ p < c + f
          [] f = 95 -> p % 100 = 95 /\ \E c \in Cents(x) : c <= p /\ p < c + 100
          [] f = 9  -> p % 10 = 9 /\ \E c \in Cents(x) : c <= p /\ p < c + 10
          [] f = 0  -> p % 100 = 0 /\ p * x.den >= x.num /\ (p - 100) * x.den < x.num
          [] OTHER  -> p % 100 = 0 /\ p * x.den <= x.num /\ x.num < (p + 100) * x.den

(***************************************************************************)
(* The specification's literal boundary test: interpolate(range, range,    *)
(* range.to) = range.from.  Stated for a region whose table is the source  *)
(* table and an amount on the upper end of its located range.             *)
(***************************************************************************)
InterpolationBoundary ==
    \A r \in DOMAIN response :
        (strategy = "table" /\ tables[r] = tables[Source] /\ amount = rng.to)
            => RatEq(response[r].raw, Rat(rng.from, 1))

(***************************************************************************)
(* The handler never panics: it answers with a response or a typed error   *)
(* (specification, error handling: no other outcome).                     *)
(***************************************************************************)
NeverPanics == pc # "Panicked"

(***************************************************************************)
(* A region without a price table is skipped, never an error of the whole *)
(* request (specification, table-based strategy and error handling).      *)
(***************************************************************************)
MissingRegionTableSkipped == pc = "Failed" => err # "RegionTable"

=============================================================================
