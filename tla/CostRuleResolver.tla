--------------------------- MODULE CostRuleResolver ---------------------------
(***************************************************************************)
(* The cost rule resolver and its bracket selector (specification 4.1 and  *)
(* 4.2), serving the four cost rule families whose tests are the           *)
(* money_back_cost_*_test.go and payment_channel_cost_*_test.go files.     *)
(* Their implementation is not in this repository: every definition here   *)
(* follows the specification's algorithm step by step.                     *)
(*                                                                         *)
(* The state is the active rule set of one scope key, as the rule          *)
(* repository holds it; the administrative write path inserts rules,       *)
(* updates their fees and soft-disables them (specification 3).  The       *)
(* resolver is a pure function of that set: a request for (country,        *)
(* query) can be answered in any state, so the properties quantify over    *)
(* every request instead of recording one.                                 *)
(***************************************************************************)
EXTENDS Naturals, FiniteSets, SequencesExt

CONSTANTS
    Countries,      \* ISO codes a request may carry
    Wildcard,       \* the empty country "", matching any country
    RuleCountries,  \* the countries rules are written for
    Thresholds,     \* days_from / min_amount values, the bracket lower bounds
    Queries,        \* days / amount values a request may carry
    Fees,           \* the percent and fixed-fee fields, copied verbatim
    RuleIds,        \* document ids the write path may create
    Absent, NotFound

ASSUME RuleCountries \subseteq Countries \cup {Wildcard}

Rule == [country : Countries \cup {Wildcard}, threshold : Thresholds,
         fee : Fees, active : BOOLEAN]

VARIABLE rules   \* id -> rule document of one scope key, or Absent

vars == <<rules>>

-----------------------------------------------------------------------------
(* Resolver, translated from the steps of specification 4.2.               *)

\* Variant: the repository's is_active filter left out.
FetchRulesWithDisabled(rs) == {rs[i] : i \in {j \in DOMAIN rs : rs[j] # Absent}}

\* Step 1: the repository returns only rules flagged active (4.2, 6).
FetchRules(rs) == {rs[i] : i \in {j \in DOMAIN rs : rs[j] # Absent /\ rs[j].active}}

\* Step 2: rules whose country is exactly the requested one.
CountryGroup(rs, c) == {r \in rs : r.country = c}

\* Step 3: group A (requested, non-empty country) if it has rules, else
\* the wildcard group B.
PreferredGroup(rs, c) ==
    LET a == IF c # Wildcard THEN CountryGroup(rs, c) ELSE {}
    IN  IF a # {} THEN a ELSE CountryGroup(rs, Wildcard)

\* Step 4: sort the preferred group by threshold, ascending.
SortTiers(g) == SetToSortSeq(g, LAMBDA x, y : x.threshold < y.threshold)

\* Bracket selector (4.1): walk the sorted tiers and keep the last whose
\* threshold is at or below the query; NotFound if the first is above it.
RECURSIVE SelectFrom(_, _, _)
SelectFrom(tiers, query, last) ==
    IF tiers = << >> \/ Head(tiers).threshold > query
    THEN last
    ELSE SelectFrom(Tail(tiers), query, Head(tiers))

Select(tiers, query) == SelectFrom(tiers, query, NotFound)

\* Steps 1-5: the selected rule is returned unmodified.
Resolve(rs, c, query) ==
    Select(SortTiers(PreferredGroup(FetchRules(rs), c)), query)

-----------------------------------------------------------------------------
(* Administrative write path (specification 3): rules are created and      *)
(* updated, and soft-disabled instead of deleted.  For one (scope key,     *)
(* country) no two active rules share a threshold.                         *)

ThresholdFree(rs, c, t) ==
    ~\E r \in FetchRules(rs) : r.country = c /\ r.threshold = t

Live(i) == rules[i] # Absent /\ rules[i].active

InsertRule(i, c, t, f) ==
    /\ rules[i] = Absent
    /\ ThresholdFree(rules, c, t)
    /\ rules' = [rules EXCEPT ![i] = [country |-> c, threshold |-> t,
                                      fee |-> f, active |-> TRUE]]

\* Variant: the update replaces the document with the request's fields,
\* which do not carry the is_active flag.
UpdateRuleWithoutActiveFlag(i, f) ==
    /\ Live(i)
    /\ f # rules[i].fee
    /\ rules' = [rules EXCEPT ![i] = [country |-> @.country,
                                      threshold |-> @.threshold, fee |-> f]]

UpdateRule(i, f) ==
    /\ Live(i)
    /\ f # rules[i].fee
    /\ rules' = [rules EXCEPT ![i].fee = f]

DisableRule(i) ==
    /\ Live(i)
    /\ rules' = [rules EXCEPT ![i].active = FALSE]

\* No further write once every id is used and every rule is disabled.
Quiescent ==
    /\ \A i \in RuleIds : rules[i] # Absent /\ ~rules[i].active
    /\ UNCHANGED vars

Init == rules = [i \in RuleIds |-> Absent]

Next ==
    \/ \E i \in RuleIds, c \in RuleCountries, t \in Thresholds, f \in Fees :
           InsertRule(i, c, t, f)
    \/ \E i \in RuleIds, f \in Fees : UpdateRule(i, f)
    \/ \E i \in RuleIds : DisableRule(i)
    \/ Quiescent

Spec == Init /\ [][Next]_vars

-----------------------------------------------------------------------------
(* Properties                                                              *)

TypeOK == rules \in [RuleIds -> Rule \cup {Absent}]

\* Every request the resolver answers, for any rule set the write path can
\* produce, gets the active rule of the preferred country group with the
\* greatest threshold at or below the query: the sort-and-walk of Resolve
\* against the declarative "greatest threshold <= query" of specification 2
\* and 4.1, with inactive rules never answered.  When no tier of the
\* preferred group is at or below the query the answer is NotFound for a
\* country without rules of its own.  A country with rules that all lie
\* above the query is left out: specification 4.2 answers NotFound there,
\* while payment_channel_cost_merchant_test.go:330-344 expects the wildcard
\* rule, and the implementation that test runs is not in this repository.
SelectsGreatestThreshold ==
    \A c \in Countries \cup {Wildcard}, q \in Queries :
        LET live  == {rules[i] : i \in {j \in RuleIds : Live(j)}}
            own   == {r \in live : r.country = c}
            group == IF c # Wildcard /\ own # {} THEN own
                     ELSE {r \in live : r.country = Wildcard}
            below == {r \in group : r.threshold <= q}
        IN  /\ below # {} =>
                  /\ Resolve(rules, c, q) \in below
                  /\ \A r \in below : r.threshold <= Resolve(rules, c, q).threshold
            /\ (below = {} /\ (c = Wildcard \/ own = {})) =>
                  Resolve(rules, c, q) = NotFound

=============================================================================
