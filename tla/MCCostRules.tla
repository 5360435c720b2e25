----------------------------- MODULE MCCostRules -----------------------------
EXTENDS CostRuleResolver

CONSTANTS AZ, US, F1, F2, I1, I2, I3, I4

\* The specification's example (8) and the test fixtures use days 0 and 30
\* (money_back_cost_*_test.go) and amounts 0, 0.75 and 5
\* (payment_channel_cost_merchant_test.go); 5 stands for a first country
\* tier above zero.  Queries fall below, on and between the thresholds.
MCThresholds == {0, 5, 30}
MCQueries == {0, 3, 5, 10, 30, 45}

MCSymmetry == Permutations({I1, I2, I3, I4})
=============================================================================
