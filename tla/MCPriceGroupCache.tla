------------------------- MODULE MCPriceGroupCache -------------------------
(***************************************************************************)
(* Two clients, two ids (one group stored, one free for an insert) and two *)
(* regions: enough for a region change, a deactivation, an insert and a   *)
(* read racing each write.                                                 *)
(***************************************************************************)
EXTENDS PriceGroupCache, TLC

CONSTANTS I1, I2, RA, RB, C1, C2

MCIds == {I1, I2}
MCRegions == {RA, RB}
MCClients == {C1, C2}
MCInitStore == (I1 :> [id |-> I1, region |-> RA, active |-> TRUE]) @@ (I2 :> Absent)

\* Clients are interchangeable.
MCSymmetry == Permutations(MCClients)

====
