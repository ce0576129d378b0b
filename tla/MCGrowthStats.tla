---------------------------- MODULE MCGrowthStats ----------------------------
(* Small instances of GrowthStats for TLC. *)
EXTENDS GrowthStats

CONSTANTS v4a, v4b, v6a, asn_a

TwoV4 == {v4a, v4b}
OneV6 == {v6a}
OneAsn == {asn_a}

=============================================================================
