---------------------------- MODULE MCRateService ----------------------------
(* Small instances of RateService: the currencies are alike, the requests too. *)
EXTENDS RateService, TLC

MCSymmetry == Permutations(Currencies) \cup Permutations(Requests)
==============================================================================
