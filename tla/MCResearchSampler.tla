-------------------------- MODULE MCResearchSampler ---------------------------
(* Values for ResearchSampler's constants: two venues, whose books may be     *)
(* empty, one-sided, crossed or neither.                                      *)
EXTENDS ResearchSampler

MCVenueIds == 1 .. 2

Quote(bid, ask) == [bid |-> bid, ask |-> ask]

MCBooks == {Quote(None, None), Quote(1, None), Quote(1, 0), Quote(1, 2)}
===============================================================================
