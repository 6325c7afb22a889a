------------------------- MODULE MCNewsAggregatorSems --------------------------
(* Instances of NewsAggregatorSems for TLC. *)
EXTENDS NewsAggregatorSems

CONSTANTS a, b, c

\* The first feed has more articles than it may have connections.
TwoFeeds == << <<a, b>>, <<c>> >>
===============================================================================
