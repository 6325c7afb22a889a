------------------------ MODULE MCNewsAggregatorPools --------------------------
(* Instances of NewsAggregatorPools for TLC. *)
EXTENDS NewsAggregatorPools

CONSTANTS a, b

\* Two feeds that share an article, and one without articles.
SharedArticle == << <<a, b>>, <<a>>, <<>> >>
===============================================================================
