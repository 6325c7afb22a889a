---------------------------- MODULE NewsAggregator ----------------------------
(***************************************************************************)
(* What both news aggregators promise: the feeds are parsed, then the      *)
(* articles they list, each once; an article that could be parsed is added *)
(* to the index once, and the user may query it when all is done.          *)
(***************************************************************************)
EXTENDS Integers, Sequences

CONSTANTS Articles,     \* by URL
          List          \* the articles of each feed

Feeds == DOMAIN List

VARIABLES todo,         \* <<f, 0>>: parse feed f; <<f, k>>: its k-th article
          parsed,       \* articles <<f, k>> to be added
          index,        \* how often each article was added
          phase         \* "indexing" or "querying"

vars == <<todo, parsed, index, phase>>

Init ==
  /\ todo = Feeds \X {0} /\ parsed = {} /\ index = [a \in Articles |-> 0]
  /\ phase = "indexing"

\* A feed that cannot be downloaded or parsed has no articles.
ParseFeed(f) ==
  /\ <<f, 0>> \in todo
  /\ \E found \in {{}, 1 .. Len(List[f])} :
       todo' = (todo \ {<<f, 0>>}) \cup ({f} \X found)
  /\ UNCHANGED <<parsed, index, phase>>

ParseArticle(f, k) ==
  /\ <<f, k>> \in todo /\ todo' = todo \ {<<f, k>>}
  /\ parsed' \in {parsed, parsed \cup {<<f, k>>}}
  /\ UNCHANGED <<index, phase>>

AddToIndex(f, k) ==
  /\ <<f, k>> \in parsed /\ parsed' = parsed \ {<<f, k>>}
  /\ index' = [index EXCEPT ![List[f][k]] = @ + 1]
  /\ UNCHANGED <<todo, phase>>

Query ==
  /\ todo = {} /\ parsed = {} /\ phase' = "querying"
  /\ UNCHANGED <<todo, parsed, index>>

Next ==
  \/ \E f \in Feeds :
       ParseFeed(f) \/ \E k \in DOMAIN List[f] : ParseArticle(f, k) \/ AddToIndex(f, k)
  \/ Query

Spec == Init /\ [][Next]_vars
===============================================================================
