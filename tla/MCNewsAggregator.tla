--------------------------- MODULE MCNewsAggregator ---------------------------
(***************************************************************************)
(* An instance of NewsAggregator for TLC: three URLs with one key, one of  *)
(* which two feeds list, the second time under another title, and a feed   *)
(* without articles.                                                       *)
(***************************************************************************)
EXTENDS NewsAggregator

CONSTANTS k1, k2, w1, w2, w3

SomeArticles ==
    <<  <<[url |-> 2, key |-> k1], [url |-> 1, key |-> k1]>>,
        <<>>,
        <<[url |-> 1, key |-> k2], [url |-> 3, key |-> k1]>>  >>

SomeTokens == <<{w1, w2}, {w1, w2, w3}, {w2, w3}>>
=============================================================================
