---------------------------- MODULE MCRankDriver ----------------------------
(* A fan of two variations a and b and their product, and one of two        *)
(* signedness halves u and s.                                               *)
EXTENDS RankDriver

CONSTANTS a, b, u, s, e1, e2

Fan(ns, mo) == [names |-> ns, pref |-> [c \in Cands |-> IF c = 1 THEN 1 ELSE 0], matchOnly |-> mo]
Product == Fan(<<{}, {a}, {b}, {a, b}>>, {3})
Signed  == Fan(<<{u}, {u, a}, {s}, {s, a}>>, {})

Scores(n) == [kind |-> "scored", score |-> n, errors |-> <<>>]
Thrown    == [kind |-> "thrown", score |-> 0, errors |-> <<>>]
Refusal(x, y) == [kind |-> "refused", score |-> 0,
                  errors |-> [l1 |-> (e1 :> 1 @@ e2 :> x), l2 |-> (e1 :> y @@ e2 :> 1)]]

\* The default refused readably, then anything; and defaults the rule does not read.
Fates(t, others) == {<<t>> \o o : o \in [1..N - 1 -> others]}
FewRows ==
  {[fan |-> Product, truth |-> t] : t \in Fates(Refusal(2, 0), {Refusal(2, 0), Refusal(1, 0), Scores(0)})}
  \cup {[fan |-> Signed, truth |-> t] : t \in Fates(Refusal(2, 0), {Refusal(2, 0), Scores(1)})}
  \cup {[fan |-> Product, truth |-> t] : t \in Fates(Thrown, {Refusal(1, 1), Scores(1)})
                                         \cup Fates(Scores(1), {Refusal(1, 1), Scores(1)})}
=============================================================================
