------------------------------- MODULE MCApp --------------------------------
(* The app with one key and two values, a huge example, one file at a time *)
(* and three links: to a short share, a long one and an expired one.       *)
EXTENDS App

CONSTANTS k1, v1, v2, alice, huge, short, long, expired

Keys == {k1}
Values == {v1, v2}
One(v) == [k \in Key |-> v]

Examples ==
  [e \in Example |->
     [left |-> One(v1), right |-> IF e = alice THEN One(v2) ELSE One(v1), ignore |-> {}]]

NoTexts == {}
JustBroken == {Broken}
OneDoc == {One(v1)}
NothingIgnored == {{}}
TwoShares == [i \in Stored |-> IF i = long THEN 2 ELSE 0]
SomeCounts == {-1, 1, 2, 4}
=============================================================================
