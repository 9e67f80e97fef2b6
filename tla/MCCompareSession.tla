-------------------------- MODULE MCCompareSession --------------------------
(* CompareSession with one key and two values.  The lazily loaded example  *)
(* lacks the key on one side, so that changes of every kind occur.         *)
EXTENDS CompareSession

CONSTANTS k1, v1, v2, alice, huge

Keys == {k1}
Values == {v1, v2}
One(v) == [k \in Key |-> v]

MCExampleOf ==
  [e \in Example |->
     [left |-> One(v1), right |-> One(IF e = alice THEN v2 ELSE Absent), ignore |-> {}]]

NothingIgnored == {{}}
MaybeIgnored == {{}, {k1}}
NoTexts == {}
JustBroken == {Broken}
OneDoc == {One(v1)}
=============================================================================
