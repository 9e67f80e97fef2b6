------------------------------ MODULE MCServer ------------------------------
(* A small instance of Server.                                             *)
EXTENDS Server, TLC
CONSTANTS h1, h2, a, b, x, y
Handlers == {h1, h2}
Docs == {a, b}
Ids == {x, y}
Alike == Permutations(Handlers) \cup Permutations(Docs) \cup Permutations(Ids)

(* ttl_hours: left out, refused, clamped.                                  *)
OrdinaryHours == {None, 0, 5}

(* 64 hours of 12 units are three times the word of 256, which wraps to 0. *)
HugeHours == {1, 64}
=============================================================================
