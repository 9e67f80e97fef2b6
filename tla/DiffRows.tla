------------------------------ MODULE DiffRows ------------------------------
(***************************************************************************)
(* buildRows (frontend/src/lib/lineDiff.ts): the lines of a diff, padded   *)
(* to the same number on both sides, and the line ranges of its changes.   *)
(* A line is its status.  A row of a container is the number of lines its  *)
(* value prints on either side, or the diff built of a container nested in *)
(* it.  Lines count from 1.                                                *)
(***************************************************************************)
EXTENDS Integers, Sequences

Lines(status, n) == [i \in 1..n |-> status]
Most(m, n) == IF m >= n THEN m ELSE n

(* Mutant of Padded: a side without any line is left empty.                *)
PaddedUnlessEmpty(s, n) == IF s = <<>> THEN s ELSE s \o Lines("placeholder", n - Len(s))

Padded(s, n) == s \o Lines("placeholder", n - Len(s))

(* The lines and the change of a value; a change of type shows as two.     *)
Leaf(row) ==
  [left |-> Lines(row.kind, row.left),
   right |-> Lines(IF row.kind = "type" THEN "added" ELSE row.kind, row.right),
   changes |-> IF row.kind = "unchanged" THEN <<>>
               ELSE <<[kind |-> row.kind, start |-> 1, end |-> Most(row.left, row.right)]>>]

Body(row) == IF row.kind = "nested" THEN row.diff ELSE Leaf(row)

(* Mutant of Shifted: the ranges of a nested container keep its own lines. *)
ShiftedNot(cs, n) == IF n = 0 THEN <<>> ELSE cs

Shifted(cs, n) == [k \in DOMAIN cs |-> [cs[k] EXCEPT !.start = @ + n, !.end = @ + n]]

(* The line of an opening bracket, and of a closing one.                   *)
Bracket == [left |-> <<"unchanged">>, right |-> <<"unchanged">>, changes |-> <<>>]

(* Below the lines so far come those of the next row, the shorter side     *)
(* padded.                                                                 *)
Emit(acc, body) ==
  LET n == Most(Len(body.left), Len(body.right))
  IN  [left |-> acc.left \o Padded(body.left, n),
       right |-> acc.right \o Padded(body.right, n),
       changes |-> acc.changes \o Shifted(body.changes, Len(acc.left))]

Build(rows) ==
  LET built[k \in 0..Len(rows)] ==
        IF k = 0 THEN Bracket ELSE Emit(built[k - 1], Body(rows[k]))
      all == built[Len(rows)]
  IN  [left |-> Append(all.left, "unchanged"), right |-> Append(all.right, "unchanged"),
       changes |-> all.changes]

=============================================================================
