--------------------------- MODULE MCSyncedScroll ---------------------------
(* SyncedScroll with a right pane that ends one line before the left one.  *)
EXTENDS SyncedScroll

Uneven == [s \in Side |-> IF s = "left" THEN 3 ELSE 2]
=============================================================================
