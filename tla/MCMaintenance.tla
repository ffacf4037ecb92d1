--------------------------- MODULE MCMaintenance ---------------------------
(* Small instances of Maintenance. *)
EXTENDS Maintenance

update(i, v) == [id |-> i, action |-> "update", target |-> v]
uninstall(i) == [id |-> i, action |-> "uninstall", target |-> 0]

\* An upgrade, a smaller one issued beside it, and an uninstallation.
MCCommand == {update("a", 3), update("b", 2), uninstall("c")}

\* The updates alone.
UpdateCommand == {update("a", 3), update("b", 2)}
=============================================================================
