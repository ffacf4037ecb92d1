--------------------------- MODULE MCRuntimeSync ---------------------------
(* Small instances of RuntimeSync. *)
EXTENDS RuntimeSync

cfg(v, h, is)   == [version |-> v, hash |-> h, inbounds |-> is]
user(s, i, val) == [sub |-> s, inbound |-> i, value |-> val]

\* Inbound 2 goes and comes back; version 2 also exists with another content.
MCConfig == {cfg(1, "a", {1, 2}), cfg(2, "b", {1}), cfg(2, "c", {1, 2}), cfg(3, "d", {1, 2})}

\* The same without the conflicting version.
OneHashConfig == {cfg(1, "a", {1, 2}), cfg(2, "b", {1}), cfg(3, "d", {1, 2})}

\* Revision 2 revokes subscriber 2 and gives subscriber 1 another secret on
\* inbound 1; revision 3 revokes everyone.
MCSnapshot == {[rev |-> 1, users |-> {user(1, 1, "x"), user(2, 1, "y"), user(1, 2, "x")}],
               [rev |-> 2, users |-> {user(1, 1, "z")}],
               [rev |-> 3, users |-> {}]}
=============================================================================
