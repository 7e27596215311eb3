-------------------------- MODULE MCCapabilityAudit --------------------------
(* Three accesses of listed and unlisted entries by two threads.             *)
EXTENDS CapabilityAudit

Plain == [name |-> 1, listed |-> TRUE, destructive |-> FALSE, confirmed |-> FALSE, authorized |-> TRUE]
MCAccesses == {Plain, [Plain EXCEPT !.name = 2, !.destructive = TRUE],
               [Plain EXCEPT !.name = 3, !.listed = FALSE, !.authorized = FALSE]}
=============================================================================
