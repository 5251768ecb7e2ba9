--------------------------- MODULE MCReprojection ---------------------------
(* Instances of Reprojection for TLC.                                      *)
EXTENDS Reprojection

CONSTANTS d1, d2

Site(daemons, n, f) == [daemons |-> daemons, migrations |-> n, faults |-> f]

(* One daemon with a migration beside the re-projection; two daemons on one *)
(* database.                                                                *)
SomeSites == {Site({d1}, 1, 1), Site({d1}, 0, 2), Site({d1, d2}, 0, 1)}
=============================================================================
