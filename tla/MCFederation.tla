--------------------------- MODULE MCFederation ----------------------------
(* Instances of Federation for TLC.                                        *)
EXTENDS Federation

CONSTANTS x, y

Entry(remote, hashless, restored, n) ==
    [remote |-> remote, hashless |-> hashless, restored |-> restored, faults |-> n]

(* A path and a URL, with two faults; a URL and a row that has no content   *)
(* hash; a URL whose source is restored.                                    *)
SomeEntries ==
    {Entry(FALSE, {x}, FALSE, 2), Entry(TRUE, {}, FALSE, 2),
     Entry(TRUE, {x}, FALSE, 1), Entry(TRUE, {}, TRUE, 1)}

(* Where a change falls behind the watermark.                               *)
RestoredPath == {Entry(FALSE, {}, TRUE, 0)}
=============================================================================
