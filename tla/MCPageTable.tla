---------------------------- MODULE MCPageTable ----------------------------
(* Two entries per table: 16 pages, of which a level 2 entry spans 2, a    *)
(* level 3 entry 4 and a root entry 8.                                     *)
EXTENDS PageTable

region(gpa, size) == [gpa |-> gpa, size |-> size]

(* A small page, large pages of both sizes, a part of one, ranges across   *)
(* entries of each level and of the root.                                  *)
MCRegion == {region(1, 1), region(0, 2), region(0, 4), region(1, 4), region(6, 4), region(8, 8)}
MCShift == {0, 1}
MCFetch == {0, 4, 9}

=============================================================================
