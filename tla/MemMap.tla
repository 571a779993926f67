------------------------------- MODULE MemMap -------------------------------
(***************************************************************************)
(* What the page tables of a VM promise (ept_add_mr, ept_del_mr and        *)
(* ept_modify_mr): a partial map from guest pages to host pages.  The      *)
(* execute right is left out: the hypervisor takes it from large pages and *)
(* gives it back as it sees fit.                                           *)
(***************************************************************************)
EXTENDS Naturals

CONSTANTS
    Gpa,            \* the guest pages
    Region,         \* the regions of the callers: [gpa, size]
    Shift,          \* the distances of host from guest addresses
    Unmapped

VARIABLE map        \* [hpa, w] of each guest page, or Unmapped

pages(r) == r.gpa .. (r.gpa + r.size - 1)

(* Pages that are mapped already keep their mapping.                       *)
Add(m, r, shift) ==
    [g \in Gpa |-> IF g \in pages(r) /\ m[g] = Unmapped
                     THEN [hpa |-> g + shift, w |-> TRUE] ELSE m[g]]

Del(m, r) == [g \in Gpa |-> IF g \in pages(r) THEN Unmapped ELSE m[g]]

Modify(m, r, w) ==
    [g \in Gpa |-> IF g \in pages(r) /\ m[g] # Unmapped
                     THEN [m[g] EXCEPT !.w = w] ELSE m[g]]

Init == map = [g \in Gpa |-> Unmapped]

Next ==
    \E m \in {map} :
    map' \in UNION {{Add(m, r, shift) : shift \in Shift}
                    \cup {Del(m, r)} \cup {Modify(m, r, w) : w \in BOOLEAN} : r \in Region}

Spec == Init /\ [][Next]_map

=============================================================================
