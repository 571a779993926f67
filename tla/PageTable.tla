----------------------------- MODULE PageTable -----------------------------
(***************************************************************************)
(* The extended page tables of a VM (arch/x86/pagetable.c, page.c and      *)
(* guest/ept.c) and their RISC-V counterpart (arch/riscv/pgtable.c and     *)
(* pager.c): four levels of table pages, large pages at the two middle     *)
(* levels, split when a part of one is changed, and table pages that are   *)
(* freed when they run empty.  The three functions that the code has for   *)
(* the three lower levels are one operator here, with the level.           *)
(*                                                                         *)
(* Addresses are counted in pages.  Every operation holds ept_lock, and is *)
(* one step.                                                               *)
(***************************************************************************)
EXTENDS Naturals, FiniteSetsExt

CONSTANTS
    Arch,           \* "x86" or "riscv"
    Ptrs,           \* the entries of a table page, 512 (PTRS_PER_PTE)
    PoolPages,      \* table pages of the VM (get_ept_page_num)
    Region,         \* the regions of the callers: [gpa, size]
    Shift,          \* the distances of host from guest addresses
    ForceIpage,     \* is_ept_force_4k_ipage
    Fetch,          \* the pages the guest fetches instructions from
    MaxOps,         \* bound: the operations of a behaviour
    Quiet,          \* nothing is mapped or unmapped while there is a secure world
    Unmapped

ASSUME PageTableAssumption ==
    /\ Arch \in {"x86", "riscv"}
    /\ Ptrs \in Nat \ {0, 1} /\ PoolPages \in Nat \ {0}
    /\ ForceIpage \in BOOLEAN /\ Quiet \in BOOLEAN
    /\ \A r \in Region : r.gpa \in Nat /\ r.size \in Nat \ {0} /\ r.gpa + r.size <= Ptrs ^ 4

VARIABLES
    mem,            \* [page: the contents of the table pages, used: the pool's bitmap]
    nworld_eptp,    \* the root of the normal world's tables
    sworld_eptp,    \* and of the secure world's, or 0
    sworld_memory,  \* [gpa, size, hpa] of the secure world, size 0 before it is created
    ops             \* the operations so far

vars == <<mem, nworld_eptp, sworld_eptp, sworld_memory, ops>>

PT == 1
PD == 2
PDPT == 3
PML4 == 4

Index == 0 .. (Ptrs - 1)
Gpa == 0 .. (Ptrs ^ 4 - 1)
Rights == {"W", "X"}

(* A page of the pool; 0 is its dummy page.                                *)
Page == 0 .. PoolPages

(* An entry that is not present (the sanitized page), one that points to a *)
(* table page, and one that maps memory, large above the last level.       *)
sanitized == [is |-> "none", to |-> 0, prot |-> {}]
table(p) == [is |-> "table", to |-> p, prot |-> Rights]
leaf(hpa, prot) == [is |-> "leaf", to |-> hpa, prot |-> prot]

pgentry_present(e) == e.is # "none"
large(e) == e.is = "leaf"

(* The pages an entry of level l spans, and the entry of an address.       *)
span(l) == Ptrs ^ (l - 1)
index(l, va) == (va \div span(l)) % Ptrs
next(l, va) == (va \div span(l)) * span(l) + span(l)
mem_aligned_check(l, a) == a % span(l) = 0

set_pgentry(m, p, i, e) == [m EXCEPT !.page[p][i] = e]

-----------------------------------------------------------------------------
(* Table pages.  On x86 they come from a pool, which hands out its dummy   *)
(* page when it is empty (after the assertion of a debug build); on RISC-V *)
(* the page for an address at a level is fixed.  Both are cleared.         *)

vpn_page(l, va) == (Ptrs ^ (PML4 - l) - 1) \div (Ptrs - 1) + 1 + va \div span(l + 1)

alloc_page(m, l, va) ==
    IF Arch = "riscv" THEN vpn_page(l, va)
    ELSE LET free == Page \ (m.used \cup {0})
         IN  IF free = {} THEN 0 ELSE Min(free)

cleared(m, p) ==
    [page |-> [m.page EXCEPT ![p] = [i \in Index |-> sanitized]],
     used |-> m.used \cup {p}]

(* Fault: the page is freed while one of its entries is still present.     *)
is_empty_first(m, p) == ~pgentry_present(m.page[p][0])

is_empty(m, p) == \A i \in Index : ~pgentry_present(m.page[p][i])

(* For the table below the entry i of p; RISC-V frees no table page.       *)
try_to_free_pgtable_page(m, l, p, i) ==
    LET q == m.page[p][i].to
    IN  IF Arch = "x86" /\ l \in {PD, PDPT} /\ is_empty(m, q)
          THEN set_pgentry([m EXCEPT !.used = @ \ {q}], p, i, sanitized)
          ELSE m

-----------------------------------------------------------------------------

(* Of a VM that is not an RTVM (whose executable memory has no large pages *)
(* at all), on a processor that has both sizes.                            *)
large_page_support(l) == l \in {PD, PDPT}

tweak_exe_right(prot) == IF ForceIpage THEN prot \ {"X"} ELSE prot
recover_exe_right(prot) == IF ForceIpage THEN prot \cup {"X"} ELSE prot

(* Fault: the execute right is given back at every level.                  *)
split_entry_recovers(l, e, j) == leaf(e.to + j * span(l - 1), recover_exe_right(e.prot))

(* The entry j of the page a large entry e of level l is split into.  On   *)
(* RISC-V the frame number is taken without its shift, a level 2 entry is  *)
(* split into pointers to tables, and a level 3 one (the call names VPN3,  *)
(* which the switch takes for VPN1) into steps of one page.                *)
split_entry(l, e, j) ==
    IF Arch = "x86"
      THEN leaf(e.to + j * span(l - 1), IF l = PD THEN recover_exe_right(e.prot) ELSE e.prot)
      ELSE IF l = PD THEN table((e.to \div 4 + j) % (PoolPages + 1))
                     ELSE leaf(e.to \div 4 + j, Rights)

split_large_page(m, l, p, i, va) ==
    LET e == m.page[p][i]
        q == alloc_page(m, IF Arch = "x86" THEN l - 1 ELSE PT, va)
        m1 == cleared(m, q)
    IN  set_pgentry([m1 EXCEPT !.page[q] = [j \in Index |-> split_entry(l, e, j)]],
                    p, i, table(q))

-----------------------------------------------------------------------------
(* op: [type, set, clr].  Clearing the last right of an entry would make   *)
(* it not present; no caller clears the read right.                        *)

local_modify_or_del_pte(m, p, i, op) ==
    IF op.type = "MODIFY"
      THEN [m EXCEPT !.page[p][i].prot = (@ \ op.clr) \cup op.set]
      ELSE set_pgentry(m, p, i, sanitized)

RECURSIVE modify_or_del(_, _, _, _, _, _)

(* Fault: a large page is changed as a whole when its beginning is.        *)
covers_start(l, va, end) == mem_aligned_check(l, va)

covers(l, va, end) == mem_aligned_check(l, va) /\ next(l, va) <= end

(* The part of the loop's body for a present entry.                        *)
modify_or_del_entry(m, l, p, va, end, op) ==
    LET i == index(l, va)
        e == m.page[p][i]
        split == IF l # PT /\ large(e) THEN split_large_page(m, l, p, i, va) ELSE m
        below == modify_or_del(split, l - 1, split.page[p][i].to, va, end, op)
    IN  IF l = PT \/ (large(e) /\ covers(l, va, end)) THEN local_modify_or_del_pte(m, p, i, op)
        ELSE IF op.type = "DEL" THEN try_to_free_pgtable_page(below, l, p, i) ELSE below

(* modify_or_del_pte, _pde and _pdpte, and the loop over the root, in the  *)
(* page p of level l.  (An absent root entry leads x86 to the sanitized    *)
(* page, whose entries are all absent; the caller of s2pt_del_mr warrants  *)
(* that there is none.)                                                    *)
modify_or_del(m, l, p, va, end, op) ==
    LET i == index(l, va)
        m1 == IF pgentry_present(m.page[p][i]) THEN modify_or_del_entry(m, l, p, va, end, op) ELSE m
    IN  IF next(l, va) >= end \/ (l # PML4 /\ i = Ptrs - 1) THEN m1
        ELSE modify_or_del(m1, l, p, next(l, va), end, op)

pgtable_modify_or_del_map(m, root, r, op) ==
    modify_or_del(m, PML4, root, r.gpa, r.gpa + r.size, op)

-----------------------------------------------------------------------------

RECURSIVE add(_, _, _, _, _, _, _)

fits_large(l, hpa, va, end) ==
    large_page_support(l) /\ mem_aligned_check(l, hpa) /\ covers(l, va, end)

add_entry(m, l, p, va, end, hpa, prot) ==
    LET i == index(l, va)
        e == m.page[p][i]
        q == alloc_page(m, l - 1, va)
        m1 == IF pgentry_present(e) THEN m ELSE set_pgentry(cleared(m, q), p, i, table(q))
    IN  IF large(e) THEN m
        ELSE IF l = PT THEN set_pgentry(m, p, i, leaf(hpa, prot))
        ELSE IF ~pgentry_present(e) /\ fits_large(l, hpa, va, end)
          THEN set_pgentry(m, p, i, leaf(hpa, tweak_exe_right(prot)))
        ELSE add(m1, l - 1, m1.page[p][i].to, va, end, hpa, prot)

(* add_pte, add_pde, add_pdpte.                                            *)
add(m, l, p, va, end, hpa, prot) ==
    LET m1 == add_entry(m, l, p, va, end, hpa, prot)
    IN  IF next(l, va) >= end \/ (l # PML4 /\ index(l, va) = Ptrs - 1) THEN m1
        ELSE add(m1, l, p, next(l, va), end, hpa + next(l, va) - va, prot)

pgtable_add_map(m, root, r, hpa) ==
    add(m, PML4, root, r.gpa, r.gpa + r.size, hpa, Rights)

RECURSIVE lookup(_, _, _, _)
lookup(m, l, p, va) ==
    LET e == m.page[p][index(l, va)]
    IN  IF l = PT \/ e.is # "table" THEN [level |-> l, entry |-> e]
                                    ELSE lookup(m, l - 1, e.to, va)

pgtable_lookup_entry(root, va) == lookup(mem, PML4, root, va)

(* The translation of a guest page, [hpa, prot] or Unmapped.               *)
translate(root, va) ==
    LET found == pgtable_lookup_entry(root, va)
    IN  IF found.entry.is # "leaf" THEN Unmapped
        ELSE [hpa |-> found.entry.to + (va % span(found.level)), prot |-> found.entry.prot]

-----------------------------------------------------------------------------

pgtable_create_root(m) == cleared(m, alloc_page(m, PML4, 0))

(* init_ept_pgtable and the root of a new VM: the bitmap is clear, and the *)
(* first page of the pool is taken.                                        *)
Init ==
    /\ mem = pgtable_create_root([page |-> [p \in Page |-> [i \in Index |-> sanitized]],
                                  used |-> {0}])
    /\ nworld_eptp = 1
    /\ sworld_eptp = 0
    /\ sworld_memory = [gpa |-> 0, size |-> 0, hpa |-> 0]
    /\ ops = 0

(* Hypercalls, MTRRs and BARs may change the normal world's map at any     *)
(* time, also below the tables that a secure world shares.                 *)
may_change == Quiet => sworld_eptp = 0

ept_add_mr(r, shift) ==
    /\ may_change
    /\ mem' = pgtable_add_map(mem, nworld_eptp, r, r.gpa + shift)
    /\ UNCHANGED <<nworld_eptp, sworld_eptp, sworld_memory>>

ept_del_mr(r) ==
    /\ may_change
    /\ mem' = pgtable_modify_or_del_map(mem, nworld_eptp, r, [type |-> "DEL", set |-> {}, clr |-> {}])
    /\ UNCHANGED <<nworld_eptp, sworld_eptp, sworld_memory>>

(* The top level asserts that its entry is present.                        *)
ept_modify_mr(root, r, set, clr) ==
    /\ \A va \in r.gpa .. (r.gpa + r.size - 1) :
          pgentry_present(mem.page[root][index(PML4, va)])
    /\ mem' = pgtable_modify_or_del_map(mem, root, r, [type |-> "MODIFY", set |-> set, clr |-> clr])
    /\ UNCHANGED <<nworld_eptp, sworld_eptp, sworld_memory>>

(* An instruction fetch, of the world with this root, from a page without  *)
(* the right; a page that is not mapped stays so, and the fetch is retried.*)
ept_violation_vmexit_handler(root, va) ==
    LET t == translate(root, va)
    IN  /\ root # 0
        /\ t # Unmapped => "X" \notin t.prot
        /\ ept_modify_mr(root, [gpa |-> va, size |-> 1], {"X"}, {})

-----------------------------------------------------------------------------
(* The secure world of Trusty has a root and a level 3 page of its own and *)
(* shares what is below with the normal world.                             *)

rebased == (Ptrs - 1) * span(PDPT)

(* All entries of the level 3 page but the last are copied, without the    *)
(* execute right.                                                          *)
pgtable_create_trusty_root(m) ==
    LET root == alloc_page(m, PML4, 0)
        m1 == cleared(m, root)
        pdpt == alloc_page(m1, PDPT, 0)
        m2 == set_pgentry(cleared(m1, pdpt), root, 0, table(pdpt))
        from == m2.page[m2.page[nworld_eptp][0].to]
    IN  [m2 EXCEPT !.page[pdpt] =
            [i \in Index |-> IF i < Ptrs - 1 /\ pgentry_present(from[i])
                               THEN [from[i] EXCEPT !.prot = @ \ {"X"}] ELSE sanitized]]

(* One step, and once in a behaviour.  The region is mapped and contiguous *)
(* (check_continuos_hpa).                                                  *)
create_secure_world_ept(r) ==
    LET t == translate(nworld_eptp, r.gpa)
        m1 == pgtable_modify_or_del_map(mem, nworld_eptp, r, [type |-> "DEL", set |-> {}, clr |-> {}])
        root == alloc_page(m1, PML4, 0)
    IN  /\ Arch = "x86"
        /\ sworld_memory.size = 0
        /\ r.gpa + r.size <= rebased
        /\ \A va \in r.gpa .. (r.gpa + r.size - 1) :
              /\ translate(nworld_eptp, va) # Unmapped
              /\ translate(nworld_eptp, va).hpa - va = t.hpa - r.gpa
        /\ mem' = pgtable_add_map(pgtable_create_trusty_root(m1), root,
                                  [gpa |-> rebased, size |-> r.size], t.hpa)
        /\ sworld_eptp' = root
        /\ sworld_memory' = [gpa |-> r.gpa, size |-> r.size, hpa |-> t.hpa]
        /\ UNCHANGED nworld_eptp

(* The region is removed from the secure world's tables where the normal   *)
(* world had it, and given back to the normal world.                       *)
destroy_secure_world ==
    LET r == [gpa |-> sworld_memory.gpa, size |-> sworld_memory.size]
        m1 == pgtable_modify_or_del_map(mem, sworld_eptp, r, [type |-> "DEL", set |-> {}, clr |-> {}])
    IN  /\ sworld_eptp # 0
        /\ mem' = pgtable_add_map(m1, nworld_eptp, r, sworld_memory.hpa)
        /\ sworld_eptp' = 0
        /\ UNCHANGED <<nworld_eptp, sworld_memory>>

Next ==
    /\ ops < MaxOps /\ ops' = ops + 1
    /\ \/ \E r \in Region :
             \/ \E shift \in Shift : ept_add_mr(r, shift)
             \/ ept_del_mr(r)
             \/ ept_modify_mr(nworld_eptp, r, {"W"}, {})
             \/ ept_modify_mr(nworld_eptp, r, {}, {"W"})
             \/ create_secure_world_ept(r)
       \/ \E va \in Fetch : \/ ept_violation_vmexit_handler(nworld_eptp, va)
                           \/ ept_violation_vmexit_handler(sworld_eptp, va)
       \/ destroy_secure_world

Spec == Init /\ [][Next]_vars

-----------------------------------------------------------------------------

TypeOK ==
    /\ mem.used \subseteq Page
    /\ \A p \in Page, i \in Index :
          /\ mem.page[p][i].is \in {"none", "table", "leaf"}
          /\ mem.page[p][i].to \in Nat /\ mem.page[p][i].prot \subseteq Rights
    /\ nworld_eptp \in Page /\ sworld_eptp \in Page

normal_map ==
    [va \in Gpa |->
        LET t == translate(nworld_eptp, va)
        IN  IF t = Unmapped THEN Unmapped ELSE [hpa |-> t.hpa, w |-> "W" \in t.prot]]

Map == INSTANCE MemMap WITH map <- normal_map

(* The tables implement a map: an operation changes the translation of the *)
(* pages of its region and of no other page ("delete [vaddr_base,          *)
(* vaddr_base + size ) memory region page table mapping"), whatever large  *)
(* pages it has to split and whatever tables it finds, makes or frees.     *)
ImplementsMap == Map!Spec

(* The tables reachable from a root, and the entries among them that lead  *)
(* to p.                                                                   *)
with_tables(S) == S \cup {mem.page[p][i].to : <<p, i>> \in
                        {x \in S \X Index : mem.page[x[1]][x[2]].is = "table"}}
reachable(root) == with_tables(with_tables(with_tables({root})))
referrers(p, S) ==
    {x \in S \X Index : mem.page[x[1]][x[2]].is = "table" /\ mem.page[x[1]][x[2]].to = p}

(* Table pages are neither lost nor used twice: a page is allocated        *)
(* exactly when a table of the VM leads to it, one entry alone leads to    *)
(* it, and the pages of the secure world are allocated too.  (The pages of *)
(* a destroyed secure world stay allocated until the VM is.)               *)
TablesAreOwned ==
    LET normal == reachable(nworld_eptp)
        secure == IF sworld_eptp = 0 THEN {} ELSE reachable(sworld_eptp)
    IN  /\ normal \cup secure \subseteq mem.used \ {0}
        /\ \A p \in normal \ {nworld_eptp} : Cardinality(referrers(p, normal)) = 1
        /\ sworld_memory.size = 0 \/ sworld_eptp # 0
              => mem.used = normal \cup secure \cup {0}

(* "disable execute right for (2MB / 1GB)large pages in EPT": with the     *)
(* mitigation no large page is executable, in either world, however pages  *)
(* are split, copied to the secure world and given the right on a fetch.   *)
NoLargeExec ==
    ForceIpage =>
        \A root \in {nworld_eptp, sworld_eptp} \ {0}, va \in Gpa :
            LET found == pgtable_lookup_entry(root, va)
            IN  large(found.entry) /\ "X" \in found.entry.prot => found.level = PT

=============================================================================
