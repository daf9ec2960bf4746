--------------------------- MODULE VirtualMemory ---------------------------
(***************************************************************************)
(* VirtualMemory (src/vmem.cc): physical pages handed out on first touch,  *)
(* to virtual pages (va_to_pa) and to the tables of the radix page table   *)
(* (get_pte_pa).  A physical page is the unit of the free list, PAGE_SIZE  *)
(* bytes; a table takes page_size bytes, one of the UnitsPerPage units of  *)
(* a physical page.  The shipped configurations have PAGE_SIZE 16384 and   *)
(* page_size 4096, four units to a page; the default of config.sh has one. *)
(*                                                                         *)
(* A virtual page is the tuple of its table indices, one per level: vaddr   *)
(* without its page offset, written in base page_size / PTE_BYTES.         *)
(*                                                                         *)
(* A lookup that finds its mapping changes nothing, so only the two faults *)
(* are actions.  The code reads front() of the free list and pops it       *)
(* without a test: what it does once memory is used up is undefined, and   *)
(* the model stops there.                                                  *)
(***************************************************************************)
EXTENDS Integers, Sequences

CONSTANTS
  Cpu,
  VPage,          \* the virtual pages in use
  Radix,          \* page_size / PTE_BYTES, entries of a table
  pt_levels,
  UnitsPerPage,   \* PAGE_SIZE / page_size
  Shuffle         \* the free list as the constructor shuffles it

ASSUME VirtualMemoryAssumption ==
  /\ Radix \in Nat \ {0} /\ pt_levels \in Nat \ {0}
  /\ VPage \subseteq [0 .. pt_levels - 1 -> 0 .. Radix - 1]
  /\ UnitsPerPage \in Nat \ {0}
  /\ Shuffle \in Seq(Nat) /\ Shuffle # <<>>
  /\ \A i, j \in DOMAIN Shuffle : Shuffle[i] = Shuffle[j] => i = j

VARIABLES
  vpage_to_ppage_map,   \* <<cpu, virtual page>> -> physical page
  page_table,           \* <<cpu, region, level>> -> the unit the table is in
  next_pte_page,
  ppage_free_list

vmem == <<vpage_to_ppage_map, page_table, next_pte_page, ppage_free_list>>

-----------------------------------------------------------------------------
(* vaddr >> shamt(level): the indices of the levels from this one up; and   *)
(* get_offset, the index of the level.                                      *)
region(v, level)     == [k \in level .. pt_levels - 1 |-> v[k]]
get_offset(v, level) == v[level]

Unit(p) == [page |-> p, unit |-> 0]

TableKey(c, v, level) == <<c, region(v, level + 1), level>>

AlwaysNext(u) == [page |-> u.page, unit |-> u.unit]   \* mutant: += is forgotten

(* next_pte_page + page_size.                                               *)
NextUnit(u) == IF u.unit + 1 < UnitsPerPage
               THEN [page |-> u.page, unit |-> u.unit + 1]
               ELSE Unit(u.page + 1)

Extend(f, k, x) == [j \in DOMAIN f \cup {k} |-> IF j = k THEN x ELSE f[j]]

-----------------------------------------------------------------------------
VMemInit ==
  /\ vpage_to_ppage_map = <<>> /\ page_table = <<>>
  /\ next_pte_page = Unit(Head(Shuffle))
  /\ ppage_free_list = Tail(Shuffle)

Mapped(c, v)             == <<c, v>> \in DOMAIN vpage_to_ppage_map
TableMapped(c, v, level) == TableKey(c, v, level) \in DOMAIN page_table

MapWithoutPop(c, v) ==   \* mutant: the page stays on the free list
  /\ ~Mapped(c, v) /\ ppage_free_list # <<>>
  /\ vpage_to_ppage_map' = Extend(vpage_to_ppage_map, <<c, v>>, Head(ppage_free_list))
  /\ UNCHANGED <<page_table, next_pte_page, ppage_free_list>>

(* va_to_pa when the virtual page has no physical page yet.                 *)
va_to_pa(c, v) ==
  /\ ~Mapped(c, v) /\ ppage_free_list # <<>>
  /\ vpage_to_ppage_map' = Extend(vpage_to_ppage_map, <<c, v>>, Head(ppage_free_list))
  /\ ppage_free_list' = Tail(ppage_free_list)
  /\ UNCHANGED <<page_table, next_pte_page>>

(* get_pte_pa when the table of that level is not there yet.  The address   *)
(* after the new table is tested for a page boundary: when it is NOT on one *)
(* the rest of the page is given up for a fresh one, and when it is the     *)
(* next table goes to the page that follows in memory.                      *)
get_pte_pa(c, v, level) ==
  LET next == NextUnit(next_pte_page)
  IN  /\ ~TableMapped(c, v, level)
      /\ page_table' = Extend(page_table, TableKey(c, v, level), next_pte_page)
      /\ IF next.unit # 0
         THEN /\ ppage_free_list # <<>>
              /\ next_pte_page' = Unit(Head(ppage_free_list))
              /\ ppage_free_list' = Tail(ppage_free_list)
         ELSE next_pte_page' = next /\ UNCHANGED ppage_free_list
      /\ UNCHANGED vpage_to_ppage_map

(* Who calls: the walker of each cpu for pages and tables (its constructor  *)
(* for the root table), and the virtual prefetchers for pages.              *)
VMemNext ==
  \E c \in Cpu, v \in VPage :
    \/ va_to_pa(c, v)
    \/ \E level \in 1 .. pt_levels : get_pte_pa(c, v, level)

VMemSpec == VMemInit /\ [][VMemNext]_vmem

-----------------------------------------------------------------------------
VMemTypeOK ==
  /\ DOMAIN vpage_to_ppage_map \subseteq Cpu \X VPage
  /\ vpage_to_ppage_map \in [DOMAIN vpage_to_ppage_map -> Nat]
  /\ page_table \in [DOMAIN page_table -> [page : Nat, unit : Nat]]
  /\ next_pte_page \in [page : Nat, unit : Nat]
  /\ ppage_free_list \in Seq(Nat)

(* What lies in physical memory: pages of data, and tables.                 *)
DataPages  == {vpage_to_ppage_map[k] : k \in DOMAIN vpage_to_ppage_map}
TableUnits == {page_table[k] : k \in DOMAIN page_table}

(* No two uses of a piece of physical memory: two virtual pages never share *)
(* a physical page, nor two tables a unit, a table is never in a data page, *)
(* and the place reserved for the next table is in none of them.            *)
PagesDisjoint ==
  /\ \A j, k \in DOMAIN vpage_to_ppage_map :
       vpage_to_ppage_map[j] = vpage_to_ppage_map[k] => j = k
  /\ \A j, k \in DOMAIN page_table : page_table[j] = page_table[k] => j = k
  /\ \A u \in TableUnits \cup {next_pte_page} : u.page \notin DataPages
  /\ next_pte_page \notin TableUnits

(* What vmem.cc calls the free list is free: a page on it holds neither     *)
(* data nor a table, and is on it once.                                     *)
FreeListIsFree ==
  \A i \in DOMAIN ppage_free_list :
    /\ ppage_free_list[i] \notin DataPages
    /\ \A u \in TableUnits : u.page # ppage_free_list[i]
    /\ \A j \in DOMAIN ppage_free_list :
         ppage_free_list[i] = ppage_free_list[j] => i = j

=============================================================================
