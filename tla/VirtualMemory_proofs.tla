----------------------- MODULE VirtualMemory_proofs -----------------------
(***************************************************************************)
(* What holds of VirtualMemory for every shuffle of the free list and any  *)
(* number of cpus, levels and pages, as long as a physical page has room   *)
(* for more than one table.  With one table to a page the module's         *)
(* PagesDisjoint and FreeListIsFree are false (MCVirtualMemory.cfg).       *)
(***************************************************************************)
EXTENDS VirtualMemory, TLAPS

(* PAGE_SIZE is greater than page_size, as in the configurations with       *)
(* 16 kB pages.                                                             *)
SharedPages == UnitsPerPage > 1

(* The place for the next table is always the start of a page: after each   *)
(* table the rest of its page is given up.                                  *)
NextStartsPage == next_pte_page.unit = 0

(* A page on the free list holds neither data nor a table, is on it once,    *)
(* and is not the page reserved for the next table: FreeListIsFree alone    *)
(* would be lost when the next table is taken from its place.               *)
ListUnused ==
  \A i \in DOMAIN ppage_free_list :
    /\ ppage_free_list[i] \notin DataPages
    /\ \A u \in TableUnits \cup {next_pte_page} : u.page # ppage_free_list[i]
    /\ \A j \in DOMAIN ppage_free_list :
         ppage_free_list[i] = ppage_free_list[j] => i = j

VMemInv == VMemTypeOK /\ PagesDisjoint /\ ListUnused /\ NextStartsPage

-----------------------------------------------------------------------------
(* The head of a sequence is one of its elements, and its tail the others.  *)
LEMMA HeadAndTail ==
  ASSUME NEW S, NEW s \in Seq(S), s # <<>>
  PROVE  /\ Head(s) = s[1] /\ 1 \in DOMAIN s /\ Head(s) \in S
         /\ Tail(s) \in Seq(S)
         /\ \A i \in DOMAIN Tail(s) : i + 1 \in DOMAIN s /\ Tail(s)[i] = s[i + 1]
         /\ DOMAIN Tail(s) \subseteq Nat
OBVIOUS

(* Taking the first page off the free list: what is left is still free, and *)
(* the page taken is not in it.                                             *)
LEMMA PopFree ==
  ASSUME VMemTypeOK, ListUnused, ppage_free_list # <<>>
  PROVE  /\ Head(ppage_free_list) \in Nat
         /\ Tail(ppage_free_list) \in Seq(Nat)
         /\ Head(ppage_free_list) \notin DataPages
         /\ \A u \in TableUnits \cup {next_pte_page} : u.page # Head(ppage_free_list)
         /\ \A i \in DOMAIN Tail(ppage_free_list) :
              LET p == Tail(ppage_free_list)[i]
              IN  /\ p # Head(ppage_free_list)
                  /\ p \notin DataPages
                  /\ \A u \in TableUnits \cup {next_pte_page} : u.page # p
                  /\ \A j \in DOMAIN Tail(ppage_free_list) :
                       p = Tail(ppage_free_list)[j] => i = j
<1>. DEFINE s == ppage_free_list
<1>1. s \in Seq(Nat)
  BY DEF VMemTypeOK
<1>2. /\ Head(s) = s[1] /\ 1 \in DOMAIN s /\ Head(s) \in Nat
      /\ Tail(s) \in Seq(Nat)
      /\ \A i \in DOMAIN Tail(s) : i + 1 \in DOMAIN s /\ Tail(s)[i] = s[i + 1]
      /\ DOMAIN Tail(s) \subseteq Nat
  BY <1>1, HeadAndTail, Zenon
<1>3. \A i \in DOMAIN s :
        /\ s[i] \notin DataPages
        /\ \A u \in TableUnits \cup {next_pte_page} : u.page # s[i]
        /\ \A j \in DOMAIN s : s[i] = s[j] => i = j
  BY DEF ListUnused
<1>. HIDE DEF s
<1>4. \A i \in DOMAIN Tail(s) : i + 1 # 1 /\ \A j \in DOMAIN Tail(s) : i + 1 = j + 1 => i = j
  BY <1>2
<1>5. \A i \in DOMAIN Tail(s) :
        /\ Tail(s)[i] # Head(s)
        /\ Tail(s)[i] \notin DataPages
        /\ \A u \in TableUnits \cup {next_pte_page} : u.page # Tail(s)[i]
        /\ \A j \in DOMAIN Tail(s) : Tail(s)[i] = Tail(s)[j] => i = j
  BY <1>2, <1>3, <1>4
<1>. QED
  BY <1>2, <1>3, <1>5 DEF s

-----------------------------------------------------------------------------
LEMMA VMemInitInv == VMemInit => VMemInv
<1>. SUFFICES ASSUME VMemInit PROVE VMemInv
  OBVIOUS
<1>1. /\ Head(Shuffle) = Shuffle[1] /\ 1 \in DOMAIN Shuffle /\ Head(Shuffle) \in Nat
      /\ Tail(Shuffle) \in Seq(Nat)
      /\ \A i \in DOMAIN Tail(Shuffle) :
           i + 1 \in DOMAIN Shuffle /\ Tail(Shuffle)[i] = Shuffle[i + 1]
      /\ DOMAIN Tail(Shuffle) \subseteq Nat
  BY VirtualMemoryAssumption, HeadAndTail
<1>2. DataPages = {} /\ TableUnits = {}
  BY DEF VMemInit, DataPages, TableUnits
<1>3. next_pte_page = [page |-> Head(Shuffle), unit |-> 0]
  BY DEF VMemInit, Unit
<1>4. VMemTypeOK /\ NextStartsPage /\ PagesDisjoint
  BY <1>1, <1>2, <1>3 DEF VMemInit, VMemTypeOK, NextStartsPage, PagesDisjoint
<1>5. \A i \in DOMAIN Tail(Shuffle) :
        /\ Tail(Shuffle)[i] # Head(Shuffle)
        /\ \A j \in DOMAIN Tail(Shuffle) : Tail(Shuffle)[i] = Tail(Shuffle)[j] => i = j
  BY <1>1, VirtualMemoryAssumption
<1>6. ListUnused
  BY <1>2, <1>3, <1>5 DEF VMemInit, ListUnused
<1>. QED
  BY <1>4, <1>6 DEF VMemInv

(* A virtual page gets the first page of the free list.                     *)
LEMMA va_to_paStep ==
  ASSUME VMemInv, NEW c \in Cpu, NEW v \in VPage, va_to_pa(c, v)
  PROVE  VMemInv'
<1>. DEFINE p == Head(ppage_free_list)
            k == <<c, v>>
            f == vpage_to_ppage_map
<1>1. /\ k \notin DOMAIN f /\ ppage_free_list # <<>>
      /\ f' = Extend(f, k, p) /\ ppage_free_list' = Tail(ppage_free_list)
      /\ UNCHANGED <<page_table, next_pte_page>>
  BY DEF va_to_pa, Mapped
<1>2. /\ p \in Nat /\ Tail(ppage_free_list) \in Seq(Nat) /\ p \notin DataPages
      /\ \A u \in TableUnits \cup {next_pte_page} : u.page # p
      /\ \A i \in DOMAIN Tail(ppage_free_list) :
           LET q == Tail(ppage_free_list)[i]
           IN  /\ q # p /\ q \notin DataPages
               /\ \A u \in TableUnits \cup {next_pte_page} : u.page # q
               /\ \A j \in DOMAIN Tail(ppage_free_list) :
                    q = Tail(ppage_free_list)[j] => i = j
  BY <1>1, PopFree DEF VMemInv
<1>3. /\ DOMAIN f' = DOMAIN f \cup {k} /\ f'[k] = p
      /\ \A j \in DOMAIN f : f'[j] = f[j] /\ j # k
  <2>1. /\ DOMAIN Extend(f, k, p) = DOMAIN f \cup {k} /\ Extend(f, k, p)[k] = p
        /\ \A j \in DOMAIN f : Extend(f, k, p)[j] = f[j] /\ j # k
    BY <1>1 DEF Extend
  <2>. QED
    BY <1>1, <2>1
<1>4. DataPages' = DataPages \cup {p} /\ TableUnits' = TableUnits
  BY <1>1, <1>3 DEF DataPages, TableUnits
<1>5. \A j \in DOMAIN f : f[j] \in DataPages /\ f[j] \in Nat
  BY DEF DataPages, VMemInv, VMemTypeOK
<1>. HIDE DEF p, k
<1>6. VMemTypeOK'
  <2>1. f' = Extend(f, k, p) /\ \A j \in DOMAIN f' : f'[j] \in Nat
    BY <1>1, <1>2, <1>3, <1>5
  <2>2. f' \in [DOMAIN f' -> Nat]
    BY <2>1 DEF Extend
  <2>3. DOMAIN f' \subseteq Cpu \X VPage
    BY <1>3 DEF k, VMemInv, VMemTypeOK
  <2>. QED
    BY <1>1, <1>2, <2>2, <2>3 DEF VMemInv, VMemTypeOK
<1>7. PagesDisjoint'
  <2>1. \A i, j \in DOMAIN f' : f'[i] = f'[j] => i = j
    BY <1>2, <1>3, <1>5 DEF VMemInv, PagesDisjoint
  <2>. QED
    BY <1>1, <1>2, <1>4, <2>1 DEF VMemInv, PagesDisjoint
<1>8. ListUnused'
  BY <1>1, <1>2, <1>4 DEF ListUnused
<1>. QED
  BY <1>1, <1>6, <1>7, <1>8 DEF VMemInv, NextStartsPage

(* A table takes the place reserved for it, and the next place is the first *)
(* page of the free list, because the address after the table is inside the *)
(* page.                                                                    *)
LEMMA get_pte_paStep ==
  ASSUME SharedPages, VMemInv, NEW c, NEW v, NEW level, get_pte_pa(c, v, level)
  PROVE  VMemInv'
<1>. DEFINE p == Head(ppage_free_list)
            k == TableKey(c, v, level)
            f == page_table
            n == next_pte_page
<1>1. NextUnit(n).unit # 0
  BY DEF SharedPages, VMemInv, NextStartsPage, NextUnit
<1>2. /\ k \notin DOMAIN f /\ ppage_free_list # <<>>
      /\ f' = Extend(f, k, n) /\ ppage_free_list' = Tail(ppage_free_list)
      /\ n' = [page |-> p, unit |-> 0]
      /\ UNCHANGED vpage_to_ppage_map
  BY <1>1 DEF get_pte_pa, TableMapped, Unit
<1>3. /\ p \in Nat /\ Tail(ppage_free_list) \in Seq(Nat) /\ p \notin DataPages
      /\ \A u \in TableUnits \cup {n} : u.page # p
      /\ \A i \in DOMAIN Tail(ppage_free_list) :
           LET q == Tail(ppage_free_list)[i]
           IN  /\ q # p /\ q \notin DataPages
               /\ \A u \in TableUnits \cup {n} : u.page # q
               /\ \A j \in DOMAIN Tail(ppage_free_list) :
                    q = Tail(ppage_free_list)[j] => i = j
  BY <1>2, PopFree DEF VMemInv
<1>4. /\ DOMAIN f' = DOMAIN f \cup {k} /\ f'[k] = n
      /\ \A j \in DOMAIN f : f'[j] = f[j] /\ j # k
  <2>1. /\ DOMAIN Extend(f, k, n) = DOMAIN f \cup {k} /\ Extend(f, k, n)[k] = n
        /\ \A j \in DOMAIN f : Extend(f, k, n)[j] = f[j] /\ j # k
    BY <1>2 DEF Extend
  <2>. QED
    BY <1>2, <2>1
<1>5. DataPages' = DataPages /\ TableUnits' = TableUnits \cup {n}
  BY <1>2, <1>4 DEF DataPages, TableUnits
<1>6. \A j \in DOMAIN f : f[j] \in TableUnits /\ f[j] \in [page : Nat, unit : Nat]
  BY DEF TableUnits, VMemInv, VMemTypeOK
<1>7. n \in [page : Nat, unit : Nat] /\ n \notin TableUnits /\ n.page \notin DataPages
  BY DEF VMemInv, VMemTypeOK, PagesDisjoint
<1>8. n'.page = p /\ n'.unit = 0 /\ n' \in [page : Nat, unit : Nat]
  BY <1>2, <1>3
<1>. HIDE DEF p, k
<1>9. VMemTypeOK'
  <2>1. \A j \in DOMAIN f' : f'[j] \in [page : Nat, unit : Nat]
    BY <1>4, <1>6, <1>7
  <2>2. f' \in [DOMAIN f' -> [page : Nat, unit : Nat]]
    BY <1>2, <2>1 DEF Extend
  <2>. QED
    BY <1>2, <1>3, <1>8, <2>2 DEF VMemInv, VMemTypeOK
<1>10. PagesDisjoint'
  <2>1. \A i, j \in DOMAIN f' : f'[i] = f'[j] => i = j
    BY <1>4, <1>6, <1>7 DEF VMemInv, PagesDisjoint
  <2>2. n' \notin TableUnits'
    BY <1>3, <1>5, <1>8
  <2>3. \A u \in (TableUnits \cup {n})' : u.page \notin DataPages'
    BY <1>3, <1>5, <1>7, <1>8 DEF VMemInv, PagesDisjoint
  <2>. QED
    BY <1>2, <2>1, <2>2, <2>3 DEF VMemInv, PagesDisjoint
<1>11. ListUnused'
  BY <1>2, <1>3, <1>5, <1>8 DEF ListUnused
<1>. QED
  BY <1>8, <1>9, <1>10, <1>11 DEF VMemInv, NextStartsPage

-----------------------------------------------------------------------------
(* The invariant of VirtualMemory: every step of its callers keeps memory   *)
(* partitioned, when a physical page has room for more than one table.      *)
THEOREM VMemInvariance ==
  ASSUME SharedPages PROVE VMemSpec => []VMemInv
<1>1. VMemInv /\ [VMemNext]_vmem => VMemInv'
  <2>. SUFFICES ASSUME VMemInv, [VMemNext]_vmem PROVE VMemInv'
    OBVIOUS
  <2>1. CASE VMemNext
    BY <2>1, va_to_paStep, get_pte_paStep DEF VMemNext
  <2>2. CASE UNCHANGED vmem
    BY <2>2 DEF vmem, VMemInv, VMemTypeOK, PagesDisjoint, ListUnused,
                NextStartsPage, DataPages, TableUnits
  <2>. QED
    BY <2>1, <2>2
<1>. QED
  BY <1>1, VMemInitInv, PTL DEF VMemSpec

(* No two uses of memory overlap: for every shuffle of the free list and    *)
(* every order of page and table faults of any number of cpus.              *)
THEOREM MemoryIsPartitioned ==
  ASSUME SharedPages PROVE VMemSpec => []PagesDisjoint
<1>1. VMemInv => PagesDisjoint
  BY DEF VMemInv
<1>. QED
  BY <1>1, VMemInvariance, PTL

(* A page on the free list is never in use: it holds neither data nor a     *)
(* table.                                                                   *)
THEOREM FreeStaysFree ==
  ASSUME SharedPages PROVE VMemSpec => []FreeListIsFree
<1>1. VMemInv => FreeListIsFree
  BY DEF VMemInv, ListUnused, FreeListIsFree
<1>. QED
  BY <1>1, VMemInvariance, PTL

=============================================================================
