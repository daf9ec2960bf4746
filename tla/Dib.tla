--------------------------------- MODULE Dib ---------------------------------
(***************************************************************************)
(* One set of the decoded instruction buffer (DIB) of O3_CPU, which is     *)
(* kept in order by the generic functors of util.h: lru_updater renumbers  *)
(* a set after a use, lru_comparator picks its victim.  The paging         *)
(* structure caches of ptw.cc use the same two.  Instructions are          *)
(* abstracted to the window of the fetch stream they belong to             *)
(* (instr.ip >> lg2(dib_window)), and an entry holds a window.             *)
(***************************************************************************)
EXTENDS Integers

CONSTANTS
    dib_way,            \* entries in the set
    Window,             \* instruction windows that map to the set
    NoWindow,           \* the address of an entry never filled, none of Window
    Unused              \* dib_entry_t::lru before the first use

VARIABLES
    DIB,                \* the set
    newer               \* history: <<a, b>>, entry a was used after entry b

dibVars == <<DIB, newer>>

Entry == 0 .. dib_way - 1

Held == {e \in Entry : DIB[e].valid}

R == INSTANCE Recency WITH Way <- Entry, inUse <- Held, newer <- newer

DibTypeOK ==
    /\ DIB \in [Entry -> [valid: BOOLEAN, lru: Nat, address: Window \cup {NoWindow}]]
    /\ R!RecencyTypeOK

DibInit ==
    /\ DIB = [e \in Entry |-> [valid |-> FALSE, lru |-> Unused, address |-> NoWindow]]
    /\ newer = {}

(* std::find_if with eq_addr: the first valid entry for the window.        *)
Holds(e, w) == DIB[e].valid /\ DIB[e].address = w

Finds(e, w) == Holds(e, w) /\ \A d \in 0 .. e - 1 : ~Holds(d, w)

Missed(w) == \A e \in Entry : ~Holds(e, w)

(* lru_comparator: is d younger than e?  An invalid e is older than        *)
(* anything, another invalid entry included.                               *)
Younger(d, e) ==
    \/ ~DIB[e].valid
    \/ DIB[d].valid /\ DIB[d].lru < DIB[e].lru

(* std::max_element moves on to every later element that its largest so    *)
(* far is younger than: it ends at the last invalid entry if there is one, *)
(* else at the first of the entries with the largest counter.              *)
Victim(e) ==
    /\ \A d \in e + 1 .. dib_way - 1 : ~Younger(e, d)
    /\ \A d \in 0 .. e - 1 : Younger(d, e)

(* lru_updater: the entries that count what the used one counts are        *)
(* reset, the others age.                                                  *)
lru_updater(set, e) ==
    [d \in Entry |-> [set[d] EXCEPT !.lru = IF @ = set[e].lru THEN 0 ELSE @ + 1]]

Used(e) == newer' = R!Promoted(e)

(* do_check_dib, at fetch: a hit only reorders the set.                    *)
do_check_dib(w) ==
    \E e \in Entry :
        /\ Finds(e, w)
        /\ DIB' = lru_updater(DIB, e)
        /\ Used(e)

(* do_dib_update, at decode: the window is brought in if it is missing,    *)
(* and the set is reordered either way.                                    *)
do_dib_update(w) ==
    \E e \in Entry :
        /\ IF Missed(w) THEN Victim(e) ELSE Finds(e, w)
        /\ LET filled == IF Missed(w)
                         THEN [DIB EXCEPT ![e].valid = TRUE, ![e].address = w]
                         ELSE DIB
           IN  DIB' = lru_updater(filled, e)
        /\ Used(e)

DibNext == \E w \in Window : do_check_dib(w) \/ do_dib_update(w)

DibSpec == DibInit /\ [][DibNext]_dibVars

-----------------------------------------------------------------------------
(* When the set is full, the entry that lru_comparator picks is the one    *)
(* used longest ago.                                                       *)
VictimIsLeastRecent ==
    Held = Entry => \A e \in Entry : Victim(e) => R!Oldest(e)
=============================================================================
