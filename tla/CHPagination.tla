---------------------------- MODULE CHPagination ----------------------------
(***************************************************************************)
(* Following the pages of a Companies House list (_paginate of             *)
(* agent/companies_house.py): officers, charges and filing history.        *)
(*                                                                         *)
(* The register is external.  It serves at most PageLimit items at a time, *)
(* reports a total, one that counts an entry it does not serve, or none,   *)
(* and an entry may be added at the head of the list while its pages are   *)
(* being followed.                                                         *)
(***************************************************************************)
EXTENDS Naturals, Sequences, SequencesExt

CONSTANTS
  MaxPerPage,   \* _MAX_PER_PAGE
  PageLimits,   \* what the register may serve at a time
  MaxEntries,   \* bound of the list
  MaxAdded      \* entries added while the pages are followed

ASSUME CHPaginationAssumption ==
  /\ MaxPerPage \in Nat \ {0} /\ PageLimits \subseteq Nat \ {0}
  /\ MaxEntries \in Nat /\ MaxAdded \in Nat

VARIABLES
  entries,    \* the list, newest first
  pageLimit,  \* the register's limit
  totals,     \* the total_results it reports: exact, over, none
  added,      \* entries added since the start
  paging,     \* idle, fetching, over, raised
  items,      \* items so far
  start       \* start_index

paginationVars == <<entries, pageLimit, totals, added, paging, items, start>>

Smaller(a, b) == IF a < b THEN a ELSE b
Page == SubSeq(entries, start + 1,
               Smaller(Len(entries), start + Smaller(MaxPerPage, pageLimit)))

\* Without a total the number of items so far stands for it.
Total(got) ==
  CASE totals = "exact" -> Len(entries)
    [] totals = "over" -> Len(entries) + 1
    [] totals = "none" -> Len(got)

\* Faulty variant: the last page is told by the total alone.
LastPageByTotal(page, got) == start + Len(page) >= Total(got)

LastPage(page, got) ==
  \/ page = <<>>
  \/ start + Len(page) >= Total(got)
  \/ Len(page) < MaxPerPage

\* Faulty variant: the next page starts a whole page on from the last item.
FetchPageSkipping ==
  /\ paging = "fetching"
  /\ items' = items \o Page
  /\ start' = start + Len(Page) + 1
  /\ paging' = IF LastPage(Page, items') THEN "over" ELSE "fetching"
  /\ UNCHANGED <<entries, pageLimit, totals, added>>

FetchPage ==
  /\ paging = "fetching"
  /\ items' = items \o Page
  /\ start' = start + Len(Page)
  /\ paging' = IF LastPage(Page, items') THEN "over" ELSE "fetching"
  /\ UNCHANGED <<entries, pageLimit, totals, added>>

PageRequestFails ==
  /\ paging = "fetching"
  /\ paging' = "raised"
  /\ UNCHANGED <<entries, pageLimit, totals, added, items, start>>

EntryAdded ==
  /\ added < MaxAdded /\ paging = "fetching"
  /\ entries' = <<Len(entries) + 1>> \o entries
  /\ added' = added + 1
  /\ UNCHANGED <<pageLimit, totals, paging, items, start>>

PaginationStart ==
  /\ \E n \in 0..MaxEntries : entries = [i \in 1..n |-> n + 1 - i]
  /\ pageLimit \in PageLimits /\ totals \in {"exact", "over", "none"}
  /\ added = 0 /\ paging = "idle" /\ items = <<>> /\ start = 0

-----------------------------------------------------------------------------
(* Properties.                                                             *)

HonoursPageSize == pageLimit >= MaxPerPage

\* A list whose register reports totals and serves the page size asked for is read
\* whole: of the entries that were there at the start none is passed over, although
\* one added meanwhile shifts the pages and may repeat an item, and a list that does
\* not change is read in order, each entry once.
ListsAreReadWhole ==
  (paging = "over" /\ totals = "exact" /\ HonoursPageSize) =>
    /\ 1..(Len(entries) - added) \subseteq ToSet(items)
    /\ added = 0 => items = entries

=============================================================================
