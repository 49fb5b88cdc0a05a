----------------------------- MODULE RegistryHop -----------------------------
(***************************************************************************)
(* The Companies House handler (_h_companies_house of agent/tools.py): a   *)
(* search, or a company's profile or one of its lists, for a company given *)
(* by its number or by its name, which is then looked up in the register   *)
(* first (_resolve_company_number); a list is read page by page            *)
(* (CHPagination).                                                         *)
(*                                                                         *)
(* A name is its core, which _normalize_company_name leaves, and the words *)
(* it drops: "Ltd", "Holdings", "Group" and so on.                         *)
(***************************************************************************)
EXTENDS CHPagination

CONSTANTS
  CompanyNames,  \* names: [core, dropped]
  Within,        \* pairs of cores of which the first is a part of the second
  Searches       \* what a search may find (external): sequences of [name, number]

Numbers == {"n1", "n2", "n3"}   \* eight letters and digits
NoNumber == ""
Malformed == "n/1"
ListOperations == {"charges", "officers", "filing_history"}
Operations == {"search", "profile", "unsupported"} \union ListOperations
NoCore == ""

ASSUME RegistryHopAssumption ==
  /\ Searches \subseteq Seq([name : CompanyNames, number : Numbers \union {NoNumber}])
  /\ \A name \in CompanyNames : <<name.core, name.core>> \in Within

\* The name the caller did not give.
NoCompany == [core |-> NoCore, dropped |-> "unnamed"]

VARIABLES
  inquiry,    \* the model's arguments: operation, number, name
  hits,       \* search_companies(query)
  subject,    \* the number the record is fetched for
  inquiring   \* asked, search, resolve, record, pages; told, refused, raised

inquiryVars == <<inquiry, hits, subject, inquiring>>
registryVars == <<inquiryVars, paginationVars>>

-----------------------------------------------------------------------------
(* _resolve_company_number                                                 *)

SameCore(hit) == hit.name.core = inquiry.name.core
Includes(hit) ==
  inquiry.name.core # NoCore /\ <<inquiry.name.core, hit.name.core>> \in Within

Exact(found) == {i \in 1..Len(found) : SameCore(found[i])}
Containing(found) == {i \in 1..Len(found) : Includes(found[i])}
Earliest(found, places) == found[CHOOSE i \in places : \A j \in places : i <= j]

\* Faulty variant: whatever contains the name comes before the name itself.
BestContaining(found) ==
  IF Containing(found) # {} THEN Earliest(found, Containing(found)) ELSE Head(found)

\* (exact or contains or items)[0]
Best(found) ==
  IF Exact(found) # {} THEN Earliest(found, Exact(found))
  ELSE IF Containing(found) # {} THEN Earliest(found, Containing(found))
  ELSE Head(found)

-----------------------------------------------------------------------------

\* Where a number leads; the client raises on one that is not eight alphanumerics.
About(number) ==
  /\ subject' = number
  /\ inquiring' = IF inquiry'.operation \notin ListOperations \union {"profile"}
                     \/ number = Malformed THEN "refused"
                  ELSE IF inquiry'.operation = "profile" THEN "record" ELSE "pages"
  /\ paging' = IF inquiring' = "pages" THEN "fetching" ELSE paging

\* Without an API key there is no client, whatever the arguments.
NotConfigured ==
  /\ inquiring = "asked"
  /\ inquiring' = "refused"
  /\ UNCHANGED <<inquiry, hits, subject, paginationVars>>

Inquire(operation, number, name) ==
  /\ inquiring = "asked"
  /\ inquiry' = [operation |-> operation, number |-> number, name |-> name]
  /\ IF operation = "search" \/ number = NoNumber
     THEN /\ inquiring' = IF name = NoCompany THEN "refused"
                          ELSE IF operation = "search" THEN "search" ELSE "resolve"
          /\ UNCHANGED <<subject, paging>>
     ELSE About(number)
  /\ UNCHANGED <<hits, entries, pageLimit, totals, added, items, start>>

\* operation=search: the hits are listed as they come.
Search(found) ==
  /\ inquiring = "search"
  /\ hits' = found
  /\ inquiring' = "told"
  /\ UNCHANGED <<inquiry, subject, paginationVars>>

Resolve(found) ==
  /\ inquiring = "resolve"
  /\ hits' = found
  /\ UNCHANGED inquiry
  /\ IF found = <<>> \/ (found # <<>> /\ Best(found).number = NoNumber)
     THEN inquiring' = "refused" /\ UNCHANGED <<subject, paging>>
     ELSE About(Best(found).number)
  /\ UNCHANGED <<entries, pageLimit, totals, added, items, start>>

\* get_company.
FetchRecord ==
  /\ inquiring = "record"
  /\ inquiring' = "told"
  /\ UNCHANGED <<inquiry, hits, subject, paginationVars>>

ReadPage ==
  /\ inquiring = "pages"
  /\ FetchPage
  /\ inquiring' = IF paging' = "over" THEN "told" ELSE "pages"
  /\ UNCHANGED <<inquiry, hits, subject>>

RegistryRequestFails ==
  /\ inquiring \in {"search", "resolve", "record", "pages"}
  /\ IF inquiring = "pages" THEN PageRequestFails ELSE UNCHANGED paginationVars
  /\ inquiring' = "raised"
  /\ UNCHANGED <<inquiry, hits, subject>>

RegisterGrows == EntryAdded /\ UNCHANGED inquiryVars

RegistryInit ==
  /\ PaginationStart
  /\ inquiry = [operation |-> "search", number |-> NoNumber, name |-> NoCompany]
  /\ hits = <<>> /\ subject = NoNumber /\ inquiring = "asked"

HandlerStep ==
  \/ NotConfigured
  \/ \E operation \in Operations, number \in Numbers \union {NoNumber, Malformed},
        name \in CompanyNames \union {NoCompany} : Inquire(operation, number, name)
  \/ \E found \in Searches : Search(found) \/ Resolve(found)
  \/ FetchRecord \/ ReadPage

RegistryNext == HandlerStep \/ RegistryRequestFails \/ RegisterGrows

\* A request that does not fail is answered; none need fail, nor the register change.
RegistrySpec ==
  RegistryInit /\ [][RegistryNext]_registryVars /\ WF_registryVars(HandlerStep)

-----------------------------------------------------------------------------
(* Properties.                                                             *)

OfSubject(hit) == hit.number = subject
ByName == inquiry.number = NoNumber

\* A company given by its name is one of the search's hits, and no hit with another
\* core is taken for it while one has its own, nor one unlike it while one
\* contains it: so the only company of that name is never missed.
NamedCompanyIsResolved ==
  (inquiring \in {"record", "pages", "told"} /\ ByName /\ subject # NoNumber) =>
    \E i \in 1..Len(hits) :
      /\ OfSubject(hits[i])
      /\ (\E j \in 1..Len(hits) : SameCore(hits[j])) => SameCore(hits[i])
      /\ \/ SameCore(hits[i]) \/ Includes(hits[i])
         \/ \A j \in 1..Len(hits) : ~Includes(hits[j])

\* The comment in the handler: it will "pick the exact-name match - so the agent
\* resolves the right subsidiary in one hop instead of profiling every fuzzy search
\* result".
ExactNameIsChosen ==
  (inquiring \in {"record", "pages", "told"} /\ ByName /\ subject # NoNumber) =>
    \A i \in 1..Len(hits) : hits[i].name = inquiry.name =>
      \E j \in 1..Len(hits) : OfSubject(hits[j]) /\ hits[j].name = inquiry.name

\* However the register counts and serves its pages, a hop comes to an end.
RegistryHopEnds == <>(inquiring \in {"told", "refused", "raised"})

=============================================================================
