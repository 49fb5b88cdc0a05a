---------------------------- MODULE EdgarLookup ----------------------------
(***************************************************************************)
(* Finding an issuer's filing by form and date (sources.py, find_filings,  *)
(* and the same steps in _h_submissions_index of agent/tools.py): the      *)
(* submissions document carries the most recent filings, older ones lie in *)
(* files it lists, which are followed only when they seem to be needed.    *)
(*                                                                         *)
(* A filing is a form and a date; its accession is its place in the        *)
(* issuer's history, newest first.  What a lookup finds is a part of what  *)
(* it loaded, in the same order: the set of the places it has there.  The  *)
(* server (external) does not change during a lookup; any request may fail *)
(* once its retries are spent.                                             *)
(***************************************************************************)
EXTENDS Naturals, Sequences, FiniteSets

CONSTANTS
  Histories,   \* issuers: sequences of [form, date], dates not increasing
  Queries,     \* [form, from, to, paginate]; NoForm and NoDate where left out
  Window       \* filings in the submissions document itself

Dates == 1..3
Forms == {"8-K", "8-K/A", "10-K"}
NoDate == 0
NoForm == "any"

ASSUME EdgarLookupAssumption ==
  /\ Histories \subseteq Seq([form : Forms, date : Dates])
  /\ \A h \in Histories : \A i, j \in 1..Len(h) : i < j => h[i].date >= h[j].date
  /\ Queries \subseteq [form : Forms \union {NoForm}, from : Dates \union {NoDate},
                        to : Dates \union {NoDate}, paginate : BOOLEAN]
  /\ Window \in Nat \ {0}

VARIABLES
  history,     \* the issuer's filings, newest first (external)
  newestFirst, \* the order in which the document lists its older files (external)
  query,
  pc,          \* ask, fetched, following, found, raised
  loaded,      \* the SubmissionsIndex's filings: places in the history
  left,        \* older files not yet followed
  found        \* what matching() returned: places in loaded

lookupVars == <<history, newestFirst, query, pc, loaded, left, found>>

Recent == [i \in 1..(IF Len(history) < Window THEN Len(history) ELSE Window) |-> i]
\* Each older file holds one filing here.
Files ==
  [i \in 1..(Len(history) - Len(Recent)) |->
     IF newestFirst THEN Len(Recent) + i ELSE Len(history) + 1 - i]

\* SubmissionsIndex.matching: "8-K" also stands for its amendments.
FormMatches(form) ==
  query.form \in {NoForm, form} \/ (query.form = "8-K" /\ form = "8-K/A")
Matches(i) ==
  /\ FormMatches(history[i].form)
  /\ query.from # NoDate => history[i].date >= query.from
  /\ query.to # NoDate => history[i].date <= query.to

\* oldest_filing_date of what is loaded.
IsOldest(date) ==
  /\ \E i \in 1..Len(loaded) : history[loaded[i]].date = date
  /\ \A i \in 1..Len(loaded) : history[loaded[i]].date >= date

\* Faulty variant: the upper date is compared instead of the lower one.
ReachesBackByUpper ==
  query.to # NoDate /\ \E date \in Dates : IsOldest(date) /\ query.to < date

\* The condition for a second, paginated fetch.
ReachesBack ==
  query.from # NoDate /\ \E date \in Dates : IsOldest(date) /\ query.from < date

-----------------------------------------------------------------------------

Ask(q) ==
  /\ pc = "ask"
  /\ query' = q
  /\ loaded' = Recent
  /\ IF q.paginate THEN pc' = "following" /\ left' = Files
     ELSE pc' = "fetched" /\ left' = <<>>
  /\ UNCHANGED <<history, newestFirst, found>>

\* The submissions document is fetched again, this time with its older files.
Paginate ==
  /\ pc = "fetched" /\ ReachesBack
  /\ loaded' = Recent /\ left' = Files
  /\ pc' = "following"
  /\ UNCHANGED <<history, newestFirst, query, found>>

FollowFile ==
  /\ pc = "following" /\ left # <<>>
  /\ loaded' = Append(loaded, Head(left))
  /\ left' = Tail(left)
  /\ UNCHANGED <<history, newestFirst, query, pc, found>>

Match ==
  /\ \/ pc = "fetched" /\ ~ReachesBack
     \/ pc = "following" /\ left = <<>>
  /\ found' = {k \in 1..Len(loaded) : Matches(loaded[k])}
  /\ pc' = "found"
  /\ UNCHANGED <<history, newestFirst, query, loaded, left>>

RequestFails ==
  /\ \/ pc \in {"ask"}
     \/ pc = "fetched" /\ ReachesBack
     \/ pc = "following" /\ left # <<>>
  /\ pc' = "raised"
  /\ UNCHANGED <<history, newestFirst, query, loaded, left, found>>

LookupInit ==
  /\ history \in Histories /\ newestFirst \in BOOLEAN
  /\ query = [form |-> NoForm, from |-> NoDate, to |-> NoDate, paginate |-> FALSE]
  /\ pc = "ask" /\ loaded = <<>> /\ left = <<>> /\ found = {}

LookupNext ==
  \/ \E q \in Queries : Ask(q)
  \/ Paginate \/ FollowFile \/ Match \/ RequestFails

LookupSpec == LookupInit /\ [][LookupNext]_lookupVars

-----------------------------------------------------------------------------
(* Properties.                                                             *)

Wanted == {i \in 1..Len(history) : Matches(i)}
WindowSplitsADay ==
  Len(history) > Len(Recent) /\ Recent # <<>>
    /\ history[Len(Recent)].date = history[Len(Recent) + 1].date

\* A lookup that gives a lower date is exact however old the filing is: it returns
\* every filing of the issuer that matches, once each, unless the lower date is the
\* very day on which the window ends and that day goes on in an older file.
DatedLookupsAreExact ==
  (pc = "found" /\ query.from # NoDate) =>
    \/ {loaded[k] : k \in found} = Wanted /\ Cardinality(found) = Cardinality(Wanted)
    \/ WindowSplitsADay /\ query.from = history[Len(Recent)].date

=============================================================================
