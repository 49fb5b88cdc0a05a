------------------------------ MODULE FilingHop ------------------------------
(***************************************************************************)
(* The two EDGAR handlers over the lookup: _h_submissions_index, which     *)
(* ends with it, and _h_filing (agent/tools.py), which opens one filing.   *)
(* The model may give a filing's url or its accession, or leave it to the  *)
(* handler to find the filing by form and dates; and it may name the       *)
(* document to open, rightly or not.                                       *)
(*                                                                         *)
(* A document is known by what its name and type tell of it: "body" is the *)
(* filing's own document, "other" one that cannot be told from it.         *)
(***************************************************************************)
EXTENDS EdgarLookup

CONSTANTS
  Listings,   \* directories the archive may serve (external): sequences of documents
  IndexNames, \* what an index row may name as its primary document (external)
  Guesses     \* what the model may name, NoName where it names nothing

Documents == {"body", "other", "exhibit", "wrapper", "text"}
NoName == ""
Names == Documents \union {NoName, "unlisted"}

ASSUME FilingHopAssumption ==
  /\ Listings \subseteq Seq(Documents)
  /\ IndexNames \subseteq Names /\ Guesses \subseteq Names

VARIABLES
  stage,     \* asked, index, locate, directory, body, url; opened, refused, raised
  guess,     \* primary_document as the model gave it
  rowName,   \* chosen.primary_document
  chosen,    \* place of the filing that is opened, 0 while there is none
  listing,   \* the documents of its directory
  body       \* the document opened

openingVars == <<stage, guess, rowName, chosen, listing, body>>
filingVars == <<lookupVars, openingVars>>

\* primary_document or chosen.primary_document or None
Pin == IF guess # NoName THEN guess ELSE rowName

Htmls == {"body", "other", "exhibit"}   \* and no wrapper
NonExhibits == Htmls \ {"exhibit"}
Listed(docs) == {docs[i] : i \in 1..Len(docs)}

\* _pick_primary_document: the first document that qualifies, the less the better.
FirstOf(docs, kinds) ==
  {docs[i] : i \in {k \in 1..Len(docs) :
                     docs[k] \in kinds /\ \A j \in 1..(k - 1) : docs[j] \notin kinds}}
PrimaryPick(docs) ==
  IF FirstOf(docs, NonExhibits) # {} THEN FirstOf(docs, NonExhibits)
  ELSE IF FirstOf(docs, Htmls) # {} THEN FirstOf(docs, Htmls)
  ELSE FirstOf(docs, Documents)

\* fetch_filing: a pin counts only if the directory lists it.
BodyOf(docs) == IF Pin \in Listed(docs) THEN {Pin} ELSE PrimaryPick(docs)

-----------------------------------------------------------------------------

AskIndex(q) == stage = "asked" /\ Ask(q) /\ stage' = "index"
               /\ UNCHANGED <<guess, rowName, chosen, listing, body>>

\* find_filings is called without paginate.
AskByWindow(q, name) ==
  /\ stage = "asked" /\ ~q.paginate
  /\ q.form # NoForm \/ q.from # NoDate \/ q.to # NoDate
  /\ Ask(q)
  /\ guess' = name /\ stage' = "locate"
  /\ UNCHANGED <<rowName, chosen, listing, body>>

AskByAccession(i, name) ==
  /\ stage = "asked"
  /\ chosen' = i /\ guess' = name
  /\ stage' = "directory"
  /\ UNCHANGED <<lookupVars, rowName, listing, body>>

AskByUrl ==
  /\ stage = "asked"
  /\ stage' = "url"
  /\ UNCHANGED <<lookupVars, guess, rowName, chosen, listing, body>>

\* Neither url nor accession nor window, or an accession with other than digits in it.
AskBadly ==
  /\ stage = "asked"
  /\ stage' = "refused"
  /\ UNCHANGED <<lookupVars, guess, rowName, chosen, listing, body>>

LookupGoesOn ==
  /\ stage \in {"index", "locate"}
  /\ \/ Paginate \/ FollowFile \/ Match
     \/ RequestFails
  /\ UNCHANGED openingVars

\* Faulty variant: the last match is taken.
ChooseLast(name) ==
  /\ stage = "locate" /\ pc = "found"
  /\ \E k \in found : (\A m \in found : m <= k) /\ chosen' = loaded[k]
  /\ rowName' = name
  /\ stage' = "directory"
  /\ UNCHANGED <<lookupVars, guess, listing, body>>

\* matches[0], "newest within the window", and its row of the index.
Choose(name) ==
  /\ stage = "locate" /\ pc = "found"
  /\ \E k \in found : (\A m \in found : k <= m) /\ chosen' = loaded[k]
  /\ rowName' = name
  /\ stage' = "directory"
  /\ UNCHANGED <<lookupVars, guess, listing, body>>

NoMatch ==
  /\ stage = "locate" /\ pc = "found" /\ found = {}
  /\ stage' = "refused"
  /\ UNCHANGED <<lookupVars, guess, rowName, chosen, listing, body>>

FetchDirectory(docs) ==
  /\ stage = "directory"
  /\ listing' = docs
  /\ stage' = IF BodyOf(docs) = {} THEN "refused" ELSE "body"
  /\ UNCHANGED <<lookupVars, guess, rowName, chosen, body>>

FetchBody ==
  /\ stage = "body"
  /\ body' \in BodyOf(listing)
  /\ stage' = "opened"
  /\ UNCHANGED <<lookupVars, guess, rowName, chosen, listing>>

FetchUrl ==
  /\ stage = "url"
  /\ stage' = "opened"
  /\ UNCHANGED <<lookupVars, guess, rowName, chosen, listing, body>>

\* Retries spent, or a status that is not retried; so for a document not in the filing.
FetchFails ==
  /\ stage \in {"directory", "body", "url"}
  /\ stage' = "raised"
  /\ UNCHANGED <<lookupVars, guess, rowName, chosen, listing, body>>

FilingInit ==
  /\ LookupInit
  /\ stage = "asked" /\ guess = NoName /\ rowName = NoName
  /\ chosen = 0 /\ listing = <<>> /\ body = NoName

FilingNext ==
  \/ \E q \in Queries : AskIndex(q)
  \/ \E q \in Queries, name \in Guesses : AskByWindow(q, name)
  \/ \E i \in 1..Len(history), name \in Guesses : AskByAccession(i, name)
  \/ AskByUrl \/ AskBadly \/ LookupGoesOn
  \/ \E name \in IndexNames : Choose(name)
  \/ NoMatch
  \/ \E docs \in Listings : FetchDirectory(docs)
  \/ FetchBody \/ FetchUrl \/ FetchFails

FilingSpec == FilingInit /\ [][FilingNext]_filingVars

-----------------------------------------------------------------------------
(* Properties.                                                             *)

ByWindow == query.form # NoForm \/ query.from # NoDate \/ query.to # NoDate
Newest(i) == i \in Wanted /\ \A j \in Wanted : history[j].date <= history[i].date

\* An upper date alone does not make the lookup read the older files, nor does a lower
\* date that is the day on which the window ends.
OlderUnread ==
  \/ query.from = NoDate /\ Len(history) > Len(Recent)
  \/ WindowSplitsADay /\ query.from = history[Len(Recent)].date

\* "[resolved to the newest of ... matching filings]": what is found by form and date
\* is the issuer's newest match, and "no filing matches" is said only of an issuer
\* that has none - except as OlderUnread says, and that among matches that are all in
\* older files the newest comes first only if the index lists those files so.
NewestIsChosen ==
  /\ (stage \in {"directory", "body", "opened"} /\ ByWindow) =>
       \/ Newest(chosen)
       \/ ~newestFirst /\ chosen \in Wanted /\ \A i \in Wanted : i > Len(Recent)
  /\ (stage = "refused" /\ ByWindow /\ chosen = 0) => Wanted = {} \/ OlderUnread

\* The docstring of fetch_filing: a name the filing does not list "falls back to the
\* directory's own primary pick rather than constructing a URL that 404s"; so no
\* guess makes a filing unreadable that has a document, and an exhibit or a wrapper
\* page is opened only if it was named or there is nothing better.
BodyIsReadable ==
  /\ (stage = "refused" /\ chosen # 0) => listing = <<>>
  /\ (stage = "opened" /\ chosen # 0) =>
       /\ body \in Listed(listing)
       /\ body \in {"body", "other", Pin} \/ Listed(listing) \intersect {"body", "other"} = {}

\* The hop opens the right filing, and in it a document that is there.
RightFilingIsOpened == NewestIsChosen /\ BodyIsReadable

=============================================================================
