CONSTANTS
  Histories <- MCHistories
  Queries <- MCQueries
  Window = 2
  Listings <- MCListings
  IndexNames <- MCIndexNames
  Guesses <- MCGuesses
  MaxPerPage = 3
  PageLimits = {2, 3, 4}
  MaxEntries = 8
  MaxAdded = 2
  CompanyNames <- MCNames
  Within <- MCWithin
  Searches <- MCSearches
  MaxEvents = 4
  MaxOutages = 2
  t1 = t1
  t2 = t2
  Threads = {t1, t2}
  Intervals = {0, 2}
  MaxRetries = 2
  Cap = 2
  RetryAfters = {0, 3}
  MaxLag = 1
  MaxTime = 2
SPECIFICATION ServicesSpec
INVARIANTS BudgetIsKept DatedLookupsAreExact RightFilingIsOpened
           NamedCompanyIsResolved ListsAreReadWhole TableIsLogLessFailures
PROPERTIES SlotsAreSpaced RequestsEnd RegistryHopEnds
CHECK_DEADLOCK FALSE
