CONSTANTS
  MaxPerPage = 3
  PageLimits = {3}
  MaxEntries = 2
  MaxAdded = 0
  CompanyNames <- MCNames
  Within <- MCWithin
  Searches <- MCSearches
SPECIFICATION RegistrySpec
INVARIANT ExactNameIsChosen
CHECK_DEADLOCK FALSE
