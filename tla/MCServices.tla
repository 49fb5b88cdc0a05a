----------------------------- MODULE MCServices -----------------------------
(* The modules about the services behind the tools, in one run: the HTTP      *)
(* primitives, the EDGAR and the Companies House hops, and the audit          *)
(* database.  They share no state, so each behaviour is one of theirs, from   *)
(* that module's own initial states, while the other three are at rest.       *)
EXTENDS MCFilingHop, MCRegistryHop, AuditSink, RetryLimiter

CONSTANTS t1, t2

VARIABLE service   \* the module whose behaviour this is

servicesVars == <<service, retryVars, filingVars, registryVars, auditSinkVars>>

-----------------------------------------------------------------------------
(* At rest: every request over, nothing looked up, nothing recorded.         *)

RetryRests ==
  /\ minInterval = 0 /\ now = 0 /\ lock = None /\ nextAllowed = 0 /\ lastSlot = {}
  /\ at = [t \in Threads |-> "over"]
  /\ outcome = [t \in Threads |-> "ok"]
  /\ sent = [t \in Threads |-> 1]
  /\ wake = [t \in Threads |-> 0]
  /\ attempt = [t \in Threads |-> 0]
  /\ slept = [t \in Threads |-> 0]

FilingRests ==
  /\ history = <<>> /\ newestFirst = TRUE
  /\ query = [form |-> NoForm, from |-> NoDate, to |-> NoDate, paginate |-> FALSE]
  /\ pc = "found" /\ loaded = <<>> /\ left = <<>> /\ found = {}
  /\ stage = "opened" /\ guess = NoName /\ rowName = NoName
  /\ chosen = 0 /\ listing = <<>> /\ body = NoName

RegistryRests ==
  /\ entries = <<>> /\ pageLimit = MaxPerPage /\ totals = "exact" /\ added = 0
  /\ paging = "over" /\ items = <<>> /\ start = 0
  /\ inquiry = [operation |-> "search", number |-> NoNumber, name |-> NoCompany]
  /\ hits = <<>> /\ subject = NoNumber /\ inquiring = "told"

AuditSinkRests ==
  /\ conn = "none" /\ table = FALSE /\ rows = <<>> /\ logged = {} /\ recorded = 0
  /\ up = TRUE /\ outages = 0

-----------------------------------------------------------------------------

ServicesInit ==
  \/ service = "http" /\ RetryInit /\ FilingRests /\ RegistryRests /\ AuditSinkRests
  \/ service = "edgar" /\ FilingInit /\ RetryRests /\ RegistryRests /\ AuditSinkRests
  \/ service = "register" /\ RegistryInit /\ RetryRests /\ FilingRests /\ AuditSinkRests
  \/ service = "database" /\ AuditSinkInit /\ RetryRests /\ FilingRests /\ RegistryRests

Http(step) ==
  /\ service = "http" /\ step
  /\ UNCHANGED <<service, filingVars, registryVars, auditSinkVars>>
Register(step) ==
  /\ service = "register" /\ step
  /\ UNCHANGED <<service, retryVars, filingVars, auditSinkVars>>

ServicesNext ==
  \/ Http(RetryNext)
  \/ /\ service = "edgar" /\ FilingNext
     /\ UNCHANGED <<service, retryVars, registryVars, auditSinkVars>>
  \/ Register(RegistryNext)
  \/ /\ service = "database" /\ AuditSinkNext
     /\ UNCHANGED <<service, retryVars, filingVars, registryVars>>

\* The fairness of RetrySpec and RegistrySpec.
ServicesSpec ==
  /\ ServicesInit /\ [][ServicesNext]_servicesVars
  /\ WF_servicesVars(Http(Tick))
  /\ \A t \in Threads : WF_servicesVars(Http(Step(t)))
  /\ WF_servicesVars(Register(HandlerStep))
=============================================================================
