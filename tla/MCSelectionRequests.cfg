\* Requests, ledger, provider calls and process stops of one match: two
\* confirmations of the facts, three requests, two process stops.
CONSTANTS
  MaxSessions = 1
  MaxFacts = 2
  MaxJobs = 3
  MaxMetadata = 0
  MaxRedelivered = 0
  MaxCrashes = 2
SPECIFICATION Spec
INVARIANTS
  TypeOK
  PendingIsOwned
  SendsAreAccounted
  UnknownDeliveryEndsRequests
  SelectionOffersHold
PROPERTIES
  RequestsSettle
CHECK_DEADLOCK FALSE
