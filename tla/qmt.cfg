SPECIFICATION Spec
CONSTANTS
  caller = caller
  caller2 = caller2
  key = key
  key2 = key2
  terms = terms
  terms2 = terms2
  badTerms = badTerms
  thread1 = thread1
  thread2 = thread2
  NoText = NoText
  Callers = {caller}
  ClientIds = {key}
  Terms = {terms, terms2, badTerms}
  Acceptable = {terms, terms2}
  PaperSubmit = TRUE
  Threads = {thread1, thread2}
  MaxRequests = 3
  MaxDuplicates = 1
  MaxRestarts = 1
INVARIANTS
  OneOrderUnlessRaced
  ReceiptsAreTruthful
  AuditIsComplete
  AcknowledgedCancelsHold
PROPERTIES
  BookKept
SYMMETRY MCSymmetry
CHECK_DEADLOCK FALSE
