SPECIFICATION FairSpec
CONSTANTS
  Emails = {a, b}
  Threads = {t1, t2}
  Free = Free
  TheJob = TheJob
  Total = 1
  InbTotal = 2
  MaxBytes = 1
  MaxOps = 2
  MaxFails = 1
INVARIANTS TypeOK BooksAgree InStep
PROPERTIES Metered OverQuotaIsShutOut
CHECK_DEADLOCK FALSE
