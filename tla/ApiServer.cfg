SPECIFICATION Spec
CONSTANTS
  Root = root
  Users = {a}
  Queues = {q}
  Passwords = {"p"}
  Threads = {t1, t2}
  Tags = {x}
  Names = {c}
  Ids = {"i", "j"}
  Creds = {"k", "l"}
  Contents <- Yamls
  Cpus = {500, 1000}
  Mems = {2}
  Limits = {0, 1, 2}
  Runs = {r1, r2}
  Workers = {w1, w2}
  MaxWrites = 3
  MaxEvents = 2
  MaxRequests = 4
  MaxRows = 3
  MaxGrants = 2
  MaxTime = 2
  CatalogRows = 2
  MaxErrors = 1
  MaxRetries = 2
  MaxFaults = 1
  ImageFaults = 2
INVARIANTS TokensDieWithPassword GrantsHaveOwners QueuesAgree PagesAreRight NoRunForgotten
PROPERTY CatalogIsKept
CHECK_DEADLOCK FALSE
