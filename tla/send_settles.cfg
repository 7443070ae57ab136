SPECIFICATION FairSpec
CONSTANTS
  Draft = {d1, d2}
  Req = {r1}
  Worker = worker
  Free = free
  NoJob = noJob
  NoDraft = noDraft
  Enrolment = {"paused", "reviewMode"}
  Ops = {"first_draft", "delete", "approve", "pause", "resume", "docs_done", "docs_reopen", "admin_pause", "unpause", "review_off"}
  MaxRetries = 1
  MaxCrashes = 0
  MaxWipes = 0
  MaxAccepts = 2
PROPERTIES PendingSendSettles
INVARIANTS TypeOK
