SPECIFICATION Spec
CONSTANTS
  Draft = {d1, d2}
  Req = {r1, r2}
  Worker = worker
  Free = free
  NoJob = noJob
  NoDraft = noDraft
  Enrolment = {"paused"}
  Ops = {"inbound", "replan", "pause", "resume", "due_date", "overdue", "send_now", "block", "unblock"}
  MaxRetries = 1
  MaxCrashes = 1
  MaxWipes = 0
  MaxAccepts = 2
SYMMETRY Symmetry
INVARIANTS OneQueuedUnlessCrashed
PROPERTIES PausedStaysQuiet CancelledIsFinal SentIsFinal
