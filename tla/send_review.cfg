SPECIFICATION Spec
CONSTANTS
  Draft = {d1, d2}
  Req = {r1, r2}
  Worker = worker
  Free = free
  NoJob = noJob
  NoDraft = noDraft
  Enrolment = {"reviewMode"}
  Ops = {"replan", "regenerate", "approve", "review_on", "retry"}
  MaxRetries = 1
  MaxCrashes = 0
  MaxWipes = 1
  MaxAccepts = 2
SYMMETRY Symmetry
INVARIANTS HeldAwaitsReview
PROPERTIES UnapprovedNeverSent CancelledIsFinal
