------------------------------ MODULE FetchLife ------------------------------
(***************************************************************************)
(* What a fetch session promises, whatever jobs, timers and messages do:   *)
(* it is agreed once, may log in while it has not ended, may be put back   *)
(* before its login while it holds no browser, and ends for good.  A login *)
(* is taken on at the browser runner for a session that is live, and only  *)
(* while fewer browsers than the limit are open; a browser is what a login *)
(* ends in.  That may be after the end of the session: nobody calls a      *)
(* login back.                                                             *)
(***************************************************************************)
EXTENDS Integers, FiniteSets

CONSTANTS Sessions, Limit

VARIABLES
  phase,   \* absent, agreed, live or ended
  due,     \* sessions that are logging in at the runner
  open     \* sessions with a logged-in page

life == <<phase, due, open>>

Init == phase = [s \in Sessions |-> "absent"] /\ due = {} /\ open = {}

Moves(s, from, to) ==
  /\ phase[s] \in from
  /\ phase' = [phase EXCEPT ![s] = to]

Agree(s)   == Moves(s, {"absent"}, "agreed") /\ UNCHANGED <<due, open>>
Login(s)   == Moves(s, {"agreed"}, "live") /\ UNCHANGED <<due, open>>
BackOff(s) == Moves(s, {"live"}, "agreed") /\ s \notin due \cup open /\ UNCHANGED <<due, open>>

End(s) ==
  /\ Moves(s, {"agreed", "live"}, "ended")
  /\ due' \in {due, due \ {s}}
  /\ open' \in {open, open \ {s}}

TakeOn(s) ==
  /\ phase[s] = "live"
  /\ s \notin due \cup open
  /\ Cardinality(open) < Limit
  /\ due' = due \cup {s}
  /\ UNCHANGED <<phase, open>>

Open(s) ==
  /\ s \in due
  /\ due' = due \ {s}
  /\ open' = open \cup {s}
  /\ UNCHANGED phase

GiveUp(s) == due' = due \ {s} /\ UNCHANGED <<phase, open>>

Close(s) == open' = open \ {s} /\ UNCHANGED <<phase, due>>

Next == \E s \in Sessions :
  \/ Agree(s) \/ Login(s) \/ BackOff(s) \/ End(s)
  \/ TakeOn(s) \/ Open(s) \/ GiveUp(s) \/ Close(s)

Spec == Init /\ [][Next]_life
=============================================================================
