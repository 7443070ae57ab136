SPECIFICATION FairSpec
CONSTANTS
  Msg = {m1}
  Handler = {h1}
  Worker = worker
  Free = free
  NoMsg = noMsg
  MaxAged = 1
  Events = {"stop", "kill", "death"}
PROPERTIES HungWorkDoesNotBlock
INVARIANTS CountIsClean NothingForgotten
