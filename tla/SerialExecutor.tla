--------------------------- MODULE SerialExecutor ---------------------------
(***************************************************************************)
(* What QueuedAsyncCall promises (the comment at the head of               *)
(* QueuedAsyncCall.js): the calls of one queue "have to run one at a       *)
(* time".  A call is submitted once, calls start in the order of           *)
(* submission, none starts before the previous one has returned, and a     *)
(* call submitted to an idle executor starts at once.                      *)
(***************************************************************************)
EXTENDS Sequences

CONSTANTS Call,  \* the calls of one queue
          None   \* no call

VARIABLES pending,   \* the calls submitted and not started, oldest first
          active,    \* the call in progress, or None
          finished   \* the calls that have returned

vars == <<pending, active, finished>>

InOrder == {pending[i] : i \in DOMAIN pending}

Init == /\ pending = <<>>
        /\ active = None
        /\ finished = {}

Submit(c) ==
  /\ c \notin InOrder \cup finished \cup {active}
  /\ IF active = None /\ pending = <<>>
     THEN active' = c /\ UNCHANGED pending
     ELSE pending' = Append(pending, c) /\ UNCHANGED active
  /\ UNCHANGED finished

Start == /\ active = None
         /\ pending # <<>>
         /\ active' = Head(pending)
         /\ pending' = Tail(pending)
         /\ UNCHANGED finished

Finish == /\ active # None
          /\ active' = None
          /\ finished' = finished \cup {active}
          /\ UNCHANGED pending

Next == (\E c \in Call : Submit(c)) \/ Start \/ Finish

Spec == Init /\ [][Next]_vars /\ WF_vars(Start) /\ WF_vars(Finish)
=============================================================================
