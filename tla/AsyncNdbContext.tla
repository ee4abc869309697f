--------------------------- MODULE AsyncNdbContext ---------------------------
(***************************************************************************)
(* The asynchronous API of NDB (AsyncNdbContext.cpp, with the multi-wait   *)
(* API of MySQL Cluster 7.3.3 and later): transactions are sent by worker  *)
(* threads, the listener thread waits for their Ndb objects in a wait      *)
(* group, and the main thread is told by uv_async_send, which may coalesce *)
(* signals, and calls back for all that is ready.                          *)
(*                                                                         *)
(* An Ndb object has one transaction in flight, as its NdbSession sends    *)
(* them through its execQueue (module NdbSession).                         *)
(***************************************************************************)
EXTENDS Naturals

CONSTANTS
  Ndb,        \* the Ndb objects, one per NdbSession
  MaxSends    \* bound on the transactions of an Ndb object

AsyncConstants == MaxSends \in Nat

VARIABLES
  tx,         \* the transaction of an Ndb: "none", "running" or "completed"
  place,      \* of an Ndb in the wait group, see below
  sends,      \* transactions sent
  listener,   \* the thread: "testing" its flag, "waiting", "final" wait, "ended"
  signalled,  \* async_handle has a signal that was not handled yet
  calling,    \* completeCallbacks is running
  shutdown_flag,
  deleted     \* the destructor has run

vars == <<tx, place, sends, listener, signalled, calling, shutdown_flag, deleted>>

\* An Ndb is "sending" until it is pushed; it is "new" until the listener waits for
\* it, then it is "waited" for, and "ready" until it is popped.
Init ==
  /\ tx = [n \in Ndb |-> "none"] /\ place = [n \in Ndb |-> "out"] /\ sends = [n \in Ndb |-> 0]
  /\ listener = "testing" /\ signalled = FALSE /\ calling = FALSE
  /\ shutdown_flag = FALSE /\ deleted = FALSE

-----------------------------------------------------------------------------
(* The senders, and NDB.                                                   *)

\* executeAsynch: the transaction is sent before its Ndb is pushed.
ExecuteAsynch(n) ==
  /\ ~deleted /\ place[n] = "out" /\ sends[n] < MaxSends
  /\ tx' = [tx EXCEPT ![n] = "running"]
  /\ place' = [place EXCEPT ![n] = "sending"]
  /\ sends' = [sends EXCEPT ![n] = @ + 1]
  /\ UNCHANGED <<listener, signalled, calling, shutdown_flag, deleted>>

Push(n) ==
  /\ place[n] = "sending"
  /\ place' = [place EXCEPT ![n] = "new"]
  /\ UNCHANGED <<tx, sends, listener, signalled, calling, shutdown_flag, deleted>>

\* The data nodes have answered.
Completed(n) ==
  /\ tx[n] = "running"
  /\ tx' = [tx EXCEPT ![n] = "completed"]
  /\ UNCHANGED <<place, sends, listener, signalled, calling, shutdown_flag, deleted>>

-----------------------------------------------------------------------------
(* The listener thread.                                                    *)

\* Test the flag, and begin to wait for all that has been pushed.
Listen ==
  /\ listener = "testing"
  /\ listener' = IF shutdown_flag THEN "final" ELSE "waiting"
  /\ place' = [n \in Ndb |-> IF place[n] = "new" THEN "waited" ELSE place[n]]
  /\ UNCHANGED <<tx, sends, signalled, calling, shutdown_flag, deleted>>

\* The wait ends: some are ready, or it was woken up, or its time is over.
WaitEnds ==
  /\ listener \in {"waiting", "final"}
  /\ LET ready == {n \in Ndb : place[n] = "waited" /\ tx[n] = "completed"} IN
     /\ place' = [n \in Ndb |-> IF n \in ready THEN "ready" ELSE place[n]]
     /\ signalled' = (signalled \/ ready # {})
  /\ listener' = IF listener = "final" THEN "ended" ELSE "testing"
  /\ UNCHANGED <<tx, sends, calling, shutdown_flag, deleted>>

-----------------------------------------------------------------------------
(* The main thread.                                                        *)

\* ioCompleted
IoCompleted ==
  /\ signalled /\ ~calling /\ ~deleted
  /\ signalled' = FALSE /\ calling' = TRUE
  /\ UNCHANGED <<tx, place, sends, listener, shutdown_flag, deleted>>

\* Mutant: the rest is left to the next signal.
AllPopped_Whenever == TRUE

\* waitgroup->pop() returns null
AllPopped == \A n \in Ndb : place[n] # "ready"

\* completeCallbacks: the user's callback may send again.
CompleteCallbacks ==
  /\ calling
  /\ \/ \E n \in Ndb :
          /\ place[n] = "ready"
          /\ tx' = [tx EXCEPT ![n] = "none"] /\ place' = [place EXCEPT ![n] = "out"]
          /\ UNCHANGED calling
     \/ /\ AllPopped
        /\ calling' = FALSE
        /\ UNCHANGED <<tx, place>>
  /\ UNCHANGED <<sends, listener, signalled, shutdown_flag, deleted>>

\* NdbConnection.close
Shutdown ==
  /\ ~shutdown_flag /\ ~calling
  /\ shutdown_flag' = TRUE
  /\ UNCHANGED <<tx, place, sends, listener, signalled, calling, deleted>>

\* The destructor, 100 ms later, when it has joined the listener thread.
Delete ==
  /\ shutdown_flag /\ listener = "ended" /\ ~calling /\ ~deleted
  /\ deleted' = TRUE
  /\ UNCHANGED <<tx, place, sends, listener, signalled, calling, shutdown_flag>>

-----------------------------------------------------------------------------
Next ==
  \/ \E n \in Ndb : ExecuteAsynch(n) \/ Push(n) \/ Completed(n)
  \/ Listen \/ WaitEnds \/ IoCompleted \/ CompleteCallbacks \/ Shutdown \/ Delete

\* The threads run, a wait ends, NDB answers.  Nothing is assumed of who sends or
\* shuts down.
Fairness ==
  /\ \A n \in Ndb : WF_vars(Push(n)) /\ WF_vars(Completed(n))
  /\ WF_vars(Listen) /\ WF_vars(WaitEnds)
  /\ WF_vars(IoCompleted) /\ WF_vars(CompleteCallbacks) /\ WF_vars(Delete)

Spec == Init /\ [][Next]_vars /\ Fairness

-----------------------------------------------------------------------------
\* Every execute is called back, however signals are coalesced and sends and callbacks
\* interleave, but for those that the final wait did not wait for or that had not
\* completed by its end, and those that are ready when the context is deleted
\* (runListenerThread, completeCallbacks).  As each Ndb sends finitely often: again and
\* again nobody waits.
Missed(n) == (listener = "ended" /\ place[n] \in {"sending", "new", "waited"}) \/ deleted
EveryExecuteIsCalledBack == []<>(\A n \in Ndb : tx[n] = "none" \/ Missed(n))
=============================================================================
