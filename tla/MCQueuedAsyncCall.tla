-------------------------- MODULE MCQueuedAsyncCall --------------------------
(***************************************************************************)
(* Small instances of the modules on how callbacks are called: of          *)
(* QueuedAsyncCall, with calls enough for one to be enqueued in every      *)
(* phase of a turn while another waits behind the running one; of          *)
(* AsyncNdbContext; and of Promises.  They share no state, and a behaviour *)
(* shows one of the three.                                                 *)
(***************************************************************************)
EXTENDS QueuedAsyncCall, Promises

CONSTANTS Ndb, MaxSends

VARIABLES tx, place, sends, listener, signalled, calling, shutdown_flag, deleted
asyncVars == <<tx, place, sends, listener, signalled, calling, shutdown_flag, deleted>>

A == INSTANCE AsyncNdbContext

ASSUME A!AsyncConstants

-----------------------------------------------------------------------------
NoCalls == queue = <<>> /\ returned = {}

Calls == A!Init /\ PromiseInit /\ Next /\ UNCHANGED <<asyncVars, promiseVars>>
Executes == NoCalls /\ PromiseInit /\ A!Next /\ UNCHANGED <<vars, promiseVars>>
Thens == NoCalls /\ A!Init /\ PromiseNext /\ UNCHANGED <<vars, asyncVars>>

CallbackInit == Init /\ A!Init /\ PromiseInit

CallbackSpec ==
  /\ CallbackInit /\ [][Calls \/ Executes \/ Thens]_<<vars, asyncVars, promiseVars>>
  /\ Fairness
  /\ \A n \in Ndb : WF_asyncVars(NoCalls /\ PromiseInit /\ A!Push(n))
                    /\ WF_asyncVars(NoCalls /\ PromiseInit /\ A!Completed(n))
  /\ WF_asyncVars(NoCalls /\ PromiseInit /\ A!Listen) /\ WF_asyncVars(NoCalls /\ PromiseInit /\ A!WaitEnds)
  /\ WF_asyncVars(NoCalls /\ PromiseInit /\ A!IoCompleted)
  /\ WF_asyncVars(NoCalls /\ PromiseInit /\ A!CompleteCallbacks)
  /\ WF_asyncVars(NoCalls /\ PromiseInit /\ A!Delete)
  /\ PromiseFairness

\* Everybody is called back: each call of a queue returns, each transaction sent on the
\* asynchronous API is called back unless the connection was closed before it could be
\* (AsyncNdbContext.cpp), and each who has called then on a promise that is settled is
\* told (Promise.js).
EverybodyIsCalledBack ==
  EveryCallReturns /\ A!EveryExecuteIsCalledBack /\ EveryListenerIsTold
=============================================================================
