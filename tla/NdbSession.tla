----------------------------- MODULE NdbSession -----------------------------
(***************************************************************************)
(* The transactions of one NDB session: NdbSession.js and                  *)
(* NdbTransactionHandler.js over the TransactionImpl contexts of           *)
(* SessionImpl.cpp and TransactionImpl.cpp.                                *)
(*                                                                         *)
(* A handler (DBTransactionHandler) seizes a context (TransactionImpl) on  *)
(* its first execute, runs every call on the session's execQueue, and      *)
(* releases the context when it has executed with Commit or Rollback.  At  *)
(* most ndb_session_concurrency contexts are open; further handlers wait   *)
(* in seizeTxQueue.                                                        *)
(*                                                                         *)
(* An action is one JavaScript turn, except that onExecute is split where  *)
(* it runs the user's operation callbacks, which may call the session      *)
(* again: Completed... up to the callbacks, Reply from there to its end.   *)
(* An exception or a failed assertion ends the process: panic is set and   *)
(* no action is enabled any more.                                          *)
(***************************************************************************)
EXTENDS Integers, Sequences, FiniteSets

CONSTANTS
  Handler,      \* DBTransactionHandler objects
  Request,      \* user calls of execute, commit and rollback
  Context,      \* TransactionImpl objects: ndb_session_concurrency of them
  None,
  Kinds,        \* the operation lists executed: "key", "autoInc", "scan", "query"
  Faults,       \* "start", "exec", "scan", "fetch", "timeout": what NDB may report
  AsyncApi,     \* use_ndb_async_api
  Pipelined,    \* may the user call a begun transaction before it has answered?
  MaxRetries,   \* of a scan that times out (10 in canRetry)
  MaxTimeouts   \* bound on the timeouts a handler meets

ASSUME ConstantsOK ==
  /\ None \notin Handler \cup Request \cup Context \cup {"ok", "pending", "ROLLBACK"}
  /\ IsFiniteSet(Context)
  /\ Kinds \subseteq {"key", "autoInc", "scan", "query"}
  /\ Faults \subseteq {"start", "exec", "scan", "fetch", "timeout"}
  /\ AsyncApi \in BOOLEAN /\ Pipelined \in BOOLEAN
  /\ MaxRetries \in Nat /\ MaxTimeouts \in Nat

MaxTxContexts == Cardinality(Context)

VARIABLES
  (* DBTransactionHandler *)
  created,         \* the handlers constructed so far
  autocommit, sentSeizeImpl, impl, execCount, retries,
  txError,         \* handler.error # null
  (* NdbSession *)
  tx,              \* the session's current handler
  execQueue,       \* calls; the head is in progress
  seizeTxQueue,    \* the requests whose onContext callback waits
  openTxContexts,
  (* SessionImpl and TransactionImpl *)
  freeList, allocated,
  ndbOpen,         \* ndbTransaction # 0
  (* the user's calls *)
  owner, kind, mode, status, result,
  opCtx,           \* the context the operations of the request belong to
  replying,        \* the request whose operation callbacks run, or None
  panic,
  (* history *)
  nativeOk,        \* the native Commit or Rollback of the request succeeded
  work             \* what became of the work of an executed request

handlerVars == <<created, autocommit, sentSeizeImpl, impl, execCount, retries, txError>>
queueVars == <<execQueue, seizeTxQueue, openTxContexts>>
nativeVars == <<freeList, allocated, ndbOpen>>
requestVars == <<owner, kind, mode, status, result, opCtx>>
historyVars == <<nativeOk, work>>
vars == <<handlerVars, tx, queueVars, nativeVars, requestVars, replying, panic, historyVars>>

Mode == {"COMMIT", "NOCOMMIT", "ROLLBACK"}
Step == {"exec", "scan", "fetch", "closeSuccess", "closeRetry", "closeError"}
Status == {"new", "seizing", "autoInc", "queued", "fetching", "replying", "done"}
Ends == {"commit", "rollback"}
Scans == {"scan", "query"}

\* A QueuedAsyncCall on execQueue.
Call == [req : Request, step : Step, txIsOpen : BOOLEAN]
NewCall(r, s, open) == [req |-> r, step |-> s, txIsOpen |-> open]

TypeOK ==
  /\ created \subseteq Handler
  /\ autocommit \in [Handler -> BOOLEAN]
  /\ sentSeizeImpl \in [Handler -> BOOLEAN]
  /\ impl \in [Handler -> Context \cup {None}]
  /\ execCount \in [Handler -> Nat]
  /\ retries \in [Handler -> Nat]
  /\ txError \in [Handler -> BOOLEAN]
  /\ tx \in created \cup {None}
  /\ execQueue \in Seq(Call)
  /\ seizeTxQueue \in Seq(Request)
  /\ openTxContexts \in Int
  /\ allocated \subseteq Context
  /\ freeList \subseteq allocated
  /\ ndbOpen \in [Context -> BOOLEAN]
  /\ owner \in [Request -> Handler \cup {None}]
  /\ kind \in [Request -> Kinds \cup Ends \cup {None}]
  /\ mode \in [Request -> Mode \cup {None}]
  /\ status \in [Request -> Status]
  /\ result \in [Request -> {None, "ok", "error"}]
  /\ opCtx \in [Request -> Context \cup {None}]
  /\ replying \in Request \cup {None}
  /\ panic \in {"no", "nullImpl", "notStarted", "txNotOpen", "stillOpen", "staleScan"}
  /\ nativeOk \in [Request -> BOOLEAN]
  /\ work \in [Request -> {None, "pending", "committed", "undone"}]

Init ==
  /\ created = {}
  /\ autocommit = [h \in Handler |-> TRUE]
  /\ sentSeizeImpl = [h \in Handler |-> FALSE]
  /\ impl = [h \in Handler |-> None]
  /\ execCount = [h \in Handler |-> 0]
  /\ retries = [h \in Handler |-> 0]
  /\ txError = [h \in Handler |-> FALSE]
  /\ tx = None
  /\ execQueue = <<>>
  /\ seizeTxQueue = <<>>
  /\ openTxContexts = 0
  /\ freeList = {}
  /\ allocated = {}
  /\ ndbOpen = [c \in Context |-> FALSE]
  /\ owner = [r \in Request |-> None]
  /\ kind = [r \in Request |-> None]
  /\ mode = [r \in Request |-> None]
  /\ status = [r \in Request |-> "new"]
  /\ result = [r \in Request |-> None]
  /\ opCtx = [r \in Request |-> None]
  /\ replying = None
  /\ panic = "no"
  /\ nativeOk = [r \in Request |-> FALSE]
  /\ work = [r \in Request |-> None]

-----------------------------------------------------------------------------
(* Running calls on execQueue (run() and runExecCall).                     *)

\* The native call starts an NdbTransaction on its context if there is none.
Opens(c) == c.step = "scan" \/ (c.step = "exec" /\ ~(AsyncApi /\ c.txIsOpen))

\* Ndb::startTransaction returns NULL, which startTransaction stores and
\* tryImmediateStartTransaction reports as a start: assert(ndbTransaction) of
\* executeAsynch fails, or execute and the scans dereference it.
StartFails(c, open, ctx) == "start" \in Faults /\ Opens(c) /\ ~open[ctx[c.req]]

\* executeAsynch asserts that the NdbTransaction was started before.
NotStarted(c, open, ctx) ==
  c.step = "exec" /\ AsyncApi /\ c.txIsOpen /\ ~open[ctx[c.req]]

\* A scan is used after the close of its NdbTransaction, which is undefined:
\* taken to end the process.
ClosedScan(c, open, ctx) ==
  /\ c.step \notin {"exec", "scan"}
  /\ ~open[ctx[c.req]] \/ impl[owner[c.req]] # ctx[c.req]

\* The queue becomes q, and its head is run.  open tells the contexts with an
\* open NdbTransaction, ctx the contexts of the operations.
RunHead(q, open, ctx) ==
  /\ execQueue' = q
  /\ \/ /\ ndbOpen' = IF q # <<>> /\ Opens(Head(q))
                       THEN [open EXCEPT ![ctx[Head(q).req]] = TRUE] ELSE open
        /\ panic' = CASE q # <<>> /\ NotStarted(Head(q), open, ctx) -> "txNotOpen"
                      [] q # <<>> /\ ClosedScan(Head(q), open, ctx) -> "staleScan"
                      [] OTHER -> "no"
     \/ /\ q # <<>> /\ StartFails(Head(q), open, ctx)
        /\ ndbOpen' = open
        /\ panic' = "notStarted"

\* QueuedAsyncCall.enqueue: the call is run at once on an empty queue.
Enqueue(call, ctx) ==
  IF execQueue = <<>>
  THEN RunHead(<<call>>, ndbOpen, ctx)
  ELSE execQueue' = Append(execQueue, call) /\ UNCHANGED <<ndbOpen, panic>>

\* run() and executeScan: count the execute call and enqueue it.  st is the
\* status of the requests before.
Send(r, h, step, c, st) ==
  /\ status' = [st EXCEPT ![r] = "queued"]
  /\ execCount' = [execCount EXCEPT ![h] = @ + 1]
  /\ opCtx' = [opCtx EXCEPT ![r] = c]
  /\ Enqueue(NewCall(r, step, execCount[h] >= 1), opCtx')

Crash(why) == /\ panic' = why
              /\ UNCHANGED <<execQueue, ndbOpen, execCount>>

FirstStep(k) == IF k \in {"scan", "query"} THEN "scan" ELSE "exec"

\* executeSpecific of request r on context c, which is None when a second
\* execute comes before the context.  Auto-increment values are fetched first.
ExecuteSpecific(r, h, k, c, st) ==
  \/ /\ k = "autoInc"
     /\ status' = [st EXCEPT ![r] = "autoInc"]
     /\ UNCHANGED <<execQueue, ndbOpen, execCount, opCtx, panic>>
  \/ /\ k # "autoInc" /\ c # None
     /\ Send(r, h, FirstStep(k), c, st)
  \/ /\ k # "autoInc" /\ c = None
     /\ Crash("nullImpl")
     /\ status' = st
     /\ UNCHANGED opCtx

-----------------------------------------------------------------------------
(* The user's calls.                                                       *)

Unanswered(h) == {r \in Request : owner[r] = h /\ status[r] \notin {"new", "done"}}

\* A user who waits for the answer of each call on a begun transaction, or not.
MayCall(h) == Pipelined \/ Unanswered(h) = {}

\* NdbSession.begin: the session has no current handler, or begin would find
\* the API's transaction active already.
Begin ==
  /\ panic = "no"
  /\ tx = None
  /\ \E h \in Handler \ created :
       /\ created' = created \cup {h}
       /\ autocommit' = [autocommit EXCEPT ![h] = FALSE]
       /\ tx' = h
  /\ UNCHANGED <<sentSeizeImpl, impl, execCount, retries, txError, queueVars,
                 nativeVars, requestVars, replying, panic, historyVars>>

\* SessionImpl::seizeTransaction: from the free list, else a new context.
SeizeTransaction(c) ==
  \/ c \in freeList /\ freeList' = freeList \ {c} /\ UNCHANGED allocated
  \/ /\ freeList = {}
     /\ c \notin allocated
     /\ allocated' = allocated \cup {c}
     /\ UNCHANGED freeList

HasRoom == openTxContexts < MaxTxContexts

\* seizeTransactionContext, with a callback that executes request r.
SeizeTransactionContext(r, h, k) ==
  \/ /\ HasRoom
     /\ openTxContexts' = openTxContexts + 1
     /\ \E c \in Context :
          /\ SeizeTransaction(c)
          /\ impl' = [impl EXCEPT ![h] = c]
          /\ ExecuteSpecific(r, h, k, c, status)
     /\ UNCHANGED seizeTxQueue
  \/ /\ ~HasRoom
     /\ seizeTxQueue' = Append(seizeTxQueue, r)
     /\ status' = [status EXCEPT ![r] = "seizing"]
     /\ UNCHANGED <<openTxContexts, freeList, allocated, impl, execQueue,
                    ndbOpen, execCount, opCtx, panic>>

\* DBTransactionHandler.execute on the session's current handler, which is
\* created when there is none, and retired when it is in autocommit mode.
Execute(r, h, k) ==
  /\ panic = "no"
  /\ status[r] = "new"
  /\ IF tx = None THEN h \notin created ELSE h = tx /\ MayCall(h)
  /\ created' = created \cup {h}
  /\ tx' = IF autocommit[h] THEN None ELSE h
  /\ owner' = [owner EXCEPT ![r] = h]
  /\ kind' = [kind EXCEPT ![r] = k]
  /\ mode' = [mode EXCEPT ![r] = IF autocommit[h] THEN "COMMIT" ELSE "NOCOMMIT"]
  /\ IF sentSeizeImpl[h]
     THEN /\ ExecuteSpecific(r, h, k, impl[h], status)
          /\ UNCHANGED <<sentSeizeImpl, impl, seizeTxQueue, openTxContexts,
                         freeList, allocated>>
     ELSE /\ sentSeizeImpl' = [sentSeizeImpl EXCEPT ![h] = TRUE]
          /\ SeizeTransactionContext(r, h, k)
  /\ UNCHANGED <<autocommit, retries, txError, result, replying, historyVars>>

\* Mutant: the first execute is not counted.
ExecutedTwice(h) == execCount[h] > 1

\* "if(this.impl)": the handler has something to commit or roll back.
HasImpl(h) == impl[h] # None

\* commit and rollback: a handler without a context answers at once.
EndTransaction(r, k) ==
  /\ panic = "no"
  /\ status[r] = "new"
  /\ tx # None
  /\ MayCall(tx)
  /\ tx' = None
  /\ owner' = [owner EXCEPT ![r] = tx]
  /\ kind' = [kind EXCEPT ![r] = k]
  /\ mode' = [mode EXCEPT ![r] = IF k = "commit" THEN "COMMIT" ELSE "ROLLBACK"]
  /\ IF HasImpl(tx)
     THEN /\ Send(r, tx, "exec", impl[tx], status)
          /\ UNCHANGED <<result, nativeOk>>
     ELSE /\ status' = [status EXCEPT ![r] = "done"]
          /\ result' = [result EXCEPT ![r] = "ok"]
          /\ nativeOk' = [nativeOk EXCEPT ![r] = TRUE]
          /\ UNCHANGED <<execQueue, ndbOpen, execCount, opCtx, panic>>
  /\ UNCHANGED <<created, autocommit, sentSeizeImpl, impl, retries, txError,
                 seizeTxQueue, openTxContexts, freeList, allocated, replying, work>>

-----------------------------------------------------------------------------
(* Completions of native calls.                                            *)

\* Every auto-increment value of the list has arrived: prepareOperations.
AutoIncDone(r) ==
  /\ panic = "no" /\ replying = None
  /\ status[r] = "autoInc"
  /\ IF impl[owner[r]] # None
     THEN Send(r, owner[r], "exec", impl[owner[r]], status)
     ELSE Crash("nullImpl") /\ UNCHANGED <<status, opCtx>>
  /\ UNCHANGED <<created, autocommit, sentSeizeImpl, impl, retries, txError, tx,
                 seizeTxQueue, openTxContexts, freeList, allocated, owner, kind,
                 mode, result, replying, historyVars>>

\* The head of execQueue, which does step s, completes.
Completes(s) == /\ panic = "no" /\ replying = None
                /\ execQueue # <<>>
                /\ Head(execQueue).step = s

\* attachErrorToTransaction: success never clears an earlier error.
AttachError(h, ok) == txError' = [txError EXCEPT ![h] = @ \/ ~ok]

\* Commit and Rollback decide the pending work of the handler and, for an
\* autocommit list, its own; NoCommit adds to the pending work.
Decided(r, ok) ==
  [s \in Request |->
     CASE owner[s] = owner[r] /\ work[s] = "pending" /\ mode[r] # "NOCOMMIT"
            -> IF ok /\ mode[r] = "COMMIT" THEN "committed" ELSE "undone"
       [] s = r /\ kind[r] \notin Ends /\ ok
            -> IF mode[r] = "COMMIT" THEN "committed" ELSE "pending"
       [] OTHER -> work[s]]

\* doClose, and closeContext of the asynchronous API.
Closes(m) == m # "NOCOMMIT"

\* An NdbTransaction was executed.  After Commit or Rollback it is closed
\* (closeTransaction, registerClose) whether or not that succeeded.
ExecDone(ok) ==
  /\ Completes("exec")
  /\ ok \/ "exec" \in Faults
  /\ LET call == Head(execQueue)
         r == call.req
     IN /\ RunHead(Tail(execQueue),
                   IF Closes(mode[r]) THEN [ndbOpen EXCEPT ![opCtx[r]] = FALSE]
                                      ELSE ndbOpen, opCtx)
        /\ AttachError(owner[r], ok)
        /\ status' = [status EXCEPT ![r] = "replying"]
        /\ replying' = r
        /\ nativeOk' = [nativeOk EXCEPT ![r] = ok]
        /\ work' = Decided(r, ok)
  /\ UNCHANGED <<created, autocommit, sentSeizeImpl, impl, execCount, retries, tx,
                 seizeTxQueue, openTxContexts, freeList, allocated, owner, kind,
                 mode, result, opCtx>>

\* What the completions of scans leave alone.
UnchangedByScans ==
  UNCHANGED <<created, autocommit, sentSeizeImpl, impl, tx, seizeTxQueue,
              openTxContexts, freeList, allocated, owner, kind, opCtx, historyVars>>

\* prepareAndExecute succeeded: fetch from the scan through execQueue, or all
\* results of a query in a worker thread, outside of execQueue.
ScanStarted ==
  /\ Completes("scan")
  /\ LET call == Head(execQueue)
         r == call.req
     IN \/ /\ kind[r] = "scan"
           /\ RunHead(Append(Tail(execQueue), [call EXCEPT !.step = "fetch"]), ndbOpen, opCtx)
           /\ UNCHANGED status
        \/ /\ kind[r] = "query"
           /\ RunHead(Tail(execQueue), ndbOpen, opCtx)
           /\ status' = [status EXCEPT ![r] = "fetching"]
  /\ UNCHANGED <<execCount, retries, txError, mode, result, replying>>
  /\ UnchangedByScans

\* prepareAndExecute failed: onExecNoCommit calls the user and nothing else.
ScanNotStarted ==
  /\ Completes("scan")
  /\ "scan" \in Faults
  /\ LET r == Head(execQueue).req
     IN /\ RunHead(Tail(execQueue), ndbOpen, opCtx)
        /\ status' = [status EXCEPT ![r] = "done"]
        /\ result' = [result EXCEPT ![r] = "error"]
  /\ UNCHANGED <<execCount, retries, txError, mode, replying>>
  /\ UnchangedByScans

\* gather() with the cache empty: fetch again, from the preCallback.
FetchMore ==
  /\ Completes("fetch")
  /\ RunHead(Append(Tail(execQueue), Head(execQueue)), ndbOpen, opCtx)
  /\ UNCHANGED <<execCount, retries, txError, mode, status, result, replying>>
  /\ UnchangedByScans

\* onFetchComplete: how the scan is to be closed.
ClosingStep(h, outcome) ==
  CASE outcome = "end" -> "closeSuccess"
    [] outcome = "timeout" /\ retries[h] < MaxRetries -> "closeRetry"
    [] OTHER -> "closeError"

Outcomes(h) ==
  {"end"} \cup (Faults \cap {"fetch"})
          \cup {o \in Faults \cap {"timeout"} : retries[h] < MaxTimeouts}

\* canRetry counts every timeout.
CountRetry(h, outcome) ==
  retries' = IF outcome = "timeout" THEN [retries EXCEPT ![h] = @ + 1] ELSE retries

FetchDone(outcome) ==
  /\ Completes("fetch")
  /\ LET call == Head(execQueue)
         h == owner[call.req]
     IN /\ outcome \in Outcomes(h)
        /\ CountRetry(h, outcome)
        /\ RunHead(Append(Tail(execQueue),
                          [call EXCEPT !.step = ClosingStep(h, outcome)]), ndbOpen, opCtx)
  /\ UNCHANGED <<execCount, txError, mode, status, result, replying>>
  /\ UnchangedByScans

\* fetchAllResults of a query returns from its worker thread; undefined, and
\* taken to end the process, when the NdbTransaction was closed meanwhile.
QueryDone(r, outcome) ==
  /\ panic = "no" /\ replying = None
  /\ status[r] = "fetching"
  /\ outcome \in Outcomes(owner[r])
  /\ IF impl[owner[r]] = opCtx[r] /\ ndbOpen[opCtx[r]]
     THEN /\ Enqueue(NewCall(r, ClosingStep(owner[r], outcome), TRUE), opCtx)
          /\ status' = [status EXCEPT ![r] = "queued"]
          /\ CountRetry(owner[r], outcome)
          /\ UNCHANGED execCount
     ELSE Crash("staleScan") /\ UNCHANGED <<status, retries>>
  /\ UNCHANGED <<txError, mode, result, replying>>
  /\ UnchangedByScans

\* ScanOperation.close has returned after a success: the list is done, or the
\* NdbTransaction is executed with an empty list.
ScanClosed ==
  /\ Completes("closeSuccess")
  /\ LET call == Head(execQueue)
         r == call.req
         h == owner[r]
     IN \/ /\ mode[r] = "NOCOMMIT"
           /\ RunHead(Tail(execQueue), ndbOpen, opCtx)
           /\ status' = [status EXCEPT ![r] = "replying"]
           /\ replying' = r
           /\ UNCHANGED execCount
        \/ /\ mode[r] # "NOCOMMIT"
           /\ execCount' = [execCount EXCEPT ![h] = @ + 1]
           /\ RunHead(Append(Tail(execQueue),
                        NewCall(r, "exec", execCount[h] >= 1)), ndbOpen, opCtx)
           /\ UNCHANGED <<status, replying>>
  /\ UNCHANGED <<retries, txError, mode, result>>
  /\ UnchangedByScans

\* retryAfterClose: executeScan again.
ScanRetried ==
  /\ Completes("closeRetry")
  /\ LET call == Head(execQueue)
         h == owner[call.req]
     IN /\ execCount' = [execCount EXCEPT ![h] = @ + 1]
        /\ RunHead(Append(Tail(execQueue),
                          NewCall(call.req, "scan", execCount[h] >= 1)), ndbOpen, opCtx)
  /\ UNCHANGED <<retries, txError, mode, status, result, replying>>
  /\ UnchangedByScans

\* closeWithError: onExecute with ROLLBACK, though nothing was rolled back.
ScanFailed ==
  /\ Completes("closeError")
  /\ LET r == Head(execQueue).req
     IN /\ RunHead(Tail(execQueue), ndbOpen, opCtx)
        /\ AttachError(owner[r], FALSE)
        /\ mode' = [mode EXCEPT ![r] = "ROLLBACK"]
        /\ status' = [status EXCEPT ![r] = "replying"]
        /\ replying' = r
  /\ UNCHANGED <<execCount, retries, result>>
  /\ UnchangedByScans

-----------------------------------------------------------------------------
(* The rest of onExecute, after the operation callbacks.                   *)

\* Mutant: the context is not put on the free list.
GiveBackLost(c) == openTxContexts' = openTxContexts - 1 /\ UNCHANGED freeList

GiveBack(c) == openTxContexts' = openTxContexts - 1 /\ freeList' = freeList \cup {c}

\* TransactionImpl::isClosed
IsClosed(c) == ~ndbOpen[c]

\* Mutants: the last waiter is woken first, the only waiter is not woken.
LastWaiter(q) == [first |-> q[Len(q)], rest |-> SubSeq(q, 1, Len(q) - 1)]
SeveralWait == Len(seizeTxQueue) > 1

\* seizeTxQueue.shift()
NextWaiter(q) == [first |-> Head(q), rest |-> Tail(q)]
SomeoneWaits == seizeTxQueue # <<>>

\* Mutant: onContext does not store the context.
HandOverLost(h, g, c) == [impl EXCEPT ![h] = None]

\* The context c of handler h goes to handler g.
HandOver(h, g, c) == [impl EXCEPT ![g] = c, ![h] = None]

\* releaseTransactionContext of context c of handler h, on the way to
\* answering request r: the context goes to the first waiting request, whose
\* callback runs at once (the free list is a stack), or to the free list.
ReleaseTransactionContext(r, h, c) ==
  LET answered == [status EXCEPT ![r] = "done"]
  IN \/ /\ ~IsClosed(c)
        /\ openTxContexts' = openTxContexts - 1
        /\ panic' = "stillOpen"
        /\ UNCHANGED <<status, impl, execQueue, seizeTxQueue, nativeVars, execCount, opCtx>>
     \/ /\ IsClosed(c) /\ ~SomeoneWaits
        /\ GiveBack(c)
        /\ impl' = [impl EXCEPT ![h] = None]
        /\ status' = answered
        /\ UNCHANGED <<allocated, seizeTxQueue, execQueue, ndbOpen, execCount, opCtx, panic>>
     \/ /\ IsClosed(c) /\ SomeoneWaits
        /\ LET s == NextWaiter(seizeTxQueue).first
           IN /\ impl' = HandOver(h, owner[s], c)
              /\ ExecuteSpecific(s, owner[s], kind[s], c, answered)
        /\ seizeTxQueue' = NextWaiter(seizeTxQueue).rest
        /\ UNCHANGED <<openTxContexts, freeList, allocated>>

\* Mutant: Rollback keeps the context.
ReleasesOnCommit(m) == m = "COMMIT"

Releases(m) == m # "NOCOMMIT"

\* The operation callbacks have returned: release the context after Commit or
\* Rollback, and call the user with handler.error.
Reply(r) ==
  /\ panic = "no"
  /\ replying = r
  /\ replying' = None
  /\ result' = [result EXCEPT ![r] = IF txError[owner[r]] THEN "error" ELSE "ok"]
  /\ \/ /\ ~Releases(mode[r])
        /\ status' = [status EXCEPT ![r] = "done"]
        /\ UNCHANGED <<impl, queueVars, nativeVars, execCount, opCtx, panic>>
     \/ /\ Releases(mode[r])
        /\ ReleaseTransactionContext(r, owner[r], impl[owner[r]])
  /\ UNCHANGED <<created, autocommit, sentSeizeImpl, retries, txError, tx, owner,
                 kind, mode, historyVars>>

-----------------------------------------------------------------------------

User == \/ Begin
        \/ \E r \in Request, h \in Handler, k \in Kinds : Execute(r, h, k)
        \/ \E r \in Request, k \in Ends : EndTransaction(r, k)

Scan == \/ ScanStarted \/ ScanNotStarted \/ FetchMore
        \/ \E o \in {"end", "fetch", "timeout"} : FetchDone(o)
        \/ ScanClosed \/ ScanRetried \/ ScanFailed

Native == \/ \E r \in Request : AutoIncDone(r) \/ Reply(r)
          \/ \E r \in Request, o \in {"end", "fetch", "timeout"} : QueryDone(r, o)
          \/ \E ok \in BOOLEAN : ExecDone(ok)
          \/ Scan

Next == User \/ Native

\* Native calls complete, a scan has finitely many results, and a turn runs to
\* its end.  Nothing is assumed of the user.
Fairness ==
  /\ WF_vars(Scan \/ \E ok \in BOOLEAN : ExecDone(ok))
  /\ SF_vars(FetchDone("end"))
  /\ \A r \in Request : WF_vars(AutoIncDone(r)) /\ WF_vars(Reply(r))
  /\ \A r \in Request : WF_vars(\E o \in {"end", "fetch", "timeout"} : QueryDone(r, o))

Spec == Init /\ [][Next]_vars /\ Fairness

-----------------------------------------------------------------------------
(* Safety.                                                                 *)

Held == {c \in Context : \E h \in Handler : impl[h] = c}

\* Two handlers never share a TransactionImpl, through any order of releases
\* and hand-overs: the operations of one would run in the transaction of the
\* other.
ExclusiveContexts ==
  \A h1, h2 \in Handler : impl[h1] # None /\ impl[h1] = impl[h2] => h1 = h2

\* openTxContexts counts the contexts that handlers hold, and each context is
\* either held or free: none is counted twice, lost, or free while in use.
ContextAccounting ==
  panic = "no" => /\ openTxContexts = Cardinality(Held)
                  /\ Held \cap freeList = {}
                  /\ Held \cup freeList = allocated

\* seizeTransactionContext asserts that it got a context: below the limit
\* SessionImpl has one to give.
SeizeSucceeds ==
  panic = "no" /\ openTxContexts < MaxTxContexts =>
    \E c \in Context : c \in freeList \/ (freeList = {} /\ c \notin allocated)

\* Requests wait for a context only while all are open, so a new request never
\* overtakes a waiting one, and no wake-up is lost.
WaitOnlyWhenFull ==
  panic = "no" /\ seizeTxQueue # <<>> => openTxContexts = MaxTxContexts

\* The transaction contexts of a session are exclusive, counted, available below
\* the limit and waited for at the limit only, through every order of
\* seizeTransactionContext and releaseTransactionContext.
ContextsAreSafe == TypeOK /\ ExclusiveContexts /\ ContextAccounting /\ SeizeSucceeds /\ WaitOnlyWhenFull

\* A free context has no open NdbTransaction.
FreeMeansClosed == \A c \in freeList : ~ndbOpen[c]

\* A call on execQueue, and in particular the one in progress, works on the
\* context that its handler holds: no call outlives the release.
CallsOwnTheirContext ==
  panic = "no" => \A i \in DOMAIN execQueue :
    LET r == execQueue[i].req IN impl[owner[r]] # None /\ impl[owner[r]] = opCtx[r]

\* No assertion of NdbSession.js or TransactionImpl.cpp fails and no NULL is
\* dereferenced, but in two ways: a scan that fails while it fetches releases its
\* context with the NdbTransaction open, and assert(didRelease) fails
\* (NdbSession.js:144); and the first call of a transaction, never a later one,
\* works on the NULL of a start that NDB refused (TransactionImpl.cpp:77-92).
NoPanic ==
  \/ panic = "no"
  \/ panic = "stillOpen" /\ \E r \in Request : kind[r] \in Scans /\ mode[r] = "ROLLBACK"
  \/ panic = "notStarted" /\ "start" \in Faults /\ execQueue # <<>> /\ ~Head(execQueue).txIsOpen

\* The calls of execQueue and the contexts agree: no call meets a context that was
\* released, no context is free with a transaction open, and the process ends in the
\* two ways of NoPanic only.
CallsAreSound == CallsOwnTheirContext /\ FreeMeansClosed /\ NoPanic

\* A commit or rollback that the user was told of covers everything that was
\* executed under its transaction: nothing is pending or still to run.
EndCoversWork ==
  \A r \in Request : kind[r] \in Ends /\ status[r] = "done" =>
    \A s \in Request : owner[s] = owner[r] => status[s] = "done" /\ work[s] # "pending"

\* A commit that is reported as a success was one.
SuccessIsReal ==
  \A r \in Request : kind[r] = "commit" /\ result[r] = "ok" => nativeOk[r]

\* What the user is told of the end of a transaction (onExecute and commit of
\* NdbTransactionHandler.js) is true of all its executes.
EndsAreSound == EndCoversWork /\ SuccessIsReal

\* An autocommit scan that could not be started has called the user and nothing
\* else (onExecNoCommit, NdbTransactionHandler.js:290).
NeverStarted(h) ==
  \E r \in Request : owner[r] = h /\ kind[r] \in Scans /\ mode[r] = "COMMIT" /\ status[r] = "done" /\ work[r] = None

\* A handler that is done with its calls and is not current has given its
\* context back: contexts do not leak, unless a scan never started.
NoLeak ==
  \A h \in created \ {tx} : panic = "no" /\ Unanswered(h) = {} /\ ~NeverStarted(h) => impl[h] = None

-----------------------------------------------------------------------------
(* Action properties.                                                      *)

\* An answered call is never answered again, and its result stands.
AnswersAreFinal ==
  [][\A r \in Request : status[r] = "done" => status'[r] = "done" /\ result'[r] = result[r]]_vars

\* Contexts are granted in the order in which they were asked for.
GrantsInOrder ==
  [][\A r, s \in Request :
       (\E i, j \in DOMAIN seizeTxQueue : i < j /\ seizeTxQueue[i] = r /\ seizeTxQueue[j] = s)
         => ~(impl'[owner[r]] = None /\ impl'[owner[s]] # None)]_vars

-----------------------------------------------------------------------------
(* Liveness.                                                               *)

\* Every call is answered: no wake-up of a waiting handler is lost, and the
\* session does not wait for itself.
EveryCallIsAnswered ==
  \A r \in Request : status[r] \notin {"new", "done"} ~> status[r] = "done"

-----------------------------------------------------------------------------
(* Statements of the sources that the code does not keep.                  *)

\* NdbTransactionHandler.js:372: "Execute calls are queued, so we can create
\* one even if seizeTransactionContext has not yet returned."
ExecuteBeforeContext == panic # "nullImpl"

=============================================================================
