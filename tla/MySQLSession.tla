---------------------------- MODULE MySQLSession ----------------------------
(***************************************************************************)
(* The sessions of jones-mysql: the DBSession and its TransactionHandler   *)
(* (MySQLConnection.js) over the pooled connections of                     *)
(* MySQLConnectionPool.js.                                                 *)
(*                                                                         *)
(* A connection of the driver runs its queries in the order they were      *)
(* given to it.  A handler gives the operations of a batch to the          *)
(* connection one by one, each when the one before has been answered, and  *)
(* keeps further batches in pendingBatches.                                *)
(*                                                                         *)
(* An action is a JavaScript turn.  The turns in which the callbacks of    *)
(* operations and batches run are split, because the user may call execute *)
(* from a callback: `turn' says what the handler does next, and while it   *)
(* is set only the handler and that user act.                              *)
(***************************************************************************)
EXTENDS Integers, Sequences, FiniteSets

CONSTANTS
  Session,     \* the DBSession objects that users ask for, each once
  Conn,        \* connections of the driver's pool (mysql_pool_size of them)
  Batch,       \* the calls of TransactionHandler.execute, numbered as they are made
  Lookup,      \* dictionary calls made without a session
  Lists,       \* the operation lists executed: sequences of kinds
  MaxTx,       \* bound on the transactions of a session
  None,
  Patient      \* do users wait where the code needs it (see the user's calls)?

Kinds == {"insert", "write", "update", "delete", "read", "projection", "scan", "bad"}

\* The values of `trx' and `turn' besides None.
ServerTransactions == [tx : Session \X Nat, work : SUBSET (Batch \X Nat)]
Turns ==
  [session : Session, does : {"operations", "execute", "batch", "throw"}] \cup
  [session : Session, does : {"complete"}, error : BOOLEAN]

ASSUME ConstantsAssumption ==
  /\ Lists \subseteq Seq(Kinds) \ {<<>>}
  /\ MaxTx \in Nat /\ Batch \subseteq Nat
  /\ Patient \in BOOLEAN
  /\ None \notin Session \cup Conn \cup Batch \cup Lookup
  /\ None \notin {"commit", "rollback", "error"} /\ None \notin ServerTransactions \cup Turns

VARIABLES
  (* MySQLConnectionPool and the driver *)
  free,        \* connections of the driver's pool that nobody holds
  wire,        \* queries given to each connection, in order
  trx,         \* the server transaction open on each connection, with its work
  (* DBSession *)
  status, conn, autocommit, handler,
  turn,        \* what the handler does next in the turn that runs, or None
  (* the users *)
  batch,       \* execute calls: operations, answers, execute callback
  tx, nTx,     \* the API transaction of a session: 0 when Idle; how many so far
  ending,      \* the commit or rollback in flight
  lookup,      \* state of the dictionary calls
  (* history *)
  begun,       \* the transactions that were begun at the server
  ended,       \* those whose end was answered without error, or that it ended by itself
  work         \* what became of the work of each operation at the server

vars == <<free, wire, trx, status, conn, autocommit, handler, turn, batch, tx, nTx,
          ending, lookup, begun, ended, work>>

Query(what, for, op) == [what |-> what, for |-> for, op |-> op]

\* The handler of a session that has made none: getTransactionHandler creates it.
NoHandler == [exists |-> FALSE, firstTime |-> FALSE, numberOfOperations |-> 0,
              currentOperation |-> 0, executed |-> 0, operationsList |-> None,
              pendingBatches |-> <<>>, error |-> FALSE]

\* Mutant: a new handler always sends `begin'.
NewHandler_AlwaysBegins(s) == [NoHandler EXCEPT !.exists = TRUE, !.firstTime = TRUE]

\* A new TransactionHandler copies the autocommit mode of its session.
NewHandler(s) == [NoHandler EXCEPT !.exists = TRUE, !.firstTime = ~autocommit[s]]
HandlerOf(s) == IF handler[s].exists THEN handler[s] ELSE NewHandler(s)

Init ==
  /\ free = Conn
  /\ wire = [c \in Conn |-> <<>>]
  /\ trx = [c \in Conn |-> None]
  /\ status = [s \in Session |-> "new"]
  /\ conn = [s \in Session |-> None]
  /\ autocommit = [s \in Session |-> TRUE]
  /\ handler = [s \in Session |-> NoHandler]
  /\ turn = None
  /\ batch = [b \in Batch |-> [session |-> None, ops |-> <<>>, tx |-> 0, waited |-> FALSE,
                               sent |-> <<>>, answers |-> <<>>, failed |-> FALSE, done |-> <<>>]]
  /\ tx = [s \in Session |-> 0]
  /\ nTx = [s \in Session |-> 0]
  /\ ending = [s \in Session |-> None]
  /\ lookup = [k \in Lookup |-> [state |-> "new", conn |-> None]]
  /\ begun = {}
  /\ ended = [committed |-> {}, rolledBack |-> {}, byServer |-> {}]
  /\ work = [b \in Batch |-> <<>>]

Send(c, q) == wire' = [wire EXCEPT ![c] = Append(@, q)]
Quiet == turn = None

apiVars == <<tx, nTx, ending>>
serverVars == <<trx, begun, ended, work>>

-----------------------------------------------------------------------------
(* What an operation makes of the answer of the server.  err is the first  *)
(* argument of its callback, error its result.error, which is what the     *)
(* handler looks at.                                                       *)

Result(err, error, success) == [err |-> err, error |-> error, success |-> success]

Replies(k) == CASE k = "read" -> {"ok", "error", "noRow", "manyRows"}
                [] k \in {"update", "delete", "projection"} -> {"ok", "error", "noRow"}
                [] OTHER -> {"ok", "error"}

InsertResult(reply) ==
  IF reply = "error" THEN Result("error", "error", FALSE) ELSE Result(None, None, TRUE)

WriteResult(reply) == InsertResult(reply)
ScanResult(reply) == InsertResult(reply)

\* A row that is not there is reported in the result, not as err.
DeleteResult(reply) ==
  CASE reply = "error" -> Result("error", "error", FALSE)
    [] reply = "noRow" -> Result(None, "notFound", FALSE)
    [] reply = "ok" -> Result(None, None, TRUE)
UpdateResult(reply) == DeleteResult(reply)

\* Several rows are an error for the user that the handler does not see.
ReadResult(reply) ==
  IF reply = "manyRows" THEN Result("error", None, FALSE) ELSE DeleteResult(reply)

\* onEnd passes result.error on, also when no row was found.
ProjectionResult(reply) ==
  IF reply = "noRow" THEN Result("notFound", "notFound", FALSE) ELSE DeleteResult(reply)

\* An operation that could not be built.
ErrorResult == Result(None, "error", FALSE)

ResultOf(k, reply) ==
  CASE k = "insert" -> InsertResult(reply)
    [] k = "write" -> WriteResult(reply)
    [] k = "update" -> UpdateResult(reply)
    [] k = "delete" -> DeleteResult(reply)
    [] k = "read" -> ReadResult(reply)
    [] k = "projection" -> ProjectionResult(reply)
    [] k = "scan" -> ScanResult(reply)
    [] k = "bad" -> ErrorResult

\* What the user is told; finding nothing is not an error for find.
Told(k, r) == IF k \in {"read", "projection"} /\ r.error = "notFound" THEN "ok"
              ELSE IF r.err # None \/ ~r.success THEN "error" ELSE "ok"

-----------------------------------------------------------------------------
(* Connections and sessions.                                               *)

\* getDBSession and its connected_callback: once the pool has a connection, the
\* DBSession is made and the connection set up.
GetDBSession(s) ==
  /\ Quiet
  /\ status[s] = "new"
  /\ \/ \E c \in free :
          /\ free' = free \ {c}
          /\ conn' = [conn EXCEPT ![s] = c]
          /\ status' = [status EXCEPT ![s] = "setup"]
          /\ Send(c, Query("setup", s, 0))
     \/ status' = [status EXCEPT ![s] = "failed"] /\ UNCHANGED <<free, conn, wire>>
  /\ UNCHANGED <<serverVars, autocommit, handler, turn, batch, apiVars, lookup>>

\* The calls of the session that the user has no answer to; after a failed `begin'
\* the handler is at work although he has one.
Pending(s) ==
  \/ ending[s] # None
  \/ handler[s].numberOfOperations > 0
  \/ \E b \in Batch : batch[b].session = s /\ batch[b].done = <<>>

\* closeConnection: the connection goes back as it is.  A session with calls in
\* flight is not closed here: its handler would go on without a connection.
Close(s) ==
  /\ Quiet
  /\ status[s] = "open" /\ ~Pending(s)
  /\ Patient => tx[s] = 0
  /\ status' = [status EXCEPT ![s] = "closed"]
  /\ free' = free \cup {conn[s]}
  /\ conn' = [conn EXCEPT ![s] = None]
  /\ UNCHANGED <<wire, serverVars, autocommit, handler, turn, batch, apiVars, lookup>>

\* A dictionary or DDL call: on the session's connection, or on one of its own.
Ask(k, s) ==
  /\ Quiet
  /\ lookup[k].state = "new"
  /\ \/ /\ s # None /\ status[s] = "open"
        /\ lookup' = [lookup EXCEPT ![k] = [state |-> "asked", conn |-> None]]
        /\ Send(conn[s], Query("metadata", k, 0))
     \/ /\ s = None
        /\ lookup' = [lookup EXCEPT ![k].state = "waiting"]
        /\ UNCHANGED wire
  /\ UNCHANGED <<free, serverVars, status, conn, autocommit, handler, turn, batch, apiVars>>

AskOnConnection(k) ==
  /\ Quiet
  /\ lookup[k].state = "waiting"
  /\ \/ \E c \in free :
          /\ free' = free \ {c}
          /\ lookup' = [lookup EXCEPT ![k] = [state |-> "asked", conn |-> c]]
          /\ Send(c, Query("metadata", k, 0))
     \/ lookup' = [lookup EXCEPT ![k].state = "done"] /\ UNCHANGED <<free, wire>>
  /\ UNCHANGED <<serverVars, status, conn, autocommit, handler, turn, batch, apiVars>>

-----------------------------------------------------------------------------
(* The handler.                                                            *)

\* execute: `begin' the first time, then the operations; a list that comes
\* while another is executed waits.
Execute(h, s, b) ==
  IF h.firstTime
  THEN /\ handler' = [handler EXCEPT ![s] = [h EXCEPT !.operationsList = b]]
       /\ Send(conn[s], Query("begin", s, tx[s]))
       /\ UNCHANGED turn
  ELSE /\ UNCHANGED wire
       /\ IF h.numberOfOperations > 0
          THEN /\ handler' = [handler EXCEPT ![s] = [h EXCEPT
                                !.pendingBatches = Append(@, b)]]
               /\ UNCHANGED turn
          ELSE /\ handler' = [handler EXCEPT ![s] = [h EXCEPT !.operationsList = b]]
               /\ turn' = [session |-> s, does |-> "operations"]

\* executeOperations, up to the execution of the first operation.
ExecuteOperations ==
  /\ turn # None /\ turn.does = "operations"
  /\ LET s == turn.session IN
     /\ handler' = [handler EXCEPT
          ![s].numberOfOperations = Len(batch[handler[s].operationsList].ops),
          ![s].currentOperation = 1]
     /\ turn' = [session |-> s, does |-> "execute"]
  /\ UNCHANGED <<free, wire, serverVars, status, conn, autocommit, batch, apiVars, lookup>>

\* The callback of operation i of b, told what the result r says; an error
\* makes an active transaction rollback-only.  failed notes that an operation of
\* the batch has itself failed, as the handler sees it.
Answer(b, i, r) ==
  LET told == Told(batch[b].ops[i], r) IN
  batch' = [batch EXCEPT ![b].answers = Append(@, <<i, told>>), ![b].failed = @ \/ r.error # None]

\* execute of an operation; one that could not be built completes at once.
ExecuteOperation ==
  /\ turn # None /\ turn.does = "execute"
  /\ LET s == turn.session
         b == handler[s].operationsList
         i == handler[s].currentOperation IN
     IF i > Len(batch[b].ops)
     THEN turn' = [session |-> s, does |-> "throw"] /\ UNCHANGED <<wire, batch>>
     ELSE IF batch[b].ops[i] = "bad"
     THEN /\ Answer(b, i, ErrorResult)
          /\ turn' = [session |-> s, does |-> "complete", error |-> TRUE]
          /\ UNCHANGED wire
     ELSE /\ Send(conn[s], Query("op", b, i))
          /\ batch' = [batch EXCEPT ![b].sent =
                         Append(@, [op |-> i, tx |-> IF ending[s] = None THEN tx[s] ELSE 0])]
          /\ turn' = None
  /\ UNCHANGED <<free, serverVars, status, conn, autocommit, handler, apiVars, lookup>>

\* The answers of the operations behind the current one, which are not executed.
Unexecuted(h) ==
  [j \in 1..(h.numberOfOperations - h.currentOperation) |-> <<h.currentOperation + j, "error">>]

\* operationCompleteCallback: the next operation, unless one has failed since the
\* error was last forgotten; then the rest is answered without being executed.
OperationComplete ==
  /\ turn # None /\ turn.does = "complete"
  /\ LET s == turn.session
         h == [handler[s] EXCEPT !.executed = @ + 1, !.error = @ \/ turn.error]
         b == h.operationsList IN
     IF h.executed = h.numberOfOperations
     THEN /\ handler' = [handler EXCEPT ![s] = h]
          /\ turn' = [session |-> s, does |-> "batch"]
          /\ UNCHANGED batch
     ELSE IF h.error
     THEN /\ handler' = [handler EXCEPT ![s] = h]
          /\ batch' = [batch EXCEPT ![b].answers = @ \o Unexecuted(h)]
          /\ turn' = [session |-> s, does |-> "batch"]
     ELSE /\ handler' = [handler EXCEPT ![s] = [h EXCEPT !.currentOperation = @ + 1]]
          /\ turn' = [session |-> s, does |-> "execute"]
          /\ UNCHANGED batch
  /\ UNCHANGED <<free, wire, serverVars, status, conn, autocommit, apiVars, lookup>>

\* Mutant: the error of a batch is handed on to the one that waited for it.
BatchComplete_KeepsError ==
  /\ turn # None /\ turn.does = "batch"
  /\ LET s == turn.session
         h == [handler[s] EXCEPT !.executed = 0, !.numberOfOperations = 0]
         answer == IF h.error THEN "error" ELSE "ok" IN
     /\ batch' = [batch EXCEPT ![h.operationsList].done = Append(@, answer)]
     /\ IF h.pendingBatches = <<>>
        THEN handler' = [handler EXCEPT ![s] = h] /\ turn' = None
        ELSE /\ handler' = [handler EXCEPT ![s] = [h EXCEPT
                              !.operationsList = Head(h.pendingBatches),
                              !.pendingBatches = Tail(@)]]
             /\ turn' = [session |-> s, does |-> "operations"]
  /\ UNCHANGED <<free, wire, serverVars, status, conn, autocommit, apiVars, lookup>>

\* Mutant: the pending batches are not looked at.
BatchComplete_ForgetsPending ==
  /\ turn # None /\ turn.does = "batch"
  /\ LET s == turn.session
         answer == IF handler[s].error THEN "error" ELSE "ok" IN
     /\ batch' = [batch EXCEPT ![handler[s].operationsList].done = Append(@, answer)]
     /\ handler' = [handler EXCEPT ![s].executed = 0, ![s].numberOfOperations = 0]
  /\ turn' = None
  /\ UNCHANGED <<free, wire, serverVars, status, conn, autocommit, apiVars, lookup>>

\* batchComplete: the execute callback, and the next batch.  The error is
\* forgotten only when a batch was waiting.
BatchComplete ==
  /\ turn # None /\ turn.does = "batch"
  /\ LET s == turn.session
         h == [handler[s] EXCEPT !.executed = 0, !.numberOfOperations = 0]
         answer == IF h.error THEN "error" ELSE "ok" IN
     /\ batch' = [batch EXCEPT ![h.operationsList].done = Append(@, answer)]
     /\ IF h.pendingBatches = <<>>
        THEN handler' = [handler EXCEPT ![s] = h] /\ turn' = None
        ELSE /\ handler' = [handler EXCEPT ![s] = [h EXCEPT
                              !.operationsList = Head(h.pendingBatches),
                              !.pendingBatches = Tail(@), !.error = FALSE]]
             /\ turn' = [session |-> s, does |-> "operations"]
  /\ UNCHANGED <<free, wire, serverVars, status, conn, autocommit, apiVars, lookup>>

-----------------------------------------------------------------------------
(* The user's calls.                                                       *)

\* `begin' has been sent and is not answered yet.
Beginning(s) ==
  \E c \in Conn : \E j \in 1..Len(wire[c]) :
     wire[c][j].what = "begin" /\ wire[c][j].for = s

\* The user reacts to an answer in its callback.
InCallback(s) == turn # None /\ turn.session = s /\ turn.does \in {"complete", "batch"}

UserExecute(s, b, ops) ==
  /\ Quiet \/ InCallback(s)
  /\ status[s] = "open" /\ ending[s] = None
  /\ batch[b].session = None
  /\ \A a \in Batch : a < b => batch[a].session # None
  /\ Patient => ~Beginning(s)
  /\ batch' = [batch EXCEPT ![b].session = s, ![b].ops = ops, ![b].tx = tx[s],
       ![b].waited = ~HandlerOf(s).firstTime /\ HandlerOf(s).numberOfOperations > 0]
  /\ work' = [work EXCEPT ![b] = [i \in 1..Len(ops) |-> "none"]]
  /\ Execute(HandlerOf(s), s, b)
  /\ UNCHANGED <<free, trx, begun, ended, status, conn, autocommit, apiVars, lookup>>

\* Transaction.begin and DBSession.begin: a handler that exists stays as it is, so that
\* only a transaction that comes before every batch of its session is begun at the server.
Begin(s) ==
  /\ Quiet
  /\ status[s] = "open" /\ tx[s] = 0 /\ nTx[s] < MaxTx
  /\ nTx' = [nTx EXCEPT ![s] = @ + 1]
  /\ tx' = [tx EXCEPT ![s] = nTx[s] + 1]
  /\ autocommit' = [autocommit EXCEPT ![s] = FALSE]
  /\ handler' = [handler EXCEPT ![s] = IF @.exists THEN @
                                       ELSE [NoHandler EXCEPT !.exists = TRUE, !.firstTime = TRUE]]
  /\ UNCHANGED <<free, wire, serverVars, status, conn, turn, batch, ending, lookup>>

InTx(s) == {b \in Batch : batch[b].session = s /\ batch[b].tx = tx[s]}
RollbackOnly(s) == \E b \in InTx(s) : \E j \in 1..Len(batch[b].answers) :
                     batch[b].answers[j][2] = "error"

\* Mutant: rollback sends a commit.
End_AlwaysCommits(s, how) ==
  /\ Quiet
  /\ tx[s] # 0 /\ ending[s] = None
  /\ how = "commit" => ~RollbackOnly(s)
  /\ Patient => InTx(s) # {} /\ ~Beginning(s)
  /\ ending' = [ending EXCEPT ![s] = how]
  /\ autocommit' = [autocommit EXCEPT ![s] = @ \/ how = "commit"]
  /\ Send(conn[s], Query("commit", s, tx[s]))
  /\ UNCHANGED <<free, serverVars, status, conn, handler, turn, batch, tx, nTx, lookup>>

\* commit and rollback: sent behind the query in flight, if there is one.  Only
\* commit goes by DBSession, which is again in autocommit mode; a failed operation
\* has made the transaction rollback-only.
End(s, how) ==
  /\ Quiet
  /\ tx[s] # 0 /\ ending[s] = None
  /\ how = "commit" => ~RollbackOnly(s)
  /\ Patient => InTx(s) # {} /\ ~Beginning(s)
  /\ ending' = [ending EXCEPT ![s] = how]
  /\ autocommit' = [autocommit EXCEPT ![s] = @ \/ how = "commit"]
  /\ Send(conn[s], Query(how, s, tx[s]))
  /\ UNCHANGED <<free, serverVars, status, conn, handler, turn, batch, tx, nTx, lookup>>

-----------------------------------------------------------------------------
(* The server answers the first query of a connection, and the callback of *)
(* that query runs.                                                        *)

Answered(c, what) ==
  /\ Quiet
  /\ wire[c] # <<>> /\ Head(wire[c]).what = what
  /\ wire' = [wire EXCEPT ![c] = Tail(@)]

SetWork(ops, state) ==
  [b \in Batch |-> [i \in DOMAIN work[b] |-> IF <<b, i>> \in ops THEN state ELSE work[b][i]]]
OpenWork(c) == IF trx[c] = None THEN {} ELSE trx[c].work

\* charsetComplete: after an error the connection stays with a session that its
\* user does not get.
SetupAnswered(c) ==
  /\ Answered(c, "setup")
  /\ \E answer \in {"open", "failed"} :
       status' = [status EXCEPT ![Head(wire[c]).for] = answer]
  /\ UNCHANGED <<free, serverVars, conn, autocommit, handler, turn, batch, apiVars, lookup>>

\* executeOnBegin: after an error, of which the execute callback is told, the
\* operations are executed as well.
BeginAnswered(c) ==
  /\ Answered(c, "begin")
  /\ LET s == Head(wire[c]).for
         t == <<s, Head(wire[c]).op>> IN
     /\ \/ /\ trx' = [trx EXCEPT ![c] = [tx |-> t, work |-> {}]]
           /\ work' = SetWork(OpenWork(c), "kept")
           /\ begun' = begun \cup {t}
           /\ UNCHANGED batch
        \/ /\ batch' = [batch EXCEPT ![handler[s].operationsList].done = Append(@, "notBegun")]
           /\ UNCHANGED <<trx, work, begun>>
     /\ handler' = [handler EXCEPT ![s].firstTime = FALSE]
     /\ turn' = [session |-> s, does |-> "operations"]
  /\ UNCHANGED <<free, ended, status, conn, autocommit, apiVars, lookup>>

\* The server ends the transaction of a connection by itself, without telling, while it
\* executes the first query: open becomes of the work of the transaction.
EndsByItself(c, open, ops) ==
  /\ Quiet /\ wire[c] # <<>> /\ trx[c] # None
  /\ trx' = [trx EXCEPT ![c] = None]
  /\ work' = [b \in Batch |-> [i \in DOMAIN work[b] |->
               IF <<b, i>> \in OpenWork(c) THEN open
               ELSE IF <<b, i>> \in ops THEN "nothing" ELSE work[b][i]]]
  /\ ended' = [ended EXCEPT !.byServer = @ \cup {trx[c].tx}]
  /\ UNCHANGED <<free, wire, begun, status, conn, autocommit, handler, turn, batch, apiVars,
                 lookup>>

\* On certain errors of an operation it rolls back the whole transaction; the operation
\* is to be answered with its error.
RollsBack(c) ==
  /\ wire[c] # <<>> /\ Head(wire[c]).what = "op"
  /\ EndsByItself(c, "undone", {<<Head(wire[c]).for, Head(wire[c]).op>>})

\* The statements of createTable and dropTable commit the transaction that is open.
CommitsImplicitly(c) ==
  /\ wire[c] # <<>> /\ Head(wire[c]).what = "metadata"
  /\ EndsByItself(c, "kept", {})

\* An operation: its work joins the open server transaction, or is kept at once.
OperationAnswered(c) ==
  /\ Answered(c, "op")
  /\ LET b == Head(wire[c]).for
         i == Head(wire[c]).op
         k == batch[b].ops[i]
         writes == k \in {"insert", "write", "update", "delete"} IN
     \E reply \in Replies(k) :
       LET r == ResultOf(k, reply) IN
       /\ work[b][i] = "none" \/ reply = "error"
       /\ IF writes /\ reply = "ok" /\ trx[c] # None
          THEN trx' = [trx EXCEPT ![c].work = @ \cup {<<b, i>>}] /\ work' = SetWork({<<b, i>>}, "open")
          ELSE /\ work' = SetWork({<<b, i>>}, IF writes /\ reply = "ok" THEN "kept" ELSE "nothing")
               /\ UNCHANGED trx
       /\ Answer(b, i, r)
       /\ turn' = [session |-> batch[b].session, does |-> "complete", error |-> r.error # None]
  /\ UNCHANGED <<free, begun, ended, status, conn, autocommit, handler, apiVars, lookup>>

\* commitOnCommit and rollbackOnRollback: the API transaction is Idle again, also after
\* an error; then the server has ended its transaction, and a failed commit may have
\* been carried out or not.
EndAnswered(c, how) ==
  /\ Answered(c, how)
  /\ LET s == Head(wire[c]).for
         t == <<s, Head(wire[c]).op>> IN
     /\ \/ /\ ended' = IF ending[s] = "commit" THEN [ended EXCEPT !.committed = @ \cup {t}]
                        ELSE [ended EXCEPT !.rolledBack = @ \cup {t}]
           /\ work' = SetWork(OpenWork(c), IF how = "commit" THEN "kept" ELSE "undone")
        \/ /\ \E w \in IF how = "commit" THEN {"kept", "undone"} ELSE {"undone"} :
                work' = SetWork(OpenWork(c), w)
           /\ UNCHANGED ended
     /\ trx' = [trx EXCEPT ![c] = None]
     /\ ending' = [ending EXCEPT ![s] = None]
     /\ tx' = [tx EXCEPT ![s] = 0]
  /\ UNCHANGED <<free, begun, status, conn, autocommit, handler, turn, batch, nTx, lookup>>

\* A connection taken for the call goes back whatever the answer.
MetadataAnswered(c) ==
  /\ Answered(c, "metadata")
  /\ LET k == Head(wire[c]).for IN
     /\ lookup' = [lookup EXCEPT ![k] = [state |-> "done", conn |-> None]]
     /\ free' = free \cup ({lookup[k].conn} \ {None})
  /\ UNCHANGED <<serverVars, status, conn, autocommit, handler, turn, batch, apiVars>>

-----------------------------------------------------------------------------
Handler ==
  ExecuteOperations \/ ExecuteOperation \/ OperationComplete \/ BatchComplete

User ==
  \/ \E s \in Session :
       \/ Close(s) \/ Begin(s)
       \/ \E how \in {"commit", "rollback"} : End(s, how)
       \/ \E b \in Batch, ops \in Lists : UserExecute(s, b, ops)
  \/ \E k \in Lookup, s \in Session \cup {None} : Ask(k, s)

Server(c) ==
  \/ SetupAnswered(c) \/ BeginAnswered(c) \/ OperationAnswered(c) \/ MetadataAnswered(c)
  \/ \E how \in {"commit", "rollback"} : EndAnswered(c, how)

Pool == (\E s \in Session : GetDBSession(s)) \/ (\E k \in Lookup : AskOnConnection(k))

Next ==
  \/ Handler \/ User \/ Pool
  \/ \E c \in Conn : Server(c) \/ RollsBack(c) \/ CommitsImplicitly(c)

\* The event loop runs its callbacks and the server answers what it is sent.
Fairness == WF_vars(Handler) /\ \A c \in Conn : WF_vars(Server(c))

Spec == Init /\ [][Next]_vars /\ Fairness

-----------------------------------------------------------------------------
(* Properties.                                                             *)

\* The operations of a batch are answered in its order, each once, and then its execute
\* callback is told once of the whole: in a transaction or not.  Before that it may have
\* been told that `begin' failed (operationCompleteCallback, batchComplete, executeOnBegin).
AnswersInOrder ==
  \A b \in Batch :
    LET r == batch[b] IN
    /\ \A j \in 1..Len(r.answers) : r.answers[j][1] = j
    /\ \A j \in 1..Len(r.done) :
         IF r.done[j] = "notBegun" THEN j = 1
         ELSE j = Len(r.done) /\ Len(r.answers) = Len(r.ops)

\* The execute callback is told of an error if an operation of the batch failed; and a
\* batch that waited for another of its session only then: the error of that one is
\* forgotten (batchComplete).  A batch that found the handler idle may be told of the
\* error of an earlier one.
ErrorsAreItsOwn ==
  \A b \in Batch : \A j \in 1..Len(batch[b].done) :
    /\ batch[b].done[j] = "ok" => ~batch[b].failed
    /\ batch[b].done[j] = "error" /\ batch[b].waited => batch[b].failed

\* What the end of a transaction decides over an operation sent in it, before the user's
\* commit or rollback (begin, execute, commit and rollback of the handler):
\*   if the server began the transaction and has not ended it by itself, what the user
\*   asked, once he is told that it is done;
\*   if it was never begun, as no later transaction of a session is, nothing: the work
\*   was kept at once, also if the user rolled back.
\* And if the server has undone work of a transaction by itself, the user cannot commit
\* it: he was told of an error, or an operation of it is still to be answered.
EndDecides ==
  \A b \in Batch : \A j \in 1..Len(batch[b].sent) :
    LET s == batch[b].session
        t == <<s, batch[b].sent[j].tx>>
        w == work[b][batch[b].sent[j].op] IN
    /\ t \in begun \ ended.byServer =>
         /\ t \in ended.rolledBack => w \in {"undone", "nothing"}
         /\ t \in ended.committed => w \in {"kept", "nothing"}
    /\ t \notin begun => w \in {"none", "kept", "nothing"}
    /\ t = <<s, tx[s]>> /\ ending[s] = None /\ w = "undone" =>
         RollbackOnly(s) \/ \E i \in 1..Len(wire[conn[s]]) : wire[conn[s]][i].what = "op"

\* An operation sent outside of a transaction is never left to the decision of
\* one: neither of its own session nor of one that used the connection before
\* (the handler that lives on after commit, closeConnection).
AutocommitKeeps ==
  /\ \A b \in Batch : \A j \in 1..Len(batch[b].sent) :
       batch[b].sent[j].tx = 0 => work[b][batch[b].sent[j].op] \notin {"open", "undone"}
  /\ \A c \in free : trx[c] = None

\* A connection has at most one operation of the session that holds it in flight
\* (execute while numberOfOperations is set).
OneOperationInFlight ==
  \A c \in Conn : Cardinality({j \in 1..Len(wire[c]) : wire[c][j].what = "op"}) <= 1

\* All: the operations of a session run one at a time, are answered in order, and a
\* batch is told of its own errors.
OneAfterTheOther == AnswersInOrder /\ ErrorsAreItsOwn /\ OneOperationInFlight

\* Every execute is called back in the end (pendingBatches, batchComplete): as each batch
\* is executed once, again and again none waits.
EveryBatchIsCalledBack ==
  []<>(\A b \in Batch : batch[b].session # None => batch[b].done # <<>>)
=============================================================================
