---------------------------- MODULE UserSession ----------------------------
(***************************************************************************)
(* The public API of a session of database-jones: Session, Batch,          *)
(* Transaction and the UserContext made for each call of the user          *)
(* (Adapter/api), with the promise of jones-promises that a context holds. *)
(*                                                                         *)
(* A call first gets a table handler, at once when the session knows the   *)
(* table and later otherwise; then it defines an operation, which a call   *)
(* on the session gives to the adapter and a call on a batch keeps for     *)
(* Batch.execute.  The adapter (jones-ndb or jones-mysql) answers what it  *)
(* is given: the work of one transaction in order, anything else in any    *)
(* order.                                                                  *)
(*                                                                         *)
(* An action is a JavaScript turn, or the part of one between two          *)
(* callbacks of the user.  `turn' names the call that has its table        *)
(* handler already and goes on before anything else happens.               *)
(***************************************************************************)
EXTENDS Integers, Sequences, FiniteSets

CONSTANTS
  Call,         \* the calls of the user that make a UserContext, numbered in order
  KindsOf(_),   \* the kinds that a call may be of
  MaxTx,        \* bound on the transactions begun
  None

Finds == {"find", "findProjection", "load"}
Writes == {"persist", "save", "update", "remove"}
Queries == {"queryKey", "queryKeyProjection", "queryScan"}
Delegates == {"getTableMetadata", "listTables", "createTable", "dropTable", "dropAndCreateTable"}
Operations == Finds \cup Writes \cup Queries
Kinds == Operations \cup Delegates \cup {"getMapping", "execute", "commit", "rollback"}

ASSUME ConstantsAssumption ==
  /\ Call \subseteq Nat /\ MaxTx \in Nat /\ None \notin Nat \cup Kinds
  /\ \A c \in Call : KindsOf(c) \subseteq Kinds

VARIABLES
  state,       \* Transaction.state
  ctx,         \* the UserContexts
  batchList,   \* Batch.operationContexts
  known,       \* does the session have the table handler?
  turn,        \* the call that goes on in this turn, or None
  wire,        \* what the adapter was given and has not answered
  (* history *)
  nTx,         \* number of transactions begun
  ended,       \* transactions whose commit or rollback was answered
  failed,      \* transactions with an operation that failed
  overlap,     \* has an end been called while another was in flight?
  thrown       \* calls in which an exception was thrown

vars == <<state, ctx, batchList, known, turn, wire, nTx, ended, failed, overlap, thrown>>

\* phase: "new", "table" (waiting for the handler), "defined" (has an operation),
\* "handed" (given to the adapter), "asked", "askedAgain" (waiting for a call that
\* the pool of connections carries out), "over" (nothing more is done for it).
Init ==
  /\ state = "idle"
  /\ ctx = [c \in Call |-> [kind |-> None, inBatch |-> FALSE, phase |-> "new", clear |-> FALSE,
                            definedCallback |-> None, ops |-> <<>>, ran |-> None,
                            answers |-> <<>>]]
  /\ batchList = <<>>
  /\ known = FALSE
  /\ turn = None
  /\ wire = <<>>
  /\ nTx = 0 /\ ended = {} /\ failed = {} /\ overlap = FALSE /\ thrown = {}

history == <<nTx, ended, failed, overlap>>

-----------------------------------------------------------------------------
(* What each call makes of the result of its operation: err is the first   *)
(* argument of the callback; success, notFound and value come from         *)
(* dbOperation.result.  told is what the user gets, rollback whether an    *)
(* active transaction becomes rollback-only.                               *)

Result(err, success, notFound, value) ==
  [err |-> err, success |-> success, notFound |-> notFound, value |-> value]

Done     == Result(FALSE, TRUE, FALSE, TRUE)
Error    == Result(TRUE, FALSE, FALSE, FALSE)
NotBuilt == Result(FALSE, FALSE, FALSE, FALSE)
Missing  == {Result(FALSE, FALSE, TRUE, FALSE), Result(TRUE, FALSE, TRUE, FALSE)}

\* jones-ndb passes result.error as err; jones-mysql reports a missing row and an
\* operation that it could not build in the result only.
Results(kind) ==
  {Done, Error, NotBuilt} \cup
  (IF kind \in {"persist", "save", "queryScan"} THEN {} ELSE Missing)

checkOperation(r) == r.err \/ ~r.success

Says(told, rollback) == [told |-> told, rollback |-> rollback]
If(err) == IF err THEN "error" ELSE "ok"

FindOnResult(r) ==
  IF checkOperation(r) /\ ~r.notFound THEN Says(If(r.err), TRUE) ELSE Says("ok", FALSE)

FindWithProjectionOnResult(r) == FindOnResult(r)

\* load passes err on, which is null when the error is in the result only.
LoadOnResult(r) == IF checkOperation(r) THEN Says(If(r.err), TRUE) ELSE Says("ok", FALSE)

\* Mutant: a failure leaves the transaction active.
PersistOnResult_StaysActive(r) == Says(If(checkOperation(r)), FALSE)
PersistOnResult(r) == Says(If(checkOperation(r)), checkOperation(r))
SaveOnResult(r)    == Says(If(checkOperation(r)), checkOperation(r))
UpdateOnResult(r)  == Says(If(checkOperation(r)), checkOperation(r))
RemoveOnResult(r)  == Says(If(checkOperation(r)), checkOperation(r))

QueryKeyOnResult(r) == Says(If(checkOperation(r) /\ ~r.notFound), FALSE)

\* A missing row that is not reported as err is not reported to the user at all.
QueryKeyProjectionOnResult(r) ==
  IF r.err THEN Says(If(~r.notFound), FALSE)
  ELSE Says(IF r.value THEN "ok" ELSE "nothing", FALSE)

\* The property sqlstate of err is read although the error may be in the result.
QueryScanOnResult(r) ==
  IF checkOperation(r) /\ ~r.err THEN Says("throws", FALSE)
  ELSE Says(If(checkOperation(r) /\ ~r.notFound), FALSE)

OnResult(kind, r) ==
  CASE kind = "find" -> FindOnResult(r)
    [] kind = "findProjection" -> FindWithProjectionOnResult(r)
    [] kind = "load" -> LoadOnResult(r)
    [] kind = "persist" -> PersistOnResult(r)
    [] kind = "save" -> SaveOnResult(r)
    [] kind = "update" -> UpdateOnResult(r)
    [] kind = "remove" -> RemoveOnResult(r)
    [] kind = "queryKey" -> QueryKeyOnResult(r)
    [] kind = "queryKeyProjection" -> QueryKeyProjectionOnResult(r)
    [] kind = "queryScan" -> QueryScanOnResult(r)

-----------------------------------------------------------------------------
(* What each call does with the table handler: the outcomes of the checks  *)
(* it makes before it builds the operation.  "noIndex" answers with an     *)
(* error, "throws" reads a property of a null index handler.               *)

FindOnTableHandler    == {"built", "noIndex"}
LoadOnTableHandler    == {"built", "noIndex"}
RemoveOnTableHandler  == {"built", "noIndex"}
PersistOnTableHandler == {"built"}
SaveOnTableHandler    == {"built", "noIndex", "throws"}
UpdateOnTableHandler  == {"built", "noIndex", "throws"}
FindOnValidatedProjection == {"built", "noIndex"}
\* A query has its index since createQuery; a scan checks order, skip and limit.
ExecuteKeyQuery  == {"built"}
ExecuteScanQuery == {"built", "noIndex"}
GetMappingOnTableHandler == {"answered"}

OnTableHandler(kind) ==
  CASE kind = "find" -> FindOnTableHandler
    [] kind = "findProjection" -> FindOnValidatedProjection
    [] kind = "load" -> LoadOnTableHandler
    [] kind = "persist" -> PersistOnTableHandler
    [] kind = "save" -> SaveOnTableHandler
    [] kind = "update" -> UpdateOnTableHandler
    [] kind = "remove" -> RemoveOnTableHandler
    [] kind \in {"queryKey", "queryKeyProjection"} -> ExecuteKeyQuery
    [] kind = "queryScan" -> ExecuteScanQuery
    [] kind = "getMapping" -> GetMappingOnTableHandler

-----------------------------------------------------------------------------
(* Answers.                                                                *)

\* Mutant: a settled promise may be settled again.
Apply_Again(c, cs, answer) ==
  /\ ctx' = [cs EXCEPT ![c].answers = Append(@, answer)]
  /\ UNCHANGED thrown

\* applyCallback: the promise throws when it is settled already, before the
\* callback of the user is called.  cs are the contexts as they are by then.
Apply(c, cs, answer) ==
  IF cs[c].answers = <<>>
  THEN /\ ctx' = [cs EXCEPT ![c].answers = <<answer>>]
       /\ UNCHANGED thrown
  ELSE /\ ctx' = cs
       /\ thrown' = thrown \cup {c}

Ending == \E j \in 1..Len(wire) : wire[j].what \in {"commit", "rollback"}

\* The transaction in which the adapter runs what it is given now.
RunsIn == IF state = "idle" \/ Ending THEN 0 ELSE nTx

Hand(what, ops, for) ==
  wire' = Append(wire, [what |-> what, ops |-> ops, for |-> for, tx |-> RunsIn])

\* The contexts with their operations given to the adapter.
Handed(cs, ops) ==
  [c \in Call |-> IF \E j \in 1..Len(ops) : ops[j] = c
                  THEN [cs[c] EXCEPT !.phase = "handed", !.ran = RunsIn] ELSE cs[c]]

\* Calls whose operation exists.
HasOperation(cs, c) == cs[c].phase \in {"defined", "handed"}

\* executeBatchOnOperationDefined: gives the batch of execute call x to the
\* adapter when the last of its operations is there.
AllDefined(cs, x) == \A j \in 1..Len(cs[x].ops) : HasOperation(cs, cs[x].ops[j])

-----------------------------------------------------------------------------
(* The calls of the user.                                                  *)

NextCall(c) == ctx[c].kind = None /\ \A d \in Call : d < c => ctx[d].kind # None

\* A call on the session or on the batch, up to the request for the table handler.
\* Some arguments are refused at once.  The batch has the context in any case.
UserCall(c, kind, inBatch) ==
  /\ turn = None /\ NextCall(c)
  /\ kind \in Operations \cup {"getMapping"}
  /\ inBatch => kind \in Finds \cup Writes
  /\ LET made == [ctx[c] EXCEPT !.kind = kind, !.inBatch = inBatch] IN
     \/ /\ ctx' = [ctx EXCEPT ![c] = [made EXCEPT !.phase = "table"]]
        /\ turn' = IF known \/ kind \in Queries THEN c ELSE None
     \/ /\ kind \in {"find", "load"}
        /\ ctx' = [ctx EXCEPT ![c] = [made EXCEPT !.phase = "over", !.answers = <<"error">>]]
        /\ UNCHANGED turn
  /\ batchList' = IF inBatch THEN Append(batchList, c) ELSE batchList
  /\ UNCHANGED <<state, known, wire, thrown, history>>

\* Calls that the pool carries out.  Illegal arguments are refused at once; dropTable
\* asks the pool all the same.
Delegate(c, kind) ==
  /\ turn = None /\ NextCall(c)
  /\ kind \in Delegates
  /\ LET made == [ctx EXCEPT ![c].kind = kind, ![c].phase = "asked"] IN
     \/ ctx' = made
     \/ /\ kind \in {"getTableMetadata", "dropTable", "dropAndCreateTable"}
        /\ ctx' = [made EXCEPT ![c].answers = <<"error">>,
                               ![c].phase = IF kind = "dropTable" THEN "asked" ELSE "over"]
  /\ UNCHANGED <<state, batchList, known, turn, wire, thrown, history>>

\* The pool answers.  dropAndCreateTable then creates.  For one error createTable
\* calls applyCallback without the argument that it demands.
DelegateAnswered(c) ==
  /\ turn = None /\ ctx[c].phase \in {"asked", "askedAgain"}
  /\ LET over == [ctx EXCEPT ![c].phase = "over"] IN
     \/ /\ ctx[c].kind = "dropAndCreateTable" /\ ctx[c].phase = "asked"
        /\ ctx' = [ctx EXCEPT ![c].phase = "askedAgain"]
        /\ UNCHANGED thrown
     \/ /\ ctx[c].kind = "dropAndCreateTable" /\ ctx[c].phase = "asked"
        /\ Apply(c, over, "error")
     \/ /\ ctx[c].kind # "dropAndCreateTable" \/ ctx[c].phase = "askedAgain"
        /\ \E answer \in {"ok", "error"} : Apply(c, over, answer)
     \/ ctx[c].kind = "createTable" /\ ctx' = over /\ thrown' = thrown \cup {c}
  /\ UNCHANGED <<state, batchList, known, turn, wire, history>>

\* The operation of c exists: it is executed, or counted by an execute call that
\* waits for it, or stays in the batch.
Define(c) ==
  LET cs == [ctx EXCEPT ![c].phase = "defined"]
      x == ctx[c].definedCallback IN
  IF ~ctx[c].inBatch
  THEN ctx' = Handed(cs, <<c>>) /\ Hand("operations", <<c>>, c)
  ELSE IF x # None /\ AllDefined(cs, x)
  THEN ctx' = Handed(cs, cs[x].ops) /\ Hand("operations", cs[x].ops, x)
  ELSE ctx' = cs /\ UNCHANGED wire

\* The table handler, or an error, arrives.  A call that was cleared goes no
\* further, except that findWithProjection does not look.
TableHandler(c) ==
  /\ turn = c \/ (turn = None /\ ctx[c].phase = "table")
  /\ turn' = None
  /\ LET over == [ctx EXCEPT ![c].phase = "over"] IN
     \/ /\ turn = None
        /\ IF ctx[c].clear /\ ctx[c].kind # "findProjection"
           THEN ctx' = over /\ UNCHANGED thrown
           ELSE Apply(c, over, "error")
        /\ UNCHANGED <<known, wire>>
     \/ /\ known' = TRUE
        /\ IF ctx[c].clear /\ ctx[c].kind # "findProjection"
           THEN ctx' = over /\ UNCHANGED <<thrown, wire>>
           ELSE \E outcome \in OnTableHandler(ctx[c].kind) :
             CASE outcome = "built" -> Define(c) /\ UNCHANGED thrown
               [] outcome = "noIndex" -> Apply(c, over, "error") /\ UNCHANGED wire
               [] outcome = "answered" -> Apply(c, over, "ok") /\ UNCHANGED wire
               [] outcome = "throws" -> /\ ctx' = over
                                        /\ thrown' = thrown \cup {c}
                                        /\ UNCHANGED wire
  /\ UNCHANGED <<state, batchList, history>>

\* Mutant: an operation that is defined later is
\* not waited for.
BatchExecute_ForgetsLate(x) ==
  /\ turn = None /\ NextCall(x) /\ "execute" \in KindsOf(x)
  /\ batchList' = <<>>
  /\ LET made == [ctx EXCEPT ![x].kind = "execute", ![x].phase = "over", ![x].ops = batchList] IN
     IF batchList = <<>>
     THEN Apply(x, made, "ok") /\ UNCHANGED wire
     ELSE IF AllDefined(made, x)
     THEN ctx' = Handed(made, batchList) /\ Hand("operations", batchList, x) /\ UNCHANGED thrown
     ELSE ctx' = made /\ UNCHANGED <<wire, thrown>>
  /\ UNCHANGED <<state, known, turn, history>>

\* Batch.execute and executeBatch.
BatchExecute(x) ==
  /\ turn = None /\ NextCall(x) /\ "execute" \in KindsOf(x)
  /\ batchList' = <<>>
  /\ LET mine == {batchList[j] : j \in 1..Len(batchList)}
         made == [c \in Call |->
                    IF c = x THEN [ctx[c] EXCEPT !.kind = "execute", !.phase = "over", !.ops = batchList]
                    ELSE IF c \in mine /\ ~HasOperation(ctx, c)
                    THEN [ctx[c] EXCEPT !.definedCallback = x] ELSE ctx[c]] IN
     IF batchList = <<>>
     THEN Apply(x, made, "ok") /\ UNCHANGED wire
     ELSE IF AllDefined(made, x)
     THEN ctx' = Handed(made, batchList) /\ Hand("operations", batchList, x) /\ UNCHANGED thrown
     ELSE ctx' = made /\ UNCHANGED <<wire, thrown>>
  /\ UNCHANGED <<state, known, turn, history>>

Answered(c) == ctx[c].answers # <<>>

\* Those answered by Batch.clear: it stops at the first that was answered before.
Clearable == {j \in 1..Len(batchList) : \A i \in 1..j : ~Answered(batchList[i])}

\* Mutant: the cleared calls stay in the batch.
BatchClear_KeepsThem ==
  /\ turn = None /\ batchList # <<>>
  /\ LET told == {batchList[j] : j \in Clearable} IN
     ctx' = [c \in Call |-> IF c \in told
               THEN [ctx[c] EXCEPT !.clear = TRUE, !.answers = <<"cleared">>] ELSE ctx[c]]
  /\ UNCHANGED <<state, batchList, known, turn, wire, thrown, history>>

\* Batch.clear: marks and answers the calls one by one.  The promise of a call
\* that was answered throws, and then the batch is not emptied.
BatchClear ==
  /\ turn = None /\ batchList # <<>>
  /\ LET told == {batchList[j] : j \in Clearable}
         stop == Cardinality(Clearable) + 1 IN
     /\ ctx' = [c \in Call |->
          IF c \in told THEN [ctx[c] EXCEPT !.clear = TRUE, !.answers = <<"cleared">>]
          ELSE IF stop <= Len(batchList) /\ c = batchList[stop]
          THEN [ctx[c] EXCEPT !.clear = TRUE] ELSE ctx[c]]
     /\ IF stop <= Len(batchList)
        THEN thrown' = thrown \cup {batchList[stop]} /\ UNCHANGED batchList
        ELSE batchList' = <<>> /\ UNCHANGED thrown
  /\ UNCHANGED <<state, known, turn, wire, history>>

\* Idle.begin; begin is refused in the other states.
Begin ==
  /\ turn = None /\ state = "idle" /\ nTx < MaxTx
  /\ state' = "active"
  /\ nTx' = nTx + 1
  /\ UNCHANGED <<ctx, batchList, known, turn, wire, ended, failed, overlap, thrown>>

\* Active.setRollbackOnly.
SetRollbackOnly ==
  /\ turn = None /\ state = "active"
  /\ state' = "rollbackOnly"
  /\ UNCHANGED <<ctx, batchList, known, turn, wire, history, thrown>>

\* The states in which commit and rollback are not refused with an error.
Allows(how) == IF how = "commit" THEN state = "active" ELSE state # "idle"

\* Mutant: the transaction is idle too early.
End_IdleAtOnce(c, how) ==
  /\ turn = None /\ NextCall(c) /\ how \in KindsOf(c)
  /\ IF Allows(how)
     THEN /\ ctx' = [ctx EXCEPT ![c].kind = how, ![c].phase = "handed", ![c].ran = RunsIn]
          /\ Hand(how, <<>>, c)
          /\ overlap' = (overlap \/ Ending)
          /\ state' = "idle"
     ELSE /\ ctx' = [ctx EXCEPT ![c].kind = how, ![c].phase = "over", ![c].answers = <<"error">>]
          /\ UNCHANGED <<wire, overlap, state>>
  /\ UNCHANGED <<batchList, known, turn, nTx, ended, failed, thrown>>

\* Transaction.commit and rollback.  While an end is in flight, the adapter takes
\* another one or, as jones-ndb does with commit, throws.
End(c, how) ==
  /\ turn = None /\ NextCall(c) /\ how \in KindsOf(c)
  /\ IF Allows(how)
     THEN \/ /\ ctx' = [ctx EXCEPT ![c].kind = how, ![c].phase = "handed", ![c].ran = RunsIn]
             /\ Hand(how, <<>>, c)
             /\ overlap' = (overlap \/ Ending)
             /\ UNCHANGED thrown
          \/ /\ how = "commit" /\ Ending
             /\ ctx' = [ctx EXCEPT ![c].kind = how, ![c].phase = "over"]
             /\ thrown' = thrown \cup {c}
             /\ UNCHANGED <<wire, overlap>>
     ELSE /\ ctx' = [ctx EXCEPT ![c].kind = how, ![c].phase = "over", ![c].answers = <<"error">>]
          /\ UNCHANGED <<wire, overlap, thrown>>
  /\ UNCHANGED <<state, batchList, known, turn, nTx, ended, failed>>

-----------------------------------------------------------------------------
(* The adapter answers.                                                    *)

\* The next to be answered: the first of its transaction.
CanAnswer(j) ==
  turn = None /\ (wire[j].tx = 0 \/ \A i \in 1..(j - 1) : wire[i].tx # wire[j].tx)
Without(j) == SubSeq(wire, 1, j - 1) \o SubSeq(wire, j + 1, Len(wire))

\* Queries that fail leave a transaction as it is, and so does finding nothing.
Fails(kind, r) ==
  /\ kind \notin Queries /\ ~r.success
  /\ kind \in {"find", "findProjection"} => ~r.notFound

\* The callback of the first operation of a list.
OperationAnswered(j) ==
  /\ CanAnswer(j) /\ wire[j].what = "operations" /\ wire[j].ops # <<>>
  /\ LET c == Head(wire[j].ops) IN
     \E r \in Results(ctx[c].kind) :
       LET says == OnResult(ctx[c].kind, r) IN
       /\ state' = IF says.rollback /\ state = "active" THEN "rollbackOnly" ELSE state
       /\ failed' = IF Fails(ctx[c].kind, r) /\ ctx[c].ran # 0 THEN failed \cup {ctx[c].ran} ELSE failed
       /\ CASE says.told \in {"ok", "error"} -> Apply(c, ctx, says.told)
            [] says.told = "nothing" -> UNCHANGED <<ctx, thrown>>
            [] says.told = "throws" -> UNCHANGED ctx /\ thrown' = thrown \cup {c}
  /\ wire' = [wire EXCEPT ![j].ops = Tail(@)]
  /\ UNCHANGED <<batchList, known, turn, nTx, ended, overlap>>

\* The execute callback behind them: only that of a batch tells the user.
ListAnswered(j) ==
  /\ CanAnswer(j) /\ wire[j].what = "operations" /\ wire[j].ops = <<>>
  /\ IF ctx[wire[j].for].kind = "execute"
     THEN \E answer \in {"ok", "error"} : Apply(wire[j].for, ctx, answer)
     ELSE UNCHANGED <<ctx, thrown>>
  /\ wire' = Without(j)
  /\ UNCHANGED <<state, batchList, known, turn, history>>

\* commitOnCommit and rollbackOnRollback.
EndAnswered(j) ==
  /\ CanAnswer(j) /\ wire[j].what \in {"commit", "rollback"}
  /\ state' = "idle"
  /\ ended' = ended \cup {wire[j].tx}
  /\ \E answer \in {"ok", "error"} : Apply(wire[j].for, ctx, answer)
  /\ wire' = Without(j)
  /\ UNCHANGED <<batchList, known, turn, nTx, failed, overlap>>

-----------------------------------------------------------------------------
Adapter(c) ==
  \/ TableHandler(c) \/ DelegateAnswered(c)
  \/ \E j \in 1..Len(wire) :
       /\ wire[j].for = c
       /\ OperationAnswered(j) \/ ListAnswered(j) \/ EndAnswered(j)

User ==
  \/ Begin \/ SetRollbackOnly \/ BatchClear
  \/ \E c \in Call : \/ BatchExecute(c) \/ \E kind \in KindsOf(c) : Delegate(c, kind)
                     \/ \E kind \in KindsOf(c), inBatch \in BOOLEAN : UserCall(c, kind, inBatch)
                     \/ \E how \in {"commit", "rollback"} : End(c, how)

Next == User \/ \E c \in Call : Adapter(c)

\* Table handlers and the answers of the adapter arrive in the end.
Spec == Init /\ [][Next]_vars /\ \A c \in Call : WF_vars(Adapter(c))

-----------------------------------------------------------------------------
(* Properties.                                                             *)

\* The user is called back at most once for a call, also when a batch is cleared
\* whose calls were answered or go on later (applyCallback, Promise, Batch.clear).
AnsweredOnce == \A c \in Call : Len(ctx[c].answers) <= 1

\* A call that was told that its batch was cleared is not executed; and the
\* callback of Batch.execute comes after those of all operations of the batch
\* (Batch.clear, Batch.execute, executeBatch).
BatchIsExecutedWhole ==
  /\ \A c \in Call : ctx[c].answers = <<"cleared">> => ctx[c].ran = None
  /\ \A x \in Call : ctx[x].kind = "execute" /\ Answered(x) =>
       \A j \in 1..Len(ctx[x].ops) : Answered(ctx[x].ops[j])

\* A transaction in which an operation has failed can no longer be committed
\* (the onResult callbacks, RollbackOnly.commit).
FailureForbidsCommit ==
  [][\A c \in Call : ctx[c].kind = None /\ ctx'[c].kind = "commit" /\ ctx'[c].phase = "handed"
       /\ ctx'[c].ran # 0 => ctx'[c].ran \notin failed]_vars

\* The API says Idle exactly when the last transaction begun has been ended, and
\* its end answered, unless two ends were called at once (setState in
\* commitOnCommit and rollbackOnRollback).
IdleMeansEnded == ~overlap => (state = "idle" <=> nTx \in ended \cup {0})

\* Operations that will not be executed: one of their batch could not be defined.
Stuck(c) == \E x \in Call :
  /\ c = x \/ \E j \in 1..Len(ctx[x].ops) : ctx[x].ops[j] = c
  /\ \E j \in 1..Len(ctx[x].ops) : ctx[ctx[x].ops[j]].phase = "over"
Kept(c) == \E j \in 1..Len(batchList) : batchList[j] = c

\* Every call is answered in the end, unless an exception was thrown, it is in a
\* batch that nobody executes, or that has an operation that could not be defined,
\* or is a key query with a projection (operationDefinedCallback, executeBatch).
EveryCallIsAnswered ==
  \A c \in Call :
    ctx[c].kind # None ~>
      \/ Answered(c) \/ c \in thrown \/ Kept(c) \/ Stuck(c)
      \/ ctx[c].kind = "queryKeyProjection"
=============================================================================
