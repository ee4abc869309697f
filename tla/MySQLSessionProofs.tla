------------------------- MODULE MySQLSessionProofs -------------------------
(***************************************************************************)
(* The sessions of jones-mysql execute their operations one after another, *)
(* and what becomes of the work of a transaction is what EndDecides says,  *)
(* for any sessions, connections and batches: while users wait for         *)
(* `begin', commit no empty transaction and end theirs before close.       *)
(*                                                                         *)
(* The invariant is about one session at a time.  A connection carries the *)
(* queries of the session that holds it and of dictionary calls, so a step *)
(* of one session is not seen by another.  Of a session it says where the  *)
(* handler is in its batch, that at most one query of each kind is in      *)
(* flight, and what the place of the operation in flight before or behind  *)
(* the commit means for its work; of a batch, whose errors it is told; and *)
(* that work the server has undone by itself is, or will be, noticed.      *)
(***************************************************************************)
EXTENDS MySQLSession, SequenceTheorems, FiniteSetTheorems, TLAPS

Queries ==
  [what : {"setup", "begin", "commit", "rollback"}, for : Session, op : Nat] \cup
  [what : {"op"}, for : Batch, op : Nat] \cup
  [what : {"metadata"}, for : Lookup, op : Nat]
Handlers ==
  [exists : BOOLEAN, firstTime : BOOLEAN, numberOfOperations : Nat, currentOperation : Nat,
   executed : Nat, operationsList : Batch \cup {None}, pendingBatches : Seq(Batch),
   error : BOOLEAN]
Answers == {"ok", "error"}
Calls == {"ok", "error", "notBegun"}
Sends == [op : Nat, tx : Nat]
Batches ==
  [session : Session \cup {None}, ops : Lists \cup {<<>>}, tx : Nat, waited : BOOLEAN,
   sent : Seq(Sends), answers : Seq(Nat \X Answers), failed : BOOLEAN, done : Seq(Calls)]
Transactions == Session \X Nat
Ends == [committed : SUBSET Transactions, rolledBack : SUBSET Transactions,
         byServer : SUBSET Transactions]

TypeOK ==
  /\ free \subseteq Conn
  /\ wire \in [Conn -> Seq(Queries)]
  /\ trx \in [Conn -> ServerTransactions \cup {None}]
  /\ status \in [Session -> {"new", "setup", "open", "failed", "closed"}]
  /\ conn \in [Session -> Conn \cup {None}]
  /\ autocommit \in [Session -> BOOLEAN]
  /\ handler \in [Session -> Handlers]
  /\ turn \in Turns \cup {None}
  /\ batch \in [Batch -> Batches]
  /\ tx \in [Session -> Nat] /\ nTx \in [Session -> Nat]
  /\ ending \in [Session -> {None, "commit", "rollback"}]
  /\ lookup \in [Lookup -> [state : {"new", "waiting", "asked", "done"}, conn : Conn \cup {None}]]
  /\ begun \subseteq Transactions
  /\ ended \in Ends
  /\ work \in [Batch -> Seq({"none", "open", "kept", "undone", "nothing"})]
  /\ \A b \in Batch : Len(work[b]) = Len(batch[b].ops)

\* A connection is free or held by one.
ConnsOK ==
  /\ \A s \in Session :
       /\ conn[s] \notin free
       /\ status[s] \in {"new", "closed"} => conn[s] = None
       /\ status[s] \in {"setup", "open"} => conn[s] # None
       /\ \A r \in Session : conn[s] # None /\ conn[r] = conn[s] => r = s
  /\ \A k \in Lookup : lookup[k].conn # None =>
       /\ lookup[k].conn \notin free
       /\ \A s \in Session : conn[s] # lookup[k].conn
       /\ \A l \in Lookup : lookup[l].conn = lookup[k].conn => l = k

\* A connection that no session holds carries nothing of a session.
Unheld(c) == \A s \in Session : conn[s] # c
UnheldOK ==
  \A c \in Conn : Unheld(c) =>
    trx[c] = None /\ \A j \in 1..Len(wire[c]) : wire[c][j].what = "metadata"

Fresh(b) ==
  /\ batch[b].answers = <<>> /\ batch[b].done = <<>> /\ batch[b].sent = <<>>
  /\ ~batch[b].failed
UnusedOK == \A b \in Batch : batch[b].session = None => Fresh(b) /\ batch[b].ops = <<>>

-----------------------------------------------------------------------------
(* A session and its handler.                                              *)

Runs(s) == turn # None /\ turn.session = s
Does(s, what) == Runs(s) /\ turn.does = what

IsEnd(q) == q.what \in {"commit", "rollback"}
BeginSent(s) == \E j \in 1..Len(wire[conn[s]]) : wire[conn[s]][j].what = "begin"
EndSent(s) == \E j \in 1..Len(wire[conn[s]]) : IsEnd(wire[conn[s]][j])
EndBefore(s, j) == \E k \in 1..(j - 1) : IsEnd(wire[conn[s]][k])
InFlight(s, b, i) ==
  \E j \in 1..Len(wire[conn[s]]) : wire[conn[s]][j] = Query("op", b, i)

\* Where a handler is in the batch b.
PlaceOK(s, b) ==
  LET h == handler[s] IN
  /\ h.numberOfOperations = Len(batch[b].ops)
  /\ h.currentOperation \in 1..h.numberOfOperations
  /\ ~Does(s, "operations") /\ ~Does(s, "throw")
  /\ IF Does(s, "batch") THEN Len(batch[b].answers) = Len(batch[b].ops)
     ELSE /\ h.executed = h.currentOperation - 1
          /\ Len(batch[b].answers) =
               IF Does(s, "complete") THEN h.currentOperation ELSE h.executed
          /\ \A j \in 1..Len(batch[b].sent) : batch[b].sent[j].op <=
               IF Does(s, "execute") THEN h.executed ELSE h.currentOperation

RunOK(s) ==
  LET h == handler[s]  b == h.operationsList IN
  /\ h.exists /\ ~h.firstTime /\ status[s] = "open" /\ b # None /\ batch[b].session = s
  /\ h.numberOfOperations = 0 =>
       Does(s, "operations") /\ batch[b].answers = <<>> /\ batch[b].sent = <<>>
  /\ h.numberOfOperations > 0 => PlaceOK(s, b)

\* Before the first batch of a transaction is executed.
FirstOK(s) ==
  /\ handler[s].exists /\ handler[s].numberOfOperations = 0 /\ ~Runs(s)
  /\ tx[s] # 0 /\ ending[s] = None /\ status[s] = "open"
  /\ \A t \in begun : t[1] # s
  /\ \A b \in Batch : batch[b].session = s =>
       handler[s].operationsList = b /\ BeginSent(s) /\ Fresh(b) /\ batch[b].tx = tx[s]

HandlerOK(s) ==
  LET h == handler[s] IN
  /\ ~h.exists => autocommit[s] /\ nTx[s] = 0 /\ \A b \in Batch : batch[b].session # s
  /\ h.numberOfOperations = 0 => h.executed = 0
  /\ h.firstTime => FirstOK(s)
  /\ (h.numberOfOperations > 0 \/ Runs(s)) => RunOK(s)
  /\ \A j \in 1..Len(h.pendingBatches) : batch[h.pendingBatches[j]].session = s
  /\ \A i, j \in 1..Len(h.pendingBatches) : h.pendingBatches[i] = h.pendingBatches[j] => i = j

\* Transactions of the session and of the server.
TrxOK(s) ==
  /\ tx[s] # 0 /\ <<s, tx[s]>> \in begun /\ trx[conn[s]].tx = <<s, tx[s]>>
  /\ \A p \in trx[conn[s]].work :
       /\ batch[p[1]].session = s
       /\ \E j \in 1..Len(batch[p[1]].sent) : batch[p[1]].sent[j] = [op |-> p[2], tx |-> tx[s]]

\* While a transaction that was begun at the server goes on, it has all batches.
FirstTx(s) ==
  tx[s] # 0 /\ <<s, tx[s]>> \in begun =>
    \A b \in Batch : batch[b].session = s => batch[b].tx = tx[s]

TxOK(s) ==
  /\ tx[s] \in {0, nTx[s]}
  /\ tx[s] # 0 =>
       /\ status[s] = "open" /\ handler[s].exists
       /\ <<s, tx[s]>> \notin ended.committed \cup ended.rolledBack
       /\ <<s, tx[s]>> \in begun => trx[conn[s]] # None \/ <<s, tx[s]>> \in ended.byServer
  /\ ending[s] # None => tx[s] # 0 /\ EndSent(s)
  /\ \A t \in begun \cup ended.committed \cup ended.rolledBack : t[1] = s => t[2] \in 1..nTx[s]
  /\ conn[s] # None /\ trx[conn[s]] # None => TrxOK(s)
  /\ FirstTx(s)

\* The queries given to the connection of a session.
LastSent(b) == batch[b].sent[Len(batch[b].sent)]
InFlightOK(s, b, i) ==
  /\ batch[b].session = s /\ ~Runs(s)
  /\ handler[s].numberOfOperations > 0 /\ handler[s].operationsList = b
  /\ handler[s].currentOperation = i
  /\ batch[b].sent # <<>> /\ LastSent(b).op = i
  /\ LastSent(b).tx # 0 => LastSent(b).tx = tx[s]
QueryOK(s, q) ==
  /\ q.what = "setup" => q.for = s /\ status[s] = "setup"
  /\ q.what = "begin" =>
       /\ q.for = s /\ q.op = tx[s] /\ handler[s].firstTime
       /\ handler[s].operationsList # None /\ batch[handler[s].operationsList].session = s
  /\ q.what = "op" => InFlightOK(s, q.for, q.op)
  /\ IsEnd(q) => q.for = s /\ ending[s] = q.what /\ q.op = tx[s]
OrderOK(s, j) ==
  LET b == wire[conn[s]][j].for IN
  wire[conn[s]][j].what = "op" =>
    /\ LastSent(b).tx # 0 => ~EndBefore(s, j)
    /\ LastSent(b).tx = 0 => trx[conn[s]] = None \/ EndBefore(s, j)
WireOK(s) ==
  LET w == wire[conn[s]] IN
  /\ \A j \in 1..Len(w) : QueryOK(s, w[j]) /\ OrderOK(s, j)
  /\ \A i, j \in 1..Len(w) : w[i].what = w[j].what /\ w[i].what # "metadata" => i = j

-----------------------------------------------------------------------------
(* A batch of a session.                                                   *)

Current(s, b) ==
  /\ handler[s].operationsList = b
  /\ handler[s].numberOfOperations > 0 \/ Runs(s) \/ handler[s].firstTime
Waits(s, b) == \E j \in 1..Len(handler[s].pendingBatches) : handler[s].pendingBatches[j] = b

\* The error that the handler has noted, or is about to note.
Erred(s) == handler[s].error \/ (Does(s, "complete") /\ turn.error)

\* A batch is told of its own errors, of no other if it has waited for another batch.
ErrorOK(s, b) ==
  LET r == batch[b] IN
  /\ Current(s, b) => (r.failed => Erred(s)) /\ (Erred(s) /\ r.waited => r.failed)
  /\ \A j \in 1..Len(r.done) :
       /\ r.done[j] = "ok" => ~r.failed
       /\ r.done[j] = "error" /\ r.waited => r.failed

\* It is called back after its operations, but for the failed `begin' before them.
DoneOK(s, b) ==
  LET r == batch[b] IN
  /\ \A j \in 1..Len(r.done) : IF r.done[j] = "notBegun" THEN j = 1
                               ELSE j = Len(r.done) /\ Len(r.answers) = Len(r.ops)
  /\ Current(s, b) => \A j \in 1..Len(r.done) : r.done[j] = "notBegun"

BatchOK(s, b) ==
  LET r == batch[b] IN
  /\ r.ops # <<>>
  /\ \A j \in 1..Len(r.answers) : r.answers[j][1] = j
  /\ DoneOK(s, b)
  /\ ErrorOK(s, b)
  /\ Waits(s, b) => Fresh(b) /\ ~Current(s, b)
  /\ \A j \in 1..Len(r.sent) : r.sent[j].op \in 1..Len(r.ops)
  /\ \A i, j \in 1..Len(r.sent) : r.sent[i].op = r.sent[j].op => i = j

\* What became of an operation that was sent.
SentOK(s, b, e) ==
  LET t == <<s, e.tx>>  w == work[b][e.op] IN
  /\ e.tx = 0 \/ t \notin begun => w \in {"none", "kept", "nothing"}
  /\ t \in begun /\ e.tx = tx[s] =>
       /\ w = "none" => InFlight(s, b, e.op)
       /\ w = "open" => trx[conn[s]] # None /\ <<b, e.op>> \in trx[conn[s]].work
       /\ t \notin ended.byServer => w \in {"none", "open", "nothing"}
  /\ t \in begun \ ended.byServer =>
       /\ t \in ended.committed => w \in {"kept", "nothing"}
       /\ t \in ended.rolledBack => w \in {"undone", "nothing"}
WorkOK(s, b) ==
  /\ \A j \in 1..Len(batch[b].sent) : SentOK(s, b, batch[b].sent[j])
  /\ \A i \in 1..Len(batch[b].ops) :
       (\A j \in 1..Len(batch[b].sent) : batch[b].sent[j].op # i) => work[b][i] = "none"

\* Work that the server undid by itself: an operation was or will be told of an error.
Loss(s, b, e) == e.tx = tx[s] /\ work[b][e.op] = "undone"
Noticed(s) ==
  RollbackOnly(s) \/
  \E b \in Batch : \E i \in 1..Len(batch[b].ops) : InFlight(s, b, i) /\ work[b][i] # "none"
LossOK(s) ==
  ending[s] = None => \A b \in Batch : batch[b].session = s =>
    \A j \in 1..Len(batch[b].sent) : Loss(s, b, batch[b].sent[j]) => Noticed(s)

SessionOK(s) ==
  /\ HandlerOK(s)
  /\ TxOK(s)
  /\ conn[s] # None => WireOK(s)
  /\ \A b \in Batch : batch[b].session = s => BatchOK(s, b) /\ WorkOK(s, b)
  /\ LossOK(s)

IInv ==
  /\ TypeOK
  /\ ConnsOK
  /\ UnheldOK
  /\ UnusedOK
  /\ \A s \in Session : SessionOK(s)

-----------------------------------------------------------------------------
LEMMA NoneIs ==
  /\ None \notin Session /\ None \notin Conn /\ None \notin Batch /\ None \notin Lookup
  /\ None \notin ServerTransactions /\ None \notin Turns
  /\ None # "commit" /\ None # "rollback" /\ None # "error"
BY ConstantsAssumption

LEMMA TurnIs ==
  ASSUME NEW s \in Session
  PROVE /\ \A d \in {"operations", "execute", "batch", "throw"} :
             [session |-> s, does |-> d] \in Turns /\ [session |-> s, does |-> d] # None
        /\ \A e \in BOOLEAN : LET t == [session |-> s, does |-> "complete", error |-> e] IN
             t \in Turns /\ t # None
<1>1. \A d \in {"operations", "execute", "batch", "throw"} : [session |-> s, does |-> d] \in Turns
  BY DEF Turns
<1>2. \A e \in BOOLEAN : [session |-> s, does |-> "complete", error |-> e] \in Turns
  BY DEF Turns
<1> QED BY <1>1, <1>2, NoneIs

\* What a step leaves alone of a session: all but its queries, or all.
Own(r) ==
  /\ conn'[r] = conn[r] /\ status'[r] = status[r] /\ handler'[r] = handler[r]
  /\ autocommit'[r] = autocommit[r] /\ tx'[r] = tx[r] /\ nTx'[r] = nTx[r] /\ ending'[r] = ending[r]
  /\ conn[r] # None => trx'[conn[r]] = trx[conn[r]]
  /\ turn' = turn \/ (~Runs(r) /\ ~Runs(r)')
  /\ \A b \in Batch : /\ batch'[b].session = r => batch[b].session = r
                      /\ batch[b].session = r => batch'[b] = batch[b] /\ work'[b] = work[b]
  /\ \A t \in Transactions : t[1] = r =>
       /\ t \in begun' <=> t \in begun
       /\ t \in ended'.committed <=> t \in ended.committed
       /\ t \in ended'.rolledBack <=> t \in ended.rolledBack
       /\ t \in ended'.byServer <=> t \in ended.byServer
Same(r) == Own(r) /\ (conn[r] # None => wire'[conn[r]] = wire[conn[r]])

LEMMA BatchIs ==
  ASSUME TypeOK, NEW b \in Batch
  PROVE /\ batch[b] \in Batches
        /\ batch[b].session \in Session \cup {None} /\ batch[b].ops \in Lists \cup {<<>>}
        /\ batch[b].tx \in Nat /\ batch[b].sent \in Seq(Sends)
        /\ batch[b].answers \in Seq(Nat \X Answers) /\ batch[b].done \in Seq(Calls)
        /\ batch[b].waited \in BOOLEAN /\ batch[b].failed \in BOOLEAN
        /\ batch[b].ops \in Seq(Kinds) /\ Len(batch[b].ops) \in Nat
        /\ \A j \in 1..Len(batch[b].sent) : batch[b].sent[j] \in Sends
<1>1. batch[b] \in Batches BY DEF TypeOK
<1>2. batch[b].ops \in Seq(Kinds)
  <2>1. batch[b].ops \in Lists \cup {<<>>} BY <1>1 DEF Batches
  <2>2. Lists \subseteq Seq(Kinds) BY ConstantsAssumption
  <2>3. <<>> \in Seq(Kinds) OBVIOUS
  <2> QED BY <2>1, <2>2, <2>3
<1>3. batch[b].sent \in Seq(Sends) BY <1>1 DEF Batches
<1>4. \A j \in 1..Len(batch[b].sent) : batch[b].sent[j] \in Sends BY <1>3
<1> QED BY <1>1, <1>2, <1>3, <1>4 DEF Batches

LEMMA TurnsSame ==
  ASSUME NEW s, turn' = turn \/ (~Runs(s) /\ ~Runs(s)')
  PROVE /\ Runs(s)' <=> Runs(s)
        /\ \A d : Does(s, d)' <=> Does(s, d)
BY DEF Runs, Does

LEMMA HandlerSame ==
  ASSUME TypeOK, TypeOK', NEW s \in Session, handler[s].firstTime /\ BeginSent(s) => BeginSent(s)',
         Own(s), HandlerOK(s)
  PROVE HandlerOK(s)'
<1>1. Runs(s)' <=> Runs(s) BY TurnsSame DEF Own
<1>2. \A d : Does(s, d)' <=> Does(s, d) BY TurnsSame DEF Own
<1>3. handler[s] \in Handlers /\ handler'[s] = handler[s] BY DEF TypeOK, Own
<1>4. (~handler[s].exists => autocommit[s] /\ nTx[s] = 0 /\ \A b \in Batch : batch[b].session # s)'
  BY <1>3 DEF HandlerOK, Own
<1>5. (handler[s].numberOfOperations = 0 => handler[s].executed = 0)'
  BY <1>3 DEF HandlerOK
<1>6. handler[s].firstTime => FirstOK(s)'
  <2> SUFFICES ASSUME handler[s].firstTime PROVE FirstOK(s)'
    OBVIOUS
  <2>1. FirstOK(s) BY DEF HandlerOK
  <2>2. BeginSent(s) => BeginSent(s)' OBVIOUS
  <2>3. \A t \in begun' : t[1] # s BY <2>1 DEF FirstOK, TypeOK, Own, Transactions
  <2>4. \A b \in Batch : batch'[b].session = s =>
          handler[s].operationsList = b /\ BeginSent(s)' /\ Fresh(b)' /\ batch'[b].tx = tx[s]
    BY <2>1, <2>2 DEF FirstOK, Own, Fresh
  <2> QED BY <1>1, <1>3, <2>1, <2>3, <2>4 DEF FirstOK, Own
<1>7. (handler[s].numberOfOperations > 0 \/ Runs(s)) => RunOK(s)'
  <2> SUFFICES ASSUME handler[s].numberOfOperations > 0 \/ Runs(s) PROVE RunOK(s)'
    OBVIOUS
  <2>1. RunOK(s) BY DEF HandlerOK
  <2>2. PICK b \in Batch : b = handler[s].operationsList
    BY <1>3, <2>1 DEF RunOK, Handlers
  <2>3. batch'[b] = batch[b] BY <2>1, <2>2 DEF RunOK, Own
  <2>4. PlaceOK(s, b) => PlaceOK(s, b)' BY <1>2, <1>3, <2>3 DEF PlaceOK
  <2> QED BY <1>2, <1>3, <2>1, <2>2, <2>3, <2>4 DEF RunOK, Own
<1>8. \A j \in 1..Len(handler[s].pendingBatches) : batch'[handler[s].pendingBatches[j]].session = s
  <2> SUFFICES ASSUME NEW j \in 1..Len(handler[s].pendingBatches)
               PROVE batch'[handler[s].pendingBatches[j]].session = s
    OBVIOUS
  <2>1. PICK b \in Batch : b = handler[s].pendingBatches[j] BY <1>3 DEF Handlers
  <2> QED BY <2>1 DEF HandlerOK, Own
<1> QED BY <1>1, <1>3, <1>4, <1>5, <1>6, <1>7, <1>8 DEF HandlerOK

LEMMA TxSame ==
  ASSUME TypeOK, TypeOK', NEW s \in Session, tx[s] # 0 => conn[s] # None,
         ending[s] # None /\ EndSent(s) => EndSent(s)', Own(s), HandlerOK(s), TxOK(s)
  PROVE TxOK(s)'
<1>1. tx[s] # 0 => /\ status'[s] = "open" /\ handler'[s].exists
                   /\ <<s, tx[s]>> \notin ended'.committed \cup ended'.rolledBack
                   /\ <<s, tx[s]>> \in begun' =>
                        trx'[conn[s]] # None \/ <<s, tx[s]>> \in ended'.byServer
  <2>1. <<s, tx[s]>> \in Transactions BY DEF Transactions, TypeOK
  <2>2. <<s, tx[s]>> \in begun' <=> <<s, tx[s]>> \in begun BY <2>1 DEF Own
  <2>3. <<s, tx[s]>> \notin ended.committed \cup ended.rolledBack =>
          <<s, tx[s]>> \notin ended'.committed \cup ended'.rolledBack
    BY <2>1 DEF Own
  <2>4. <<s, tx[s]>> \in ended'.byServer <=> <<s, tx[s]>> \in ended.byServer BY <2>1 DEF Own
  <2> QED BY <2>2, <2>3, <2>4 DEF TxOK, Own
<1>2. ending[s] # None => EndSent(s)' BY DEF TxOK
<1>3. \A t \in begun' \cup ended'.committed \cup ended'.rolledBack : t[1] = s => t[2] \in 1..nTx[s]
  BY DEF TxOK, TypeOK, Ends, Own
<1>4. conn[s] # None /\ trx[conn[s]] # None => TrxOK(s)'
  <2> SUFFICES ASSUME conn[s] # None, trx[conn[s]] # None PROVE TrxOK(s)'
    OBVIOUS
  <2>1. TrxOK(s) /\ trx'[conn'[s]] = trx[conn[s]] BY DEF TxOK, Own
  <2>2. trx[conn[s]].work \subseteq Batch \X Nat BY DEF TypeOK, ServerTransactions
  <2>3. <<s, tx[s]>> \in begun' BY <2>1 DEF TrxOK, Own, Transactions, TypeOK
  <2>4. ASSUME NEW p \in trx[conn[s]].work
        PROVE /\ batch'[p[1]].session = s
              /\ \E j \in 1..Len(batch'[p[1]].sent) : batch'[p[1]].sent[j] = [op |-> p[2], tx |-> tx[s]]
    <3>1. p[1] \in Batch BY <2>2, <2>4
    <3>2. batch'[p[1]] = batch[p[1]] BY <2>1, <2>4, <3>1 DEF TrxOK, Own
    <3> QED BY <2>1, <2>4, <3>2 DEF TrxOK
  <2> QED BY ZenonT(60), <2>1, <2>3, <2>4 DEF TrxOK, Own
<1>5. FirstTx(s)'
  <2>1. <<s, tx[s]>> \in Transactions BY DEF Transactions, TypeOK
  <2> QED BY <2>1 DEF TxOK, FirstTx, Own
<1> QED BY <1>1, <1>2, <1>3, <1>4, <1>5 DEF TxOK, Own

LEMMA QuerySame ==
  ASSUME TypeOK, NEW s \in Session, Own(s), NEW q \in Queries, QueryOK(s, q)
  PROVE QueryOK(s, q)'
<1>1. Runs(s)' <=> Runs(s) BY TurnsSame DEF Own
<1>2. q.what = "begin" => batch'[handler[s].operationsList].session = s
  <2> SUFFICES ASSUME q.what = "begin" PROVE batch'[handler[s].operationsList].session = s
    OBVIOUS
  <2>1. handler[s].operationsList \in Batch BY DEF QueryOK, TypeOK, Handlers
  <2> QED BY <2>1 DEF QueryOK, Own
<1>3. q.what = "op" => InFlightOK(s, q.for, q.op)'
  <2> SUFFICES ASSUME q.what = "op" PROVE InFlightOK(s, q.for, q.op)'
    OBVIOUS
  <2>1. PICK b \in Batch : b = q.for BY DEF Queries
  <2>2. batch'[b] = batch[b] BY <2>1 DEF QueryOK, InFlightOK, Own
  <2> QED BY <1>1, <2>1, <2>2 DEF QueryOK, InFlightOK, Own, LastSent
<1> QED BY <1>2, <1>3 DEF QueryOK, Own, IsEnd

LEMMA WireSame ==
  ASSUME TypeOK, NEW s \in Session, conn[s] # None, Same(s), WireOK(s)
  PROVE WireOK(s)'
<1>1. wire'[conn'[s]] = wire[conn[s]] /\ trx'[conn'[s]] = trx[conn[s]] /\ conn'[s] = conn[s]
  BY DEF Same, Own
<1>2. wire[conn[s]] \in Seq(Queries) BY DEF TypeOK
<1>3. ASSUME NEW j \in 1..Len(wire[conn[s]])
      PROVE QueryOK(s, wire[conn[s]][j])' /\ OrderOK(s, j)'
  <2>1. PICK q \in Queries : q = wire[conn[s]][j] BY <1>2
  <2>2. QueryOK(s, q)' BY <2>1, QuerySame DEF WireOK, Same
  <2>3. QueryOK(s, wire[conn[s]][j])' BY <1>1, <2>1, <2>2 DEF QueryOK, InFlightOK, LastSent
  <2>4. q.what = "op" => q.for \in Batch /\ batch'[q.for] = batch[q.for]
    BY <2>1 DEF Queries, WireOK, QueryOK, InFlightOK, Same, Own
  <2>5. EndBefore(s, j)' <=> EndBefore(s, j) BY <1>1 DEF EndBefore
  <2>6. OrderOK(s, j)' BY <1>1, <2>1, <2>4, <2>5 DEF WireOK, OrderOK, LastSent
  <2> QED BY <2>3, <2>6
<1> QED BY <1>1, <1>3 DEF WireOK

LEMMA CurrentSame ==
  ASSUME NEW s \in Session, NEW b, handler'[s] = handler[s],
         turn' = turn \/ (~Runs(s) /\ ~Runs(s)')
  PROVE (Current(s, b)' <=> Current(s, b)) /\ (Waits(s, b)' <=> Waits(s, b))
BY TurnsSame DEF Current, Waits

LEMMA BatchSame ==
  ASSUME NEW s \in Session, NEW b \in Batch, BatchOK(s, b), batch'[b] = batch[b],
         handler'[s] = handler[s], turn' = turn \/ (~Runs(s) /\ ~Runs(s)')
  PROVE BatchOK(s, b)'
<1>1. batch'[b] = batch[b] OBVIOUS
<1>2. Erred(s)' <=> Erred(s) BY TurnsSame DEF Erred, Does, Runs
<1>4. (Current(s, b)' <=> Current(s, b)) /\ (Waits(s, b)' <=> Waits(s, b)) BY CurrentSame
<1>5. Fresh(b)' <=> Fresh(b) BY <1>1 DEF Fresh
<1>6. DoneOK(s, b)' BY <1>1, <1>4 DEF BatchOK, DoneOK
<1>7. ErrorOK(s, b)' BY <1>1, <1>2, <1>4 DEF BatchOK, ErrorOK
<1> QED BY <1>1, <1>4, <1>5, <1>6, <1>7 DEF BatchOK

LEMMA WorkSame ==
  ASSUME TypeOK, NEW s \in Session, NEW b \in Batch, batch[b].session = s, Own(s),
         tx[s] # 0 => conn[s] # None, TxOK(s), WorkOK(s, b),
         \A i : conn[s] # None /\ InFlight(s, b, i) => InFlight(s, b, i)'
  PROVE WorkOK(s, b)'
<1>1. batch'[b] = batch[b] /\ work'[b] = work[b] BY DEF Own
<1>2. ASSUME NEW j \in 1..Len(batch[b].sent) PROVE SentOK(s, b, batch[b].sent[j])'
  <2>1. PICK e \in Sends : e = batch[b].sent[j] BY BatchIs
  <2>2. SentOK(s, b, e) BY <2>1 DEF WorkOK
  <2>3. <<s, e.tx>> \in Transactions BY DEF Transactions, Sends
  <2>4. /\ <<s, e.tx>> \in begun' <=> <<s, e.tx>> \in begun
        /\ <<s, e.tx>> \in ended'.committed <=> <<s, e.tx>> \in ended.committed
        /\ <<s, e.tx>> \in ended'.rolledBack <=> <<s, e.tx>> \in ended.rolledBack
        /\ <<s, e.tx>> \in ended'.byServer <=> <<s, e.tx>> \in ended.byServer
    BY <2>3 DEF Own
  <2>5. <<s, e.tx>> \in begun /\ e.tx = tx[s] => conn[s] # None
    BY DEF TxOK
  <2>6. conn[s] # None => /\ trx'[conn'[s]] = trx[conn[s]]
                          /\ InFlight(s, b, e.op) => InFlight(s, b, e.op)'
    BY DEF Own
  <2>7. SentOK(s, b, e)' BY <1>1, <2>2, <2>4, <2>5, <2>6 DEF SentOK, Own
  <2> QED BY <1>1, <2>1, <2>7 DEF SentOK, InFlight
<1> QED BY <1>1, <1>2 DEF WorkOK

\* What is noticed stays so, while answers are only added.
LEMMA StaysRollbackOnly ==
  ASSUME TypeOK, NEW s \in Session, tx'[s] = tx[s],
         \A b \in Batch : batch[b].session = s /\ batch[b].tx = tx[s] =>
           /\ batch'[b].session = s /\ batch'[b].tx = tx[s]
           /\ \A j \in 1..Len(batch[b].answers) :
                j \in 1..Len(batch'[b].answers) /\ batch'[b].answers[j] = batch[b].answers[j],
         RollbackOnly(s)
  PROVE RollbackOnly(s)'
<1>1. PICK b \in Batch : batch[b].session = s /\ batch[b].tx = tx[s] /\
        \E j \in 1..Len(batch[b].answers) : batch[b].answers[j][2] = "error"
  BY DEF RollbackOnly, InTx
<1>2. b \in {a \in Batch : batch'[a].session = s /\ batch'[a].tx = tx'[s]} BY <1>1
<1>3. \E j \in 1..Len(batch'[b].answers) : batch'[b].answers[j][2] = "error" BY <1>1
<1> QED BY <1>2, <1>3 DEF RollbackOnly, InTx

LEMMA LossKeeps ==
  ASSUME NEW s \in Session, LossOK(s), ending'[s] = None => ending[s] = None,
         \A b \in Batch : batch'[b].session = s =>
           \A j \in 1..Len(batch'[b].sent) : Loss(s, b, batch[b].sent[j])' =>
             batch[b].session = s /\ \E i \in 1..Len(batch[b].sent) : Loss(s, b, batch[b].sent[i]),
         \A b \in Batch : batch[b].session = s => WorkOK(s, b),
         RollbackOnly(s) => Noticed(s)',
         tx[s] # 0 /\ <<s, tx[s]>> \in begun => \A b \in Batch, i \in Nat :
           i \in 1..Len(batch[b].ops) /\ InFlight(s, b, i) /\ work[b][i] # "none" => Noticed(s)'
  PROVE LossOK(s)'
<1>1. ASSUME NEW b \in Batch, batch[b].session = s, NEW i \in 1..Len(batch[b].sent),
             Loss(s, b, batch[b].sent[i])
      PROVE tx[s] # 0 /\ <<s, tx[s]>> \in begun
  <2>1. SentOK(s, b, batch[b].sent[i]) BY <1>1 DEF WorkOK
  <2> QED BY <1>1, <2>1 DEF SentOK, Loss
<1>2. tx[s] # 0 /\ <<s, tx[s]>> \in begun => (Noticed(s) => Noticed(s)') BY DEF Noticed
<1> QED BY <1>1, <1>2 DEF LossOK

\* Outside of a transaction there is none.
LEMMA NoLoss ==
  ASSUME NEW s \in Session, tx'[s] = 0, \A b \in Batch : batch'[b].session = s => WorkOK(s, b)'
  PROVE LossOK(s)'
<1>1. ASSUME NEW b \in Batch, batch'[b].session = s, NEW j \in 1..Len(batch'[b].sent)
      PROVE ~Loss(s, b, batch[b].sent[j])'
  <2>1. SentOK(s, b, batch[b].sent[j])' BY <1>1 DEF WorkOK
  <2> QED BY <2>1 DEF SentOK, Loss
<1> QED BY <1>1 DEF LossOK

LEMMA LossSame ==
  ASSUME TypeOK, NEW s \in Session, Own(s), conn[s] # None, WireOK(s), LossOK(s),
         \A b \in Batch : batch[b].session = s => WorkOK(s, b),
         \A b, i : InFlight(s, b, i) => InFlight(s, b, i)'
  PROVE LossOK(s)'
<1>1. \A b \in Batch : batch'[b].session = s =>
        \A j \in 1..Len(batch'[b].sent) : Loss(s, b, batch[b].sent[j])' =>
          batch[b].session = s /\ \E i \in 1..Len(batch[b].sent) : Loss(s, b, batch[b].sent[i])
  BY DEF Own, Loss
<1>2. RollbackOnly(s) => RollbackOnly(s)' BY StaysRollbackOnly DEF Own
<1>3. ASSUME NEW b \in Batch, NEW i \in Nat, i \in 1..Len(batch[b].ops), InFlight(s, b, i),
             work[b][i] # "none"
      PROVE Noticed(s)'
  <2>1. PICK j \in 1..Len(wire[conn[s]]) : wire[conn[s]][j] = Query("op", b, i) BY <1>3 DEF InFlight
  <2>2. InFlightOK(s, b, i) BY <2>1 DEF WireOK, QueryOK, Query
  <2>3. batch'[b] = batch[b] /\ work'[b] = work[b] BY <2>2 DEF InFlightOK, Own
  <2>4. InFlight(s, b, i)' BY <1>3
  <2> QED BY <1>3, <2>3, <2>4 DEF Noticed
<1> QED BY <1>1, <1>2, <1>3, LossKeeps DEF Noticed, Own

LEMMA OwnKeeps ==
  ASSUME TypeOK, TypeOK', ConnsOK, NEW s \in Session, Own(s), SessionOK(s),
         conn[s] # None =>
           /\ WireOK(s)'
           /\ BeginSent(s) => BeginSent(s)'
           /\ EndSent(s) => EndSent(s)'
           /\ \A b, i : InFlight(s, b, i) => InFlight(s, b, i)'
  PROVE SessionOK(s)'
<1>1. tx[s] # 0 => conn[s] # None BY DEF ConnsOK, SessionOK, TxOK
<1>2. handler[s].firstTime => conn[s] # None BY <1>1 DEF SessionOK, HandlerOK, FirstOK
<1>3. ending[s] # None => conn[s] # None BY <1>1 DEF SessionOK, TxOK
<1>4. HandlerOK(s)' BY <1>2, HandlerSame DEF SessionOK
<1>5. TxOK(s)' BY <1>1, <1>3, TxSame DEF SessionOK
<1>6. \A b \in Batch : batch'[b].session = s => BatchOK(s, b)' /\ WorkOK(s, b)'
  BY <1>1, BatchSame, WorkSame DEF SessionOK, Own
<1>7. conn'[s] # None => WireOK(s)' BY DEF Own
<1>8. LossOK(s)'
  <2>1. CASE conn[s] # None BY <2>1, LossSame DEF SessionOK
  <2>2. CASE conn[s] = None
    <3>1. tx'[s] = 0 BY <1>1, <2>2 DEF Own
    <3>2. \A b \in Batch : batch'[b].session = s => WorkOK(s, b)' BY <1>6
    <3> QED BY <3>1, <3>2, NoLoss
  <2> QED BY <2>1, <2>2
<1> QED BY <1>4, <1>5, <1>6, <1>7, <1>8 DEF SessionOK

LEMMA SessionSame ==
  ASSUME TypeOK, TypeOK', ConnsOK, NEW s \in Session, Same(s), SessionOK(s)
  PROVE SessionOK(s)'
<1>1. conn[s] # None => WireOK(s)' BY WireSame DEF SessionOK
<1>2. conn[s] # None =>
        /\ BeginSent(s) => BeginSent(s)'
        /\ EndSent(s) => EndSent(s)'
        /\ \A b, i : InFlight(s, b, i) => InFlight(s, b, i)'
  BY DEF Same, Own, BeginSent, EndSent, InFlight
<1> QED BY <1>1, <1>2, OwnKeeps DEF Same

LEMMA OthersKeep ==
  ASSUME IInv, TypeOK', ConnsOK', UnheldOK', UnusedOK', NEW s \in Session,
         \A r \in Session \ {s} : Same(r), SessionOK(s)'
  PROVE IInv'
BY SessionSame DEF IInv

LEMMA AllKeep ==
  ASSUME IInv, TypeOK', ConnsOK', UnheldOK', UnusedOK', \A r \in Session : Same(r)
  PROVE IInv'
BY SessionSame DEF IInv

-----------------------------------------------------------------------------
(* A connection is given a query, or its first one is answered.            *)

LEMMA QueryIs ==
  /\ \A s \in Session, i \in Nat, what \in {"setup", "begin", "commit", "rollback"} :
       Query(what, s, i) \in Queries
  /\ \A b \in Batch, i \in Nat : Query("op", b, i) \in Queries
  /\ \A k \in Lookup : Query("metadata", k, 0) \in Queries
<1>1. \A s \in Session, i \in Nat, what \in {"setup", "begin", "commit", "rollback"} :
        Query(what, s, i) \in Queries
  BY DEF Query, Queries
<1>2. \A b \in Batch, i \in Nat : Query("op", b, i) \in Queries BY DEF Query, Queries
<1>3. \A k \in Lookup : Query("metadata", k, 0) \in Queries BY DEF Query, Queries
<1> QED BY <1>1, <1>2, <1>3

LEMMA Appends ==
  ASSUME TypeOK, NEW c \in Conn, NEW q \in Queries, Send(c, q)
  PROVE /\ wire' \in [Conn -> Seq(Queries)]
        /\ \A d \in Conn \ {c} : wire'[d] = wire[d]
        /\ Len(wire[c]) \in Nat /\ Len(wire'[c]) = Len(wire[c]) + 1
        /\ \A j \in 1..Len(wire[c]) : wire'[c][j] = wire[c][j] /\ wire[c][j] \in Queries
        /\ wire'[c][Len(wire[c]) + 1] = q
<1>1. wire \in [Conn -> Seq(Queries)] BY DEF TypeOK
<1>2. PICK w \in Seq(Queries) : w = wire[c] BY <1>1
<1>3. wire'[c] = Append(w, q) BY <1>1, <1>2 DEF Send
<1>4. wire' \in [Conn -> Seq(Queries)] BY <1>1 DEF Send
<1> QED BY <1>1, <1>2, <1>3, <1>4 DEF Send

LEMMA Tails ==
  ASSUME TypeOK, NEW c \in Conn, NEW what, Answered(c, what)
  PROVE /\ wire' \in [Conn -> Seq(Queries)]
        /\ \A d \in Conn \ {c} : wire'[d] = wire[d]
        /\ Len(wire[c]) \in Nat \ {0} /\ Len(wire'[c]) = Len(wire[c]) - 1
        /\ \A j \in 1..Len(wire[c]) : wire[c][j] \in Queries
        /\ \A j \in 1..Len(wire'[c]) : wire'[c][j] = wire[c][j + 1]
        /\ Head(wire[c]) = wire[c][1] /\ wire[c][1] \in Queries /\ wire[c][1].what = what
        /\ turn = None
<1>1. wire \in [Conn -> Seq(Queries)] BY DEF TypeOK
<1>2. PICK w \in Seq(Queries) : w = wire[c] BY <1>1
<1>3. w # <<>> /\ wire'[c] = Tail(w) /\ wire' = [wire EXCEPT ![c] = Tail(w)]
  BY <1>1, <1>2 DEF Answered
<1>4. wire' \in [Conn -> Seq(Queries)] BY <1>1, <1>3
<1> QED BY <1>1, <1>2, <1>3, <1>4 DEF Answered, Quiet

LEMMA WireAppends ==
  ASSUME TypeOK, NEW s \in Session, NEW c \in Conn, conn[s] = c, conn'[s] = c,
         NEW q \in Queries, Send(c, q), trx'[c] = trx[c], WireOK(s),
         \A p \in Queries, j \in 1..Len(wire[c]) : p = wire[c][j] =>
            /\ QueryOK(s, p)'
            /\ p.what = "op" => batch'[p.for].sent = batch[p.for].sent
            /\ p.what # q.what \/ q.what = "metadata",
         QueryOK(s, q)', \A n \in Nat : n = Len(wire[c]) + 1 => OrderOK(s, n)'
  PROVE /\ WireOK(s)'
        /\ BeginSent(s) => BeginSent(s)'
        /\ EndSent(s) => EndSent(s)'
        /\ \A b, i : InFlight(s, b, i) => InFlight(s, b, i)'
<1>1. /\ Len(wire[c]) \in Nat /\ Len(wire'[c]) = Len(wire[c]) + 1
      /\ \A j \in 1..Len(wire[c]) : wire'[c][j] = wire[c][j] /\ wire[c][j] \in Queries
      /\ wire'[c][Len(wire[c]) + 1] = q
  BY Appends
<1>2. \A j \in 1..Len(wire'[c]) : j \in 1..Len(wire[c]) \/ j = Len(wire[c]) + 1 BY <1>1
<1>3. ASSUME NEW j \in 1..Len(wire'[c]) PROVE QueryOK(s, wire[conn[s]][j])'
  <2>1. PICK p \in Queries : p = wire'[c][j] BY <1>1, <1>2
  <2>2. QueryOK(s, p)' BY <1>1, <1>2, <2>1
  <2> QED BY <2>1, <2>2 DEF QueryOK, InFlightOK, LastSent
<1>4. ASSUME NEW j \in 1..Len(wire'[c]) PROVE OrderOK(s, j)'
  <2>1. CASE j = Len(wire[c]) + 1 BY <1>1, <2>1
  <2>2. CASE j \in 1..Len(wire[c])
    <3>1. OrderOK(s, j) /\ wire'[c][j] = wire[c][j] BY <1>1, <2>2 DEF WireOK
    <3>2. EndBefore(s, j)' <=> EndBefore(s, j) BY SMTT(30), <1>1, <2>2 DEF EndBefore
    <3>3. wire[c][j].what = "op" => batch'[wire[c][j].for].sent = batch[wire[c][j].for].sent
      BY <1>1, <2>2
    <3> QED BY <3>1, <3>2, <3>3 DEF OrderOK, LastSent
  <2> QED BY <1>2, <2>1, <2>2
<1>5. ASSUME NEW i \in 1..Len(wire'[c]), NEW j \in 1..Len(wire'[c]),
             wire'[c][i].what = wire'[c][j].what, wire'[c][i].what # "metadata"
      PROVE i = j
  <2>1. \A k \in 1..Len(wire[c]) : wire[c][k].what # q.what \/ q.what = "metadata" BY <1>1
  <2>2. CASE i = Len(wire[c]) + 1 /\ j \in 1..Len(wire[c])
    <3>1. wire'[c][i] = q /\ wire'[c][j] = wire[c][j] BY <1>1, <2>2
    <3> QED BY <1>5, <2>1, <2>2, <3>1
  <2>3. CASE j = Len(wire[c]) + 1 /\ i \in 1..Len(wire[c])
    <3>1. wire'[c][j] = q /\ wire'[c][i] = wire[c][i] BY <1>1, <2>3
    <3> QED BY <1>5, <2>1, <2>3, <3>1
  <2>4. CASE i \in 1..Len(wire[c]) /\ j \in 1..Len(wire[c])
    <3>1. wire'[c][i] = wire[c][i] /\ wire'[c][j] = wire[c][j] BY <1>1, <2>4
    <3>2. wire[c][i].what = wire[c][j].what /\ wire[c][i].what # "metadata" BY <1>5, <3>1
    <3> QED BY <2>4, <3>2 DEF WireOK
  <2> QED BY <1>2, <2>2, <2>3, <2>4
<1>6. WireOK(s)' BY <1>3, <1>4, <1>5 DEF WireOK
<1>7. BeginSent(s) => BeginSent(s)' BY <1>1 DEF BeginSent
<1>8. EndSent(s) => EndSent(s)' BY <1>1 DEF EndSent
<1>9. \A b, i : InFlight(s, b, i) => InFlight(s, b, i)' BY <1>1 DEF InFlight
<1> QED BY <1>6, <1>7, <1>8, <1>9

LEMMA WireTails ==
  ASSUME TypeOK, NEW s \in Session, NEW c \in Conn, conn[s] = c, conn'[s] = c,
         NEW what, Answered(c, what), WireOK(s),
         \A p \in Queries, j \in 2..Len(wire[c]) : p = wire[c][j] =>
            /\ QueryOK(s, p)'
            /\ p.what = "op" =>
                 /\ batch'[p.for].sent = batch[p.for].sent
                 /\ trx'[c] = None \/ (trx'[c] = trx[c] /\ ~IsEnd(wire[c][1]))
  PROVE /\ WireOK(s)'
        /\ BeginSent(s) => BeginSent(s)' \/ what = "begin"
        /\ EndSent(s) => EndSent(s)' \/ what \in {"commit", "rollback"}
        /\ \A b, i : InFlight(s, b, i) => InFlight(s, b, i)' \/ wire[c][1] = Query("op", b, i)
<1>1. /\ Len(wire[c]) \in Nat \ {0} /\ Len(wire'[c]) = Len(wire[c]) - 1
      /\ \A j \in 1..Len(wire'[c]) : wire'[c][j] = wire[c][j + 1]
      /\ wire[c][1].what = what /\ \A j \in 1..Len(wire[c]) : wire[c][j] \in Queries
  BY Tails
<1>2. \A j \in 1..Len(wire'[c]) : j + 1 \in 2..Len(wire[c]) /\ j + 1 \in 1..Len(wire[c]) BY <1>1
<1>3. \A j \in 2..Len(wire[c]) : wire'[c][j - 1] = wire[c][j] /\ j - 1 \in 1..Len(wire'[c]) BY <1>1
<1>4. ASSUME NEW j \in 1..Len(wire'[c]) PROVE QueryOK(s, wire[conn[s]][j])'
  <2>1. PICK p \in Queries : p = wire'[c][j] BY <1>1, <1>2
  <2>2. QueryOK(s, p)' BY <1>1, <1>2, <2>1
  <2> QED BY <2>1, <2>2 DEF QueryOK, InFlightOK, LastSent
<1>5. ASSUME NEW j \in 1..Len(wire'[c]) PROVE OrderOK(s, j)'
  <2>1. OrderOK(s, j + 1) /\ wire'[c][j] = wire[c][j + 1] BY <1>1, <1>2 DEF WireOK
  <2>2. EndBefore(s, j)' => EndBefore(s, j + 1)
    <3> SUFFICES ASSUME NEW k \in 1..(j - 1), IsEnd(wire'[c][k])
                 PROVE \E n \in 1..j : IsEnd(wire[c][n])
      BY DEF EndBefore
    <3>1. k + 1 \in 1..j /\ wire'[c][k] = wire[c][k + 1] BY <1>1
    <3> QED BY <3>1
  <2>3. EndBefore(s, j + 1) => EndBefore(s, j)' \/ IsEnd(wire[c][1])
    <3> SUFFICES ASSUME NEW k \in 1..j, IsEnd(wire[c][k]), k # 1
                 PROVE \E n \in 1..(j - 1) : IsEnd(wire'[c][n])
      BY DEF EndBefore
    <3>1. k - 1 \in 1..(j - 1) /\ wire'[c][k - 1] = wire[c][k] BY <1>1
    <3> QED BY <3>1
  <2>4. wire[c][j + 1].what = "op" =>
          /\ batch'[wire[c][j + 1].for].sent = batch[wire[c][j + 1].for].sent
          /\ trx'[c] = None \/ (trx'[c] = trx[c] /\ ~IsEnd(wire[c][1]))
    BY <1>1, <1>2
  <2> QED BY <2>1, <2>2, <2>3, <2>4 DEF OrderOK, LastSent
<1>6. ASSUME NEW i \in 1..Len(wire'[c]), NEW j \in 1..Len(wire'[c]),
             wire'[c][i].what = wire'[c][j].what, wire'[c][i].what # "metadata"
      PROVE i = j
  <2>1. \A x, y \in 1..Len(wire[c]) :
          wire[c][x].what = wire[c][y].what /\ wire[c][x].what # "metadata" => x = y
    BY DEF WireOK
  <2>2. i + 1 \in 1..Len(wire[c]) /\ wire'[c][i] = wire[c][i + 1] BY <1>1, <1>2
  <2>3. j + 1 \in 1..Len(wire[c]) /\ wire'[c][j] = wire[c][j + 1] BY <1>1, <1>2
  <2>4. i + 1 = j + 1 BY <1>6, <2>1, <2>2, <2>3
  <2> QED BY <1>1, <2>4
<1>7. WireOK(s)' BY <1>4, <1>5, <1>6 DEF WireOK
<1>8. BeginSent(s) => BeginSent(s)' \/ what = "begin"
  <2> SUFFICES ASSUME NEW j \in 1..Len(wire[c]), wire[c][j].what = "begin", what # "begin"
               PROVE \E n \in 1..Len(wire'[c]) : wire'[c][n].what = "begin"
    BY DEF BeginSent
  <2>1. j \in 2..Len(wire[c]) BY <1>1
  <2> QED BY <1>3, <2>1
<1>9. EndSent(s) => EndSent(s)' \/ what \in {"commit", "rollback"}
  <2> SUFFICES ASSUME NEW j \in 1..Len(wire[c]), IsEnd(wire[c][j]), what \notin {"commit", "rollback"}
               PROVE \E n \in 1..Len(wire'[c]) : IsEnd(wire'[c][n])
    BY DEF EndSent
  <2>1. j \in 2..Len(wire[c]) BY <1>1 DEF IsEnd
  <2> QED BY <1>3, <2>1
<1>10. \A b, i : InFlight(s, b, i) => InFlight(s, b, i)' \/ wire[c][1] = Query("op", b, i)
  <2> SUFFICES ASSUME NEW b, NEW i, NEW j \in 1..Len(wire[c]), wire[c][j] = Query("op", b, i),
                      wire[c][1] # Query("op", b, i)
               PROVE \E n \in 1..Len(wire'[c]) : wire'[c][n] = Query("op", b, i)
    BY DEF InFlight
  <2>1. j \in 2..Len(wire[c]) BY <1>1
  <2> QED BY <1>3, <2>1
<1> QED BY <1>7, <1>8, <1>9, <1>10

-----------------------------------------------------------------------------
(* Dictionary calls, and the connections of sessions.                      *)

LEMMA OwnUnchanged ==
  ASSUME UNCHANGED <<serverVars, status, conn, autocommit, handler, turn, batch, apiVars>>,
         NEW s \in Session
  PROVE Own(s)
BY DEF Own, serverVars, apiVars

LEMMA MetadataSent ==
  ASSUME IInv, TypeOK', NEW c \in Conn, NEW k \in Lookup, Send(c, Query("metadata", k, 0)),
         UNCHANGED <<serverVars, status, conn, autocommit, handler, turn, batch, apiVars>>
  PROVE UnheldOK' /\ UnusedOK' /\ \A s \in Session : SessionOK(s)'
<1>1. PICK q \in Queries : q = Query("metadata", k, 0) BY QueryIs
<1>2. q.what = "metadata" BY <1>1 DEF Query
<1>3. TypeOK /\ ConnsOK /\ UnheldOK /\ UnusedOK /\ conn' = conn /\ trx' = trx /\ batch' = batch
      /\ Send(c, q)
  BY <1>1 DEF IInv, serverVars
<1>4. /\ \A d \in Conn \ {c} : wire'[d] = wire[d]
      /\ Len(wire[c]) \in Nat /\ Len(wire'[c]) = Len(wire[c]) + 1
      /\ \A j \in 1..Len(wire[c]) : wire'[c][j] = wire[c][j] /\ wire[c][j] \in Queries
      /\ wire'[c][Len(wire[c]) + 1] = q
  BY <1>3, Appends
<1>5. UnheldOK'
  <2> SUFFICES ASSUME NEW d \in Conn, Unheld(d)
               PROVE trx[d] = None /\ \A j \in 1..Len(wire'[d]) : wire'[d][j].what = "metadata"
    BY <1>3 DEF UnheldOK, Unheld
  <2>1. trx[d] = None /\ \A j \in 1..Len(wire[d]) : wire[d][j].what = "metadata"
    BY <1>3 DEF UnheldOK
  <2>2. CASE d # c BY <1>4, <2>1, <2>2
  <2>3. CASE d = c BY <1>2, <1>4, <2>1, <2>3
  <2> QED BY <2>2, <2>3
<1>6. ASSUME NEW s \in Session PROVE SessionOK(s)'
  <2>1. Own(s) /\ SessionOK(s) /\ conn'[s] = conn[s] BY <1>3, OwnUnchanged DEF IInv
  <2>2. CASE conn[s] # c
    <3>1. Same(s) BY <1>3, <1>4, <2>1, <2>2 DEF Same, TypeOK
    <3> QED BY <1>3, <2>1, <3>1, SessionSame
  <2>3. CASE conn[s] = c
    <3>1. WireOK(s) BY <2>1, <2>3, NoneIs DEF SessionOK
    <3>2. \A p \in Queries, j \in 1..Len(wire[c]) : p = wire[c][j] =>
            /\ QueryOK(s, p)'
            /\ p.what = "op" => batch'[p.for].sent = batch[p.for].sent
            /\ p.what # q.what \/ q.what = "metadata"
      BY <1>2, <1>3, <2>1, <2>3, <3>1, QuerySame DEF WireOK
    <3>3. QueryOK(s, q)' BY <1>2 DEF QueryOK, IsEnd
    <3>4. \A n \in Nat : n = Len(wire[c]) + 1 => OrderOK(s, n)' BY <1>2, <1>3, <1>4, <2>3 DEF OrderOK
    <3>5. /\ WireOK(s)'
          /\ BeginSent(s) => BeginSent(s)'
          /\ EndSent(s) => EndSent(s)'
          /\ \A b, i : InFlight(s, b, i) => InFlight(s, b, i)'
      BY <1>3, <2>1, <2>3, <3>1, <3>2, <3>3, <3>4, WireAppends
    <3> QED BY <1>3, <2>1, <3>5, OwnKeeps
  <2> QED BY <2>2, <2>3
<1> QED BY <1>3, <1>5, <1>6 DEF UnusedOK, Fresh

LEMMA AskKeeps ==
  ASSUME IInv, NEW k \in Lookup, NEW s \in Session \cup {None}, Ask(k, s)
  PROVE IInv'
<1>1. TypeOK /\ ConnsOK /\ UnheldOK /\ UnusedOK BY DEF IInv
<1>2. UNCHANGED <<free, serverVars, status, conn, autocommit, handler, turn, batch, apiVars>>
  BY DEF Ask
<1>3. \/ s \in Session /\ conn[s] \in Conn /\ Send(conn[s], Query("metadata", k, 0))
         /\ lookup' = [lookup EXCEPT ![k] = [state |-> "asked", conn |-> None]]
      \/ wire' = wire /\ lookup' = [lookup EXCEPT ![k].state = "waiting"]
  BY <1>1 DEF Ask, ConnsOK, TypeOK
<1>4. lookup' \in [Lookup -> [state : {"new", "waiting", "asked", "done"}, conn : Conn \cup {None}]]
      /\ \A l \in Lookup : lookup'[l].conn = lookup[l].conn \/ lookup'[l].conn = None
  <2>1. CASE lookup' = [lookup EXCEPT ![k] = [state |-> "asked", conn |-> None]]
    BY <1>1, <2>1 DEF TypeOK
  <2>2. CASE lookup' = [lookup EXCEPT ![k].state = "waiting"] BY ZenonT(60), <1>1, <2>2 DEF TypeOK
  <2> QED BY <1>3, <2>1, <2>2
<1>5. wire' \in [Conn -> Seq(Queries)]
  <2>1. Query("metadata", k, 0) \in Queries BY QueryIs
  <2> QED BY <1>1, <1>3, <2>1, Appends DEF TypeOK
<1>6. TypeOK' BY <1>1, <1>2, <1>4, <1>5 DEF TypeOK, serverVars, apiVars
<1>7. ConnsOK' BY <1>1, <1>2, <1>4 DEF ConnsOK
<1>8. CASE s \in Session /\ conn[s] \in Conn /\ Send(conn[s], Query("metadata", k, 0))
  BY <1>2, <1>6, <1>7, <1>8, MetadataSent DEF IInv
<1>9. CASE wire' = wire
  <2>1. UnheldOK' /\ UnusedOK' BY <1>1, <1>2, <1>9 DEF UnheldOK, UnusedOK, Unheld, Fresh, serverVars
  <2>2. \A r \in Session : Same(r) BY <1>2, <1>9, OwnUnchanged DEF Same
  <2> QED BY <1>6, <1>7, <2>1, <2>2, AllKeep
<1> QED BY <1>3, <1>8, <1>9

LEMMA AskOnConnectionKeeps ==
  ASSUME IInv, NEW k \in Lookup, AskOnConnection(k)
  PROVE IInv'
<1>1. TypeOK /\ ConnsOK /\ UnheldOK /\ UnusedOK BY DEF IInv
<1>2. UNCHANGED <<serverVars, status, conn, autocommit, handler, turn, batch, apiVars>>
  BY DEF AskOnConnection
<1>3. CASE \E c \in free :
             /\ free' = free \ {c}
             /\ lookup' = [lookup EXCEPT ![k] = [state |-> "asked", conn |-> c]]
             /\ Send(c, Query("metadata", k, 0))
  <2>1. PICK c \in free :
             /\ free' = free \ {c}
             /\ lookup' = [lookup EXCEPT ![k] = [state |-> "asked", conn |-> c]]
             /\ Send(c, Query("metadata", k, 0))
    BY <1>3
  <2>2. c \in Conn /\ c # None BY <1>1, NoneIs DEF TypeOK
  <2>3. lookup' \in [Lookup -> [state : {"new", "waiting", "asked", "done"}, conn : Conn \cup {None}]]
        /\ \A l \in Lookup : lookup'[l].conn = IF l = k THEN c ELSE lookup[l].conn
    BY <1>1, <2>1, <2>2 DEF TypeOK
  <2>4. wire' \in [Conn -> Seq(Queries)]
    <3>1. Query("metadata", k, 0) \in Queries BY QueryIs
    <3> QED BY <1>1, <2>1, <2>2, <3>1, Appends
  <2>5. TypeOK' BY <1>1, <1>2, <2>1, <2>3, <2>4 DEF TypeOK, serverVars, apiVars
  <2>6. ConnsOK' BY <1>1, <1>2, <2>1, <2>2, <2>3 DEF ConnsOK
  <2> QED BY <1>2, <2>1, <2>2, <2>5, <2>6, MetadataSent DEF IInv
<1>4. CASE lookup' = [lookup EXCEPT ![k].state = "done"] /\ UNCHANGED <<free, wire>>
  <2>1. lookup' \in [Lookup -> [state : {"new", "waiting", "asked", "done"}, conn : Conn \cup {None}]]
        /\ \A l \in Lookup : lookup'[l].conn = lookup[l].conn
    BY ZenonT(40), <1>1, <1>4 DEF TypeOK
  <2>2. TypeOK' BY <1>1, <1>2, <1>4, <2>1 DEF TypeOK, serverVars, apiVars
  <2>3. ConnsOK' BY <1>1, <1>2, <1>4, <2>1 DEF ConnsOK
  <2>4. UnheldOK' /\ UnusedOK' BY <1>1, <1>2, <1>4 DEF UnheldOK, UnusedOK, Unheld, Fresh, serverVars
  <2>5. \A r \in Session : Same(r) BY <1>2, <1>4, OwnUnchanged DEF Same
  <2> QED BY <2>2, <2>3, <2>4, <2>5, AllKeep
<1> QED BY <1>3, <1>4 DEF AskOnConnection

LEMMA Holder ==
  ASSUME IInv, NEW c \in Conn, NEW j \in 1..Len(wire[c]), wire[c][j].what # "metadata"
  PROVE \E s \in Session :
          conn[s] = c /\ conn[s] # None /\ SessionOK(s) /\ WireOK(s) /\ QueryOK(s, wire[c][j])
<1>1. PICK s \in Session : conn[s] = c BY DEF IInv, UnheldOK, Unheld
<1>2. conn[s] # None /\ SessionOK(s) BY <1>1, NoneIs DEF IInv
<1> QED BY <1>1, <1>2 DEF SessionOK, WireOK

LEMMA MetadataAnsweredKeeps ==
  ASSUME IInv, NEW c \in Conn, MetadataAnswered(c)
  PROVE IInv'
<1>1. TypeOK /\ ConnsOK /\ UnheldOK /\ UnusedOK BY DEF IInv
<1>2. UNCHANGED <<serverVars, status, conn, autocommit, handler, turn, batch, apiVars>>
      /\ conn' = conn /\ trx' = trx /\ batch' = batch /\ Answered(c, "metadata")
  BY DEF MetadataAnswered, serverVars
<1>3. /\ wire' \in [Conn -> Seq(Queries)]
      /\ \A d \in Conn \ {c} : wire'[d] = wire[d]
      /\ Len(wire[c]) \in Nat \ {0} /\ Len(wire'[c]) = Len(wire[c]) - 1
      /\ \A j \in 1..Len(wire[c]) : wire[c][j] \in Queries
      /\ \A j \in 1..Len(wire'[c]) : wire'[c][j] = wire[c][j + 1]
      /\ Head(wire[c]) = wire[c][1] /\ wire[c][1] \in Queries /\ wire[c][1].what = "metadata"
  BY <1>1, <1>2, Tails
<1>4. PICK k \in Lookup : k = Head(wire[c]).for BY <1>3 DEF Queries
<1>5. /\ lookup' = [lookup EXCEPT ![k] = [state |-> "done", conn |-> None]]
      /\ free' = free \cup ({lookup[k].conn} \ {None})
  BY <1>4 DEF MetadataAnswered
<1>6. lookup' \in [Lookup -> [state : {"new", "waiting", "asked", "done"}, conn : Conn \cup {None}]]
      /\ \A l \in Lookup : lookup'[l].conn = IF l = k THEN None ELSE lookup[l].conn
  BY <1>1, <1>5 DEF TypeOK
<1>7. lookup[k].conn \in Conn \cup {None} BY <1>1 DEF TypeOK
<1>8. TypeOK' BY <1>1, <1>2, <1>3, <1>5, <1>6, <1>7 DEF TypeOK, serverVars, apiVars
<1>9. ConnsOK' BY <1>1, <1>2, <1>5, <1>6, <1>7 DEF ConnsOK
<1>10. UnheldOK'
  <2> SUFFICES ASSUME NEW d \in Conn, Unheld(d)
               PROVE trx[d] = None /\ \A j \in 1..Len(wire'[d]) : wire'[d][j].what = "metadata"
    BY <1>2 DEF UnheldOK, Unheld
  <2>1. trx[d] = None /\ \A j \in 1..Len(wire[d]) : wire[d][j].what = "metadata"
    BY <1>1 DEF UnheldOK
  <2>2. CASE d # c BY <1>3, <2>1, <2>2
  <2>3. CASE d = c BY <1>3, <2>1, <2>3
  <2> QED BY <2>2, <2>3
<1>11. ASSUME NEW s \in Session PROVE SessionOK(s)'
  <2>1. Own(s) /\ SessionOK(s) /\ conn'[s] = conn[s] BY <1>2, OwnUnchanged DEF IInv
  <2>2. CASE conn[s] # c
    <3>1. Same(s) BY <1>1, <1>3, <2>1, <2>2 DEF Same, TypeOK
    <3> QED BY <1>1, <1>8, <2>1, <3>1, SessionSame
  <2>3. CASE conn[s] = c
    <3>1. WireOK(s) BY <2>1, <2>3, NoneIs DEF SessionOK
    <3>2. \A p \in Queries, j \in 2..Len(wire[c]) : p = wire[c][j] =>
            /\ QueryOK(s, p)'
            /\ p.what = "op" =>
                 /\ batch'[p.for].sent = batch[p.for].sent
                 /\ trx'[c] = None \/ (trx'[c] = trx[c] /\ ~IsEnd(wire[c][1]))
      <4> SUFFICES ASSUME NEW p \in Queries, NEW j \in 2..Len(wire[c]), p = wire[c][j]
                   PROVE QueryOK(s, p)' /\ ~IsEnd(wire[c][1])
        BY <1>2
      <4>1. j \in 1..Len(wire[conn[s]]) /\ p = wire[conn[s]][j] BY <1>3, <2>3
      <4>2. QueryOK(s, p) BY <3>1, <4>1 DEF WireOK
      <4> QED BY <1>1, <1>3, <2>1, <4>2, QuerySame DEF IsEnd
    <3>3. /\ WireOK(s)'
          /\ BeginSent(s) => BeginSent(s)' \/ "metadata" = "begin"
          /\ EndSent(s) => EndSent(s)' \/ "metadata" \in {"commit", "rollback"}
          /\ \A b, i : InFlight(s, b, i) => InFlight(s, b, i)' \/ wire[c][1] = Query("op", b, i)
      BY <1>1, <1>2, <2>1, <2>3, <3>1, <3>2, WireTails
    <3>4. \A b, i : wire[c][1] # Query("op", b, i) BY <1>3 DEF Query
    <3> QED BY <1>1, <1>8, <2>1, <3>3, <3>4, OwnKeeps
  <2> QED BY <2>2, <2>3
<1>12. UnusedOK' BY <1>1, <1>2 DEF UnusedOK, Fresh
<1> QED BY <1>8, <1>9, <1>10, <1>11, <1>12 DEF IInv

-----------------------------------------------------------------------------
(* A session that does nothing.                                            *)

Idle(s) ==
  /\ ~handler[s].firstTime /\ handler[s].numberOfOperations = 0 /\ ~Runs(s)
  /\ tx[s] = 0 /\ ending[s] = None

LEMMA IdleIs ==
  ASSUME TypeOK, NEW s \in Session, SessionOK(s), status[s] # "open"
  PROVE Idle(s)
<1>1. handler[s] \in Handlers BY DEF TypeOK
<1>2. ~(handler[s].numberOfOperations > 0 \/ Runs(s)) BY DEF SessionOK, HandlerOK, RunOK
<1>3. ~handler[s].firstTime BY DEF SessionOK, HandlerOK, FirstOK
<1>4. tx[s] = 0 /\ ending[s] = None BY DEF SessionOK, TxOK
<1> QED BY <1>1, <1>2, <1>3, <1>4 DEF Idle, Handlers

LEMMA IdleWire ==
  ASSUME TypeOK, NEW s \in Session, SessionOK(s), Idle(s), conn[s] # None
  PROVE /\ trx[conn[s]] = None
        /\ \A j \in 1..Len(wire[conn[s]]) : LET q == wire[conn[s]][j] IN
             q.what \in {"setup", "metadata"} /\ (q.what = "setup" => q.for = s /\ status[s] = "setup")
<1>1. trx[conn[s]] = None BY DEF SessionOK, TxOK, TrxOK, Idle
<1>2. ASSUME NEW j \in 1..Len(wire[conn[s]])
      PROVE LET q == wire[conn[s]][j] IN
             q.what \in {"setup", "metadata"} /\ (q.what = "setup" => q.for = s /\ status[s] = "setup")
  <2>1. PICK q \in Queries : q = wire[conn[s]][j] BY DEF TypeOK
  <2>2. QueryOK(s, q) BY <2>1 DEF SessionOK, WireOK
  <2>3. q.what \in {"setup", "begin", "commit", "rollback", "op", "metadata"} BY DEF Queries
  <2>4. q.what # "begin" BY <2>2 DEF Idle, QueryOK
  <2>5. q.what # "op" BY <2>2 DEF Idle, QueryOK, InFlightOK
  <2>6. q.what \notin {"commit", "rollback"} BY <2>2, NoneIs DEF Idle, QueryOK, IsEnd
  <2> QED BY <2>1, <2>2, <2>3, <2>4, <2>5, <2>6 DEF QueryOK
<1> QED BY <1>1, <1>2

LEMMA IdleKeeps ==
  ASSUME TypeOK, NEW s \in Session, SessionOK(s), Idle(s),
         UNCHANGED <<begun, ended, work, autocommit, handler, turn, batch, tx, nTx, ending>>,
         conn'[s] # None => WireOK(s)' /\ trx'[conn'[s]] = None
  PROVE SessionOK(s)'
<1>1. \A n : ~(<<s, 0>> \in begun) BY DEF SessionOK, TxOK
<1>2. HandlerOK(s)' BY DEF SessionOK, HandlerOK, Idle, Runs
<1>3. TxOK(s)' BY DEF SessionOK, TxOK, FirstTx, Idle
<1>4. ASSUME NEW b \in Batch, batch[b].session = s PROVE BatchOK(s, b)'
  BY <1>4, BatchSame DEF SessionOK
<1>5. ASSUME NEW b \in Batch, batch[b].session = s PROVE WorkOK(s, b)'
  <2>1. WorkOK(s, b) BY <1>5 DEF SessionOK
  <2> QED BY <1>1, <2>1 DEF WorkOK, SentOK, Idle
<1>6. LossOK(s)' BY <1>5, NoLoss DEF Idle
<1> QED BY <1>2, <1>3, <1>4, <1>5, <1>6 DEF SessionOK

LEMMA SetupAnsweredKeeps ==
  ASSUME IInv, NEW c \in Conn, SetupAnswered(c)
  PROVE IInv'
<1>1. TypeOK /\ ConnsOK /\ UnheldOK /\ UnusedOK BY DEF IInv
<1>2. UNCHANGED <<free, serverVars, conn, autocommit, handler, turn, batch, apiVars, lookup>>
      /\ Answered(c, "setup")
  BY DEF SetupAnswered
<1>3. /\ wire' \in [Conn -> Seq(Queries)]
      /\ \A d \in Conn \ {c} : wire'[d] = wire[d]
      /\ Len(wire[c]) \in Nat \ {0} /\ Len(wire'[c]) = Len(wire[c]) - 1
      /\ \A j \in 1..Len(wire[c]) : wire[c][j] \in Queries
      /\ Head(wire[c]) = wire[c][1] /\ wire[c][1].what = "setup"
  BY <1>1, <1>2, Tails
<1>4. PICK s \in Session : conn[s] = c /\ conn[s] # None /\ SessionOK(s) /\ WireOK(s)
                           /\ QueryOK(s, wire[c][1])
  BY <1>3, Holder
<1>5. wire[c][1].for = s /\ status[s] = "setup" BY <1>3, <1>4 DEF QueryOK
<1>6. PICK answer \in {"open", "failed"} : status' = [status EXCEPT ![s] = answer]
  BY <1>3, <1>5 DEF SetupAnswered
<1>7. TypeOK' BY <1>1, <1>2, <1>3, <1>6 DEF TypeOK, serverVars, apiVars
<1>8. ConnsOK' BY <1>1, <1>2, <1>4, <1>6 DEF ConnsOK, TypeOK
<1>9. UnheldOK'
  <2> SUFFICES ASSUME NEW d \in Conn, Unheld(d)
               PROVE trx[d] = None /\ \A j \in 1..Len(wire'[d]) : wire'[d][j].what = "metadata"
    BY <1>2 DEF UnheldOK, Unheld, serverVars
  <2>1. d # c BY <1>4 DEF Unheld
  <2> QED BY <1>1, <1>3, <2>1 DEF UnheldOK
<1>10. UnusedOK' BY <1>1, <1>2 DEF UnusedOK, Fresh
<1>11. \A r \in Session \ {s} : Same(r)
  <2> SUFFICES ASSUME NEW r \in Session \ {s} PROVE Same(r)
    OBVIOUS
  <2>1. Own(r) BY <1>1, <1>2, <1>6 DEF Own, serverVars, apiVars, TypeOK
  <2>2. conn[r] # None => conn[r] \in Conn \ {c} BY <1>1, <1>4 DEF ConnsOK, TypeOK
  <2> QED BY <1>3, <2>1, <2>2 DEF Same
<1>12. SessionOK(s)'
  <2>1. Idle(s) BY <1>1, <1>4, <1>5, IdleIs
  <2>2. /\ trx[c] = None
        /\ \A j \in 1..Len(wire[c]) : wire[c][j].what \in {"setup", "metadata"}
    BY <1>1, <1>4, <2>1, IdleWire
  <2>3. \A p \in Queries, j \in 2..Len(wire[c]) : p = wire[c][j] =>
            /\ QueryOK(s, p)'
            /\ p.what = "op" =>
                 /\ batch'[p.for].sent = batch[p.for].sent
                 /\ trx'[c] = None \/ (trx'[c] = trx[c] /\ ~IsEnd(wire[c][1]))
    <3> SUFFICES ASSUME NEW p \in Queries, NEW j \in 2..Len(wire[c]), p = wire[c][j]
                 PROVE QueryOK(s, p)' /\ p.what # "op"
      OBVIOUS
    <3>1. j \in 1..Len(wire[conn[s]]) /\ 1 \in 1..Len(wire[conn[s]]) /\ j # 1 BY <1>3, <1>4
    <3>2. \A i \in 1..Len(wire[conn[s]]), k \in 1..Len(wire[conn[s]]) :
            wire[conn[s]][i].what = wire[conn[s]][k].what /\ wire[conn[s]][i].what # "metadata" => i = k
      BY <1>4 DEF WireOK
    <3>3. p.what # "setup" BY <1>3, <1>4, <3>1, <3>2
    <3>4. p.what = "metadata" BY <1>4, <2>2, <3>1, <3>3
    <3> QED BY <3>4 DEF QueryOK, IsEnd
  <2>4. conn'[s] = c BY <1>2, <1>4
  <2>5. WireOK(s)' BY <1>1, <1>2, <1>4, <2>3, <2>4, WireTails
  <2>6. trx'[conn'[s]] = None BY <1>2, <2>2, <2>4 DEF serverVars
  <2> QED BY <1>1, <1>2, <1>4, <2>1, <2>5, <2>6, IdleKeeps DEF serverVars, apiVars
<1> QED BY <1>7, <1>8, <1>9, <1>10, <1>11, <1>12, OthersKeep

LEMMA GetDBSessionKeeps ==
  ASSUME IInv, NEW s \in Session, GetDBSession(s)
  PROVE IInv'
<1>1. TypeOK /\ ConnsOK /\ UnheldOK /\ UnusedOK /\ SessionOK(s) BY DEF IInv
<1>2. UNCHANGED <<serverVars, autocommit, handler, turn, batch, apiVars, lookup>>
      /\ status[s] = "new" /\ conn[s] = None
  BY <1>1 DEF GetDBSession, ConnsOK
<1>3. Idle(s) BY <1>1, <1>2, IdleIs
<1>4. UnusedOK' BY <1>1, <1>2 DEF UnusedOK, Fresh
<1>5. CASE \E c \in free :
             /\ free' = free \ {c}
             /\ conn' = [conn EXCEPT ![s] = c]
             /\ status' = [status EXCEPT ![s] = "setup"]
             /\ Send(c, Query("setup", s, 0))
  <2>1. PICK c \in free :
             /\ free' = free \ {c}
             /\ conn' = [conn EXCEPT ![s] = c]
             /\ status' = [status EXCEPT ![s] = "setup"]
             /\ Send(c, Query("setup", s, 0))
    BY <1>5
  <2>2. c \in Conn /\ c # None BY <1>1, NoneIs DEF TypeOK
  <2>3. PICK q \in Queries : q = Query("setup", s, 0) BY QueryIs
  <2>4. q.what = "setup" /\ q.for = s BY <2>3 DEF Query
  <2>5. /\ wire' \in [Conn -> Seq(Queries)]
        /\ \A d \in Conn \ {c} : wire'[d] = wire[d]
        /\ Len(wire[c]) \in Nat /\ Len(wire'[c]) = Len(wire[c]) + 1
        /\ \A j \in 1..Len(wire[c]) : wire'[c][j] = wire[c][j]
        /\ wire'[c][Len(wire[c]) + 1] = q
    BY <1>1, <2>1, <2>2, <2>3, Appends
  <2>6. Unheld(c) BY <1>1, <2>1 DEF ConnsOK, Unheld
  <2>7. trx[c] = None /\ \A j \in 1..Len(wire[c]) : wire[c][j].what = "metadata"
    BY <1>1, <2>2, <2>6 DEF UnheldOK
  <2>8. TypeOK' BY <1>1, <1>2, <2>1, <2>2, <2>5 DEF TypeOK, serverVars, apiVars
  <2>9. conn'[s] = c /\ \A r \in Session \ {s} : conn'[r] = conn[r] /\ conn[r] # c
    BY <1>1, <2>1, <2>6 DEF TypeOK, Unheld
  <2>10. status'[s] = "setup" /\ \A r \in Session \ {s} : status'[r] = status[r]
    BY <1>1, <2>1 DEF TypeOK
  <2>11. ConnsOK'
    <3>1. lookup' = lookup /\ free' = free \ {c} BY <1>2, <2>1
    <3> QED BY <1>1, <2>1, <2>2, <2>9, <2>10, <3>1 DEF ConnsOK
  <2>12. UnheldOK'
    <3> SUFFICES ASSUME NEW d \in Conn, Unheld(d)'
                 PROVE trx[d] = None /\ \A j \in 1..Len(wire'[d]) : wire'[d][j].what = "metadata"
      BY <1>2 DEF UnheldOK, serverVars
    <3>1. d # c BY <2>9 DEF Unheld
    <3>2. conn[s] # d BY <1>2, NoneIs
    <3>3. Unheld(d) BY <2>9, <3>2 DEF Unheld
    <3> QED BY <1>1, <2>5, <3>1, <3>3 DEF UnheldOK
  <2>13. \A r \in Session \ {s} : Same(r)
    <3> SUFFICES ASSUME NEW r \in Session \ {s} PROVE Same(r)
      OBVIOUS
    <3>1. Own(r) BY <1>1, <1>2, <2>9, <2>10 DEF Own, serverVars, apiVars
    <3>2. conn[r] # None => conn[r] \in Conn \ {c} BY <1>1, <2>9 DEF TypeOK
    <3> QED BY <2>5, <3>1, <3>2 DEF Same
  <2>14. WireOK(s)'
    <3>1. \A j \in 1..Len(wire'[c]) : j \in 1..Len(wire[c]) \/ j = Len(wire[c]) + 1 BY <2>5
    <3>2. \A j \in 1..Len(wire'[c]) :
            wire'[c][j].what = "metadata" \/ (wire'[c][j] = q /\ j = Len(wire[c]) + 1)
      BY <2>5, <2>7, <3>1
    <3>3. \A j \in 1..Len(wire'[c]) : QueryOK(s, wire[conn[s]][j])' /\ OrderOK(s, j)'
      BY <2>4, <2>9, <2>10, <3>2 DEF QueryOK, OrderOK, IsEnd
    <3>4. \A i, j \in 1..Len(wire'[c]) : wire'[c][i].what = wire'[c][j].what
             /\ wire'[c][i].what # "metadata" => i = j
      BY <3>2
    <3> QED BY <2>9, <3>3, <3>4 DEF WireOK
  <2>15. SessionOK(s)'
    <3>1. trx'[conn'[s]] = None BY <1>2, <2>7, <2>9 DEF serverVars
    <3> QED BY <1>1, <1>2, <1>3, <2>14, <3>1, IdleKeeps DEF serverVars, apiVars
  <2> QED BY <1>4, <2>8, <2>11, <2>12, <2>13, <2>15, OthersKeep
<1>6. CASE status' = [status EXCEPT ![s] = "failed"] /\ UNCHANGED <<free, conn, wire>>
  <2>1. TypeOK' BY <1>1, <1>2, <1>6 DEF TypeOK, serverVars, apiVars
  <2>2. ConnsOK' BY <1>1, <1>2, <1>6 DEF ConnsOK, TypeOK
  <2>3. UnheldOK' BY <1>1, <1>2, <1>6 DEF UnheldOK, Unheld, serverVars
  <2>4. \A r \in Session \ {s} : Same(r)
    BY <1>1, <1>2, <1>6 DEF Same, Own, serverVars, apiVars, TypeOK
  <2>5. SessionOK(s)' BY <1>1, <1>2, <1>3, <1>6, IdleKeeps DEF serverVars, apiVars
  <2> QED BY <1>4, <2>1, <2>2, <2>3, <2>4, <2>5, OthersKeep
<1> QED BY <1>5, <1>6 DEF GetDBSession

LEMMA CloseKeeps ==
  ASSUME IInv, Patient, NEW s \in Session, Close(s)
  PROVE IInv'
<1>1. TypeOK /\ ConnsOK /\ UnheldOK /\ UnusedOK /\ SessionOK(s) BY DEF IInv
<1>2. /\ UNCHANGED <<wire, serverVars, autocommit, handler, turn, batch, apiVars, lookup>>
      /\ status[s] = "open" /\ tx[s] = 0 /\ turn = None /\ ending[s] = None
      /\ ~(handler[s].numberOfOperations > 0)
      /\ status' = [status EXCEPT ![s] = "closed"]
      /\ free' = free \cup {conn[s]} /\ conn' = [conn EXCEPT ![s] = None]
  BY DEF Close, Pending, Quiet
<1>3. conn[s] \in Conn /\ conn[s] # None BY <1>1, <1>2 DEF ConnsOK, TypeOK
<1>4. handler[s].numberOfOperations = 0 BY <1>1, <1>2 DEF TypeOK, Handlers
<1>5. ~handler[s].firstTime BY <1>1, <1>2 DEF SessionOK, HandlerOK, FirstOK
<1>6. Idle(s) BY <1>2, <1>4, <1>5 DEF Idle, Runs
<1>7. trx[conn[s]] = None /\ \A j \in 1..Len(wire[conn[s]]) : wire[conn[s]][j].what = "metadata"
  BY <1>1, <1>2, <1>3, <1>6, IdleWire
<1>8. TypeOK' BY <1>1, <1>2, <1>3 DEF TypeOK, serverVars, apiVars
<1>9. conn'[s] = None /\ \A r \in Session \ {s} : conn'[r] = conn[r] /\ conn[r] # conn[s]
  BY <1>1, <1>2, <1>3 DEF TypeOK, ConnsOK
<1>10. status'[s] = "closed" /\ \A r \in Session \ {s} : status'[r] = status[r]
  BY <1>1, <1>2 DEF TypeOK
<1>11. ConnsOK'
  <2>1. lookup' = lookup BY <1>2
  <2>2. None \notin free' BY <1>2, <1>3, <1>1, NoneIs DEF TypeOK
  <2> QED BY <1>1, <1>2, <1>3, <1>9, <1>10, <2>1, <2>2 DEF ConnsOK
<1>12. UnheldOK'
  <2> SUFFICES ASSUME NEW d \in Conn, Unheld(d)'
               PROVE trx[d] = None /\ \A j \in 1..Len(wire[d]) : wire[d][j].what = "metadata"
    BY <1>2 DEF UnheldOK, serverVars
  <2>1. CASE d = conn[s] BY <1>7, <2>1
  <2>2. CASE d # conn[s]
    <3>1. Unheld(d) BY <1>9, <2>2 DEF Unheld
    <3> QED BY <1>1, <3>1 DEF UnheldOK
  <2> QED BY <2>1, <2>2
<1>13. UnusedOK' BY <1>1, <1>2 DEF UnusedOK, Fresh
<1>14. \A r \in Session \ {s} : Same(r)
  BY <1>2, <1>9, <1>10 DEF Same, Own, serverVars, apiVars
<1>15. SessionOK(s)' BY <1>1, <1>2, <1>6, <1>9, IdleKeeps DEF serverVars, apiVars
<1> QED BY <1>8, <1>11, <1>12, <1>13, <1>14, <1>15, OthersKeep

-----------------------------------------------------------------------------
(* Transactions.                                                           *)

LEMMA NotYet ==
  ASSUME TypeOK, NEW s \in Session, TxOK(s), NEW n \in Nat, n = 0 \/ n > nTx[s]
  PROVE <<s, n>> \notin begun \cup ended.committed \cup ended.rolledBack
<1> SUFFICES ASSUME <<s, n>> \in begun \cup ended.committed \cup ended.rolledBack PROVE FALSE
  OBVIOUS
<1>1. <<s, n>>[1] = s /\ <<s, n>>[2] = n OBVIOUS
<1>2. n \in 1..nTx[s] BY <1>1 DEF TxOK
<1> QED BY <1>2 DEF TypeOK

LEMMA NoHandlerIs ==
  /\ NoHandler \in Handlers
  /\ \A e \in BOOLEAN : LET h == [NoHandler EXCEPT !.exists = TRUE, !.firstTime = e] IN
       /\ h \in Handlers /\ h.exists /\ h.firstTime = e /\ h.numberOfOperations = 0
       /\ h.executed = 0 /\ h.operationsList = None /\ h.pendingBatches = <<>>
<1>1. <<>> \in Seq(Batch) OBVIOUS
<1>2. NoHandler \in Handlers BY <1>1 DEF NoHandler, Handlers
<1>3. PICK h \in Handlers : h = NoHandler BY <1>2
<1>4. \A e \in BOOLEAN : [h EXCEPT !.exists = TRUE, !.firstTime = e] \in Handlers BY DEF Handlers
<1> QED BY <1>2, <1>3, <1>4 DEF NoHandler

LEMMA BeginKeeps ==
  ASSUME IInv, NEW s \in Session, Begin(s)
  PROVE IInv'
<1>1. TypeOK /\ ConnsOK /\ UnheldOK /\ UnusedOK /\ SessionOK(s) BY DEF IInv
<1>2. /\ UNCHANGED <<free, wire, serverVars, status, conn, turn, batch, ending, lookup>>
      /\ status[s] = "open" /\ tx[s] = 0 /\ turn = None
      /\ nTx' = [nTx EXCEPT ![s] = nTx[s] + 1] /\ tx' = [tx EXCEPT ![s] = nTx[s] + 1]
      /\ autocommit' = [autocommit EXCEPT ![s] = FALSE]
  BY DEF Begin, Quiet
<1>3. PICK h \in Handlers : handler' = [handler EXCEPT ![s] = h]
        /\ h = IF handler[s].exists THEN handler[s]
               ELSE [NoHandler EXCEPT !.exists = TRUE, !.firstTime = TRUE]
  <2>1. [NoHandler EXCEPT !.exists = TRUE, !.firstTime = TRUE] \in Handlers BY NoHandlerIs
  <2>2. handler[s] \in Handlers BY <1>1 DEF TypeOK
  <2> QED BY <2>1, <2>2 DEF Begin
<1>4. ~handler[s].exists =>
        /\ h.exists /\ h.firstTime /\ h.numberOfOperations = 0 /\ h.executed = 0
        /\ h.operationsList = None /\ h.pendingBatches = <<>>
  BY <1>3 DEF NoHandler
<1>5. /\ handler'[s] = h /\ tx'[s] = nTx[s] + 1 /\ nTx'[s] = nTx[s] + 1 /\ ~autocommit'[s]
      /\ nTx[s] \in Nat
      /\ \A r \in Session \ {s} : /\ handler'[r] = handler[r] /\ tx'[r] = tx[r]
                                 /\ nTx'[r] = nTx[r] /\ autocommit'[r] = autocommit[r]
  BY <1>1, <1>2, <1>3 DEF TypeOK
<1>6. TypeOK' BY <1>1, <1>2, <1>3 DEF TypeOK, serverVars
<1>7. ConnsOK' BY <1>1, <1>2 DEF ConnsOK
<1>8. UnheldOK' /\ UnusedOK' BY <1>1, <1>2 DEF UnheldOK, UnusedOK, Unheld, Fresh, serverVars
<1>9. \A r \in Session \ {s} : Same(r) BY <1>2, <1>5 DEF Same, Own, serverVars
<1>10. ending[s] = None BY <1>1, <1>2 DEF SessionOK, TxOK
<1>11. ~handler[s].firstTime BY <1>1, <1>2 DEF SessionOK, HandlerOK, FirstOK
<1>12. <<s, nTx[s] + 1>> \notin begun \cup ended.committed \cup ended.rolledBack
       /\ <<s, 0>> \notin begun \cup ended.committed \cup ended.rolledBack
  BY <1>1, <1>5, NotYet DEF SessionOK
<1>13. conn[s] # None => trx[conn[s]] = None BY <1>1, <1>2 DEF SessionOK, TxOK, TrxOK
<1>14. HandlerOK(s)'
  <2>1. CASE handler[s].exists
    <3>1. h = handler[s] BY <1>3, <2>1
    <3> QED BY <1>1, <1>2, <1>5, <1>11, <2>1, <3>1
         DEF SessionOK, HandlerOK, Runs, RunOK, PlaceOK, Does
  <2>2. CASE ~handler[s].exists
    <3>1. nTx[s] = 0 /\ \A b \in Batch : batch[b].session # s
      BY <1>1, <2>2 DEF SessionOK, HandlerOK
    <3>2. \A t \in begun : t[1] # s
      <4> SUFFICES ASSUME NEW t \in begun, t[1] = s PROVE FALSE
        OBVIOUS
      <4>1. t[2] \in 1..nTx[s] BY <1>1 DEF SessionOK, TxOK
      <4> QED BY <3>1, <4>1
    <3>3. FirstOK(s)' BY <1>2, <1>4, <1>5, <1>10, <2>2, <3>1, <3>2 DEF FirstOK, Runs, serverVars
    <3> QED BY <1>2, <1>4, <1>5, <2>2, <3>1, <3>3 DEF HandlerOK, Runs
  <2> QED BY <2>1, <2>2
<1>15. TxOK(s)'
  <2>1. handler'[s].exists BY <1>3, <1>4, <1>5
  <2>2. \A t \in begun \cup ended.committed \cup ended.rolledBack : t[1] = s => t[2] \in 1..nTx'[s]
    <3> SUFFICES ASSUME NEW t \in begun \cup ended.committed \cup ended.rolledBack, t[1] = s
                 PROVE t[2] \in 1..nTx'[s]
      OBVIOUS
    <3>1. t[2] \in 1..nTx[s] BY <1>1 DEF SessionOK, TxOK
    <3> QED BY <1>5, <3>1
  <2>3. FirstTx(s)' BY <1>2, <1>5, <1>12 DEF FirstTx, serverVars
  <2> QED BY <1>2, <1>5, <1>10, <1>12, <1>13, <2>1, <2>2, <2>3 DEF TxOK, serverVars
<1>16. conn'[s] # None => WireOK(s)'
  <2> SUFFICES ASSUME conn[s] # None PROVE WireOK(s)'
    BY <1>2
  <2>1. WireOK(s) /\ wire' = wire /\ conn' = conn BY <1>1, <1>2 DEF SessionOK
  <2>2. ASSUME NEW j \in 1..Len(wire[conn[s]])
        PROVE QueryOK(s, wire[conn[s]][j])' /\ OrderOK(s, j)'
    <3>1. PICK q \in Queries : q = wire[conn[s]][j] BY <1>1 DEF TypeOK
    <3>2. QueryOK(s, q) BY <2>1, <3>1 DEF WireOK
    <3>3. q.what = "op" => handler[s].exists
      BY <1>1, <3>2 DEF QueryOK, InFlightOK, SessionOK, HandlerOK, RunOK
    <3>4. QueryOK(s, q)'
      <4>1. q.what # "begin" BY <1>11, <3>2 DEF QueryOK
      <4>2. q.what = "op" => InFlightOK(s, q.for, q.op)'
        <5> SUFFICES ASSUME q.what = "op" PROVE InFlightOK(s, q.for, q.op)'
          OBVIOUS
        <5>1. InFlightOK(s, q.for, q.op) /\ handler'[s] = handler[s]
          BY <1>3, <1>5, <3>2, <3>3 DEF QueryOK
        <5>2. LastSent(q.for).tx = 0
          <6>1. LastSent(q.for).tx # 0 => LastSent(q.for).tx = 0
            BY <1>2, <5>1 DEF InFlightOK
          <6> QED BY <6>1
        <5> QED BY <1>2, <5>1, <5>2 DEF InFlightOK, LastSent, Runs
      <4>3. ~IsEnd(q) BY <1>10, <3>2, NoneIs DEF QueryOK, IsEnd
      <4> QED BY <1>2, <3>2, <4>1, <4>2, <4>3 DEF QueryOK
    <3>5. QueryOK(s, wire[conn[s]][j])'
      BY <2>1, <3>1, <3>4 DEF QueryOK, InFlightOK, LastSent
    <3>6. OrderOK(s, j)'
      BY <1>2, <2>1 DEF WireOK, OrderOK, EndBefore, LastSent, serverVars
    <3> QED BY <3>5, <3>6
  <2> QED BY <2>1, <2>2 DEF WireOK
<1>17. ASSUME NEW b \in Batch, batch[b].session = s PROVE BatchOK(s, b)'
  <2>1. handler[s].exists /\ handler'[s] = handler[s]
    BY <1>1, <1>3, <1>5, <1>17 DEF SessionOK, HandlerOK
  <2>2. BatchOK(s, b) BY <1>1, <1>17 DEF SessionOK
  <2> QED BY <1>2, <2>1, <2>2, BatchSame
<1>18. ASSUME NEW b \in Batch, batch[b].session = s PROVE WorkOK(s, b)'
  <2>1. WorkOK(s, b) BY <1>1, <1>18 DEF SessionOK
  <2>2. batch' = batch /\ work' = work /\ begun' = begun /\ ended' = ended
    BY <1>2 DEF serverVars
  <2>3. ASSUME NEW j \in 1..Len(batch[b].sent) PROVE SentOK(s, b, batch[b].sent[j])'
    <3>1. SentOK(s, b, batch[b].sent[j]) BY <2>1 DEF WorkOK
    <3>2. batch[b].sent[j].tx = nTx[s] + 1 => <<s, batch[b].sent[j].tx>> \notin begun BY <1>12
    <3> QED BY <1>5, <2>2, <3>1, <3>2 DEF SentOK
  <2> QED BY <2>1, <2>2, <2>3 DEF WorkOK
<1>19. LossOK(s)'
  <2>1. ASSUME NEW b \in Batch, batch[b].session = s, NEW j \in 1..Len(batch[b].sent)
        PROVE ~Loss(s, b, batch[b].sent[j])'
    <3>1. batch'[b] = batch[b] /\ SentOK(s, b, batch[b].sent[j])' BY <1>2, <1>18, <2>1 DEF WorkOK
    <3>2. batch[b].sent[j].tx = tx'[s] => <<s, batch[b].sent[j].tx>> \notin begun'
      BY <1>2, <1>5, <1>12 DEF serverVars
    <3> QED BY <3>1, <3>2 DEF SentOK, Loss
  <2> QED BY <1>2, <2>1 DEF LossOK, Loss
<1>20. SessionOK(s)' BY <1>2, <1>14, <1>15, <1>16, <1>17, <1>18, <1>19 DEF SessionOK
<1> QED BY <1>6, <1>7, <1>8, <1>9, <1>20, OthersKeep

LEMMA EndKeeps ==
  ASSUME IInv, Patient, NEW s \in Session, NEW how \in {"commit", "rollback"}, End(s, how)
  PROVE IInv'
<1>1. TypeOK /\ ConnsOK /\ UnheldOK /\ UnusedOK /\ SessionOK(s) BY DEF IInv
<1>2. /\ UNCHANGED <<free, serverVars, status, conn, handler, turn, batch, tx, nTx, lookup>>
      /\ trx' = trx /\ conn' = conn /\ batch' = batch /\ begun' = begun /\ ended' = ended /\ work' = work
      /\ tx[s] # 0 /\ ending[s] = None /\ turn = None
      /\ ending' = [ending EXCEPT ![s] = how] /\ autocommit' = [autocommit EXCEPT ![s] = @ \/ how = "commit"]
      /\ Send(conn[s], Query(how, s, tx[s])) /\ InTx(s) # {} /\ ~Beginning(s)
  BY DEF End, Quiet, serverVars
<1>3. status[s] = "open" /\ handler[s].exists /\ conn[s] # None
  BY <1>1, <1>2 DEF SessionOK, TxOK, ConnsOK
<1>4. PICK c \in Conn : conn[s] = c BY <1>1, <1>3 DEF TypeOK
<1>5. PICK q \in Queries : q = Query(how, s, tx[s]) BY <1>1, QueryIs DEF TypeOK
<1>6. q.what = how /\ q.for = s /\ q.op = tx[s] /\ Send(c, q) BY <1>2, <1>4, <1>5 DEF Query
<1>7. /\ wire' \in [Conn -> Seq(Queries)]
      /\ \A d \in Conn \ {c} : wire'[d] = wire[d]
      /\ Len(wire[c]) \in Nat /\ Len(wire'[c]) = Len(wire[c]) + 1
      /\ \A j \in 1..Len(wire[c]) : wire'[c][j] = wire[c][j] /\ wire[c][j] \in Queries
      /\ wire'[c][Len(wire[c]) + 1] = q
  BY <1>1, <1>6, Appends
<1>8. /\ ending'[s] = how /\ (autocommit[s] => autocommit'[s])
      /\ \A r \in Session \ {s} : ending'[r] = ending[r] /\ autocommit'[r] = autocommit[r]
  BY <1>1, <1>2 DEF TypeOK
<1>9. ~handler[s].firstTime
  <2> SUFFICES ASSUME handler[s].firstTime PROVE FALSE
    OBVIOUS
  <2>1. PICK b \in Batch : batch[b].session = s BY <1>2 DEF InTx
  <2>2. BeginSent(s) BY <1>1, <2>1 DEF SessionOK, HandlerOK, FirstOK
  <2>3. PICK j \in 1..Len(wire[c]) : wire[c][j].what = "begin" BY <1>4, <2>2 DEF BeginSent
  <2>4. wire[c][j].for = s BY <1>1, <1>3, <1>4, <2>3 DEF SessionOK, WireOK, QueryOK
  <2> QED BY <1>2, <2>3, <2>4 DEF Beginning
<1>10. TypeOK' BY <1>1, <1>2, <1>7 DEF TypeOK
<1>11. ConnsOK' /\ UnusedOK' BY <1>1, <1>2 DEF ConnsOK, UnusedOK, Fresh
<1>12. UnheldOK'
  <2> SUFFICES ASSUME NEW d \in Conn, Unheld(d)
               PROVE trx[d] = None /\ \A j \in 1..Len(wire'[d]) : wire'[d][j].what = "metadata"
    BY <1>2 DEF UnheldOK, Unheld
  <2>1. d # c BY <1>4 DEF Unheld
  <2> QED BY <1>1, <1>7, <2>1 DEF UnheldOK
<1>13. \A r \in Session \ {s} : Same(r)
  <2> SUFFICES ASSUME NEW r \in Session \ {s} PROVE Same(r)
    OBVIOUS
  <2>1. Own(r) BY <1>2, <1>8 DEF Own
  <2>2. conn[r] # None => conn[r] \in Conn \ {c} BY <1>1, <1>3, <1>4 DEF ConnsOK, TypeOK
  <2> QED BY <1>7, <2>1, <2>2 DEF Same
<1>14. Runs(s)' <=> Runs(s) BY <1>2 DEF Runs
<1>15. HandlerOK(s)'
  BY <1>1, <1>2, <1>3, <1>9 DEF SessionOK, HandlerOK, RunOK, PlaceOK, Runs, Does
<1>16. WireOK(s) BY <1>1, <1>3 DEF SessionOK
<1>17. /\ WireOK(s)'
       /\ \A b, i : InFlight(s, b, i) => InFlight(s, b, i)'
  <2>1. ASSUME NEW p \in Queries, NEW j \in 1..Len(wire[c]), p = wire[c][j]
        PROVE QueryOK(s, p)' /\ p.what # q.what
    <3>1. QueryOK(s, p) BY <1>4, <1>16, <2>1 DEF WireOK
    <3>2. ~IsEnd(p) BY <1>2, <3>1, NoneIs DEF QueryOK, IsEnd
    <3>3. QueryOK(s, p)'
      BY <1>2, <1>14, <3>1, <3>2 DEF QueryOK, InFlightOK, LastSent
    <3> QED BY <1>6, <3>2, <3>3 DEF IsEnd
  <2>2. \A p \in Queries, j \in 1..Len(wire[c]) : p = wire[c][j] =>
            /\ QueryOK(s, p)'
            /\ p.what = "op" => batch'[p.for].sent = batch[p.for].sent
            /\ p.what # q.what \/ q.what = "metadata"
    BY <1>2, <2>1
  <2>3. QueryOK(s, q)' BY <1>2, <1>6, <1>8 DEF QueryOK, IsEnd
  <2>4. \A n \in Nat : n = Len(wire[c]) + 1 => OrderOK(s, n)' BY <1>2, <1>4, <1>6, <1>7 DEF OrderOK
  <2> QED BY <1>1, <1>2, <1>4, <1>6, <1>16, <2>2, <2>3, <2>4, WireAppends
<1>18. TxOK(s)'
  <2>1. EndSent(s)'
    <3>1. Len(wire[c]) + 1 \in 1..Len(wire'[c]) BY <1>7
    <3>2. IsEnd(wire'[c][Len(wire[c]) + 1]) BY <1>6, <1>7 DEF IsEnd
    <3>3. conn'[s] = c BY <1>2, <1>4
    <3> QED BY <3>1, <3>2, <3>3 DEF EndSent, IsEnd
  <2>2. handler' = handler /\ status' = status /\ tx' = tx /\ nTx' = nTx BY <1>2
  <2>3. FirstTx(s)' BY <1>1, <1>2, <2>2 DEF SessionOK, TxOK, FirstTx
  <2>4. TrxOK(s) => TrxOK(s)' BY <1>2, <2>2 DEF TrxOK
  <2> QED BY ZenonT(60), <1>1, <1>2, <2>1, <2>2, <2>3, <2>4 DEF SessionOK, TxOK
<1>19. ASSUME NEW b \in Batch, batch[b].session = s PROVE BatchOK(s, b)' /\ WorkOK(s, b)'
  <2>1. BatchOK(s, b) /\ WorkOK(s, b) BY <1>1, <1>19 DEF SessionOK
  <2>3. BatchOK(s, b)' BY <1>2, <2>1, BatchSame
  <2>4. ASSUME NEW j \in 1..Len(batch[b].sent) PROVE SentOK(s, b, batch[b].sent[j])'
    BY <1>2, <1>17, <2>1 DEF WorkOK, SentOK
  <2>5. WorkOK(s, b)' BY <1>2, <2>1, <2>4 DEF WorkOK
  <2> QED BY <2>3, <2>5
<1>20. LossOK(s)' BY <1>8, NoneIs DEF LossOK
<1>21. SessionOK(s)' BY <1>2, <1>15, <1>17, <1>18, <1>19, <1>20 DEF SessionOK
<1> QED BY <1>10, <1>11, <1>12, <1>13, <1>21, OthersKeep

-----------------------------------------------------------------------------
(* The answers of the server to a session.                                 *)

LEMMA UnheldKeeps ==
  ASSUME UnheldOK, NEW s \in Session, NEW c \in Conn, conn[s] = c, conn' = conn,
         \A d \in Conn \ {c} : wire'[d] = wire[d] /\ trx'[d] = trx[d]
  PROVE UnheldOK'
<1> SUFFICES ASSUME NEW d \in Conn, Unheld(d)
             PROVE trx'[d] = None /\ \A j \in 1..Len(wire'[d]) : wire'[d][j].what = "metadata"
  BY DEF UnheldOK, Unheld
<1>1. d # c BY DEF Unheld
<1> QED BY <1>1 DEF UnheldOK

LEMMA SetWorkIs ==
  ASSUME TypeOK, NEW ops, NEW state \in {"none", "open", "kept", "undone", "nothing"},
         work' = SetWork(ops, state)
  PROVE /\ work' \in [Batch -> Seq({"none", "open", "kept", "undone", "nothing"})]
        /\ \A b \in Batch : Len(work'[b]) = Len(work[b])
        /\ \A b \in Batch : \A i \in 1..Len(batch[b].ops) :
             work'[b][i] = IF <<b, i>> \in ops THEN state ELSE work[b][i]
        /\ \A b \in Batch : (\A i : <<b, i>> \notin ops) => work'[b] = work[b]
<1> DEFINE W == {"none", "open", "kept", "undone", "nothing"}
<1>1. ASSUME NEW b \in Batch
      PROVE /\ work'[b] \in Seq(W) /\ Len(work'[b]) = Len(work[b])
            /\ \A i \in 1..Len(batch[b].ops) :
                 work'[b][i] = IF <<b, i>> \in ops THEN state ELSE work[b][i]
            /\ (\A i : <<b, i>> \notin ops) => work'[b] = work[b]
  <2>1. PICK w \in Seq(W) : w = work[b] BY DEF TypeOK
  <2>2. Len(w) = Len(batch[b].ops) /\ DOMAIN w = 1..Len(w) /\ Len(w) \in Nat BY <2>1 DEF TypeOK
  <2>3. work'[b] = [i \in 1..Len(w) |-> IF <<b, i>> \in ops THEN state ELSE w[i]]
    BY <2>1, <2>2 DEF SetWork
  <2>4. \A i \in 1..Len(w) : w[i] \in W OBVIOUS
  <2>5. \A i \in 1..Len(w) : (IF <<b, i>> \in ops THEN state ELSE w[i]) \in W BY <2>4
  <2> HIDE DEF W
  <2>6. work'[b] \in Seq(W) /\ Len(work'[b]) = Len(w) BY <2>2, <2>3, <2>5
  <2>7. (\A i : <<b, i>> \notin ops) => work'[b] = w BY <2>2, <2>3
  <2> QED BY <2>1, <2>2, <2>3, <2>6, <2>7
<1>2. work' \in [Batch -> Seq(W)]
  <2>1. work' = [b \in Batch |-> work'[b]] BY DEF SetWork
  <2> QED BY <1>1, <2>1
<1> QED BY <1>1, <1>2

LEMMA EndAnsweredKeeps ==
  ASSUME IInv, NEW c \in Conn, NEW how \in {"commit", "rollback"}, EndAnswered(c, how)
  PROVE IInv'
<1>1. TypeOK /\ ConnsOK /\ UnheldOK /\ UnusedOK BY DEF IInv
<1>2. /\ UNCHANGED <<free, begun, status, conn, autocommit, handler, turn, batch, nTx, lookup>>
      /\ conn' = conn /\ begun' = begun /\ batch' = batch /\ Answered(c, how)
  BY DEF EndAnswered
<1>3. /\ wire' \in [Conn -> Seq(Queries)]
      /\ \A d \in Conn \ {c} : wire'[d] = wire[d]
      /\ Len(wire[c]) \in Nat \ {0} /\ Len(wire'[c]) = Len(wire[c]) - 1
      /\ \A j \in 1..Len(wire[c]) : wire[c][j] \in Queries
      /\ Head(wire[c]) = wire[c][1] /\ wire[c][1] \in Queries /\ wire[c][1].what = how
      /\ turn = None
  BY <1>1, <1>2, Tails
<1>4. IsEnd(wire[c][1]) BY <1>3 DEF IsEnd
<1>5. PICK s \in Session : conn[s] = c /\ conn[s] # None /\ SessionOK(s) /\ WireOK(s)
                           /\ QueryOK(s, wire[c][1])
  <2>1. 1 \in 1..Len(wire[c]) /\ wire[c][1].what # "metadata" BY <1>3
  <2> QED BY <2>1, Holder
<1>6. wire[c][1].for = s /\ ending[s] = how /\ wire[c][1].op = tx[s]
  BY <1>3, <1>4, <1>5 DEF QueryOK
<1> DEFINE Ended == IF how = "commit" THEN [ended EXCEPT !.committed = @ \cup {<<s, tx[s]>>}]
                    ELSE [ended EXCEPT !.rolledBack = @ \cup {<<s, tx[s]>>}]
<1>7. PICK w \in {"kept", "undone"} :
        /\ trx' = [trx EXCEPT ![c] = None]
        /\ work' = SetWork(OpenWork(c), w)
        /\ ending' = [ending EXCEPT ![s] = None]
        /\ tx' = [tx EXCEPT ![s] = 0]
        /\ ended' = ended \/ (ended' = Ended /\ w = IF how = "commit" THEN "kept" ELSE "undone")
  BY <1>3, <1>6 DEF EndAnswered
<1>8. /\ tx'[s] = 0 /\ ending'[s] = None /\ trx'[c] = None
      /\ \A r \in Session \ {s} : tx'[r] = tx[r] /\ ending'[r] = ending[r]
      /\ \A d \in Conn \ {c} : trx'[d] = trx[d]
  BY <1>1, <1>7 DEF TypeOK
<1>9. tx[s] \in Nat \ {0} /\ <<s, tx[s]>> \in Transactions
  BY <1>1, <1>5, <1>6, NoneIs DEF SessionOK, TxOK, TypeOK, Transactions
<1>10. /\ ended' \in Ends /\ ended'.byServer = ended.byServer
       /\ \A t : t \in ended'.committed =>
            t \in ended.committed \/ (w = "kept" /\ t = <<s, tx[s]>>)
       /\ \A t : t \in ended'.rolledBack =>
            t \in ended.rolledBack \/ (w = "undone" /\ t = <<s, tx[s]>>)
       /\ ended.committed \subseteq ended'.committed /\ ended.rolledBack \subseteq ended'.rolledBack
  <2>1. PICK e \in Ends : e = ended BY <1>1 DEF TypeOK
  <2>2. CASE ended' = ended BY <2>1, <2>2
  <2>3. CASE ended' = Ended /\ how = "commit" /\ w = "kept"
    <3>1. ended' = [e EXCEPT !.committed = e.committed \cup {<<s, tx[s]>>}] BY <2>1, <2>3
    <3>2. /\ ended'.committed = e.committed \cup {<<s, tx[s]>>}
          /\ ended'.rolledBack = e.rolledBack /\ ended'.byServer = e.byServer
          /\ ended' \in Ends
      BY <1>9, <3>1 DEF Ends
    <3> QED BY <2>1, <2>3, <3>2
  <2>4. CASE ended' = Ended /\ how = "rollback" /\ w = "undone"
    <3>1. ended' = [e EXCEPT !.rolledBack = e.rolledBack \cup {<<s, tx[s]>>}] BY <2>1, <2>4
    <3>2. /\ ended'.rolledBack = e.rolledBack \cup {<<s, tx[s]>>}
          /\ ended'.committed = e.committed /\ ended'.byServer = e.byServer
          /\ ended' \in Ends
      BY <1>9, <3>1 DEF Ends
    <3> QED BY <2>1, <2>4, <3>2
  <2> QED BY <1>7, <2>2, <2>3, <2>4
<1>11. /\ work' \in [Batch -> Seq({"none", "open", "kept", "undone", "nothing"})]
       /\ \A b \in Batch : Len(work'[b]) = Len(work[b])
       /\ \A b \in Batch : \A i \in 1..Len(batch[b].ops) :
             work'[b][i] = IF <<b, i>> \in OpenWork(c) THEN w ELSE work[b][i]
       /\ \A b \in Batch : (\A i : <<b, i>> \notin OpenWork(c)) => work'[b] = work[b]
  BY <1>1, <1>7, SetWorkIs
<1>12. \A b \in Batch : \A i : <<b, i>> \in OpenWork(c) =>
         /\ batch[b].session = s
         /\ \E j \in 1..Len(batch[b].sent) : batch[b].sent[j] = [op |-> i, tx |-> tx[s]]
  <2> SUFFICES ASSUME NEW b \in Batch, NEW i, <<b, i>> \in OpenWork(c)
               PROVE /\ batch[b].session = s
                     /\ \E j \in 1..Len(batch[b].sent) : batch[b].sent[j] = [op |-> i, tx |-> tx[s]]
    OBVIOUS
  <2>1. trx[c] # None /\ <<b, i>> \in trx[c].work BY DEF OpenWork
  <2>2. TrxOK(s) BY <1>5, <2>1 DEF SessionOK, TxOK
  <2> QED BY <1>5, <2>1, <2>2 DEF TrxOK
<1>13. TypeOK' BY <1>1, <1>2, <1>3, <1>7, <1>10, <1>11 DEF TypeOK
<1>14. ConnsOK' /\ UnusedOK' BY <1>1, <1>2 DEF ConnsOK, UnusedOK, Fresh
<1>15. UnheldOK' BY <1>1, <1>2, <1>3, <1>5, <1>8, UnheldKeeps
<1>16. \A r \in Session \ {s} : Same(r)
  <2> SUFFICES ASSUME NEW r \in Session \ {s} PROVE Same(r)
    OBVIOUS
  <2>1. conn[r] # None => conn[r] \in Conn \ {c} BY <1>1, <1>5 DEF ConnsOK, TypeOK
  <2>2. \A b \in Batch : batch[b].session = r => work'[b] = work[b] BY <1>11, <1>12
  <2>3. \A t \in Transactions : t[1] = r => t # <<s, tx[s]>> OBVIOUS
  <2>4. Own(r) BY <1>2, <1>8, <1>10, <2>1, <2>2, <2>3 DEF Own
  <2> QED BY <1>3, <2>1, <2>4 DEF Same
<1>17. ~handler[s].firstTime BY <1>5, <1>6, NoneIs DEF SessionOK, HandlerOK, FirstOK
<1>18. HandlerOK(s)'
  BY <1>2, <1>5, <1>17 DEF SessionOK, HandlerOK, RunOK, PlaceOK, Runs, Does
<1>19. /\ WireOK(s)'
       /\ \A b, i : InFlight(s, b, i) => InFlight(s, b, i)'
  <2>1. ASSUME NEW p \in Queries, NEW j \in 2..Len(wire[c]), p = wire[c][j]
        PROVE QueryOK(s, p)'
    <3>1. j \in 1..Len(wire[conn[s]]) /\ 1 \in 1..Len(wire[conn[s]]) /\ j # 1 BY <1>3, <1>5
    <3>2. QueryOK(s, p) /\ OrderOK(s, j) BY <1>5, <2>1, <3>1 DEF WireOK
    <3>3. ~IsEnd(p)
      <4>1. \A i \in 1..Len(wire[conn[s]]), k \in 1..Len(wire[conn[s]]) :
              wire[conn[s]][i].what = wire[conn[s]][k].what /\ wire[conn[s]][i].what # "metadata" => i = k
        BY <1>5 DEF WireOK
      <4>2. p.what # how BY <1>3, <1>5, <2>1, <3>1, <4>1
      <4> QED BY <1>6, <3>2, <4>2 DEF QueryOK
    <3>4. p.what # "begin" BY <1>17, <3>2 DEF QueryOK
    <3>5. p.what = "op" => LastSent(p.for).tx = 0
      <4> SUFFICES ASSUME p.what = "op" PROVE LastSent(p.for).tx = 0
        OBVIOUS
      <4>1. EndBefore(s, j) BY <1>3, <1>4, <1>5 DEF EndBefore
      <4> QED BY <1>5, <2>1, <3>2, <4>1 DEF OrderOK
    <3>6. p.what = "op" => InFlightOK(s, p.for, p.op)'
      BY <1>2, <3>2, <3>5 DEF QueryOK, InFlightOK, LastSent, Runs
    <3>7. p.what = "setup" => p.for = s /\ status'[s] = "setup" BY <1>2, <3>2 DEF QueryOK
    <3> QED BY <3>3, <3>4, <3>6, <3>7 DEF QueryOK, IsEnd
  <2>2. \A p \in Queries, j \in 2..Len(wire[c]) : p = wire[c][j] =>
            /\ QueryOK(s, p)'
            /\ p.what = "op" =>
                 /\ batch'[p.for].sent = batch[p.for].sent
                 /\ trx'[c] = None \/ (trx'[c] = trx[c] /\ ~IsEnd(wire[c][1]))
    BY <1>2, <1>8, <2>1
  <2>3. /\ WireOK(s)'
        /\ \A b, i : InFlight(s, b, i) => InFlight(s, b, i)' \/ wire[c][1] = Query("op", b, i)
    BY <1>1, <1>2, <1>5, <2>2, WireTails
  <2>4. \A b, i : wire[c][1] # Query("op", b, i) BY <1>3 DEF Query
  <2> QED BY <2>3, <2>4
<1>20. TxOK(s)'
  <2>1. \A t \in begun \cup ended'.committed \cup ended'.rolledBack : t[1] = s => t[2] \in 1..nTx[s]
    <3> SUFFICES ASSUME NEW t \in begun \cup ended'.committed \cup ended'.rolledBack, t[1] = s
                 PROVE t[2] \in 1..nTx[s]
      OBVIOUS
    <3>1. CASE t \in begun \cup ended.committed \cup ended.rolledBack
      BY <1>5, <3>1 DEF SessionOK, TxOK
    <3>2. CASE t = <<s, tx[s]>>
      <4>1. tx[s] = nTx[s] BY <1>5, <1>9 DEF SessionOK, TxOK
      <4> QED BY <1>9, <3>2, <4>1
    <3> QED BY <1>10, <3>1, <3>2
  <2> QED BY <1>2, <1>5, <1>8, <2>1 DEF TxOK, FirstTx
<1>21. ASSUME NEW b \in Batch, batch[b].session = s PROVE BatchOK(s, b)'
  <2>1. BatchOK(s, b) BY <1>5, <1>21 DEF SessionOK
  <2> QED BY <1>2, <2>1, BatchSame
<1>22. ASSUME NEW b \in Batch, batch[b].session = s PROVE WorkOK(s, b)'
  <2>1. WorkOK(s, b) /\ BatchOK(s, b) BY <1>5, <1>22 DEF SessionOK
  <2>2. ASSUME NEW j \in 1..Len(batch[b].sent) PROVE SentOK(s, b, batch[b].sent[j])'
    <3>1. PICK e \in Sends : e = batch[b].sent[j] BY <1>1, BatchIs
    <3>2. SentOK(s, b, e) /\ e.op \in 1..Len(batch[b].ops) BY <2>1, <3>1 DEF WorkOK, BatchOK
    <3>3. <<s, 0>> \notin begun BY <1>1, <1>5, NotYet DEF SessionOK
    <3>4. CASE <<b, e.op>> \in OpenWork(c)
      <4>1. e.tx = tx[s]
        <5>1. PICK k \in 1..Len(batch[b].sent) : batch[b].sent[k] = [op |-> e.op, tx |-> tx[s]]
          BY <1>12, <3>4
        <5>2. k = j BY <2>1, <3>1, <5>1 DEF BatchOK
        <5> QED BY <3>1, <5>1, <5>2
      <4>2. work'[b][e.op] = w BY <1>11, <3>2, <3>4
      <4>3. <<s, tx[s]>> \notin ended.committed \cup ended.rolledBack
        BY <1>5, <1>9 DEF SessionOK, TxOK
      <4>4. <<s, tx[s]>> \in begun
        <5>1. trx[c] # None BY <3>4 DEF OpenWork
        <5> QED BY <1>5, <5>1 DEF SessionOK, TxOK, TrxOK
      <4> QED BY <1>2, <1>8, <1>9, <1>10, <3>1, <4>1, <4>2, <4>3, <4>4 DEF SentOK
    <3>5. CASE <<b, e.op>> \notin OpenWork(c)
      <4>1. work'[b][e.op] = work[b][e.op] BY <1>11, <3>2, <3>5
      <4>2. <<s, e.tx>> \in begun \ ended.byServer /\ e.tx = tx[s] => work[b][e.op] = "nothing"
        <5> SUFFICES ASSUME <<s, e.tx>> \in begun \ ended.byServer, e.tx = tx[s],
                            work[b][e.op] # "nothing"
                     PROVE FALSE
          OBVIOUS
        <5>1. CASE work[b][e.op] = "open"
          <6>1. trx[conn[s]] # None BY <1>5, <1>9 DEF SessionOK, TxOK
          <6> QED BY <1>5, <3>2, <3>5, <5>1, <6>1 DEF SentOK, OpenWork
        <5>2. CASE work[b][e.op] = "none"
          <6>1. PICK k \in 1..Len(wire[c]) : wire[c][k] = Query("op", b, e.op)
            BY <1>5, <3>2, <5>2 DEF SentOK, InFlight
          <6>2. wire[c][k].what = "op" /\ wire[c][k].for = b /\ wire[c][k].op = e.op
            BY <6>1 DEF Query
          <6>3. QueryOK(s, wire[c][k]) /\ OrderOK(s, k) BY <1>5, <6>1 DEF WireOK
          <6>4. LastSent(b).op = e.op /\ batch[b].sent # <<>>
            BY <6>2, <6>3 DEF QueryOK, InFlightOK
          <6>5. LastSent(b) = e
            <7>1. Len(batch[b].sent) \in 1..Len(batch[b].sent) BY <1>1, <6>4, BatchIs
            <7> QED BY <2>1, <3>1, <6>4, <7>1 DEF BatchOK, LastSent
          <6>6. k # 1 BY <1>3, <6>2
          <6>7. EndBefore(s, k)
            <7>1. 1 \in 1..(k - 1) /\ wire[conn[s]][1] = wire[c][1] BY <1>3, <1>5, <6>6
            <7> QED BY <1>4, <7>1 DEF EndBefore
          <6> QED BY <1>5, <1>9, <6>2, <6>3, <6>5, <6>7 DEF OrderOK
        <5> QED BY <3>2, <5>1, <5>2 DEF SentOK
      <4>3. e.tx = 0 => <<s, e.tx>> \notin begun BY <3>3
      <4>4. <<s, e.tx>> \in begun => (e.tx = tx[s] \/ <<s, e.tx>> # <<s, tx[s]>>) OBVIOUS
      <4> QED BY <1>2, <1>8, <1>10, <3>1, <3>2, <4>1, <4>2, <4>3, <4>4 DEF SentOK
    <3> QED BY <3>4, <3>5
  <2>3. ASSUME NEW i \in 1..Len(batch[b].ops),
               \A j \in 1..Len(batch[b].sent) : batch[b].sent[j].op # i
        PROVE work'[b][i] = "none"
    <3>1. \A j \in 1..Len(batch[b].sent) : batch[b].sent[j] # [op |-> i, tx |-> tx[s]] BY <2>3
    <3>2. <<b, i>> \notin OpenWork(c) BY <1>12, <3>1
    <3> QED BY <1>11, <2>1, <2>3, <3>2 DEF WorkOK
  <2> QED BY <1>2, <2>2, <2>3 DEF WorkOK
<1>23. LossOK(s)' BY <1>2, <1>8, <1>22, NoLoss
<1>24. SessionOK(s)' BY <1>2, <1>18, <1>19, <1>20, <1>21, <1>22, <1>23 DEF SessionOK
<1> QED BY <1>13, <1>14, <1>15, <1>16, <1>24, OthersKeep

\* The server ends a transaction by itself.
LEMMA EndsByItselfKeeps ==
  ASSUME IInv, NEW c \in Conn, NEW open \in {"kept", "undone"}, NEW ops, EndsByItself(c, open, ops),
         \A b, i : <<b, i>> \in ops =>
           Head(wire[c]).what = "op" /\ Head(wire[c]).for = b /\ Head(wire[c]).op = i,
         open = "undone" => \E b \in Batch, i \in Nat : <<b, i>> \in ops
  PROVE IInv'
<1>1. TypeOK /\ ConnsOK /\ UnheldOK /\ UnusedOK BY DEF IInv
<1>2. /\ UNCHANGED <<free, wire, begun, status, conn, autocommit, handler, turn, batch, apiVars, lookup>>
      /\ free' = free /\ wire' = wire /\ begun' = begun /\ conn' = conn /\ batch' = batch
      /\ tx' = tx /\ nTx' = nTx /\ ending' = ending
      /\ trx' = [trx EXCEPT ![c] = None] /\ trx[c] # None /\ wire[c] # <<>>
      /\ work' = [b \in Batch |-> [i \in DOMAIN work[b] |->
                    IF <<b, i>> \in OpenWork(c) THEN open
                    ELSE IF <<b, i>> \in ops THEN "nothing" ELSE work[b][i]]]
      /\ ended' = [ended EXCEPT !.byServer = @ \cup {trx[c].tx}]
  BY DEF EndsByItself, apiVars
<1>3. PICK s \in Session : conn[s] = c /\ conn[s] # None /\ SessionOK(s) /\ WireOK(s)
  <2>1. PICK s \in Session : conn[s] = c BY <1>1, <1>2 DEF UnheldOK, Unheld
  <2> QED BY <2>1, NoneIs DEF IInv, SessionOK
<1>4. TrxOK(s) /\ OpenWork(c) = trx[c].work BY <1>2, <1>3 DEF SessionOK, TxOK, OpenWork
<1>5. PICK t \in Transactions : t = <<s, tx[s]>> BY <1>1 DEF TypeOK, Transactions
<1>6. tx[s] # 0 /\ t \in begun /\ trx[c].tx = t BY <1>3, <1>4, <1>5 DEF TrxOK
<1>7. /\ ended' \in Ends /\ ended'.byServer = ended.byServer \cup {t}
      /\ ended'.committed = ended.committed /\ ended'.rolledBack = ended.rolledBack
  <2>1. PICK e \in Ends : e = ended BY <1>1 DEF TypeOK
  <2>2. ended' = [e EXCEPT !.byServer = e.byServer \cup {t}] BY <1>2, <1>6, <2>1
  <2> QED BY <2>1, <2>2 DEF Ends
<1>8. trx'[c] = None /\ \A d \in Conn \ {c} : trx'[d] = trx[d] BY <1>1, <1>2 DEF TypeOK
<1>9. \A b \in Batch : \A i : <<b, i>> \in OpenWork(c) =>
        /\ batch[b].session = s
        /\ \E j \in 1..Len(batch[b].sent) : batch[b].sent[j] = [op |-> i, tx |-> tx[s]]
  BY <1>3, <1>4 DEF TrxOK
<1>10. \A b \in Batch : \A i : <<b, i>> \in ops =>
         /\ batch[b].session = s /\ InFlight(s, b, i)
         /\ batch[b].sent # <<>> /\ LastSent(b).op = i
  <2> SUFFICES ASSUME NEW b \in Batch, NEW i, <<b, i>> \in ops
               PROVE /\ batch[b].session = s /\ InFlight(s, b, i)
                     /\ batch[b].sent # <<>> /\ LastSent(b).op = i
    OBVIOUS
  <2>1. PICK q \in Queries : q = Head(wire[c]) /\ q = wire[c][1] /\ 1 \in 1..Len(wire[c])
    <3>1. wire[c] \in Seq(Queries) BY <1>1 DEF TypeOK
    <3> QED BY <1>2, <3>1
  <2>2. q.what = "op" /\ q.for = b /\ q.op = i BY <2>1
  <2>3. InFlightOK(s, b, i) BY <1>3, <2>1, <2>2 DEF WireOK, QueryOK
  <2>4. q = Query("op", b, i) BY <2>2 DEF Queries, Query
  <2>5. InFlight(s, b, i) BY <1>3, <2>1, <2>4 DEF InFlight
  <2> QED BY <2>3, <2>5 DEF InFlightOK
<1> DEFINE W == {"none", "open", "kept", "undone", "nothing"}
<1>11. ASSUME NEW b \in Batch
       PROVE /\ work'[b] \in Seq(W) /\ Len(work'[b]) = Len(work[b])
             /\ \A i \in 1..Len(batch[b].ops) :
                  work'[b][i] = IF <<b, i>> \in OpenWork(c) THEN open
                                ELSE IF <<b, i>> \in ops THEN "nothing" ELSE work[b][i]
             /\ batch[b].session # s => work'[b] = work[b]
  <2>1. PICK w \in Seq(W) : w = work[b] BY <1>1 DEF TypeOK
  <2>2. Len(w) = Len(batch[b].ops) /\ DOMAIN w = 1..Len(w) /\ Len(w) \in Nat
    BY <1>1, <2>1 DEF TypeOK
  <2>3. work'[b] = [i \in 1..Len(w) |-> IF <<b, i>> \in OpenWork(c) THEN open
                                        ELSE IF <<b, i>> \in ops THEN "nothing" ELSE w[i]]
    BY <1>2, <2>1, <2>2
  <2>4. \A i \in 1..Len(w) : w[i] \in W OBVIOUS
  <2>5. \A i \in 1..Len(w) : (IF <<b, i>> \in OpenWork(c) THEN open
                              ELSE IF <<b, i>> \in ops THEN "nothing" ELSE w[i]) \in W
    BY <2>4
  <2> HIDE DEF W
  <2>6. work'[b] \in Seq(W) /\ Len(work'[b]) = Len(w) BY <2>2, <2>3, <2>5
  <2>7. ASSUME batch[b].session # s PROVE work'[b] = w
    <3>1. \A i : <<b, i>> \notin OpenWork(c) /\ <<b, i>> \notin ops BY <1>9, <1>10, <2>7
    <3> QED BY <2>2, <2>3, <3>1
  <2> QED BY <2>1, <2>2, <2>3, <2>6, <2>7
<1>12. work' \in [Batch -> Seq(W)]
  <2>1. work' = [b \in Batch |-> work'[b]] BY <1>2
  <2> QED BY <1>11, <2>1
<1>13. TypeOK' BY <1>1, <1>2, <1>7, <1>11, <1>12 DEF TypeOK, EndsByItself
<1>14. ConnsOK' /\ UnusedOK' BY <1>1, <1>2 DEF ConnsOK, UnusedOK, Fresh
<1>15. UnheldOK' BY <1>1, <1>2, <1>3, <1>8, UnheldKeeps
<1>16. \A r \in Session \ {s} : Same(r)
  <2> SUFFICES ASSUME NEW r \in Session \ {s} PROVE Same(r)
    OBVIOUS
  <2>1. conn[r] # None => conn[r] \in Conn \ {c} BY <1>1, <1>3 DEF ConnsOK, TypeOK
  <2>2. \A b \in Batch : batch[b].session = r => work'[b] = work[b] BY <1>11
  <2>3. \A u \in Transactions : u[1] = r => u # t BY <1>5
  <2>4. Own(r) BY <1>2, <1>7, <1>8, <2>1, <2>2, <2>3 DEF Own
  <2> QED BY <1>2, <2>4 DEF Same
<1>17. HandlerOK(s)'
  BY <1>2, <1>3 DEF SessionOK, HandlerOK, FirstOK, RunOK, PlaceOK, Runs, Does, BeginSent, Fresh
<1>18. WireOK(s)'
  <2>1. ASSUME NEW j \in 1..Len(wire[c]) PROVE QueryOK(s, wire[c][j])' /\ OrderOK(s, j)'
    <3>1. QueryOK(s, wire[c][j]) /\ OrderOK(s, j) BY <1>3, <2>1 DEF WireOK
    <3>2. QueryOK(s, wire[c][j])'
      BY <1>2, <3>1 DEF QueryOK, InFlightOK, LastSent, Runs, IsEnd
    <3>3. EndBefore(s, j)' <=> EndBefore(s, j) BY <1>2 DEF EndBefore
    <3>4. OrderOK(s, j)' BY <1>2, <1>3, <1>8, <3>1, <3>3 DEF OrderOK, LastSent
    <3> QED BY <3>2, <3>4
  <2> QED BY <1>2, <1>3, <2>1 DEF WireOK
<1>19. TxOK(s)'
  <2>1. EndSent(s)' <=> EndSent(s) BY <1>2 DEF EndSent
  <2> QED BY <1>2, <1>3, <1>5, <1>7, <1>8, <2>1 DEF SessionOK, TxOK, FirstTx
<1>20. ASSUME NEW b \in Batch, batch[b].session = s PROVE BatchOK(s, b)'
  <2>1. BatchOK(s, b) BY <1>3, <1>20 DEF SessionOK
  <2> QED BY <1>2, <2>1, BatchSame
<1>21. ASSUME NEW b \in Batch, batch[b].session = s PROVE WorkOK(s, b)'
  <2>1. WorkOK(s, b) /\ BatchOK(s, b) BY <1>3, <1>21 DEF SessionOK
  <2>2. ASSUME NEW j \in 1..Len(batch[b].sent) PROVE SentOK(s, b, batch[b].sent[j])'
    <3>1. PICK e \in Sends : e = batch[b].sent[j] BY <1>1, BatchIs
    <3>2. SentOK(s, b, e) /\ e.op \in 1..Len(batch[b].ops) BY <2>1, <3>1 DEF WorkOK, BatchOK
    <3>3. InFlight(s, b, e.op)' <=> InFlight(s, b, e.op) BY <1>2 DEF InFlight
    <3>4. <<s, e.tx>> = t <=> e.tx = tx[s] BY <1>5
    <3>5. CASE <<b, e.op>> \in OpenWork(c)
      <4>1. e.tx = tx[s]
        <5>1. PICK k \in 1..Len(batch[b].sent) : batch[b].sent[k] = [op |-> e.op, tx |-> tx[s]]
          BY <1>9, <3>5
        <5>2. k = j BY <2>1, <3>1, <5>1 DEF BatchOK
        <5> QED BY <3>1, <5>1, <5>2
      <4>2. work'[b][e.op] = open BY <1>11, <3>2, <3>5
      <4>3. SentOK(s, b, e)' BY <1>2, <1>6, <1>7, <3>4, <4>1, <4>2 DEF SentOK
      <4> QED BY <1>2, <3>1, <4>3 DEF SentOK, InFlight
    <3>6. CASE <<b, e.op>> \notin OpenWork(c) /\ <<b, e.op>> \in ops
      <4>1. work'[b][e.op] = "nothing" BY <1>11, <3>2, <3>6
      <4>2. SentOK(s, b, e)' BY <4>1 DEF SentOK
      <4> QED BY <1>2, <3>1, <4>2 DEF SentOK, InFlight
    <3>7. CASE <<b, e.op>> \notin OpenWork(c) /\ <<b, e.op>> \notin ops
      <4>1. work'[b][e.op] = work[b][e.op] BY <1>11, <3>2, <3>7
      <4>2. <<s, e.tx>> \in begun /\ e.tx = tx[s] => work[b][e.op] # "open"
        BY <1>3, <1>4, <3>2, <3>7 DEF SentOK
      <4>3. SentOK(s, b, e)' BY <1>2, <1>7, <3>2, <3>3, <3>4, <4>1, <4>2 DEF SentOK
      <4> QED BY <1>2, <3>1, <4>3 DEF SentOK, InFlight
    <3> QED BY <3>5, <3>6, <3>7
  <2>3. ASSUME NEW i \in 1..Len(batch[b].ops),
               \A j \in 1..Len(batch[b].sent) : batch[b].sent[j].op # i
        PROVE work'[b][i] = "none"
    <3>1. \A j \in 1..Len(batch[b].sent) : batch[b].sent[j] # [op |-> i, tx |-> tx[s]] BY <2>3
    <3>2. <<b, i>> \notin OpenWork(c) BY <1>9, <3>1
    <3>3. <<b, i>> \notin ops
      <4>1. batch[b].sent # <<>> => Len(batch[b].sent) \in 1..Len(batch[b].sent) BY <1>1, BatchIs
      <4> QED BY <1>10, <2>3, <4>1 DEF LastSent
    <3> QED BY <1>11, <2>1, <2>3, <3>2, <3>3 DEF WorkOK
  <2> QED BY <1>2, <2>2, <2>3 DEF WorkOK
<1>22. LossOK(s)'
  <2>1. ASSUME Noticed(s) PROVE Noticed(s)'
    <3>1. CASE RollbackOnly(s)
      <4>1. RollbackOnly(s)' BY <1>2, <3>1 DEF RollbackOnly, InTx
      <4> QED BY <4>1 DEF Noticed
    <3>2. ASSUME NEW b \in Batch, NEW i \in 1..Len(batch[b].ops), InFlight(s, b, i),
                 work[b][i] # "none"
          PROVE Noticed(s)'
      <4>1. InFlight(s, b, i)' BY <1>2, <3>2 DEF InFlight
      <4>2. work'[b][i] # "none" BY <1>11, <3>2
      <4> QED BY <1>2, <3>2, <4>1, <4>2 DEF Noticed
    <3> QED BY <2>1, <3>1, <3>2 DEF Noticed
  <2>2. ASSUME NEW b \in Batch, NEW i \in Nat, <<b, i>> \in ops PROVE Noticed(s)'
    <3>1. PICK k \in 1..Len(batch[b].sent) : batch[b].sent[k].op = i
      <4>1. Len(batch[b].sent) \in 1..Len(batch[b].sent) BY <1>1, <1>10, <2>2, BatchIs
      <4> QED BY <1>10, <2>2, <4>1 DEF LastSent
    <3>2. i \in 1..Len(batch[b].ops) BY <1>3, <1>10, <2>2, <3>1 DEF SessionOK, BatchOK
    <3>3. work'[b][i] # "none" BY <1>11, <2>2, <3>2
    <3>4. InFlight(s, b, i)' BY <1>2, <1>10, <2>2 DEF InFlight
    <3> QED BY <1>2, <3>2, <3>3, <3>4 DEF Noticed
  <2>3. ASSUME ending[s] = None, NEW b \in Batch, batch[b].session = s, NEW j \in 1..Len(batch[b].sent),
               Loss(s, b, batch[b].sent[j])', open = "kept"
        PROVE Noticed(s)'
    <3>1. PICK e \in Sends : e = batch[b].sent[j] BY <1>1, BatchIs
    <3>2. e.op \in 1..Len(batch[b].ops) BY <1>3, <2>3, <3>1 DEF SessionOK, BatchOK
    <3>3. e.tx = tx[s] /\ work'[b][e.op] = "undone" BY <1>2, <2>3, <3>1 DEF Loss
    <3>7. work'[b][e.op] = IF <<b, e.op>> \in OpenWork(c) THEN open
                           ELSE IF <<b, e.op>> \in ops THEN "nothing" ELSE work[b][e.op]
      BY <1>11, <3>2
    <3>8. open = "kept" BY <2>3
    <3>4. work[b][e.op] = "undone" BY <3>3, <3>7, <3>8
    <3>5. Loss(s, b, batch[b].sent[j]) BY <3>1, <3>3, <3>4 DEF Loss
    <3>6. Noticed(s) BY <1>3, <2>3, <3>5 DEF SessionOK, LossOK
    <3> QED BY <2>1, <3>6
  <2> QED BY <1>2, <2>2, <2>3 DEF LossOK
<1>23. SessionOK(s)' BY <1>2, <1>17, <1>18, <1>19, <1>20, <1>21, <1>22 DEF SessionOK
<1> QED BY <1>13, <1>14, <1>15, <1>16, <1>23, OthersKeep

LEMMA RollsBackKeeps ==
  ASSUME IInv, NEW c \in Conn, RollsBack(c)
  PROVE IInv'
<1>1. PICK q \in Queries : q = Head(wire[c]) /\ q.what = "op"
  <2>1. wire[c] \in Seq(Queries) /\ wire[c] # <<>> BY DEF IInv, TypeOK, RollsBack
  <2> QED BY <2>1 DEF RollsBack
<1>2. q.for \in Batch /\ q.op \in Nat BY <1>1 DEF Queries
<1>3. PICK ops : ops = {<<q.for, q.op>>} OBVIOUS
<1>4. EndsByItself(c, "undone", ops) BY <1>1, <1>3 DEF RollsBack
<1>5. \A b, i : <<b, i>> \in ops => b = q.for /\ i = q.op BY <1>3
<1> QED BY <1>1, <1>2, <1>3, <1>4, <1>5, EndsByItselfKeeps

LEMMA CommitsImplicitlyKeeps ==
  ASSUME IInv, NEW c \in Conn, CommitsImplicitly(c)
  PROVE IInv'
BY EndsByItselfKeeps DEF CommitsImplicitly

LEMMA BeginAnsweredKeeps ==
  ASSUME IInv, NEW c \in Conn, BeginAnswered(c)
  PROVE IInv'
<1>1. TypeOK /\ ConnsOK /\ UnheldOK /\ UnusedOK BY DEF IInv
<1>2. /\ UNCHANGED <<free, ended, status, conn, autocommit, apiVars, lookup>>
      /\ conn' = conn /\ tx' = tx /\ nTx' = nTx /\ ending' = ending /\ Answered(c, "begin")
  BY DEF BeginAnswered, apiVars
<1>3. /\ wire' \in [Conn -> Seq(Queries)]
      /\ \A d \in Conn \ {c} : wire'[d] = wire[d]
      /\ Len(wire[c]) \in Nat \ {0} /\ Len(wire'[c]) = Len(wire[c]) - 1
      /\ \A j \in 1..Len(wire[c]) : wire[c][j] \in Queries
      /\ Head(wire[c]) = wire[c][1] /\ wire[c][1] \in Queries /\ wire[c][1].what = "begin"
      /\ turn = None
  BY <1>1, <1>2, Tails
<1>4. PICK s \in Session : conn[s] = c /\ conn[s] # None /\ SessionOK(s) /\ WireOK(s)
                           /\ QueryOK(s, wire[c][1])
  <2>1. 1 \in 1..Len(wire[c]) /\ wire[c][1].what # "metadata" BY <1>3
  <2> QED BY <2>1, Holder
<1>5. /\ wire[c][1].for = s /\ wire[c][1].op = tx[s] /\ handler[s].firstTime
      /\ handler[s] \in Handlers
  BY <1>1, <1>3, <1>4 DEF QueryOK, TypeOK
<1>6. PICK b \in Batch : b = handler[s].operationsList /\ batch[b].session = s
  BY <1>3, <1>4, <1>5 DEF QueryOK, Handlers
<1>7. /\ handler[s].exists /\ handler[s].numberOfOperations = 0 /\ handler[s].executed = 0
      /\ tx[s] # 0 /\ ending[s] = None /\ status[s] = "open"
      /\ \A t \in begun : t[1] # s
      /\ \A x \in Batch : batch[x].session = s => x = b
      /\ Fresh(b) /\ batch[b].tx = tx[s]
  BY <1>4, <1>5, <1>6 DEF SessionOK, HandlerOK, FirstOK
<1> DEFINE t == <<s, tx[s]>>
<1>8. t \in Transactions /\ t \notin begun /\ trx[c] = None
  BY <1>1, <1>4, <1>7 DEF Transactions, TypeOK, SessionOK, TxOK, TrxOK
<1>9. /\ handler' = [handler EXCEPT ![s].firstTime = FALSE]
      /\ turn' = [session |-> s, does |-> "operations"]
      /\ \/ /\ trx' = [trx EXCEPT ![c] = [tx |-> t, work |-> {}]]
            /\ work' = SetWork({}, "kept") /\ begun' = begun \cup {t} /\ batch' = batch
         \/ /\ batch' = [batch EXCEPT ![b].done = Append(@, "notBegun")]
            /\ trx' = trx /\ work' = work /\ begun' = begun
  BY <1>3, <1>5, <1>6, <1>8 DEF BeginAnswered, OpenWork
<1>10. work' \in [Batch -> Seq({"none", "open", "kept", "undone", "nothing"})]
       /\ \A x \in Batch : work'[x] = work[x]
  BY <1>1, <1>9, SetWorkIs DEF TypeOK
<1>11. [tx |-> t, work |-> {}] \in ServerTransactions /\ [tx |-> t, work |-> {}] # None
       /\ [tx |-> t, work |-> {}].work = {} /\ [tx |-> t, work |-> {}].tx = t
  <2>1. [tx |-> t, work |-> {}] \in ServerTransactions BY <1>8 DEF ServerTransactions, Transactions
  <2> QED BY <2>1, NoneIs
<1>12. /\ trx' \in [Conn -> ServerTransactions \cup {None}]
       /\ \A d \in Conn \ {c} : trx'[d] = trx[d]
       /\ \/ begun' = begun /\ trx'[c] = None
          \/ begun' = begun \cup {t} /\ trx'[c] = [tx |-> t, work |-> {}]
  <2>1. CASE trx' = [trx EXCEPT ![c] = [tx |-> t, work |-> {}]] /\ begun' = begun \cup {t}
    BY <1>1, <1>11, <2>1 DEF TypeOK
  <2>2. CASE trx' = trx /\ begun' = begun BY <1>1, <1>8, <2>2 DEF TypeOK
  <2> QED BY <1>9, <2>1, <2>2
<1>13. PICK r \in Batches : batch' = [batch EXCEPT ![b] = r]
        /\ r.session = s /\ r.ops = batch[b].ops /\ r.tx = tx[s] /\ r.sent = <<>> /\ r.answers = <<>>
        /\ r.waited = batch[b].waited /\ ~r.failed
        /\ r.done \in {<<>>, <<"notBegun">>}
  <2>1. batch[b] \in Batches /\ "notBegun" \in Calls BY <1>1, BatchIs DEF Calls
  <2>2. CASE batch' = batch
    <3>1. batch' = [batch EXCEPT ![b] = batch[b]] BY <1>1, <2>2 DEF TypeOK
    <3> QED BY <1>6, <1>7, <2>1, <3>1 DEF Fresh
  <2>3. CASE batch' = [batch EXCEPT ![b].done = Append(@, "notBegun")]
    <3>1. batch' = [batch EXCEPT ![b] = [batch[b] EXCEPT !.done = <<"notBegun">>]]
      BY <1>7, <2>3 DEF Fresh
    <3>2. <<"notBegun">> \in Seq(Calls) BY <2>1
    <3>3. PICK o \in Batches : o = batch[b] BY <2>1
    <3>4. [o EXCEPT !.done = <<"notBegun">>] \in Batches BY <3>2 DEF Batches
    <3>5. /\ [o EXCEPT !.done = <<"notBegun">>].done = <<"notBegun">>
          /\ [o EXCEPT !.done = <<"notBegun">>].session = o.session
          /\ [o EXCEPT !.done = <<"notBegun">>].ops = o.ops
          /\ [o EXCEPT !.done = <<"notBegun">>].tx = o.tx
          /\ [o EXCEPT !.done = <<"notBegun">>].sent = o.sent
          /\ [o EXCEPT !.done = <<"notBegun">>].answers = o.answers
          /\ [o EXCEPT !.done = <<"notBegun">>].waited = o.waited
          /\ [o EXCEPT !.done = <<"notBegun">>].failed = o.failed
      BY DEF Batches
    <3> QED BY ZenonT(60), <1>6, <1>7, <2>3, <3>1, <3>3, <3>4, <3>5 DEF Fresh
  <2> QED BY <1>9, <2>2, <2>3
<1>14. /\ batch'[b] = r /\ \A x \in Batch \ {b} : batch'[x] = batch[x]
       /\ batch' \in [Batch -> Batches]
  BY <1>1, <1>13 DEF TypeOK
<1>15. PICK h \in Handlers : h = [handler[s] EXCEPT !.firstTime = FALSE] BY <1>5 DEF Handlers
<1>16. /\ handler'[s] = h /\ \A x \in Session \ {s} : handler'[x] = handler[x]
       /\ handler' \in [Session -> Handlers]
       /\ h.exists /\ ~h.firstTime /\ h.numberOfOperations = 0 /\ h.executed = 0
       /\ h.operationsList = b /\ h.pendingBatches = handler[s].pendingBatches
       /\ h.error = handler[s].error
  BY <1>1, <1>5, <1>6, <1>7, <1>9, <1>15 DEF TypeOK, Handlers
<1>17. /\ turn' \in Turns /\ turn' # None /\ Does(s, "operations")' /\ Runs(s)'
       /\ \A x \in Session \ {s} : ~Runs(x)'
  BY <1>9, TurnIs DEF Does, Runs
<1>18. begun' \subseteq Transactions /\ \A x \in begun' : x \in begun \/ x = t
  BY <1>1, <1>8, <1>12 DEF TypeOK
<1>19. TypeOK'
  BY <1>1, <1>2, <1>3, <1>10, <1>12, <1>13, <1>14, <1>16, <1>17, <1>18 DEF TypeOK
<1>20. ConnsOK' BY <1>1, <1>2 DEF ConnsOK
<1>21. UnusedOK' BY <1>1, <1>13, <1>14, NoneIs DEF UnusedOK, Fresh
<1>22. UnheldOK' BY <1>1, <1>2, <1>3, <1>4, <1>12, UnheldKeeps
<1>23. \A x \in Session \ {s} : Same(x)
  <2> SUFFICES ASSUME NEW x \in Session \ {s} PROVE Same(x)
    OBVIOUS
  <2>1. conn[x] # None => conn[x] \in Conn \ {c} BY <1>1, <1>4 DEF ConnsOK, TypeOK
  <2>2. \A y \in Transactions : y[1] = x => (y \in begun' <=> y \in begun) BY <1>12
  <2>3. ~Runs(x) BY <1>3 DEF Runs
  <2>4. Own(x)
    BY <1>2, <1>6, <1>10, <1>12, <1>13, <1>14, <1>16, <1>17, <2>1, <2>2, <2>3 DEF Own
  <2> QED BY <1>3, <2>1, <2>4 DEF Same
<1>24. RunOK(s)' BY <1>2, <1>6, <1>7, <1>13, <1>14, <1>16, <1>17, NoneIs DEF RunOK
<1>25. HandlerOK(s)'
  <2>1. \A j \in 1..Len(h.pendingBatches) : batch'[h.pendingBatches[j]].session = s
    <3> SUFFICES ASSUME NEW j \in 1..Len(h.pendingBatches)
                 PROVE batch'[h.pendingBatches[j]].session = s
      OBVIOUS
    <3>1. PICK x \in Batch : x = h.pendingBatches[j] BY DEF Handlers
    <3>2. batch[x].session = s BY <1>4, <1>16, <3>1 DEF SessionOK, HandlerOK
    <3> QED BY <1>13, <1>14, <3>1, <3>2
  <2>2. \A i, j \in 1..Len(h.pendingBatches) : h.pendingBatches[i] = h.pendingBatches[j] => i = j
    BY <1>4, <1>16 DEF SessionOK, HandlerOK
  <2> QED BY <1>16, <1>24, <2>1, <2>2 DEF HandlerOK
<1>26. WireOK(s)'
  <2>1. ASSUME NEW p \in Queries, NEW j \in 2..Len(wire[c]), p = wire[c][j]
        PROVE p.what = "metadata"
    <3>1. j \in 1..Len(wire[conn[s]]) /\ 1 \in 1..Len(wire[conn[s]]) /\ j # 1 BY <1>3, <1>4
    <3>2. QueryOK(s, p) BY <1>4, <2>1, <3>1 DEF WireOK
    <3>3. ~IsEnd(p) BY <1>7, <3>2, NoneIs DEF QueryOK, IsEnd
    <3>4. \A i \in 1..Len(wire[conn[s]]), k \in 1..Len(wire[conn[s]]) :
            wire[conn[s]][i].what = wire[conn[s]][k].what /\ wire[conn[s]][i].what # "metadata" => i = k
      BY <1>4 DEF WireOK
    <3>5. p.what # "begin" BY <1>3, <1>4, <2>1, <3>1, <3>4
    <3>6. p.what # "setup" /\ p.what # "op" BY <1>7, <3>2 DEF QueryOK, InFlightOK
    <3> QED BY <3>3, <3>5, <3>6 DEF Queries, IsEnd
  <2>2. \A p \in Queries, j \in 2..Len(wire[c]) : p = wire[c][j] =>
            /\ QueryOK(s, p)'
            /\ p.what = "op" =>
                 /\ batch'[p.for].sent = batch[p.for].sent
                 /\ trx'[c] = None \/ (trx'[c] = trx[c] /\ ~IsEnd(wire[c][1]))
    BY <2>1 DEF QueryOK, IsEnd
  <2> QED BY <1>1, <1>2, <1>4, <2>2, WireTails
<1>27. TxOK(s)'
  <2>1. tx[s] \in {0, nTx[s]} /\ t \notin ended.committed \cup ended.rolledBack
    BY <1>4, <1>7 DEF SessionOK, TxOK
  <2>2. t \in begun' => trx'[c] # None BY <1>8, <1>11, <1>12
  <2>3. trx'[c] # None => TrxOK(s)'
    BY <1>2, <1>4, <1>7, <1>11, <1>12 DEF TrxOK
  <2>4. \A x \in begun' \cup ended.committed \cup ended.rolledBack : x[1] = s => x[2] \in 1..nTx[s]
    <3>1. t[2] \in 1..nTx[s]
      <4>1. t[2] = nTx[s] /\ nTx[s] \in Nat \ {0} BY <1>1, <1>7, <2>1 DEF TypeOK
      <4> QED BY <4>1
    <3> QED BY <1>4, <1>18, <3>1 DEF SessionOK, TxOK
  <2>5. FirstTx(s)' BY <1>2, <1>7, <1>13, <1>14 DEF FirstTx
  <2> QED BY <1>2, <1>4, <1>7, <1>16, <2>1, <2>2, <2>3, <2>4, <2>5 DEF TxOK
<1>28. BatchOK(s, b)' /\ WorkOK(s, b)'
  <2>1. BatchOK(s, b) /\ WorkOK(s, b) BY <1>4, <1>6 DEF SessionOK
  <2>2. ~Waits(s, b)' BY ZenonT(40), <1>5, <1>6, <1>16, <2>1 DEF BatchOK, Waits, Current
  <2>3. \A j \in 1..Len(r.done) : j = 1 /\ r.done[j] = "notBegun"
    <3>1. CASE r.done = <<>> BY <3>1
    <3>2. CASE r.done = <<"notBegun">> BY <3>2
    <3> QED BY <1>13, <3>1, <3>2
  <2>4. DoneOK(s, b)' BY <1>14, <2>3 DEF DoneOK
  <2>8. ErrorOK(s, b)'
    <3>1. Current(s, b) BY <1>5, <1>6 DEF Current
    <3>2. Erred(s)' => Erred(s) BY <1>9, <1>16 DEF Erred, Does
    <3>3. ErrorOK(s, b) BY <2>1 DEF BatchOK
    <3> QED BY <1>7, <1>13, <1>14, <2>3, <3>1, <3>2, <3>3 DEF ErrorOK, Fresh
  <2>5. BatchOK(s, b)' BY <1>13, <1>14, <2>1, <2>2, <2>4, <2>8 DEF BatchOK
  <2>6. \A i \in 1..Len(batch[b].ops) : work[b][i] = "none" BY <1>7, <2>1 DEF WorkOK, Fresh
  <2>7. WorkOK(s, b)' BY <1>10, <1>13, <1>14, <2>6 DEF WorkOK
  <2> QED BY <2>5, <2>7
<1>29. \A x \in Batch : batch'[x].session = s => x = b BY <1>7, <1>14
<1>30. LossOK(s)' BY <1>13, <1>14, <1>29 DEF LossOK
<1>31. SessionOK(s)' BY <1>25, <1>26, <1>27, <1>28, <1>29, <1>30 DEF SessionOK
<1> QED BY <1>19, <1>20, <1>21, <1>22, <1>23, <1>31, OthersKeep

LEMMA BatchAlike ==
  ASSUME NEW s, NEW x, BatchOK(s, x), batch'[x] = batch[x],
         Current(s, x)' => Current(s, x) /\ (Erred(s)' <=> Erred(s)), Waits(s, x)' => Waits(s, x)
  PROVE BatchOK(s, x)'
<1>1. Fresh(x)' <=> Fresh(x) BY DEF Fresh
<1>2. DoneOK(s, x)' BY DEF BatchOK, DoneOK
<1>3. ErrorOK(s, x)' BY DEF BatchOK, ErrorOK
<1> QED BY <1>1, <1>2, <1>3 DEF BatchOK

LEMMA WorkAlike ==
  ASSUME NEW s, NEW x, WorkOK(s, x), work'[x] = work[x],
         batch'[x].sent = batch[x].sent, batch'[x].ops = batch[x].ops, begun' = begun, ended' = ended, tx'[s] = tx[s],
         \A i : InFlight(s, x, i) => InFlight(s, x, i)',
         trx[conn[s]] # None => trx'[conn'[s]] # None,
         \A i : <<x, i>> \in trx[conn[s]].work => <<x, i>> \in trx'[conn'[s]].work
  PROVE WorkOK(s, x)'
<1>1. ASSUME NEW j \in 1..Len(batch[x].sent) PROVE SentOK(s, x, batch[x].sent[j])'
  BY DEF WorkOK, SentOK
<1> QED BY <1>1 DEF WorkOK

LEMMA ToldIs == ASSUME NEW k, NEW r PROVE Told(k, r) \in Answers
BY DEF Told, Answers

\* One more answer of a batch.
LEMMA AnswerIs ==
  ASSUME TypeOK, NEW b \in Batch, NEW i \in Nat, NEW r, Answer(b, i, r)
  PROVE /\ batch' \in [Batch -> Batches]
        /\ \A x \in Batch \ {b} : batch'[x] = batch[x]
        /\ batch'[b].session = batch[b].session /\ batch'[b].ops = batch[b].ops
        /\ batch'[b].tx = batch[b].tx /\ batch'[b].sent = batch[b].sent
        /\ batch'[b].done = batch[b].done /\ batch'[b].waited = batch[b].waited
        /\ batch'[b].failed = (batch[b].failed \/ r.error # None)
        /\ Len(batch[b].answers) \in Nat
        /\ Len(batch'[b].answers) = Len(batch[b].answers) + 1
        /\ \A j \in 1..Len(batch[b].answers) : batch'[b].answers[j] = batch[b].answers[j]
        /\ batch'[b].answers[Len(batch[b].answers) + 1] = <<i, Told(batch[b].ops[i], r)>>
<1> DEFINE told == Told(batch[b].ops[i], r)
<1>1. told \in Answers BY ToldIs
<1>2. PICK o \in Batches : o = batch[b] BY DEF TypeOK
<1>3. o.answers \in Seq(Nat \X Answers) BY DEF Batches
<1> HIDE DEF told
<1>4. PICK a : a = Append(o.answers, <<i, told>>) OBVIOUS
<1>5. /\ a \in Seq(Nat \X Answers) /\ Len(o.answers) \in Nat /\ Len(a) = Len(o.answers) + 1
      /\ \A j \in 1..Len(o.answers) : a[j] = o.answers[j]
      /\ a[Len(o.answers) + 1] = <<i, told>>
  <2>1. <<i, told>> \in Nat \X Answers BY <1>1
  <2> HIDE DEF Answers
  <2> QED BY <1>3, <1>4, <2>1
<1>12. PICK f \in BOOLEAN : f = (o.failed \/ r.error # None) BY DEF Batches
<1>6. batch' = [batch EXCEPT ![b] = [o EXCEPT !.answers = a, !.failed = f]]
  BY <1>2, <1>4, <1>12 DEF Answer, told
<1>7. [o EXCEPT !.answers = a, !.failed = f] \in Batches BY <1>5 DEF Batches
<1>8. batch'[b] = [o EXCEPT !.answers = a, !.failed = f] /\ \A x \in Batch \ {b} : batch'[x] = batch[x]
  BY <1>6 DEF TypeOK
<1>9. batch' \in [Batch -> Batches] BY <1>6, <1>7 DEF TypeOK
<1>10. PICK n : n = [o EXCEPT !.answers = a, !.failed = f] OBVIOUS
<1>11. /\ n.session = o.session /\ n.ops = o.ops /\ n.tx = o.tx /\ n.sent = o.sent
       /\ n.done = o.done /\ n.waited = o.waited /\ n.answers = a /\ n.failed = f
  BY <1>10 DEF Batches
<1> QED BY <1>2, <1>5, <1>8, <1>9, <1>10, <1>11, <1>12 DEF told

\* An operation that the server answers with an error is an error for its user.
LEMMA ErrorIsTold == ASSUME NEW k \in Kinds PROVE Told(k, ResultOf(k, "error")) = "error"
BY DEF Kinds, Told, ResultOf, InsertResult, WriteResult, ScanResult, DeleteResult, UpdateResult,
       ReadResult, ProjectionResult, ErrorResult, Result

LEMMA OperationAnsweredKeeps ==
  ASSUME IInv, NEW c \in Conn, OperationAnswered(c)
  PROVE IInv'
<1>1. TypeOK /\ ConnsOK /\ UnheldOK /\ UnusedOK BY DEF IInv
<1>2. /\ UNCHANGED <<free, begun, ended, status, conn, autocommit, handler, apiVars, lookup>>
      /\ conn' = conn /\ tx' = tx /\ nTx' = nTx /\ ending' = ending /\ Answered(c, "op")
  BY DEF OperationAnswered, apiVars
<1>3. /\ wire' \in [Conn -> Seq(Queries)]
      /\ \A d \in Conn \ {c} : wire'[d] = wire[d]
      /\ Len(wire[c]) \in Nat \ {0} /\ Len(wire'[c]) = Len(wire[c]) - 1
      /\ \A j \in 1..Len(wire[c]) : wire[c][j] \in Queries
      /\ Head(wire[c]) = wire[c][1] /\ wire[c][1] \in Queries /\ wire[c][1].what = "op"
      /\ turn = None
  BY <1>1, <1>2, Tails
<1>4. PICK s \in Session : conn[s] = c /\ conn[s] # None /\ SessionOK(s) /\ WireOK(s)
                           /\ QueryOK(s, wire[c][1])
  <2>1. 1 \in 1..Len(wire[c]) /\ wire[c][1].what # "metadata" BY <1>3
  <2> QED BY <2>1, Holder
<1>5. PICK b \in Batch, i \in Nat : b = wire[c][1].for /\ i = wire[c][1].op /\ wire[c][1] = Query("op", b, i)
  BY <1>3 DEF Queries, Query
<1>6. InFlightOK(s, b, i) BY <1>3, <1>4, <1>5 DEF QueryOK
<1>7. /\ batch[b].session = s /\ handler[s].numberOfOperations > 0 /\ handler[s].operationsList = b
      /\ handler[s].currentOperation = i /\ batch[b].sent # <<>> /\ LastSent(b).op = i
      /\ LastSent(b).tx # 0 => LastSent(b).tx = tx[s]
  BY <1>6 DEF InFlightOK
<1>8. LastSent(b).tx = 0 => trx[c] = None
  <2>1. 1 \in 1..Len(wire[conn[s]]) BY <1>3, <1>4
  <2>2. OrderOK(s, 1) /\ ~EndBefore(s, 1) BY <1>4, <2>1 DEF WireOK, EndBefore
  <2> QED BY <1>3, <1>4, <1>5, <2>2 DEF OrderOK
<1>9. RunOK(s) /\ PlaceOK(s, b) BY <1>4, <1>7 DEF SessionOK, HandlerOK, RunOK
<1>10. /\ i \in 1..Len(batch[b].ops) /\ handler[s].executed = i - 1
       /\ Len(batch[b].answers) = i - 1 /\ handler[s].numberOfOperations = Len(batch[b].ops)
       /\ handler[s].exists /\ ~handler[s].firstTime /\ status[s] = "open"
       /\ \A j \in 1..Len(batch[b].sent) : batch[b].sent[j].op <= i
  BY <1>3, <1>7, <1>9 DEF RunOK, PlaceOK, Does, Runs
<1>11. PICK r : \E w \in {"open", "kept", "nothing"} :
         /\ Answer(b, i, r)
         /\ turn' = [session |-> s, does |-> "complete", error |-> r.error # None]
         /\ work' = SetWork({<<b, i>>}, w)
         /\ w = "open" => trx[c] # None /\ trx' = [trx EXCEPT ![c].work = @ \cup {<<b, i>>}]
         /\ w # "open" => trx' = trx /\ (w = "kept" => trx[c] = None)
         /\ work[b][i] # "none" => Told(batch[b].ops[i], r) = "error"
  <2> DEFINE k == batch[b].ops[i]
             writes == k \in {"insert", "write", "update", "delete"}
  <2>5. Head(wire[c]).for = b /\ Head(wire[c]).op = i /\ batch[b].session = s BY <1>3, <1>5, <1>7
  <2>1. PICK reply \in Replies(k) :
          /\ work[b][i] = "none" \/ reply = "error"
          /\ IF writes /\ reply = "ok" /\ trx[c] # None
             THEN /\ trx' = [trx EXCEPT ![c].work = @ \cup {<<b, i>>}]
                  /\ work' = SetWork({<<b, i>>}, "open")
             ELSE /\ work' = SetWork({<<b, i>>}, IF writes /\ reply = "ok" THEN "kept" ELSE "nothing")
                  /\ trx' = trx
          /\ Answer(b, i, ResultOf(k, reply))
          /\ turn' = [session |-> s, does |-> "complete", error |-> ResultOf(k, reply).error # None]
    BY <2>5, Zenon DEF OperationAnswered
  <2>6. k \in Kinds BY <1>1, <1>10, BatchIs
  <2> HIDE DEF k, writes
  <2>7. reply = "error" => Told(k, ResultOf(k, reply)) = "error" BY <2>6, ErrorIsTold
  <2>8. work[b][i] # "none" => Told(k, ResultOf(k, reply)) = "error" BY <2>1, <2>7
  <2>2. CASE writes /\ reply = "ok" /\ trx[c] # None BY <2>1, <2>2, <2>8 DEF k
  <2>3. CASE writes /\ reply = "ok" /\ trx[c] = None BY <2>1, <2>3, <2>8 DEF k
  <2>4. CASE ~(writes /\ reply = "ok") BY <2>1, <2>4, <2>8 DEF k
  <2> QED BY <2>2, <2>3, <2>4
<1>31. PICK w \in {"open", "kept", "nothing"} :
         /\ Answer(b, i, r)
         /\ turn' = [session |-> s, does |-> "complete", error |-> r.error # None]
         /\ work' = SetWork({<<b, i>>}, w)
         /\ w = "open" => trx[c] # None /\ trx' = [trx EXCEPT ![c].work = @ \cup {<<b, i>>}]
         /\ w # "open" => trx' = trx /\ (w = "kept" => trx[c] = None)
         /\ work[b][i] # "none" => Told(batch[b].ops[i], r) = "error"
  BY <1>11
<1>12. /\ batch' \in [Batch -> Batches]
       /\ \A x \in Batch \ {b} : batch'[x] = batch[x]
       /\ batch'[b].session = s /\ batch'[b].ops = batch[b].ops
       /\ batch'[b].tx = batch[b].tx /\ batch'[b].sent = batch[b].sent
       /\ batch'[b].done = batch[b].done /\ batch'[b].waited = batch[b].waited
       /\ batch'[b].failed = (batch[b].failed \/ r.error # None)
       /\ Len(batch'[b].answers) = i
       /\ \A j \in 1..(i - 1) : batch'[b].answers[j] = batch[b].answers[j]
       /\ batch'[b].answers[i] = <<i, Told(batch[b].ops[i], r)>> /\ batch'[b].answers[i][1] = i
  <2>1. /\ batch' \in [Batch -> Batches]
        /\ \A x \in Batch \ {b} : batch'[x] = batch[x]
        /\ batch'[b].session = batch[b].session /\ batch'[b].ops = batch[b].ops
        /\ batch'[b].tx = batch[b].tx /\ batch'[b].sent = batch[b].sent
        /\ batch'[b].done = batch[b].done /\ batch'[b].waited = batch[b].waited
        /\ batch'[b].failed = (batch[b].failed \/ r.error # None)
        /\ Len(batch'[b].answers) = Len(batch[b].answers) + 1
        /\ \A j \in 1..Len(batch[b].answers) : batch'[b].answers[j] = batch[b].answers[j]
        /\ batch'[b].answers[Len(batch[b].answers) + 1] = <<i, Told(batch[b].ops[i], r)>>
    BY <1>1, <1>31, AnswerIs
  <2>2. Len(batch[b].answers) = i - 1 /\ Len(batch[b].answers) + 1 = i BY <1>10
  <2> QED BY <1>7, <2>1, <2>2
<1>13. /\ work' \in [Batch -> Seq({"none", "open", "kept", "undone", "nothing"})]
       /\ \A x \in Batch : Len(work'[x]) = Len(work[x])
       /\ \A x \in Batch : \A j \in 1..Len(batch[x].ops) :
            work'[x][j] = IF x = b /\ j = i THEN w ELSE work[x][j]
       /\ \A x \in Batch \ {b} : work'[x] = work[x]
  <2>1. w \in {"none", "open", "kept", "undone", "nothing"} OBVIOUS
  <2>2. \A x \in Batch : \A j : <<x, j>> \in {<<b, i>>} <=> x = b /\ j = i OBVIOUS
  <2>3. PICK ops : ops = {<<b, i>>} OBVIOUS
  <2>7. work' = SetWork(ops, w) BY <1>31, <2>3
  <2>4. /\ work' \in [Batch -> Seq({"none", "open", "kept", "undone", "nothing"})]
        /\ \A x \in Batch : Len(work'[x]) = Len(work[x])
        /\ \A x \in Batch : \A j \in 1..Len(batch[x].ops) :
             work'[x][j] = IF <<x, j>> \in ops THEN w ELSE work[x][j]
        /\ \A x \in Batch : (\A j : <<x, j>> \notin ops) => work'[x] = work[x]
    BY <1>1, <2>1, <2>7, SetWorkIs
  <2>5. \A x \in Batch \ {b} : work'[x] = work[x] BY <2>2, <2>3, <2>4
  <2>6. \A x \in Batch : \A j \in 1..Len(batch[x].ops) :
             work'[x][j] = IF x = b /\ j = i THEN w ELSE work[x][j]
    BY <2>2, <2>3, <2>4
  <2> QED BY <2>4, <2>5, <2>6
<1>14. /\ trx' \in [Conn -> ServerTransactions \cup {None}]
       /\ \A d \in Conn \ {c} : trx'[d] = trx[d]
       /\ trx'[c] = None <=> trx[c] = None
       /\ trx[c] # None => trx'[c].tx = trx[c].tx
       /\ trx[c] # None => trx'[c].work = IF w = "open" THEN trx[c].work \cup {<<b, i>>} ELSE trx[c].work
  <2>1. CASE w # "open" BY <1>1, <1>31, <2>1 DEF TypeOK
  <2>2. CASE w = "open"
    <3>1. PICK o \in ServerTransactions : o = trx[c] BY <1>1, <1>31, <2>2 DEF TypeOK
    <3>2. PICK n : n = [o EXCEPT !.work = @ \cup {<<b, i>>}] OBVIOUS
    <3>3. trx' = [trx EXCEPT ![c] = n] BY <1>31, <2>2, <3>1, <3>2
    <3>4. n \in ServerTransactions /\ n.work = o.work \cup {<<b, i>>} /\ n.tx = o.tx
      BY <3>2 DEF ServerTransactions
    <3>5. n # None BY <3>4, NoneIs
    <3> HIDE DEF ServerTransactions
    <3>6. trx'[c] = n /\ \A d \in Conn \ {c} : trx'[d] = trx[d] BY <1>1, <3>3 DEF TypeOK
    <3>7. trx' \in [Conn -> ServerTransactions \cup {None}] BY <1>1, <3>3, <3>4 DEF TypeOK
    <3> QED BY <1>31, <2>2, <3>1, <3>4, <3>5, <3>6, <3>7
  <2> QED BY <2>1, <2>2
<1>15. /\ turn' \in Turns /\ turn' # None /\ Does(s, "complete")' /\ Runs(s)'
       /\ ~Does(s, "batch")' /\ ~Does(s, "operations")' /\ ~Does(s, "throw")' /\ ~Does(s, "execute")'
       /\ \A x \in Session \ {s} : ~Runs(x)'
  <2>1. (r.error # None) \in BOOLEAN OBVIOUS
  <2>2. turn' \in Turns /\ turn' # None BY <1>31, <2>1, TurnIs
  <2>3. turn'.session = s /\ turn'.does = "complete" BY <1>31
  <2> QED BY <2>2, <2>3 DEF Does, Runs
<1>16. TypeOK'
  <2>1. \A x \in Batch : batch'[x].ops = batch[x].ops BY <1>12
  <2>2. \A x \in Batch : Len(work'[x]) = Len(batch'[x].ops) BY <1>1, <1>13, <2>1 DEF TypeOK
  <2>3. batch' \in [Batch -> Batches] BY <1>12
  <2>4. trx' \in [Conn -> ServerTransactions \cup {None}] BY <1>14
  <2>5. work' \in [Batch -> Seq({"none", "open", "kept", "undone", "nothing"})] BY <1>13
  <2>6. turn' \in Turns BY <1>15
  <2>7. wire' \in [Conn -> Seq(Queries)] BY <1>3
  <2> QED BY <1>1, <1>2, <2>2, <2>3, <2>4, <2>5, <2>6, <2>7 DEF TypeOK, apiVars
<1>17. ConnsOK' BY <1>1, <1>2 DEF ConnsOK
<1>18. UnusedOK' BY <1>1, <1>12, NoneIs DEF UnusedOK, Fresh
<1>19. UnheldOK' BY <1>1, <1>2, <1>3, <1>4, <1>14, UnheldKeeps
<1>20. \A x \in Session \ {s} : Same(x)
  <2> SUFFICES ASSUME NEW x \in Session \ {s} PROVE Same(x)
    OBVIOUS
  <2>1. conn[x] # None => conn[x] \in Conn \ {c} BY <1>1, <1>4 DEF ConnsOK, TypeOK
  <2>2. ~Runs(x) BY <1>3 DEF Runs
  <2>3. Own(x) BY <1>2, <1>7, <1>12, <1>13, <1>14, <1>15, <2>1, <2>2 DEF Own
  <2> QED BY <1>3, <2>1, <2>3 DEF Same
<1>21. handler' = handler /\ status' = status /\ begun' = begun /\ ended' = ended BY <1>2
<1>22. HandlerOK(s)'
  <2>1. PlaceOK(s, b)' BY <1>7, <1>10, <1>12, <1>15, <1>21 DEF PlaceOK
  <2>2. RunOK(s)' BY <1>7, <1>9, <1>10, <1>12, <1>21, <2>1 DEF RunOK
  <2>3. \A j \in 1..Len(handler[s].pendingBatches) : batch'[handler[s].pendingBatches[j]].session = s
    <3> SUFFICES ASSUME NEW j \in 1..Len(handler[s].pendingBatches)
                 PROVE batch'[handler[s].pendingBatches[j]].session = s
      OBVIOUS
    <3>1. PICK x \in Batch : x = handler[s].pendingBatches[j] BY <1>1 DEF TypeOK, Handlers
    <3>2. batch[x].session = s BY <1>4, <3>1 DEF SessionOK, HandlerOK
    <3> QED BY <1>12, <3>1, <3>2
  <2> QED BY <1>4, <1>7, <1>10, <1>21, <2>2, <2>3 DEF SessionOK, HandlerOK
<1>23. /\ WireOK(s)'
       /\ EndSent(s) => EndSent(s)'
       /\ \A x, j : InFlight(s, x, j) => InFlight(s, x, j)' \/ (x = b /\ j = i)
  <2>1. ASSUME NEW p \in Queries, NEW j \in 2..Len(wire[c]), p = wire[c][j]
        PROVE QueryOK(s, p)' /\ p.what # "op"
    <3>1. j \in 1..Len(wire[conn[s]]) /\ 1 \in 1..Len(wire[conn[s]]) /\ j # 1 BY <1>3, <1>4
    <3>2. QueryOK(s, p) BY <1>4, <2>1, <3>1 DEF WireOK
    <3>3. \A y \in 1..Len(wire[conn[s]]), k \in 1..Len(wire[conn[s]]) :
            wire[conn[s]][y].what = wire[conn[s]][k].what /\ wire[conn[s]][y].what # "metadata" => y = k
      BY <1>4 DEF WireOK
    <3>4. p.what # "op" BY <1>3, <1>4, <2>1, <3>1, <3>3
    <3>5. p.what # "begin" BY <1>10, <3>2 DEF QueryOK
    <3> QED BY <1>2, <1>21, <3>2, <3>4, <3>5 DEF QueryOK
  <2>2. \A p \in Queries, j \in 2..Len(wire[c]) : p = wire[c][j] =>
            /\ QueryOK(s, p)'
            /\ p.what = "op" =>
                 /\ batch'[p.for].sent = batch[p.for].sent
                 /\ trx'[c] = None \/ (trx'[c] = trx[c] /\ ~IsEnd(wire[c][1]))
    BY <2>1
  <2>3. /\ WireOK(s)'
        /\ EndSent(s) => EndSent(s)' \/ "op" \in {"commit", "rollback"}
        /\ \A x, j : InFlight(s, x, j) => InFlight(s, x, j)' \/ wire[c][1] = Query("op", x, j)
    BY <1>1, <1>2, <1>4, <2>2, WireTails
  <2>4. \A x, j : wire[c][1] = Query("op", x, j) => x = b /\ j = i BY <1>5 DEF Query
  <2> QED BY <2>3, <2>4
<1>24. \A y \in Batch : batch'[y].session = batch[y].session /\ batch'[y].sent = batch[y].sent
  BY <1>7, <1>12
<1>25. trx[c] # None => /\ LastSent(b).tx = tx[s] /\ TrxOK(s)
                        /\ Len(batch[b].sent) \in 1..Len(batch[b].sent)
  BY <1>1, <1>4, <1>7, <1>8, BatchIs DEF SessionOK, TxOK
<1>26. TxOK(s)'
  <2>1. trx'[c] # None => TrxOK(s)'
    <3> SUFFICES ASSUME trx[c] # None PROVE TrxOK(s)'
      BY <1>14
    <3>1. ASSUME NEW p \in trx'[c].work
          PROVE /\ batch'[p[1]].session = s
                /\ \E j \in 1..Len(batch'[p[1]].sent) : batch'[p[1]].sent[j] = [op |-> p[2], tx |-> tx[s]]
      <4>1. CASE p \in trx[c].work
        <5>1. p[1] \in Batch BY <1>1, <4>1 DEF TypeOK, ServerTransactions
        <5>2. batch[p[1]].session = s /\
              \E j \in 1..Len(batch[p[1]].sent) : batch[p[1]].sent[j] = [op |-> p[2], tx |-> tx[s]]
          BY <1>4, <1>25, <4>1 DEF TrxOK
        <5> QED BY <1>24, <5>1, <5>2
      <4>2. CASE p = <<b, i>>
        <5>1. LastSent(b) \in Sends BY <1>1, <1>25, BatchIs DEF LastSent
        <5>2. LastSent(b) = [op |-> i, tx |-> tx[s]] BY <1>7, <1>25, <5>1 DEF Sends
        <5> QED BY <1>12, <1>25, <4>2, <5>2 DEF LastSent
      <4> QED BY <1>14, <3>1, <4>1, <4>2
    <3> QED BY <1>2, <1>4, <1>14, <1>21, <1>25, <3>1 DEF TrxOK
  <2>2. FirstTx(s)'
    <3>1. \A x \in Batch : batch'[x].session = batch[x].session /\ batch'[x].tx = batch[x].tx
      BY <1>7, <1>12
    <3> QED BY <1>2, <1>4, <1>21, <3>1 DEF SessionOK, TxOK, FirstTx
  <2> QED BY <1>2, <1>4, <1>14, <1>21, <1>23, <2>1, <2>2 DEF SessionOK, TxOK
<1>27. ASSUME NEW x \in Batch \ {b}, batch[x].session = s PROVE BatchOK(s, x)' /\ WorkOK(s, x)'
  <2>1. BatchOK(s, x) /\ WorkOK(s, x) BY <1>4, <1>27 DEF SessionOK
  <2>2. ~Current(s, x)' /\ (Waits(s, x)' => Waits(s, x)) BY <1>7, <1>21, <1>27 DEF Current, Waits
  <2>3. batch'[x] = batch[x] /\ work'[x] = work[x] BY <1>12, <1>13
  <2>4. BatchOK(s, x)' BY <1>21, <2>1, <2>2, <2>3, BatchAlike
  <2>5. \A j \in 1..Len(batch[x].sent) : SentOK(s, x, batch[x].sent[j])'
    <3> SUFFICES ASSUME NEW j \in 1..Len(batch[x].sent) PROVE SentOK(s, x, batch[x].sent[j])'
      OBVIOUS
    <3>1. SentOK(s, x, batch[x].sent[j]) BY <2>1 DEF WorkOK
    <3>2. \A p : trx[c] # None /\ p \in trx[c].work => trx'[c] # None /\ p \in trx'[c].work
      BY <1>14
    <3> QED BY <1>2, <1>4, <1>14, <1>21, <1>23, <1>27, <2>3, <3>1, <3>2 DEF SentOK
  <2>6. WorkOK(s, x)' BY <2>1, <2>3, <2>5 DEF WorkOK
  <2> QED BY <2>4, <2>6
<1>28. BatchOK(s, b)'
  <2>1. BatchOK(s, b) /\ Current(s, b) BY <1>4, <1>7 DEF SessionOK, Current
  <2>2. ~Waits(s, b) /\ ~Waits(s, b)' BY <1>21, <2>1 DEF BatchOK, Waits
  <2>4. \A j \in 1..Len(batch'[b].answers) : batch'[b].answers[j][1] = j
    <3>1. \A j \in 1..Len(batch'[b].answers) : j \in 1..(i - 1) \/ j = i BY <1>10, <1>12
    <3>2. \A j \in 1..(i - 1) : batch[b].answers[j][1] = j BY <1>10, <2>1 DEF BatchOK
    <3> QED BY <1>12, <3>1, <3>2
  <2>5. \A j \in 1..Len(batch[b].done) : j = 1 /\ batch[b].done[j] = "notBegun"
    BY <2>1 DEF BatchOK, DoneOK
  <2>6. DoneOK(s, b)' BY <1>12, <2>5 DEF DoneOK
  <2>7. ErrorOK(s, b)'
    <3>1. Erred(s)' <=> (Erred(s) \/ r.error # None)
      <4>1. ~Does(s, "complete") BY <1>3 DEF Does, Runs
      <4>2. turn'.error <=> r.error # None BY <1>31
      <4> QED BY <1>15, <1>21, <4>1, <4>2 DEF Erred
    <3>2. ErrorOK(s, b) BY <2>1 DEF BatchOK
    <3> QED BY <1>12, <2>1, <2>5, <3>1, <3>2 DEF ErrorOK
  <2> QED BY <1>12, <2>1, <2>2, <2>4, <2>6, <2>7 DEF BatchOK
<1>29. WorkOK(s, b)'
  <2>1. WorkOK(s, b) /\ BatchOK(s, b) BY <1>4, <1>7 DEF SessionOK
  <2>2. ASSUME NEW j \in 1..Len(batch[b].sent) PROVE SentOK(s, b, batch[b].sent[j])'
    <3>1. PICK e \in Sends : e = batch[b].sent[j] BY <1>1, BatchIs
    <3>2. SentOK(s, b, e) /\ e.op \in 1..Len(batch[b].ops) BY <2>1, <3>1 DEF WorkOK, BatchOK
    <3>3. <<s, e.tx>> \in begun \ ended.byServer /\ e.tx = tx[s] /\ e.tx # 0 => trx[c] # None
      BY <1>4 DEF SessionOK, TxOK
    <3>4. CASE e.op # i
      <4>1. work'[b][e.op] = work[b][e.op] BY <1>13, <3>2, <3>4
      <4>2. InFlight(s, b, e.op) => InFlight(s, b, e.op)' BY <1>23, <3>4
      <4>3. \A p : trx[c] # None /\ p \in trx[c].work => trx'[c] # None /\ p \in trx'[c].work
        BY <1>14
      <4>4. SentOK(s, b, e)' BY <1>2, <1>4, <1>21, <3>2, <4>1, <4>2, <4>3 DEF SentOK
      <4> QED BY <1>12, <3>1, <4>4 DEF SentOK, InFlight
    <3>5. CASE e.op = i
      <4>1. work'[b][i] = w BY <1>10, <1>13
      <4>2. e = LastSent(b)
        <5>1. Len(batch[b].sent) \in 1..Len(batch[b].sent) BY <1>1, <1>7, BatchIs
        <5> QED BY <1>7, <2>1, <3>1, <3>5, <5>1 DEF BatchOK, LastSent
      <4>3. e.tx = 0 => w \in {"kept", "nothing"} BY <1>8, <1>31, <4>2
      <4>4. <<s, e.tx>> \in begun \ ended.byServer => w \in {"open", "nothing"}
        <5>1. e.tx # 0 \/ <<s, e.tx>> \notin begun BY <1>1, <1>4, NotYet DEF SessionOK
        <5>2. e.tx # 0 => e.tx = tx[s] BY <1>7, <4>2
        <5> QED BY <1>31, <3>3, <5>1, <5>2
      <4>5. <<s, e.tx>> \notin ended.committed \cup ended.rolledBack
        <5>1. CASE e.tx = 0 BY <1>1, <1>4, <5>1, NotYet DEF SessionOK
        <5>2. CASE e.tx # 0
          <6>1. e.tx = tx[s] BY <1>7, <4>2, <5>2
          <6> QED BY <1>4, <5>2, <6>1 DEF SessionOK, TxOK
        <5> QED BY <5>1, <5>2
      <4>6. w = "open" => trx'[c] # None /\ <<b, i>> \in trx'[c].work /\ <<s, e.tx>> \in begun
        BY <1>14, <1>25, <1>31, <4>2 DEF TrxOK
      <4>7. SentOK(s, b, e)' BY <1>2, <1>4, <1>21, <3>5, <4>1, <4>3, <4>4, <4>5, <4>6 DEF SentOK
      <4> QED BY <1>12, <3>1, <4>7 DEF SentOK, InFlight
    <3> QED BY <3>4, <3>5
  <2>3. ASSUME NEW n \in 1..Len(batch[b].ops),
               \A j \in 1..Len(batch[b].sent) : batch[b].sent[j].op # n
        PROVE work'[b][n] = "none"
    <3>1. Len(batch[b].sent) \in 1..Len(batch[b].sent) BY <1>1, <1>7, BatchIs
    <3>2. n # i BY <1>7, <2>3, <3>1 DEF LastSent
    <3> QED BY <1>13, <2>1, <2>3, <3>2 DEF WorkOK
  <2> QED BY <1>12, <2>2, <2>3 DEF WorkOK
<1>30. LossOK(s)'
  <2>1. ASSUME NEW x \in Batch, batch'[x].session = s, NEW j \in 1..Len(batch'[x].sent),
               Loss(s, x, batch[x].sent[j])'
        PROVE batch[x].session = s /\ j \in 1..Len(batch[x].sent) /\ Loss(s, x, batch[x].sent[j])
    <3>1. batch[x].session = s /\ batch'[x].sent = batch[x].sent BY <1>24, <2>1
    <3>2. batch[x].sent[j].op \in 1..Len(batch[x].ops)
      BY <1>4, <2>1, <3>1 DEF SessionOK, BatchOK
    <3>3. work'[x][batch[x].sent[j].op] = "undone" BY <2>1, <3>1 DEF Loss
    <3>4. work[x][batch[x].sent[j].op] = "undone" BY <1>13, <3>2, <3>3
    <3> QED BY <1>2, <2>1, <3>1, <3>4 DEF Loss
  <2>2. RollbackOnly(s) => RollbackOnly(s)'
    <3>1. \A x \in Batch : batch[x].session = s =>
            /\ batch'[x].session = s /\ batch'[x].tx = batch[x].tx
            /\ \A j \in 1..Len(batch[x].answers) :
                 j \in 1..Len(batch'[x].answers) /\ batch'[x].answers[j] = batch[x].answers[j]
      BY <1>10, <1>12
    <3> QED BY <1>1, <1>2, <3>1, StaysRollbackOnly
  <2>3. ASSUME tx[s] # 0, <<s, tx[s]>> \in begun, NEW x \in Batch, NEW n \in Nat,
               n \in 1..Len(batch[x].ops), InFlight(s, x, n), work[x][n] # "none"
        PROVE Noticed(s)'
    <3>1. CASE x = b /\ n = i
      <4>1. batch[b].tx = tx[s] BY <1>4, <1>7, <2>3 DEF SessionOK, TxOK, FirstTx
      <4>2. b \in InTx(s)' BY <1>2, <1>12, <4>1 DEF InTx
      <4>3. i \in 1..Len(batch'[b].answers) /\ batch'[b].answers[i][2] = "error"
        BY <1>10, <1>12, <1>31, <2>3, <3>1
      <4> QED BY <4>2, <4>3 DEF Noticed, RollbackOnly
    <3>2. CASE ~(x = b /\ n = i)
      <4>1. InFlight(s, x, n)' BY <1>23, <2>3, <3>2
      <4>2. work'[x][n] # "none" BY <1>13, <2>3, <3>2
      <4>3. n \in 1..Len(batch'[x].ops) BY <1>12, <2>3
      <4> QED BY <4>1, <4>2, <4>3 DEF Noticed
    <3> QED BY <3>1, <3>2
  <2>4. LossOK(s) /\ \A x \in Batch : batch[x].session = s => WorkOK(s, x) BY <1>4 DEF SessionOK
  <2>5. RollbackOnly(s) => Noticed(s)' BY <2>2 DEF Noticed
  <2> QED BY <1>2, <2>1, <2>3, <2>4, <2>5, LossKeeps
<1>32. SessionOK(s)' BY <1>22, <1>23, <1>24, <1>26, <1>27, <1>28, <1>29, <1>30 DEF SessionOK
<1> QED BY <1>16, <1>17, <1>18, <1>19, <1>20, <1>32, OthersKeep

-----------------------------------------------------------------------------
(* The turns of a handler.                                                 *)

\* A step that changes one session, one batch of it and one connection.
LEMMA StepKeeps ==
  ASSUME IInv, NEW s \in Session, NEW b \in Batch, batch[b].session \in {s, None}, conn[s] # None,
         UNCHANGED <<free, trx, begun, ended, status, conn, autocommit, apiVars, lookup>>,
         NEW h \in Handlers, handler' = [handler EXCEPT ![s] = h],
         turn # None => turn.session = s,
         turn' \in Turns \cup {None}, turn' # None => turn'.session = s,
         batch' \in [Batch -> Batches], batch'[b].session = s,
         \A x \in Batch \ {b} : batch'[x] = batch[x],
         work' \in [Batch -> Seq({"none", "open", "kept", "undone", "nothing"})],
         Len(work'[b]) = Len(batch'[b].ops), \A x \in Batch \ {b} : work'[x] = work[x],
         wire' \in [Conn -> Seq(Queries)], \A d \in Conn \ {conn[s]} : wire'[d] = wire[d],
         SessionOK(s)'
  PROVE IInv'
<1>1. TypeOK /\ ConnsOK /\ UnheldOK /\ UnusedOK BY DEF IInv
<1>2. /\ free' = free /\ trx' = trx /\ begun' = begun /\ ended' = ended /\ status' = status
      /\ conn' = conn /\ autocommit' = autocommit /\ tx' = tx /\ nTx' = nTx /\ ending' = ending
      /\ lookup' = lookup
  BY DEF apiVars
<1>3. conn[s] \in Conn BY <1>1 DEF TypeOK
<1>4. handler' \in [Session -> Handlers] /\ \A x \in Session \ {s} : handler'[x] = handler[x]
  BY <1>1 DEF TypeOK
<1>5. \A x \in Batch : Len(work'[x]) = Len(batch'[x].ops) BY <1>1 DEF TypeOK
<1>6. TypeOK' BY <1>1, <1>2, <1>4, <1>5 DEF TypeOK
<1>7. ConnsOK' BY <1>1, <1>2 DEF ConnsOK
<1>8. UnusedOK'
  <2> SUFFICES ASSUME NEW x \in Batch, batch'[x].session = None PROVE Fresh(x)' /\ batch'[x].ops = <<>>
    BY DEF UnusedOK
  <2>1. x # b BY NoneIs
  <2>2. batch'[x] = batch[x] BY <2>1
  <2> QED BY <1>1, <2>2 DEF UnusedOK, Fresh
<1>9. UnheldOK' BY ZenonT(60), <1>1, <1>2, <1>3, UnheldKeeps
<1>10. \A x \in Session \ {s} : Same(x)
  <2> SUFFICES ASSUME NEW x \in Session \ {s} PROVE Same(x)
    OBVIOUS
  <2>1. conn[x] # None => conn[x] \in Conn \ {conn[s]} BY <1>1 DEF ConnsOK, TypeOK
  <2>2. ~Runs(x) /\ ~Runs(x)' BY DEF Runs
  <2>3. \A y \in Batch : /\ batch'[y].session = x => batch[y].session = x
                         /\ batch[y].session = x => batch'[y] = batch[y] /\ work'[y] = work[y]
    BY NoneIs
  <2>4. Own(x) BY <1>2, <1>4, <2>2, <2>3 DEF Own
  <2> QED BY <2>1, <2>4 DEF Same
<1> QED BY <1>6, <1>7, <1>8, <1>9, <1>10, OthersKeep

\* While its handler is at a turn, a session has no query but its end in flight.
LEMMA RunWire ==
  ASSUME TypeOK, ConnsOK, NEW s \in Session, SessionOK(s), Runs(s)
  PROVE /\ conn[s] \in Conn /\ conn[s] # None /\ WireOK(s) /\ RunOK(s)
        /\ \A p \in Queries, j \in 1..Len(wire[conn[s]]) : p = wire[conn[s]][j] =>
             p.what = "metadata" \/ (IsEnd(p) /\ p.for = s /\ ending[s] = p.what /\ p.op = tx[s])
<1>1. RunOK(s) BY DEF SessionOK, HandlerOK
<1>2. conn[s] \in Conn /\ conn[s] # None /\ WireOK(s) BY <1>1 DEF RunOK, ConnsOK, TypeOK, SessionOK
<1>3. ASSUME NEW p \in Queries, NEW j \in 1..Len(wire[conn[s]]), p = wire[conn[s]][j]
      PROVE p.what = "metadata" \/ (IsEnd(p) /\ p.for = s /\ ending[s] = p.what /\ p.op = tx[s])
  <2>1. QueryOK(s, p) BY <1>2, <1>3 DEF WireOK
  <2>2. p.what # "setup" /\ p.what # "begin" BY <1>1, <2>1 DEF QueryOK, RunOK
  <2>3. p.what # "op" BY <2>1 DEF QueryOK, InFlightOK
  <2> QED BY <2>1, <2>2, <2>3 DEF Queries, QueryOK, IsEnd
<1> QED BY <1>1, <1>2, <1>3

\* The rest of a session that runs, when no query is sent.
LEMMA TurnWire ==
  ASSUME TypeOK, ConnsOK, NEW s \in Session, SessionOK(s), Runs(s), wire' = wire, conn' = conn,
         tx' = tx, ending' = ending
  PROVE WireOK(s)'
<1>1. /\ conn[s] \in Conn /\ conn[s] # None /\ WireOK(s)
      /\ \A p \in Queries, j \in 1..Len(wire[conn[s]]) : p = wire[conn[s]][j] =>
             p.what = "metadata" \/ (IsEnd(p) /\ p.for = s /\ ending[s] = p.what /\ p.op = tx[s])
  BY RunWire
<1>2. ASSUME NEW j \in 1..Len(wire[conn[s]]) PROVE QueryOK(s, wire[conn[s]][j])' /\ OrderOK(s, j)'
  <2>1. PICK p \in Queries : p = wire[conn[s]][j] BY <1>1 DEF TypeOK
  <2>2. p.what = "metadata" \/ (IsEnd(p) /\ p.for = s /\ ending[s] = p.what /\ p.op = tx[s])
    BY <1>1, <2>1
  <2>3. QueryOK(s, p)' BY <2>2 DEF QueryOK, IsEnd
  <2>4. p.what # "op" BY <2>2 DEF IsEnd
  <2> QED BY <2>1, <2>3, <2>4 DEF QueryOK, OrderOK, InFlightOK, LastSent
<1> QED BY <1>1, <1>2 DEF WireOK

\* The transaction, as long as no operation sent is forgotten.
LEMMA TxAlike ==
  ASSUME TypeOK, NEW s \in Session, TxOK(s), handler'[s].exists,
         UNCHANGED <<trx, begun, ended, status, conn, apiVars>>,
         \A x \in Batch : batch[x].session = s =>
           /\ batch'[x].session = s
           /\ \A j \in 1..Len(batch[x].sent) :
                j \in 1..Len(batch'[x].sent) /\ batch'[x].sent[j] = batch[x].sent[j],
         \A x \in Batch : batch'[x].session = s =>
           batch'[x].tx = tx[s] \/ (batch[x].session = s /\ batch'[x].tx = batch[x].tx),
         EndSent(s) => EndSent(s)'
  PROVE TxOK(s)'
<1>1. /\ trx' = trx /\ begun' = begun /\ ended' = ended /\ status' = status
      /\ conn' = conn /\ tx' = tx /\ nTx' = nTx /\ ending' = ending
  BY DEF apiVars
<1>2. conn[s] # None /\ trx[conn[s]] # None => TrxOK(s)'
  <2> SUFFICES ASSUME conn[s] # None, trx[conn[s]] # None PROVE TrxOK(s)'
    OBVIOUS
  <2>1. TrxOK(s) BY DEF TxOK
  <2>2. trx[conn[s]].work \subseteq Batch \X Nat BY DEF TypeOK, ServerTransactions
  <2>3. ASSUME NEW p \in trx[conn[s]].work
        PROVE /\ batch'[p[1]].session = s
              /\ \E j \in 1..Len(batch'[p[1]].sent) : batch'[p[1]].sent[j] = [op |-> p[2], tx |-> tx[s]]
    <3>1. p[1] \in Batch BY <2>2, <2>3
    <3>2. batch[p[1]].session = s /\
          \E j \in 1..Len(batch[p[1]].sent) : batch[p[1]].sent[j] = [op |-> p[2], tx |-> tx[s]]
      BY <2>1, <2>3 DEF TrxOK
    <3> QED BY <3>1, <3>2
  <2> QED BY <1>1, <2>1, <2>3 DEF TrxOK
<1>3. FirstTx(s)' BY <1>1 DEF TxOK, FirstTx
<1> QED BY <1>1, <1>2, <1>3 DEF TxOK

\* A turn that sends nothing.
LEMMA TurnKeeps ==
  ASSUME IInv, NEW s \in Session, NEW b \in Batch, batch[b].session = s, Runs(s),
         UNCHANGED <<free, wire, serverVars, status, conn, autocommit, apiVars, lookup>>,
         NEW h \in Handlers, handler' = [handler EXCEPT ![s] = h], h.exists,
         turn' \in Turns \cup {None}, turn' # None => turn'.session = s,
         batch' \in [Batch -> Batches], \A x \in Batch \ {b} : batch'[x] = batch[x],
         batch'[b].session = s, batch'[b].ops = batch[b].ops, batch'[b].sent = batch[b].sent,
         batch'[b].tx = batch[b].tx,
         \A j \in 1..Len(batch[b].answers) :
           j \in 1..Len(batch'[b].answers) /\ batch'[b].answers[j] = batch[b].answers[j],
         HandlerOK(s)', \A x \in Batch : batch[x].session = s => BatchOK(s, x)'
  PROVE IInv'
<1>1. TypeOK /\ ConnsOK /\ SessionOK(s) BY DEF IInv
<1>2. /\ trx' = trx /\ begun' = begun /\ ended' = ended /\ work' = work /\ conn' = conn
      /\ tx' = tx /\ nTx' = nTx /\ ending' = ending /\ wire' = wire
  BY DEF serverVars, apiVars
<1>3. handler'[s] = h BY <1>1 DEF TypeOK
<1>4. conn[s] \in Conn /\ conn[s] # None BY <1>1, RunWire
<1>5. WireOK(s)' BY <1>1, <1>2, TurnWire
<1>6. \A x \in Batch : /\ batch'[x].session = batch[x].session
                       /\ batch'[x].ops = batch[x].ops /\ batch'[x].sent = batch[x].sent
                       /\ batch'[x].tx = batch[x].tx
  OBVIOUS
<1>7. TxOK(s)'
  <2>1. EndSent(s) => EndSent(s)' BY <1>2 DEF EndSent
  <2>2. UNCHANGED <<trx, begun, ended, status, conn, apiVars>> BY <1>2
  <2> QED BY <1>1, <1>3, <1>6, <2>1, <2>2, TxAlike DEF SessionOK
<1>8. \A x \in Batch : batch[x].session = s => WorkOK(s, x)'
  <2> SUFFICES ASSUME NEW x \in Batch, batch[x].session = s PROVE WorkOK(s, x)'
    OBVIOUS
  <2>1. WorkOK(s, x) BY <1>1 DEF SessionOK
  <2>2. \A i : InFlight(s, x, i) => InFlight(s, x, i)' BY <1>2 DEF InFlight
  <2> QED BY <1>2, <1>6, <2>1, <2>2, WorkAlike
<1>13. LossOK(s)'
  <2>1. ASSUME NEW x \in Batch, batch'[x].session = s, NEW j \in 1..Len(batch'[x].sent),
               Loss(s, x, batch[x].sent[j])'
        PROVE batch[x].session = s /\ j \in 1..Len(batch[x].sent) /\ Loss(s, x, batch[x].sent[j])
    BY <1>2, <1>6, <2>1 DEF Loss
  <2>2. RollbackOnly(s) => RollbackOnly(s)'
    <3>1. \A x \in Batch : batch[x].session = s =>
            /\ batch'[x].session = s /\ batch'[x].tx = batch[x].tx
            /\ \A j \in 1..Len(batch[x].answers) :
                 j \in 1..Len(batch'[x].answers) /\ batch'[x].answers[j] = batch[x].answers[j]
      BY <1>6
    <3> QED BY <1>1, <1>2, <3>1, StaysRollbackOnly
  <2>3. \A x \in Batch, i \in Nat :
          i \in 1..Len(batch[x].ops) /\ InFlight(s, x, i) /\ work[x][i] # "none" => Noticed(s)'
    BY <1>2, <1>6 DEF Noticed, InFlight
  <2>4. LossOK(s) /\ \A x \in Batch : batch[x].session = s => WorkOK(s, x) BY <1>1 DEF SessionOK
  <2>5. RollbackOnly(s) => Noticed(s)' BY <2>2 DEF Noticed
  <2> QED BY <1>2, <2>1, <2>3, <2>4, <2>5, LossKeeps
<1>9. SessionOK(s)' BY <1>5, <1>6, <1>7, <1>8, <1>13 DEF SessionOK
<1>10. /\ turn # None => turn.session = s
       /\ UNCHANGED <<free, trx, begun, ended, status, conn, autocommit, apiVars, lookup>>
  BY <1>2 DEF Runs
<1>11. /\ work' \in [Batch -> Seq({"none", "open", "kept", "undone", "nothing"})]
       /\ Len(work'[b]) = Len(batch'[b].ops) /\ \A x \in Batch \ {b} : work'[x] = work[x]
  BY <1>1, <1>2 DEF TypeOK
<1>12. wire' \in [Conn -> Seq(Queries)] /\ \A d \in Conn \ {conn[s]} : wire'[d] = wire[d]
  BY <1>1, <1>2 DEF TypeOK
<1> QED BY <1>4, <1>9, <1>10, <1>11, <1>12, StepKeeps

LEMMA RunsIs ==
  ASSUME TypeOK, NEW s \in Session, SessionOK(s), Runs(s)
  PROVE \E b \in Batch :
          /\ handler[s] \in Handlers
          /\ b = handler[s].operationsList /\ batch[b].session = s
          /\ handler[s].exists /\ ~handler[s].firstTime /\ status[s] = "open"
          /\ handler[s].numberOfOperations = 0 =>
               Does(s, "operations") /\ batch[b].answers = <<>> /\ batch[b].sent = <<>>
          /\ handler[s].numberOfOperations > 0 => PlaceOK(s, b)
          /\ BatchOK(s, b) /\ WorkOK(s, b) /\ Current(s, b) /\ ~Waits(s, b)
<1>1. RunOK(s) BY DEF SessionOK, HandlerOK
<1>2. handler[s] \in Handlers BY DEF TypeOK
<1>3. PICK b \in Batch : b = handler[s].operationsList BY <1>1, <1>2 DEF RunOK, Handlers
<1>4. BatchOK(s, b) /\ WorkOK(s, b) BY <1>1, <1>3 DEF SessionOK, RunOK
<1>5. Current(s, b) BY <1>3 DEF Current
<1>6. ~Waits(s, b) BY <1>4, <1>5 DEF BatchOK
<1> QED BY <1>1, <1>2, <1>3, <1>4, <1>5, <1>6 DEF RunOK

\* The batches that wait, when the handler starts none of them.
LEMMA PendingIs ==
  ASSUME TypeOK, NEW s \in Session, SessionOK(s),
         handler'[s].pendingBatches = handler[s].pendingBatches,
         \A x \in Batch : batch'[x].session = batch[x].session
  PROVE /\ \A j \in 1..Len(handler'[s].pendingBatches) :
             batch'[handler'[s].pendingBatches[j]].session = s
        /\ \A i, j \in 1..Len(handler'[s].pendingBatches) :
             handler'[s].pendingBatches[i] = handler'[s].pendingBatches[j] => i = j
        /\ \A x \in Batch : Waits(s, x)' => Waits(s, x)
<1>1. handler[s].pendingBatches \in Seq(Batch) BY DEF TypeOK, Handlers
<1>2. ASSUME NEW j \in 1..Len(handler'[s].pendingBatches)
      PROVE batch'[handler'[s].pendingBatches[j]].session = s
  <2>1. PICK x \in Batch : x = handler[s].pendingBatches[j] BY <1>1
  <2>2. batch[x].session = s BY <2>1 DEF SessionOK, HandlerOK
  <2> QED BY <2>1, <2>2
<1>3. \A x \in Batch : Waits(s, x)' => Waits(s, x) BY DEF Waits
<1>4. \A i, j \in 1..Len(handler'[s].pendingBatches) :
             handler'[s].pendingBatches[i] = handler'[s].pendingBatches[j] => i = j
  BY DEF SessionOK, HandlerOK
<1> QED BY <1>2, <1>3, <1>4

LEMMA ExecuteOperationsKeeps ==
  ASSUME IInv, ExecuteOperations
  PROVE IInv'
<1>1. TypeOK /\ ConnsOK BY DEF IInv
<1>2. PICK s \in Session : s = turn.session BY <1>1 DEF ExecuteOperations, TypeOK, Turns
<1>3. SessionOK(s) /\ Runs(s) /\ Does(s, "operations") BY <1>2 DEF IInv, ExecuteOperations, Runs, Does
<1>4. PICK b \in Batch :
          /\ handler[s] \in Handlers
          /\ b = handler[s].operationsList /\ batch[b].session = s
          /\ handler[s].exists /\ ~handler[s].firstTime /\ status[s] = "open"
          /\ handler[s].numberOfOperations = 0 =>
               Does(s, "operations") /\ batch[b].answers = <<>> /\ batch[b].sent = <<>>
          /\ handler[s].numberOfOperations > 0 => PlaceOK(s, b)
          /\ BatchOK(s, b) /\ WorkOK(s, b) /\ Current(s, b) /\ ~Waits(s, b)
  BY <1>1, <1>3, RunsIs
<1>5. handler[s].numberOfOperations = 0 /\ handler[s].executed = 0
      /\ batch[b].answers = <<>> /\ batch[b].sent = <<>>
  <2>1. ~(handler[s].numberOfOperations > 0) BY <1>3, <1>4 DEF PlaceOK
  <2>2. handler[s].numberOfOperations = 0 BY <1>4, <2>1 DEF Handlers
  <2> QED BY <1>3, <1>4, <2>2 DEF SessionOK, HandlerOK
<1>6. Len(batch[b].ops) \in Nat \ {0}
  <2>1. batch[b].ops # <<>> BY <1>4, ZenonT(60) DEF BatchOK
  <2>2. batch[b].ops \in Seq(Kinds) BY <1>1, BatchIs
  <2> QED BY ONLY <2>1, <2>2
<1>7. PICK h \in Handlers :
        h = [handler[s] EXCEPT !.numberOfOperations = Len(batch[b].ops), !.currentOperation = 1]
  BY <1>4, <1>6 DEF Handlers
<1>8. handler' = [handler EXCEPT ![s] = h] BY <1>1, <1>2, <1>4, <1>7 DEF ExecuteOperations, TypeOK
<1>9. /\ handler'[s] = h /\ h.exists /\ ~h.firstTime /\ h.numberOfOperations = Len(batch[b].ops)
      /\ h.currentOperation = 1 /\ h.executed = 0 /\ h.operationsList = b
      /\ h.pendingBatches = handler[s].pendingBatches /\ h.error = handler[s].error
  BY <1>1, <1>4, <1>5, <1>7, <1>8 DEF Handlers, TypeOK
<1>10. /\ turn' \in Turns /\ turn' # None /\ turn'.session = s /\ Does(s, "execute")' /\ Runs(s)'
       /\ ~Does(s, "batch")' /\ ~Does(s, "operations")' /\ ~Does(s, "throw")' /\ ~Does(s, "complete")'
  BY <1>2, TurnIs DEF ExecuteOperations, Does, Runs
<1>11. /\ UNCHANGED <<free, wire, serverVars, status, conn, autocommit, apiVars, lookup>>
       /\ batch' = batch /\ status' = status /\ begun' = begun
  BY DEF ExecuteOperations, serverVars
<1>12. /\ \A j \in 1..Len(h.pendingBatches) : batch[h.pendingBatches[j]].session = s
       /\ \A i, j \in 1..Len(h.pendingBatches) : h.pendingBatches[i] = h.pendingBatches[j] => i = j
       /\ \A x \in Batch : Waits(s, x)' => Waits(s, x)
  BY <1>1, <1>3, <1>9, <1>11, PendingIs
<1>13. HandlerOK(s)'
  <2>1. Len(batch[b].answers) = 0 /\ Len(batch[b].sent) = 0 BY <1>5
  <2>2. PlaceOK(s, b)' BY <1>6, <1>9, <1>10, <1>11, <2>1 DEF PlaceOK
  <2>3. RunOK(s)' BY <1>4, <1>6, <1>9, <1>11, <2>2, NoneIs DEF RunOK
  <2> QED BY <1>6, <1>9, <1>11, <1>12, <2>3 DEF HandlerOK
<1>14. ASSUME NEW x \in Batch, batch[x].session = s PROVE BatchOK(s, x)'
  <2>1. BatchOK(s, x) BY <1>3, <1>14 DEF SessionOK
  <2>2. Current(s, x)' => Current(s, x) BY <1>4, <1>9 DEF Current
  <2>3. Erred(s)' <=> Erred(s) BY <1>3, <1>9, <1>10 DEF Erred, Does
  <2> QED BY <1>11, <1>12, <2>1, <2>2, <2>3, BatchAlike
<1>15. \A j \in 1..Len(batch[b].answers) :
         j \in 1..Len(batch'[b].answers) /\ batch'[b].answers[j] = batch[b].answers[j]
  BY <1>11
<1> QED BY ZenonT(60), <1>1, <1>3, <1>4, <1>8, <1>9, <1>10, <1>11, <1>13, <1>14, <1>15, TurnKeeps
    DEF TypeOK

LEMMA BatchCompleteKeeps ==
  ASSUME IInv, BatchComplete
  PROVE IInv'
<1>1. TypeOK /\ ConnsOK BY DEF IInv
<1>2. PICK s \in Session : s = turn.session BY <1>1 DEF BatchComplete, TypeOK, Turns
<1>3. SessionOK(s) /\ Runs(s) /\ Does(s, "batch") BY <1>2 DEF IInv, BatchComplete, Runs, Does
<1>4. PICK b \in Batch :
          /\ handler[s] \in Handlers
          /\ b = handler[s].operationsList /\ batch[b].session = s
          /\ handler[s].exists /\ ~handler[s].firstTime /\ status[s] = "open"
          /\ handler[s].numberOfOperations = 0 =>
               Does(s, "operations") /\ batch[b].answers = <<>> /\ batch[b].sent = <<>>
          /\ handler[s].numberOfOperations > 0 => PlaceOK(s, b)
          /\ BatchOK(s, b) /\ WorkOK(s, b) /\ Current(s, b) /\ ~Waits(s, b)
  BY <1>1, <1>3, RunsIs
<1>5. PlaceOK(s, b) /\ Len(batch[b].answers) = Len(batch[b].ops)
  <2>1. handler[s].numberOfOperations # 0 BY <1>3, <1>4 DEF Does
  <2>2. handler[s].numberOfOperations > 0 BY <1>4, <2>1 DEF Handlers
  <2> QED BY <1>3, <1>4, <2>2 DEF PlaceOK
<1>6. PICK h \in Handlers : h = [handler[s] EXCEPT !.executed = 0, !.numberOfOperations = 0]
  BY <1>4 DEF Handlers
<1>7. /\ h.exists /\ ~h.firstTime /\ h.numberOfOperations = 0 /\ h.executed = 0
      /\ h.operationsList = b /\ h.pendingBatches = handler[s].pendingBatches
      /\ h.error = handler[s].error /\ h.error \in BOOLEAN
  BY <1>4, <1>6 DEF Handlers
<1>8. PICK answer \in Answers : answer = IF h.error THEN "error" ELSE "ok" BY DEF Answers
<1>9. PICK o \in Batches : o = batch[b] BY <1>1, BatchIs
<1>10. PICK d : d = Append(o.done, answer) OBVIOUS
<1>11. o.done \in Seq(Calls) /\ answer \in Calls BY DEF Batches, Answers, Calls
<1>12. /\ d \in Seq(Calls) /\ Len(d) = Len(o.done) + 1 /\ Len(o.done) \in Nat
       /\ \A j \in 1..Len(o.done) : d[j] = o.done[j]
       /\ d[Len(o.done) + 1] = answer
  BY <1>10, <1>11
<1>13. PICK n \in Batches : n = [o EXCEPT !.done = d] BY <1>12 DEF Batches
<1>14. /\ n.session = s /\ n.ops = batch[b].ops /\ n.tx = batch[b].tx /\ n.sent = batch[b].sent
       /\ n.answers = batch[b].answers /\ n.done = d
       /\ n.waited = batch[b].waited /\ n.failed = batch[b].failed
  BY <1>4, <1>9, <1>13 DEF Batches
<1>15. batch' = [batch EXCEPT ![b] = n]
       /\ IF h.pendingBatches = <<>>
          THEN handler' = [handler EXCEPT ![s] = h] /\ turn' = None
          ELSE /\ handler' = [handler EXCEPT ![s] = [h EXCEPT
                                !.operationsList = Head(h.pendingBatches),
                                !.pendingBatches = Tail(@), !.error = FALSE]]
               /\ turn' = [session |-> s, does |-> "operations"]
  BY <1>2, <1>6, <1>7, <1>8, <1>9, <1>10, <1>13 DEF BatchComplete
<1>16. batch' \in [Batch -> Batches] /\ batch'[b] = n /\ \A x \in Batch \ {b} : batch'[x] = batch[x]
  BY <1>1, <1>15 DEF TypeOK
<1>17. \A x \in Batch : batch'[x].session = batch[x].session BY <1>4, <1>14, <1>16
<1>18. /\ UNCHANGED <<free, wire, serverVars, status, conn, autocommit, apiVars, lookup>>
       /\ status' = status /\ begun' = begun
  BY DEF BatchComplete, serverVars
<1>19. ASSUME ~Current(s, b)', ~Waits(s, b)' PROVE BatchOK(s, b)'
  <2>1. \A j \in 1..Len(o.done) : j = 1 /\ o.done[j] = "notBegun"
    BY <1>4, <1>9 DEF BatchOK, DoneOK
  <2>2. ASSUME NEW j \in 1..Len(d)
        PROVE (j = 1 /\ d[j] = "notBegun") \/ (j = Len(d) /\ d[j] = answer)
    <3>1. CASE j \in 1..Len(o.done) BY <1>12, <2>1, <3>1
    <3>2. CASE j = Len(o.done) + 1 BY <1>12, <3>2
    <3> QED BY <1>12, <3>1, <3>2
  <2>3. DoneOK(s, b)' BY <1>5, <1>8, <1>14, <1>16, <1>19, <2>2 DEF DoneOK, Answers
  <2>4. (batch[b].failed => h.error) /\ (h.error /\ batch[b].waited => batch[b].failed)
    <3>1. Erred(s) <=> h.error BY <1>3, <1>7 DEF Erred, Does
    <3> QED BY <1>4, <3>1 DEF BatchOK, ErrorOK
  <2>5. ErrorOK(s, b)'
    BY <1>8, <1>14, <1>16, <1>19, <2>2, <2>4 DEF ErrorOK, Answers
  <2>6. /\ batch'[b].ops = batch[b].ops /\ batch'[b].sent = batch[b].sent
        /\ batch'[b].answers = batch[b].answers
    BY <1>14, <1>16
  <2>7. BatchOK(s, b) BY <1>4
  <2> QED BY <1>5, <1>19, <2>3, <2>5, <2>6, <2>7 DEF BatchOK
<1>22. batch'[b].tx = batch[b].tx /\ \A j \in 1..Len(batch[b].answers) :
         j \in 1..Len(batch'[b].answers) /\ batch'[b].answers[j] = batch[b].answers[j]
  BY <1>14, <1>16
<1>20. CASE h.pendingBatches = <<>>
  <2>1. handler' = [handler EXCEPT ![s] = h] /\ turn' = None /\ handler'[s] = h
    BY <1>1, <1>15, <1>20 DEF TypeOK
  <2>2. ~Runs(s)' /\ \A x : ~Current(s, x)' /\ ~Waits(s, x)'
    BY <1>7, <1>20, <2>1 DEF Runs, Current, Waits
  <2>3. HandlerOK(s)' BY <1>7, <1>20, <2>1, <2>2 DEF HandlerOK
  <2>4. ASSUME NEW x \in Batch, batch[x].session = s PROVE BatchOK(s, x)'
    <3>1. CASE x = b BY <1>19, <2>2, <3>1
    <3>2. CASE x # b
      <4>1. BatchOK(s, x) /\ batch'[x] = batch[x] BY <1>3, <1>16, <2>4, <3>2 DEF SessionOK
      <4> QED BY <1>18, <2>2, <4>1, BatchAlike
    <3> QED BY <3>1, <3>2
  <2> QED BY <1>3, <1>4, <1>7, <1>14, <1>16, <1>18, <1>22, <2>1, <2>3, <2>4, TurnKeeps
<1>21. CASE h.pendingBatches # <<>>
  <2> DEFINE p == h.pendingBatches
  <2>1. p \in Seq(Batch) BY DEF Handlers
  <2>2. /\ p # <<>> /\ Head(p) \in Batch /\ Tail(p) \in Seq(Batch) /\ Len(p) \in Nat \ {0}
        /\ Head(p) = p[1] /\ Len(Tail(p)) = Len(p) - 1
        /\ \A j \in 1..Len(Tail(p)) : Tail(p)[j] = p[j + 1] /\ j + 1 \in 1..Len(p) /\ p[j + 1] \in Batch
    BY <1>21, <2>1
  <2>3. PICK g \in Handlers : g = [h EXCEPT !.operationsList = Head(h.pendingBatches),
                                            !.pendingBatches = Tail(h.pendingBatches), !.error = FALSE]
    BY <2>2 DEF Handlers
  <2>4. /\ g.exists /\ ~g.firstTime /\ g.numberOfOperations = 0 /\ g.executed = 0
        /\ g.operationsList = Head(p) /\ g.pendingBatches = Tail(p) /\ g.error = FALSE
    BY <1>7, <2>3 DEF Handlers
  <2>5. handler' = [handler EXCEPT ![s] = g] /\ turn' = [session |-> s, does |-> "operations"]
        /\ handler'[s] = g
    BY <1>1, <1>15, <1>21, <2>3 DEF TypeOK
  <2>6. turn' \in Turns /\ turn' # None /\ turn'.session = s /\ Does(s, "operations")' /\ Runs(s)'
    BY <2>5, TurnIs DEF Does, Runs
  <2> HIDE DEF p
  <2>7. /\ \A j \in 1..Len(p) : batch[p[j]].session = s
        /\ \A i, j \in 1..Len(p) : p[i] = p[j] => i = j
        /\ \A j \in 1..Len(p) : Waits(s, p[j])
    BY <1>3, <1>7 DEF SessionOK, HandlerOK, Waits, p
  <2>8. PICK a \in Batch : a = Head(p) BY <2>2
  <2>9. /\ a # b /\ batch'[a] = batch[a] /\ batch[a].session = s /\ Waits(s, a) /\ Fresh(a)
    <3>1. 1 \in 1..Len(p) BY <2>2
    <3>2. batch[a].session = s /\ Waits(s, a) BY <2>2, <2>7, <2>8, <3>1
    <3>3. a # b BY <1>4, <3>2
    <3> QED BY <1>3, <1>16, <3>2, <3>3 DEF SessionOK, BatchOK
  <2>10. /\ \A j \in 1..Len(Tail(p)) : batch'[Tail(p)[j]].session = s
         /\ \A i, j \in 1..Len(Tail(p)) : Tail(p)[i] = Tail(p)[j] => i = j
         /\ \A x \in Batch : Waits(s, x)' => Waits(s, x) /\ x # a
    <3>1. ASSUME NEW j \in 1..Len(Tail(p)) PROVE batch'[Tail(p)[j]].session = s
      BY <1>17, <2>2, <2>7
    <3>2. ASSUME NEW i \in 1..Len(Tail(p)), NEW j \in 1..Len(Tail(p)), Tail(p)[i] = Tail(p)[j]
          PROVE i = j
      <4>1. i + 1 = j + 1 BY <2>2, <2>7, <3>2
      <4> QED BY <2>2, <4>1
    <3>3. ASSUME NEW x \in Batch, Waits(s, x)' PROVE Waits(s, x) /\ x # a
      <4>1. PICK j \in 1..Len(Tail(p)) : Tail(p)[j] = x BY <2>4, <2>5, <3>3 DEF Waits
      <4>2. j + 1 \in 1..Len(p) /\ 1 \in 1..Len(p) /\ j + 1 # 1 /\ p[j + 1] = x BY <2>2, <4>1
      <4> QED BY <2>2, <2>7, <2>8, <4>2
    <3> QED BY <3>1, <3>2, <3>3
  <2>11. \A x : Current(s, x)' <=> x = a BY <2>4, <2>5, <2>6, <2>8 DEF Current
  <2>12. HandlerOK(s)'
    <3>1. RunOK(s)'
      BY <1>4, <1>18, <2>4, <2>5, <2>6, <2>8, <2>9, NoneIs DEF RunOK, Fresh
    <3>2. /\ \A j \in 1..Len(g.pendingBatches) : batch'[g.pendingBatches[j]].session = s
          /\ \A i, j \in 1..Len(g.pendingBatches) : g.pendingBatches[i] = g.pendingBatches[j] => i = j
      BY <2>4, <2>10
    <3>3. g.exists /\ ~g.firstTime /\ g.numberOfOperations = 0 /\ g.executed = 0 /\ handler'[s] = g
      BY <2>4, <2>5
    <3> QED BY <3>1, <3>2, <3>3 DEF HandlerOK
  <2>13. ASSUME NEW x \in Batch, batch[x].session = s PROVE BatchOK(s, x)'
    <3>1. CASE x = b
      <4>1. ~Current(s, b)' /\ ~Waits(s, b)' BY <1>4, <2>9, <2>10, <2>11
      <4> QED BY <1>19, <3>1, <4>1
    <3>2. CASE x = a
      <4>1. BatchOK(s, a) /\ Len(batch[a].done) = 0 /\ batch[a].done = <<>> /\ ~batch[a].failed
        BY <1>3, <2>9 DEF SessionOK, Fresh
      <4>2. ~Waits(s, a)' /\ ~Erred(s)' BY <2>4, <2>5, <2>10 DEF Erred, Does
      <4>4. DoneOK(s, a)' /\ ErrorOK(s, a)' BY <2>9, <4>1, <4>2 DEF DoneOK, ErrorOK
      <4>3. BatchOK(s, a)' BY <2>9, <4>1, <4>2, <4>4 DEF BatchOK
      <4> QED BY <3>2, <4>3
    <3>3. CASE x # b /\ x # a
      <4>1. BatchOK(s, x) /\ batch'[x] = batch[x] BY <1>3, <1>16, <2>13, <3>3 DEF SessionOK
      <4> QED BY <1>18, <2>10, <2>11, <3>3, <4>1, BatchAlike
    <3> QED BY <3>1, <3>2, <3>3
  <2>14. handler' = [handler EXCEPT ![s] = g] BY <2>5
  <2>20. g.exists BY <2>4
  <2>21. turn' \in Turns \cup {None} /\ (turn' # None => turn'.session = s) BY <2>6
  <2>15. /\ batch'[b].session = s /\ batch'[b].ops = batch[b].ops /\ batch'[b].sent = batch[b].sent
    BY <1>14, <1>16
  <2>16. Runs(s) /\ batch[b].session = s BY <1>3, <1>4
  <2>17. UNCHANGED <<free, wire, serverVars, status, conn, autocommit, apiVars, lookup>> BY <1>18
  <2>18. \A x \in Batch : batch[x].session = s => BatchOK(s, x)' BY <2>13
  <2>19. batch' \in [Batch -> Batches] /\ \A x \in Batch \ {b} : batch'[x] = batch[x] BY <1>16
  <2> QED BY <1>22, <2>12, <2>14, <2>15, <2>16, <2>17, <2>18, <2>19, <2>20, <2>21, TurnKeeps
<1> QED BY <1>20, <1>21

LEMMA SeqOf ==
  ASSUME NEW E, NEW k \in Nat, NEW f \in [1..k -> E]
  PROVE f \in Seq(E) /\ Len(f) = k
BY IsASeq, LenProperties

LEMMA Joined ==
  ASSUME NEW E, NEW f \in Seq(E), NEW g \in Seq(E)
  PROVE /\ f \o g \in Seq(E) /\ Len(f \o g) = Len(f) + Len(g)
        /\ \A j \in 1..(Len(f) + Len(g)) : (f \o g)[j] = IF j <= Len(f) THEN f[j] ELSE g[j - Len(f)]
BY ConcatProperties

\* More answers of the batch that is executed.
LEMMA AnswersKeep ==
  ASSUME NEW s \in Session, NEW b \in Batch, BatchOK(s, b), Current(s, b),
         batch'[b].ops = batch[b].ops, batch'[b].sent = batch[b].sent,
         batch'[b].done = batch[b].done, ~Waits(s, b)', ErrorOK(s, b)',
         \A j \in 1..Len(batch'[b].answers) : batch'[b].answers[j][1] = j
  PROVE BatchOK(s, b)'
<1>1. \A j \in 1..Len(batch[b].done) : j = 1 /\ batch[b].done[j] = "notBegun"
  BY DEF BatchOK, DoneOK
<1>2. DoneOK(s, b)' BY <1>1 DEF DoneOK
<1> QED BY <1>2 DEF BatchOK

LEMMA OperationCompleteKeeps ==
  ASSUME IInv, OperationComplete
  PROVE IInv'
<1>1. TypeOK /\ ConnsOK BY DEF IInv
<1>2. PICK s \in Session : s = turn.session BY <1>1 DEF OperationComplete, TypeOK, Turns
<1>3. SessionOK(s) /\ Runs(s) /\ Does(s, "complete")
  BY <1>2 DEF IInv, OperationComplete, Runs, Does
<1>4. PICK b \in Batch :
          /\ handler[s] \in Handlers
          /\ b = handler[s].operationsList /\ batch[b].session = s
          /\ handler[s].exists /\ ~handler[s].firstTime /\ status[s] = "open"
          /\ handler[s].numberOfOperations = 0 =>
               Does(s, "operations") /\ batch[b].answers = <<>> /\ batch[b].sent = <<>>
          /\ handler[s].numberOfOperations > 0 => PlaceOK(s, b)
          /\ BatchOK(s, b) /\ WorkOK(s, b) /\ Current(s, b) /\ ~Waits(s, b)
  BY <1>1, <1>3, RunsIs
<1>5. PlaceOK(s, b) /\ handler[s].numberOfOperations > 0
  <2>1. handler[s].numberOfOperations # 0 BY <1>3, <1>4 DEF Does
  <2>2. handler[s].numberOfOperations > 0 BY <1>4, <2>1 DEF Handlers
  <2> QED BY <1>4, <2>2
<1> DEFINE n == handler[s].numberOfOperations
           i == handler[s].currentOperation
<1>6. /\ n \in Nat \ {0} /\ i \in 1..n /\ n = Len(batch[b].ops) /\ handler[s].executed = i - 1
      /\ Len(batch[b].answers) = i
      /\ \A j \in 1..Len(batch[b].sent) : batch[b].sent[j].op <= i
  BY <1>3, <1>4, <1>5 DEF PlaceOK, Handlers, Does
<1>7. turn.error \in BOOLEAN BY <1>1, <1>3 DEF TypeOK, Turns, Does, Runs
<1>17. PICK e \in BOOLEAN : e = (handler[s].error \/ turn.error) OBVIOUS
<1>18. PICK m \in Nat : m = handler[s].executed + 1 BY <1>4 DEF Handlers
<1>19. PICK h \in Handlers : h = [handler[s] EXCEPT !.executed = m, !.error = e]
  BY <1>4 DEF Handlers
<1>8. h = [handler[s] EXCEPT !.executed = @ + 1, !.error = @ \/ turn.error]
  BY <1>17, <1>18, <1>19
<1>9. /\ h.exists /\ ~h.firstTime /\ h.numberOfOperations = n /\ h.currentOperation = i
      /\ h.executed = i /\ h.operationsList = b /\ h.pendingBatches = handler[s].pendingBatches
      /\ h.error = e
  BY <1>4, <1>6, <1>18, <1>19 DEF Handlers
<1>10. IF h.executed = h.numberOfOperations
       THEN /\ handler' = [handler EXCEPT ![s] = h]
            /\ turn' = [session |-> s, does |-> "batch"]
            /\ batch' = batch
       ELSE IF h.error
       THEN /\ handler' = [handler EXCEPT ![s] = h]
            /\ batch' = [batch EXCEPT ![h.operationsList].answers =
                 @ \o Unexecuted(h)]
            /\ turn' = [session |-> s, does |-> "batch"]
       ELSE /\ handler' = [handler EXCEPT ![s] = [h EXCEPT !.currentOperation = @ + 1]]
            /\ turn' = [session |-> s, does |-> "execute"]
            /\ batch' = batch
  BY <1>2, <1>8 DEF OperationComplete
<1>11. /\ UNCHANGED <<free, wire, serverVars, status, conn, autocommit, apiVars, lookup>>
       /\ status' = status /\ begun' = begun
  BY DEF OperationComplete, serverVars
<1> HIDE DEF n, i
<1>20. (e => Erred(s)) /\ (Erred(s) => e) BY <1>3, <1>17 DEF Erred, Does
<1>12. ASSUME NEW g \in Handlers, handler' = [handler EXCEPT ![s] = g],
              g.exists, ~g.firstTime, g.numberOfOperations = n, g.currentOperation \in 1..n,
              g.operationsList = b, g.pendingBatches = handler[s].pendingBatches,
              g.error = e,
              NEW does \in {"batch", "execute"}, turn' = [session |-> s, does |-> does],
              batch' \in [Batch -> Batches], \A x \in Batch \ {b} : batch'[x] = batch[x],
              batch'[b].session = s, batch'[b].ops = batch[b].ops, batch'[b].sent = batch[b].sent,
              batch'[b].tx = batch[b].tx, batch'[b].done = batch[b].done,
              batch'[b].waited = batch[b].waited, batch'[b].failed = batch[b].failed,
              \A j \in 1..Len(batch[b].answers) :
                j \in 1..Len(batch'[b].answers) /\ batch'[b].answers[j] = batch[b].answers[j],
              \A j \in 1..Len(batch'[b].answers) : batch'[b].answers[j][1] = j,
              does = "batch" => Len(batch'[b].answers) = n,
              does = "execute" => /\ g.currentOperation = i + 1 /\ g.executed = i
                                  /\ Len(batch'[b].answers) = i
       PROVE IInv'
  <2>1. handler'[s] = g BY <1>1, <1>12 DEF TypeOK
  <2>2. /\ turn' \in Turns /\ turn' # None /\ turn'.session = s /\ Runs(s)'
        /\ Does(s, "batch")' <=> does = "batch"
        /\ ~Does(s, "operations")' /\ ~Does(s, "throw")' /\ ~Does(s, "complete")'
        /\ Does(s, "execute")' <=> does = "execute"
    <3>1. turn' = [session |-> s, does |-> does] BY <1>12
    <3>2. turn'.session = s /\ turn'.does = does BY <3>1
    <3>5. does = "batch" \/ does = "execute" BY <1>12
    <3>3. turn' \in Turns /\ turn' # None
      <4>1. CASE does = "batch" BY <3>1, <4>1, TurnIs
      <4>2. CASE does = "execute" BY <3>1, <4>2, TurnIs
      <4> QED BY <3>5, <4>1, <4>2
    <3>4. does # "operations" /\ does # "throw" /\ does # "complete" BY <1>12
    <3> QED BY <3>2, <3>3, <3>4 DEF Does, Runs
  <2>3. \A x \in Batch : batch'[x].session = batch[x].session BY <1>4, <1>12
  <2>4. /\ \A j \in 1..Len(g.pendingBatches) : batch'[g.pendingBatches[j]].session = s
        /\ \A x, y \in 1..Len(g.pendingBatches) : g.pendingBatches[x] = g.pendingBatches[y] => x = y
        /\ \A x \in Batch : Waits(s, x)' => Waits(s, x)
    BY <1>1, <1>3, <1>12, <2>1, <2>3, PendingIs
  <2>5. PlaceOK(s, b)'
    BY <1>6, <1>12, <2>1, <2>2 DEF PlaceOK
  <2>6. RunOK(s)' BY <1>4, <1>6, <1>11, <1>12, <2>1, <2>5, NoneIs DEF RunOK
  <2>7. HandlerOK(s)' BY <1>6, <1>12, <2>1, <2>4, <2>6 DEF HandlerOK
  <2>8. ASSUME NEW x \in Batch, batch[x].session = s PROVE BatchOK(s, x)'
    <3>1. CASE x = b
      <4>1. ~Waits(s, b)' BY <1>4, <2>4
      <4>3. (Erred(s)' => e) /\ (e => Erred(s)') BY <1>12, <2>1, <2>2 DEF Erred
      <4>4. BatchOK(s, b) /\ Current(s, b) BY <1>4
      <4>5. ErrorOK(s, b) BY <4>4 DEF BatchOK
      <4>6. ErrorOK(s, b)' BY <1>12, <1>20, <4>3, <4>4, <4>5 DEF ErrorOK
      <4>2. BatchOK(s, b)' BY <1>12, <4>1, <4>4, <4>6, AnswersKeep
      <4> QED BY <3>1, <4>2
    <3>2. CASE x # b
      <4>1. BatchOK(s, x) /\ batch'[x] = batch[x] BY <1>3, <1>12, <2>8, <3>2 DEF SessionOK
      <4>2. ~Current(s, x)' BY <1>12, <2>1, <3>2 DEF Current
      <4> QED BY <1>11, <2>4, <4>1, <4>2, BatchAlike
    <3> QED BY <3>1, <3>2
  <2>9. \A x \in Batch : batch[x].session = s => BatchOK(s, x)' BY <2>8
  <2>10. Runs(s) /\ batch[b].session = s BY <1>3, <1>4
  <2>11. UNCHANGED <<free, wire, serverVars, status, conn, autocommit, apiVars, lookup>> BY <1>11
  <2>12. turn' \in Turns \cup {None} /\ (turn' # None => turn'.session = s) BY <2>2
  <2> QED BY <1>12, <2>7, <2>9, <2>10, <2>11, <2>12, TurnKeeps
<1>13. \A j \in 1..Len(batch[b].answers) : batch[b].answers[j][1] = j BY <1>4 DEF BatchOK
<1>14. CASE i = n
  <2>1. handler' = [handler EXCEPT ![s] = h] /\ turn' = [session |-> s, does |-> "batch"]
        /\ batch' = batch
    BY <1>9, <1>10, <1>14
  <2> QED BY <1>1, <1>4, <1>6, <1>9, <1>12, <1>13, <1>14, <2>1 DEF TypeOK
<1>15. CASE i # n /\ h.error
  <2>1. PICK rest : rest = Unexecuted(h) OBVIOUS
  <2>2. PICK o \in Batches : o = batch[b] BY <1>1, BatchIs
  <2>3. PICK a : a = o.answers \o rest OBVIOUS
  <2> DEFINE E == Nat \X Answers
  <2>4. o.answers \in Seq(E) /\ Len(o.answers) = i BY <1>6, <2>2 DEF Batches
  <2>18. n - i \in Nat /\ i \in Nat BY <1>6
  <2>5. PICK k \in Nat : k = n - i /\ i \in Nat BY <2>18
  <2>15. \A j \in 1..k : <<i + j, "error">> \in E BY <2>5 DEF Answers
  <2>16. rest = [j \in 1..k |-> <<i + j, "error">>] BY <1>9, <2>1, <2>5 DEF Unexecuted
  <2> HIDE DEF E
  <2>6. rest \in Seq(E) /\ Len(rest) = k /\ \A j \in 1..k : rest[j] = <<i + j, "error">>
    <3>1. rest \in [1..k -> E] BY <2>15, <2>16
    <3> QED BY <2>16, <3>1, SeqOf
  <2>17. a \in Seq(E) /\ Len(a) = i + k /\ \A j \in 1..(i + k) :
           a[j] = IF j <= i THEN o.answers[j] ELSE rest[j - i]
    <3>1. PICK f \in Seq(E), g \in Seq(E) : f = o.answers /\ g = rest BY <2>4, <2>6
    <3>2. /\ f \o g \in Seq(E) /\ Len(f \o g) = Len(f) + Len(g)
          /\ \A j \in 1..(Len(f) + Len(g)) :
               (f \o g)[j] = IF j <= Len(f) THEN f[j] ELSE g[j - Len(f)]
      BY Joined
    <3>3. a = f \o g /\ Len(f) = i /\ Len(g) = k BY <2>3, <2>4, <2>6, <3>1
    <3> QED BY <3>1, <3>2, <3>3
  <2>7. /\ a \in Seq(E) /\ Len(a) = n
        /\ \A j \in 1..i : a[j] = o.answers[j]
        /\ \A j \in (i + 1)..n : a[j] = rest[j - i]
    BY <1>6, <2>5, <2>17
  <2>8. \A j \in 1..Len(a) : a[j][1] = j
    <3>1. \A j \in 1..n : j \in 1..i \/ (j \in (i + 1)..n /\ j - i \in 1..(n - i)) BY <1>6
    <3>2. \A j \in 1..i : a[j][1] = j BY <1>6, <1>13, <2>2, <2>7
    <3>3. ASSUME NEW j \in (i + 1)..n PROVE a[j][1] = j
      <4>1. j - i \in 1..(n - i) /\ i + (j - i) = j BY <1>6
      <4>2. a[j] = <<j, "error">> BY <2>5, <2>6, <2>7, <4>1
      <4> QED BY <4>2
    <3> QED BY <2>7, <3>1, <3>2, <3>3
  <2>9. PICK r \in Batches : r = [o EXCEPT !.answers = a] BY <2>7 DEF Batches, E
  <2>10. /\ r.session = o.session /\ r.ops = o.ops /\ r.tx = o.tx /\ r.sent = o.sent
         /\ r.done = o.done /\ r.answers = a /\ r.waited = o.waited /\ r.failed = o.failed
    BY <2>9 DEF Batches
  <2>11. handler' = [handler EXCEPT ![s] = h] /\ turn' = [session |-> s, does |-> "batch"]
        /\ batch' = [batch EXCEPT ![b].answers = @ \o rest]
    BY <1>9, <1>10, <1>15, <2>1
  <2>12. batch' = [batch EXCEPT ![b] = r] BY <2>2, <2>3, <2>9, <2>11
  <2>13. batch' \in [Batch -> Batches] /\ batch'[b] = r
         /\ \A x \in Batch \ {b} : batch'[x] = batch[x]
    BY <1>1, <2>12 DEF TypeOK
  <2>14. /\ batch'[b].session = s /\ batch'[b].ops = batch[b].ops /\ batch'[b].sent = batch[b].sent
         /\ batch'[b].tx = batch[b].tx /\ batch'[b].done = batch[b].done
         /\ Len(batch'[b].answers) = n
         /\ \A j \in 1..Len(batch'[b].answers) : batch'[b].answers[j][1] = j
         /\ batch'[b].waited = batch[b].waited /\ batch'[b].failed = batch[b].failed
    BY <1>4, <2>2, <2>7, <2>8, <2>10, <2>13
  <2>19. ASSUME NEW j \in 1..Len(batch[b].answers)
         PROVE j \in 1..Len(batch'[b].answers) /\ batch'[b].answers[j] = batch[b].answers[j]
    <3>1. j \in 1..i BY <1>6
    <3>2. j \in 1..n BY <1>6, <3>1
    <3> QED BY <2>2, <2>7, <2>10, <2>13, <2>14, <3>1, <3>2
  <2>20. h.currentOperation \in 1..n /\ "batch" \in {"batch", "execute"} BY <1>6, <1>9
  <2>21. \A j \in 1..Len(batch[b].answers) :
           j \in 1..Len(batch'[b].answers) /\ batch'[b].answers[j] = batch[b].answers[j]
    BY <2>19
  <2> QED BY <1>9, <1>12, <2>11, <2>13, <2>14, <2>20, <2>21
<1>16. CASE i # n /\ ~h.error
  <2>6. PICK y \in Nat : y = h.currentOperation + 1 BY <1>6, <1>9
  <2>7. PICK g \in Handlers : g = [h EXCEPT !.currentOperation = y] BY DEF Handlers
  <2>1. g = [h EXCEPT !.currentOperation = @ + 1] BY <2>6, <2>7
  <2>2. /\ g.exists /\ ~g.firstTime /\ g.numberOfOperations = n /\ g.currentOperation = i + 1
        /\ g.executed = i /\ g.operationsList = b /\ g.pendingBatches = handler[s].pendingBatches
        /\ g.error = e
    BY <1>9, <2>6, <2>7 DEF Handlers
  <2>3. handler' = [handler EXCEPT ![s] = g] /\ turn' = [session |-> s, does |-> "execute"]
        /\ batch' = batch
    BY <1>9, <1>10, <1>16, <2>1
  <2>4. i + 1 \in 1..n BY <1>6, <1>16
  <2>5. batch' \in [Batch -> Batches] BY <1>1, <2>3 DEF TypeOK
  <2> QED BY <1>4, <1>6, <1>12, <1>13, <2>2, <2>3, <2>4, <2>5
<1> QED BY <1>14, <1>15, <1>16

LEMMA ExecuteOperationKeeps ==
  ASSUME IInv, ExecuteOperation
  PROVE IInv'
<1>1. TypeOK /\ ConnsOK BY DEF IInv
<1>2. PICK s \in Session : s = turn.session BY <1>1 DEF ExecuteOperation, TypeOK, Turns
<1>3. SessionOK(s) /\ Runs(s) /\ Does(s, "execute")
  BY <1>2 DEF IInv, ExecuteOperation, Runs, Does
<1>4. PICK b \in Batch :
          /\ handler[s] \in Handlers
          /\ b = handler[s].operationsList /\ batch[b].session = s
          /\ handler[s].exists /\ ~handler[s].firstTime /\ status[s] = "open"
          /\ handler[s].numberOfOperations = 0 =>
               Does(s, "operations") /\ batch[b].answers = <<>> /\ batch[b].sent = <<>>
          /\ handler[s].numberOfOperations > 0 => PlaceOK(s, b)
          /\ BatchOK(s, b) /\ WorkOK(s, b) /\ Current(s, b) /\ ~Waits(s, b)
  BY <1>1, <1>3, RunsIs
<1>5. PlaceOK(s, b) /\ handler[s].numberOfOperations > 0
  <2>1. handler[s].numberOfOperations # 0 BY <1>3, <1>4 DEF Does
  <2>2. handler[s].numberOfOperations > 0 BY <1>4, <2>1 DEF Handlers
  <2> QED BY <1>4, <2>2
<1>6. PICK n \in Nat, i \in Nat : n = handler[s].numberOfOperations /\ i = handler[s].currentOperation
  BY <1>4 DEF Handlers
<1>7. /\ i \in 1..n /\ n = Len(batch[b].ops) /\ handler[s].executed = i - 1
      /\ Len(batch[b].answers) = i - 1
      /\ \A j \in 1..Len(batch[b].sent) : batch[b].sent[j].op <= i - 1
  BY <1>3, <1>4, <1>5, <1>6 DEF PlaceOK, Does
<1>8. ~(i > Len(batch[b].ops)) BY <1>7
<1>9. /\ UNCHANGED <<free, serverVars, status, conn, autocommit, handler, apiVars, lookup>>
      /\ trx' = trx /\ begun' = begun /\ ended' = ended /\ work' = work /\ conn' = conn
      /\ tx' = tx /\ nTx' = nTx /\ ending' = ending /\ handler' = handler /\ status' = status
  BY DEF ExecuteOperation, serverVars, apiVars
<1>10. handler' = [handler EXCEPT ![s] = handler[s]] BY <1>1, <1>9 DEF TypeOK
<1>11. \A j \in 1..Len(batch[b].answers) : batch[b].answers[j][1] = j BY <1>4 DEF BatchOK
<1>12. \/ /\ Answer(b, i, ErrorResult)
          /\ turn' = [session |-> s, does |-> "complete", error |-> TRUE]
          /\ wire' = wire
       \/ /\ Send(conn[s], Query("op", b, i))
          /\ batch' = [batch EXCEPT ![b].sent =
                         Append(@, [op |-> i, tx |-> IF ending[s] = None THEN tx[s] ELSE 0])]
          /\ turn' = None
  BY <1>2, <1>4, <1>6, <1>8 DEF ExecuteOperation
<1>13. ASSUME \A x \in Batch : batch'[x].session = batch[x].session
       PROVE /\ \A j \in 1..Len(handler[s].pendingBatches) :
                  batch'[handler[s].pendingBatches[j]].session = s
             /\ \A x, y \in 1..Len(handler[s].pendingBatches) :
                  handler[s].pendingBatches[x] = handler[s].pendingBatches[y] => x = y
             /\ \A x \in Batch : Waits(s, x)' => Waits(s, x)
  BY <1>1, <1>3, <1>9, <1>13, PendingIs
<1>14. \A j \in 1..Len(batch[b].sent) :
         batch[b].sent[j].op <= i /\ batch[b].sent[j].op # i /\ batch[b].sent[j].op \in 1..n
  <2> SUFFICES ASSUME NEW j \in 1..Len(batch[b].sent)
               PROVE batch[b].sent[j].op <= i /\ batch[b].sent[j].op # i
                     /\ batch[b].sent[j].op \in 1..n
    OBVIOUS
  <2>1. PICK k : k = batch[b].sent[j].op OBVIOUS
  <2>2. k \in 1..n BY <1>4, <1>7, <2>1 DEF BatchOK
  <2>3. k <= i - 1 BY <1>7, <2>1
  <2>4. k <= i /\ k # i BY <2>2, <2>3
  <2> QED BY <2>1, <2>2, <2>4
<1>15. CASE /\ Answer(b, i, ErrorResult)
            /\ turn' = [session |-> s, does |-> "complete", error |-> TRUE]
            /\ wire' = wire
  <2>1. /\ batch' \in [Batch -> Batches]
        /\ \A x \in Batch \ {b} : batch'[x] = batch[x]
        /\ batch'[b].session = s /\ batch'[b].ops = batch[b].ops
        /\ batch'[b].tx = batch[b].tx /\ batch'[b].sent = batch[b].sent
        /\ batch'[b].done = batch[b].done
        /\ Len(batch'[b].answers) = i
        /\ \A j \in 1..(i - 1) : batch'[b].answers[j] = batch[b].answers[j]
        /\ batch'[b].answers[i][1] = i
        /\ batch'[b].failed
    <3>1. PICK r : r = ErrorResult OBVIOUS
    <3>5. r.error # None BY <3>1, NoneIs DEF ErrorResult, Result
    <3>2. Answer(b, i, r) BY <1>15, <3>1
    <3>3. /\ batch' \in [Batch -> Batches]
          /\ \A x \in Batch \ {b} : batch'[x] = batch[x]
          /\ batch'[b].session = batch[b].session /\ batch'[b].ops = batch[b].ops
          /\ batch'[b].tx = batch[b].tx /\ batch'[b].sent = batch[b].sent
          /\ batch'[b].done = batch[b].done
          /\ batch'[b].failed = (batch[b].failed \/ r.error # None)
          /\ Len(batch[b].answers) \in Nat
          /\ Len(batch'[b].answers) = Len(batch[b].answers) + 1
          /\ \A j \in 1..Len(batch[b].answers) : batch'[b].answers[j] = batch[b].answers[j]
          /\ batch'[b].answers[Len(batch[b].answers) + 1] = <<i, Told(batch[b].ops[i], r)>>
      BY <1>1, <3>2, AnswerIs
    <3>4. Len(batch[b].answers) = i - 1 /\ Len(batch[b].answers) + 1 = i BY <1>7
    <3>6. batch'[b].failed BY <3>3, <3>5
    <3>7. batch'[b].answers[i][1] = i BY <3>3, <3>4
    <3> QED BY <1>4, <3>3, <3>4, <3>6, <3>7
  <2>2. \A j \in 1..Len(batch'[b].answers) : batch'[b].answers[j][1] = j
    <3>1. \A j \in 1..Len(batch'[b].answers) : j \in 1..(i - 1) \/ j = i BY <1>7, <2>1
    <3> QED BY <1>7, <1>11, <2>1, <3>1
  <2>3. /\ turn' \in Turns /\ turn' # None /\ turn'.session = s /\ Does(s, "complete")' /\ Runs(s)'
        /\ ~Does(s, "batch")' /\ ~Does(s, "operations")' /\ ~Does(s, "throw")' /\ ~Does(s, "execute")'
    BY <1>15, TurnIs DEF Does, Runs
  <2>4. \A x \in Batch : batch'[x].session = batch[x].session BY <1>4, <2>1
  <2>5. /\ \A j \in 1..Len(handler[s].pendingBatches) :
                  batch'[handler[s].pendingBatches[j]].session = s
        /\ \A x \in Batch : Waits(s, x)' => Waits(s, x)
    BY <1>13, <2>4
  <2>6. PlaceOK(s, b)'
    <3>1. \A j \in 1..Len(batch[b].sent) : batch[b].sent[j].op <= i BY <1>14
    <3> QED BY <1>6, <1>7, <1>9, <2>1, <2>3, <3>1 DEF PlaceOK
  <2>7. RunOK(s)' BY <1>4, <1>5, <1>9, <2>1, <2>6, NoneIs DEF RunOK
  <2>8. HandlerOK(s)' BY <1>3, <1>4, <1>5, <1>9, <2>5, <2>7 DEF SessionOK, HandlerOK
  <2>9. ASSUME NEW x \in Batch, batch[x].session = s PROVE BatchOK(s, x)'
    <3>1. CASE x = b
      <4>1. ~Waits(s, b)' BY <1>4, <2>5
      <4>3. Erred(s)' BY <1>15, <2>3 DEF Erred
      <4>4. BatchOK(s, b) /\ Current(s, b) BY <1>4
      <4>5. \A j \in 1..Len(batch[b].done) : batch[b].done[j] = "notBegun"
        BY <4>4 DEF BatchOK, DoneOK
      <4>6. ErrorOK(s, b)' BY <2>1, <4>3, <4>5 DEF ErrorOK
      <4>2. BatchOK(s, b)' BY <2>1, <2>2, <4>1, <4>4, <4>6, AnswersKeep
      <4> QED BY <3>1, <4>2
    <3>2. CASE x # b
      <4>1. BatchOK(s, x) /\ batch'[x] = batch[x] BY <1>3, <2>1, <2>9, <3>2 DEF SessionOK
      <4>2. ~Current(s, x)' BY <1>4, <1>9, <3>2 DEF Current
      <4> QED BY <2>5, <4>1, <4>2, BatchAlike
    <3> QED BY <3>1, <3>2
  <2>10. \A x \in Batch : batch[x].session = s => BatchOK(s, x)' BY <2>9
  <2>11. Runs(s) /\ batch[b].session = s /\ handler[s] \in Handlers /\ handler[s].exists BY <1>3, <1>4
  <2>12. UNCHANGED <<free, wire, serverVars, status, conn, autocommit, apiVars, lookup>>
    BY <1>9, <1>15
  <2>13. turn' \in Turns \cup {None} /\ (turn' # None => turn'.session = s) BY <2>3
  <2>14. ASSUME NEW j \in 1..Len(batch[b].answers)
         PROVE j \in 1..Len(batch'[b].answers) /\ batch'[b].answers[j] = batch[b].answers[j]
    <3>1. j \in 1..(i - 1) /\ j \in 1..i BY <1>7
    <3> QED BY <2>1, <3>1
  <2> QED BY <1>10, <2>1, <2>8, <2>10, <2>11, <2>12, <2>13, <2>14, TurnKeeps
<1>16. CASE /\ Send(conn[s], Query("op", b, i))
            /\ batch' = [batch EXCEPT ![b].sent =
                         Append(@, [op |-> i, tx |-> IF ending[s] = None THEN tx[s] ELSE 0])]
            /\ turn' = None
  <2>1. /\ conn[s] \in Conn /\ conn[s] # None /\ WireOK(s)
        /\ \A p \in Queries, j \in 1..Len(wire[conn[s]]) : p = wire[conn[s]][j] =>
             p.what = "metadata" \/ (IsEnd(p) /\ p.for = s /\ ending[s] = p.what /\ p.op = tx[s])
    BY <1>1, <1>3, RunWire
  <2>2. PICK c \in Conn : c = conn[s] BY <2>1
  <2>3. PICK q \in Queries : q = Query("op", b, i) BY QueryIs
  <2>4. q.what = "op" /\ q.for = b /\ q.op = i /\ Send(c, q) BY <1>16, <2>2, <2>3 DEF Query
  <2>5. /\ wire' \in [Conn -> Seq(Queries)]
        /\ \A d \in Conn \ {c} : wire'[d] = wire[d]
        /\ Len(wire[c]) \in Nat /\ Len(wire'[c]) = Len(wire[c]) + 1
        /\ \A j \in 1..Len(wire[c]) : wire'[c][j] = wire[c][j] /\ wire[c][j] \in Queries
        /\ wire'[c][Len(wire[c]) + 1] = q
    BY <1>1, <2>4, Appends
  <2>6. PICK t \in Nat : t = IF ending[s] = None THEN tx[s] ELSE 0 BY <1>1 DEF TypeOK
  <2>7. PICK e \in Sends : e = [op |-> i, tx |-> t] BY DEF Sends
  <2>8. e.op = i /\ e.tx = t BY <2>7
  <2>9. PICK o \in Batches : o = batch[b] BY <1>1, BatchIs
  <2>10. PICK z : z = Append(o.sent, e) OBVIOUS
  <2>11. o.sent \in Seq(Sends) BY DEF Batches
  <2>12. /\ z \in Seq(Sends) /\ Len(o.sent) \in Nat /\ Len(z) = Len(o.sent) + 1
         /\ \A j \in 1..Len(o.sent) : z[j] = o.sent[j]
         /\ z[Len(o.sent) + 1] = e
    BY <2>10, <2>11
  <2>13. PICK m \in Batches : m = [o EXCEPT !.sent = z] BY <2>12 DEF Batches
  <2>14. /\ m.session = o.session /\ m.ops = o.ops /\ m.tx = o.tx /\ m.sent = z
         /\ m.done = o.done /\ m.answers = o.answers /\ m.waited = o.waited /\ m.failed = o.failed
    BY <2>13 DEF Batches
  <2>15. batch' = [batch EXCEPT ![b] = m]
    BY <1>16, <2>6, <2>7, <2>9, <2>10, <2>13
  <2>16. batch' \in [Batch -> Batches] /\ batch'[b] = m
         /\ \A x \in Batch \ {b} : batch'[x] = batch[x]
    BY <1>1, <2>15 DEF TypeOK
  <2>17. /\ batch'[b].session = s /\ batch'[b].ops = batch[b].ops /\ batch'[b].tx = batch[b].tx
         /\ batch'[b].done = batch[b].done /\ batch'[b].answers = batch[b].answers
         /\ batch'[b].waited = batch[b].waited /\ batch'[b].failed = batch[b].failed
         /\ Len(batch[b].sent) \in Nat /\ Len(batch'[b].sent) = Len(batch[b].sent) + 1
         /\ \A j \in 1..Len(batch[b].sent) : batch'[b].sent[j] = batch[b].sent[j]
         /\ batch'[b].sent[Len(batch[b].sent) + 1] = e
    BY <1>4, <2>9, <2>12, <2>14, <2>16
  <2>18. LastSent(b)' = e /\ batch'[b].sent # <<>> BY <2>17 DEF LastSent
  <2>19. \A j \in 1..Len(batch'[b].sent) : j \in 1..Len(batch[b].sent) \/ j = Len(batch[b].sent) + 1
    BY <2>17
  <2>20. \A x \in Batch : batch'[x].session = batch[x].session BY <1>4, <2>16, <2>17
  <2>21. /\ \A j \in 1..Len(handler[s].pendingBatches) :
                  batch'[handler[s].pendingBatches[j]].session = s
         /\ \A x \in Batch : Waits(s, x)' => Waits(s, x)
    BY <1>13, <2>20
  <2>22. ~Runs(s)' /\ \A d : ~Does(s, d)' BY <1>16 DEF Runs, Does
  <2>36. ~Does(s, "complete") BY <1>3 DEF Does
  <2>37. Erred(s)' <=> Erred(s) BY <1>9, <2>22, <2>36 DEF Erred
  <2>23. HandlerOK(s)'
    <3>1. ASSUME NEW j \in 1..Len(batch'[b].sent) PROVE batch'[b].sent[j].op <= i
      <4>1. CASE j \in 1..Len(batch[b].sent)
        <5>1. batch'[b].sent[j] = batch[b].sent[j] BY <2>17, <4>1
        <5> QED BY <1>14, <4>1, <5>1
      <4>2. CASE j = Len(batch[b].sent) + 1
        <5>1. batch'[b].sent[j] = e BY <2>17, <4>2
        <5> QED BY <2>8, <5>1
      <4> QED BY <2>19, <4>1, <4>2
    <3>2. PlaceOK(s, b)' BY <1>6, <1>7, <1>9, <2>17, <2>22, <3>1 DEF PlaceOK
    <3>3. RunOK(s)' BY <1>4, <1>5, <1>9, <2>17, <3>2, NoneIs DEF RunOK
    <3> QED BY <1>3, <1>4, <1>5, <1>9, <2>21, <3>3 DEF SessionOK, HandlerOK
  <2>24. TxOK(s)'
    <3>1. UNCHANGED <<trx, begun, ended, status, conn, apiVars>> BY <1>9 DEF apiVars
    <3>2. EndSent(s) => EndSent(s)' BY <1>9, <2>2, <2>5 DEF EndSent
    <3>3. \A x \in Batch : batch[x].session = s =>
           /\ batch'[x].session = s
           /\ \A j \in 1..Len(batch[x].sent) :
                j \in 1..Len(batch'[x].sent) /\ batch'[x].sent[j] = batch[x].sent[j]
      BY <2>16, <2>17
    <3>4. \A x \in Batch : batch'[x].session = s =>
            batch'[x].tx = tx[s] \/ (batch[x].session = s /\ batch'[x].tx = batch[x].tx)
      BY <1>4, <2>16, <2>17
    <3> QED BY <1>1, <1>3, <1>4, <1>9, <3>1, <3>2, <3>3, <3>4, TxAlike DEF SessionOK
  <2>25. /\ WireOK(s)'
         /\ \A x, j : InFlight(s, x, j) => InFlight(s, x, j)'
    <3>1. \A p \in Queries, j \in 1..Len(wire[c]) : p = wire[c][j] =>
            /\ QueryOK(s, p)'
            /\ p.what = "op" => batch'[p.for].sent = batch[p.for].sent
            /\ p.what # q.what \/ q.what = "metadata"
      <4> SUFFICES ASSUME NEW p \in Queries, NEW j \in 1..Len(wire[c]), p = wire[c][j]
                   PROVE QueryOK(s, p)' /\ p.what # "op"
        BY <2>4
      <4>1. p.what = "metadata" \/ (IsEnd(p) /\ p.for = s /\ ending[s] = p.what /\ p.op = tx[s])
        BY <2>1, <2>2
      <4> QED BY <1>9, <4>1 DEF QueryOK, IsEnd
    <3>2. QueryOK(s, q)'
      <4>1. InFlightOK(s, b, i)'
        BY <1>4, <1>5, <1>6, <1>9, <2>6, <2>8, <2>17, <2>18, <2>22 DEF InFlightOK
      <4> QED BY <2>4, <4>1 DEF QueryOK, IsEnd
    <3>3. ASSUME NEW n1 \in Nat, n1 = Len(wire[c]) + 1 PROVE OrderOK(s, n1)'
      <4>1. wire'[conn'[s]][n1] = q BY <1>9, <2>2, <2>5, <3>3
      <4>2. t # 0 => ~EndBefore(s, n1)'
        <5> SUFFICES ASSUME t # 0, NEW k \in 1..(n1 - 1), IsEnd(wire'[c][k]) PROVE FALSE
          BY <1>9, <2>2 DEF EndBefore
        <5>1. k \in 1..Len(wire[c]) /\ wire'[c][k] = wire[c][k] BY <2>5, <3>3
        <5>2. ending[s] = None BY <2>6
        <5>3. PICK p \in Queries : p = wire[c][k] BY <2>5, <5>1
        <5>4. ending[s] = p.what /\ IsEnd(p) BY <2>1, <2>2, <5>1, <5>3 DEF IsEnd
        <5> QED BY <5>2, <5>4, NoneIs DEF IsEnd
      <4>3. t = 0 => trx[c] = None \/ EndBefore(s, n1)'
        <5>1. CASE ending[s] = None
          BY <1>3, <2>1, <2>2, <2>6, <5>1 DEF SessionOK, TxOK, TrxOK
        <5>2. CASE ending[s] # None
          <6>1. EndSent(s) BY <1>3, <5>2 DEF SessionOK, TxOK
          <6>2. PICK k \in 1..Len(wire[c]) : IsEnd(wire[c][k]) BY <2>2, <6>1 DEF EndSent
          <6>3. k \in 1..(n1 - 1) /\ IsEnd(wire'[c][k]) BY <2>5, <3>3, <6>2
          <6> QED BY <1>9, <2>2, <6>3 DEF EndBefore
        <5> QED BY <5>1, <5>2
      <4> QED BY <1>9, <2>2, <2>4, <2>8, <2>18, <4>1, <4>2, <4>3 DEF OrderOK
    <3>4. \A n1 \in Nat : n1 = Len(wire[c]) + 1 => OrderOK(s, n1)' BY <3>3
    <3>5. conn[s] = c /\ conn'[s] = c /\ trx'[c] = trx[c] BY <1>9, <2>2
    <3> QED BY <1>1, <2>1, <2>4, <3>1, <3>2, <3>4, <3>5, WireAppends
  <2>26. InFlight(s, b, i)'
    <3>1. Len(wire[c]) + 1 \in 1..Len(wire'[c]) BY <2>5
    <3> QED BY <1>9, <2>2, <2>3, <2>5, <3>1 DEF InFlight
  <2>27. BatchOK(s, b)'
    <3>1. ASSUME NEW j \in 1..Len(batch'[b].sent)
          PROVE /\ batch'[b].sent[j].op \in 1..Len(batch'[b].ops)
                /\ \/ j \in 1..Len(batch[b].sent) /\ batch'[b].sent[j].op = batch[b].sent[j].op
                      /\ batch'[b].sent[j].op # i
                   \/ j = Len(batch[b].sent) + 1 /\ batch'[b].sent[j].op = i
      <4>1. CASE j \in 1..Len(batch[b].sent)
        <5>1. batch'[b].sent[j] = batch[b].sent[j] BY <2>17, <4>1
        <5>2. batch[b].sent[j].op \in 1..n /\ batch[b].sent[j].op # i BY <1>14, <4>1
        <5> QED BY <1>7, <2>17, <4>1, <5>1, <5>2
      <4>2. CASE j = Len(batch[b].sent) + 1
        <5>1. batch'[b].sent[j] = e BY <2>17, <4>2
        <5>2. i \in 1..Len(batch'[b].ops) BY <1>7, <2>17
        <5> QED BY <2>8, <4>2, <5>1, <5>2
      <4> QED BY <2>19, <4>1, <4>2
    <3>2. ASSUME NEW j \in 1..Len(batch'[b].sent), NEW k \in 1..Len(batch'[b].sent),
                 batch'[b].sent[j].op = batch'[b].sent[k].op
          PROVE j = k
      <4>1. CASE j = Len(batch[b].sent) + 1
        <5>1. ~(j \in 1..Len(batch[b].sent)) BY <2>17, <4>1
        <5>2. batch'[b].sent[j].op = i BY <3>1, <5>1
        <5>3. k = Len(batch[b].sent) + 1 BY <3>1, <3>2, <5>2
        <5> QED BY <4>1, <5>3
      <4>2. CASE k = Len(batch[b].sent) + 1
        <5>1. ~(k \in 1..Len(batch[b].sent)) BY <2>17, <4>2
        <5>2. batch'[b].sent[k].op = i BY <3>1, <5>1
        <5>3. j = Len(batch[b].sent) + 1 BY <3>1, <3>2, <5>2
        <5> QED BY <4>2, <5>3
      <4>3. CASE j \in 1..Len(batch[b].sent) /\ k \in 1..Len(batch[b].sent)
        <5>1. batch[b].sent[j].op = batch[b].sent[k].op BY <2>17, <3>2, <4>3
        <5> QED BY <1>4, <4>3, <5>1 DEF BatchOK
      <4> QED BY <2>19, <4>1, <4>2, <4>3
    <3>3. \A j, k \in 1..Len(batch'[b].sent) : batch'[b].sent[j].op = batch'[b].sent[k].op => j = k
      BY <3>2
    <3>4. ~Waits(s, b)' BY <1>4, <2>21
    <3>6. BatchOK(s, b) /\ Current(s, b) BY <1>4
    <3>5. DoneOK(s, b)' BY <2>17, <3>6 DEF BatchOK, DoneOK
    <3>8. ErrorOK(s, b) BY <3>6 DEF BatchOK
    <3>9. ErrorOK(s, b)' BY <2>17, <2>37, <3>6, <3>8 DEF ErrorOK
    <3>7. \A j \in 1..Len(batch'[b].sent) : batch'[b].sent[j].op \in 1..Len(batch'[b].ops)
      BY <3>1
    <3> QED BY <2>17, <3>3, <3>4, <3>5, <3>6, <3>7, <3>9 DEF BatchOK
  <2>28. WorkOK(s, b)'
    <3>1. WorkOK(s, b) /\ \A j \in 1..Len(batch[b].sent) : batch[b].sent[j].op # i BY <1>4, <1>14
    <3>2. work[b][i] = "none" BY <1>7, <3>1 DEF WorkOK
    <3>3. SentOK(s, b, e)'
      <4>1. <<s, 0>> \notin begun BY <1>1, <1>3, NotYet DEF SessionOK
      <4>2. t # 0 => t = tx[s] BY <2>6
      <4>3. tx[s] # 0 => <<s, tx[s]>> \notin ended.committed \cup ended.rolledBack
        BY <1>3 DEF SessionOK, TxOK
      <4> QED BY <1>9, <2>8, <2>26, <3>2, <4>1, <4>2, <4>3 DEF SentOK
    <3>4. ASSUME NEW j \in 1..Len(batch[b].sent) PROVE SentOK(s, b, batch[b].sent[j])'
      <4>1. PICK y \in Sends : y = batch[b].sent[j] BY <1>1, BatchIs
      <4>2. SentOK(s, b, y) BY <3>1, <4>1 DEF WorkOK
      <4>3. SentOK(s, b, y)' BY <1>9, <2>25, <4>2 DEF SentOK
      <4>4. batch'[b].sent[j] = y BY <2>17, <4>1
      <4> QED BY <2>17, <4>1, <4>3, <4>4 DEF SentOK, InFlight
    <3>5. ASSUME NEW j \in 1..Len(batch'[b].sent) PROVE SentOK(s, b, batch[b].sent[j])'
      <4>1. CASE j \in 1..Len(batch[b].sent) BY <3>4, <4>1
      <4>2. CASE j = Len(batch[b].sent) + 1
        <5>1. batch'[b].sent[j] = e BY <2>17, <4>2
        <5> QED BY <3>3, <5>1 DEF SentOK, InFlight
      <4> QED BY <2>19, <4>1, <4>2
    <3>6. ASSUME NEW j \in 1..Len(batch[b].ops),
                 \A k \in 1..Len(batch'[b].sent) : batch'[b].sent[k].op # j
          PROVE work[b][j] = "none"
      <4>1. \A k \in 1..Len(batch[b].sent) : batch[b].sent[k].op # j
        <5>1. \A k \in 1..Len(batch[b].sent) : k \in 1..Len(batch'[b].sent) BY <2>17
        <5> QED BY <2>17, <3>6, <5>1
      <4> QED BY <3>1, <4>1 DEF WorkOK
    <3> QED BY <1>9, <2>17, <3>5, <3>6 DEF WorkOK
  <2>29. ASSUME NEW x \in Batch, x # b, batch[x].session = s PROVE BatchOK(s, x)' /\ WorkOK(s, x)'
    <3>1. BatchOK(s, x) /\ WorkOK(s, x) /\ batch'[x] = batch[x] /\ work'[x] = work[x]
      BY <1>3, <1>9, <2>16, <2>29 DEF SessionOK
    <3>2. Current(s, x)' => Current(s, x) BY <1>3, <1>9 DEF Current
    <3>3. BatchOK(s, x)' BY <2>21, <2>37, <3>1, <3>2, BatchAlike
    <3>4. WorkOK(s, x)' BY <1>9, <2>25, <3>1, WorkAlike
    <3> QED BY <3>3, <3>4
  <2>38. LossOK(s)'
    <3>1. ASSUME NEW x \in Batch, batch'[x].session = s, NEW j \in 1..Len(batch'[x].sent),
                 Loss(s, x, batch[x].sent[j])'
          PROVE batch[x].session = s /\ \E k \in 1..Len(batch[x].sent) : Loss(s, x, batch[x].sent[k])
      <4>1. CASE x # b
        <5>1. batch'[x] = batch[x] BY <2>16, <4>1
        <5> QED BY <1>9, <3>1, <5>1 DEF Loss
      <4>2. CASE x = b /\ j \in 1..Len(batch[b].sent)
        <5>1. batch'[b].sent[j] = batch[b].sent[j] BY <2>17, <4>2
        <5>2. Loss(s, b, batch[b].sent[j])' BY <3>1, <4>2
        <5>3. Loss(s, b, batch[b].sent[j]) BY <1>9, <5>1, <5>2 DEF Loss
        <5> QED BY <1>4, <4>2, <5>3
      <4>3. CASE x = b /\ j = Len(batch[b].sent) + 1
        <5>1. batch'[b].sent[j].op = i BY <2>8, <2>17, <4>3
        <5>2. work[b][i] = "none" BY <1>4, <1>7, <1>14 DEF WorkOK
        <5> QED BY <1>9, <3>1, <4>3, <5>1, <5>2 DEF Loss
      <4> QED BY <2>19, <3>1, <4>1, <4>2, <4>3
    <3>2. RollbackOnly(s) => Noticed(s)'
      <4>1. \A x \in Batch : batch[x].session = s =>
              /\ batch'[x].session = s /\ batch'[x].tx = batch[x].tx
              /\ batch'[x].answers = batch[x].answers
        BY <2>16, <2>17
      <4>2. RollbackOnly(s) => RollbackOnly(s)' BY <1>1, <1>9, <4>1, StaysRollbackOnly
      <4> QED BY <4>2 DEF Noticed
    <3>3. ASSUME NEW x \in Batch, NEW j \in Nat, j \in 1..Len(batch[x].ops), InFlight(s, x, j),
                 work[x][j] # "none"
          PROVE Noticed(s)'
      <4>1. InFlight(s, x, j)' /\ batch'[x].ops = batch[x].ops BY <2>16, <2>17, <2>25, <3>3
      <4> QED BY <1>9, <3>3, <4>1 DEF Noticed
    <3>4. LossOK(s) /\ \A x \in Batch : batch[x].session = s => WorkOK(s, x) BY <1>3 DEF SessionOK
    <3> QED BY <1>9, <3>1, <3>2, <3>3, <3>4, LossKeeps
  <2>30. SessionOK(s)' BY <2>20, <2>23, <2>24, <2>25, <2>27, <2>28, <2>29, <2>38 DEF SessionOK
  <2>31. UNCHANGED <<free, trx, begun, ended, status, conn, autocommit, apiVars, lookup>>
    BY <1>9 DEF serverVars
  <2>32. /\ turn # None => turn.session = s
         /\ turn' \in Turns \cup {None} /\ (turn' # None => turn'.session = s)
    BY <1>2, <1>16
  <2>33. /\ work' \in [Batch -> Seq({"none", "open", "kept", "undone", "nothing"})]
         /\ Len(work'[b]) = Len(batch'[b].ops) /\ \A x \in Batch \ {b} : work'[x] = work[x]
    BY <1>1, <1>9, <2>17 DEF TypeOK
  <2>34. wire' \in [Conn -> Seq(Queries)] /\ \A d \in Conn \ {conn[s]} : wire'[d] = wire[d]
    BY <2>2, <2>5
  <2>35. batch[b].session \in {s, None} /\ conn[s] # None /\ handler[s] \in Handlers BY <1>4, <2>1
  <2> QED BY <1>10, <2>16, <2>17, <2>30, <2>31, <2>32, <2>33, <2>34, <2>35, StepKeeps
<1> QED BY <1>12, <1>15, <1>16
-----------------------------------------------------------------------------
(* A batch that the user executes.                                         *)

LEMMA NewBatch ==
  ASSUME IInv, NEW s \in Session, NEW b \in Batch, NEW ops \in Lists, UserExecute(s, b, ops)
  PROVE /\ batch' \in [Batch -> Batches] /\ \A x \in Batch \ {b} : batch'[x] = batch[x]
        /\ batch[b].session = None
        /\ batch'[b].session = s /\ batch'[b].ops = ops /\ ops # <<>> /\ batch'[b].tx = tx[s]
        /\ batch'[b].sent = <<>> /\ batch'[b].answers = <<>> /\ batch'[b].done = <<>> /\ Fresh(b)'
        /\ batch'[b].waited = (~HandlerOf(s).firstTime /\ HandlerOf(s).numberOfOperations > 0)
        /\ work' \in [Batch -> Seq({"none", "open", "kept", "undone", "nothing"})]
        /\ Len(work'[b]) = Len(batch'[b].ops) /\ \A x \in Batch \ {b} : work'[x] = work[x]
        /\ \A i \in 1..Len(batch'[b].ops) : work'[b][i] = "none"
        /\ status[s] = "open" /\ ending[s] = None /\ conn[s] # None /\ conn[s] \in Conn
<1>1. TypeOK /\ ConnsOK /\ UnusedOK BY DEF IInv
<1>2. /\ batch[b].session = None /\ status[s] = "open" /\ ending[s] = None
      /\ batch' = [batch EXCEPT ![b].session = s, ![b].ops = ops, ![b].tx = tx[s],
           ![b].waited = ~HandlerOf(s).firstTime /\ HandlerOf(s).numberOfOperations > 0]
      /\ work' = [work EXCEPT ![b] = [i \in 1..Len(ops) |-> "none"]]
  BY DEF UserExecute
<1>3. conn[s] # None /\ conn[s] \in Conn BY <1>1, <1>2 DEF ConnsOK, TypeOK
<1>4. ops \in Seq(Kinds) /\ ops # <<>> /\ Len(ops) \in Nat
  <2>1. ops \in Seq(Kinds) /\ ops # <<>> BY ConstantsAssumption
  <2> QED BY <2>1
<1>5. PICK o \in Batches : o = batch[b] BY <1>1, BatchIs
<1>6. o.sent = <<>> /\ o.answers = <<>> /\ o.done = <<>> /\ ~o.failed BY <1>1, <1>2, <1>5 DEF UnusedOK, Fresh
<1>7. PICK t \in Nat : t = tx[s] BY <1>1 DEF TypeOK
<1>17. PICK v \in BOOLEAN : v = (~HandlerOf(s).firstTime /\ HandlerOf(s).numberOfOperations > 0)
  OBVIOUS
<1>8. PICK m \in Batches : m = [o EXCEPT !.session = s, !.ops = ops, !.tx = t, !.waited = v]
  BY DEF Batches
<1>9. /\ m.session = s /\ m.ops = ops /\ m.tx = t /\ m.sent = o.sent /\ m.answers = o.answers
      /\ m.done = o.done /\ m.failed = o.failed /\ m.waited = v
  BY <1>8 DEF Batches
<1>10. batch' = [batch EXCEPT ![b] = m]
  <2>1. batch' = [batch EXCEPT ![b].session = s, ![b].ops = ops, ![b].tx = t, ![b].waited = v]
    BY <1>2, <1>7, <1>17
  <2> QED BY <1>1, <1>5, <1>8, <2>1 DEF TypeOK
<1>11. batch' \in [Batch -> Batches] /\ batch'[b] = m /\ \A x \in Batch \ {b} : batch'[x] = batch[x]
  BY <1>1, <1>10 DEF TypeOK
<1>12. PICK n : n = Len(ops) OBVIOUS
<1>13. PICK w : w = [i \in 1..n |-> "none"] OBVIOUS
<1>14. /\ w \in Seq({"none", "open", "kept", "undone", "nothing"}) /\ Len(w) = n
       /\ \A i \in 1..n : w[i] = "none"
  BY <1>4, <1>12, <1>13
<1>15. work' = [work EXCEPT ![b] = w] BY <1>2, <1>12, <1>13
<1>16. /\ work' \in [Batch -> Seq({"none", "open", "kept", "undone", "nothing"})]
       /\ work'[b] = w /\ \A x \in Batch \ {b} : work'[x] = work[x]
  BY <1>1, <1>14, <1>15 DEF TypeOK
<1>18. /\ batch'[b].sent = <<>> /\ batch'[b].answers = <<>> /\ batch'[b].done = <<>> /\ Fresh(b)'
  BY <1>6, <1>9, <1>11 DEF Fresh
<1>19. Len(work'[b]) = Len(batch'[b].ops) /\ \A i \in 1..Len(batch'[b].ops) : work'[b][i] = "none"
  BY <1>9, <1>11, <1>12, <1>14, <1>16
<1>20. /\ batch'[b].session = s /\ batch'[b].ops = ops /\ batch'[b].tx = tx[s]
       /\ batch'[b].waited = (~HandlerOf(s).firstTime /\ HandlerOf(s).numberOfOperations > 0)
  BY <1>7, <1>9, <1>11, <1>17
<1> QED BY <1>2, <1>3, <1>4, <1>11, <1>16, <1>18, <1>19, <1>20

\* What is left to show of each of the ways execute goes on.
LEMMA NewBatchKeeps ==
  ASSUME IInv, NEW s \in Session, NEW b \in Batch, NEW ops \in Lists, UserExecute(s, b, ops),
         NEW h \in Handlers, handler' = [handler EXCEPT ![s] = h], h.exists,
         turn # None => turn.session = s,
         turn' \in Turns \cup {None}, turn' # None => turn'.session = s,
         wire' \in [Conn -> Seq(Queries)], \A d \in Conn \ {conn[s]} : wire'[d] = wire[d],
         HandlerOK(s)', WireOK(s)', EndSent(s) => EndSent(s)',
         \A x, i : InFlight(s, x, i) => InFlight(s, x, i)',
         \A x \in Batch \ {b} : (Current(s, x)' => Current(s, x)) /\ (Waits(s, x)' => Waits(s, x)),
         Waits(s, b)' => ~Current(s, b)',
         Current(s, b)' => ~batch'[b].waited,
         \A x \in Batch \ {b} : Current(s, x)' => (Erred(s)' <=> Erred(s))
  PROVE IInv'
<1>1. TypeOK /\ SessionOK(s) BY DEF IInv
<1>2. /\ batch' \in [Batch -> Batches] /\ \A x \in Batch \ {b} : batch'[x] = batch[x]
      /\ batch[b].session = None
      /\ batch'[b].session = s /\ batch'[b].ops = ops /\ ops # <<>> /\ batch'[b].tx = tx[s]
      /\ batch'[b].sent = <<>> /\ batch'[b].answers = <<>> /\ batch'[b].done = <<>> /\ Fresh(b)'
      /\ work' \in [Batch -> Seq({"none", "open", "kept", "undone", "nothing"})]
      /\ Len(work'[b]) = Len(batch'[b].ops) /\ \A x \in Batch \ {b} : work'[x] = work[x]
      /\ \A i \in 1..Len(batch'[b].ops) : work'[b][i] = "none"
      /\ conn[s] # None
  BY NewBatch
<1>3. UNCHANGED <<free, trx, begun, ended, status, conn, autocommit, apiVars, lookup>>
  BY DEF UserExecute
<1>4. /\ trx' = trx /\ begun' = begun /\ ended' = ended /\ status' = status /\ conn' = conn
      /\ tx' = tx /\ nTx' = nTx /\ ending' = ending
      /\ UNCHANGED <<trx, begun, ended, status, conn, apiVars>>
  BY <1>3 DEF apiVars
<1>5. \A x \in Batch : batch[x].session = s => x # b /\ batch'[x] = batch[x] BY <1>2, NoneIs
<1>6. TxOK(s)'
  <2>1. handler'[s].exists BY <1>1 DEF TypeOK
  <2>2. \A x \in Batch : batch[x].session = s =>
          /\ batch'[x].session = s
          /\ \A j \in 1..Len(batch[x].sent) :
               j \in 1..Len(batch'[x].sent) /\ batch'[x].sent[j] = batch[x].sent[j]
    BY <1>5
  <2>3. \A x \in Batch : batch'[x].session = s =>
          batch'[x].tx = tx[s] \/ (batch[x].session = s /\ batch'[x].tx = batch[x].tx)
    BY <1>2
  <2> QED BY <1>1, <1>4, <2>1, <2>2, <2>3, TxAlike DEF SessionOK
<1>7. BatchOK(s, b)'
  <2>1. Len(batch'[b].answers) = 0 /\ Len(batch'[b].done) = 0 /\ Len(batch'[b].sent) = 0 BY <1>2
  <2>2. DoneOK(s, b)' BY <2>1 DEF DoneOK
  <2>3. ErrorOK(s, b)' BY <1>2, <2>1 DEF ErrorOK, Fresh
  <2> QED BY <1>2, <2>1, <2>2, <2>3 DEF BatchOK
<1>8. WorkOK(s, b)'
  <2>1. Len(batch'[b].sent) = 0 BY <1>2
  <2> QED BY <1>2, <2>1 DEF WorkOK
<1>9. ASSUME NEW x \in Batch, x # b, batch'[x].session = s PROVE BatchOK(s, x)' /\ WorkOK(s, x)'
  <2>1. batch'[x] = batch[x] /\ batch[x].session = s /\ work'[x] = work[x] BY <1>2, <1>9
  <2>2. BatchOK(s, x) /\ WorkOK(s, x) BY <1>1, <2>1 DEF SessionOK
  <2>3. (Current(s, x)' => Current(s, x)) /\ (Waits(s, x)' => Waits(s, x)) BY <1>9
  <2>6. Current(s, x)' => (Erred(s)' <=> Erred(s)) BY <1>9
  <2>4. BatchOK(s, x)' BY <2>1, <2>2, <2>3, <2>6, BatchAlike
  <2>5. WorkOK(s, x)' BY <1>4, <2>1, <2>2, WorkAlike
  <2> QED BY <2>4, <2>5
<1>12. LossOK(s)'
  <2>1. ASSUME NEW x \in Batch, batch'[x].session = s, NEW j \in 1..Len(batch'[x].sent),
               Loss(s, x, batch[x].sent[j])'
        PROVE batch[x].session = s /\ \E k \in 1..Len(batch[x].sent) : Loss(s, x, batch[x].sent[k])
    <3>1. Len(batch'[b].sent) = 0 BY <1>2
    <3>2. x # b BY <2>1, <3>1
    <3>3. batch'[x] = batch[x] /\ work'[x] = work[x] BY <1>2, <3>2
    <3> QED BY <1>4, <2>1, <3>3 DEF Loss
  <2>2. RollbackOnly(s) => Noticed(s)'
    <3>1. RollbackOnly(s) => RollbackOnly(s)' BY <1>1, <1>4, <1>5, StaysRollbackOnly
    <3> QED BY <3>1 DEF Noticed
  <2>3. ASSUME NEW x \in Batch, NEW j \in Nat, j \in 1..Len(batch[x].ops), InFlight(s, x, j),
               work[x][j] # "none"
        PROVE Noticed(s)'
    <3>1. PICK k \in 1..Len(wire[conn[s]]) : wire[conn[s]][k] = Query("op", x, j)
      BY <2>3 DEF InFlight
    <3>2. InFlightOK(s, x, j)
      <4>1. WireOK(s) BY <1>1, <1>2 DEF SessionOK
      <4> QED BY <3>1, <4>1 DEF WireOK, QueryOK, Query
    <3>3. x # b /\ batch'[x] = batch[x] /\ work'[x] = work[x] BY <1>2, <1>5, <3>2 DEF InFlightOK
    <3>4. InFlight(s, x, j)' BY <2>3
    <3> QED BY <2>3, <3>3, <3>4 DEF Noticed
  <2>4. LossOK(s) /\ \A x \in Batch : batch[x].session = s => WorkOK(s, x) BY <1>1 DEF SessionOK
  <2> QED BY <1>4, <2>1, <2>2, <2>3, <2>4, LossKeeps
<1>10. SessionOK(s)' BY <1>6, <1>7, <1>8, <1>9, <1>12 DEF SessionOK
<1>11. batch[b].session \in {s, None} /\ batch'[b].session = s BY <1>2
<1> QED BY <1>2, <1>3, <1>10, <1>11, StepKeeps

LEMMA HandlerOfIs ==
  ASSUME TypeOK, NEW s \in Session, SessionOK(s)
  PROVE /\ HandlerOf(s) \in Handlers /\ HandlerOf(s).exists
        /\ handler[s].exists => HandlerOf(s) = handler[s]
        /\ ~handler[s].exists =>
             /\ ~HandlerOf(s).firstTime /\ HandlerOf(s).numberOfOperations = 0
             /\ HandlerOf(s).executed = 0 /\ HandlerOf(s).pendingBatches = <<>>
             /\ ~handler[s].firstTime /\ ~Runs(s) /\ handler[s].numberOfOperations = 0
<1>1. handler[s] \in Handlers BY DEF TypeOK
<1>2. handler[s].exists => HandlerOf(s) = handler[s] BY DEF HandlerOf
<1>3. ASSUME ~handler[s].exists
      PROVE /\ HandlerOf(s) \in Handlers /\ HandlerOf(s).exists
            /\ ~HandlerOf(s).firstTime /\ HandlerOf(s).numberOfOperations = 0
            /\ HandlerOf(s).executed = 0 /\ HandlerOf(s).pendingBatches = <<>>
            /\ ~handler[s].firstTime /\ ~Runs(s) /\ handler[s].numberOfOperations = 0
  <2>1. autocommit[s] BY <1>3 DEF SessionOK, HandlerOK
  <2>2. PICK e \in BOOLEAN : e = ~autocommit[s] OBVIOUS
  <2>3. ~e BY <2>1, <2>2
  <2>4. HandlerOf(s) = [NoHandler EXCEPT !.exists = TRUE, !.firstTime = e]
    BY <1>3, <2>2 DEF HandlerOf, NewHandler
  <2>5. PICK h : h = [NoHandler EXCEPT !.exists = TRUE, !.firstTime = e] OBVIOUS
  <2>6. /\ h \in Handlers /\ h.exists /\ h.firstTime = e /\ h.numberOfOperations = 0
        /\ h.executed = 0 /\ h.pendingBatches = <<>>
    BY <2>5, NoHandlerIs
  <2>7. ~handler[s].firstTime BY <1>3 DEF SessionOK, HandlerOK, FirstOK
  <2>8. ~Runs(s) /\ ~(handler[s].numberOfOperations > 0) BY <1>3 DEF SessionOK, HandlerOK, RunOK
  <2>9. handler[s].numberOfOperations = 0 BY <1>1, <2>8 DEF Handlers
  <2> QED BY <2>3, <2>4, <2>5, <2>6, <2>7, <2>8, <2>9
<1> QED BY <1>1, <1>2, <1>3

\* What is in flight on the connection when the user executes a batch.
LEMMA ExecuteWire ==
  ASSUME TypeOK, ConnsOK, NEW s \in Session, SessionOK(s), status[s] = "open", ending[s] = None
  PROVE /\ WireOK(s)
        /\ \A p \in Queries, j \in 1..Len(wire[conn[s]]) : p = wire[conn[s]][j] =>
             \/ p.what = "metadata"
             \/ p.what = "begin" /\ p.for = s /\ handler[s].firstTime
             \/ p.what = "op" /\ InFlightOK(s, p.for, p.op)
<1>1. WireOK(s) BY DEF ConnsOK, SessionOK
<1>2. ASSUME NEW p \in Queries, NEW j \in 1..Len(wire[conn[s]]), p = wire[conn[s]][j]
      PROVE \/ p.what = "metadata"
            \/ p.what = "begin" /\ p.for = s /\ handler[s].firstTime
            \/ p.what = "op" /\ InFlightOK(s, p.for, p.op)
  <2>1. QueryOK(s, p) BY <1>1, <1>2 DEF WireOK
  <2>2. p.what # "setup" BY <2>1 DEF QueryOK
  <2>3. ~IsEnd(p) BY <2>1, NoneIs DEF QueryOK, IsEnd
  <2> QED BY <2>1, <2>2, <2>3 DEF QueryOK, IsEnd, Queries
<1> QED BY <1>1, <1>2

\* execute for the first time: `begin' is sent.
LEMMA ExecuteFirst ==
  ASSUME IInv, Patient, NEW s \in Session, NEW b \in Batch, NEW ops \in Lists,
         UserExecute(s, b, ops), HandlerOf(s).firstTime
  PROVE IInv'
<1>1. TypeOK /\ ConnsOK /\ SessionOK(s) BY DEF IInv
<1>2. /\ HandlerOf(s) = handler[s] /\ handler[s].exists /\ handler[s].firstTime
      /\ handler[s] \in Handlers
  BY <1>1, HandlerOfIs
<1>3. FirstOK(s) BY <1>1, <1>2 DEF SessionOK, HandlerOK
<1>4. /\ batch' \in [Batch -> Batches] /\ \A x \in Batch \ {b} : batch'[x] = batch[x]
      /\ batch[b].session = None
      /\ batch'[b].session = s /\ batch'[b].tx = tx[s] /\ Fresh(b)'
      /\ status[s] = "open" /\ ending[s] = None /\ conn[s] # None
  BY NewBatch
<1>5. PICK c \in Conn : conn[s] = c BY <1>1, <1>4 DEF TypeOK
<1>6. PICK h \in Handlers : h = [handler[s] EXCEPT !.operationsList = b] BY <1>2 DEF Handlers
<1>7. /\ h.exists /\ h.firstTime /\ h.numberOfOperations = 0 /\ h.executed = 0
      /\ h.operationsList = b /\ h.pendingBatches = handler[s].pendingBatches
  BY <1>1, <1>2, <1>3, <1>6 DEF Handlers, FirstOK, SessionOK, HandlerOK
<1>8. /\ handler' = [handler EXCEPT ![s] = h] /\ Send(c, Query("begin", s, tx[s])) /\ turn' = turn
      /\ UNCHANGED <<free, trx, begun, ended, status, conn, autocommit, apiVars, lookup>>
      /\ ~Beginning(s) /\ (turn = None \/ InCallback(s))
  BY <1>2, <1>5, <1>6 DEF UserExecute, Execute, Quiet
<1>9. /\ trx' = trx /\ begun' = begun /\ status' = status /\ conn' = conn /\ tx' = tx
      /\ ending' = ending /\ autocommit' = autocommit /\ nTx' = nTx
  BY <1>8 DEF apiVars
<1>10. handler'[s] = h BY <1>1, <1>8 DEF TypeOK
<1>11. ~Runs(s) /\ ~Runs(s)' BY <1>3, <1>8 DEF FirstOK, Runs
<1>12. turn = None BY <1>8, <1>11 DEF InCallback, Runs
<1>13. ~BeginSent(s)
  <2> SUFFICES ASSUME BeginSent(s) PROVE FALSE
    OBVIOUS
  <2>1. PICK j \in 1..Len(wire[c]) : wire[c][j].what = "begin" BY <1>5 DEF BeginSent
  <2>2. wire[c][j].for = s BY <1>1, <1>4, <1>5, <2>1 DEF SessionOK, WireOK, QueryOK
  <2> QED BY <1>8, <2>1, <2>2 DEF Beginning
<1>14. \A x \in Batch : batch[x].session # s BY <1>3, <1>13 DEF FirstOK
<1>15. PICK q \in Queries : q = Query("begin", s, tx[s]) BY <1>1, QueryIs DEF TypeOK
<1>16. q.what = "begin" /\ q.for = s /\ q.op = tx[s] /\ Send(c, q) BY <1>8, <1>15 DEF Query
<1>17. /\ wire' \in [Conn -> Seq(Queries)]
       /\ \A d \in Conn \ {c} : wire'[d] = wire[d]
       /\ Len(wire[c]) \in Nat /\ Len(wire'[c]) = Len(wire[c]) + 1
       /\ \A j \in 1..Len(wire[c]) : wire'[c][j] = wire[c][j] /\ wire[c][j] \in Queries
       /\ wire'[c][Len(wire[c]) + 1] = q
  BY <1>1, <1>16, Appends
<1>18. /\ WireOK(s)
       /\ \A p \in Queries, j \in 1..Len(wire[c]) : p = wire[c][j] => p.what = "metadata"
  <2>1. /\ WireOK(s)
        /\ \A p \in Queries, j \in 1..Len(wire[conn[s]]) : p = wire[conn[s]][j] =>
             \/ p.what = "metadata"
             \/ p.what = "begin" /\ p.for = s /\ handler[s].firstTime
             \/ p.what = "op" /\ InFlightOK(s, p.for, p.op)
    BY <1>1, <1>4, ExecuteWire
  <2>2. ASSUME NEW p \in Queries, NEW j \in 1..Len(wire[c]), p = wire[c][j]
        PROVE p.what = "metadata"
    <3>1. \/ p.what = "metadata"
          \/ p.what = "begin" /\ p.for = s /\ handler[s].firstTime
          \/ p.what = "op" /\ InFlightOK(s, p.for, p.op)
      BY <1>5, <2>1, <2>2
    <3>2. p.what # "begin" BY <1>5, <1>13, <2>2 DEF BeginSent
    <3>3. ~InFlightOK(s, p.for, p.op) BY <1>3 DEF InFlightOK, FirstOK
    <3> QED BY <3>1, <3>2, <3>3
  <2> QED BY <2>1, <2>2
<1>19. /\ WireOK(s)'
       /\ EndSent(s) => EndSent(s)'
       /\ \A x, i : InFlight(s, x, i) => InFlight(s, x, i)'
  <2>1. \A p \in Queries, j \in 1..Len(wire[c]) : p = wire[c][j] =>
            /\ QueryOK(s, p)'
            /\ p.what = "op" => batch'[p.for].sent = batch[p.for].sent
            /\ p.what # q.what \/ q.what = "metadata"
    BY <1>16, <1>18 DEF QueryOK, IsEnd
  <2>2. QueryOK(s, q)' BY <1>4, <1>7, <1>9, <1>10, <1>16, NoneIs DEF QueryOK, IsEnd
  <2>3. \A n \in Nat : n = Len(wire[c]) + 1 => OrderOK(s, n)'
    BY <1>5, <1>9, <1>16, <1>17 DEF OrderOK
  <2>4. conn[s] = c /\ conn'[s] = c /\ trx'[c] = trx[c] BY <1>5, <1>9
  <2> QED BY <1>1, <1>16, <1>18, <2>1, <2>2, <2>3, <2>4, WireAppends
<1>20. BeginSent(s)'
  <2>1. Len(wire[c]) + 1 \in 1..Len(wire'[c]) BY <1>17
  <2> QED BY <1>5, <1>9, <1>16, <1>17, <2>1 DEF BeginSent
<1>21. FirstOK(s)' BY <1>3, <1>4, <1>7, <1>9, <1>10, <1>11, <1>14, <1>20 DEF FirstOK
<1>22. /\ handler[s].pendingBatches \in Seq(Batch)
       /\ \A j \in 1..Len(handler[s].pendingBatches) : FALSE
  <2>1. handler[s].pendingBatches \in Seq(Batch) BY <1>2 DEF Handlers
  <2>2. ASSUME NEW j \in 1..Len(handler[s].pendingBatches) PROVE FALSE
    <3>1. PICK x \in Batch : x = handler[s].pendingBatches[j] BY <2>1
    <3>2. batch[x].session = s BY <1>1, <3>1 DEF SessionOK, HandlerOK
    <3> QED BY <1>14, <3>2
  <2> QED BY <2>1, <2>2
<1>23. HandlerOK(s)'
  BY <1>7, <1>10, <1>11, <1>21, <1>22 DEF HandlerOK
<1>24. /\ \A x \in Batch \ {b} : (Current(s, x)' => Current(s, x)) /\ (Waits(s, x)' => Waits(s, x))
       /\ Waits(s, b)' => ~Current(s, b)'
       /\ \A x \in Batch \ {b} : ~Current(s, x)'
  BY <1>7, <1>10, <1>22 DEF Current, Waits
<1>27. ~batch'[b].waited
  <2>1. batch'[b].waited = (~HandlerOf(s).firstTime /\ HandlerOf(s).numberOfOperations > 0)
    BY NewBatch
  <2> QED BY <2>1
<1>25. /\ turn # None => turn.session = s
       /\ turn' \in Turns \cup {None} /\ (turn' # None => turn'.session = s)
  BY <1>8, <1>12
<1>26. \A d \in Conn \ {conn[s]} : wire'[d] = wire[d] BY <1>5, <1>17
<1> QED BY <1>7, <1>8, <1>17, <1>19, <1>23, <1>24, <1>25, <1>26, <1>27, NewBatchKeeps

\* execute while a batch is executed: the new one waits.
LEMMA ExecuteWaits ==
  ASSUME IInv, NEW s \in Session, NEW b \in Batch, NEW ops \in Lists,
         UserExecute(s, b, ops), ~HandlerOf(s).firstTime, HandlerOf(s).numberOfOperations > 0
  PROVE IInv'
<1>1. TypeOK /\ ConnsOK /\ SessionOK(s) BY DEF IInv
<1>2. /\ HandlerOf(s) = handler[s] /\ handler[s].exists /\ handler[s] \in Handlers
      /\ ~handler[s].firstTime /\ handler[s].numberOfOperations > 0
  <2>1. handler[s].exists BY <1>1, HandlerOfIs
  <2> QED BY <1>1, <2>1, HandlerOfIs
<1>3. RunOK(s) BY <1>1, <1>2 DEF SessionOK, HandlerOK
<1>4. /\ batch' \in [Batch -> Batches] /\ \A x \in Batch \ {b} : batch'[x] = batch[x]
      /\ batch[b].session = None /\ batch'[b].session = s
      /\ status[s] = "open" /\ ending[s] = None /\ conn[s] # None
  BY NewBatch
<1>5. PICK c \in Conn : conn[s] = c BY <1>1, <1>4 DEF TypeOK
<1>6. PICK o \in Seq(Batch) : o = handler[s].pendingBatches BY <1>2 DEF Handlers
<1>7. PICK z : z = Append(o, b) OBVIOUS
<1>8. /\ z \in Seq(Batch) /\ Len(o) \in Nat /\ Len(z) = Len(o) + 1 /\ z[Len(o) + 1] = b
      /\ \A j \in 1..Len(o) : z[j] = o[j]
      /\ \A j \in 1..Len(z) : j \in 1..Len(o) \/ j = Len(o) + 1
  BY <1>7
<1>9. PICK h \in Handlers : h = [handler[s] EXCEPT !.pendingBatches = z] BY <1>2, <1>8 DEF Handlers
<1>10. /\ h.exists /\ ~h.firstTime /\ h.numberOfOperations = handler[s].numberOfOperations
       /\ h.executed = handler[s].executed /\ h.currentOperation = handler[s].currentOperation
       /\ h.operationsList = handler[s].operationsList /\ h.pendingBatches = z
       /\ h.error = handler[s].error
  BY <1>2, <1>9 DEF Handlers
<1>11. /\ handler' = [handler EXCEPT ![s] = h] /\ turn' = turn /\ wire' = wire
       /\ UNCHANGED <<free, trx, begun, ended, status, conn, autocommit, apiVars, lookup>>
       /\ (turn = None \/ InCallback(s))
  BY <1>2, <1>6, <1>7, <1>9 DEF UserExecute, Execute, Quiet
<1>12. /\ trx' = trx /\ begun' = begun /\ status' = status /\ conn' = conn /\ tx' = tx
       /\ ending' = ending
  BY <1>11 DEF apiVars
<1>13. handler'[s] = h BY <1>1, <1>11 DEF TypeOK
<1>14. (Runs(s)' <=> Runs(s)) /\ \A d : Does(s, d)' <=> Does(s, d) BY <1>11 DEF Runs, Does
<1>15. PICK a \in Batch : a = handler[s].operationsList BY <1>2, <1>3 DEF RunOK, Handlers
<1>16. /\ batch[a].session = s /\ a # b /\ batch'[a] = batch[a] /\ PlaceOK(s, a)
       /\ handler[s].numberOfOperations # 0
  <2>1. batch[a].session = s /\ PlaceOK(s, a) BY <1>2, <1>3, <1>15 DEF RunOK
  <2>2. a # b BY <1>4, <2>1, NoneIs
  <2> QED BY <1>2, <1>4, <2>1, <2>2
<1>17. RunOK(s)'
  <2>1. PlaceOK(s, a)' BY <1>10, <1>13, <1>14, <1>16 DEF PlaceOK
  <2> QED BY <1>3, <1>10, <1>12, <1>13, <1>15, <1>16, <2>1 DEF RunOK
<1>18. ASSUME NEW j \in 1..Len(o) PROVE o[j] \in Batch /\ o[j] # b /\ batch'[o[j]].session = s
  <2>1. PICK x \in Batch : x = o[j] BY <1>18
  <2>2. batch[x].session = s BY <1>1, <1>6, <2>1 DEF SessionOK, HandlerOK
  <2>3. x # b BY <1>4, <2>2, NoneIs
  <2> QED BY <1>4, <2>1, <2>2, <2>3
<1>19. \A j \in 1..Len(z) : batch'[z[j]].session = s BY <1>4, <1>8, <1>18
<1>20. ASSUME NEW i \in 1..Len(z), NEW j \in 1..Len(z), z[i] = z[j] PROVE i = j
  <2>1. CASE i \in 1..Len(o) /\ j \in 1..Len(o)
    <3>1. o[i] = o[j] BY <1>8, <1>20, <2>1
    <3> QED BY <1>1, <1>6, <2>1, <3>1 DEF SessionOK, HandlerOK
  <2>2. CASE i = Len(o) + 1
    <3>1. z[j] = b BY <1>8, <1>20, <2>2
    <3>2. ~(j \in 1..Len(o)) BY <1>8, <1>18, <3>1
    <3> QED BY <1>8, <2>2, <3>2
  <2>3. CASE j = Len(o) + 1
    <3>1. z[i] = b BY <1>8, <1>20, <2>3
    <3>2. ~(i \in 1..Len(o)) BY <1>8, <1>18, <3>1
    <3> QED BY <1>8, <2>3, <3>2
  <2> QED BY <1>8, <2>1, <2>2, <2>3
<1>21. HandlerOK(s)'
  <2>1. \A i, j \in 1..Len(z) : z[i] = z[j] => i = j BY <1>20
  <2> QED BY <1>10, <1>13, <1>16, <1>17, <1>19, <2>1 DEF HandlerOK
<1>22. WireOK(s)'
  <2>1. /\ WireOK(s)
        /\ \A p \in Queries, j \in 1..Len(wire[conn[s]]) : p = wire[conn[s]][j] =>
             \/ p.what = "metadata"
             \/ p.what = "begin" /\ p.for = s /\ handler[s].firstTime
             \/ p.what = "op" /\ InFlightOK(s, p.for, p.op)
    BY <1>1, <1>4, ExecuteWire
  <2>2. ASSUME NEW j \in 1..Len(wire[c]) PROVE QueryOK(s, wire[c][j])' /\ OrderOK(s, j)'
    <3>1. PICK p \in Queries : p = wire[c][j] BY <1>1, <1>5 DEF TypeOK
    <3>2. p.what = "metadata" \/ (p.what = "op" /\ InFlightOK(s, p.for, p.op))
      BY <1>2, <1>5, <2>1, <3>1
    <3>3. CASE p.what = "metadata"
      <4>1. QueryOK(s, p)' BY <3>3 DEF QueryOK, IsEnd
      <4>2. OrderOK(s, j)' BY <1>5, <1>11, <1>12, <3>1, <3>3 DEF OrderOK
      <4> QED BY <1>11, <3>1, <4>1, <4>2, <3>3 DEF QueryOK, IsEnd
    <3>4. CASE p.what = "op" /\ InFlightOK(s, p.for, p.op)
      <4>1. PICK x : x = p.for OBVIOUS
      <4>2. InFlightOK(s, x, p.op) /\ x = a BY <1>15, <3>4, <4>1 DEF InFlightOK
      <4>3. LastSent(a)' = LastSent(a) BY <1>16 DEF LastSent
      <4>4. InFlightOK(s, a, p.op)'
        BY <1>4, <1>10, <1>12, <1>13, <1>14, <1>16, <4>2, <4>3 DEF InFlightOK
      <4>5. QueryOK(s, p)' BY <3>4, <4>1, <4>2, <4>4 DEF QueryOK, IsEnd, InFlightOK, LastSent
      <4>6. OrderOK(s, j) /\ wire[c][j].for = a BY <1>5, <2>1, <3>1, <4>1, <4>2 DEF WireOK
      <4>7. EndBefore(s, j)' <=> EndBefore(s, j) BY <1>11, <1>12 DEF EndBefore
      <4>8. OrderOK(s, j)' BY <1>5, <1>11, <1>12, <4>3, <4>6, <4>7 DEF OrderOK, LastSent
      <4>9. QueryOK(s, wire[c][j])' BY <1>11, <3>1, <4>5 DEF QueryOK, InFlightOK, LastSent
      <4> QED BY <4>8, <4>9
    <3> QED BY <3>2, <3>3, <3>4
  <2>3. \A j \in 1..Len(wire[c]) : QueryOK(s, wire[c][j])' /\ OrderOK(s, j)' BY <2>2
  <2> QED BY <1>5, <1>11, <1>12, <2>1, <2>3 DEF WireOK
<1>23. EndSent(s) => EndSent(s)' BY <1>11, <1>12 DEF EndSent
<1>24. \A x, i : InFlight(s, x, i) => InFlight(s, x, i)' BY <1>11, <1>12 DEF InFlight
<1>25. \A x \in Batch \ {b} : (Current(s, x)' => Current(s, x)) /\ (Waits(s, x)' => Waits(s, x))
  <2> SUFFICES ASSUME NEW x \in Batch \ {b}
               PROVE (Current(s, x)' => Current(s, x)) /\ (Waits(s, x)' => Waits(s, x))
    OBVIOUS
  <2>1. Current(s, x)' => Current(s, x) BY <1>10, <1>13, <1>14 DEF Current
  <2>2. Waits(s, x)' => Waits(s, x)
    <3> SUFFICES ASSUME NEW j \in 1..Len(z), z[j] = x PROVE Waits(s, x)
      BY <1>10, <1>13 DEF Waits
    <3>1. j \in 1..Len(o) /\ o[j] = x BY <1>8
    <3> QED BY <1>6, <3>1 DEF Waits
  <2> QED BY <2>1, <2>2
<1>26. ~Current(s, b)' BY <1>10, <1>13, <1>15, <1>16 DEF Current
<1>29. Erred(s)' <=> Erred(s) BY <1>10, <1>11, <1>13, <1>14 DEF Erred
<1>27. /\ turn # None => turn.session = s
       /\ turn' \in Turns \cup {None} /\ (turn' # None => turn'.session = s)
  BY <1>1, <1>11 DEF InCallback, TypeOK
<1>28. wire' \in [Conn -> Seq(Queries)] /\ \A d \in Conn \ {conn[s]} : wire'[d] = wire[d]
  BY <1>1, <1>11 DEF TypeOK
<1> QED BY <1>10, <1>11, <1>21, <1>22, <1>23, <1>24, <1>25, <1>26, <1>27, <1>28,
       <1>29, NewBatchKeeps

\* execute while the handler has nothing to do: its operations are next.
LEMMA ExecuteNow ==
  ASSUME IInv, NEW s \in Session, NEW b \in Batch, NEW ops \in Lists,
         UserExecute(s, b, ops), ~HandlerOf(s).firstTime, ~(HandlerOf(s).numberOfOperations > 0)
  PROVE IInv'
<1>1. TypeOK /\ ConnsOK /\ SessionOK(s) BY DEF IInv
<1>2. PICK g \in Handlers : g = HandlerOf(s) BY <1>1, HandlerOfIs
<1>3. /\ g.exists /\ ~g.firstTime /\ g.numberOfOperations = 0
      /\ handler[s].exists => g = handler[s]
      /\ ~handler[s].exists => g.executed = 0 /\ g.pendingBatches = <<>> /\ ~Runs(s)
      /\ ~handler[s].firstTime /\ ~(handler[s].numberOfOperations > 0)
  BY <1>1, <1>2, HandlerOfIs DEF Handlers
<1>4. /\ batch' \in [Batch -> Batches] /\ \A x \in Batch \ {b} : batch'[x] = batch[x]
      /\ batch[b].session = None /\ batch'[b].session = s
      /\ batch'[b].sent = <<>> /\ batch'[b].answers = <<>>
      /\ status[s] = "open" /\ ending[s] = None /\ conn[s] # None
  BY NewBatch
<1>5. PICK h \in Handlers : h = [g EXCEPT !.operationsList = b] BY DEF Handlers
<1>6. g.executed = 0 BY <1>1, <1>3 DEF SessionOK, HandlerOK
<1>7. /\ h.exists /\ ~h.firstTime /\ h.numberOfOperations = 0 /\ h.executed = 0
      /\ h.operationsList = b /\ h.pendingBatches = g.pendingBatches
  BY <1>3, <1>5, <1>6 DEF Handlers
<1>8. /\ handler' = [handler EXCEPT ![s] = h] /\ wire' = wire
      /\ turn' = [session |-> s, does |-> "operations"]
      /\ UNCHANGED <<free, trx, begun, ended, status, conn, autocommit, apiVars, lookup>>
      /\ (turn = None \/ InCallback(s))
  BY <1>2, <1>3, <1>5 DEF UserExecute, Execute, Quiet
<1>9. /\ trx' = trx /\ begun' = begun /\ status' = status /\ conn' = conn /\ tx' = tx
      /\ ending' = ending
  BY <1>8 DEF apiVars
<1>10. handler'[s] = h BY <1>1, <1>8 DEF TypeOK
<1>11. ~InCallback(s)
  <2> SUFFICES ASSUME InCallback(s) PROVE FALSE
    OBVIOUS
  <2>1. Runs(s) /\ ~Does(s, "operations") BY DEF InCallback, Runs, Does
  <2>2. RunOK(s) BY <1>1, <2>1 DEF SessionOK, HandlerOK
  <2>3. handler[s].numberOfOperations = 0 BY <1>1, <1>3 DEF TypeOK, Handlers
  <2> QED BY <2>1, <2>2, <2>3 DEF RunOK
<1>12. turn = None BY <1>8, <1>11
<1>13. turn' \in Turns /\ turn' # None /\ turn'.session = s /\ Does(s, "operations")' /\ Runs(s)'
  BY <1>8, TurnIs DEF Runs, Does
<1>14. RunOK(s)' BY <1>4, <1>7, <1>9, <1>10, <1>13, NoneIs DEF RunOK
<1>15. PICK o \in Seq(Batch) : o = g.pendingBatches BY DEF Handlers
<1>16. /\ \A j \in 1..Len(o) : o[j] \in Batch /\ o[j] # b /\ batch'[o[j]].session = s
       /\ \A i, j \in 1..Len(o) : o[i] = o[j] => i = j
       /\ \A x \in Batch : (\E j \in 1..Len(o) : o[j] = x) => Waits(s, x)
  <2>1. CASE handler[s].exists
    <3>1. o = handler[s].pendingBatches BY <1>3, <1>15, <2>1
    <3>2. ASSUME NEW j \in 1..Len(o) PROVE o[j] \in Batch /\ o[j] # b /\ batch'[o[j]].session = s
      <4>1. PICK x \in Batch : x = o[j] BY <3>2
      <4>2. batch[x].session = s BY <1>1, <3>1, <4>1 DEF SessionOK, HandlerOK
      <4>3. x # b BY <1>4, <4>2, NoneIs
      <4> QED BY <1>4, <4>1, <4>2, <4>3
    <3>3. \A i, j \in 1..Len(o) : o[i] = o[j] => i = j BY <1>1, <3>1 DEF SessionOK, HandlerOK
    <3>4. \A x \in Batch : (\E j \in 1..Len(o) : o[j] = x) => Waits(s, x) BY <3>1 DEF Waits
    <3> QED BY <3>2, <3>3, <3>4
  <2>2. CASE ~handler[s].exists
    <3>1. Len(o) = 0 BY <1>3, <1>15, <2>2
    <3> QED BY <3>1
  <2> QED BY <2>1, <2>2
<1>17. HandlerOK(s)' BY <1>7, <1>10, <1>14, <1>15, <1>16 DEF HandlerOK
<1>18. /\ WireOK(s)
       /\ \A p \in Queries, j \in 1..Len(wire[conn[s]]) : p = wire[conn[s]][j] => p.what = "metadata"
  <2>1. /\ WireOK(s)
        /\ \A p \in Queries, j \in 1..Len(wire[conn[s]]) : p = wire[conn[s]][j] =>
             \/ p.what = "metadata"
             \/ p.what = "begin" /\ p.for = s /\ handler[s].firstTime
             \/ p.what = "op" /\ InFlightOK(s, p.for, p.op)
    BY <1>1, <1>4, ExecuteWire
  <2>2. \A x, i : ~InFlightOK(s, x, i) BY <1>3 DEF InFlightOK
  <2> QED BY <1>3, <2>1, <2>2
<1>19. WireOK(s)'
  <2>1. ASSUME NEW j \in 1..Len(wire[conn[s]]) PROVE QueryOK(s, wire[conn[s]][j])' /\ OrderOK(s, j)'
    <3>1. PICK p \in Queries : p = wire[conn[s]][j] BY <1>1, <1>4 DEF TypeOK
    <3>2. p.what = "metadata" BY <1>18, <3>1
    <3>3. QueryOK(s, p)' BY <3>2 DEF QueryOK, IsEnd
    <3> QED BY <1>8, <1>9, <3>1, <3>2, <3>3 DEF QueryOK, OrderOK, IsEnd
  <2> QED BY <1>8, <1>9, <1>18, <2>1 DEF WireOK
<1>20. EndSent(s) => EndSent(s)' BY <1>8, <1>9 DEF EndSent
<1>21. \A x, i : InFlight(s, x, i) => InFlight(s, x, i)' BY <1>8, <1>9 DEF InFlight
<1>26. ~batch'[b].waited
  <2>1. batch'[b].waited = (~HandlerOf(s).firstTime /\ HandlerOf(s).numberOfOperations > 0)
    BY NewBatch
  <2> QED BY <2>1
<1>22. \A x \in Batch \ {b} : ~Current(s, x)' /\ (Waits(s, x)' => Waits(s, x))
  BY <1>7, <1>10, <1>15, <1>16 DEF Current, Waits
<1>23. ~Waits(s, b)' BY <1>7, <1>10, <1>15, <1>16 DEF Waits
<1>24. /\ turn # None => turn.session = s
       /\ turn' \in Turns \cup {None} /\ (turn' # None => turn'.session = s)
  BY <1>12, <1>13
<1>25. wire' \in [Conn -> Seq(Queries)] /\ \A d \in Conn \ {conn[s]} : wire'[d] = wire[d]
  BY <1>1, <1>8 DEF TypeOK
<1> QED BY <1>7, <1>8, <1>17, <1>19, <1>20, <1>21, <1>22, <1>23, <1>24, <1>25,
       <1>26, NewBatchKeeps

LEMMA UserExecuteKeeps ==
  ASSUME IInv, Patient, NEW s \in Session, NEW b \in Batch, NEW ops \in Lists, UserExecute(s, b, ops)
  PROVE IInv'
<1>1. CASE HandlerOf(s).firstTime BY <1>1, ExecuteFirst
<1>2. CASE ~HandlerOf(s).firstTime /\ HandlerOf(s).numberOfOperations > 0 BY <1>2, ExecuteWaits
<1>3. CASE ~HandlerOf(s).firstTime /\ ~(HandlerOf(s).numberOfOperations > 0) BY <1>3, ExecuteNow
<1> QED BY <1>1, <1>2, <1>3

-----------------------------------------------------------------------------
(* The invariant.                                                          *)

LEMMA InitHolds == Init => IInv
<1> SUFFICES ASSUME Init PROVE IInv
  OBVIOUS
<1>1. \A c \in Conn : wire[c] = <<>> /\ trx[c] = None BY DEF Init
<1>2. \A s \in Session : /\ status[s] = "new" /\ conn[s] = None /\ autocommit[s]
                         /\ handler[s] = NoHandler /\ tx[s] = 0 /\ nTx[s] = 0 /\ ending[s] = None
  BY DEF Init
<1>3. \A b \in Batch : /\ batch[b].session = None /\ batch[b].ops = <<>> /\ batch[b].sent = <<>>
                       /\ batch[b].answers = <<>> /\ batch[b].done = <<>> /\ work[b] = <<>>
                       /\ ~batch[b].failed
  BY DEF Init
<1>4. TypeOK
  <2>1. wire \in [Conn -> Seq(Queries)]
    <3>1. <<>> \in Seq(Queries) OBVIOUS
    <3> QED BY <3>1 DEF Init
  <2>2. handler \in [Session -> Handlers] BY NoHandlerIs DEF Init
  <2>3. batch \in [Batch -> Batches]
    <3>1. /\ <<>> \in Seq(Sends) /\ <<>> \in Seq(Nat \X Answers) /\ <<>> \in Seq(Calls)
          /\ <<>> \in Lists \cup {<<>>}
      OBVIOUS
    <3>2. [session |-> None, ops |-> <<>>, tx |-> 0, waited |-> FALSE, sent |-> <<>>,
           answers |-> <<>>, failed |-> FALSE, done |-> <<>>] \in Batches
      BY <3>1 DEF Batches
    <3> QED BY <3>2 DEF Init
  <2>4. work \in [Batch -> Seq({"none", "open", "kept", "undone", "nothing"})]
    <3>1. <<>> \in Seq({"none", "open", "kept", "undone", "nothing"}) OBVIOUS
    <3> QED BY <3>1 DEF Init
  <2>5. \A b \in Batch : Len(work[b]) = Len(batch[b].ops) BY <1>3
  <2>6. lookup \in [Lookup -> [state : {"new", "waiting", "asked", "done"}, conn : Conn \cup {None}]]
    BY DEF Init
  <2>7. ended \in Ends BY DEF Init, Ends
  <2>8. /\ free \subseteq Conn /\ trx \in [Conn -> ServerTransactions \cup {None}]
        /\ status \in [Session -> {"new", "setup", "open", "failed", "closed"}]
        /\ conn \in [Session -> Conn \cup {None}] /\ autocommit \in [Session -> BOOLEAN]
        /\ turn \in Turns \cup {None} /\ tx \in [Session -> Nat] /\ nTx \in [Session -> Nat]
        /\ ending \in [Session -> {None, "commit", "rollback"}] /\ begun \subseteq Transactions
    BY DEF Init
  <2> QED BY <2>1, <2>2, <2>3, <2>4, <2>5, <2>6, <2>7, <2>8 DEF TypeOK
<1>5. ConnsOK
  <2>1. \A k \in Lookup : lookup[k].conn = None BY DEF Init
  <2>2. \A s \in Session : conn[s] \notin free BY <1>2, NoneIs DEF Init
  <2> QED BY <1>2, <2>1, <2>2 DEF ConnsOK
<1>6. UnheldOK BY <1>1 DEF UnheldOK
<1>7. UnusedOK BY <1>3 DEF UnusedOK, Fresh
<1>8. ASSUME NEW s \in Session PROVE SessionOK(s)
  <2>1. \A b \in Batch : batch[b].session # s BY <1>3, NoneIs
  <2>2. turn = None /\ begun = {} /\ ended.committed = {} /\ ended.rolledBack = {} BY DEF Init
  <2>3. PICK h : h = handler[s] OBVIOUS
  <2>4. /\ ~h.exists /\ ~h.firstTime /\ h.numberOfOperations = 0 /\ h.executed = 0
        /\ h.pendingBatches = <<>>
    BY <1>2, <2>3 DEF NoHandler
  <2>5. HandlerOK(s) BY <1>2, <2>1, <2>2, <2>3, <2>4 DEF HandlerOK, Runs
  <2>6. TxOK(s) BY <1>2, <2>2 DEF TxOK, FirstTx
  <2>7. LossOK(s) BY <2>1 DEF LossOK
  <2> QED BY <1>2, <2>1, <2>5, <2>6, <2>7 DEF SessionOK
<1> QED BY <1>4, <1>5, <1>6, <1>7, <1>8 DEF IInv

LEMMA NextKeeps ==
  ASSUME IInv, Patient, Next
  PROVE IInv'
<1>1. CASE Handler
  BY <1>1, ExecuteOperationsKeeps, ExecuteOperationKeeps, OperationCompleteKeeps,
     BatchCompleteKeeps
  DEF Handler
<1>2. CASE User
  <2>1. ASSUME NEW s \in Session, Close(s) PROVE IInv' BY <2>1, CloseKeeps
  <2>2. ASSUME NEW s \in Session, Begin(s) PROVE IInv' BY <2>2, BeginKeeps
  <2>3. ASSUME NEW s \in Session, NEW how \in {"commit", "rollback"}, End(s, how) PROVE IInv'
    BY <2>3, EndKeeps
  <2>4. ASSUME NEW s \in Session, NEW b \in Batch, NEW ops \in Lists, UserExecute(s, b, ops)
        PROVE IInv'
    BY <2>4, UserExecuteKeeps
  <2>5. ASSUME NEW k \in Lookup, NEW s \in Session \cup {None}, Ask(k, s) PROVE IInv'
    BY <2>5, AskKeeps
  <2> QED BY <1>2, <2>1, <2>2, <2>3, <2>4, <2>5 DEF User
<1>3. CASE Pool BY <1>3, GetDBSessionKeeps, AskOnConnectionKeeps DEF Pool
<1>4. ASSUME NEW c \in Conn, Server(c) PROVE IInv'
  <2>1. ASSUME NEW how \in {"commit", "rollback"}, EndAnswered(c, how) PROVE IInv'
    BY <2>1, EndAnsweredKeeps
  <2> QED BY <1>4, <2>1, SetupAnsweredKeeps, BeginAnsweredKeeps, OperationAnsweredKeeps,
             MetadataAnsweredKeeps
          DEF Server
<1>5. ASSUME NEW c \in Conn, RollsBack(c) \/ CommitsImplicitly(c) PROVE IInv'
  BY <1>5, RollsBackKeeps, CommitsImplicitlyKeeps
<1> QED BY <1>1, <1>2, <1>3, <1>4, <1>5 DEF Next

LEMMA StutterKeeps ==
  ASSUME IInv, UNCHANGED vars
  PROVE IInv'
<1>1. /\ UNCHANGED <<free, wire, trx, status, conn, autocommit, handler, turn, batch, tx, nTx>>
      /\ UNCHANGED <<ending, lookup, begun, ended, work>>
  BY DEF vars
<1>2. TypeOK' /\ ConnsOK' /\ UnheldOK' /\ UnusedOK'
  BY <1>1 DEF IInv, TypeOK, ConnsOK, UnheldOK, UnusedOK, Unheld, Fresh
<1>3. \A r \in Session : Same(r) BY <1>1 DEF Same, Own
<1> QED BY <1>2, <1>3, AllKeep

\* While users wait for `begin', commit no empty transaction and end theirs before
\* close, the handlers, the connections and the server agree: for each session where
\* its handler is in its batch, what is in flight and what became of its work.
THEOREM Invariance == ASSUME Patient PROVE Spec => []IInv
<1>1. IInv /\ [Next]_vars => IInv' BY NextKeeps, StutterKeeps
<1> QED BY InitHolds, <1>1, PTL DEF Spec

-----------------------------------------------------------------------------
(* What users see.                                                         *)

LEMMA BatchOf ==
  ASSUME IInv, NEW b \in Batch
  PROVE \/ batch[b].session = None /\ Fresh(b)
        \/ \E s \in Session : batch[b].session = s /\ BatchOK(s, b) /\ WorkOK(s, b)
<1>1. batch[b].session \in Session \cup {None} BY BatchIs DEF IInv
<1> QED BY <1>1 DEF IInv, UnusedOK, SessionOK

LEMMA InOrder == IInv => AnswersInOrder /\ ErrorsAreItsOwn
<1> SUFFICES ASSUME IInv, NEW b \in Batch
             PROVE /\ \A j \in 1..Len(batch[b].answers) : batch[b].answers[j][1] = j
                   /\ \A j \in 1..Len(batch[b].done) :
                        IF batch[b].done[j] = "notBegun" THEN j = 1
                        ELSE j = Len(batch[b].done) /\ Len(batch[b].answers) = Len(batch[b].ops)
                   /\ \A j \in 1..Len(batch[b].done) :
                        /\ batch[b].done[j] = "ok" => ~batch[b].failed
                        /\ batch[b].done[j] = "error" /\ batch[b].waited => batch[b].failed
  BY DEF AnswersInOrder, ErrorsAreItsOwn
<1>1. CASE batch[b].session = None /\ Fresh(b)
  <2>1. batch[b].answers = <<>> /\ batch[b].done = <<>> BY <1>1 DEF Fresh
  <2>2. Len(batch[b].answers) = 0 /\ Len(batch[b].done) = 0 BY <2>1
  <2> QED BY <2>2
<1>2. CASE \E s \in Session : BatchOK(s, b)
  BY <1>2 DEF BatchOK, DoneOK, ErrorOK
<1> QED BY <1>1, <1>2, BatchOf

LEMMA OneInFlight == IInv => OneOperationInFlight
<1> SUFFICES ASSUME IInv, NEW c \in Conn
             PROVE Cardinality({j \in 1..Len(wire[c]) : wire[c][j].what = "op"}) <= 1
  BY DEF OneOperationInFlight
<1> DEFINE S == {j \in 1..Len(wire[c]) : wire[c][j].what = "op"}
<1>1. \A i, j \in S : i = j
  <2>1. CASE Unheld(c) BY <2>1 DEF IInv, UnheldOK
  <2>2. CASE ~Unheld(c)
    <3>1. PICK s \in Session : conn[s] = c BY <2>2 DEF Unheld
    <3>2. WireOK(s) BY <3>1, NoneIs DEF IInv, SessionOK
    <3> QED BY <3>1, <3>2 DEF WireOK
  <2> QED BY <2>1, <2>2
<1> HIDE DEF S
<1>2. S = {} => Cardinality(S) <= 1 BY FS_EmptySet
<1>3. ASSUME S # {} PROVE Cardinality(S) <= 1
  <2>1. PICK j : j \in S BY <1>3
  <2>2. S = {j} BY <1>1, <2>1
  <2>3. Cardinality({j}) = 1 BY FS_Singleton
  <2> QED BY <2>2, <2>3
<1> QED BY <1>2, <1>3 DEF S

\* The operations of a session run one at a time; each is answered once, in the order
\* of its batch; the batch is called back after all of them, in a transaction or not, and
\* told of an error when one of them failed, and only then if it waited for another batch.
THEOREM Sequential == ASSUME Patient PROVE Spec => []OneAfterTheOther
<1>1. IInv => OneAfterTheOther BY InOrder, OneInFlight DEF OneAfterTheOther
<1> QED BY <1>1, Invariance, PTL

\* A transaction that was begun at the server, and that the server has not ended by itself,
\* ends as its user was told; what is sent in one that was never begun is kept at once,
\* also if it is rolled back; and the user cannot commit one of which the server has
\* undone work, as he has been told of an error or is still to be answered.
THEOREM Decided == ASSUME Patient PROVE Spec => []EndDecides
<1>1. ASSUME IInv PROVE EndDecides
  <2>1. ASSUME NEW b \in Batch, NEW j \in 1..Len(batch[b].sent)
        PROVE LET s == batch[b].session
                  u == <<s, batch[b].sent[j].tx>>
                  w == work[b][batch[b].sent[j].op] IN
              /\ u \in begun \ ended.byServer =>
                   /\ u \in ended.rolledBack => w \in {"undone", "nothing"}
                   /\ u \in ended.committed => w \in {"kept", "nothing"}
              /\ u \notin begun => w \in {"none", "kept", "nothing"}
              /\ u = <<s, tx[s]>> /\ ending[s] = None /\ w = "undone" =>
                   RollbackOnly(s) \/ \E i \in 1..Len(wire[conn[s]]) : wire[conn[s]][i].what = "op"
    <3>1. CASE Fresh(b)
      <4>1. Len(batch[b].sent) = 0 BY <3>1 DEF Fresh
      <4> QED BY <4>1
    <3>2. CASE ~Fresh(b)
      <4>1. PICK s \in Session : batch[b].session = s /\ BatchOK(s, b) /\ WorkOK(s, b)
        BY <1>1, <3>2, BatchOf
      <4>2. PICK e \in Sends : e = batch[b].sent[j] BY <1>1, BatchIs DEF IInv
      <4>3. SentOK(s, b, e) BY <4>1, <4>2 DEF WorkOK
      <4>4. ASSUME <<s, e.tx>> = <<s, tx[s]>>, ending[s] = None, work[b][e.op] = "undone"
            PROVE RollbackOnly(s) \/ \E i \in 1..Len(wire[conn[s]]) : wire[conn[s]][i].what = "op"
        <5>1. e.tx = tx[s] BY <4>4
        <5>2. Loss(s, b, batch[b].sent[j]) BY <4>2, <4>4, <5>1 DEF Loss
        <5>3. Noticed(s) BY <1>1, <4>1, <4>4, <5>2 DEF IInv, SessionOK, LossOK
        <5>4. ASSUME NEW a \in Batch, NEW i \in 1..Len(batch[a].ops), InFlight(s, a, i)
              PROVE \E k \in 1..Len(wire[conn[s]]) : wire[conn[s]][k].what = "op"
          BY <5>4 DEF InFlight, Query
        <5> QED BY <5>3, <5>4 DEF Noticed
      <4>5. /\ <<s, e.tx>> \in begun \ ended.byServer =>
                 /\ <<s, e.tx>> \in ended.rolledBack => work[b][e.op] \in {"undone", "nothing"}
                 /\ <<s, e.tx>> \in ended.committed => work[b][e.op] \in {"kept", "nothing"}
            /\ <<s, e.tx>> \notin begun => work[b][e.op] \in {"none", "kept", "nothing"}
        BY <4>3 DEF SentOK
      <4> QED BY <4>1, <4>2, <4>4, <4>5
    <3> QED BY <3>1, <3>2
  <2> QED BY <2>1 DEF EndDecides
<1> QED BY <1>1, Invariance, PTL

\* An operation sent outside of a transaction never waits for the end of one, and a
\* connection that is given back carries no server transaction.
THEOREM AutocommitIsKept == ASSUME Patient PROVE Spec => []AutocommitKeeps
<1>1. IInv => AutocommitKeeps
  <2> SUFFICES ASSUME IInv PROVE AutocommitKeeps
    OBVIOUS
  <2>1. ASSUME NEW b \in Batch, NEW j \in 1..Len(batch[b].sent), batch[b].sent[j].tx = 0
        PROVE work[b][batch[b].sent[j].op] \notin {"open", "undone"}
    <3>1. CASE Fresh(b)
      <4>1. Len(batch[b].sent) = 0 BY <3>1 DEF Fresh
      <4> QED BY <4>1
    <3>2. CASE \E s \in Session : WorkOK(s, b) BY <2>1, <3>2 DEF WorkOK, SentOK
    <3> QED BY <3>1, <3>2, BatchOf
  <2>2. ASSUME NEW c \in free PROVE trx[c] = None
    <3>1. Unheld(c) /\ c \in Conn BY <2>2 DEF IInv, ConnsOK, Unheld, TypeOK
    <3> QED BY <3>1 DEF IInv, UnheldOK
  <2> QED BY <2>1, <2>2 DEF AutocommitKeeps
<1> QED BY <1>1, Invariance, PTL
=============================================================================
