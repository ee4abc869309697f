-------------------------- MODULE NdbSessionProofs --------------------------
(***************************************************************************)
(* Type correctness and the accounting of transaction contexts in          *)
(* NdbSession, for any number of handlers, requests and contexts, with and *)
(* without the asynchronous API, and for users who do not wait for answers *)
(* (IInv).  Accounting is not inductive: a release must be known to give   *)
(* back a context that its handler holds.  That is so because a handler    *)
(* has one request that closes its transaction, and a scan that failed     *)
(* keeps its NdbTransaction open, which stops the process instead.         *)
(*                                                                         *)
(* For users who wait, the order of calls and endings (EInv): a handler    *)
(* has one call in progress, on its own context, whose NdbTransaction is   *)
(* open exactly while something counts on it; so no assertion fails but    *)
(* after a failed fetch or a failed startTransaction, a reported end       *)
(* covers all the work, and contexts do not leak.                          *)
(***************************************************************************)
EXTENDS NdbSession, FiniteSetTheorems, SequenceTheorems, TLAPS

\* The request that ends the transaction of its handler.
Closer(r) == owner[r] # None /\ (autocommit[owner[r]] \/ kind[r] \in Ends)

\* A handler has no context before it seized one, and a new one no requests.
HandlersOK ==
  /\ \A h \in Handler : ~sentSeizeImpl[h] => impl[h] = None
  /\ \A h \in Handler \ created :
       autocommit[h] /\ ~sentSeizeImpl[h] /\ \A r \in Request : owner[r] # h
  /\ tx # None => ~autocommit[tx] /\ \A r \in Request : owner[r] = tx => kind[r] \notin Ends

RequestsOK ==
  \A r \in Request :
    /\ status[r] = "new" <=> owner[r] = None
    /\ status[r] = "replying" <=> replying = r
    /\ owner[r] # None => mode[r] \in Mode
    /\ owner[r] # None /\ mode[r] = "COMMIT" => Closer(r)
    /\ owner[r] # None /\ mode[r] = "ROLLBACK" /\ kind[r] \notin Ends
         => status[r] \in {"replying", "done"}

\* Only one request closes the transaction of a handler.
OneCloser ==
  \A r, s \in Request : Closer(r) /\ Closer(s) /\ owner[r] = owner[s] => r = s

\* A request that is going to release a context finds its handler's there.
CloserHasContext ==
  \A r \in Request :
    status[r] \in {"queued", "fetching", "replying"} /\ mode[r] # "NOCOMMIT"
      => impl[owner[r]] # None

Accounting ==
  /\ openTxContexts = Cardinality(Held)
  /\ Held \cap freeList = {}
  /\ Held \cup freeList = allocated

WaitersOK ==
  /\ seizeTxQueue # <<>> => openTxContexts = MaxTxContexts
  /\ \A i \in DOMAIN seizeTxQueue :
       /\ status[seizeTxQueue[i]] = "seizing"
       /\ sentSeizeImpl[owner[seizeTxQueue[i]]]
       /\ impl[owner[seizeTxQueue[i]]] = None
  /\ \A i, j \in DOMAIN seizeTxQueue :
       owner[seizeTxQueue[i]] = owner[seizeTxQueue[j]] => i = j

\* What QueueOK says of a queue q and the statuses st.
Queued(q, st) ==
  /\ \A i \in DOMAIN q : st[q[i].req] = "queued"
  /\ \A i, j \in DOMAIN q : q[i].req = q[j].req => i = j

\* A request is on execQueue at most once, and works on a context.
QueueOK ==
  /\ Queued(execQueue, status)
  /\ \A r \in Request : status[r] \in {"queued", "fetching"} => opCtx[r] # None

\* The head of queue q, if it is a call of a scan in progress, has an open
\* NdbTransaction, that of its handler.
HeadScan(q, open, ctx, im, ow) ==
  q # <<>> /\ Head(q).step \notin {"exec", "scan"} =>
    /\ open[ctx[Head(q).req]]
    /\ im[ow[Head(q).req]] = ctx[Head(q).req]

\* So has a scan that failed and is about to release its context.
ScansOpen ==
  /\ HeadScan(execQueue, ndbOpen, opCtx, impl, owner)
  /\ replying # None /\ mode[replying] = "ROLLBACK" /\ kind[replying] \notin Ends =>
       ndbOpen[impl[owner[replying]]]

Alive ==
  /\ HandlersOK /\ RequestsOK /\ OneCloser /\ CloserHasContext
  /\ Accounting /\ WaitersOK /\ QueueOK /\ ScansOpen

IInv == TypeOK /\ ExclusiveContexts /\ (panic = "no" => Alive)

Panics == {"no", "nullImpl", "notStarted", "txNotOpen", "stillOpen", "staleScan"}

-----------------------------------------------------------------------------
(* The queues.                                                             *)

\* The tail of a queue holds the calls after the first.
LEMMA TailOf ==
  ASSUME NEW S, NEW q \in Seq(S), q # <<>>
  PROVE  /\ Head(q) \in S /\ Head(q) = q[1]
         /\ Tail(q) \in Seq(S)
         /\ DOMAIN q = 1 .. Len(q) /\ 1 \in DOMAIN q
         /\ DOMAIN Tail(q) = 1 .. Len(q) - 1
         /\ \A i \in DOMAIN Tail(q) : i + 1 \in DOMAIN q /\ Tail(q)[i] = q[i + 1]
  OBVIOUS

\* Append adds one call at the end.
LEMMA AppendOf ==
  ASSUME NEW S, NEW q \in Seq(S), NEW x \in S
  PROVE  /\ Append(q, x) \in Seq(S) /\ Append(q, x) # <<>>
         /\ DOMAIN q = 1 .. Len(q)
         /\ DOMAIN Append(q, x) = 1 .. Len(q) + 1
         /\ \A i \in DOMAIN q : Append(q, x)[i] = q[i]
         /\ Append(q, x)[Len(q) + 1] = x
         /\ q # <<>> => Head(Append(q, x)) = Head(q)
  BY SMTT(20)

\* A call that is not queued may be appended.
LEMMA QueuedAppend ==
  ASSUME NEW q \in Seq(Call), NEW c \in Call, NEW st \in [Request -> Status],
         Queued(q, st), st[c.req] # "queued"
  PROVE  Queued(Append(q, c), [st EXCEPT ![c.req] = "queued"])
<1>1. /\ DOMAIN q = 1 .. Len(q) /\ Len(q) \in Nat
      /\ DOMAIN Append(q, c) = 1 .. Len(q) + 1
      /\ \A i \in DOMAIN q : Append(q, c)[i] = q[i] /\ q[i] \in Call
      /\ Append(q, c)[Len(q) + 1] = c
  BY AppendOf
<1>2. c.req \in Request /\ \A i \in DOMAIN q : q[i].req \in Request
  BY <1>1 DEF Call
<1>3. \A i \in DOMAIN q : q[i].req # c.req
  BY DEF Queued
<1>4. \A i \in DOMAIN Append(q, c) : i \in DOMAIN q \/ i = Len(q) + 1
  BY <1>1
<1> QED BY <1>1, <1>2, <1>3, <1>4 DEF Queued

\* The head leaves the queue, and its request gets another status.
LEMMA QueuedTail ==
  ASSUME NEW q \in Seq(Call), q # <<>>, NEW st \in [Request -> Status], NEW v,
         Queued(q, st)
  PROVE  Queued(Tail(q), [st EXCEPT ![Head(q).req] = v])
<1>1. /\ Head(q) = q[1] /\ 1 \in DOMAIN q /\ DOMAIN q = 1 .. Len(q) /\ Len(q) \in Nat
      /\ \A i \in DOMAIN Tail(q) : i \in Nat /\ i # 0 /\ i + 1 \in DOMAIN q /\ Tail(q)[i] = q[i + 1]
  BY TailOf
<1>2. \A i \in DOMAIN q : q[i] \in Call
  BY <1>1
<1>7. \A i \in DOMAIN q : q[i].req \in Request
  BY <1>2 DEF Call
<1>3. \A i \in DOMAIN Tail(q) : Tail(q)[i].req # Head(q).req
  BY <1>1 DEF Queued
<1>4. \A i \in DOMAIN Tail(q) :
        [st EXCEPT ![Head(q).req] = v][Tail(q)[i].req] = st[Tail(q)[i].req]
  BY <1>1, <1>7, <1>3
<1>5. \A i \in DOMAIN Tail(q) : st[Tail(q)[i].req] = "queued"
  BY <1>1 DEF Queued
<1>6. \A i, j \in DOMAIN Tail(q) : Tail(q)[i].req = Tail(q)[j].req => i = j
  BY <1>1 DEF Queued
<1> QED BY <1>4, <1>5, <1>6 DEF Queued

\* The head leaves the queue for the end, with another step.
LEMMA QueuedRotate ==
  ASSUME NEW q \in Seq(Call), q # <<>>, NEW st \in [Request -> Status],
         NEW c \in Call, c.req = Head(q).req, Queued(q, st)
  PROVE  Queued(Append(Tail(q), c), st)
<1>1. /\ Head(q) = q[1] /\ 1 \in DOMAIN q /\ DOMAIN q = 1 .. Len(q) /\ Len(q) \in Nat
      /\ Tail(q) \in Seq(Call) /\ DOMAIN Tail(q) = 1 .. Len(q) - 1
      /\ \A i \in DOMAIN Tail(q) : i \in Nat /\ i # 0 /\ i + 1 \in DOMAIN q /\ Tail(q)[i] = q[i + 1]
  BY TailOf
<1> DEFINE a == Append(Tail(q), c)
           n == Len(Tail(q)) + 1
<1>2. /\ \A i \in DOMAIN Tail(q) : a[i] = Tail(q)[i] /\ i # n
      /\ a[n] = c
      /\ \A i \in DOMAIN a : i \in DOMAIN Tail(q) \/ i = n
  BY <1>1, AppendOf
<1>3. \A i \in DOMAIN Tail(q) : Tail(q)[i].req # c.req /\ st[Tail(q)[i].req] = "queued"
  BY <1>1 DEF Queued
<1>4. \A i, j \in DOMAIN Tail(q) : Tail(q)[i].req = Tail(q)[j].req => i = j
  BY <1>1 DEF Queued
<1>5. st[c.req] = "queued"
  BY <1>1 DEF Queued
<1> HIDE DEF a, n
<1> QED BY <1>2, <1>3, <1>4, <1>5 DEF Queued, a

-----------------------------------------------------------------------------
(* Running and enqueueing calls.                                           *)

\* A call is run on the new head; NdbTransactions are opened, not closed.
LEMMA RunHeadFacts ==
  ASSUME NEW q \in Seq(Call), NEW open \in [Context -> BOOLEAN], NEW ctx,
         RunHead(q, open, ctx)
  PROVE  /\ execQueue' = q /\ execQueue' \in Seq(Call)
         /\ ndbOpen' \in [Context -> BOOLEAN]
         /\ panic' \in Panics
         /\ \A c \in Context : open[c] => ndbOpen'[c]
         /\ panic' = "no" => HeadScan(q, ndbOpen', ctx, impl, owner)
<1>1. execQueue' = q
  BY DEF RunHead
<1>2. CASE panic' = "notStarted"
  <2>1. ndbOpen' = open
    <3>1. /\ "txNotOpen" # "notStarted" /\ "staleScan" # "notStarted" /\ "no" # "notStarted"
      OBVIOUS
    <3> QED BY <1>2, <3>1 DEF RunHead
  <2> QED BY <1>1, <1>2, <2>1 DEF Panics
<1>3. ASSUME ndbOpen' = IF q # <<>> /\ Opens(Head(q))
                        THEN [open EXCEPT ![ctx[Head(q).req]] = TRUE] ELSE open,
             panic' = CASE q # <<>> /\ NotStarted(Head(q), open, ctx) -> "txNotOpen"
                        [] q # <<>> /\ ClosedScan(Head(q), open, ctx) -> "staleScan"
                        [] OTHER -> "no"
      PROVE  /\ ndbOpen' \in [Context -> BOOLEAN]
             /\ panic' \in Panics
             /\ \A c \in Context : open[c] => ndbOpen'[c]
             /\ panic' = "no" => HeadScan(q, ndbOpen', ctx, impl, owner)
  <2>1. ndbOpen' \in [Context -> BOOLEAN] /\ \A c \in Context : open[c] => ndbOpen'[c]
    <3>1. CASE q # <<>> /\ Opens(Head(q))
      BY <1>3, <3>1
    <3>2. CASE ~(q # <<>> /\ Opens(Head(q)))
      BY <1>3, <3>2
    <3> QED BY <3>1, <3>2
  <2>2. panic' \in Panics
    BY <1>3 DEF Panics
  <2>3. ASSUME panic' = "no", q # <<>>, Head(q).step \notin {"exec", "scan"}
        PROVE  ndbOpen'[ctx[Head(q).req]] /\ impl[owner[Head(q).req]] = ctx[Head(q).req]
    <3>1. ~ClosedScan(Head(q), open, ctx) /\ ~NotStarted(Head(q), open, ctx)
      BY <1>3, <2>3 DEF NotStarted
    <3>2. ~Opens(Head(q))
      BY <2>3 DEF Opens
    <3> QED BY <1>3, <2>3, <3>1, <3>2 DEF ClosedScan
  <2> QED BY <2>1, <2>2, <2>3 DEF HeadScan
<1> QED BY <1>1, <1>2, <1>3 DEF RunHead

\* A call is enqueued: behind the head, or as the head, which is run.
LEMMA EnqueueFacts ==
  ASSUME NEW c \in Call, NEW ctx, Enqueue(c, ctx),
         execQueue \in Seq(Call), ndbOpen \in [Context -> BOOLEAN], panic \in Panics
  PROVE  /\ execQueue' = Append(execQueue, c) /\ execQueue' \in Seq(Call)
         /\ ndbOpen' \in [Context -> BOOLEAN]
         /\ panic' \in Panics
         /\ \A x \in Context : ndbOpen[x] => ndbOpen'[x]
         /\ execQueue = <<>> /\ panic' = "no" => HeadScan(<<c>>, ndbOpen', ctx, impl, owner)
         /\ execQueue # <<>> => ndbOpen' = ndbOpen
<1>1. CASE execQueue = <<>>
  <2>1. RunHead(<<c>>, ndbOpen, ctx)
    BY <1>1 DEF Enqueue
  <2>2. <<c>> \in Seq(Call) /\ <<c>> = Append(execQueue, c)
    BY <1>1
  <2> QED BY <1>1, <2>1, <2>2, RunHeadFacts
<1>2. CASE execQueue # <<>>
  BY <1>2, AppendOf DEF Enqueue
<1> QED BY <1>1, <1>2

-----------------------------------------------------------------------------
(* The completions of native calls: what they have in common.              *)

Frame == UNCHANGED <<created, autocommit, sentSeizeImpl, impl, tx, seizeTxQueue,
                     openTxContexts, freeList, allocated, owner, kind>>

\* Request r goes on to status v, in mode ROLLBACK if its scan failed.
Moves(r, v) ==
  /\ Frame
  /\ replying = None
  /\ status[r] \in {"queued", "fetching", "autoInc"}
  /\ v \in {"queued", "fetching", "replying", "done"}
  /\ status[r] = "autoInc" => impl[owner[r]] # None
  /\ status' = [status EXCEPT ![r] = v]
  /\ replying' = IF v = "replying" THEN r ELSE None
  /\ \/ mode' = mode
     \/ /\ v = "replying" /\ mode' = [mode EXCEPT ![r] = "ROLLBACK"]
        /\ impl[owner[r]] # None

\* It takes a handler and a request out of their types.
LEMMA OwnersAreHandlers ==
  ASSUME TypeOK, RequestsOK
  PROVE  /\ None \notin Handler /\ None \notin Request /\ None \notin Context
         /\ \A r \in Request : status[r] # "new" <=> owner[r] \in Handler
         /\ \A r \in Request : owner[r] # None <=> owner[r] \in Handler
  BY ConstantsOK DEF TypeOK, RequestsOK

\* The accounting does not depend on the native call.
LEMMA MovesKeep ==
  ASSUME TypeOK, Alive, NEW r \in Request, NEW v, Moves(r, v)
  PROVE  /\ HandlersOK' /\ RequestsOK' /\ OneCloser' /\ CloserHasContext'
         /\ Accounting' /\ WaitersOK'
<1>0. /\ Frame /\ replying = None
      /\ status[r] \in {"queued", "fetching", "autoInc"}
      /\ status' = [status EXCEPT ![r] = v]
      /\ status \in [Request -> Status] /\ mode \in [Request -> Mode \cup {None}]
      /\ \A s \in Request : s # r => status'[s] = status[s] /\ mode'[s] = mode[s]
      /\ status'[r] = v
      /\ None \notin Request
  BY ConstantsOK DEF Moves, TypeOK
<1>1. HandlersOK'
  BY <1>0 DEF Alive, HandlersOK, Frame
<1>2. \A s \in Request : Closer(s)' <=> Closer(s)
  BY <1>0 DEF Closer, Frame
<1>3. OneCloser'
  BY <1>0, <1>2 DEF Alive, OneCloser, Frame
<1>4. RequestsOK'
  <2> SUFFICES ASSUME NEW s \in Request
               PROVE  /\ status'[s] = "new" <=> owner'[s] = None
                      /\ status'[s] = "replying" <=> replying' = s
                      /\ owner'[s] # None => mode'[s] \in Mode
                      /\ owner'[s] # None /\ mode'[s] = "COMMIT" => Closer(s)'
                      /\ owner'[s] # None /\ mode'[s] = "ROLLBACK" /\ kind'[s] \notin Ends
                           => status'[s] \in {"replying", "done"}
    BY DEF RequestsOK
  <2>0. /\ status[s] = "new" <=> owner[s] = None
        /\ status[s] = "replying" <=> replying = s
        /\ owner[s] # None => mode[s] \in Mode
        /\ owner[s] # None /\ mode[s] = "COMMIT" => Closer(s)
        /\ owner[s] # None /\ mode[s] = "ROLLBACK" /\ kind[s] \notin Ends
             => status[s] \in {"replying", "done"}
    BY DEF Alive, RequestsOK
  <2>1. CASE s # r
    BY <2>0, <2>1, <1>0, <1>2 DEF Moves, Frame
  <2>2. CASE s = r
    <3>1. mode'[s] = mode[s] \/ (v = "replying" /\ mode'[s] = "ROLLBACK")
      BY <1>0, <2>2 DEF Moves
    <3>2. owner'[s] = owner[s] /\ kind'[s] = kind[s]
      BY <1>0 DEF Frame
    <3>4. (status'[s] = "replying") <=> (replying' = s)
      BY <1>0, <2>2 DEF Moves
    <3>5. owner'[s] # None => mode'[s] \in Mode
      BY <2>0, <3>1, <3>2 DEF Mode
    <3> QED BY <1>0, <1>2, <2>0, <2>2, <3>1, <3>2, <3>4, <3>5 DEF Moves
  <2> QED BY <2>1, <2>2
<1>5. CloserHasContext'
  <2> SUFFICES ASSUME NEW s \in Request,
                      status'[s] \in {"queued", "fetching", "replying"}, mode'[s] # "NOCOMMIT"
               PROVE  impl[owner[s]] # None
    BY <1>0 DEF CloserHasContext, Frame
  <2>1. CASE s # r
    BY <2>1, <1>0 DEF Alive, CloserHasContext
  <2>2. CASE s = r /\ status[r] = "autoInc"
    BY <2>2 DEF Moves
  <2>3. CASE s = r /\ status[r] # "autoInc"
    BY <2>3, <1>0 DEF Alive, CloserHasContext, Moves
  <2> QED BY <2>1, <2>2, <2>3
<1>6. Accounting'
  BY <1>0 DEF Alive, Accounting, Held, Frame
<1>7. WaitersOK'
  <2>1. \A i \in DOMAIN seizeTxQueue : seizeTxQueue[i] \in Request /\ seizeTxQueue[i] # r
    BY <1>0 DEF Alive, WaitersOK, TypeOK
  <2> QED BY <1>0, <2>1 DEF Alive, WaitersOK, Frame
<1> QED BY <1>1, <1>3, <1>4, <1>5, <1>6, <1>7

\* The head of execQueue is a queued request with a context.
LEMMA HeadRequest ==
  ASSUME TypeOK, Alive, execQueue # <<>>
  PROVE  /\ Head(execQueue) \in Call /\ Tail(execQueue) \in Seq(Call)
         /\ Head(execQueue).req \in Request /\ Head(execQueue).txIsOpen \in BOOLEAN
         /\ status[Head(execQueue).req] = "queued"
         /\ owner[Head(execQueue).req] \in Handler
         /\ opCtx[Head(execQueue).req] \in Context
<1>1. /\ Head(execQueue) \in Call /\ Tail(execQueue) \in Seq(Call)
      /\ Head(execQueue) = execQueue[1] /\ 1 \in DOMAIN execQueue
  BY TailOf DEF TypeOK
<1>2. Head(execQueue).req \in Request /\ Head(execQueue).txIsOpen \in BOOLEAN
  BY <1>1 DEF Call
<1>3. status[Head(execQueue).req] = "queued" /\ opCtx[Head(execQueue).req] # None
  BY <1>1, <1>2 DEF Alive, QueueOK, Queued
<1>4. owner[Head(execQueue).req] \in Handler
  BY <1>2, <1>3, OwnersAreHandlers DEF Alive
<1> QED BY <1>1, <1>2, <1>3, <1>4 DEF TypeOK

\* The head of execQueue completes: its request moves on, or goes to the end
\* of the queue with another step.
HeadStep(q, open, v) ==
  /\ execQueue # <<>>
  /\ Moves(Head(execQueue).req, v)
  /\ open \in [Context -> BOOLEAN]
  /\ RunHead(q, open, opCtx)
  /\ opCtx' = opCtx
  /\ mode' = mode \/ open[impl[owner[Head(execQueue).req]]]
  /\ \/ q = Tail(execQueue) /\ v # "queued"
     \/ \E c \in Call : /\ c.req = Head(execQueue).req
                        /\ q = Append(Tail(execQueue), c)
                        /\ v = "queued"

LEMMA HeadStepKeeps ==
  ASSUME TypeOK, Alive, NEW q, NEW open, NEW v, HeadStep(q, open, v)
  PROVE  /\ panic' = "no" => Alive'
         /\ execQueue' \in Seq(Call) /\ ndbOpen' \in [Context -> BOOLEAN]
         /\ panic' \in Panics
<1> DEFINE r == Head(execQueue).req
<1>1. /\ Head(execQueue) \in Call /\ Tail(execQueue) \in Seq(Call)
      /\ r \in Request /\ status[r] = "queued" /\ owner[r] \in Handler
      /\ opCtx[r] \in Context
  BY HeadRequest DEF HeadStep
<1>2. q \in Seq(Call)
  <2>1. \A c \in Call : Append(Tail(execQueue), c) \in Seq(Call)
    BY <1>1, AppendOf
  <2> QED BY <1>1, <2>1 DEF HeadStep
<1>3. /\ execQueue' = q /\ execQueue' \in Seq(Call)
      /\ ndbOpen' \in [Context -> BOOLEAN] /\ panic' \in Panics
      /\ \A c \in Context : open[c] => ndbOpen'[c]
      /\ panic' = "no" => HeadScan(q, ndbOpen', opCtx, impl, owner)
  <2>1. RunHead(q, open, opCtx) /\ open \in [Context -> BOOLEAN]
    BY DEF HeadStep
  <2> QED BY <1>2, <2>1, RunHeadFacts
<1>4. Moves(r, v)
  BY DEF HeadStep
<1>5. /\ HandlersOK' /\ RequestsOK' /\ OneCloser' /\ CloserHasContext'
      /\ Accounting' /\ WaitersOK'
  BY <1>1, <1>4, MovesKeep
<1>6. Queued(execQueue', status')
  <2>0. Queued(execQueue, status) /\ status \in [Request -> Status] /\ execQueue \in Seq(Call)
    BY DEF Alive, QueueOK, TypeOK
  <2>1. CASE q = Tail(execQueue)
    <3>1. Queued(Tail(execQueue), [status EXCEPT ![r] = v])
      BY <2>0, QueuedTail DEF HeadStep
    <3> QED BY <1>3, <1>4, <2>1, <3>1 DEF Moves
  <2>2. CASE \E c \in Call : /\ c.req = r /\ q = Append(Tail(execQueue), c) /\ v = "queued"
    <3>1. status' = status
      BY <1>1, <1>4, <2>0, <2>2 DEF Moves
    <3>2. PICK c \in Call : c.req = r /\ q = Append(Tail(execQueue), c)
      BY <2>2
    <3>3. Queued(Append(Tail(execQueue), c), status)
      BY <2>0, <3>2, QueuedRotate DEF HeadStep
    <3> QED BY <1>3, <3>1, <3>2, <3>3
  <2> QED BY <2>1, <2>2 DEF HeadStep
<1>7. QueueOK'
  <2>1. ASSUME NEW s \in Request, status'[s] \in {"queued", "fetching"}
        PROVE  opCtx[s] # None
    <3>1. CASE s = r
      BY <1>1, <3>1, ConstantsOK
    <3>2. CASE s # r
      BY <1>4, <2>1, <3>2 DEF Moves, Alive, QueueOK, TypeOK
    <3> QED BY <3>1, <3>2
  <2> QED BY <1>6, <2>1 DEF QueueOK, HeadStep
<1>8. ASSUME panic' = "no" PROVE ScansOpen'
  <2>1. HeadScan(execQueue', ndbOpen', opCtx', impl', owner')
    BY <1>3, <1>4, <1>8 DEF HeadStep, Moves, Frame
  <2>2. ASSUME replying' # None, mode'[replying'] = "ROLLBACK", kind[replying'] \notin Ends
        PROVE  ndbOpen'[impl[owner[replying']]]
    <3>1. replying' = r
      BY <1>4, <2>2 DEF Moves
    <3>2. ~(mode[r] = "ROLLBACK" /\ kind[r] \notin Ends)
      BY <1>1, ConstantsOK DEF Alive, RequestsOK
    <3>3. mode' # mode
      BY <2>2, <3>1, <3>2
    <3>4. open[impl[owner[r]]] /\ impl[owner[r]] # None
      BY <1>4, <3>3 DEF HeadStep, Moves
    <3>5. impl[owner[r]] \in Context
      BY <1>1, <3>4 DEF TypeOK
    <3> QED BY <1>3, <3>1, <3>4, <3>5
  <2> QED BY <1>4, <2>1, <2>2 DEF ScansOpen, Moves, Frame
<1> QED BY <1>3, <1>5, <1>7, <1>8 DEF Alive

-----------------------------------------------------------------------------
(* The actions that complete the head of execQueue.                        *)

\* A step of the head that also keeps the types keeps the invariant.
LEMMA HeadStepSuffices ==
  ASSUME IInv, panic = "no", NEW q, NEW open, NEW v, HeadStep(q, open, v), TypeOK'
  PROVE  IInv'
<1>1. Moves(Head(execQueue).req, v)
  BY DEF HeadStep
<1>2. impl' = impl
  BY <1>1 DEF Moves, Frame
<1>3. ExclusiveContexts'
  BY <1>2 DEF IInv, ExclusiveContexts
<1> QED BY <1>3, HeadStepKeeps DEF IInv

\* Facts that hold whenever the head completes.
LEMMA HeadFacts ==
  ASSUME IInv, NEW s, Completes(s)
  PROVE  /\ TypeOK /\ Alive /\ panic = "no" /\ replying = None /\ execQueue # <<>>
         /\ Head(execQueue) \in Call /\ Tail(execQueue) \in Seq(Call)
         /\ Head(execQueue).req \in Request /\ Head(execQueue).txIsOpen \in BOOLEAN
         /\ status[Head(execQueue).req] = "queued"
         /\ owner[Head(execQueue).req] \in Handler
         /\ opCtx[Head(execQueue).req] \in Context
         /\ status = [status EXCEPT ![Head(execQueue).req] = "queued"]
<1>1. TypeOK /\ Alive /\ panic = "no" /\ replying = None /\ execQueue # <<>>
  BY DEF IInv, Completes
<1>2. /\ Head(execQueue) \in Call /\ Tail(execQueue) \in Seq(Call)
      /\ Head(execQueue).req \in Request /\ Head(execQueue).txIsOpen \in BOOLEAN
      /\ status[Head(execQueue).req] = "queued"
      /\ owner[Head(execQueue).req] \in Handler
      /\ opCtx[Head(execQueue).req] \in Context
  BY <1>1, HeadRequest
<1>3. status = [status EXCEPT ![Head(execQueue).req] = "queued"]
  BY <1>1, <1>2 DEF TypeOK
<1> QED BY <1>1, <1>2, <1>3

LEMMA ExecDoneKeeps ==
  ASSUME IInv, NEW ok \in BOOLEAN, ExecDone(ok)
  PROVE  IInv'
<1> DEFINE r == Head(execQueue).req
           open == IF Closes(mode[r]) THEN [ndbOpen EXCEPT ![opCtx[r]] = FALSE] ELSE ndbOpen
<1>1. Completes("exec")
  BY DEF ExecDone
<1>2. /\ TypeOK /\ Alive /\ panic = "no" /\ replying = None /\ execQueue # <<>>
      /\ Head(execQueue) \in Call /\ Tail(execQueue) \in Seq(Call)
      /\ r \in Request /\ status[r] = "queued" /\ owner[r] \in Handler
  BY <1>1, HeadFacts
<1>3. open \in [Context -> BOOLEAN]
  BY <1>2 DEF TypeOK
<1>4. RunHead(Tail(execQueue), open, opCtx)
  BY DEF ExecDone
<1>5. HeadStep(Tail(execQueue), open, "replying")
  <2>1. Moves(r, "replying")
    BY <1>2 DEF ExecDone, Moves, Frame
  <2> QED BY <1>2, <1>3, <1>4, <2>1 DEF ExecDone, HeadStep
<1>6. execQueue' \in Seq(Call) /\ ndbOpen' \in [Context -> BOOLEAN] /\ panic' \in Panics
  BY <1>2, <1>5, HeadStepKeeps
<1>7. work' \in [Request -> {None, "pending", "committed", "undone"}]
  BY <1>2 DEF ExecDone, Decided, TypeOK
<1>8. TypeOK'
  BY <1>2, <1>6, <1>7 DEF ExecDone, AttachError, TypeOK, Panics, Status
<1> QED BY <1>2, <1>5, <1>8, HeadStepSuffices

LEMMA ScanStartedKeeps ==
  ASSUME IInv, ScanStarted
  PROVE  IInv'
<1> DEFINE c == Head(execQueue)
           f == [c EXCEPT !.step = "fetch"]
<1>1. Completes("scan")
  BY DEF ScanStarted
<1>2. /\ TypeOK /\ Alive /\ panic = "no" /\ replying = None /\ execQueue # <<>>
      /\ c \in Call /\ c.req \in Request /\ status[c.req] = "queued"
      /\ status = [status EXCEPT ![c.req] = "queued"]
  BY <1>1, HeadFacts
<1>3. f \in Call /\ f.req = c.req
  BY <1>2 DEF Call, Step
<1>4. \E q, v : HeadStep(q, ndbOpen, v)
  <2>0. ndbOpen \in [Context -> BOOLEAN] /\ mode' = mode /\ opCtx' = opCtx /\ replying' = None /\ Frame
    BY <1>2 DEF TypeOK, ScanStarted, UnchangedByScans, Frame
  <2>1. CASE RunHead(Append(Tail(execQueue), f), ndbOpen, opCtx) /\ UNCHANGED status
    <3>1. Moves(c.req, "queued")
      BY <1>2, <2>0, <2>1 DEF Moves
    <3>2. HeadStep(Append(Tail(execQueue), f), ndbOpen, "queued")
      BY <1>2, <1>3, <2>0, <2>1, <3>1 DEF HeadStep
    <3> QED BY <3>2
  <2>2. CASE RunHead(Tail(execQueue), ndbOpen, opCtx)
             /\ status' = [status EXCEPT ![c.req] = "fetching"]
    <3>1. Moves(c.req, "fetching")
      BY <1>2, <2>0, <2>2 DEF Moves
    <3>2. HeadStep(Tail(execQueue), ndbOpen, "fetching")
      BY <1>2, <2>0, <2>2, <3>1 DEF HeadStep
    <3> QED BY <3>2
  <2> QED BY <2>1, <2>2 DEF ScanStarted
<1>5. execQueue' \in Seq(Call) /\ ndbOpen' \in [Context -> BOOLEAN] /\ panic' \in Panics
  BY <1>2, <1>4, HeadStepKeeps
<1>6. TypeOK'
  BY <1>2, <1>5 DEF ScanStarted, UnchangedByScans, historyVars, TypeOK, Panics, Status
<1> QED BY <1>2, <1>4, <1>6, HeadStepSuffices

LEMMA ScanNotStartedKeeps ==
  ASSUME IInv, ScanNotStarted
  PROVE  IInv'
<1> DEFINE r == Head(execQueue).req
<1>1. Completes("scan")
  BY DEF ScanNotStarted
<1>2. /\ TypeOK /\ Alive /\ panic = "no" /\ replying = None /\ execQueue # <<>>
      /\ r \in Request /\ status[r] = "queued"
  BY <1>1, HeadFacts
<1>3. HeadStep(Tail(execQueue), ndbOpen, "done")
  <2>1. Moves(r, "done")
    BY <1>2 DEF ScanNotStarted, UnchangedByScans, Moves, Frame
  <2>2. ndbOpen \in [Context -> BOOLEAN]
    BY <1>2 DEF TypeOK
  <2> QED BY <1>2, <2>1, <2>2 DEF ScanNotStarted, UnchangedByScans, HeadStep
<1>4. execQueue' \in Seq(Call) /\ ndbOpen' \in [Context -> BOOLEAN] /\ panic' \in Panics
  BY <1>2, <1>3, HeadStepKeeps
<1>5. TypeOK'
  BY <1>2, <1>4 DEF ScanNotStarted, UnchangedByScans, historyVars, TypeOK, Panics, Status
<1> QED BY <1>2, <1>3, <1>5, HeadStepSuffices

\* The steps of a scan that go to the end of the queue with call c.
LEMMA RotateKeeps ==
  ASSUME IInv, NEW s, Completes(s), NEW c \in Call, c.req = Head(execQueue).req,
         RunHead(Append(Tail(execQueue), c), ndbOpen, opCtx),
         UNCHANGED <<status, replying, mode, txError, result>>, UnchangedByScans,
         execCount' \in [Handler -> Nat], retries' \in [Handler -> Nat]
  PROVE  IInv'
<1>1. /\ TypeOK /\ Alive /\ panic = "no" /\ replying = None /\ execQueue # <<>>
      /\ Head(execQueue).req \in Request /\ status[Head(execQueue).req] = "queued"
      /\ status = [status EXCEPT ![Head(execQueue).req] = "queued"]
  BY HeadFacts
<1>2. HeadStep(Append(Tail(execQueue), c), ndbOpen, "queued")
  <2>1. Moves(Head(execQueue).req, "queued")
    BY <1>1 DEF UnchangedByScans, Moves, Frame
  <2>2. ndbOpen \in [Context -> BOOLEAN]
    BY <1>1 DEF TypeOK
  <2> QED BY <1>1, <2>1, <2>2 DEF UnchangedByScans, HeadStep
<1>3. execQueue' \in Seq(Call) /\ ndbOpen' \in [Context -> BOOLEAN] /\ panic' \in Panics
  BY <1>1, <1>2, HeadStepKeeps
<1>4. TypeOK'
  BY <1>1, <1>3 DEF UnchangedByScans, historyVars, TypeOK, Panics
<1> QED BY <1>1, <1>2, <1>4, HeadStepSuffices

LEMMA FetchMoreKeeps ==
  ASSUME IInv, FetchMore
  PROVE  IInv'
<1>1. Completes("fetch")
  BY DEF FetchMore
<1>2. TypeOK /\ Head(execQueue) \in Call
  BY <1>1, HeadFacts
<1>3. execCount' \in [Handler -> Nat] /\ retries' \in [Handler -> Nat]
  BY <1>2 DEF FetchMore, TypeOK
<1> QED BY <1>1, <1>2, <1>3, RotateKeeps DEF FetchMore

LEMMA FetchDoneKeeps ==
  ASSUME IInv, NEW o, FetchDone(o)
  PROVE  IInv'
<1> DEFINE c == Head(execQueue)
           h == owner[c.req]
           f == [c EXCEPT !.step = ClosingStep(h, o)]
<1>1. Completes("fetch")
  BY DEF FetchDone
<1>2. TypeOK /\ c \in Call /\ c.req \in Request /\ h \in Handler
  BY <1>1, HeadFacts
<1>3. f \in Call /\ f.req = c.req
  <2>1. ClosingStep(h, o) \in Step
    <3>1. CASE o = "end"
      BY <3>1 DEF ClosingStep, Step
    <3>2. CASE o # "end" /\ o = "timeout" /\ retries[h] < MaxRetries
      BY <3>2 DEF ClosingStep, Step
    <3>3. CASE o # "end" /\ ~(o = "timeout" /\ retries[h] < MaxRetries)
      BY <3>3 DEF ClosingStep, Step
    <3> QED BY <3>1, <3>2, <3>3
  <2> QED BY <1>2, <2>1 DEF Call
<1>4. execCount' \in [Handler -> Nat] /\ retries' \in [Handler -> Nat]
  BY <1>2 DEF FetchDone, CountRetry, TypeOK
<1> QED BY <1>1, <1>3, <1>4, RotateKeeps DEF FetchDone

LEMMA ScanRetriedKeeps ==
  ASSUME IInv, ScanRetried
  PROVE  IInv'
<1> DEFINE c == Head(execQueue)
           h == owner[c.req]
           f == NewCall(c.req, "scan", execCount[h] >= 1)
<1>1. Completes("closeRetry")
  BY DEF ScanRetried
<1>2. TypeOK /\ c \in Call /\ c.req \in Request /\ h \in Handler
  BY <1>1, HeadFacts
<1>3. f \in Call /\ f.req = c.req
  BY <1>2 DEF NewCall, Call, Step
<1>4. execCount' \in [Handler -> Nat] /\ retries' \in [Handler -> Nat]
  BY <1>2 DEF ScanRetried, TypeOK
<1> QED BY <1>1, <1>3, <1>4, RotateKeeps DEF ScanRetried

LEMMA ScanClosedKeeps ==
  ASSUME IInv, ScanClosed
  PROVE  IInv'
<1> DEFINE c == Head(execQueue)
           r == c.req
           h == owner[r]
           f == NewCall(r, "exec", execCount[h] >= 1)
<1>1. Completes("closeSuccess")
  BY DEF ScanClosed
<1>2. /\ TypeOK /\ Alive /\ panic = "no" /\ replying = None /\ execQueue # <<>>
      /\ r \in Request /\ status[r] = "queued" /\ h \in Handler
  BY <1>1, HeadFacts
<1>3. CASE mode[r] = "NOCOMMIT"
  <2>0. /\ RunHead(Tail(execQueue), ndbOpen, opCtx) /\ execCount' = execCount
        /\ status' = [status EXCEPT ![r] = "replying"] /\ replying' = r
    BY <1>3 DEF ScanClosed
  <2>1. HeadStep(Tail(execQueue), ndbOpen, "replying")
    <3>1. Moves(r, "replying")
      BY <1>2, <2>0 DEF ScanClosed, UnchangedByScans, Moves, Frame
    <3>2. ndbOpen \in [Context -> BOOLEAN]
      BY <1>2 DEF TypeOK
    <3> QED BY <1>2, <2>0, <3>1, <3>2 DEF ScanClosed, UnchangedByScans, HeadStep
  <2>2. execQueue' \in Seq(Call) /\ ndbOpen' \in [Context -> BOOLEAN] /\ panic' \in Panics
    BY <1>2, <2>1, HeadStepKeeps
  <2>3. TypeOK'
    BY <1>2, <2>0, <2>2 DEF ScanClosed, UnchangedByScans, historyVars, TypeOK, Panics, Status
  <2> QED BY <1>2, <2>1, <2>3, HeadStepSuffices
<1>4. CASE mode[r] # "NOCOMMIT"
  <2>0. /\ execCount' = [execCount EXCEPT ![h] = @ + 1]
        /\ RunHead(Append(Tail(execQueue), f), ndbOpen, opCtx)
        /\ UNCHANGED <<status, replying, retries, txError, mode, result>>
        /\ UnchangedByScans
    BY <1>4 DEF ScanClosed
  <2>1. f \in Call /\ f.req = r
    BY <1>2 DEF NewCall, Call, Step
  <2>2. execCount' \in [Handler -> Nat] /\ retries' \in [Handler -> Nat]
    BY <1>2, <2>0 DEF TypeOK
  <2> QED BY <1>1, <2>0, <2>1, <2>2, RotateKeeps
<1> QED BY <1>3, <1>4

LEMMA ScanFailedKeeps ==
  ASSUME IInv, ScanFailed
  PROVE  IInv'
<1> DEFINE r == Head(execQueue).req
<1>1. Completes("closeError") /\ Head(execQueue).step = "closeError"
  BY DEF ScanFailed, Completes
<1>2. /\ TypeOK /\ Alive /\ panic = "no" /\ replying = None /\ execQueue # <<>>
      /\ r \in Request /\ status[r] = "queued" /\ owner[r] \in Handler /\ opCtx[r] \in Context
  BY <1>1, HeadFacts
<1>3. ndbOpen[impl[owner[r]]] /\ impl[owner[r]] \in Context
  BY <1>1, <1>2 DEF Alive, ScansOpen, HeadScan
<1>4. HeadStep(Tail(execQueue), ndbOpen, "replying")
  <2>1. Moves(r, "replying")
    BY <1>2, <1>3, ConstantsOK DEF ScanFailed, UnchangedByScans, Moves, Frame
  <2>2. ndbOpen \in [Context -> BOOLEAN]
    BY <1>2 DEF TypeOK
  <2> QED BY <1>2, <1>3, <2>1, <2>2 DEF ScanFailed, UnchangedByScans, HeadStep
<1>5. execQueue' \in Seq(Call) /\ ndbOpen' \in [Context -> BOOLEAN] /\ panic' \in Panics
  BY <1>2, <1>4, HeadStepKeeps
<1>6. TypeOK'
  BY <1>2, <1>5 DEF ScanFailed, AttachError, UnchangedByScans, historyVars, TypeOK, Panics, Status, Mode
<1> QED BY <1>2, <1>4, <1>6, HeadStepSuffices

-----------------------------------------------------------------------------
(* Sending a request.                                                      *)

\* The statuses st are sound for execQueue.
Sound(st) ==
  /\ st \in [Request -> Status]
  /\ Queued(execQueue, st)
  /\ \A s \in Request : st[s] \in {"queued", "fetching"} => opCtx[s] # None

\* The head of the queue after request r was sent is no scan in progress, or
\* it was the head before.
HeadKept(r) ==
  \/ execQueue' = <<>>
  \/ Head(execQueue').step \in {"exec", "scan"}
  \/ /\ execQueue # <<>> /\ Head(execQueue') = Head(execQueue)
     /\ ndbOpen' = ndbOpen
     /\ Head(execQueue).req \in Request \ {r}
     /\ opCtx'[Head(execQueue).req] = opCtx[Head(execQueue).req]

\* The types of what ExecuteSpecific and Send change.
SentTypes ==
  /\ execQueue' \in Seq(Call)
  /\ ndbOpen' \in [Context -> BOOLEAN]
  /\ panic' \in Panics
  /\ status' \in [Request -> Status]
  /\ execCount' \in [Handler -> Nat]
  /\ opCtx' \in [Request -> Context \cup {None}]
  /\ \A x \in Context : ndbOpen[x] => ndbOpen'[x]

LEMMA HeadOf ==
  ASSUME TypeOK, NEW st, Sound(st), NEW r \in Request, st[r] # "queued", execQueue # <<>>
  PROVE  Head(execQueue).req \in Request \ {r}
<1>1. /\ Head(execQueue) \in Call /\ Head(execQueue) = execQueue[1] /\ 1 \in DOMAIN execQueue
  BY TailOf DEF TypeOK
<1>2. Head(execQueue).req \in Request
  BY <1>1 DEF Call
<1>3. st[Head(execQueue).req] = "queued"
  BY <1>1 DEF Sound, Queued
<1> QED BY <1>2, <1>3

LEMMA SendFacts ==
  ASSUME TypeOK, NEW st, Sound(st), NEW r \in Request, st[r] # "queued",
         NEW h \in Handler, NEW step \in {"exec", "scan"}, NEW c \in Context,
         Send(r, h, step, c, st)
  PROVE  /\ SentTypes /\ QueueOK' /\ HeadKept(r)
         /\ status' = [st EXCEPT ![r] = "queued"]
<1> DEFINE call == NewCall(r, step, execCount[h] >= 1)
<1>1. /\ status' = [st EXCEPT ![r] = "queued"]
      /\ execCount' = [execCount EXCEPT ![h] = @ + 1]
      /\ opCtx' = [opCtx EXCEPT ![r] = c]
      /\ Enqueue(call, opCtx')
  BY DEF Send
<1>2. call \in Call /\ call.req = r /\ call.step = step
  BY DEF NewCall, Call, Step, TypeOK
<1> HIDE DEF call
<1>3. execQueue \in Seq(Call) /\ ndbOpen \in [Context -> BOOLEAN] /\ panic \in Panics
  BY DEF TypeOK, Panics
<1>4. /\ execQueue' = Append(execQueue, call) /\ execQueue' \in Seq(Call)
      /\ ndbOpen' \in [Context -> BOOLEAN] /\ panic' \in Panics
      /\ \A x \in Context : ndbOpen[x] => ndbOpen'[x]
      /\ execQueue # <<>> => ndbOpen' = ndbOpen
  BY <1>1, <1>2, <1>3, EnqueueFacts
<1>5. SentTypes
  BY <1>1, <1>4 DEF SentTypes, TypeOK, Sound, Status
<1>6. Queued(execQueue', status')
  BY <1>1, <1>2, <1>3, <1>4, QueuedAppend DEF Sound
<1>7. QueueOK'
  <2>1. \A s \in Request : status'[s] \in {"queued", "fetching"} => opCtx'[s] # None
    BY <1>1, ConstantsOK DEF Sound, TypeOK
  <2> QED BY <1>6, <2>1 DEF QueueOK
<1>8. HeadKept(r)
  <2>1. CASE execQueue = <<>>
    BY <1>2, <1>4, <2>1 DEF HeadKept
  <2>2. CASE execQueue # <<>>
    <3>1. Head(execQueue') = Head(execQueue)
      BY <1>2, <1>3, <1>4, <2>2, AppendOf
    <3>2. Head(execQueue).req \in Request \ {r}
      BY <2>2, HeadOf
    <3>3. opCtx'[Head(execQueue).req] = opCtx[Head(execQueue).req]
      BY <1>1, <3>2 DEF TypeOK
    <3> QED BY <1>4, <2>2, <3>1, <3>2, <3>3 DEF HeadKept
  <2> QED BY <2>1, <2>2
<1> QED BY <1>1, <1>5, <1>7, <1>8

LEMMA SpecificFacts ==
  ASSUME TypeOK, NEW st, Sound(st), NEW r \in Request, st[r] # "queued",
         NEW h \in Handler, NEW k, NEW c \in Context \cup {None},
         panic = "no", ExecuteSpecific(r, h, k, c, st)
  PROVE  /\ SentTypes
         /\ panic' = "no" => /\ QueueOK' /\ HeadKept(r)
                             /\ \/ status' = [st EXCEPT ![r] = "autoInc"]
                                \/ status' = [st EXCEPT ![r] = "queued"] /\ c # None
<1>1. CASE k = "autoInc"
  <2>1. /\ status' = [st EXCEPT ![r] = "autoInc"]
        /\ UNCHANGED <<execQueue, ndbOpen, execCount, opCtx, panic>>
    BY <1>1 DEF ExecuteSpecific
  <2>2. SentTypes
    BY <2>1 DEF SentTypes, TypeOK, Sound, Status, Panics
  <2>3. HeadKept(r)
    BY <2>1, HeadOf DEF HeadKept
  <2>4. Queued(execQueue', status')
    <3>1. \A i \in DOMAIN execQueue : st[execQueue[i].req] = "queued" /\ execQueue[i].req # r
      BY DEF Sound, Queued
    <3>2. \A i \in DOMAIN execQueue : execQueue[i] \in Call
      BY DEF TypeOK
    <3>3. \A i \in DOMAIN execQueue : execQueue[i].req \in Request
      BY <3>2 DEF Call
    <3>4. \A i \in DOMAIN execQueue : status'[execQueue[i].req] = "queued"
      BY <2>1, <3>1, <3>3 DEF Sound
    <3> QED BY <2>1, <3>4 DEF Sound, Queued
  <2>5. QueueOK'
    <3>1. \A s \in Request : status'[s] \in {"queued", "fetching"} => opCtx'[s] # None
      BY <2>1 DEF Sound
    <3> QED BY <2>4, <3>1 DEF QueueOK
  <2> QED BY <2>1, <2>2, <2>3, <2>5
<1>2. CASE k # "autoInc" /\ c # None
  <2>1. Send(r, h, FirstStep(k), c, st)
    BY <1>2 DEF ExecuteSpecific, Crash
  <2>2. FirstStep(k) \in {"exec", "scan"} /\ c \in Context
    BY <1>2 DEF FirstStep
  <2> QED BY <1>2, <2>1, <2>2, SendFacts
<1>3. CASE k # "autoInc" /\ c = None
  BY <1>3 DEF ExecuteSpecific, Crash, SentTypes, TypeOK, Sound, Panics
<1> QED BY <1>1, <1>2, <1>3

\* The first part of ScansOpen after a request was sent.
LEMMA HeadScanKept ==
  ASSUME NEW r, HeadKept(r), HeadScan(execQueue, ndbOpen, opCtx, impl, owner),
         \A s \in Request \ {r} : owner'[s] = owner[s],
         execQueue # <<>> /\ Head(execQueue).step \notin {"exec", "scan"}
           => impl'[owner[Head(execQueue).req]] = impl[owner[Head(execQueue).req]]
  PROVE  HeadScan(execQueue', ndbOpen', opCtx', impl', owner')
BY DEF HeadKept, HeadScan

-----------------------------------------------------------------------------
(* The other native completions.                                           *)

LEMMA AutoIncDoneKeeps ==
  ASSUME IInv, NEW r \in Request, AutoIncDone(r)
  PROVE  IInv'
<1>1. /\ TypeOK /\ Alive /\ panic = "no" /\ replying = None /\ status[r] = "autoInc"
  BY DEF IInv, AutoIncDone
<1>2. owner[r] \in Handler
  BY <1>1, OwnersAreHandlers DEF Alive
<1>3. ExclusiveContexts'
  BY DEF IInv, ExclusiveContexts, AutoIncDone
<1>4. CASE impl[owner[r]] # None
  <2>1. Sound(status)
    BY <1>1 DEF Sound, Alive, QueueOK, TypeOK
  <2>2. impl[owner[r]] \in Context
    BY <1>1, <1>2, <1>4 DEF TypeOK
  <2>3. Send(r, owner[r], "exec", impl[owner[r]], status)
    BY <1>4 DEF AutoIncDone
  <2>4. /\ SentTypes /\ QueueOK' /\ HeadKept(r)
        /\ status' = [status EXCEPT ![r] = "queued"]
    BY <1>1, <1>2, <2>1, <2>2, <2>3, SendFacts
  <2>5. Moves(r, "queued")
    BY <1>1, <1>4, <2>4 DEF AutoIncDone, Moves, Frame
  <2>6. /\ HandlersOK' /\ RequestsOK' /\ OneCloser' /\ CloserHasContext'
        /\ Accounting' /\ WaitersOK'
    BY <1>1, <2>5, MovesKeep
  <2>7. HeadScan(execQueue', ndbOpen', opCtx', impl', owner')
    BY <1>1, <2>4, HeadScanKept DEF Alive, ScansOpen, AutoIncDone
  <2>8. ScansOpen'
    BY <1>1, <2>7 DEF ScansOpen, AutoIncDone
  <2>9. TypeOK'
    BY <1>1, <2>4 DEF TypeOK, SentTypes, AutoIncDone, historyVars, Panics
  <2> QED BY <1>3, <2>4, <2>6, <2>8, <2>9 DEF IInv, Alive
<1>5. CASE impl[owner[r]] = None
  <2>1. TypeOK'
    BY <1>1, <1>5 DEF TypeOK, AutoIncDone, Crash, historyVars
  <2>2. panic' = "nullImpl"
    BY <1>5 DEF AutoIncDone, Crash
  <2> QED BY <1>3, <2>1, <2>2 DEF IInv
<1> QED BY <1>4, <1>5

LEMMA QueryDoneKeeps ==
  ASSUME IInv, NEW r \in Request, NEW o, QueryDone(r, o)
  PROVE  IInv'
<1> DEFINE h == owner[r]
           c == NewCall(r, ClosingStep(h, o), TRUE)
<1>1. /\ TypeOK /\ Alive /\ panic = "no" /\ replying = None /\ status[r] = "fetching"
  BY DEF IInv, QueryDone
<1>2. h \in Handler
  BY <1>1, OwnersAreHandlers DEF Alive
<1>3. ExclusiveContexts'
  BY DEF IInv, ExclusiveContexts, QueryDone, UnchangedByScans
<1>4. CASE impl[h] = opCtx[r] /\ ndbOpen[opCtx[r]]
  <2>1. Enqueue(c, opCtx) /\ status' = [status EXCEPT ![r] = "queued"] /\ UNCHANGED execCount
    BY <1>4 DEF QueryDone
  <2>2. c \in Call /\ c.req = r
    <3>1. ClosingStep(h, o) \in Step
      <4>1. CASE o = "end"
        BY <4>1 DEF ClosingStep, Step
      <4>2. CASE o # "end" /\ o = "timeout" /\ retries[h] < MaxRetries
        BY <4>2 DEF ClosingStep, Step
      <4>3. CASE o # "end" /\ ~(o = "timeout" /\ retries[h] < MaxRetries)
        BY <4>3 DEF ClosingStep, Step
      <4> QED BY <4>1, <4>2, <4>3
    <3> QED BY <3>1 DEF NewCall, Call
  <2> HIDE DEF c
  <2>3. execQueue \in Seq(Call) /\ ndbOpen \in [Context -> BOOLEAN] /\ panic \in Panics
    BY <1>1 DEF TypeOK, Panics
  <2>4. /\ execQueue' = Append(execQueue, c) /\ execQueue' \in Seq(Call)
        /\ ndbOpen' \in [Context -> BOOLEAN] /\ panic' \in Panics
        /\ execQueue = <<>> /\ panic' = "no" => HeadScan(<<c>>, ndbOpen', opCtx, impl, owner)
        /\ execQueue # <<>> => ndbOpen' = ndbOpen
    BY <2>1, <2>2, <2>3, EnqueueFacts
  <2>5. Moves(r, "queued")
    BY <1>1, <2>1 DEF QueryDone, UnchangedByScans, Moves, Frame
  <2>6. /\ HandlersOK' /\ RequestsOK' /\ OneCloser' /\ CloserHasContext'
        /\ Accounting' /\ WaitersOK'
    BY <1>1, <2>5, MovesKeep
  <2>7. QueueOK'
    <3>1. Queued(execQueue', status')
      BY <1>1, <2>1, <2>2, <2>3, <2>4, QueuedAppend DEF Alive, QueueOK, TypeOK
    <3>2. \A s \in Request : status'[s] \in {"queued", "fetching"} => opCtx[s] # None
      BY <1>1, <2>1 DEF Alive, QueueOK, TypeOK
    <3> QED BY <3>1, <3>2 DEF QueueOK, QueryDone, UnchangedByScans
  <2>8. ASSUME panic' = "no" PROVE ScansOpen'
    <3>0. impl' = impl /\ owner' = owner /\ opCtx' = opCtx /\ replying' = None
      BY <1>1 DEF QueryDone, UnchangedByScans
    <3>1. CASE execQueue = <<>>
      <4>1. execQueue' = <<c>>
        BY <2>4, <3>1
      <4> QED BY <2>4, <2>8, <3>0, <3>1, <4>1 DEF ScansOpen
    <3>2. CASE execQueue # <<>>
      <4>1. Head(execQueue') = Head(execQueue)
        BY <2>2, <2>3, <2>4, <3>2, AppendOf
      <4> QED BY <1>1, <2>4, <3>0, <3>2, <4>1 DEF Alive, ScansOpen, HeadScan
    <3> QED BY <3>1, <3>2
  <2>9. TypeOK'
    <3>1. retries' \in [Handler -> Nat]
      <4>1. CountRetry(h, o)
        BY <1>4 DEF QueryDone
      <4>2. retries \in [Handler -> Nat]
        BY <1>1 DEF TypeOK
      <4>3. [retries EXCEPT ![h] = @ + 1] \in [Handler -> Nat]
        BY <1>2, <4>2
      <4>4. retries' = retries \/ retries' = [retries EXCEPT ![h] = @ + 1]
        BY <4>1 DEF CountRetry
      <4> QED BY <4>2, <4>3, <4>4
    <3>2. /\ UNCHANGED <<txError, mode, result, replying, execCount>> /\ UnchangedByScans
          /\ status' = [status EXCEPT ![r] = "queued"]
      BY <2>1 DEF QueryDone
    <3> QED BY <1>1, <2>4, <3>1, <3>2 DEF TypeOK, UnchangedByScans, historyVars, Panics, Status
  <2> QED BY <1>3, <2>6, <2>7, <2>8, <2>9 DEF IInv, Alive
<1>5. CASE ~(impl[h] = opCtx[r] /\ ndbOpen[opCtx[r]])
  <2>1. TypeOK'
    BY <1>1, <1>5 DEF TypeOK, QueryDone, Crash, UnchangedByScans, historyVars
  <2>2. panic' = "staleScan"
    BY <1>5 DEF QueryDone, Crash
  <2> QED BY <1>3, <2>1, <2>2 DEF IInv
<1> QED BY <1>4, <1>5

-----------------------------------------------------------------------------
(* Contexts that handlers hold.                                            *)

\* The contexts held under the assignment im of contexts to handlers.
HeldBy(im) == {c \in Context : \E h \in Handler : im[h] = c}

Exclusive(im) == \A g, h \in Handler : im[g] # None /\ im[g] = im[h] => g = h

LEMMA HeldIsFinite ==
  ASSUME NEW im
  PROVE  /\ IsFiniteSet(HeldBy(im)) /\ Cardinality(HeldBy(im)) \in Nat
         /\ Cardinality(HeldBy(im)) <= MaxTxContexts /\ MaxTxContexts \in Nat
<1>1. HeldBy(im) \subseteq Context /\ IsFiniteSet(Context)
  BY ConstantsOK DEF HeldBy
<1>2. IsFiniteSet(HeldBy(im)) /\ Cardinality(HeldBy(im)) <= Cardinality(Context)
  BY <1>1, FS_Subset
<1> QED BY <1>1, <1>2, FS_CardinalityType DEF MaxTxContexts

\* A handler without a context gets a new one.
LEMMA HeldByOneMore ==
  ASSUME NEW im \in [Handler -> Context \cup {None}], Exclusive(im),
         NEW h \in Handler, im[h] = None, NEW c \in Context, c \notin HeldBy(im),
         NEW jm, jm[h] = c, \A g \in Handler \ {h} : jm[g] = im[g]
  PROVE  /\ HeldBy(jm) = HeldBy(im) \cup {c} /\ Exclusive(jm)
         /\ Cardinality(HeldBy(jm)) = Cardinality(HeldBy(im)) + 1
<1>0. None \notin Context
  BY ConstantsOK
<1>1. HeldBy(jm) = HeldBy(im) \cup {c}
  <2>1. ASSUME NEW x \in HeldBy(jm) PROVE x \in HeldBy(im) \cup {c}
    BY <2>1 DEF HeldBy
  <2>2. ASSUME NEW x \in HeldBy(im) PROVE x \in HeldBy(jm)
    <3>1. PICK g \in Handler : im[g] = x
      BY <2>2 DEF HeldBy
    <3>2. x \in Context /\ g # h
      BY <1>0, <2>2, <3>1 DEF HeldBy
    <3> QED BY <3>1, <3>2 DEF HeldBy
  <2>3. c \in HeldBy(jm)
    BY DEF HeldBy
  <2> QED BY <2>1, <2>2, <2>3
<1>2. Exclusive(jm)
  BY <1>0 DEF Exclusive, HeldBy
<1>3. Cardinality(HeldBy(im) \cup {c}) = Cardinality(HeldBy(im)) + 1
  BY HeldIsFinite, FS_AddElement
<1> QED BY <1>1, <1>2, <1>3

\* A handler loses its context.
LEMMA HeldByOneLess ==
  ASSUME NEW im \in [Handler -> Context \cup {None}], Exclusive(im),
         NEW h \in Handler, im[h] # None,
         NEW jm, jm[h] = None, \A g \in Handler \ {h} : jm[g] = im[g]
  PROVE  /\ im[h] \in HeldBy(im)
         /\ HeldBy(jm) = HeldBy(im) \ {im[h]} /\ Exclusive(jm)
         /\ Cardinality(HeldBy(jm)) = Cardinality(HeldBy(im)) - 1
<1>0. None \notin Context
  BY ConstantsOK
<1>1. im[h] \in HeldBy(im)
  BY DEF HeldBy
<1>2. HeldBy(jm) = HeldBy(im) \ {im[h]}
  <2>1. ASSUME NEW x \in HeldBy(jm) PROVE x \in HeldBy(im) /\ x # im[h]
    <3>1. PICK g \in Handler : jm[g] = x
      BY <2>1 DEF HeldBy
    <3>2. x \in Context /\ g # h
      BY <1>0, <2>1, <3>1 DEF HeldBy
    <3> QED BY <1>0, <3>1, <3>2 DEF HeldBy, Exclusive
  <2>2. ASSUME NEW x \in HeldBy(im), x # im[h] PROVE x \in HeldBy(jm)
    BY <2>2 DEF HeldBy
  <2> QED BY <2>1, <2>2
<1>3. Exclusive(jm)
  BY <1>0 DEF Exclusive
<1>4. Cardinality(HeldBy(im) \ {im[h]}) = Cardinality(HeldBy(im)) - 1
  BY <1>1, HeldIsFinite, FS_RemoveElement
<1> QED BY <1>1, <1>2, <1>3, <1>4

\* A handler hands its context over to another.
LEMMA HeldByAnother ==
  ASSUME NEW im \in [Handler -> Context \cup {None}], Exclusive(im),
         NEW h \in Handler, NEW g \in Handler, im[h] # None, im[g] = None,
         NEW jm, jm[g] = im[h], jm[h] = None,
         \A x \in Handler \ {g, h} : jm[x] = im[x]
  PROVE  HeldBy(jm) = HeldBy(im) /\ Exclusive(jm)
<1>0. None \notin Context /\ g # h
  BY ConstantsOK
<1>1. /\ jm[g] = im[h] /\ jm[h] = None
      /\ \A x \in Handler \ {g, h} : jm[x] = im[x]
  BY <1>0
<1>2. HeldBy(jm) \subseteq HeldBy(im)
  <2>1. ASSUME NEW x \in HeldBy(jm) PROVE x \in HeldBy(im)
    <3>1. PICK f \in Handler : jm[f] = x
      BY <2>1 DEF HeldBy
    <3>2. x \in Context
      BY <2>1 DEF HeldBy
    <3>3. f # h
      BY <1>0, <1>1, <3>1, <3>2
    <3>4. im[h] = x \/ im[f] = x
      BY <1>1, <3>1, <3>3
    <3> QED BY <3>2, <3>4 DEF HeldBy
  <2> QED BY <2>1
<1>3. HeldBy(im) \subseteq HeldBy(jm)
  <2>1. ASSUME NEW x \in HeldBy(im) PROVE x \in HeldBy(jm)
    <3>1. PICK f \in Handler : im[f] = x
      BY <2>1 DEF HeldBy
    <3>2. x \in Context /\ f # g
      BY <1>0, <2>1, <3>1 DEF HeldBy
    <3>3. jm[g] = x \/ jm[f] = x
      BY <1>1, <3>1, <3>2
    <3> QED BY <3>2, <3>3 DEF HeldBy
  <2> QED BY <2>1
<1>4. Exclusive(jm)
  BY <1>0, <1>1 DEF Exclusive
<1> QED BY <1>2, <1>3, <1>4

-----------------------------------------------------------------------------
(* The user's actions.                                                     *)

LEMMA BeginKeeps ==
  ASSUME IInv, Begin
  PROVE  IInv'
<1>1. TypeOK /\ Alive /\ None \notin Handler
  BY ConstantsOK DEF IInv, Begin
<1>2. PICK h \in Handler \ created :
        /\ created' = created \cup {h} /\ autocommit' = [autocommit EXCEPT ![h] = FALSE]
        /\ tx' = h
  BY DEF Begin
<1>3. \A r \in Request : owner[r] # h
  BY <1>1, <1>2 DEF Alive, HandlersOK
<1>4. \A g \in Handler \ {h} : autocommit'[g] = autocommit[g]
  BY <1>1, <1>2 DEF TypeOK
<1>5. UNCHANGED <<sentSeizeImpl, impl, queueVars, nativeVars, requestVars, replying>>
  BY DEF Begin
<1>6. \A r \in Request : Closer(r)' <=> Closer(r)
  <2> SUFFICES ASSUME NEW r \in Request PROVE Closer(r)' <=> Closer(r)
    OBVIOUS
  <2>1. owner[r] # None => owner[r] \in Handler \ {h}
    BY <1>1, <1>3 DEF TypeOK
  <2> QED BY <1>4, <1>5, <2>1 DEF Closer, requestVars
<1>7. HandlersOK'
  <2>1. autocommit'[h] = FALSE
    BY <1>1, <1>2 DEF TypeOK
  <2> QED BY <1>1, <1>2, <1>3, <1>4, <1>5, <2>1 DEF Alive, HandlersOK, requestVars
<1>8. RequestsOK' /\ OneCloser'
  BY <1>1, <1>5, <1>6 DEF Alive, RequestsOK, OneCloser, requestVars
<1>9. /\ CloserHasContext' /\ Accounting' /\ WaitersOK' /\ QueueOK' /\ ScansOpen'
      /\ ExclusiveContexts'
  BY <1>1, <1>5 DEF Alive, CloserHasContext, Accounting, Held, WaitersOK, QueueOK, ScansOpen,
                    IInv, ExclusiveContexts, requestVars, queueVars, nativeVars
<1>10. TypeOK'
  BY <1>1, <1>2, <1>5 DEF Begin, TypeOK, requestVars, queueVars, nativeVars, historyVars
<1> QED BY <1>7, <1>8, <1>9, <1>10 DEF IInv, Alive

LEMMA EndTransactionKeeps ==
  ASSUME IInv, NEW r \in Request, NEW k \in Ends, EndTransaction(r, k)
  PROVE  IInv'
<1>1. /\ TypeOK /\ Alive /\ panic = "no" /\ status[r] = "new" /\ tx # None
      /\ tx \in Handler /\ tx \in created /\ owner[r] = None
  BY DEF IInv, EndTransaction, TypeOK, Alive, RequestsOK
<1>2. /\ None \notin Handler /\ None \notin Request /\ None \notin Context
  BY ConstantsOK
<1>3. /\ tx' = None
      /\ owner' = [owner EXCEPT ![r] = tx] /\ kind' = [kind EXCEPT ![r] = k]
      /\ mode' = [mode EXCEPT ![r] = IF k = "commit" THEN "COMMIT" ELSE "ROLLBACK"]
      /\ UNCHANGED <<created, autocommit, sentSeizeImpl, impl, seizeTxQueue, openTxContexts,
                     freeList, allocated, replying, retries, txError, work>>
  BY DEF EndTransaction
<1>4. /\ \A s \in Request \ {r} : /\ owner'[s] = owner[s] /\ kind'[s] = kind[s]
                                   /\ mode'[s] = mode[s]
      /\ owner'[r] = tx /\ kind'[r] = k
  BY <1>1, <1>3 DEF TypeOK
<1>5. \A s \in Request \ {r} : (Closer(s)' <=> Closer(s)) /\ (owner[s] = tx => ~Closer(s))
  BY <1>1, <1>3, <1>4 DEF Closer, Alive, HandlersOK
<1>6. Closer(r)'
  BY <1>1, <1>2, <1>4 DEF Closer
<1>7. OneCloser'
  BY <1>1, <1>4, <1>5 DEF OneCloser, Alive
<1>8. HandlersOK'
  BY <1>1, <1>3, <1>4 DEF Alive, HandlersOK
<1>9. Accounting' /\ ExclusiveContexts'
  BY <1>1, <1>3 DEF Alive, Accounting, Held, IInv, ExclusiveContexts
<1>10. replying # r
  BY <1>1 DEF Alive, RequestsOK
\* What remains depends on whether the handler has a context.
<1>11. ASSUME NEW v \in {"queued", "done"}, status' = [status EXCEPT ![r] = v],
              v = "queued" => impl[tx] # None
       PROVE  RequestsOK' /\ CloserHasContext' /\ WaitersOK'
  <2>1. \A s \in Request \ {r} : status'[s] = status[s]
    BY <1>11 DEF TypeOK
  <2>2. status'[r] = v
    BY <1>1, <1>11 DEF TypeOK
  <2>3. RequestsOK'
    <3> SUFFICES ASSUME NEW s \in Request
                 PROVE  /\ status'[s] = "new" <=> owner'[s] = None
                        /\ status'[s] = "replying" <=> replying' = s
                        /\ owner'[s] # None => mode'[s] \in Mode
                        /\ owner'[s] # None /\ mode'[s] = "COMMIT" => Closer(s)'
                        /\ owner'[s] # None /\ mode'[s] = "ROLLBACK" /\ kind'[s] \notin Ends
                             => status'[s] \in {"replying", "done"}
      BY DEF RequestsOK
    <3>0. mode'[r] \in Mode
      BY <1>1, <1>3 DEF TypeOK, Mode
    <3>1. CASE s = r
      BY <1>1, <1>2, <1>3, <1>4, <1>6, <1>10, <2>2, <3>0, <3>1
    <3>2. CASE s # r
      BY <1>1, <1>3, <1>4, <1>5, <2>1, <3>2 DEF Alive, RequestsOK
    <3> QED BY <3>1, <3>2
  <2>4. CloserHasContext'
    BY <1>1, <1>3, <1>4, <1>11, <2>1, <2>2 DEF Alive, CloserHasContext
  <2>5. WaitersOK'
    <3>1. \A i \in DOMAIN seizeTxQueue : seizeTxQueue[i] \in Request \ {r}
      BY <1>1 DEF Alive, WaitersOK, TypeOK
    <3> QED BY <1>1, <1>3, <1>4, <2>1, <3>1 DEF Alive, WaitersOK
  <2> QED BY <2>3, <2>4, <2>5
<1>12. ASSUME HeadScan(execQueue', ndbOpen', opCtx', impl', owner'),
              \A x \in Context : ndbOpen[x] => ndbOpen'[x]
       PROVE  ScansOpen'
  <2>1. ASSUME replying # None, mode'[replying] = "ROLLBACK", kind'[replying] \notin Ends
        PROVE  ndbOpen'[impl'[owner'[replying]]]
    <3>1. replying \in Request \ {r}
      BY <1>1, <1>10, <2>1 DEF TypeOK
    <3>2. mode[replying] = "ROLLBACK" /\ kind[replying] \notin Ends /\ status[replying] = "replying"
      BY <1>1, <1>4, <2>1, <3>1 DEF Alive, RequestsOK
    <3>3. impl[owner[replying]] # None /\ owner[replying] \in Handler
      BY <1>1, <3>1, <3>2, OwnersAreHandlers DEF Alive, CloserHasContext
    <3>4. ndbOpen[impl[owner[replying]]] /\ impl[owner[replying]] \in Context
      BY <1>1, <2>1, <3>2, <3>3 DEF Alive, ScansOpen, TypeOK
    <3> QED BY <1>3, <1>4, <1>12, <3>1, <3>4
  <2> QED BY <1>3, <1>12, <2>1 DEF ScansOpen
<1>13. Sound(status)
  BY <1>1 DEF Sound, Alive, QueueOK, TypeOK
<1>14. CASE HasImpl(tx)
  <2>1. /\ Send(r, tx, "exec", impl[tx], status) /\ UNCHANGED <<result, nativeOk>>
    BY <1>14 DEF EndTransaction
  <2>2. impl[tx] \in Context
    BY <1>1, <1>14 DEF HasImpl, TypeOK
  <2>3. /\ SentTypes /\ QueueOK' /\ HeadKept(r)
        /\ status' = [status EXCEPT ![r] = "queued"]
    BY <1>1, <1>13, <2>1, <2>2, SendFacts
  <2>4. HeadScan(execQueue', ndbOpen', opCtx', impl', owner')
    BY <1>1, <1>3, <1>4, <2>3, HeadScanKept DEF Alive, ScansOpen
  <2>5. RequestsOK' /\ CloserHasContext' /\ WaitersOK' /\ ScansOpen'
    BY <1>11, <1>12, <1>14, <2>3, <2>4 DEF HasImpl, SentTypes
  <2>6. TypeOK'
    BY <1>1, <1>3, <2>1, <2>3 DEF TypeOK, SentTypes, Panics, Mode
  <2> QED BY <1>7, <1>8, <1>9, <2>3, <2>5, <2>6 DEF IInv, Alive
<1>15. CASE ~HasImpl(tx)
  <2>1. /\ status' = [status EXCEPT ![r] = "done"]
        /\ UNCHANGED <<execQueue, ndbOpen, execCount, opCtx, panic>>
        /\ result' = [result EXCEPT ![r] = "ok"] /\ nativeOk' = [nativeOk EXCEPT ![r] = TRUE]
    BY <1>15 DEF EndTransaction
  <2>2. RequestsOK' /\ CloserHasContext' /\ WaitersOK'
    BY <1>11, <2>1
  <2>3. QueueOK'
    <3>1. \A i \in DOMAIN execQueue : execQueue[i] \in Call /\ status[execQueue[i].req] = "queued"
      BY <1>13 DEF Sound, Queued, TypeOK, IInv
    <3>2. \A i \in DOMAIN execQueue : execQueue[i].req \in Request \ {r}
      BY <1>1, <3>1 DEF Call
    <3>3. \A i \in DOMAIN execQueue : status'[execQueue[i].req] = "queued"
      BY <2>1, <3>1, <3>2, <1>1 DEF TypeOK
    <3>4. Queued(execQueue', status')
      BY <1>13, <2>1, <3>3 DEF Sound, Queued
    <3>5. \A s \in Request : status'[s] \in {"queued", "fetching"} => opCtx[s] # None
      BY <1>13, <2>1 DEF Sound
    <3> QED BY <2>1, <3>4, <3>5 DEF QueueOK
  <2>4. HeadScan(execQueue', ndbOpen', opCtx', impl', owner')
    <3>1. HeadKept(r)
      BY <1>1, <1>13, <2>1, HeadOf DEF HeadKept
    <3> QED BY <1>1, <1>3, <1>4, <3>1, HeadScanKept DEF Alive, ScansOpen
  <2>5. ScansOpen'
    BY <1>12, <2>1, <2>4
  <2>6. TypeOK'
    BY <1>1, <1>3, <2>1 DEF TypeOK, Mode, Status
  <2> QED BY <1>7, <1>8, <1>9, <2>2, <2>3, <2>5, <2>6 DEF IInv, Alive
<1> QED BY <1>14, <1>15

\* Request r of kind k enters with handler h: a new one in autocommit mode, or
\* the current one.
Enters(r, h, k) ==
  /\ status[r] = "new"
  /\ IF tx = None THEN h \notin created ELSE h = tx
  /\ created' = created \cup {h}
  /\ tx' = IF autocommit[h] THEN None ELSE h
  /\ owner' = [owner EXCEPT ![r] = h]
  /\ kind' = [kind EXCEPT ![r] = k]
  /\ mode' = [mode EXCEPT ![r] = IF autocommit[h] THEN "COMMIT" ELSE "NOCOMMIT"]
  /\ UNCHANGED <<autocommit, replying>>

\* It gets status v, and its handler perhaps a context.
EntersWith(r, h, v) ==
  /\ status' = [status EXCEPT ![r] = v]
  /\ v \in {"seizing", "autoInc", "queued"}
  /\ sentSeizeImpl' = [sentSeizeImpl EXCEPT ![h] = TRUE]
  /\ impl' \in [Handler -> Context \cup {None}]
  /\ \A g \in Handler : g # h \/ impl[g] # None => impl'[g] = impl[g]
  /\ v = "queued" => impl'[h] # None

\* What holds of an execute whatever becomes of the context.
LEMMA EntersFacts ==
  ASSUME TypeOK, Alive, NEW r \in Request, NEW h \in Handler, NEW k \in Kinds,
         Enters(r, h, k)
  PROVE  /\ OneCloser'
         /\ \A s \in Request \ {r} : /\ owner'[s] = owner[s] /\ kind'[s] = kind[s]
                                      /\ mode'[s] = mode[s] /\ (Closer(s)' <=> Closer(s))
         /\ owner'[r] = h /\ kind'[r] \notin Ends
         /\ mode'[r] \in {"COMMIT", "NOCOMMIT"} /\ (mode'[r] = "COMMIT" => Closer(r)')
         /\ replying # r /\ h # None
         /\ tx' # None => tx' = h /\ ~autocommit'[tx']
                          /\ \A s \in Request : owner'[s] = h => kind'[s] \notin Ends
<1>1. /\ None \notin Handler /\ None \notin Request /\ k \notin Ends
  BY ConstantsOK DEF Ends
<1>2. /\ status[r] = "new" /\ owner[r] = None /\ replying # r
      /\ owner' = [owner EXCEPT ![r] = h] /\ kind' = [kind EXCEPT ![r] = k]
      /\ mode' = [mode EXCEPT ![r] = IF autocommit[h] THEN "COMMIT" ELSE "NOCOMMIT"]
      /\ UNCHANGED <<autocommit, replying>>
  BY DEF Enters, Alive, RequestsOK
<1>3. /\ \A s \in Request \ {r} : owner'[s] = owner[s] /\ kind'[s] = kind[s] /\ mode'[s] = mode[s]
      /\ owner'[r] = h /\ kind'[r] = k
      /\ mode'[r] = IF autocommit[h] THEN "COMMIT" ELSE "NOCOMMIT"
  BY <1>2 DEF TypeOK
<1>4. \A s \in Request \ {r} : Closer(s)' <=> Closer(s)
  BY <1>2, <1>3 DEF Closer
<1>5. Closer(r)' <=> autocommit[h]
  BY <1>1, <1>2, <1>3 DEF Closer
<1>6. autocommit[h] => \A s \in Request : owner[s] # h
  BY DEF Enters, Alive, HandlersOK
<1>7. OneCloser'
  BY <1>3, <1>4, <1>5, <1>6 DEF Alive, OneCloser
<1>8. ASSUME ~autocommit[h] PROVE \A s \in Request : owner'[s] = h => kind'[s] \notin Ends
  <2>1. tx = h
    BY <1>8 DEF Enters, Alive, HandlersOK
  <2> QED BY <1>1, <1>3, <2>1 DEF Alive, HandlersOK
<1>9. tx' = IF autocommit[h] THEN None ELSE h
  BY DEF Enters
<1> QED BY <1>1, <1>2, <1>3, <1>4, <1>5, <1>7, <1>8, <1>9

LEMMA EntersKeeps ==
  ASSUME TypeOK, Alive, NEW r \in Request, NEW h \in Handler, NEW k \in Kinds, NEW v,
         Enters(r, h, k), EntersWith(r, h, v)
  PROVE  /\ HandlersOK' /\ RequestsOK' /\ OneCloser' /\ CloserHasContext'
         /\ HeadKept(r) /\ (\A x \in Context : ndbOpen[x] => ndbOpen'[x]) => ScansOpen'
         /\ \A s \in Request \ {r} : status'[s] = status[s]
         /\ \A i \in DOMAIN seizeTxQueue : seizeTxQueue[i] \in Request \ {r}
<1>1. /\ \A s \in Request \ {r} : /\ owner'[s] = owner[s] /\ kind'[s] = kind[s]
                                   /\ mode'[s] = mode[s] /\ (Closer(s)' <=> Closer(s))
      /\ owner'[r] = h /\ kind'[r] \notin Ends
      /\ mode'[r] \in {"COMMIT", "NOCOMMIT"} /\ (mode'[r] = "COMMIT" => Closer(r)')
      /\ replying # r /\ h # None
      /\ OneCloser'
  BY EntersFacts
<1>2. /\ status'[r] = v /\ v \in {"seizing", "autoInc", "queued"}
      /\ \A s \in Request \ {r} : status'[s] = status[s]
      /\ sentSeizeImpl'[h] = TRUE
      /\ \A g \in Handler \ {h} : sentSeizeImpl'[g] = sentSeizeImpl[g] /\ impl'[g] = impl[g]
      /\ impl[h] # None => impl'[h] = impl[h]
      /\ v = "queued" => impl'[h] # None
  BY DEF EntersWith, TypeOK
<1>3. HandlersOK'
  <2>1. \A g \in Handler : ~sentSeizeImpl'[g] => impl'[g] = None
    BY <1>2 DEF Alive, HandlersOK
  <2>2. \A g \in Handler \ created' : /\ autocommit'[g] /\ ~sentSeizeImpl'[g]
                                      /\ \A s \in Request : owner'[s] # g
    BY <1>1, <1>2 DEF Alive, HandlersOK, Enters
  <2>3. tx' # None => ~autocommit'[tx'] /\ \A s \in Request : owner'[s] = tx' => kind'[s] \notin Ends
    BY EntersFacts
  <2> QED BY <2>1, <2>2, <2>3 DEF HandlersOK
<1>4. RequestsOK'
  <2> SUFFICES ASSUME NEW s \in Request
               PROVE  /\ status'[s] = "new" <=> owner'[s] = None
                      /\ status'[s] = "replying" <=> replying' = s
                      /\ owner'[s] # None => mode'[s] \in Mode
                      /\ owner'[s] # None /\ mode'[s] = "COMMIT" => Closer(s)'
                      /\ owner'[s] # None /\ mode'[s] = "ROLLBACK" /\ kind'[s] \notin Ends
                           => status'[s] \in {"replying", "done"}
    BY DEF RequestsOK
  <2>0. replying' = replying
    BY DEF Enters
  <2>1. mode'[r] \in Mode
    BY <1>1 DEF Mode
  <2>2. CASE s = r
    BY <1>1, <1>2, <2>0, <2>1, <2>2
  <2>3. CASE s # r
    BY <1>1, <1>2, <2>0, <2>3 DEF Alive, RequestsOK
  <2> QED BY <2>2, <2>3
<1>5. CloserHasContext'
  <2> SUFFICES ASSUME NEW s \in Request,
                      status'[s] \in {"queued", "fetching", "replying"}, mode'[s] # "NOCOMMIT"
               PROVE  impl'[owner'[s]] # None
    BY DEF CloserHasContext
  <2>1. CASE s = r
    BY <1>1, <1>2, <2>1
  <2>2. CASE s # r
    <3>1. impl[owner[s]] # None /\ owner[s] \in Handler
      BY <1>1, <1>2, <2>2, OwnersAreHandlers DEF Alive, CloserHasContext
    <3> QED BY <1>1, <1>2, <2>2, <3>1
  <2> QED BY <2>1, <2>2
<1>6. ASSUME HeadKept(r), \A x \in Context : ndbOpen[x] => ndbOpen'[x]
      PROVE  ScansOpen'
  <2>1. HeadScan(execQueue', ndbOpen', opCtx', impl', owner')
    <3>1. ASSUME execQueue # <<>>, Head(execQueue).step \notin {"exec", "scan"}
          PROVE  impl'[owner[Head(execQueue).req]] = impl[owner[Head(execQueue).req]]
      <4>1. /\ impl[owner[Head(execQueue).req]] = opCtx[Head(execQueue).req]
            /\ owner[Head(execQueue).req] \in Handler /\ opCtx[Head(execQueue).req] \in Context
        BY <3>1, HeadRequest DEF Alive, ScansOpen, HeadScan
      <4> QED BY <1>2, <4>1, ConstantsOK
    <3> QED BY <1>1, <1>6, <3>1, HeadScanKept DEF Alive, ScansOpen
  <2>2. ASSUME replying # None, mode'[replying] = "ROLLBACK", kind'[replying] \notin Ends
        PROVE  ndbOpen'[impl'[owner'[replying]]]
    <3>1. replying \in Request \ {r}
      BY <1>1, <2>2 DEF TypeOK
    <3>2. mode[replying] = "ROLLBACK" /\ kind[replying] \notin Ends /\ status[replying] = "replying"
      BY <1>1, <2>2, <3>1 DEF Alive, RequestsOK
    <3>3. impl[owner[replying]] # None /\ owner[replying] \in Handler
      BY <3>1, <3>2, OwnersAreHandlers DEF Alive, CloserHasContext
    <3>4. ndbOpen[impl[owner[replying]]] /\ impl[owner[replying]] \in Context
      BY <2>2, <3>2, <3>3 DEF Alive, ScansOpen, TypeOK
    <3> QED BY <1>1, <1>2, <1>6, <3>1, <3>3, <3>4
  <2> QED BY <2>1, <2>2 DEF ScansOpen, Enters
<1>7. \A i \in DOMAIN seizeTxQueue : seizeTxQueue[i] \in Request \ {r}
  BY DEF Alive, WaitersOK, TypeOK, Enters
<1> QED BY <1>1, <1>2, <1>3, <1>4, <1>5, <1>6, <1>7

\* SessionImpl gives a context that no handler holds.
LEMMA SeizeFacts ==
  ASSUME TypeOK, Alive, NEW c \in Context, SeizeTransaction(c)
  PROVE  /\ c \notin Held
         /\ freeList' \subseteq allocated' /\ allocated' \subseteq Context
         /\ (Held \cup {c}) \cap freeList' = {}
         /\ (Held \cup {c}) \cup freeList' = allocated'
<1>1. /\ Held \cap freeList = {} /\ Held \cup freeList = allocated
      /\ freeList \subseteq allocated /\ allocated \subseteq Context
  BY DEF Alive, Accounting, TypeOK
<1>2. CASE c \in freeList /\ freeList' = freeList \ {c} /\ allocated' = allocated
  BY <1>1, <1>2
<1>3. CASE freeList = {} /\ c \notin allocated /\ allocated' = allocated \cup {c} /\ freeList' = freeList
  BY <1>1, <1>3
<1> QED BY <1>2, <1>3 DEF SeizeTransaction

\* HeldByOneMore for the step of the handler that seizes a context.
LEMMA HeldAfterSeize ==
  ASSUME NEW h \in Handler, NEW c \in Context,
         impl \in [Handler -> Context \cup {None}], Exclusive(impl),
         impl[h] = None, c \notin HeldBy(impl),
         impl'[h] = c, \A g \in Handler \ {h} : impl'[g] = impl[g]
  PROVE  /\ HeldBy(impl') = HeldBy(impl) \cup {c} /\ Exclusive(impl')
         /\ Cardinality(HeldBy(impl')) = Cardinality(HeldBy(impl)) + 1
<1>1. HeldBy(impl') = HeldBy(impl) \cup {c}
  BY HeldByOneMore
<1>2. Exclusive(impl') /\ Cardinality(HeldBy(impl')) = Cardinality(HeldBy(impl)) + 1
  BY HeldByOneMore
<1> QED BY <1>1, <1>2

LEMMA ExecuteKeeps ==
  ASSUME IInv, NEW r \in Request, NEW h \in Handler, NEW k \in Kinds, Execute(r, h, k)
  PROVE  IInv'
<1>1. /\ TypeOK /\ Alive /\ panic = "no" /\ ExclusiveContexts /\ status[r] = "new"
      /\ Sound(status) /\ Enters(r, h, k)
  BY DEF IInv, Execute, Enters, Sound, Alive, QueueOK, TypeOK
<1>2. \A i \in DOMAIN seizeTxQueue : seizeTxQueue[i] \in Request \ {r}
  BY <1>1 DEF Alive, WaitersOK, TypeOK
\* The frame of the types.
<1>3. ASSUME SentTypes, seizeTxQueue' \in Seq(Request), openTxContexts' \in Int,
             freeList' \subseteq allocated', allocated' \subseteq Context,
             sentSeizeImpl' \in [Handler -> BOOLEAN],
             impl' \in [Handler -> Context \cup {None}]
      PROVE  TypeOK'
  <2>1. /\ created' = created \cup {h} /\ tx' = IF autocommit[h] THEN None ELSE h
        /\ owner' = [owner EXCEPT ![r] = h] /\ kind' = [kind EXCEPT ![r] = k]
        /\ mode' = [mode EXCEPT ![r] = IF autocommit[h] THEN "COMMIT" ELSE "NOCOMMIT"]
        /\ UNCHANGED <<autocommit, retries, txError, result, replying, historyVars>>
    BY DEF Execute
  <2> QED BY <1>1, <1>3, <2>1 DEF TypeOK, SentTypes, Panics, Mode, historyVars
<1>4. ASSUME NEW v, EntersWith(r, h, v), WaitersOK', ExclusiveContexts', Accounting',
             QueueOK', HeadKept(r), SentTypes, TypeOK'
      PROVE  IInv'
  BY <1>1, <1>4, EntersKeeps DEF IInv, Alive, SentTypes
<1>5. CASE sentSeizeImpl[h]
  <2>1. /\ ExecuteSpecific(r, h, k, impl[h], status)
        /\ UNCHANGED <<sentSeizeImpl, impl, seizeTxQueue, openTxContexts, freeList, allocated>>
    BY <1>5 DEF Execute
  <2>2. impl[h] \in Context \cup {None}
    BY <1>1 DEF TypeOK
  <2>3. /\ SentTypes
        /\ panic' = "no" => /\ QueueOK' /\ HeadKept(r)
                            /\ \/ status' = [status EXCEPT ![r] = "autoInc"]
                               \/ status' = [status EXCEPT ![r] = "queued"] /\ impl[h] # None
    BY <1>1, <2>1, <2>2, SpecificFacts
  <2>4. TypeOK'
    BY <1>1, <1>3, <2>1, <2>3 DEF TypeOK
  <2>5. ExclusiveContexts' /\ Accounting'
    BY <1>1, <2>1 DEF Alive, ExclusiveContexts, Accounting, Held
  <2>6. CASE panic' # "no"
    BY <2>4, <2>5, <2>6 DEF IInv
  <2>7. CASE panic' = "no"
    <3>1. PICK v \in {"autoInc", "queued"} :
            status' = [status EXCEPT ![r] = v] /\ (v = "queued" => impl[h] # None)
      BY <2>3, <2>7
    <3>2. EntersWith(r, h, v)
      <4>1. sentSeizeImpl' = [sentSeizeImpl EXCEPT ![h] = TRUE]
        BY <1>1, <1>5, <2>1 DEF TypeOK
      <4> QED BY <1>1, <2>1, <3>1, <4>1 DEF EntersWith, TypeOK
    <3>3. \A s \in Request \ {r} : status'[s] = status[s] /\ owner'[s] = owner[s]
      BY <1>1, <3>1 DEF Enters, TypeOK
    <3>4. WaitersOK'
      BY <1>1, <1>2, <2>1, <3>3 DEF Alive, WaitersOK
    <3> QED BY <1>4, <2>3, <2>4, <2>5, <2>7, <3>2, <3>4
  <2> QED BY <2>6, <2>7
<1>6. CASE ~sentSeizeImpl[h]
  <2>1. /\ sentSeizeImpl' = [sentSeizeImpl EXCEPT ![h] = TRUE]
        /\ SeizeTransactionContext(r, h, k)
    BY <1>6 DEF Execute
  <2>2. impl[h] = None /\ sentSeizeImpl' \in [Handler -> BOOLEAN]
    BY <1>1, <1>6, <2>1 DEF Alive, HandlersOK, TypeOK
  <2>3. CASE HasRoom
    <3>1. PICK c \in Context :
            /\ SeizeTransaction(c)
            /\ impl' = [impl EXCEPT ![h] = c]
            /\ ExecuteSpecific(r, h, k, c, status)
      BY <2>1, <2>3 DEF SeizeTransactionContext
    <3>2. openTxContexts' = openTxContexts + 1 /\ seizeTxQueue' = seizeTxQueue
      BY <2>1, <2>3 DEF SeizeTransactionContext
    <3>3. c # None /\ impl'[h] = c /\ impl' \in [Handler -> Context \cup {None}]
          /\ \A g \in Handler : g # h \/ impl[g] # None => impl'[g] = impl[g]
      BY <1>1, <2>2, <3>1, ConstantsOK DEF TypeOK
    <3>4. /\ SentTypes
          /\ panic' = "no" => /\ QueueOK' /\ HeadKept(r)
                              /\ \/ status' = [status EXCEPT ![r] = "autoInc"]
                                 \/ status' = [status EXCEPT ![r] = "queued"]
      BY <1>1, <3>1, SpecificFacts
    <3>5. /\ c \notin Held
          /\ freeList' \subseteq allocated' /\ allocated' \subseteq Context
          /\ (Held \cup {c}) \cap freeList' = {}
          /\ (Held \cup {c}) \cup freeList' = allocated'
      BY <1>1, <3>1, SeizeFacts
    <3>6. TypeOK'
      <4>1. openTxContexts' \in Int /\ seizeTxQueue' \in Seq(Request)
        BY <1>1, <3>2 DEF TypeOK
      <4> QED BY <1>3, <2>2, <3>3, <3>4, <3>5, <4>1
    <3>7. Held = HeldBy(impl) /\ Held' = HeldBy(impl') /\ Exclusive(impl)
      BY <1>1 DEF Held, HeldBy, ExclusiveContexts, Exclusive
    <3>8. /\ HeldBy(impl') = HeldBy(impl) \cup {c} /\ Exclusive(impl')
          /\ Cardinality(HeldBy(impl')) = Cardinality(HeldBy(impl)) + 1
      <4>1. impl \in [Handler -> Context \cup {None}] /\ c \notin HeldBy(impl)
        BY <1>1, <3>5, <3>7 DEF TypeOK
      <4>2. impl' = [impl EXCEPT ![h] = c] /\ Exclusive(impl) /\ impl[h] = None
        BY <2>2, <3>1, <3>7
      <4>3. impl'[h] = c /\ \A g \in Handler \ {h} : impl'[g] = impl[g]
        BY <1>1, <4>2 DEF TypeOK
      <4> QED BY <4>1, <4>2, <4>3, HeldAfterSeize
    <3>9. ExclusiveContexts'
      BY <3>8 DEF Exclusive, ExclusiveContexts
    <3>10. Accounting'
      BY <1>1, <3>2, <3>5, <3>7, <3>8 DEF Alive, Accounting
    <3>11. seizeTxQueue = <<>>
      BY <1>1, <2>3, HeldIsFinite DEF Alive, WaitersOK, HasRoom, TypeOK
    <3>12. WaitersOK'
      BY <3>2, <3>11 DEF WaitersOK
    <3>13. CASE panic' # "no"
      BY <3>6, <3>9, <3>13 DEF IInv
    <3>14. CASE panic' = "no"
      <4>1. PICK v \in {"autoInc", "queued"} : status' = [status EXCEPT ![r] = v]
        BY <3>4, <3>14
      <4>2. EntersWith(r, h, v)
        BY <2>1, <3>3, <4>1 DEF EntersWith
      <4> QED BY <1>4, <3>4, <3>6, <3>9, <3>10, <3>12, <3>14, <4>2
    <3> QED BY <3>13, <3>14
  <2>4. CASE ~HasRoom
    <3>1. /\ seizeTxQueue' = Append(seizeTxQueue, r)
          /\ status' = [status EXCEPT ![r] = "seizing"]
          /\ UNCHANGED <<openTxContexts, freeList, allocated, impl, execQueue,
                         ndbOpen, execCount, opCtx, panic>>
      BY <2>1, <2>4 DEF SeizeTransactionContext
    <3>2. SentTypes
      BY <1>1, <3>1 DEF SentTypes, TypeOK, Status, Panics
    <3>3. TypeOK'
      <4>1. seizeTxQueue' \in Seq(Request)
        BY <1>1, <3>1 DEF TypeOK
      <4> QED BY <1>1, <1>3, <2>2, <3>1, <3>2, <4>1 DEF TypeOK
    <3>4. ExclusiveContexts' /\ Accounting'
      BY <1>1, <3>1 DEF Alive, ExclusiveContexts, Accounting, Held
    <3>5. EntersWith(r, h, "seizing")
      BY <1>1, <2>1, <3>1 DEF EntersWith, TypeOK
    <3>6. \A s \in Request \ {r} : status'[s] = status[s] /\ owner'[s] = owner[s]
      BY <1>1, <3>1 DEF Enters, TypeOK
    <3>7. status'[r] = "seizing" /\ owner'[r] = h
      BY <1>1, <3>1 DEF Enters, TypeOK
    <3>8. openTxContexts = MaxTxContexts
      <4>1. openTxContexts \in Nat /\ openTxContexts <= MaxTxContexts /\ MaxTxContexts \in Nat
        BY <1>1, HeldIsFinite DEF Alive, Accounting, Held, HeldBy
      <4> QED BY <2>4, <4>1 DEF HasRoom
    <3>9. WaitersOK'
      <4> DEFINE n == Len(seizeTxQueue) + 1
      <4>1. /\ \A i \in DOMAIN seizeTxQueue : seizeTxQueue'[i] = seizeTxQueue[i] /\ i # n
            /\ seizeTxQueue'[n] = r
            /\ \A i \in DOMAIN seizeTxQueue' : i \in DOMAIN seizeTxQueue \/ i = n
        BY <1>1, <3>1, AppendOf DEF TypeOK
      <4>2. \A i \in DOMAIN seizeTxQueue :
              /\ status'[seizeTxQueue[i]] = "seizing"
              /\ owner'[seizeTxQueue[i]] = owner[seizeTxQueue[i]]
              /\ owner[seizeTxQueue[i]] \in Handler
              /\ sentSeizeImpl[owner[seizeTxQueue[i]]]
              /\ impl[owner[seizeTxQueue[i]]] = None
        BY <1>1, <1>2, <3>6, OwnersAreHandlers DEF Alive, WaitersOK
      <4>3. \A g \in Handler : sentSeizeImpl[g] => g # h /\ sentSeizeImpl'[g]
        BY <1>1, <1>6, <2>1 DEF TypeOK
      <4>4. sentSeizeImpl'[h]
        BY <1>1, <2>1 DEF TypeOK
      <4>5. \A i, j \in DOMAIN seizeTxQueue :
              owner[seizeTxQueue[i]] = owner[seizeTxQueue[j]] => i = j
        BY <1>1 DEF Alive, WaitersOK
      <4> HIDE DEF n
      <4>6. \A i \in DOMAIN seizeTxQueue' :
              /\ status'[seizeTxQueue'[i]] = "seizing"
              /\ sentSeizeImpl'[owner'[seizeTxQueue'[i]]]
              /\ impl'[owner'[seizeTxQueue'[i]]] = None
        BY <2>2, <3>1, <3>7, <4>1, <4>2, <4>3, <4>4
      <4>7. \A i, j \in DOMAIN seizeTxQueue' :
              owner'[seizeTxQueue'[i]] = owner'[seizeTxQueue'[j]] => i = j
        BY <3>7, <4>1, <4>2, <4>3, <4>5
      <4> QED BY <3>1, <3>8, <4>6, <4>7 DEF WaitersOK, MaxTxContexts
    <3>10. HeadKept(r)
      BY <1>1, <3>1, HeadOf DEF HeadKept
    <3>11. QueueOK'
      <4>1. \A i \in DOMAIN execQueue : execQueue[i] \in Call /\ status[execQueue[i].req] = "queued"
        BY <1>1 DEF Sound, Queued, TypeOK
      <4>2. \A i \in DOMAIN execQueue : execQueue[i].req \in Request \ {r}
        BY <1>1, <4>1 DEF Call
      <4>3. Queued(execQueue', status')
        BY <1>1, <3>1, <3>6, <4>1, <4>2 DEF Sound, Queued
      <4>4. \A s \in Request : status'[s] \in {"queued", "fetching"} => opCtx[s] # None
        BY <1>1, <3>6, <3>7 DEF Sound
      <4> QED BY <3>1, <4>3, <4>4 DEF QueueOK
    <3> QED BY <1>1, <1>4, <3>1, <3>2, <3>3, <3>4, <3>5, <3>9, <3>10, <3>11
  <2> QED BY <2>3, <2>4
<1> QED BY <1>5, <1>6

-----------------------------------------------------------------------------
(* The end of onExecute.                                                   *)

\* What every end of onExecute leaves alone.
ReplyFrame == UNCHANGED <<created, autocommit, sentSeizeImpl, tx, owner, kind, mode>>

\* A request of the handler that releases its context closes the transaction,
\* and is the only one: no other request of the handler is under way.
LEMMA ReleaserIsAlone ==
  ASSUME TypeOK, Alive, NEW r \in Request, status[r] = "replying", replying = r,
         mode[r] # "NOCOMMIT", IsClosed(impl[owner[r]])
  PROVE  \A s \in Request \ {r} :
           status[s] \in {"queued", "fetching", "replying"} /\ owner[s] = owner[r]
             => mode[s] = "NOCOMMIT"
<1>1. owner[r] \in Handler /\ r # None
  BY OwnersAreHandlers DEF Alive
<1>2. Closer(r)
  <2>1. CASE mode[r] = "COMMIT"
    BY <1>1, <2>1, OwnersAreHandlers DEF Alive, RequestsOK
  <2>2. CASE mode[r] = "ROLLBACK"
    BY <1>1, <2>2, OwnersAreHandlers DEF Alive, ScansOpen, IsClosed, Closer
  <2>3. mode[r] \in Mode
    BY <1>1, OwnersAreHandlers DEF Alive, RequestsOK
  <2> QED BY <2>1, <2>2, <2>3 DEF Mode
<1> SUFFICES ASSUME NEW s \in Request \ {r},
                    status[s] \in {"queued", "fetching", "replying"}, owner[s] = owner[r],
                    mode[s] # "NOCOMMIT"
             PROVE  FALSE
  OBVIOUS
<1>3. owner[s] # None /\ mode[s] \in {"COMMIT", "ROLLBACK"} /\ status[s] # "replying"
  BY <1>1, OwnersAreHandlers DEF Alive, RequestsOK, Mode
<1>4. Closer(s)
  <2>1. CASE mode[s] = "COMMIT"
    BY <1>3, <2>1 DEF Alive, RequestsOK
  <2>2. CASE mode[s] = "ROLLBACK"
    <3>1. kind[s] \in Ends
      BY <1>3, <2>2 DEF Alive, RequestsOK
    <3> QED BY <1>3, <3>1 DEF Closer
  <2> QED BY <1>3, <2>1, <2>2
<1> QED BY <1>2, <1>4 DEF Alive, OneCloser

\* The head of the queue, if it is a call of a scan, is not on the context
\* that is released.
LEMMA HeadScanIsElsewhere ==
  ASSUME TypeOK, Alive, NEW h \in Handler, NEW g \in Handler,
         impl[h] # None, IsClosed(impl[h]), impl[g] = None,
         \A f \in Handler \ {g, h} : impl'[f] = impl[f],
         execQueue # <<>>, Head(execQueue).step \notin {"exec", "scan"}
  PROVE  impl'[owner[Head(execQueue).req]] = impl[owner[Head(execQueue).req]]
<1>1. /\ impl[owner[Head(execQueue).req]] = opCtx[Head(execQueue).req]
      /\ ndbOpen[opCtx[Head(execQueue).req]]
      /\ owner[Head(execQueue).req] \in Handler /\ opCtx[Head(execQueue).req] \in Context
  BY HeadRequest DEF Alive, ScansOpen, HeadScan
<1>2. owner[Head(execQueue).req] # h
  BY <1>1 DEF IsClosed
<1>3. owner[Head(execQueue).req] # g
  BY <1>1, ConstantsOK
<1> QED BY <1>1, <1>2, <1>3

\* HeldByOneLess and HeldByAnother for the step of a release.
LEMMA HeldAfterRelease ==
  ASSUME NEW h \in Handler, impl \in [Handler -> Context \cup {None}], Exclusive(impl),
         impl[h] # None, impl'[h] = None, \A g \in Handler \ {h} : impl'[g] = impl[g]
  PROVE  /\ impl[h] \in HeldBy(impl)
         /\ HeldBy(impl') = HeldBy(impl) \ {impl[h]} /\ Exclusive(impl')
         /\ Cardinality(HeldBy(impl')) = Cardinality(HeldBy(impl)) - 1
<1>1. impl[h] \in HeldBy(impl) /\ HeldBy(impl') = HeldBy(impl) \ {impl[h]}
  BY HeldByOneLess
<1>2. Exclusive(impl') /\ Cardinality(HeldBy(impl')) = Cardinality(HeldBy(impl)) - 1
  BY HeldByOneLess
<1> QED BY <1>1, <1>2

LEMMA HeldAfterHandOver ==
  ASSUME NEW h \in Handler, NEW g \in Handler,
         impl \in [Handler -> Context \cup {None}], Exclusive(impl),
         impl[h] # None, impl[g] = None, impl'[g] = impl[h], impl'[h] = None,
         \A x \in Handler \ {g, h} : impl'[x] = impl[x]
  PROVE  HeldBy(impl') = HeldBy(impl) /\ Exclusive(impl')
<1>1. HeldBy(impl') = HeldBy(impl)
  BY HeldByAnother
<1>2. Exclusive(impl')
  BY HeldByAnother
<1> QED BY <1>1, <1>2

\* Request r is answered, and a waiting request may go on.
Answered(r) ==
  /\ status' \in [Request -> Status] /\ status'[r] = "done" /\ replying' = None
  /\ \A s \in Request \ {r} :
       \/ status'[s] = status[s]
       \/ /\ status[s] = "seizing" /\ status'[s] \in {"autoInc", "queued"}
          /\ impl'[owner[s]] # None
  /\ \A g \in Handler : ~sentSeizeImpl[g] => impl'[g] = None
  /\ \A s \in Request \ {r} :
       status[s] \in {"queued", "fetching", "replying"} /\ mode[s] # "NOCOMMIT"
         => impl'[owner[s]] # None

LEMMA AnsweredKeeps ==
  ASSUME TypeOK, Alive, NEW r \in Request, replying = r, ReplyFrame, Answered(r)
  PROVE  HandlersOK' /\ RequestsOK' /\ OneCloser' /\ CloserHasContext'
<1>1. /\ status[r] = "replying" /\ owner[r] # None /\ r # None
      /\ UNCHANGED <<created, autocommit, sentSeizeImpl, tx, owner, kind, mode>>
  BY OwnersAreHandlers DEF Alive, RequestsOK, ReplyFrame
<1>2. \A s \in Request : Closer(s)' <=> Closer(s)
  BY <1>1 DEF Closer
<1>3. HandlersOK'
  BY <1>1 DEF Alive, HandlersOK, Answered
<1>4. OneCloser'
  BY <1>1, <1>2 DEF Alive, OneCloser
<1>5. RequestsOK'
  <2> SUFFICES ASSUME NEW s \in Request
               PROVE  /\ status'[s] = "new" <=> owner[s] = None
                      /\ status'[s] = "replying" <=> replying' = s
                      /\ owner[s] # None => mode[s] \in Mode
                      /\ owner[s] # None /\ mode[s] = "COMMIT" => Closer(s)
                      /\ owner[s] # None /\ mode[s] = "ROLLBACK" /\ kind[s] \notin Ends
                           => status'[s] \in {"replying", "done"}
    BY <1>1, <1>2 DEF RequestsOK
  <2>0. /\ status[s] = "new" <=> owner[s] = None
        /\ status[s] = "replying" <=> replying = s
        /\ owner[s] # None => mode[s] \in Mode
        /\ owner[s] # None /\ mode[s] = "COMMIT" => Closer(s)
        /\ owner[s] # None /\ mode[s] = "ROLLBACK" /\ kind[s] \notin Ends
             => status[s] \in {"replying", "done"}
    BY DEF Alive, RequestsOK
  <2>1. s # None
    BY OwnersAreHandlers DEF Alive
  <2>2. CASE s = r
    BY <1>1, <2>0, <2>1, <2>2 DEF Answered
  <2>3. CASE s # r
    BY <1>1, <2>0, <2>1, <2>3 DEF Answered
  <2> QED BY <2>2, <2>3
<1>6. CloserHasContext'
  BY <1>1 DEF CloserHasContext, Answered
<1> QED BY <1>3, <1>4, <1>5, <1>6

\* A status other than "queued" does not disturb the queue.
LEMMA QueueKept ==
  ASSUME TypeOK, Alive, NEW r \in Request, status[r] # "queued",
         NEW v \in {"done", "seizing"}, NEW st, st = [status EXCEPT ![r] = v]
  PROVE  Sound(st)
<1>1. /\ \A i \in DOMAIN execQueue : execQueue[i] \in Call /\ status[execQueue[i].req] = "queued"
      /\ \A i, j \in DOMAIN execQueue : execQueue[i].req = execQueue[j].req => i = j
  BY DEF Alive, QueueOK, Queued, TypeOK
<1>2. \A i \in DOMAIN execQueue : execQueue[i].req \in Request \ {r}
  BY <1>1 DEF Call
<1>3. st \in [Request -> Status] /\ \A s \in Request \ {r} : st[s] = status[s]
  BY DEF TypeOK, Status
<1>4. Queued(execQueue, st)
  BY <1>1, <1>2, <1>3 DEF Queued
<1>5. \A s \in Request : st[s] \in {"queued", "fetching"} => opCtx[s] # None
  BY DEF Alive, QueueOK, TypeOK
<1> QED BY <1>3, <1>4, <1>5 DEF Sound

LEMMA ReplyKeeps ==
  ASSUME IInv, NEW r \in Request, Reply(r)
  PROVE  IInv'
<1> DEFINE h == owner[r]
           answered == [status EXCEPT ![r] = "done"]
<1>1. /\ TypeOK /\ Alive /\ panic = "no" /\ ExclusiveContexts /\ replying = r
      /\ status[r] = "replying" /\ ReplyFrame /\ replying' = None
  BY DEF IInv, Reply, ReplyFrame, Alive, RequestsOK
<1>2. h \in Handler /\ r # None
  BY <1>1, OwnersAreHandlers DEF Alive
<1>3. Sound(answered) /\ answered[r] = "done" /\ \A s \in Request \ {r} : answered[s] = status[s]
  BY <1>1, QueueKept DEF TypeOK
<1> HIDE DEF answered
<1>4. ASSUME SentTypes, seizeTxQueue' \in Seq(Request), openTxContexts' \in Int,
             freeList' \subseteq allocated', allocated' \subseteq Context,
             impl' \in [Handler -> Context \cup {None}]
      PROVE  TypeOK'
  <2>1. /\ UNCHANGED <<created, autocommit, sentSeizeImpl, retries, txError, tx, owner,
                       kind, mode, historyVars>>
        /\ result' = [result EXCEPT ![r] = IF txError[owner[r]] THEN "error" ELSE "ok"]
    BY DEF Reply
  <2> QED BY <1>1, <1>4, <2>1 DEF TypeOK, SentTypes, Panics, historyVars
\* The queue as it was.
<1>5. ASSUME status' = answered, UNCHANGED <<execQueue, ndbOpen, execCount, opCtx, panic>>
      PROVE  SentTypes /\ QueueOK' /\ HeadKept(r)
  <2>1. SentTypes
    BY <1>1, <1>3, <1>5 DEF SentTypes, TypeOK, Sound, Panics
  <2>2. QueueOK'
    BY <1>3, <1>5 DEF QueueOK, Sound
  <2>3. HeadKept(r)
    BY <1>1, <1>3, <1>5, HeadOf DEF HeadKept
  <2> QED BY <2>1, <2>2, <2>3
<1>6. \A s \in Request : status[s] \notin {"new"} => owner[s] \in Handler
  BY <1>1, OwnersAreHandlers DEF Alive
<1>7. CASE ~Releases(mode[r])
  <2>1. /\ status' = answered
        /\ UNCHANGED <<impl, queueVars, nativeVars, execCount, opCtx, panic>>
    BY <1>7 DEF Reply, answered, ReleaseTransactionContext
  <2>2. /\ UNCHANGED <<impl, execQueue, ndbOpen, seizeTxQueue, openTxContexts,
                       freeList, allocated, execCount, opCtx, panic>>
    BY <2>1 DEF queueVars, nativeVars
  <2>3. SentTypes /\ QueueOK' /\ HeadKept(r)
    BY <1>5, <2>1, <2>2
  <2>4. TypeOK'
    BY <1>1, <1>4, <2>2, <2>3 DEF TypeOK
  <2>5. Answered(r)
    <3>1. status' \in [Request -> Status]
      BY <1>3, <2>1 DEF Sound
    <3> QED BY <1>1, <1>3, <2>1, <2>2, <3>1 DEF Answered, Alive, HandlersOK, CloserHasContext
  <2>6. HandlersOK' /\ RequestsOK' /\ OneCloser' /\ CloserHasContext'
    BY <1>1, <2>5, AnsweredKeeps
  <2>7. ExclusiveContexts' /\ Accounting'
    BY <1>1, <2>2 DEF ExclusiveContexts, Alive, Accounting, Held
  <2>8. WaitersOK'
    <3>1. \A i \in DOMAIN seizeTxQueue : seizeTxQueue[i] \in Request \ {r}
      BY <1>1 DEF Alive, WaitersOK, TypeOK
    <3> QED BY <1>1, <1>3, <2>1, <2>2, <3>1 DEF Alive, WaitersOK, ReplyFrame, MaxTxContexts
  <2>9. ScansOpen'
    BY <1>1, <2>2 DEF Alive, ScansOpen, ReplyFrame
  <2> QED BY <2>3, <2>4, <2>6, <2>7, <2>8, <2>9 DEF IInv, Alive
<1>8. CASE Releases(mode[r])
  <2>0. ReleaseTransactionContext(r, h, impl[h]) /\ mode[r] # "NOCOMMIT"
    BY <1>8 DEF Reply, Releases
  <2>1. impl[h] # None /\ impl[h] \in Context
    BY <1>1, <1>2, <2>0 DEF Alive, CloserHasContext, TypeOK
  <2>2. /\ Held = HeldBy(impl) /\ Held' = HeldBy(impl') /\ Exclusive(impl)
        /\ impl \in [Handler -> Context \cup {None}]
    BY <1>1 DEF Held, HeldBy, ExclusiveContexts, Exclusive, TypeOK
  <2>3. ASSUME Exclusive(impl') PROVE ExclusiveContexts'
    BY <2>3 DEF Exclusive, ExclusiveContexts
  <2>4. CASE ~IsClosed(impl[h])
    <3>1. /\ openTxContexts' = openTxContexts - 1 /\ panic' = "stillOpen"
          /\ UNCHANGED <<status, impl, execQueue, seizeTxQueue, nativeVars, execCount, opCtx>>
      BY <2>0, <2>4 DEF ReleaseTransactionContext
    <3>2. TypeOK'
      <4>1. SentTypes
        BY <1>1, <3>1 DEF SentTypes, TypeOK, Panics, nativeVars
      <4>2. openTxContexts' \in Int
        BY <1>1, <3>1 DEF TypeOK
      <4> QED BY <1>1, <1>4, <3>1, <4>1, <4>2 DEF TypeOK, nativeVars
    <3>3. ExclusiveContexts'
      BY <1>1, <3>1 DEF ExclusiveContexts
    <3> QED BY <3>1, <3>2, <3>3 DEF IInv
  <2>5. CASE IsClosed(impl[h]) /\ ~SomeoneWaits
    <3>1. /\ GiveBack(impl[h]) /\ impl' = [impl EXCEPT ![h] = None] /\ status' = answered
          /\ UNCHANGED <<allocated, seizeTxQueue, execQueue, ndbOpen, execCount, opCtx, panic>>
      BY <2>0, <2>5 DEF ReleaseTransactionContext, answered
    <3>2. /\ impl'[h] = None /\ impl' \in [Handler -> Context \cup {None}]
          /\ \A g \in Handler \ {h} : impl'[g] = impl[g]
      BY <1>2, <2>2, <3>1
    <3>3. /\ impl[h] \in HeldBy(impl) /\ HeldBy(impl') = HeldBy(impl) \ {impl[h]}
          /\ Exclusive(impl') /\ Cardinality(HeldBy(impl')) = Cardinality(HeldBy(impl)) - 1
      BY <1>2, <2>1, <2>2, <3>2, HeldAfterRelease
    <3>4. openTxContexts' = openTxContexts - 1 /\ freeList' = freeList \cup {impl[h]}
      BY <3>1 DEF GiveBack
    <3>5. Accounting'
      BY <1>1, <2>2, <3>1, <3>3, <3>4 DEF Alive, Accounting
    <3>6. SentTypes /\ QueueOK' /\ HeadKept(r)
      BY <1>5, <3>1
    <3>7. TypeOK'
      <4>1. openTxContexts' \in Int /\ seizeTxQueue' \in Seq(Request)
        BY <1>1, <3>1, <3>4 DEF TypeOK
      <4>2. freeList' \subseteq allocated' /\ allocated' \subseteq Context
        BY <1>1, <2>2, <3>1, <3>3, <3>4 DEF TypeOK, Alive, Accounting
      <4> QED BY <1>4, <3>2, <3>6, <4>1, <4>2
    <3>8. Answered(r)
      <4>1. status' \in [Request -> Status]
        BY <1>3, <3>1 DEF Sound
      <4>2. \A g \in Handler : ~sentSeizeImpl[g] => impl'[g] = None
        BY <1>1, <3>2 DEF Alive, HandlersOK
      <4>3. ASSUME NEW s \in Request \ {r}, mode[s] # "NOCOMMIT",
                   status[s] \in {"queued", "fetching", "replying"}
            PROVE  impl'[owner[s]] # None
        <5>1. owner[s] \in Handler /\ impl[owner[s]] # None
          BY <1>1, <1>6, <4>3 DEF Alive, CloserHasContext
        <5>2. owner[s] # h
          BY <1>1, <2>0, <2>5, <4>3, ReleaserIsAlone
        <5> QED BY <3>2, <5>1, <5>2
      <4> QED BY <1>1, <1>3, <3>1, <4>1, <4>2, <4>3 DEF Answered
    <3>9. HandlersOK' /\ RequestsOK' /\ OneCloser' /\ CloserHasContext'
      BY <1>1, <3>8, AnsweredKeeps
    <3>10. WaitersOK'
      BY <2>5, <3>1 DEF WaitersOK, SomeoneWaits
    <3>11. ScansOpen'
      <4>1. HeadScan(execQueue', ndbOpen', opCtx', impl', owner')
        <5>1. ASSUME execQueue # <<>>, Head(execQueue).step \notin {"exec", "scan"}
              PROVE  impl'[owner[Head(execQueue).req]] = impl[owner[Head(execQueue).req]]
          <6>1. /\ impl[owner[Head(execQueue).req]] = opCtx[Head(execQueue).req]
                /\ ndbOpen[opCtx[Head(execQueue).req]] /\ owner[Head(execQueue).req] \in Handler
            BY <1>1, <5>1, HeadRequest DEF Alive, ScansOpen, HeadScan
          <6>2. owner[Head(execQueue).req] # h
            BY <2>5, <6>1 DEF IsClosed
          <6> QED BY <3>2, <6>1, <6>2
        <5> QED BY <1>1, <3>6, <5>1, HeadScanKept DEF Alive, ScansOpen, ReplyFrame
      <4> QED BY <1>1, <4>1 DEF ScansOpen
    <3> QED BY <2>3, <3>3, <3>5, <3>6, <3>7, <3>9, <3>10, <3>11 DEF IInv, Alive
  <2>6. CASE IsClosed(impl[h]) /\ SomeoneWaits
    <3> DEFINE w == Head(seizeTxQueue)
               g == owner[w]
    <3>1. /\ impl' = [impl EXCEPT ![g] = impl[h], ![h] = None]
          /\ ExecuteSpecific(w, g, kind[w], impl[h], answered)
          /\ seizeTxQueue' = Tail(seizeTxQueue) /\ seizeTxQueue # <<>>
          /\ UNCHANGED <<openTxContexts, freeList, allocated>>
      BY <2>0, <2>6 DEF ReleaseTransactionContext, NextWaiter, HandOver, SomeoneWaits, answered
    <3>2. /\ w \in Request /\ w = seizeTxQueue[1] /\ 1 \in DOMAIN seizeTxQueue
          /\ seizeTxQueue' \in Seq(Request)
          /\ \A i \in DOMAIN seizeTxQueue' :
               i + 1 \in DOMAIN seizeTxQueue /\ seizeTxQueue'[i] = seizeTxQueue[i + 1]
               /\ i \in Nat /\ i # 0
      BY <1>1, <3>1, TailOf DEF TypeOK
    <3>3. /\ status[w] = "seizing" /\ sentSeizeImpl[g] /\ impl[g] = None /\ g \in Handler
          /\ w # r /\ g # h
      BY <1>1, <1>6, <2>1, <3>2 DEF Alive, WaitersOK
    <3> HIDE DEF w, g
    <3>4. /\ impl'[g] = impl[h] /\ impl'[h] = None
          /\ impl' \in [Handler -> Context \cup {None}]
          /\ \A x \in Handler \ {g, h} : impl'[x] = impl[x]
      BY <1>2, <2>1, <2>2, <3>1, <3>3
    <3>5. HeldBy(impl') = HeldBy(impl) /\ Exclusive(impl')
      BY <1>2, <2>1, <2>2, <3>3, <3>4, HeldAfterHandOver
    <3>6. Accounting'
      BY <1>1, <2>2, <3>1, <3>5 DEF Alive, Accounting
    <3>7. /\ SentTypes
          /\ panic' = "no" => /\ QueueOK' /\ HeadKept(w)
                              /\ \/ status' = [answered EXCEPT ![w] = "autoInc"]
                                 \/ status' = [answered EXCEPT ![w] = "queued"]
      <4>1. answered[w] # "queued"
        BY <1>3, <3>2, <3>3
      <4> QED BY <1>1, <1>3, <2>1, <3>1, <3>2, <3>3, <4>1, SpecificFacts
    <3>8. TypeOK'
      <4>1. openTxContexts' \in Int /\ freeList' \subseteq allocated' /\ allocated' \subseteq Context
        BY <1>1, <3>1 DEF TypeOK
      <4> QED BY <1>4, <3>2, <3>4, <3>7, <4>1
    <3>9. CASE panic' # "no"
      BY <2>3, <3>5, <3>8, <3>9 DEF IInv
    <3>10. CASE panic' = "no"
      <4>1. /\ status' \in [Request -> Status] /\ status'[w] \in {"autoInc", "queued"}
            /\ status'[r] = "done"
            /\ \A s \in Request \ {r, w} : status'[s] = status[s]
        BY <1>3, <3>2, <3>3, <3>7, <3>10 DEF SentTypes, Sound
      <4>2. Answered(r)
        <5>1. \A x \in Handler : ~sentSeizeImpl[x] => impl'[x] = None
          BY <1>1, <3>3, <3>4 DEF Alive, HandlersOK
        <5>2. ASSUME NEW s \in Request \ {r}, mode[s] # "NOCOMMIT",
                     status[s] \in {"queued", "fetching", "replying"}
              PROVE  impl'[owner[s]] # None
          <6>1. owner[s] \in Handler /\ impl[owner[s]] # None
            BY <1>1, <1>6, <5>2 DEF Alive, CloserHasContext
          <6>2. owner[s] # h
            BY <1>1, <2>0, <2>6, <5>2, ReleaserIsAlone
          <6>3. owner[s] # g
            BY <3>3, <6>1
          <6> QED BY <3>4, <6>1, <6>2, <6>3
        <5>3. impl'[owner[w]] # None
          BY <2>1, <3>4 DEF g
        <5> QED BY <1>1, <3>2, <3>3, <4>1, <5>1, <5>2, <5>3 DEF Answered
      <4>3. HandlersOK' /\ RequestsOK' /\ OneCloser' /\ CloserHasContext'
        BY <1>1, <4>2, AnsweredKeeps
      <4>4. WaitersOK'
        <5>1. openTxContexts' = MaxTxContexts
          BY <1>1, <3>1 DEF Alive, WaitersOK
        <5>2. ASSUME NEW i \in DOMAIN seizeTxQueue'
              PROVE  /\ seizeTxQueue'[i] \in Request
                     /\ status'[seizeTxQueue'[i]] = "seizing"
                     /\ sentSeizeImpl[owner[seizeTxQueue'[i]]]
                     /\ impl'[owner[seizeTxQueue'[i]]] = None
          <6> DEFINE s == seizeTxQueue[i + 1]
          <6>1. seizeTxQueue'[i] = s /\ i + 1 \in DOMAIN seizeTxQueue /\ i + 1 # 1
            BY <3>2
          <6>2. s \in Request
            BY <1>1, <6>1 DEF TypeOK
          <6>3. /\ status[s] = "seizing" /\ sentSeizeImpl[owner[s]] /\ impl[owner[s]] = None
                /\ owner[s] # g /\ s # w
            BY <1>1, <3>2, <6>1 DEF Alive, WaitersOK, g
          <6>4. owner[s] \in Handler /\ owner[s] # h /\ s # r
            BY <1>1, <1>6, <2>1, <6>2, <6>3
          <6> QED BY <3>4, <4>1, <6>1, <6>2, <6>3, <6>4
        <5>3. \A i, j \in DOMAIN seizeTxQueue' :
                owner[seizeTxQueue'[i]] = owner[seizeTxQueue'[j]] => i = j
          <6>1. \A i, j \in DOMAIN seizeTxQueue :
                  owner[seizeTxQueue[i]] = owner[seizeTxQueue[j]] => i = j
            BY <1>1 DEF Alive, WaitersOK
          <6> QED BY <3>2, <6>1
        <5> QED BY <1>1, <5>1, <5>2, <5>3 DEF WaitersOK, ReplyFrame, MaxTxContexts
      <4>5. ScansOpen'
        <5>1. HeadScan(execQueue', ndbOpen', opCtx', impl', owner')
          <6>1. execQueue # <<>> /\ Head(execQueue).step \notin {"exec", "scan"}
                  => impl'[owner[Head(execQueue).req]] = impl[owner[Head(execQueue).req]]
            BY <1>1, <1>2, <2>1, <2>6, <3>3, <3>4, HeadScanIsElsewhere
          <6> QED BY <1>1, <3>7, <3>10, <6>1, HeadScanKept DEF Alive, ScansOpen, ReplyFrame
        <5> QED BY <1>1, <5>1 DEF ScansOpen
      <4> QED BY <2>3, <3>5, <3>6, <3>7, <3>8, <3>10, <4>3, <4>4, <4>5 DEF IInv, Alive
    <3> QED BY <3>9, <3>10
  <2> QED BY <2>4, <2>5, <2>6
<1> QED BY <1>7, <1>8

-----------------------------------------------------------------------------
(* The theorems.                                                           *)

LEMMA InitIInv == Init => IInv
<1> SUFFICES ASSUME Init PROVE IInv
  OBVIOUS
<1>1. TypeOK
  BY DEF Init, TypeOK, Status
<1>2. \A r \in Request : ~Closer(r) /\ r # None
  BY ConstantsOK DEF Init, Closer
<1>3. HandlersOK /\ RequestsOK /\ OneCloser /\ CloserHasContext /\ ExclusiveContexts
  <2>1. HandlersOK /\ ExclusiveContexts
    BY ConstantsOK DEF Init, HandlersOK, ExclusiveContexts
  <2>2. RequestsOK /\ CloserHasContext
    BY <1>2 DEF Init, RequestsOK, CloserHasContext
  <2>3. OneCloser
    BY <1>2 DEF OneCloser
  <2> QED BY <2>1, <2>2, <2>3
<1>4. Held = {}
  BY ConstantsOK DEF Init, Held
<1>5. Accounting
  BY <1>4, FS_EmptySet DEF Init, Accounting
<1>6. WaitersOK /\ QueueOK /\ ScansOpen
  BY DEF Init, WaitersOK, QueueOK, Queued, ScansOpen, HeadScan
<1> QED BY <1>1, <1>3, <1>5, <1>6 DEF IInv, Alive

LEMMA NextKeeps == IInv /\ [Next]_vars => IInv'
<1> SUFFICES ASSUME IInv, [Next]_vars PROVE IInv'
  OBVIOUS
<1>1. CASE Begin
  BY <1>1, BeginKeeps
<1>2. ASSUME NEW r \in Request, NEW h \in Handler, NEW k \in Kinds, Execute(r, h, k)
      PROVE  IInv'
  BY <1>2, ExecuteKeeps
<1>3. ASSUME NEW r \in Request, NEW k \in Ends, EndTransaction(r, k) PROVE IInv'
  BY <1>3, EndTransactionKeeps
<1>4. ASSUME NEW r \in Request, AutoIncDone(r) \/ Reply(r) PROVE IInv'
  BY <1>4, AutoIncDoneKeeps, ReplyKeeps
<1>5. ASSUME NEW r \in Request, NEW o, QueryDone(r, o) PROVE IInv'
  BY <1>5, QueryDoneKeeps
<1>6. ASSUME NEW ok \in BOOLEAN, ExecDone(ok) PROVE IInv'
  BY <1>6, ExecDoneKeeps
<1>7. CASE Scan
  BY <1>7, ScanStartedKeeps, ScanNotStartedKeeps, FetchMoreKeeps, FetchDoneKeeps,
     ScanClosedKeeps, ScanRetriedKeeps, ScanFailedKeeps DEF Scan
<1>8. CASE UNCHANGED vars
  <2>1. UNCHANGED <<created, autocommit, sentSeizeImpl, impl, execCount, retries, txError, tx,
                    execQueue, seizeTxQueue, openTxContexts, freeList, allocated, ndbOpen,
                    owner, kind, mode, status, result, opCtx, replying, panic, nativeOk, work>>
    BY <1>8 DEF vars, handlerVars, queueVars, nativeVars, requestVars, historyVars
  <2>2. TypeOK' /\ ExclusiveContexts'
    BY <2>1 DEF IInv, TypeOK, ExclusiveContexts
  <2>3. ASSUME Alive PROVE Alive'
    <3>1. \A r \in Request : Closer(r)' <=> Closer(r)
      BY <2>1 DEF Closer
    <3>2. HandlersOK' /\ RequestsOK' /\ OneCloser' /\ CloserHasContext'
      BY <2>1, <2>3, <3>1 DEF Alive, HandlersOK, RequestsOK, OneCloser, CloserHasContext
    <3>3. Accounting' /\ WaitersOK'
      BY <2>1, <2>3 DEF Alive, Accounting, Held, WaitersOK
    <3>4. QueueOK' /\ ScansOpen'
      BY <2>1, <2>3 DEF Alive, QueueOK, ScansOpen
    <3> QED BY <3>2, <3>3, <3>4 DEF Alive
  <2> QED BY <2>1, <2>2, <2>3 DEF IInv
<1> QED BY <1>1, <1>2, <1>3, <1>4, <1>5, <1>6, <1>7, <1>8 DEF Next, User, Native

\* The inductive invariant holds of every state the session can be in.
THEOREM Invariance == Spec => []IInv
<1> QED BY InitIInv, NextKeeps, PTL DEF Spec

\* The variables of the session keep their types: among others, a context on
\* the free list was allocated by SessionImpl, and at most
\* ndb_session_concurrency contexts are.
THEOREM TypeCorrect == Spec => []TypeOK
<1>1. IInv => TypeOK
  BY DEF IInv
<1> QED BY <1>1, Invariance, PTL

\* Two handlers never share a TransactionImpl: neither seizeTransactionContext
\* nor the hand-over in releaseTransactionContext gives away a context in use.
THEOREM Exclusivity == Spec => []ExclusiveContexts
<1>1. IInv => ExclusiveContexts
  BY DEF IInv
<1> QED BY <1>1, Invariance, PTL

\* openTxContexts, which seizeTransactionContext counts up and
\* releaseTransactionContext counts down, is the number of contexts that
\* handlers hold, and SessionImpl's free list holds exactly the others.
THEOREM AccountingHolds == Spec => []ContextAccounting
<1>1. IInv => ContextAccounting
  BY DEF IInv, Alive, Accounting, ContextAccounting
<1> QED BY <1>1, Invariance, PTL

\* The assertion of seizeTransactionContext that SessionImpl returned a context
\* never fails.
THEOREM SeizeNeverFails == Spec => []SeizeSucceeds
<1>1. IInv => SeizeSucceeds
  <2> SUFFICES ASSUME IInv, panic = "no", openTxContexts < MaxTxContexts, freeList = {}
               PROVE  \E c \in Context : c \notin allocated
    BY DEF SeizeSucceeds, IInv, TypeOK
  <2>1. allocated = Held /\ openTxContexts = Cardinality(Held) /\ allocated \subseteq Context
    BY DEF IInv, Alive, Accounting, TypeOK
  <2>2. MaxTxContexts \in Nat
    BY HeldIsFinite
  <2>3. allocated # Context
    BY <2>1, <2>2 DEF MaxTxContexts
  <2> QED BY <2>1, <2>3
<1> QED BY <1>1, Invariance, PTL

\* A handler waits in seizeTxQueue only while every context is held: no
\* wake-up is lost between releaseTransactionContext and
\* seizeTransactionContext, and no handler is overtaken by a later one.
THEOREM WaitersWhenFull == Spec => []WaitOnlyWhenFull
<1>1. IInv => WaitOnlyWhenFull
  BY DEF IInv, Alive, WaitersOK, WaitOnlyWhenFull
<1> QED BY <1>1, Invariance, PTL

\* seizeTransactionContext and releaseTransactionContext keep all of these
\* together.
THEOREM ContextSafety == Spec => []ContextsAreSafe
<1>1. ContextsAreSafe <=>
        TypeOK /\ ExclusiveContexts /\ ContextAccounting /\ SeizeSucceeds /\ WaitOnlyWhenFull
  BY DEF ContextsAreSafe
<1> QED BY <1>1, TypeCorrect, Exclusivity, AccountingHolds, SeizeNeverFails, WaitersWhenFull, PTL

-----------------------------------------------------------------------------
(* Action properties.                                                      *)

\* Only request r is touched, and it was not answered before.
OnlyTouches(r) ==
  /\ status[r] # "done"
  /\ \A s \in Request \ {r} : status'[s] = status[s] /\ result'[s] = result[s]

LEMMA HeadOnlyTouches ==
  ASSUME IInv, \/ \E ok \in BOOLEAN : ExecDone(ok)
               \/ Scan
  PROVE  \E r \in Request : OnlyTouches(r)
<1> DEFINE r == Head(execQueue).req
<1>1. ASSUME NEW s, Completes(s)
      PROVE  r \in Request /\ status[r] = "queued" /\ TypeOK
  BY <1>1, HeadFacts
<1> SUFFICES OnlyTouches(r) /\ r \in Request
  OBVIOUS
<1>2. CASE \E ok \in BOOLEAN : ExecDone(ok)
  BY <1>1, <1>2 DEF ExecDone, OnlyTouches, TypeOK
<1>3. CASE ScanStarted
  BY <1>1, <1>3 DEF ScanStarted, OnlyTouches, TypeOK
<1>4. CASE ScanNotStarted
  BY <1>1, <1>4 DEF ScanNotStarted, OnlyTouches, TypeOK
<1>5. CASE FetchMore \/ ScanRetried \/ \E o \in {"end", "fetch", "timeout"} : FetchDone(o)
  BY <1>1, <1>5 DEF FetchMore, ScanRetried, FetchDone, OnlyTouches, TypeOK
<1>6. CASE ScanClosed
  BY <1>1, <1>6 DEF ScanClosed, OnlyTouches, TypeOK
<1>7. CASE ScanFailed
  BY <1>1, <1>7 DEF ScanFailed, OnlyTouches, TypeOK
<1> QED BY <1>2, <1>3, <1>4, <1>5, <1>6, <1>7 DEF Scan

LEMMA SpecificTouches ==
  ASSUME NEW r \in Request, NEW h, NEW k, NEW c, NEW st \in [Request -> Status],
         ExecuteSpecific(r, h, k, c, st)
  PROVE  \A s \in Request \ {r} : status'[s] = st[s]
<1>1. CASE k = "autoInc"
  BY <1>1 DEF ExecuteSpecific
<1>2. CASE k # "autoInc"
  BY <1>2 DEF ExecuteSpecific, Send
<1> QED BY <1>1, <1>2

\* A call that is answered is never answered again: no completion of a native
\* call, retry of a scan or hand-over of a context comes back to a request
\* whose callback has run.
THEOREM AnswersStand == Spec => AnswersAreFinal
<1>1. ASSUME IInv, [Next]_vars, NEW q \in Request, status[q] = "done"
      PROVE  status'[q] = "done" /\ result'[q] = result[q]
  <2>1. ASSUME NEW r \in Request, OnlyTouches(r) PROVE status'[q] = "done" /\ result'[q] = result[q]
    BY <1>1, <2>1 DEF OnlyTouches
  <2>2. CASE UNCHANGED vars
    BY <1>1, <2>2 DEF vars, requestVars
  <2>3. CASE Begin
    BY <1>1, <2>3 DEF Begin, requestVars
  <2>4. ASSUME NEW r \in Request, NEW h \in Handler, NEW k \in Kinds, Execute(r, h, k)
        PROVE  OnlyTouches(r)
    <3>1. status[r] = "new" /\ result' = result /\ status \in [Request -> Status]
      BY <1>1, <2>4 DEF Execute, IInv, TypeOK
    <3>2. \A s \in Request \ {r} : status'[s] = status[s]
      <4>1. CASE sentSeizeImpl[h]
        BY <2>4, <3>1, <4>1, SpecificTouches DEF Execute
      <4>2. CASE ~sentSeizeImpl[h]
        <5>1. SeizeTransactionContext(r, h, k)
          BY <2>4, <4>2 DEF Execute
        <5> QED BY <3>1, <5>1, SpecificTouches DEF SeizeTransactionContext
      <4> QED BY <4>1, <4>2
    <3> QED BY <3>1, <3>2 DEF OnlyTouches
  <2>5. ASSUME NEW r \in Request, NEW k \in Ends, EndTransaction(r, k) PROVE OnlyTouches(r)
    BY <1>1, <2>5 DEF EndTransaction, Send, OnlyTouches, IInv, TypeOK
  <2>6. ASSUME NEW r \in Request, AutoIncDone(r) PROVE OnlyTouches(r)
    BY <1>1, <2>6 DEF AutoIncDone, Send, OnlyTouches, IInv, TypeOK
  <2>7. ASSUME NEW r \in Request, NEW o, QueryDone(r, o) PROVE OnlyTouches(r)
    BY <1>1, <2>7 DEF QueryDone, OnlyTouches, IInv, TypeOK
  <2>8. CASE (\E ok \in BOOLEAN : ExecDone(ok)) \/ Scan
    BY <1>1, <2>1, <2>8, HeadOnlyTouches
  <2>9. ASSUME NEW r \in Request, Reply(r)
        PROVE  status'[q] = "done" /\ result'[q] = result[q]
    <3>1. /\ TypeOK /\ Alive /\ status[r] = "replying" /\ r # q
          /\ result' = [result EXCEPT ![r] = IF txError[owner[r]] THEN "error" ELSE "ok"]
      BY <1>1, <2>9 DEF Reply, IInv, Alive, RequestsOK
    <3>2. result'[q] = result[q]
      BY <3>1 DEF TypeOK
    <3>3. CASE ~Releases(mode[r])
      BY <1>1, <2>9, <3>1, <3>2, <3>3 DEF Reply, TypeOK
    <3>4. CASE Releases(mode[r])
      <4> DEFINE answered == [status EXCEPT ![r] = "done"]
      <4>1. answered \in [Request -> Status] /\ answered[q] = "done"
        BY <1>1, <3>1 DEF TypeOK, Status
      <4>2. ReleaseTransactionContext(r, owner[r], impl[owner[r]])
        BY <2>9, <3>4 DEF Reply
      <4>3. \/ status' = status \/ status' = answered
            \/ /\ SomeoneWaits
               /\ ExecuteSpecific(Head(seizeTxQueue), owner[Head(seizeTxQueue)],
                                  kind[Head(seizeTxQueue)], impl[owner[r]], answered)
        BY <4>2 DEF ReleaseTransactionContext, NextWaiter
      <4> HIDE DEF answered
      <4>4. CASE status' = status \/ status' = answered
        BY <1>1, <3>2, <4>1, <4>4
      <4>5. CASE /\ SomeoneWaits
                 /\ ExecuteSpecific(Head(seizeTxQueue), owner[Head(seizeTxQueue)],
                                    kind[Head(seizeTxQueue)], impl[owner[r]], answered)
        <5>1. Head(seizeTxQueue) \in Request /\ Head(seizeTxQueue) # q
          BY <1>1, <3>1, <4>5, TailOf DEF SomeoneWaits, TypeOK, Alive, WaitersOK
        <5>2. status'[q] = answered[q]
          BY <4>1, <4>5, <5>1, SpecificTouches
        <5> QED BY <3>2, <4>1, <5>2
      <4> QED BY <4>3, <4>4, <4>5
    <3> QED BY <3>3, <3>4
  <2> QED BY <1>1, <2>1, <2>2, <2>3, <2>4, <2>5, <2>6, <2>7, <2>8, <2>9 DEF Next, User, Native
<1>2. IInv /\ [Next]_vars =>
        \A r \in Request : status[r] = "done" => status'[r] = "done" /\ result'[r] = result[r]
  BY <1>1
<1> QED BY <1>2, Invariance, PTL DEF Spec, AnswersAreFinal

\* Only the execute of a new handler and the release of a context assign one.
LEMMA OthersKeepContexts ==
  ASSUME \/ Begin \/ Scan
         \/ \E r \in Request, k \in Ends : EndTransaction(r, k)
         \/ \E r \in Request : AutoIncDone(r)
         \/ \E r \in Request, o \in {"end", "fetch", "timeout"} : QueryDone(r, o)
         \/ \E ok \in BOOLEAN : ExecDone(ok)
  PROVE  impl' = impl /\ panic = "no"
<1>1. CASE Scan
  BY <1>1 DEF Scan, ScanStarted, ScanNotStarted, FetchMore, FetchDone, ScanClosed, ScanRetried,
              ScanFailed, UnchangedByScans, Completes
<1> QED BY <1>1 DEF Begin, EndTransaction, AutoIncDone, QueryDone, ExecDone, UnchangedByScans,
                    Completes

\* Contexts are granted in the order of seizeTxQueue: of the waiting requests
\* releaseTransactionContext wakes the first, and seizeTransactionContext gives
\* a context to none while they wait.
THEOREM GrantsFirst == Spec => GrantsInOrder
<1>1. ASSUME IInv, Next, NEW i \in DOMAIN seizeTxQueue, NEW j \in DOMAIN seizeTxQueue, i < j
      PROVE  impl'[owner[seizeTxQueue[j]]] = None
  <2> DEFINE s == seizeTxQueue[j]
  <2>1. panic = "no"
    BY <1>1, OthersKeepContexts DEF Next, User, Native, Execute, Reply
  <2>2. /\ TypeOK /\ Alive /\ s \in Request /\ status[s] = "seizing"
        /\ sentSeizeImpl[owner[s]] /\ impl[owner[s]] = None
    BY <1>1, <2>1 DEF IInv, Alive, WaitersOK, TypeOK
  <2>3. owner[s] \in Handler
    BY <2>2, OwnersAreHandlers DEF Alive
  <2>4. CASE impl' = impl
    BY <2>2, <2>4
  <2>5. ASSUME NEW r \in Request, NEW h \in Handler, NEW k \in Kinds, Execute(r, h, k)
        PROVE  impl'[owner[s]] = None
    <3>1. CASE sentSeizeImpl[h]
      BY <2>2, <2>5, <3>1 DEF Execute
    <3>2. CASE ~sentSeizeImpl[h]
      <4>1. SeizeTransactionContext(r, h, k) /\ owner[s] # h
        BY <2>2, <2>5, <3>2 DEF Execute
      <4>2. impl' = impl \/ \E c \in Context : impl' = [impl EXCEPT ![h] = c]
        BY <4>1 DEF SeizeTransactionContext
      <4> QED BY <2>2, <2>3, <4>1, <4>2 DEF TypeOK
    <3> QED BY <3>1, <3>2
  <2>6. ASSUME NEW r \in Request, Reply(r)
        PROVE  impl'[owner[s]] = None
    <3> DEFINE h == owner[r]
               w == Head(seizeTxQueue)
    <3>1. h \in Handler
      BY <2>2, <2>6, OwnersAreHandlers DEF Reply, Alive, RequestsOK
    <3>2. w = seizeTxQueue[1] /\ w \in Request /\ 1 \in DOMAIN seizeTxQueue /\ j # 1
      BY <1>1, <2>2, TailOf DEF TypeOK
    <3>3. owner[w] # owner[s] /\ owner[w] \in Handler
      BY <2>2, <3>2, OwnersAreHandlers DEF Alive, WaitersOK
    <3> HIDE DEF w, s
    <3>4. \/ impl' = impl
          \/ impl' = [impl EXCEPT ![h] = None]
          \/ impl' = [impl EXCEPT ![owner[w]] = impl[h], ![h] = None]
      BY <2>6 DEF Reply, ReleaseTransactionContext, NextWaiter, HandOver, w
    <3> QED BY <2>2, <2>3, <3>1, <3>3, <3>4 DEF TypeOK
  <2> QED BY <1>1, <2>4, <2>5, <2>6, OthersKeepContexts DEF Next, User, Native
<1>2. IInv /\ [Next]_vars =>
        [\A r, s \in Request :
           (\E i, j \in DOMAIN seizeTxQueue : i < j /\ seizeTxQueue[i] = r /\ seizeTxQueue[j] = s)
             => ~(impl'[owner[r]] = None /\ impl'[owner[s]] # None)]_vars
  BY <1>1
<1> QED BY <1>2, Invariance, PTL DEF Spec, GrantsInOrder

-----------------------------------------------------------------------------
(* Calls and endings: what holds when the user waits for the answer of     *)
(* each call on a begun transaction (~Pipelined).                          *)

Active(r) == status[r] \notin {"new", "done"}

\* A handler has one call in progress, and none once its transaction is over.
OneByOne ==
  /\ \A r, s \in Request : Active(r) /\ Active(s) /\ owner[r] = owner[s] => r = s
  /\ \A r, s \in Request : Closer(r) /\ owner[s] = owner[r] /\ s # r => status[s] = "done"

\* How a call ends, and which of them use scans.
ModesOK ==
  \A r \in Request :
    /\ Closer(r) => mode[r] # "NOCOMMIT"
    /\ mode[r] = "ROLLBACK" => kind[r] \in Ends \cup Scans
    /\ status[r] = "fetching" => kind[r] \in Scans
    /\ status[r] = "autoInc" => kind[r] \notin Ends

\* The context that a call in progress works on is its handler's.
OwnContext ==
  \A r \in Request :
    /\ status[r] \in {"queued", "fetching", "replying"} => impl[owner[r]] # None /\ opCtx[r] = impl[owner[r]]
    /\ status[r] = "autoInc" => impl[owner[r]] # None

\* Outcomes: no result before the answer, no work before the execution.
OutcomesOK ==
  \A r \in Request :
    /\ status[r] # "done" => result[r] = None
    /\ work[r] # None => status[r] \in {"replying", "done"} /\ kind[r] \notin Ends
    /\ kind[r] \in Ends /\ status[r] \in {"replying", "done"} =>
         \A s \in Request : owner[s] = owner[r] => work[s] # "pending"
    /\ kind[r] \in Ends /\ status[r] = "replying" /\ ~txError[owner[r]] => nativeOk[r]

\* The NdbTransaction of what runs, has run or says so is open.
QueueOpen ==
  \A i \in DOMAIN execQueue :
    /\ execQueue[i].step # "exec" => kind[execQueue[i].req] \in Scans
    /\ i = 1 \/ execQueue[i].txIsOpen \/ execQueue[i].step \notin {"exec", "scan"} =>
         ndbOpen[opCtx[execQueue[i].req]]

Opened ==
  /\ \A r \in Request :
       /\ status[r] = "fetching" => ndbOpen[opCtx[r]]
       /\ status[r] = "replying" =>
            (ndbOpen[opCtx[r]] <=> mode[r] = "NOCOMMIT" \/ (mode[r] = "ROLLBACK" /\ kind[r] \notin Ends))
  /\ \A h \in Handler :
       impl[h] # None /\ execCount[h] # 0 /\ (\A r \in Unanswered(h) : status[r] = "autoInc") => ndbOpen[impl[h]]

\* A handler that has not got a context has executed nothing; one that has asked for it
\* waits, unless its transaction is over.
Seizing ==
  \A h \in Handler :
    /\ ~sentSeizeImpl[h] => execCount[h] = 0 /\ \A r \in Request : owner[r] = h => kind[r] \in Ends
    /\ \A i \in DOMAIN seizeTxQueue : owner[seizeTxQueue[i]] = h => execCount[h] = 0
    /\ sentSeizeImpl[h] /\ impl[h] = None =>
         \/ \E i \in DOMAIN seizeTxQueue : owner[seizeTxQueue[i]] = h
         \/ \E r \in Request : Closer(r) /\ owner[r] = h /\ status[r] = "done"

\* A handler that is not current has a call that ends its transaction, and has given its
\* context back when that is done.
Endings ==
  /\ \A h \in created : h # tx => \E r \in Request : Closer(r) /\ owner[r] = h
  /\ \A r \in Request : Closer(r) /\ status[r] = "done" /\ impl[owner[r]] # None => NeverStarted(owner[r])

Orderly == /\ OneByOne /\ ModesOK /\ OwnContext /\ OutcomesOK /\ QueueOpen /\ Opened /\ Seizing /\ Endings

EInv == /\ IInv /\ FreeMeansClosed /\ NoPanic /\ EndsAreSound
        /\ panic = "no" => Orderly

-----------------------------------------------------------------------------
(* What runs, and on which NdbTransaction.                                 *)

\* The calls of queue q that count on an open NdbTransaction find it open.
Ready(q, open, ctx) ==
  \A i \in DOMAIN q : q[i].txIsOpen \/ q[i].step \notin {"exec", "scan"} => open[ctx[q[i].req]]

\* The process ends for a start that failed, in the first call of its transaction.
Unstarted == panic = "notStarted" /\ "start" \in Faults /\ execQueue # <<>> /\ ~Head(execQueue).txIsOpen

\* Queue q is there now and its head runs, or could not be started; nothing else is
\* opened.
Ran(q, open, ctx) ==
  /\ execQueue' = q
  /\ \/ /\ panic' = "no"
        /\ \A i \in DOMAIN q : i = 1 \/ q[i].txIsOpen \/ q[i].step \notin {"exec", "scan"} => ndbOpen'[ctx[q[i].req]]
     \/ Unstarted' /\ \A x \in Context : ndbOpen'[x] => open[x]
  /\ \A x \in Context : open[x] => ndbOpen'[x]
  /\ \A x \in Context : ndbOpen'[x] /\ ~open[x] => q # <<>> /\ x = ctx[q[1].req]

\* A head that is ready runs without a failed assertion, if it can be started.
LEMMA RunsWell ==
  ASSUME NEW q \in Seq(Call), NEW open \in [Context -> BOOLEAN], NEW ctx,
         \A i \in DOMAIN q : ctx[q[i].req] \in Context,
         Ready(q, open, ctx),
         q # <<>> /\ Head(q).step \notin {"exec", "scan"} => impl[owner[Head(q).req]] = ctx[Head(q).req],
         RunHead(q, open, ctx)
  PROVE  Ran(q, open, ctx)
<1>1. ASSUME q # <<>>, StartFails(Head(q), open, ctx), execQueue' = q, ndbOpen' = open, panic' = "notStarted"
      PROVE  Ran(q, open, ctx)
  <2>1. Head(q) = q[1] /\ 1 \in DOMAIN q
    BY <1>1, TailOf
  <2>2. "start" \in Faults /\ ~Head(q).txIsOpen
    BY <1>1, <2>1 DEF StartFails, Ready
  <2>3. Unstarted'
    BY <1>1, <2>2 DEF Unstarted
  <2>4. QED
    BY <1>1, <2>3 DEF Ran
<1>2. ASSUME execQueue' = q,
             ndbOpen' = IF q # <<>> /\ Opens(Head(q))
                        THEN [open EXCEPT ![ctx[Head(q).req]] = TRUE] ELSE open,
             panic' = CASE q # <<>> /\ NotStarted(Head(q), open, ctx) -> "txNotOpen"
                        [] q # <<>> /\ ClosedScan(Head(q), open, ctx) -> "staleScan"
                        [] OTHER -> "no"
      PROVE  Ran(q, open, ctx)
  <2>1. CASE q = <<>>
    BY <1>2, <2>1 DEF Ran
  <2>2. CASE q # <<>>
    <3>1. /\ Head(q) = q[1] /\ 1 \in DOMAIN q /\ ctx[Head(q).req] \in Context
      BY <2>2, TailOf
    <3>2. /\ Head(q).txIsOpen => open[ctx[Head(q).req]]
          /\ Head(q).step \notin {"exec", "scan"} => open[ctx[Head(q).req]]
      BY <3>1 DEF Ready
    <3>3. panic' = "no"
      BY <1>2, <2>2, <3>2 DEF NotStarted, ClosedScan
    <3>4. \/ ndbOpen' = [open EXCEPT ![ctx[Head(q).req]] = TRUE]
          \/ ndbOpen' = open /\ open[ctx[Head(q).req]]
      BY <1>2, <2>2, <3>2 DEF Opens
    <3>5. /\ \A x \in Context : open[x] => ndbOpen'[x]
          /\ \A x \in Context : ndbOpen'[x] /\ ~open[x] => x = ctx[q[1].req]
          /\ ndbOpen'[ctx[q[1].req]]
      BY <3>1, <3>4
    <3>6. \A i \in DOMAIN q : q[i].txIsOpen \/ q[i].step \notin {"exec", "scan"} => ndbOpen'[ctx[q[i].req]]
      BY <3>5 DEF Ready
    <3>7. QED
      BY <1>2, <2>2, <3>3, <3>5, <3>6 DEF Ran
  <2>3. QED
    BY <2>1, <2>2
<1>3. QED
  BY <1>1, <1>2 DEF RunHead

\* A call is enqueued.
LEMMA EnqueuesWell ==
  ASSUME NEW c \in Call, NEW ctx, execQueue \in Seq(Call), ndbOpen \in [Context -> BOOLEAN], panic = "no",
         ctx[c.req] \in Context,
         \A i \in DOMAIN execQueue : i = 1 => ndbOpen[ctx[execQueue[i].req]],
         Ready(execQueue, ndbOpen, ctx), Ready(<<c>>, ndbOpen, ctx),
         c.step \notin {"exec", "scan"} => impl[owner[c.req]] = ctx[c.req],
         Enqueue(c, ctx)
  PROVE  Ran(Append(execQueue, c), ndbOpen, ctx)
<1>1. CASE execQueue = <<>>
  <2>1. RunHead(<<c>>, ndbOpen, ctx) /\ <<c>> \in Seq(Call) /\ <<c>> = Append(execQueue, c)
    BY <1>1 DEF Enqueue
  <2> DEFINE q == <<c>>
  <2>2. Head(q) = c /\ \A i \in DOMAIN q : q[i] = c
    OBVIOUS
  <2>3. RunHead(q, ndbOpen, ctx) /\ q \in Seq(Call) /\ q = Append(execQueue, c) /\ Ready(q, ndbOpen, ctx)
    BY <2>1
  <2> HIDE DEF q
  <2>4. QED
    BY <2>2, <2>3, RunsWell
<1>2. CASE execQueue # <<>>
  <2>1. execQueue' = Append(execQueue, c) /\ ndbOpen' = ndbOpen /\ panic' = "no"
    BY <1>2 DEF Enqueue
  <2> DEFINE n == Len(execQueue) + 1
  <2>2. /\ \A i \in DOMAIN Append(execQueue, c) : i \in DOMAIN execQueue \/ i = n
        /\ \A i \in DOMAIN execQueue : Append(execQueue, c)[i] = execQueue[i]
        /\ Append(execQueue, c)[n] = c /\ n # 1
    BY <1>2, AppendOf
  <2>3. <<c>>[1] = c /\ 1 \in DOMAIN <<c>>
    OBVIOUS
  <2>4. c.txIsOpen \/ c.step \notin {"exec", "scan"} => ndbOpen[ctx[c.req]]
    BY <2>3 DEF Ready
  <2>5. QED
    BY <2>1, <2>2, <2>4 DEF Ran, Ready
<1>3. QED
  BY <1>1, <1>2

\* What is open suits the next state, before its head runs.
Suits(open) ==
  /\ \A i \in DOMAIN execQueue' : execQueue'[i].step # "exec" => kind'[execQueue'[i].req] \in Scans
  /\ \A r \in Request :
       /\ status'[r] = "fetching" => open[opCtx'[r]]
       /\ status'[r] = "replying" =>
            (open[opCtx'[r]] <=> mode'[r] = "NOCOMMIT" \/ (mode'[r] = "ROLLBACK" /\ kind'[r] \notin Ends))
  /\ \A h \in Handler :
       impl'[h] # None /\ execCount'[h] # 0 /\ (\A r \in Unanswered(h)' : status'[r] = "autoInc") => open[impl'[h]]
  /\ \A c \in freeList' : ~open[c]

\* As contexts are exclusive, the head that runs disturbs no other request.
LEMMA OpenedNext ==
  ASSUME IInv', OneByOne', OwnContext', NEW open \in [Context -> BOOLEAN],
         Ran(execQueue', open, opCtx'), Suits(open)
  PROVE  FreeMeansClosed' /\ NoPanic' /\ (panic' = "no" => QueueOpen' /\ Opened')
<1>0. CASE panic' = "no"
  <2>1. panic' = "no" /\ TypeOK' /\ Alive' /\ ExclusiveContexts'
    BY <1>0 DEF IInv
  <2>2. QueueOpen'
    BY <1>0 DEF QueueOpen, Ran, Suits, Unstarted
  <2>3. ASSUME NEW x \in Context, ndbOpen'[x], ~open[x]
        PROVE  \E s \in Request : /\ status'[s] = "queued" /\ x = opCtx'[s] /\ x # None
                                  /\ impl'[owner'[s]] = x /\ owner'[s] \in Handler
    <3>1. execQueue' # <<>> /\ x = opCtx'[execQueue'[1].req]
      BY <2>3 DEF Ran
    <3>2. execQueue' \in Seq(Call)
      BY <2>1 DEF TypeOK
    <3>3. 1 \in DOMAIN execQueue' /\ execQueue'[1] \in Call
      BY ONLY <3>1, <3>2, TailOf
    <3>4. execQueue'[1].req \in Request /\ status'[execQueue'[1].req] = "queued"
      BY <2>1, <3>3 DEF Alive, QueueOK, Queued, Call
    <3>5. impl'[owner'[execQueue'[1].req]] = x /\ x # None
      BY <3>1, <3>4 DEF OwnContext
    <3>6. owner'[execQueue'[1].req] \in Handler
      BY <2>1, <3>4 DEF TypeOK, Alive, RequestsOK
    <3>7. QED
      BY <3>1, <3>4, <3>5, <3>6
  <2>4. ASSUME NEW r \in Request, status'[r] = "replying", ndbOpen'[opCtx'[r]], ~open[opCtx'[r]]
        PROVE  FALSE
    <3>1. /\ impl'[owner'[r]] = opCtx'[r] /\ owner'[r] \in Handler /\ opCtx'[r] \in Context
      BY <2>1, <2>4 DEF OwnContext, TypeOK, Alive, RequestsOK
    <3>2. PICK s \in Request : /\ status'[s] = "queued" /\ opCtx'[r] = opCtx'[s] /\ opCtx'[r] # None
                               /\ impl'[owner'[s]] = opCtx'[r] /\ owner'[s] \in Handler
      BY <2>3, <2>4, <3>1
    <3>3. owner'[s] = owner'[r]
      BY <2>1, <3>1, <3>2 DEF ExclusiveContexts
    <3>4. QED
      BY <2>4, <3>2, <3>3 DEF OneByOne, Active
  <2>5. Opened'
    <3>1. ASSUME NEW r \in Request
          PROVE  /\ status'[r] = "fetching" => ndbOpen'[opCtx'[r]]
                 /\ status'[r] = "replying" =>
                      (ndbOpen'[opCtx'[r]] <=> mode'[r] = "NOCOMMIT" \/ (mode'[r] = "ROLLBACK" /\ kind'[r] \notin Ends))
      <4>1. status'[r] \in {"fetching", "replying"} => opCtx'[r] \in Context
        BY <2>1 DEF OwnContext, TypeOK
      <4>2. open[opCtx'[r]] /\ opCtx'[r] \in Context => ndbOpen'[opCtx'[r]]
        BY DEF Ran
      <4>3. QED
        BY <2>4, <4>1, <4>2 DEF Suits
    <3>2. ASSUME NEW h \in Handler, impl'[h] # None, execCount'[h] # 0,
                 \A r \in Unanswered(h)' : status'[r] = "autoInc"
          PROVE  ndbOpen'[impl'[h]]
      <4>1. open[impl'[h]] /\ impl'[h] \in Context
        BY <2>1, <3>2 DEF Suits, TypeOK
      <4>2. QED
        BY <4>1 DEF Ran
    <3>3. QED
      BY <3>1, <3>2 DEF Opened
  <2>6. FreeMeansClosed'
    <3> SUFFICES ASSUME NEW c \in freeList', ndbOpen'[c] PROVE FALSE
      BY DEF FreeMeansClosed
    <3>1. c \in Context /\ ~open[c]
      BY <2>1 DEF TypeOK, Suits
    <3>2. PICK s \in Request : impl'[owner'[s]] = c /\ owner'[s] \in Handler
      BY <2>3, <3>1
    <3>3. c \in Held'
      BY <3>1, <3>2 DEF Held
    <3>4. QED
      BY <2>1, <3>3 DEF Alive, Accounting
  <2>7. QED
    BY <1>0, <2>2, <2>5, <2>6 DEF NoPanic
<1>1. CASE panic' # "no"
  <2>1. Unstarted' /\ \A x \in Context : ndbOpen'[x] => open[x]
    BY <1>1 DEF Ran
  <2>2. freeList' \subseteq Context
    BY DEF IInv, TypeOK
  <2>3. FreeMeansClosed'
    BY <2>1, <2>2 DEF FreeMeansClosed, Suits
  <2>4. QED
    BY <1>1, <2>1, <2>3 DEF Unstarted, NoPanic
<1>2. QED
  BY <1>0, <1>1

-----------------------------------------------------------------------------
(* The completions of native calls.                                        *)

\* What every action starts from.
LEMMA Now ==
  ASSUME EInv, panic = "no"
  PROVE  /\ TypeOK /\ Alive /\ ExclusiveContexts /\ FreeMeansClosed /\ EndsAreSound
         /\ OneByOne /\ ModesOK /\ OwnContext /\ OutcomesOK /\ QueueOpen /\ Opened /\ Seizing /\ Endings
         /\ None \notin Handler /\ None \notin Request /\ None \notin Context
         /\ \A r \in Request : status[r] # "new" <=> owner[r] \in Handler
         /\ \A r \in Request : owner[r] # None <=> owner[r] \in Handler
<1>1. TypeOK /\ Alive /\ ExclusiveContexts /\ FreeMeansClosed /\ EndsAreSound /\ Orderly
  BY DEF EInv, IInv
<1>2. RequestsOK
  BY <1>1 DEF Alive
<1>3. QED
  BY <1>1, <1>2, OwnersAreHandlers DEF Orderly

\* Request r goes on to status v, as Moves says; a request that has been executed has
\* decided what becomes of the work.
Goes(r, v) ==
  /\ Moves(r, v)
  /\ execCount' \in {execCount, [execCount EXCEPT ![owner[r]] = @ + 1]}
  /\ \A s \in Request \ {r} : opCtx'[s] = opCtx[s]
  /\ v # "done" => opCtx'[r] = impl[owner[r]]
  /\ result' = result \/ (v = "done" /\ result' = [result EXCEPT ![r] = "error"])
  /\ \/ UNCHANGED <<nativeOk, work>> /\ kind[r] \notin Ends
     \/ \E ok \in BOOLEAN : /\ v = "replying" /\ AttachError(owner[r], ok) /\ work' = Decided(r, ok)
                            /\ nativeOk' = [nativeOk EXCEPT ![r] = ok]
  /\ v \in {"fetching", "done"} \/ mode' # mode => kind[r] \in Scans
  /\ v = "done" => status[r] = "queued"

\* Statuses and modes of the others stay.
LEMMA GoesFacts ==
  ASSUME EInv, panic = "no", NEW r \in Request, NEW v, Goes(r, v)
  PROVE  /\ Frame /\ replying = None /\ Active(r) /\ owner[r] \in Handler /\ impl[owner[r]] # None
         /\ status[r] \in {"queued", "fetching", "autoInc"}
         /\ status'[r] = v /\ v \in {"queued", "fetching", "replying", "done"}
         /\ \A s \in Request \ {r} : status'[s] = status[s] /\ mode'[s] = mode[s]
         /\ \A s \in Request : Closer(s)' <=> Closer(s)
         /\ \A s \in Request : Active(s)' => Active(s)
         /\ mode'[r] = mode[r] \/ mode'[r] = "ROLLBACK"
<1>1. /\ Frame /\ replying = None
      /\ status[r] \in {"queued", "fetching", "autoInc"} /\ v \in {"queued", "fetching", "replying", "done"}
      /\ status[r] = "autoInc" => impl[owner[r]] # None
      /\ status' = [status EXCEPT ![r] = v]
      /\ mode' = mode \/ mode' = [mode EXCEPT ![r] = "ROLLBACK"]
  BY DEF Goes, Moves
<1>2. status \in [Request -> Status] /\ mode \in [Request -> Mode \cup {None}]
  BY Now DEF TypeOK
<1>3. owner[r] \in Handler /\ impl[owner[r]] # None
  BY <1>1, Now DEF OwnContext
<1>4. \A s \in Request : Closer(s)' <=> Closer(s)
  BY <1>1 DEF Frame, Closer
<1>5. Active(r)
  BY <1>1 DEF Active
<1>6. QED
  BY <1>1, <1>2, <1>3, <1>4, <1>5 DEF Active

\* The other requests of a handler that is at work are answered.
LEMMA Alone ==
  ASSUME OneByOne, NEW r \in Request, Active(r), NEW s \in Request, s # r, owner[s] = owner[r]
  PROVE  ~Active(s) /\ ~Closer(s)
BY DEF OneByOne, Active

\* That a call goes on does not disturb who calls what.
LEMMA GoesKeeps ==
  ASSUME EInv, panic = "no", NEW r \in Request, NEW v, Goes(r, v)
  PROVE  OneByOne' /\ ModesOK' /\ OwnContext' /\ OutcomesOK' /\ Seizing' /\ Endings' /\ EndsAreSound'
<1>1. /\ Frame /\ replying = None /\ Active(r) /\ owner[r] \in Handler /\ impl[owner[r]] # None
      /\ status[r] \in {"queued", "fetching", "autoInc"}
      /\ status'[r] = v /\ v \in {"queued", "fetching", "replying", "done"}
      /\ \A s \in Request \ {r} : status'[s] = status[s] /\ mode'[s] = mode[s]
      /\ \A s \in Request : Closer(s)' <=> Closer(s)
      /\ \A s \in Request : Active(s)' => Active(s)
      /\ mode'[r] = mode[r] \/ mode'[r] = "ROLLBACK"
  BY GoesFacts
<1>2. UNCHANGED <<created, impl, tx, seizeTxQueue, owner, kind, sentSeizeImpl, autocommit, freeList>>
  BY <1>1 DEF Frame
<1>3. OneByOne'
  <2>1. \A s \in Request : status[s] = "done" => status'[s] = "done"
    BY <1>1
  <2>2. QED
    BY <1>1, <1>2, <2>1, Now DEF OneByOne
<1>4. ModesOK'
  <2>1. mode' # mode \/ v = "fetching" => kind[r] \in Scans
    BY DEF Goes
  <2>2. mode'[r] # mode[r] => mode'[r] = "ROLLBACK" /\ kind[r] \in Scans
    BY <1>1, <2>1
  <2>3. QED
    BY <1>1, <1>2, <2>1, <2>2, Now DEF ModesOK
<1>5. OwnContext'
  <2>1. v # "done" => opCtx'[r] = impl[owner[r]]
    BY DEF Goes
  <2>2. \A s \in Request \ {r} : opCtx'[s] = opCtx[s]
    BY DEF Goes
  <2>3. QED
    BY <1>1, <1>2, <2>1, <2>2, Now DEF OwnContext
<1>6. /\ \A s \in Request : result'[s] # result[s] => s = r /\ v = "done" /\ result'[s] = "error"
      /\ \A s \in Request \ {r} : nativeOk'[s] = nativeOk[s]
      /\ \A s \in Request : work'[s] # work[s] => owner[s] = owner[r] /\ (work[s] # None \/ (s = r /\ kind[s] \notin Ends /\ v = "replying"))
      /\ \A s \in Request : work'[s] = "pending" => work[s] = "pending" \/ s = r
      /\ kind[r] \in Ends => v = "replying" /\ \A s \in Request : owner[s] = owner[r] => work'[s] # "pending"
      /\ kind[r] \in Ends /\ ~txError'[owner[r]] => nativeOk'[r]
  <2>1. \A s \in Request : result'[s] # result[s] => s = r /\ v = "done" /\ result'[s] = "error"
    BY Now DEF Goes, TypeOK
  <2>2. CASE UNCHANGED <<nativeOk, work>> /\ kind[r] \notin Ends
    BY <2>1, <2>2
  <2>3. ASSUME NEW ok \in BOOLEAN, v = "replying", AttachError(owner[r], ok), work' = Decided(r, ok),
               nativeOk' = [nativeOk EXCEPT ![r] = ok]
        PROVE  /\ \A s \in Request \ {r} : nativeOk'[s] = nativeOk[s]
               /\ \A s \in Request : work'[s] # work[s] => owner[s] = owner[r] /\ (work[s] # None \/ (s = r /\ kind[s] \notin Ends))
               /\ \A s \in Request : work'[s] = "pending" => work[s] = "pending" \/ s = r
               /\ kind[r] \in Ends => \A s \in Request : owner[s] = owner[r] => work'[s] # "pending"
               /\ kind[r] \in Ends /\ ~txError'[owner[r]] => nativeOk'[r]
    <3>1. /\ \A s \in Request \ {r} : nativeOk'[s] = nativeOk[s]
          /\ nativeOk'[r] = ok
      BY <2>3, Now DEF TypeOK
    <3>2. ~txError'[owner[r]] => ok
      BY <1>1, <2>3, Now DEF AttachError, TypeOK
    <3>3. \A s \in Request :
            work'[s] = CASE owner[s] = owner[r] /\ work[s] = "pending" /\ mode[r] # "NOCOMMIT"
                              -> IF ok /\ mode[r] = "COMMIT" THEN "committed" ELSE "undone"
                         [] s = r /\ kind[r] \notin Ends /\ ok
                              -> IF mode[r] = "COMMIT" THEN "committed" ELSE "pending"
                         [] OTHER -> work[s]
      BY <2>3 DEF Decided
    <3>4. kind[r] \in Ends => mode[r] # "NOCOMMIT"
      BY <1>1, Now DEF ModesOK, Closer
    <3>5. ASSUME NEW s \in Request
          PROVE  \/ /\ owner[s] = owner[r] /\ work[s] = "pending" /\ mode[r] # "NOCOMMIT"
                    /\ work'[s] \in {"committed", "undone"}
                 \/ s = r /\ kind[r] \notin Ends
                 \/ work'[s] = work[s] /\ ~(owner[s] = owner[r] /\ work[s] = "pending" /\ mode[r] # "NOCOMMIT")
      BY <3>3
    <3>6. \A s \in Request : work'[s] # work[s] => owner[s] = owner[r] /\ (work[s] # None \/ (s = r /\ kind[s] \notin Ends))
      BY <3>5, ConstantsOK
    <3>7. \A s \in Request : work'[s] = "pending" => work[s] = "pending" \/ s = r
      BY <3>5
    <3>8. kind[r] \in Ends => \A s \in Request : owner[s] = owner[r] => work'[s] # "pending"
      BY <3>4, <3>5
    <3>9. QED
      BY <3>1, <3>2, <3>6, <3>7, <3>8
  <2>4. QED
    BY <2>1, <2>2, <2>3 DEF Goes
<1>7. OutcomesOK'
  <2> SUFFICES ASSUME NEW s \in Request
      PROVE  /\ status'[s] # "done" => result'[s] = None
             /\ work'[s] # None => status'[s] \in {"replying", "done"} /\ kind[s] \notin Ends
             /\ kind[s] \in Ends /\ status'[s] \in {"replying", "done"} =>
                  \A t \in Request : owner[t] = owner[s] => work'[t] # "pending"
             /\ kind[s] \in Ends /\ status'[s] = "replying" /\ ~txError'[owner[s]] => nativeOk'[s]
    BY <1>2 DEF OutcomesOK
  <2>1. status'[s] # "done" => result'[s] = None
    BY <1>1, <1>6, Now DEF OutcomesOK
  <2>2. work'[s] # None => status'[s] \in {"replying", "done"} /\ kind[s] \notin Ends
    <3>1. CASE s = r
      <4>1. work[r] = None
        BY <1>1, Now DEF OutcomesOK
      <4>2. QED
        BY <1>1, <1>6, <3>1, <4>1
    <3>2. CASE s # r
      BY <1>1, <1>6, <3>2, Now DEF OutcomesOK
    <3>3. QED
      BY <3>1, <3>2
  <2>3. CASE s = r
    BY <1>1, <1>6, <2>1, <2>2, <2>3
  <2>4. CASE s # r
    <3>1. status'[s] # "replying"
      BY <1>1, <2>4, Now DEF Alive, RequestsOK
    <3>2. ASSUME kind[s] \in Ends, status'[s] = "done", NEW t \in Request, owner[t] = owner[s]
          PROVE  work'[t] # "pending"
      <4>1. status[s] = "done" /\ owner[s] # None
        BY <1>1, <2>4, <3>2, Now
      <4>2. owner[s] # owner[r]
        BY <1>1, <2>4, <3>2, <4>1, Alone, Now DEF Closer
      <4>3. work[t] # "pending"
        BY <3>2, <4>1, Now DEF OutcomesOK
      <4>4. QED
        BY <1>6, <3>2, <4>2, <4>3
    <3>3. QED
      BY <2>1, <2>2, <3>1, <3>2
  <2>5. QED
    BY <2>3, <2>4
<1>8. Seizing'
  <2>1. \A h \in Handler : h # owner[r] => execCount'[h] = execCount[h]
    BY <1>1, Now DEF Goes, TypeOK
  <2>2. sentSeizeImpl[owner[r]] /\ \A i \in DOMAIN seizeTxQueue : owner[seizeTxQueue[i]] # owner[r]
    BY <1>1, Now DEF Alive, HandlersOK, WaitersOK
  <2>3. \A s \in Request : Closer(s) /\ status[s] = "done" => Closer(s)' /\ status'[s] = "done"
    BY <1>1
  <2> SUFFICES ASSUME NEW h \in Handler
      PROVE  /\ ~sentSeizeImpl[h] => execCount'[h] = 0 /\ \A s \in Request : owner[s] = h => kind[s] \in Ends
             /\ \A i \in DOMAIN seizeTxQueue : owner[seizeTxQueue[i]] = h => execCount'[h] = 0
             /\ sentSeizeImpl[h] /\ impl[h] = None =>
                  \/ \E i \in DOMAIN seizeTxQueue : owner[seizeTxQueue[i]] = h
                  \/ \E s \in Request : Closer(s)' /\ owner[s] = h /\ status'[s] = "done"
    BY <1>2 DEF Seizing
  <2>4. QED
    BY <2>1, <2>2, <2>3, Now DEF Seizing
<1>9. Endings'
  <2>1. \A h \in created' : h # tx' => \E s \in Request : Closer(s)' /\ owner'[s] = h
    BY <1>1, <1>2, Now DEF Endings
  <2>2. ASSUME NEW s \in Request, Closer(s), status'[s] = "done", impl[owner[s]] # None
        PROVE  NeverStarted(owner[s])'
    <3>1. CASE s = r
      <4>1. v = "done" /\ kind[r] \in Scans /\ status[r] = "queued"
        BY <1>1, <2>2, <3>1 DEF Goes
      <4>2. mode'[r] = mode[r] /\ mode[r] = "COMMIT" /\ kind[r] \notin Ends
        <5>1. kind[r] \notin Ends /\ mode[r] # "NOCOMMIT"
          BY <2>2, <3>1, <4>1, Now DEF Scans, Ends, ModesOK
        <5>2. mode[r] \in {"COMMIT", "ROLLBACK"} /\ mode[r] # "ROLLBACK"
          BY <1>1, <4>1, <5>1, Now DEF Alive, RequestsOK, Mode
        <5>3. mode' = mode
          BY <4>1 DEF Goes, Moves
        <5>4. QED
          BY <5>1, <5>2, <5>3
      <4>3. work'[r] = None
        <5>1. work[r] = None
          BY <4>1, Now DEF OutcomesOK
        <5>2. QED
          BY <1>6, <4>1, <5>1
      <4>4. QED
        BY <1>1, <1>2, <3>1, <4>1, <4>2, <4>3 DEF NeverStarted
    <3>2. CASE s # r
      <4>1. status[s] = "done"
        BY <1>1, <2>2, <3>2
      <4>2. PICK t \in Request : /\ owner[t] = owner[s] /\ kind[t] \in Scans /\ mode[t] = "COMMIT"
                                 /\ status[t] = "done" /\ work[t] = None
        BY <2>2, <4>1, Now DEF Endings, NeverStarted
      <4>3. t # r
        BY <1>1, <4>2
      <4>4. work'[t] = None
        BY <1>6, <4>2, <4>3
      <4>5. QED
        BY <1>1, <1>2, <4>2, <4>3, <4>4 DEF NeverStarted
    <3>3. QED
      BY <3>1, <3>2
  <2>3. QED
    BY <1>1, <1>2, <2>1, <2>2 DEF Endings
<1>10. EndsAreSound'
  <2>1. EndCoversWork'
    <3> SUFFICES ASSUME NEW s \in Request, kind[s] \in Ends, status'[s] = "done",
                        NEW t \in Request, owner[t] = owner[s]
                 PROVE  status'[t] = "done" /\ work'[t] # "pending"
      BY <1>2 DEF EndCoversWork
    <3>1. owner[s] # None
      BY <1>1, Now
    <3>2. Closer(s)
      BY <3>1 DEF Closer
    <3>3. t # s => status'[t] = "done"
      BY <1>1, <1>2, <1>3, <3>2 DEF OneByOne
    <3>4. QED
      BY <1>2, <1>7, <3>3 DEF OutcomesOK
  <2>2. SuccessIsReal'
    <3> SUFFICES ASSUME NEW s \in Request, kind[s] = "commit", result'[s] = "ok" PROVE nativeOk'[s]
      BY <1>2 DEF SuccessIsReal
    <3>1. result[s] = "ok"
      BY <1>6
    <3>2. s # r
      BY <1>1, <3>1, Now, ConstantsOK DEF OutcomesOK
    <3>3. QED
      BY <1>6, <3>1, <3>2, Now DEF EndsAreSound, SuccessIsReal
  <2>3. QED
    BY <2>1, <2>2 DEF EndsAreSound
<1>11. QED
  BY <1>3, <1>4, <1>5, <1>7, <1>8, <1>9, <1>10

\* What remains open suits the next state when the context of r is as its mode says.
LEMMA GoesSuits ==
  ASSUME EInv, panic = "no", NEW r \in Request, NEW v, Goes(r, v), NEW open \in [Context -> BOOLEAN],
         \A x \in Context : open[x] => ndbOpen[x],
         \A x \in Context : x # impl[owner[r]] => open[x] = ndbOpen[x],
         v \in {"fetching", "done"} => open[impl[owner[r]]],
         v = "replying" => (open[impl[owner[r]]] <=> mode'[r] = "NOCOMMIT" \/ (mode'[r] = "ROLLBACK" /\ kind[r] \notin Ends)),
         \A i \in DOMAIN execQueue' : execQueue'[i].step # "exec" => kind[execQueue'[i].req] \in Scans
  PROVE  Suits(open)
<1>1. /\ Frame /\ replying = None /\ Active(r) /\ owner[r] \in Handler /\ impl[owner[r]] # None
      /\ status'[r] = v /\ v \in {"queued", "fetching", "replying", "done"}
      /\ \A s \in Request \ {r} : status'[s] = status[s] /\ mode'[s] = mode[s]
  BY GoesFacts
<1>2. UNCHANGED <<impl, owner, kind, freeList>>
  BY <1>1 DEF Frame
<1>3. /\ \A s \in Request \ {r} : opCtx'[s] = opCtx[s]
      /\ v # "done" => opCtx'[r] = impl[owner[r]]
  BY DEF Goes
<1>4. \A h \in Handler : h # owner[r] /\ impl[h] # None => impl[h] # impl[owner[r]] /\ impl[h] \in Context
  BY <1>1, Now DEF ExclusiveContexts, TypeOK
<1>5. \A s \in Request : status[s] \in {"fetching", "replying"} /\ s # r =>
        opCtx[s] \in Context /\ opCtx[s] # impl[owner[r]]
  <2>1. \A s \in Request : status[s] \in {"fetching", "replying"} /\ s # r => owner[s] # owner[r] /\ owner[s] \in Handler
    BY <1>1, Now DEF OneByOne, Active
  <2>2. QED
    BY <1>4, <2>1, Now DEF OwnContext
<1>6. ASSUME NEW s \in Request
      PROVE  /\ status'[s] = "fetching" => open[opCtx'[s]]
             /\ status'[s] = "replying" =>
                  (open[opCtx'[s]] <=> mode'[s] = "NOCOMMIT" \/ (mode'[s] = "ROLLBACK" /\ kind'[s] \notin Ends))
  <2>1. CASE s = r
    BY <1>1, <1>2, <1>3, <2>1
  <2>2. CASE s # r
    <3>1. status[s] \in {"fetching", "replying"} => open[opCtx[s]] = ndbOpen[opCtx[s]]
      BY <1>5, <2>2
    <3>2. QED
      BY <1>1, <1>2, <1>3, <2>2, <3>1, Now DEF Opened
  <2>3. QED
    BY <2>1, <2>2
<1>7. ASSUME NEW h \in Handler, impl'[h] # None, execCount'[h] # 0,
             \A s \in Unanswered(h)' : status'[s] = "autoInc"
      PROVE  open[impl'[h]]
  <2>1. CASE h = owner[r]
    <3>1. v = "done"
      BY <1>1, <1>2, <1>7, <2>1 DEF Unanswered
    <3>2. QED
      BY <1>2, <2>1, <3>1
  <2>2. CASE h # owner[r]
    <3>1. execCount[h] # 0
      BY <1>1, <1>7, <2>2, Now DEF Goes, TypeOK
    <3>2. \A s \in Unanswered(h) : status[s] = "autoInc"
      BY <1>1, <1>2, <1>7, <2>2 DEF Unanswered
    <3>3. ndbOpen[impl[h]]
      BY <1>2, <1>7, <3>1, <3>2, Now DEF Opened
    <3>4. QED
      BY <1>2, <1>4, <1>7, <2>2, <3>3
  <2>3. QED
    BY <2>1, <2>2
<1>8. \A c \in freeList' : ~open[c]
  BY <1>2, Now DEF FreeMeansClosed, TypeOK
<1>9. QED
  BY <1>2, <1>6, <1>7, <1>8 DEF Suits

\* The calls behind the head are ready, whatever becomes of the context of the head.
LEMMA RestReady ==
  ASSUME EInv, panic = "no", execQueue # <<>>, NEW open \in [Context -> BOOLEAN],
         \A x \in Context : x # opCtx[Head(execQueue).req] => open[x] = ndbOpen[x]
  PROVE  /\ Tail(execQueue) \in Seq(Call)
         /\ \A i \in DOMAIN Tail(execQueue) :
              LET c == Tail(execQueue)[i] IN
              /\ c.txIsOpen \/ c.step \notin {"exec", "scan"} => open[opCtx[c.req]]
              /\ c.step # "exec" => kind[c.req] \in Scans
              /\ opCtx[c.req] \in Context /\ impl[owner[c.req]] = opCtx[c.req]
<1>1. /\ execQueue \in Seq(Call) /\ Head(execQueue) = execQueue[1] /\ 1 \in DOMAIN execQueue
      /\ Tail(execQueue) \in Seq(Call)
      /\ \A i \in DOMAIN Tail(execQueue) : i + 1 \in DOMAIN execQueue /\ i + 1 # 1 /\ Tail(execQueue)[i] = execQueue[i + 1]
  <2>1. execQueue \in Seq(Call)
    BY Now DEF TypeOK
  <2>2. QED
    BY <2>1, TailOf
<1>2. \A i \in DOMAIN execQueue : execQueue[i] \in Call
  BY <1>1
<1>3. \A i \in DOMAIN execQueue : execQueue[i].req \in Request /\ status[execQueue[i].req] = "queued"
  BY <1>2, Now DEF Alive, QueueOK, Queued, Call
<1>4. ASSUME NEW k \in DOMAIN execQueue, k # 1, NEW c, c = execQueue[k]
      PROVE  /\ c.txIsOpen \/ c.step \notin {"exec", "scan"} => open[opCtx[c.req]]
             /\ c.step # "exec" => kind[c.req] \in Scans
             /\ opCtx[c.req] \in Context /\ impl[owner[c.req]] = opCtx[c.req]
  <2>1. c.req # execQueue[1].req
    BY <1>1, <1>4, Now DEF Alive, QueueOK, Queued
  <2>2. /\ impl[owner[c.req]] = opCtx[c.req] /\ opCtx[c.req] # None /\ opCtx[c.req] \in Context
        /\ impl[owner[execQueue[1].req]] = opCtx[execQueue[1].req]
        /\ owner[c.req] \in Handler /\ owner[execQueue[1].req] \in Handler
    BY <1>1, <1>3, <1>4, Now DEF OwnContext, TypeOK
  <2>3. owner[c.req] # owner[execQueue[1].req]
    BY <1>1, <1>3, <1>4, <2>1, Now DEF OneByOne, Active
  <2>4. opCtx[c.req] # opCtx[execQueue[1].req]
    BY <2>2, <2>3, Now DEF ExclusiveContexts
  <2>5. QED
    BY <1>1, <1>4, <2>2, <2>4, Now DEF QueueOpen
<1>5. QED
  BY <1>1, <1>4

\* The head, of request r, completes: the queue becomes q, r goes on to status v.
HeadGoes(q, open, v) ==
  /\ execQueue # <<>>
  /\ Goes(Head(execQueue).req, v)
  /\ open \in [Context -> BOOLEAN]
  /\ \A x \in Context : open[x] => ndbOpen[x]
  /\ \A x \in Context : x # opCtx[Head(execQueue).req] => open[x] = ndbOpen[x]
  /\ v # "replying" => open = ndbOpen
  /\ v = "replying" => (open[opCtx[Head(execQueue).req]] <=>
                          \/ mode'[Head(execQueue).req] = "NOCOMMIT"
                          \/ mode'[Head(execQueue).req] = "ROLLBACK" /\ kind[Head(execQueue).req] \notin Ends)
  /\ RunHead(q, open, opCtx) /\ opCtx' = opCtx
  /\ \/ q = Tail(execQueue)
     \/ \E c \in Call : /\ c.req = Head(execQueue).req /\ q = Append(Tail(execQueue), c)
                        /\ v = "queued"
                        /\ c.step # "exec" => kind[c.req] \in Scans

LEMMA HeadNow ==
  ASSUME EInv, panic = "no", execQueue # <<>>
  PROVE  /\ Head(execQueue) \in Call /\ Tail(execQueue) \in Seq(Call)
         /\ Head(execQueue).req \in Request /\ Head(execQueue).txIsOpen \in BOOLEAN
         /\ status[Head(execQueue).req] = "queued"
         /\ owner[Head(execQueue).req] \in Handler
         /\ opCtx[Head(execQueue).req] \in Context
         /\ impl[owner[Head(execQueue).req]] = opCtx[Head(execQueue).req]
         /\ ndbOpen[opCtx[Head(execQueue).req]]
         /\ Head(execQueue).step # "exec" => kind[Head(execQueue).req] \in Scans
<1>1. /\ Head(execQueue) \in Call /\ Tail(execQueue) \in Seq(Call)
      /\ Head(execQueue).req \in Request /\ Head(execQueue).txIsOpen \in BOOLEAN
      /\ status[Head(execQueue).req] = "queued"
      /\ owner[Head(execQueue).req] \in Handler
      /\ opCtx[Head(execQueue).req] \in Context
  BY Now, HeadRequest
<1>2. Head(execQueue) = execQueue[1] /\ 1 \in DOMAIN execQueue
  BY Now, TailOf DEF TypeOK
<1>3. ndbOpen[opCtx[Head(execQueue).req]] /\ (Head(execQueue).step # "exec" => kind[Head(execQueue).req] \in Scans)
  BY <1>2, Now DEF QueueOpen
<1>4. impl[owner[Head(execQueue).req]] = opCtx[Head(execQueue).req]
  BY <1>1, Now DEF OwnContext
<1>5. QED
  BY <1>1, <1>3, <1>4

LEMMA HeadGoesKeeps ==
  ASSUME EInv, panic = "no", IInv', NEW q, NEW open, NEW v, HeadGoes(q, open, v)
  PROVE  EInv'
<1> DEFINE r == Head(execQueue).req
<1>1. /\ Head(execQueue) \in Call /\ Tail(execQueue) \in Seq(Call)
      /\ r \in Request /\ opCtx[r] \in Context /\ impl[owner[r]] = opCtx[r] /\ ndbOpen[opCtx[r]]
      /\ owner[r] \in Handler
  BY HeadNow DEF HeadGoes
<1>2. Goes(r, v) /\ open \in [Context -> BOOLEAN] /\ opCtx' = opCtx /\ RunHead(q, open, opCtx)
  BY DEF HeadGoes
<1>3. OneByOne' /\ ModesOK' /\ OwnContext' /\ OutcomesOK' /\ Seizing' /\ Endings' /\ EndsAreSound'
  BY <1>1, <1>2, GoesKeeps
<1>4. UNCHANGED <<impl, owner, kind>>
  BY <1>2 DEF Goes, Moves, Frame
<1>5. /\ q \in Seq(Call)
      /\ \A i \in DOMAIN q : /\ q[i].txIsOpen \/ q[i].step \notin {"exec", "scan"} => open[opCtx[q[i].req]]
                             /\ q[i].step # "exec" => kind[q[i].req] \in Scans
                             /\ opCtx[q[i].req] \in Context /\ impl[owner[q[i].req]] = opCtx[q[i].req]
  <2>1. /\ Tail(execQueue) \in Seq(Call)
        /\ \A i \in DOMAIN Tail(execQueue) :
             LET c == Tail(execQueue)[i] IN
             /\ c.txIsOpen \/ c.step \notin {"exec", "scan"} => open[opCtx[c.req]]
             /\ c.step # "exec" => kind[c.req] \in Scans
             /\ opCtx[c.req] \in Context /\ impl[owner[c.req]] = opCtx[c.req]
    BY RestReady DEF HeadGoes
  <2>2. CASE q = Tail(execQueue)
    BY <2>1, <2>2
  <2>3. ASSUME NEW c \in Call, c.req = r, q = Append(Tail(execQueue), c), v = "queued",
               c.step # "exec" => kind[c.req] \in Scans
        PROVE  /\ q \in Seq(Call)
               /\ \A i \in DOMAIN q : /\ q[i].txIsOpen \/ q[i].step \notin {"exec", "scan"} => open[opCtx[q[i].req]]
                                      /\ q[i].step # "exec" => kind[q[i].req] \in Scans
                                      /\ opCtx[q[i].req] \in Context /\ impl[owner[q[i].req]] = opCtx[q[i].req]
    <3>1. open = ndbOpen
      BY <2>3 DEF HeadGoes
    <3>2. PICK n : n = Len(Tail(execQueue)) + 1
      OBVIOUS
    <3>3. /\ q \in Seq(Call) /\ q[n] = c
          /\ \A i \in DOMAIN q : i \in DOMAIN Tail(execQueue) \/ i = n
          /\ \A i \in DOMAIN Tail(execQueue) : q[i] = Tail(execQueue)[i]
      BY <1>1, <2>3, <3>2, AppendOf
    <3>4. ASSUME NEW i \in DOMAIN q
          PROVE  /\ q[i].txIsOpen \/ q[i].step \notin {"exec", "scan"} => open[opCtx[q[i].req]]
                 /\ q[i].step # "exec" => kind[q[i].req] \in Scans
                 /\ opCtx[q[i].req] \in Context /\ impl[owner[q[i].req]] = opCtx[q[i].req]
      <4>1. CASE i = n
        BY <1>1, <2>3, <3>1, <3>3, <4>1
      <4>2. CASE i # n
        BY <2>1, <3>3, <4>2
      <4>3. QED
        BY <4>1, <4>2
    <3>5. QED
      BY <3>3, <3>4
  <2>4. QED
    BY <2>2, <2>3 DEF HeadGoes
<1>6. Ran(q, open, opCtx)
  <2>1. Ready(q, open, opCtx)
    BY <1>5 DEF Ready
  <2>2. q # <<>> /\ Head(q).step \notin {"exec", "scan"} => impl[owner[Head(q).req]] = opCtx[Head(q).req]
    BY <1>5, TailOf
  <2>3. \A i \in DOMAIN q : opCtx[q[i].req] \in Context
    BY <1>5
  <2>4. q \in Seq(Call)
    BY <1>5
  <2>5. QED
    BY <1>2, <2>1, <2>2, <2>3, <2>4, RunsWell
<1>7. execQueue' = q
  BY <1>6 DEF Ran
<1>8. Suits(open)
  <2>1. /\ \A x \in Context : open[x] => ndbOpen[x]
        /\ \A x \in Context : x # impl[owner[r]] => open[x] = ndbOpen[x]
        /\ v \in {"fetching", "done"} => open[impl[owner[r]]]
        /\ v = "replying" => (open[impl[owner[r]]] <=> mode'[r] = "NOCOMMIT" \/ (mode'[r] = "ROLLBACK" /\ kind[r] \notin Ends))
    BY <1>1 DEF HeadGoes
  <2>2. \A i \in DOMAIN execQueue' : execQueue'[i].step # "exec" => kind[execQueue'[i].req] \in Scans
    BY <1>5, <1>7
  <2> HIDE DEF r
  <2>3. QED
    BY <1>1, <1>2, <2>1, <2>2, GoesSuits
<1>9. FreeMeansClosed' /\ NoPanic' /\ (panic' = "no" => QueueOpen' /\ Opened')
  BY <1>2, <1>3, <1>6, <1>7, <1>8, OpenedNext
<1>10. QED
  BY <1>3, <1>9 DEF EInv, Orderly

\* The head was executed.
LEMMA ExecDoneEnds ==
  ASSUME EInv, IInv', NEW ok \in BOOLEAN, ExecDone(ok)
  PROVE  EInv'
<1> DEFINE r == Head(execQueue).req
           open == IF Closes(mode[r]) THEN [ndbOpen EXCEPT ![opCtx[r]] = FALSE] ELSE ndbOpen
<1>1. panic = "no" /\ replying = None /\ execQueue # <<>>
  BY DEF ExecDone, Completes
<1>2. /\ r \in Request /\ status[r] = "queued" /\ owner[r] \in Handler /\ opCtx[r] \in Context
      /\ impl[owner[r]] = opCtx[r] /\ ndbOpen[opCtx[r]] /\ ndbOpen \in [Context -> BOOLEAN]
      /\ impl[owner[r]] # None
  BY <1>1, HeadNow, Now DEF TypeOK
<1>3. Goes(r, "replying")
  <2>1. Moves(r, "replying")
    BY <1>1, <1>2 DEF ExecDone, Moves, Frame
  <2>2. /\ AttachError(owner[r], ok) /\ work' = Decided(r, ok) /\ nativeOk' = [nativeOk EXCEPT ![r] = ok]
        /\ execCount' = execCount /\ opCtx' = opCtx /\ result' = result /\ mode' = mode
    BY DEF ExecDone
  <2>3. QED
    BY <1>2, <2>1, <2>2 DEF Goes
<1>4. mode[r] \in Mode /\ (mode[r] = "ROLLBACK" => kind[r] \in Ends)
  BY <1>1, <1>2, Now DEF Alive, RequestsOK
<1>5. /\ open \in [Context -> BOOLEAN]
      /\ \A x \in Context : open[x] => ndbOpen[x]
      /\ \A x \in Context : x # opCtx[r] => open[x] = ndbOpen[x]
      /\ open[opCtx[r]] <=> mode[r] = "NOCOMMIT"
  BY <1>2 DEF Closes
<1>6. mode' = mode /\ opCtx' = opCtx /\ RunHead(Tail(execQueue), open, opCtx)
  BY DEF ExecDone
<1>7. HeadGoes(Tail(execQueue), open, "replying")
  <2> HIDE DEF open
  <2>1. QED
    BY <1>1, <1>3, <1>4, <1>5, <1>6 DEF HeadGoes
<1>8. QED
  BY <1>1, <1>7, HeadGoesKeeps

\* A step of a scan goes to the end of the queue with call c.
LEMMA RotateEnds ==
  ASSUME EInv, IInv', NEW s, Completes(s), s # "exec",
         NEW c \in Call, c.req = Head(execQueue).req,
         RunHead(Append(Tail(execQueue), c), ndbOpen, opCtx),
         UNCHANGED <<status, replying, mode, result>>, UnchangedByScans,
         execCount' \in {execCount, [execCount EXCEPT ![owner[c.req]] = @ + 1]}
  PROVE  EInv'
<1> DEFINE r == Head(execQueue).req
<1>1. panic = "no" /\ replying = None /\ execQueue # <<>> /\ Head(execQueue).step # "exec"
  BY DEF Completes
<1>2. /\ r \in Request /\ status[r] = "queued" /\ owner[r] \in Handler /\ opCtx[r] \in Context
      /\ impl[owner[r]] = opCtx[r] /\ ndbOpen[opCtx[r]] /\ ndbOpen \in [Context -> BOOLEAN]
      /\ impl[owner[r]] # None /\ kind[r] \in Scans /\ status \in [Request -> Status]
  BY <1>1, HeadNow, Now DEF TypeOK
<1>3. Goes(r, "queued")
  <2>1. Moves(r, "queued")
    BY <1>1, <1>2 DEF UnchangedByScans, Moves, Frame
  <2>2. kind[r] \notin Ends /\ UNCHANGED <<nativeOk, work, opCtx, result, mode>>
    BY <1>2 DEF UnchangedByScans, historyVars, Scans, Ends
  <2>3. QED
    BY <1>2, <2>1, <2>2 DEF Goes
<1>4. HeadGoes(Append(Tail(execQueue), c), ndbOpen, "queued")
  <2>1. opCtx' = opCtx
    BY DEF UnchangedByScans
  <2>2. QED
    BY <1>1, <1>2, <1>3, <2>1 DEF HeadGoes
<1>5. QED
  BY <1>1, <1>4, HeadGoesKeeps

\* A scan leaves the queue.
LEMMA ScanLeaves ==
  ASSUME EInv, IInv', NEW s, Completes(s), s # "exec", NEW v \in {"fetching", "replying", "done"},
         RunHead(Tail(execQueue), ndbOpen, opCtx),
         status' = [status EXCEPT ![Head(execQueue).req] = v],
         replying' = IF v = "replying" THEN Head(execQueue).req ELSE None,
         execCount' = execCount, UnchangedByScans,
         result' = result \/ (v = "done" /\ result' = [result EXCEPT ![Head(execQueue).req] = "error"]),
         \/ mode' = mode /\ (v = "replying" => mode[Head(execQueue).req] = "NOCOMMIT")
         \/ v = "replying" /\ mode' = [mode EXCEPT ![Head(execQueue).req] = "ROLLBACK"]
  PROVE  EInv'
<1> DEFINE r == Head(execQueue).req
<1>1. panic = "no" /\ replying = None /\ execQueue # <<>> /\ Head(execQueue).step # "exec"
  BY DEF Completes
<1>2. /\ r \in Request /\ status[r] = "queued" /\ owner[r] \in Handler /\ opCtx[r] \in Context
      /\ impl[owner[r]] = opCtx[r] /\ ndbOpen[opCtx[r]] /\ ndbOpen \in [Context -> BOOLEAN]
      /\ impl[owner[r]] # None /\ kind[r] \in Scans /\ mode \in [Request -> Mode \cup {None}]
  BY <1>1, HeadNow, Now DEF TypeOK
<1>3. kind[r] \notin Ends /\ UNCHANGED <<nativeOk, work, opCtx>>
  BY <1>2 DEF UnchangedByScans, historyVars, Scans, Ends
<1>4. Goes(r, v)
  <2>1. Moves(r, v)
    BY <1>1, <1>2 DEF UnchangedByScans, Moves, Frame
  <2>2. QED
    BY <1>2, <1>3, <2>1 DEF Goes
<1>5. v = "replying" => mode'[r] = "NOCOMMIT" \/ mode'[r] = "ROLLBACK"
  BY <1>2
<1>6. HeadGoes(Tail(execQueue), ndbOpen, v)
  BY <1>1, <1>2, <1>3, <1>4, <1>5 DEF HeadGoes
<1>7. QED
  BY <1>1, <1>6, HeadGoesKeeps

LEMMA ScanEnds ==
  ASSUME EInv, IInv', Scan
  PROVE  EInv'
<1>1. ASSUME ScanStarted PROVE EInv'
  <2> DEFINE c == Head(execQueue)
             f == [c EXCEPT !.step = "fetch"]
  <2>1. Completes("scan") /\ UnchangedByScans /\ UNCHANGED <<execCount, mode, result, replying>>
    BY <1>1 DEF ScanStarted
  <2>2. panic = "no" /\ execQueue # <<>> /\ replying = None
    BY <2>1 DEF Completes
  <2>3. f \in Call /\ f.req = c.req
    BY <2>2, HeadNow DEF Call, Step
  <2>4. CASE RunHead(Append(Tail(execQueue), f), ndbOpen, opCtx) /\ UNCHANGED status
    <3> HIDE DEF f
    <3>1. QED
      BY <2>1, <2>3, <2>4, RotateEnds
  <2>5. CASE RunHead(Tail(execQueue), ndbOpen, opCtx) /\ status' = [status EXCEPT ![c.req] = "fetching"]
    BY <2>1, <2>2, <2>5, ScanLeaves
  <2>6. QED
    BY <1>1, <2>4, <2>5 DEF ScanStarted
<1>2. ASSUME ScanNotStarted PROVE EInv'
  <2>1. /\ Completes("scan") /\ UnchangedByScans /\ UNCHANGED <<execCount, mode, replying>>
        /\ RunHead(Tail(execQueue), ndbOpen, opCtx)
        /\ status' = [status EXCEPT ![Head(execQueue).req] = "done"]
        /\ result' = [result EXCEPT ![Head(execQueue).req] = "error"]
    BY <1>2 DEF ScanNotStarted
  <2>2. replying = None
    BY <2>1 DEF Completes
  <2>3. QED
    BY <2>1, <2>2, ScanLeaves
<1>3. ASSUME FetchMore PROVE EInv'
  <2>1. /\ Completes("fetch") /\ UnchangedByScans /\ UNCHANGED <<execCount, mode, status, result, replying>>
        /\ RunHead(Append(Tail(execQueue), Head(execQueue)), ndbOpen, opCtx)
    BY <1>3 DEF FetchMore
  <2>2. Head(execQueue) \in Call
    BY <2>1, HeadNow DEF Completes
  <2>3. QED
    BY <2>1, <2>2, RotateEnds
<1>4. ASSUME NEW o, FetchDone(o) PROVE EInv'
  <2> DEFINE c == Head(execQueue)
             h == owner[c.req]
             f == [c EXCEPT !.step = ClosingStep(h, o)]
  <2>1. /\ Completes("fetch") /\ UnchangedByScans /\ UNCHANGED <<execCount, mode, status, result, replying>>
        /\ RunHead(Append(Tail(execQueue), f), ndbOpen, opCtx)
    BY <1>4 DEF FetchDone
  <2>2. c \in Call
    BY <2>1, HeadNow DEF Completes
  <2>3. ClosingStep(h, o) \in Step
    <3>1. CASE o = "end"
      BY <3>1 DEF ClosingStep, Step
    <3>2. CASE o # "end" /\ o = "timeout" /\ retries[h] < MaxRetries
      BY <3>2 DEF ClosingStep, Step
    <3>3. CASE o # "end" /\ ~(o = "timeout" /\ retries[h] < MaxRetries)
      BY <3>3 DEF ClosingStep, Step
    <3>4. QED
      BY <3>1, <3>2, <3>3
  <2>4. f \in Call /\ f.req = c.req
    BY <2>2, <2>3 DEF Call
  <2> HIDE DEF f
  <2>5. QED
    BY <2>1, <2>4, RotateEnds
<1>5. ASSUME ScanClosed PROVE EInv'
  <2> DEFINE c == Head(execQueue)
             r == c.req
             h == owner[r]
             f == NewCall(r, "exec", execCount[h] >= 1)
  <2>1. /\ Completes("closeSuccess") /\ UnchangedByScans /\ UNCHANGED <<mode, result>>
    BY <1>5 DEF ScanClosed
  <2>2. panic = "no" /\ execQueue # <<>> /\ replying = None
    BY <2>1 DEF Completes
  <2>3. f \in Call /\ f.req = r
    BY <2>2, HeadNow DEF NewCall, Call, Step
  <2>4. CASE mode[r] = "NOCOMMIT"
    <3>1. /\ RunHead(Tail(execQueue), ndbOpen, opCtx) /\ execCount' = execCount
          /\ status' = [status EXCEPT ![r] = "replying"] /\ replying' = r
      BY <1>5, <2>4 DEF ScanClosed
    <3>2. QED
      BY <2>1, <2>4, <3>1, ScanLeaves
  <2>5. CASE mode[r] # "NOCOMMIT"
    <3>1. /\ execCount' = [execCount EXCEPT ![h] = @ + 1]
          /\ RunHead(Append(Tail(execQueue), f), ndbOpen, opCtx)
          /\ UNCHANGED <<status, replying>>
      BY <1>5, <2>5 DEF ScanClosed
    <3> HIDE DEF f
    <3>2. QED
      BY <2>1, <2>3, <3>1, RotateEnds
  <2>6. QED
    BY <2>4, <2>5
<1>6. ASSUME ScanRetried PROVE EInv'
  <2> DEFINE c == Head(execQueue)
             h == owner[c.req]
             f == NewCall(c.req, "scan", execCount[h] >= 1)
  <2>1. /\ Completes("closeRetry") /\ UnchangedByScans /\ UNCHANGED <<mode, status, result, replying>>
        /\ execCount' = [execCount EXCEPT ![h] = @ + 1]
        /\ RunHead(Append(Tail(execQueue), f), ndbOpen, opCtx)
    BY <1>6 DEF ScanRetried
  <2>2. f \in Call /\ f.req = c.req
    BY <2>1, HeadNow DEF Completes, NewCall, Call, Step
  <2> HIDE DEF f
  <2>3. QED
    BY <2>1, <2>2, RotateEnds
<1>7. ASSUME ScanFailed PROVE EInv'
  <2>1. /\ Completes("closeError") /\ UnchangedByScans /\ UNCHANGED <<execCount, result>>
        /\ RunHead(Tail(execQueue), ndbOpen, opCtx)
        /\ mode' = [mode EXCEPT ![Head(execQueue).req] = "ROLLBACK"]
        /\ status' = [status EXCEPT ![Head(execQueue).req] = "replying"]
        /\ replying' = Head(execQueue).req
    BY <1>7 DEF ScanFailed
  <2>2. QED
    BY <2>1, ScanLeaves
<1>8. QED
  BY <1>1, <1>2, <1>3, <1>4, <1>5, <1>6, <1>7 DEF Scan

-----------------------------------------------------------------------------
(* Calls that come to execQueue.                                           *)

\* A call of a request that is not on execQueue is enqueued.
LEMMA EnqueueRan ==
  ASSUME EInv, panic = "no", NEW c \in Call, status[c.req] # "queued", NEW ctx,
         \A s \in Request : s # c.req => ctx[s] = opCtx[s],
         ctx[c.req] \in Context,
         c.txIsOpen \/ c.step \notin {"exec", "scan"} => ndbOpen[ctx[c.req]],
         c.step \notin {"exec", "scan"} => impl[owner[c.req]] = ctx[c.req],
         Enqueue(c, ctx)
  PROVE  /\ Ran(execQueue', ndbOpen, ctx)
         /\ \A i \in DOMAIN execQueue' : execQueue'[i] = c \/ \E j \in DOMAIN execQueue : execQueue'[i] = execQueue[j]
<1>1. execQueue \in Seq(Call) /\ ndbOpen \in [Context -> BOOLEAN]
  BY Now DEF TypeOK
<1>2. \A i \in DOMAIN execQueue : /\ execQueue[i] \in Call
                                  /\ execQueue[i].req \in Request /\ status[execQueue[i].req] = "queued"
  <2>1. \A i \in DOMAIN execQueue : execQueue[i] \in Call
    BY <1>1
  <2>2. \A i \in DOMAIN execQueue : status[execQueue[i].req] = "queued"
    BY Now DEF Alive, QueueOK, Queued
  <2>3. QED
    BY <2>1, <2>2 DEF Call
<1>3. \A i \in DOMAIN execQueue : ctx[execQueue[i].req] = opCtx[execQueue[i].req]
  BY <1>2
<1>4. /\ \A i \in DOMAIN execQueue : i = 1 => ndbOpen[ctx[execQueue[i].req]]
      /\ Ready(execQueue, ndbOpen, ctx)
  BY <1>3, Now DEF QueueOpen, Ready
<1>5. Ready(<<c>>, ndbOpen, ctx)
  BY DEF Ready
<1>6. Ran(Append(execQueue, c), ndbOpen, ctx)
  BY <1>1, <1>4, <1>5, EnqueuesWell
<1>7. execQueue' = Append(execQueue, c)
  BY <1>6 DEF Ran
<1>8. \A i \in DOMAIN execQueue' : execQueue'[i] = c \/ \E j \in DOMAIN execQueue : execQueue'[i] = execQueue[j]
  <2>1. PICK n : n = Len(execQueue) + 1
    OBVIOUS
  <2>2. /\ Append(execQueue, c)[n] = c
        /\ \A i \in DOMAIN Append(execQueue, c) : i \in DOMAIN execQueue \/ i = n
        /\ \A i \in DOMAIN execQueue : Append(execQueue, c)[i] = execQueue[i]
    BY <1>1, <2>1, AppendOf
  <2>3. QED
    BY <1>7, <2>2
<1>9. QED
  BY <1>6, <1>7, <1>8

\* A request that was not on execQueue goes there.
LEMMA EnqueueGoes ==
  ASSUME EInv, panic = "no", IInv', NEW r \in Request, status[r] # "queued", Goes(r, "queued"),
         NEW c \in Call, c.req = r, Enqueue(c, opCtx'),
         c.txIsOpen \/ c.step \notin {"exec", "scan"} => ndbOpen[impl[owner[r]]],
         c.step # "exec" => kind[r] \in Scans
  PROVE  EInv'
<1>1. owner[r] \in Handler /\ impl[owner[r]] # None
  BY GoesFacts
<1>2. /\ \A s \in Request \ {r} : opCtx'[s] = opCtx[s]
      /\ opCtx'[r] = impl[owner[r]] /\ impl[owner[r]] \in Context
      /\ ndbOpen \in [Context -> BOOLEAN]
  BY <1>1, Now DEF Goes, TypeOK
<1>3. /\ Ran(execQueue', ndbOpen, opCtx')
      /\ \A i \in DOMAIN execQueue' : execQueue'[i] = c \/ \E j \in DOMAIN execQueue : execQueue'[i] = execQueue[j]
  <2>1. PICK ctx : ctx = opCtx'
    OBVIOUS
  <2>2. /\ \A s \in Request : s # c.req => ctx[s] = opCtx[s]
        /\ ctx[c.req] \in Context /\ Enqueue(c, ctx)
        /\ c.txIsOpen \/ c.step \notin {"exec", "scan"} => ndbOpen[ctx[c.req]]
        /\ impl[owner[c.req]] = ctx[c.req]
    BY <1>2, <2>1
  <2>3. QED
    BY <2>1, <2>2, EnqueueRan
<1>4. OneByOne' /\ ModesOK' /\ OwnContext' /\ OutcomesOK' /\ Seizing' /\ Endings' /\ EndsAreSound'
  BY GoesKeeps
<1>5. \A i \in DOMAIN execQueue' : execQueue'[i].step # "exec" => kind[execQueue'[i].req] \in Scans
  BY <1>3, Now DEF QueueOpen
<1>6. Suits(ndbOpen)
  BY <1>2, <1>5, GoesSuits
<1>7. FreeMeansClosed' /\ NoPanic' /\ (panic' = "no" => QueueOpen' /\ Opened')
  BY <1>2, <1>3, <1>4, <1>6, OpenedNext
<1>8. QED
  BY <1>4, <1>7 DEF EInv, Orderly

LEMMA AutoIncDoneEnds ==
  ASSUME EInv, IInv', NEW r \in Request, AutoIncDone(r)
  PROVE  EInv'
<1>1. panic = "no" /\ replying = None /\ status[r] = "autoInc"
  BY DEF AutoIncDone
<1>2. impl[owner[r]] # None /\ kind[r] \notin Ends /\ Active(r) /\ owner[r] \in Handler
  BY <1>1, Now DEF OwnContext, ModesOK, Active
<1>3. PICK c : c = NewCall(r, "exec", execCount[owner[r]] >= 1)
  OBVIOUS
<1>4. /\ Send(r, owner[r], "exec", impl[owner[r]], status)
      /\ UNCHANGED <<created, autocommit, sentSeizeImpl, impl, retries, txError, tx,
                 seizeTxQueue, openTxContexts, freeList, allocated, owner, kind,
                 mode, result, replying, historyVars>>
  BY <1>2 DEF AutoIncDone
<1>5. /\ status' = [status EXCEPT ![r] = "queued"]
      /\ execCount' = [execCount EXCEPT ![owner[r]] = @ + 1]
      /\ opCtx' = [opCtx EXCEPT ![r] = impl[owner[r]]]
      /\ Enqueue(c, opCtx')
  BY <1>3, <1>4 DEF Send
<1>6. Goes(r, "queued")
  <2>1. Moves(r, "queued")
    BY <1>1, <1>2, <1>4, <1>5 DEF Moves, Frame
  <2>2. opCtx'[r] = impl[owner[r]] /\ \A s \in Request \ {r} : opCtx'[s] = opCtx[s]
    <3>1. opCtx \in [Request -> Context \cup {None}]
      BY <1>1, Now DEF TypeOK
    <3>2. QED
      BY <1>5, <3>1
  <2>3. QED
    BY <1>2, <1>4, <1>5, <2>1, <2>2 DEF Goes, historyVars
<1>7. c.txIsOpen => ndbOpen[impl[owner[r]]]
  <2>1. c.txIsOpen => execCount[owner[r]] # 0
    <3>1. execCount[owner[r]] \in Nat
      BY <1>1, <1>2, Now DEF TypeOK
    <3>2. c.txIsOpen = (execCount[owner[r]] >= 1)
      BY <1>3, Zenon DEF NewCall
    <3>3. execCount[owner[r]] >= 1 => execCount[owner[r]] # 0
      BY <3>1
    <3>4. QED
      BY <3>2, <3>3, Zenon
  <2>2. \A s \in Unanswered(owner[r]) : status[s] = "autoInc"
    BY <1>1, <1>2, Now DEF Unanswered, OneByOne, Active
  <2>3. QED
    <3>1. Opened
      BY <1>1, Now
    <3>2. QED
      BY <1>2, <2>1, <2>2, <3>1 DEF Opened
<1>8. c \in Call /\ c.req = r /\ c.step = "exec"
  BY <1>3 DEF NewCall, Call, Step
<1>9. QED
  BY <1>1, <1>5, <1>6, <1>7, <1>8, EnqueueGoes

LEMMA QueryDoneEnds ==
  ASSUME EInv, IInv', NEW r \in Request, NEW o, QueryDone(r, o)
  PROVE  EInv'
<1>1. panic = "no" /\ replying = None /\ status[r] = "fetching"
  BY DEF QueryDone
<1>2. /\ impl[owner[r]] # None /\ opCtx[r] = impl[owner[r]] /\ ndbOpen[opCtx[r]]
      /\ kind[r] \in Scans /\ kind[r] \notin Ends /\ owner[r] \in Handler
  BY <1>1, Now DEF OwnContext, ModesOK, Opened, Scans, Ends
<1>3. PICK c : c = NewCall(r, ClosingStep(owner[r], o), TRUE)
  OBVIOUS
<1>4. /\ Enqueue(c, opCtx) /\ status' = [status EXCEPT ![r] = "queued"]
      /\ UNCHANGED <<execCount, txError, mode, result, replying>> /\ UnchangedByScans
  BY <1>2, <1>3 DEF QueryDone
<1>5. ClosingStep(owner[r], o) \in Step
  <2>1. CASE o = "end"
    BY <2>1 DEF ClosingStep, Step
  <2>2. CASE o # "end" /\ o = "timeout" /\ retries[owner[r]] < MaxRetries
    BY <2>2 DEF ClosingStep, Step
  <2>3. CASE o # "end" /\ ~(o = "timeout" /\ retries[owner[r]] < MaxRetries)
    BY <2>3 DEF ClosingStep, Step
  <2>4. QED
    BY <2>1, <2>2, <2>3
<1>6. c \in Call /\ c.req = r
  BY <1>3, <1>5 DEF NewCall, Call
<1>7. Goes(r, "queued")
  <2>1. Moves(r, "queued")
    BY <1>1, <1>2, <1>4 DEF Moves, Frame, UnchangedByScans
  <2>2. QED
    BY <1>2, <1>4, <2>1 DEF Goes, UnchangedByScans, historyVars
<1>8. Enqueue(c, opCtx')
  BY <1>4 DEF UnchangedByScans
<1>9. QED
  BY <1>1, <1>2, <1>6, <1>7, <1>8, EnqueueGoes

\* Nothing runs: the queue is as it was.
LEMMA Still ==
  ASSUME EInv, panic = "no", UNCHANGED <<execQueue, ndbOpen, panic>>, NEW ctx,
         \A i \in DOMAIN execQueue : ctx[execQueue[i].req] = opCtx[execQueue[i].req]
  PROVE  Ran(execQueue', ndbOpen, ctx)
BY Now DEF Ran, QueueOpen

\* The calls of the queue after request r, of kind k, came to it.
Joined(r, k) ==
  \A i \in DOMAIN execQueue' :
    \/ execQueue'[i].req = r /\ (execQueue'[i].step # "exec" => k \in Scans)
    \/ \E j \in DOMAIN execQueue : execQueue'[i] = execQueue[j]

\* Request r of handler h is sent on its open context c, or as its first call.
LEMMA SendRan ==
  ASSUME EInv, panic = "no", NEW r \in Request, status[r] # "queued", NEW h \in Handler, NEW st, NEW k,
         NEW step \in {"exec", "scan"}, step = "scan" => k \in Scans, NEW c \in Context,
         execCount[h] # 0 => ndbOpen[c], Send(r, h, step, c, st)
  PROVE  Ran(execQueue', ndbOpen, opCtx') /\ Joined(r, k)
<1>1. PICK call : call = NewCall(r, step, execCount[h] >= 1)
  OBVIOUS
<1>2. execCount[h] \in Nat /\ opCtx \in [Request -> Context \cup {None}]
  BY Now DEF TypeOK
<1>3. call \in Call /\ call.req = r /\ call.step = step
  BY <1>1, <1>2 DEF NewCall, Call, Step
<1>4. call.txIsOpen = (execCount[h] >= 1)
  BY <1>1, Zenon DEF NewCall
<1>5. execCount[h] >= 1 => execCount[h] # 0
  BY <1>2
<1>6. call.txIsOpen => ndbOpen[c]
  BY <1>4, <1>5, Zenon
<1>7. opCtx' = [opCtx EXCEPT ![r] = c] /\ Enqueue(call, opCtx')
  BY <1>1 DEF Send
<1>8. opCtx'[r] = c /\ \A s \in Request : s # r => opCtx'[s] = opCtx[s]
  BY <1>2, <1>7
<1>9. PICK ctx : ctx = opCtx'
  OBVIOUS
<1>10. /\ Ran(execQueue', ndbOpen, ctx)
       /\ \A i \in DOMAIN execQueue' : execQueue'[i] = call \/ \E j \in DOMAIN execQueue : execQueue'[i] = execQueue[j]
  <2>1. /\ \A s \in Request : s # call.req => ctx[s] = opCtx[s]
        /\ ctx[call.req] \in Context /\ status[call.req] # "queued"
        /\ call.txIsOpen \/ call.step \notin {"exec", "scan"} => ndbOpen[ctx[call.req]]
        /\ call.step \notin {"exec", "scan"} => impl[owner[call.req]] = ctx[call.req]
        /\ Enqueue(call, ctx)
    BY <1>3, <1>6, <1>7, <1>8, <1>9
  <2>2. QED
    BY <1>3, <2>1, EnqueueRan
<1>11. QED
  BY <1>3, <1>9, <1>10 DEF Joined

\* executeSpecific with a context c that suits the handler.
LEMMA SpecificRan ==
  ASSUME EInv, panic = "no", NEW r \in Request, status[r] # "queued", NEW h \in Handler, NEW st,
         NEW k, NEW c \in Context, execCount[h] # 0 => ndbOpen[c],
         ExecuteSpecific(r, h, k, c, st)
  PROVE  /\ Ran(execQueue', ndbOpen, opCtx') /\ Joined(r, k)
         /\ \/ /\ k = "autoInc" /\ status' = [st EXCEPT ![r] = "autoInc"]
               /\ UNCHANGED <<execCount, opCtx>>
            \/ /\ status' = [st EXCEPT ![r] = "queued"]
               /\ execCount' = [execCount EXCEPT ![h] = @ + 1] /\ opCtx' = [opCtx EXCEPT ![r] = c]
<1>1. c # None
  BY ConstantsOK
<1>2. CASE k = "autoInc"
  <2>1. /\ status' = [st EXCEPT ![r] = "autoInc"]
        /\ UNCHANGED <<execQueue, ndbOpen, execCount, opCtx, panic>>
    BY <1>2 DEF ExecuteSpecific
  <2>2. Ran(execQueue', ndbOpen, opCtx')
    BY <2>1, Still
  <2>3. QED
    BY <1>2, <2>1, <2>2 DEF Joined
<1>3. CASE k # "autoInc"
  <2>1. Send(r, h, FirstStep(k), c, st)
    BY <1>1, <1>3 DEF ExecuteSpecific
  <2>2. FirstStep(k) \in {"exec", "scan"} /\ (FirstStep(k) = "scan" => k \in Scans)
    BY DEF FirstStep, Scans
  <2>3. Ran(execQueue', ndbOpen, opCtx') /\ Joined(r, k)
    BY <2>1, <2>2, SendRan
  <2>4. QED
    BY <2>1, <2>3 DEF Send
<1>4. QED
  BY <1>2, <1>3

-----------------------------------------------------------------------------
(* The user's calls.                                                       *)

\* Request r of kind k comes with handler h, which has no call in progress and whose
\* transaction is not over, and gets status v.
Comes(r, h, k, v) ==
  /\ status[r] = "new" /\ h \in Handler /\ k \in Kinds \cup Ends
  /\ \A s \in Request : owner[s] = h => status[s] = "done" /\ ~Closer(s)
  /\ owner' = [owner EXCEPT ![r] = h] /\ kind' = [kind EXCEPT ![r] = k] /\ status' = [status EXCEPT ![r] = v]
  /\ v \in {"seizing", "autoInc", "queued", "done"}
  /\ \A s \in Request \ {r} : /\ mode'[s] = mode[s] /\ opCtx'[s] = opCtx[s]
                              /\ result'[s] = result[s] /\ nativeOk'[s] = nativeOk[s]
  /\ UNCHANGED <<autocommit, txError, work>>
  /\ autocommit[h] \/ k \in Ends => mode'[r] # "NOCOMMIT"
  /\ mode'[r] = "ROLLBACK" => k \in Ends
  /\ v # "done" => result'[r] = result[r]
  /\ v = "done" => k \in Ends /\ nativeOk'[r] /\ impl'[h] = None /\ \A s \in Request : owner[s] # h
  /\ v = "queued" => impl'[h] # None /\ opCtx'[r] = impl'[h]
  /\ v = "autoInc" => impl'[h] # None /\ k \notin Ends
  /\ v # "queued" => execCount'[h] = execCount[h]
  /\ v = "seizing" => execCount[h] = 0 /\ seizeTxQueue' = Append(seizeTxQueue, r)
  /\ v # "seizing" => seizeTxQueue' = seizeTxQueue
  /\ \A g \in Handler \ {h} : /\ execCount'[g] = execCount[g] /\ impl'[g] = impl[g]
                              /\ sentSeizeImpl'[g] = sentSeizeImpl[g]
  /\ execCount[h] # 0 => impl'[h] # None /\ ndbOpen[impl'[h]]
  /\ ~sentSeizeImpl'[h] => ~sentSeizeImpl[h] /\ k \in Ends /\ v # "queued"
  /\ sentSeizeImpl'[h] /\ impl'[h] = None => v = "seizing"
  /\ \A g \in created' : g # tx' => (g \in created /\ g # tx) \/ (g = h /\ (autocommit[h] \/ k \in Ends))
  /\ freeList' \subseteq freeList

LEMMA ComesFacts ==
  ASSUME EInv, panic = "no", NEW r \in Request, NEW h, NEW k, NEW v, Comes(r, h, k, v)
  PROVE  /\ owner[r] = None /\ owner'[r] = h /\ kind'[r] = k /\ status'[r] = v /\ h # None
         /\ \A s \in Request \ {r} : owner'[s] = owner[s] /\ kind'[s] = kind[s] /\ status'[s] = status[s]
         /\ \A s \in Request \ {r} : Closer(s)' <=> Closer(s)
         /\ Closer(r)' <=> autocommit[h] \/ k \in Ends
         /\ result[r] = None /\ work[r] = None
         /\ ~Closer(r)
<1>1. owner[r] = None /\ result[r] = None /\ work[r] = None /\ h # None
  BY Now DEF Comes, OutcomesOK
<1>2. /\ owner'[r] = h /\ kind'[r] = k /\ status'[r] = v
      /\ \A s \in Request \ {r} : owner'[s] = owner[s] /\ kind'[s] = kind[s] /\ status'[s] = status[s]
  BY Now DEF Comes, TypeOK
<1>3. autocommit' = autocommit
  BY DEF Comes
<1>4. QED
  BY <1>1, <1>2, <1>3 DEF Closer

LEMMA ComesKeeps ==
  ASSUME EInv, panic = "no", NEW r \in Request, NEW h, NEW k, NEW v, Comes(r, h, k, v)
  PROVE  OneByOne' /\ ModesOK' /\ OwnContext' /\ OutcomesOK' /\ EndsAreSound' /\ Seizing' /\ Endings'
<1>1. /\ owner[r] = None /\ owner'[r] = h /\ kind'[r] = k /\ status'[r] = v /\ h # None
      /\ \A s \in Request \ {r} : owner'[s] = owner[s] /\ kind'[s] = kind[s] /\ status'[s] = status[s]
      /\ \A s \in Request \ {r} : Closer(s)' <=> Closer(s)
      /\ Closer(r)' <=> autocommit[h] \/ k \in Ends
      /\ result[r] = None /\ work[r] = None
  BY ComesFacts
<1>2. /\ status[r] = "new" /\ h \in Handler /\ k \in Kinds \cup Ends
      /\ v \in {"seizing", "autoInc", "queued", "done"}
      /\ \A s \in Request : owner[s] = h => status[s] = "done" /\ ~Closer(s)
      /\ \A s \in Request \ {r} : /\ mode'[s] = mode[s] /\ opCtx'[s] = opCtx[s]
                                  /\ result'[s] = result[s] /\ nativeOk'[s] = nativeOk[s]
      /\ UNCHANGED <<autocommit, txError, work>>
  BY DEF Comes
<1>3. OneByOne'
  <2>1. ASSUME NEW s \in Request, NEW t \in Request, Active(s)', Active(t)', owner'[s] = owner'[t], s # t
        PROVE  FALSE
    BY <1>1, <1>2, <2>1, Now DEF OneByOne, Active
  <2>2. ASSUME NEW s \in Request, NEW t \in Request, Closer(s)', owner'[t] = owner'[s], t # s
        PROVE  status'[t] = "done"
    BY <1>1, <1>2, <2>2, Now DEF OneByOne
  <2>3. QED
    BY <2>1, <2>2 DEF OneByOne
<1>4. ModesOK'
  <2>1. ASSUME NEW s \in Request
        PROVE  /\ Closer(s)' => mode'[s] # "NOCOMMIT"
               /\ mode'[s] = "ROLLBACK" => kind'[s] \in Ends \cup Scans
               /\ status'[s] = "fetching" => kind'[s] \in Scans
               /\ status'[s] = "autoInc" => kind'[s] \notin Ends
    <3>1. CASE s = r
      BY <1>1, <1>2, <3>1 DEF Comes
    <3>2. CASE s # r
      BY <1>1, <1>2, <3>2, Now DEF ModesOK
    <3>3. QED
      BY <3>1, <3>2
  <2>2. QED
    BY <2>1 DEF ModesOK
<1>5. OwnContext'
  <2>1. ASSUME NEW s \in Request
        PROVE  /\ status'[s] \in {"queued", "fetching", "replying"} => impl'[owner'[s]] # None /\ opCtx'[s] = impl'[owner'[s]]
               /\ status'[s] = "autoInc" => impl'[owner'[s]] # None
    <3>1. CASE s = r
      BY <1>1, <1>2, <3>1 DEF Comes
    <3>2. CASE s # r
      <4>1. status[s] \in {"queued", "fetching", "replying", "autoInc"} => owner[s] \in Handler \ {h}
        BY <1>2, Now
      <4>2. owner[s] \in Handler \ {h} => impl'[owner[s]] = impl[owner[s]]
        BY DEF Comes
      <4>3. QED
        BY <1>1, <1>2, <3>2, <4>1, <4>2, Now DEF OwnContext
    <3>3. QED
      BY <3>1, <3>2
  <2>2. QED
    BY <2>1 DEF OwnContext
<1>6. \A s, t \in Request : kind'[s] \in Ends /\ status'[s] \in {"replying", "done"} /\ owner'[t] = owner'[s] => work'[t] # "pending"
  <2> SUFFICES ASSUME NEW s \in Request, NEW t \in Request, kind'[s] \in Ends, status'[s] \in {"replying", "done"},
                      owner'[t] = owner'[s], work[t] = "pending"
               PROVE  FALSE
    BY <1>2
  <2>1. t # r
    BY <1>1, ConstantsOK
  <2>2. CASE s = r
    BY <1>1, <2>1, <2>2 DEF Comes
  <2>3. CASE s # r
    BY <1>1, <2>1, <2>3, Now DEF OutcomesOK
  <2>4. QED
    BY <2>2, <2>3
<1>7. OutcomesOK'
  <2>1. ASSUME NEW s \in Request
        PROVE  /\ status'[s] # "done" => result'[s] = None
               /\ work'[s] # None => status'[s] \in {"replying", "done"} /\ kind'[s] \notin Ends
               /\ kind'[s] \in Ends /\ status'[s] = "replying" /\ ~txError'[owner'[s]] => nativeOk'[s]
    <3>1. CASE s = r
      BY <1>1, <1>2, <3>1 DEF Comes
    <3>2. CASE s # r
      BY <1>1, <1>2, <3>2, Now DEF OutcomesOK
    <3>3. QED
      BY <3>1, <3>2
  <2>2. QED
    BY <1>6, <2>1 DEF OutcomesOK
<1>8. EndsAreSound'
  <2>1. ASSUME NEW s \in Request, kind'[s] \in Ends, status'[s] = "done", NEW t \in Request, owner'[t] = owner'[s]
        PROVE  status'[t] = "done" /\ work'[t] # "pending"
    <3>1. Closer(s)'
      <4>1. owner'[s] # None
        BY <1>1, <2>1, Now
      <4>2. QED
        BY <2>1, <4>1 DEF Closer
    <3>2. QED
      BY <1>3, <1>6, <2>1, <3>1 DEF OneByOne
  <2>2. ASSUME NEW s \in Request, kind'[s] = "commit", result'[s] = "ok" PROVE nativeOk'[s]
    <3>1. CASE s = r
      BY <1>1, <2>2, <3>1, ConstantsOK DEF Comes
    <3>2. CASE s # r
      BY <1>1, <1>2, <2>2, <3>2, Now DEF EndsAreSound, SuccessIsReal
    <3>3. QED
      BY <3>1, <3>2
  <2>3. QED
    BY <2>1, <2>2 DEF EndsAreSound, EndCoversWork, SuccessIsReal
<1>9. Seizing'
  <2>1. \A i \in DOMAIN seizeTxQueue : /\ seizeTxQueue[i] \in Request \ {r} /\ owner[seizeTxQueue[i]] # h
                                       /\ owner'[seizeTxQueue[i]] = owner[seizeTxQueue[i]]
    <3>1. \A i \in DOMAIN seizeTxQueue : seizeTxQueue[i] \in Request /\ status[seizeTxQueue[i]] = "seizing"
      BY Now DEF TypeOK, Alive, WaitersOK
    <3>2. QED
      BY <1>1, <1>2, <3>1
  <2>2. /\ \A i \in DOMAIN seizeTxQueue' : (i \in DOMAIN seizeTxQueue /\ seizeTxQueue'[i] = seizeTxQueue[i])
                                           \/ (seizeTxQueue'[i] = r /\ v = "seizing")
        /\ \A i \in DOMAIN seizeTxQueue : i \in DOMAIN seizeTxQueue' /\ seizeTxQueue'[i] = seizeTxQueue[i]
        /\ v = "seizing" => \E i \in DOMAIN seizeTxQueue' : seizeTxQueue'[i] = r
    <3>1. CASE v = "seizing"
      <4>1. seizeTxQueue' = Append(seizeTxQueue, r) /\ seizeTxQueue \in Seq(Request)
        BY <3>1, Now DEF Comes, TypeOK
      <4>2. PICK n : n = Len(seizeTxQueue) + 1
        OBVIOUS
      <4>3. /\ seizeTxQueue'[n] = r /\ n \in DOMAIN seizeTxQueue'
            /\ \A i \in DOMAIN seizeTxQueue' : i \in DOMAIN seizeTxQueue \/ i = n
            /\ \A i \in DOMAIN seizeTxQueue : seizeTxQueue'[i] = seizeTxQueue[i] /\ i \in DOMAIN seizeTxQueue'
        BY <4>1, <4>2, AppendOf
      <4>4. QED
        BY <3>1, <4>3
    <3>2. CASE v # "seizing"
      BY <3>2 DEF Comes
    <3>3. QED
      BY <3>1, <3>2
  <2>3. ASSUME NEW g \in Handler
        PROVE  /\ ~sentSeizeImpl'[g] => execCount'[g] = 0 /\ \A s \in Request : owner'[s] = g => kind'[s] \in Ends
               /\ \A i \in DOMAIN seizeTxQueue' : owner'[seizeTxQueue'[i]] = g => execCount'[g] = 0
               /\ sentSeizeImpl'[g] /\ impl'[g] = None =>
                    \/ \E i \in DOMAIN seizeTxQueue' : owner'[seizeTxQueue'[i]] = g
                    \/ \E s \in Request : Closer(s)' /\ owner'[s] = g /\ status'[s] = "done"
    <3>1. CASE g = h
      <4>1. ~sentSeizeImpl'[h] => execCount'[h] = 0 /\ \A s \in Request : owner'[s] = h => kind'[s] \in Ends
        <5>1. ~sentSeizeImpl'[h] => ~sentSeizeImpl[h] /\ k \in Ends /\ execCount'[h] = execCount[h]
          BY DEF Comes
        <5>2. QED
          BY <1>1, <1>2, <5>1, Now DEF Seizing
      <4>2. \A i \in DOMAIN seizeTxQueue' : owner'[seizeTxQueue'[i]] = h => execCount'[h] = 0
        <5>1. v = "seizing" => execCount'[h] = 0
          BY DEF Comes
        <5>2. QED
          BY <2>1, <2>2, <5>1
      <4>3. sentSeizeImpl'[h] /\ impl'[h] = None => \E i \in DOMAIN seizeTxQueue' : owner'[seizeTxQueue'[i]] = h
        <5>1. sentSeizeImpl'[h] /\ impl'[h] = None => v = "seizing"
          BY DEF Comes
        <5>2. QED
          BY <1>1, <2>2, <5>1
      <4>4. QED
        BY <3>1, <4>1, <4>2, <4>3
    <3>2. CASE g # h
      <4>1. execCount'[g] = execCount[g] /\ impl'[g] = impl[g] /\ sentSeizeImpl'[g] = sentSeizeImpl[g]
        BY <3>2 DEF Comes
      <4>2. \A i \in DOMAIN seizeTxQueue' : owner'[seizeTxQueue'[i]] = g =>
              i \in DOMAIN seizeTxQueue /\ owner[seizeTxQueue[i]] = g
        BY <1>1, <2>1, <2>2, <3>2
      <4>3. \A i \in DOMAIN seizeTxQueue : owner[seizeTxQueue[i]] = g =>
              i \in DOMAIN seizeTxQueue' /\ owner'[seizeTxQueue'[i]] = g
        BY <2>1, <2>2
      <4>4. \A s \in Request : owner'[s] = g => s # r /\ owner[s] = g /\ kind'[s] = kind[s]
        BY <1>1, <3>2
      <4>5. \A s \in Request : Closer(s) /\ owner[s] = g /\ status[s] = "done" =>
              Closer(s)' /\ owner'[s] = g /\ status'[s] = "done"
        BY <1>1, <1>2
      <4>6. QED
        BY <4>1, <4>2, <4>3, <4>4, <4>5, Now DEF Seizing
    <3>3. QED
      BY <3>1, <3>2
  <2>4. QED
    BY <2>3 DEF Seizing
<1>10. Endings'
  <2>1. ASSUME NEW g \in created', g # tx' PROVE \E s \in Request : Closer(s)' /\ owner'[s] = g
    <3>1. CASE g \in created /\ g # tx
      <4>1. PICK s \in Request : Closer(s) /\ owner[s] = g
        BY <3>1, Now DEF Endings
      <4>2. s # r
        BY <1>1, <4>1 DEF Closer
      <4>3. QED
        BY <1>1, <4>1, <4>2
    <3>2. CASE g = h /\ (autocommit[h] \/ k \in Ends)
      BY <1>1, <3>2
    <3>3. QED
      BY <2>1, <3>1, <3>2 DEF Comes
  <2>2. ASSUME NEW s \in Request, Closer(s)', status'[s] = "done", impl'[owner'[s]] # None
        PROVE  NeverStarted(owner[s])'
    <3>1. s # r
      BY <1>1, <2>2 DEF Comes
    <3>2. Closer(s) /\ status[s] = "done" /\ owner'[s] = owner[s]
      BY <1>1, <2>2, <3>1
    <3>3. owner[s] \in Handler \ {h}
      BY <1>2, <3>2, Now
    <3>4. impl[owner[s]] # None
      BY <2>2, <3>2, <3>3 DEF Comes
    <3>5. PICK t \in Request : /\ owner[t] = owner[s] /\ kind[t] \in Scans /\ mode[t] = "COMMIT"
                               /\ status[t] = "done" /\ work[t] = None
      BY <3>2, <3>4, Now DEF Endings, NeverStarted
    <3>6. t # r
      BY <1>2, <3>5
    <3>7. QED
      BY <1>1, <1>2, <3>2, <3>5, <3>6 DEF NeverStarted
  <2>3. QED
    BY <2>1, <2>2 DEF Endings
<1>11. QED
  BY <1>3, <1>4, <1>5, <1>7, <1>8, <1>9, <1>10

LEMMA ComesEnds ==
  ASSUME EInv, panic = "no", IInv', NEW r \in Request, NEW h, NEW k, NEW v, Comes(r, h, k, v),
         Ran(execQueue', ndbOpen, opCtx'), Joined(r, k)
  PROVE  EInv'
<1>1. /\ owner[r] = None /\ owner'[r] = h /\ kind'[r] = k /\ status'[r] = v /\ h # None
      /\ \A s \in Request \ {r} : owner'[s] = owner[s] /\ kind'[s] = kind[s] /\ status'[s] = status[s]
  BY ComesFacts
<1>2. /\ status[r] = "new" /\ v \in {"seizing", "autoInc", "queued", "done"} /\ h \in Handler
      /\ \A s \in Request \ {r} : mode'[s] = mode[s] /\ opCtx'[s] = opCtx[s]
      /\ \A g \in Handler \ {h} : execCount'[g] = execCount[g] /\ impl'[g] = impl[g]
      /\ v # "queued" => execCount'[h] = execCount[h]
      /\ execCount[h] # 0 => ndbOpen[impl'[h]]
      /\ freeList' \subseteq freeList
  BY DEF Comes
<1>3. OneByOne' /\ ModesOK' /\ OwnContext' /\ OutcomesOK' /\ EndsAreSound' /\ Seizing' /\ Endings'
  BY ComesKeeps
<1>4. Suits(ndbOpen)
  <2>1. \A i \in DOMAIN execQueue' : execQueue'[i].step # "exec" => kind'[execQueue'[i].req] \in Scans
    <3>1. \A j \in DOMAIN execQueue : execQueue[j] \in Call /\ status[execQueue[j].req] = "queued"
      BY Now DEF TypeOK, Alive, QueueOK, Queued
    <3>2. \A j \in DOMAIN execQueue : execQueue[j].req \in Request \ {r}
      BY <1>2, <3>1 DEF Call
    <3>3. \A j \in DOMAIN execQueue : execQueue[j].step # "exec" => kind'[execQueue[j].req] \in Scans
      BY <1>1, <3>2, Now DEF QueueOpen
    <3>4. QED
      BY <1>1, <3>3 DEF Joined
  <2>2. ASSUME NEW s \in Request
        PROVE  /\ status'[s] = "fetching" => ndbOpen[opCtx'[s]]
               /\ status'[s] = "replying" =>
                    (ndbOpen[opCtx'[s]] <=> mode'[s] = "NOCOMMIT" \/ (mode'[s] = "ROLLBACK" /\ kind'[s] \notin Ends))
    <3>1. CASE s = r
      BY <1>1, <1>2, <3>1
    <3>2. CASE s # r
      BY <1>1, <1>2, <3>2, Now DEF Opened
    <3>3. QED
      BY <3>1, <3>2
  <2>3. ASSUME NEW g \in Handler, impl'[g] # None, execCount'[g] # 0,
               \A s \in Unanswered(g)' : status'[s] = "autoInc"
        PROVE  ndbOpen[impl'[g]]
    <3>1. CASE g = h
      <4>1. v # "queued"
        BY <1>1, <2>3, <3>1 DEF Unanswered
      <4>2. QED
        BY <1>2, <2>3, <3>1, <4>1
    <3>2. CASE g # h
      <4>1. \A s \in Unanswered(g) : status[s] = "autoInc"
        BY <1>1, <1>2, <2>3, <3>2 DEF Unanswered
      <4>2. impl[g] # None /\ execCount[g] # 0
        BY <1>2, <2>3, <3>2
      <4>3. QED
        BY <1>2, <3>2, <4>1, <4>2, Now DEF Opened
    <3>3. QED
      BY <3>1, <3>2
  <2>4. \A c \in freeList' : ~ndbOpen[c]
    BY <1>2, Now DEF FreeMeansClosed
  <2>5. QED
    BY <2>1, <2>2, <2>3, <2>4 DEF Suits
<1>5. ndbOpen \in [Context -> BOOLEAN]
  BY Now DEF TypeOK
<1>6. FreeMeansClosed' /\ NoPanic' /\ (panic' = "no" => QueueOpen' /\ Opened')
  BY <1>3, <1>4, <1>5, OpenedNext
<1>7. QED
  BY <1>3, <1>6 DEF EInv, Orderly

LEMMA BeginEnds ==
  ASSUME EInv, IInv', Begin
  PROVE  EInv'
<1>1. PICK h \in Handler \ created :
        created' = created \cup {h} /\ autocommit' = [autocommit EXCEPT ![h] = FALSE] /\ tx' = h
  BY DEF Begin
<1>2. /\ panic = "no" /\ tx = None
      /\ UNCHANGED <<sentSeizeImpl, impl, execCount, txError, queueVars, nativeVars, requestVars,
                     replying, panic, historyVars>>
  BY DEF Begin
<1>3. UNCHANGED <<sentSeizeImpl, impl, execCount, txError, execQueue, seizeTxQueue, freeList, ndbOpen, owner, kind,
                  mode, status, result, opCtx, panic, nativeOk, work>>
  BY <1>2 DEF queueVars, nativeVars, requestVars, historyVars
<1>4. \A r \in Request : Closer(r)' <=> Closer(r)
  <2>1. \A g \in Handler : g # h => autocommit'[g] = autocommit[g]
    BY <1>1, <1>2, Now DEF TypeOK
  <2>2. \A r \in Request : owner[r] # None => owner[r] \in Handler /\ owner[r] # h
    BY <1>1, <1>2, Now DEF Alive, HandlersOK
  <2>3. QED
    BY <1>3, <2>1, <2>2 DEF Closer
<1>5. OneByOne' /\ ModesOK' /\ OwnContext' /\ OutcomesOK'
  BY <1>2, <1>3, <1>4, Now DEF OneByOne, Active, ModesOK, OwnContext, OutcomesOK
<1>6. QueueOpen' /\ Opened' /\ EndsAreSound' /\ FreeMeansClosed'
  BY <1>2, <1>3, Now DEF QueueOpen, Opened, Unanswered, EndsAreSound, EndCoversWork, SuccessIsReal, FreeMeansClosed
<1>7. Seizing'
  BY <1>2, <1>3, <1>4, Now DEF Seizing
<1>8. Endings'
  <2>1. \A r \in Request : NeverStarted(owner[r]) => NeverStarted(owner[r])'
    BY <1>3 DEF NeverStarted
  <2>2. \A g \in created : g # None
    BY <1>2, Now DEF TypeOK
  <2>3. QED
    BY <1>1, <1>2, <1>3, <1>4, <2>1, <2>2, Now DEF Endings
<1>9. QED
  BY <1>2, <1>3, <1>5, <1>6, <1>7, <1>8 DEF EInv, Orderly, NoPanic

\* A user who waits calls handlers that have no call in progress, and a handler that
\* has a transaction has not come to its end.
LEMMA Waits ==
  ASSUME EInv, panic = "no", ~Pipelined, NEW h \in Handler,
         IF tx = None THEN h \notin created ELSE h = tx /\ MayCall(h)
  PROVE  /\ \A s \in Request : owner[s] = h => status[s] = "done" /\ ~Closer(s)
         /\ sentSeizeImpl[h] => impl[h] # None
         /\ execCount[h] # 0 => impl[h] # None /\ ndbOpen[impl[h]]
         /\ impl[h] = None => \A s \in Request : owner[s] # h
         /\ h \in created => h = tx
<1>1. \A s \in Request : owner[s] = h => status[s] = "done" /\ ~Closer(s)
  <2>1. CASE tx = None
    BY <2>1, Now DEF Alive, HandlersOK
  <2>2. CASE tx # None
    <3>1. h = tx /\ Unanswered(h) = {} /\ ~autocommit[h] /\ \A s \in Request : owner[s] = h => kind[s] \notin Ends
      BY <2>2, Now DEF MayCall, Alive, HandlersOK
    <3>2. \A s \in Request : owner[s] = h => status[s] = "done"
      BY <3>1, Now DEF Unanswered
    <3>3. QED
      BY <3>1, <3>2 DEF Closer
  <2>3. QED
    BY <2>1, <2>2
<1>2. \A i \in DOMAIN seizeTxQueue : owner[seizeTxQueue[i]] # h
  <2>1. \A i \in DOMAIN seizeTxQueue : seizeTxQueue[i] \in Request /\ status[seizeTxQueue[i]] = "seizing"
    BY Now DEF TypeOK, Alive, WaitersOK
  <2>2. QED
    BY <1>1, <2>1
<1>3. sentSeizeImpl[h] => impl[h] # None
  BY <1>1, <1>2, Now DEF Seizing
<1>4. ~sentSeizeImpl[h] => execCount[h] = 0 /\ impl[h] = None
  BY Now DEF Seizing, Alive, HandlersOK
<1>5. Unanswered(h) = {}
  BY <1>1 DEF Unanswered
<1>6. execCount[h] # 0 => impl[h] # None /\ ndbOpen[impl[h]]
  BY <1>3, <1>4, <1>5, Now DEF Opened
<1>7. impl[h] = None => \A s \in Request : owner[s] # h
  <2>1. ~sentSeizeImpl[h] => \A s \in Request : owner[s] = h => kind[s] \in Ends
    BY Now DEF Seizing
  <2>2. \A s \in Request : owner[s] = h => kind[s] \notin Ends
    <3>1. h # None
      BY Now
    <3>2. QED
      BY <1>1, <3>1 DEF Closer
  <2>3. QED
    BY <1>3, <2>1, <2>2
<1>8. QED
  BY <1>1, <1>3, <1>6, <1>7

LEMMA ExecuteEnds ==
  ASSUME EInv, IInv', ~Pipelined, NEW r \in Request, NEW h \in Handler, NEW k \in Kinds, Execute(r, h, k)
  PROVE  EInv'
<1>1. /\ panic = "no" /\ status[r] = "new"
      /\ IF tx = None THEN h \notin created ELSE h = tx /\ MayCall(h)
      /\ created' = created \cup {h} /\ tx' = IF autocommit[h] THEN None ELSE h
      /\ owner' = [owner EXCEPT ![r] = h] /\ kind' = [kind EXCEPT ![r] = k]
      /\ mode' = [mode EXCEPT ![r] = IF autocommit[h] THEN "COMMIT" ELSE "NOCOMMIT"]
      /\ UNCHANGED <<autocommit, txError, result, nativeOk, work>>
  BY DEF Execute, historyVars
<1>2. /\ \A s \in Request : owner[s] = h => status[s] = "done" /\ ~Closer(s)
      /\ sentSeizeImpl[h] => impl[h] # None
      /\ execCount[h] # 0 => impl[h] # None /\ ndbOpen[impl[h]]
      /\ h \in created => h = tx
  BY <1>1, Waits
<1>3. /\ mode'[r] = IF autocommit[h] THEN "COMMIT" ELSE "NOCOMMIT"
      /\ \A s \in Request \ {r} : mode'[s] = mode[s]
      /\ k \notin Ends
  BY <1>1, Now, ConstantsOK DEF TypeOK, Ends
<1>4. \A g \in created' : g # tx' => (g \in created /\ g # tx) \/ (g = h /\ (autocommit[h] \/ k \in Ends))
  <2>1. tx # None => h = tx
    BY <1>1
  <2>2. \A g \in created : g # None
    BY <1>1, Now DEF TypeOK
  <2>3. QED
    BY <1>1, <2>1, <2>2
<1>5. ASSUME NEW v \in {"autoInc", "queued", "seizing"}, status' = [status EXCEPT ![r] = v],
             \A s \in Request \ {r} : opCtx'[s] = opCtx[s],
             v # "seizing" => impl'[h] # None,
             v = "queued" => opCtx'[r] = impl'[h],
             v # "queued" => execCount'[h] = execCount[h],
             v = "seizing" => execCount[h] = 0 /\ seizeTxQueue' = Append(seizeTxQueue, r),
             v # "seizing" => seizeTxQueue' = seizeTxQueue,
             \A g \in Handler \ {h} : execCount'[g] = execCount[g] /\ impl'[g] = impl[g]
                                      /\ sentSeizeImpl'[g] = sentSeizeImpl[g],
             execCount[h] # 0 => impl'[h] # None /\ ndbOpen[impl'[h]],
             sentSeizeImpl'[h], freeList' \subseteq freeList
      PROVE  Comes(r, h, k, v)
  BY <1>1, <1>2, <1>3, <1>4, <1>5 DEF Comes
<1>6. /\ opCtx \in [Request -> Context \cup {None}] /\ execCount \in [Handler -> Nat]
      /\ impl \in [Handler -> Context \cup {None}] /\ sentSeizeImpl \in [Handler -> BOOLEAN]
  BY <1>1, Now DEF TypeOK
<1>7. CASE sentSeizeImpl[h]
  <2>1. /\ ExecuteSpecific(r, h, k, impl[h], status)
        /\ UNCHANGED <<sentSeizeImpl, impl, seizeTxQueue, freeList>>
    BY <1>7 DEF Execute
  <2>2. impl[h] \in Context /\ impl[h] # None
    BY <1>2, <1>6, <1>7
  <2>3. PICK c \in Context : c = impl[h]
    BY <2>2
  <2>4. /\ Ran(execQueue', ndbOpen, opCtx') /\ Joined(r, k)
        /\ \/ /\ k = "autoInc" /\ status' = [status EXCEPT ![r] = "autoInc"]
              /\ UNCHANGED <<execCount, opCtx>>
           \/ /\ status' = [status EXCEPT ![r] = "queued"]
              /\ execCount' = [execCount EXCEPT ![h] = @ + 1] /\ opCtx' = [opCtx EXCEPT ![r] = c]
    <3>1. status[r] # "queued" /\ (execCount[h] # 0 => ndbOpen[c]) /\ ExecuteSpecific(r, h, k, c, status)
      BY <1>1, <1>2, <2>1, <2>3
    <3>2. QED
      BY <1>1, <3>1, SpecificRan
  <2>5. \E v : Comes(r, h, k, v)
    <3>1. CASE status' = [status EXCEPT ![r] = "autoInc"] /\ UNCHANGED <<execCount, opCtx>>
      <4>1. Comes(r, h, k, "autoInc")
        BY <1>2, <1>5, <1>7, <2>1, <2>2, <3>1
      <4>2. QED
        BY <4>1
    <3>2. CASE /\ status' = [status EXCEPT ![r] = "queued"]
               /\ execCount' = [execCount EXCEPT ![h] = @ + 1] /\ opCtx' = [opCtx EXCEPT ![r] = c]
      <4>1. /\ \A s \in Request \ {r} : opCtx'[s] = opCtx[s]
            /\ opCtx'[r] = c /\ \A g \in Handler \ {h} : execCount'[g] = execCount[g]
        BY <1>6, <3>2
      <4>2. Comes(r, h, k, "queued")
        BY <1>2, <1>5, <1>7, <2>1, <2>2, <2>3, <3>2, <4>1
      <4>3. QED
        BY <4>2
    <3>3. QED
      BY <2>4, <3>1, <3>2
  <2>6. QED
    BY <1>1, <2>4, <2>5, ComesEnds
<1>8. CASE ~sentSeizeImpl[h]
  <2>1. /\ sentSeizeImpl' = [sentSeizeImpl EXCEPT ![h] = TRUE]
        /\ SeizeTransactionContext(r, h, k)
    BY <1>8 DEF Execute
  <2>2. execCount[h] = 0 /\ sentSeizeImpl'[h] /\ \A g \in Handler \ {h} : sentSeizeImpl'[g] = sentSeizeImpl[g]
    BY <1>1, <1>6, <1>8, <2>1, Now DEF Seizing
  <2>3. CASE HasRoom
    <3>1. PICK c \in Context :
            SeizeTransaction(c) /\ impl' = [impl EXCEPT ![h] = c] /\ ExecuteSpecific(r, h, k, c, status)
      BY <2>1, <2>3 DEF SeizeTransactionContext
    <3>2. seizeTxQueue' = seizeTxQueue /\ freeList' \subseteq freeList
      BY <2>1, <2>3, <3>1 DEF SeizeTransactionContext, SeizeTransaction
    <3>3. c # None /\ impl'[h] = c /\ \A g \in Handler \ {h} : impl'[g] = impl[g]
      BY <1>6, <3>1, ConstantsOK
    <3>4. /\ Ran(execQueue', ndbOpen, opCtx') /\ Joined(r, k)
          /\ \/ /\ k = "autoInc" /\ status' = [status EXCEPT ![r] = "autoInc"]
                /\ UNCHANGED <<execCount, opCtx>>
             \/ /\ status' = [status EXCEPT ![r] = "queued"]
                /\ execCount' = [execCount EXCEPT ![h] = @ + 1] /\ opCtx' = [opCtx EXCEPT ![r] = c]
      <4>1. status[r] # "queued" /\ (execCount[h] # 0 => ndbOpen[c])
        BY <1>1, <2>2
      <4>2. QED
        BY <1>1, <3>1, <4>1, SpecificRan
    <3>5. \E v : Comes(r, h, k, v)
      <4>1. CASE status' = [status EXCEPT ![r] = "autoInc"] /\ UNCHANGED <<execCount, opCtx>>
        <5>1. Comes(r, h, k, "autoInc")
          BY <1>5, <2>2, <3>2, <3>3, <4>1
        <5>2. QED
          BY <5>1
      <4>2. CASE /\ status' = [status EXCEPT ![r] = "queued"]
                 /\ execCount' = [execCount EXCEPT ![h] = @ + 1] /\ opCtx' = [opCtx EXCEPT ![r] = c]
        <5>1. /\ \A s \in Request \ {r} : opCtx'[s] = opCtx[s]
              /\ opCtx'[r] = c /\ \A g \in Handler \ {h} : execCount'[g] = execCount[g]
          BY <1>6, <4>2
        <5>2. Comes(r, h, k, "queued")
          BY <1>5, <2>2, <3>2, <3>3, <4>2, <5>1
        <5>3. QED
          BY <5>2
      <4>3. QED
        BY <3>4, <4>1, <4>2
    <3>6. QED
      BY <1>1, <3>4, <3>5, ComesEnds
  <2>4. CASE ~HasRoom
    <3>1. /\ seizeTxQueue' = Append(seizeTxQueue, r)
          /\ status' = [status EXCEPT ![r] = "seizing"]
          /\ UNCHANGED <<freeList, impl, execQueue, ndbOpen, execCount, opCtx, panic>>
      BY <2>1, <2>4 DEF SeizeTransactionContext
    <3>2. Comes(r, h, k, "seizing")
      BY <1>5, <2>2, <3>1
    <3>3. Ran(execQueue', ndbOpen, opCtx')
      BY <1>1, <3>1, Still
    <3>4. Joined(r, k)
      BY <3>1 DEF Joined
    <3>5. QED
      BY <1>1, <3>2, <3>3, <3>4, ComesEnds
  <2>5. QED
    BY <2>3, <2>4
<1>9. QED
  BY <1>7, <1>8

LEMMA EndTransactionEnds ==
  ASSUME EInv, IInv', ~Pipelined, NEW r \in Request, NEW k \in Ends, EndTransaction(r, k)
  PROVE  EInv'
<1>1. /\ panic = "no" /\ status[r] = "new" /\ tx # None /\ MayCall(tx) /\ tx' = None
      /\ owner' = [owner EXCEPT ![r] = tx] /\ kind' = [kind EXCEPT ![r] = k]
      /\ mode' = [mode EXCEPT ![r] = IF k = "commit" THEN "COMMIT" ELSE "ROLLBACK"]
      /\ UNCHANGED <<created, autocommit, sentSeizeImpl, impl, txError, seizeTxQueue, freeList, work>>
  BY DEF EndTransaction
<1>2. PICK h : h = tx
  OBVIOUS
<1>3. h \in Handler
  BY <1>1, <1>2, Now DEF TypeOK
<1>4. /\ \A s \in Request : owner[s] = h => status[s] = "done" /\ ~Closer(s)
      /\ sentSeizeImpl[h] => impl[h] # None
      /\ execCount[h] # 0 => impl[h] # None /\ ndbOpen[impl[h]]
      /\ impl[h] = None => \A s \in Request : owner[s] # h
  BY <1>1, <1>2, <1>3, Waits
<1>5. /\ mode'[r] \in {"COMMIT", "ROLLBACK"} /\ \A s \in Request \ {r} : mode'[s] = mode[s]
  BY <1>1, Now DEF TypeOK
<1>6. /\ opCtx \in [Request -> Context \cup {None}] /\ execCount \in [Handler -> Nat]
      /\ impl \in [Handler -> Context \cup {None}]
      /\ result \in [Request -> {None, "ok", "error"}] /\ nativeOk \in [Request -> BOOLEAN]
  BY <1>1, Now DEF TypeOK
<1>7. \A g \in created' : g # tx' => (g \in created /\ g # tx) \/ (g = h /\ (autocommit[h] \/ k \in Ends))
  BY <1>1, <1>2
<1>8. ~sentSeizeImpl[h] => impl[h] = None
  BY <1>1, <1>3, Now DEF Alive, HandlersOK
<1>9. CASE impl[h] # None
  <2>1. Send(r, h, "exec", impl[h], status) /\ UNCHANGED <<result, nativeOk>>
    BY <1>2, <1>9 DEF EndTransaction, HasImpl
  <2>2. PICK c \in Context : c = impl[h]
    BY <1>3, <1>6, <1>9
  <2>3. Ran(execQueue', ndbOpen, opCtx') /\ Joined(r, k)
    <3>1. status[r] # "queued" /\ (execCount[h] # 0 => ndbOpen[c]) /\ Send(r, h, "exec", c, status)
      BY <1>1, <1>4, <2>1, <2>2
    <3>2. QED
      BY <1>1, <1>3, <3>1, SendRan
  <2>4. /\ status' = [status EXCEPT ![r] = "queued"] /\ execCount' = [execCount EXCEPT ![h] = @ + 1]
        /\ opCtx' = [opCtx EXCEPT ![r] = c]
    BY <2>1, <2>2 DEF Send
  <2>5. /\ \A s \in Request \ {r} : opCtx'[s] = opCtx[s]
        /\ opCtx'[r] = c /\ \A g \in Handler \ {h} : execCount'[g] = execCount[g]
    BY <1>3, <1>6, <2>4
  <2>6. Comes(r, h, k, "queued")
    BY <1>1, <1>2, <1>3, <1>4, <1>5, <1>7, <1>8, <1>9, <2>1, <2>2, <2>4, <2>5 DEF Comes
  <2>7. QED
    BY <1>1, <2>3, <2>6, ComesEnds
<1>10. CASE impl[h] = None
  <2>1. /\ status' = [status EXCEPT ![r] = "done"] /\ result' = [result EXCEPT ![r] = "ok"]
        /\ nativeOk' = [nativeOk EXCEPT ![r] = TRUE]
        /\ UNCHANGED <<execQueue, ndbOpen, execCount, opCtx, panic>>
    BY <1>2, <1>10 DEF EndTransaction, HasImpl
  <2>2. nativeOk'[r] /\ \A s \in Request \ {r} : result'[s] = result[s] /\ nativeOk'[s] = nativeOk[s]
    BY <1>6, <2>1
  <2>3. Comes(r, h, k, "done")
    BY <1>1, <1>2, <1>3, <1>4, <1>5, <1>7, <1>10, <2>1, <2>2 DEF Comes
  <2>4. Ran(execQueue', ndbOpen, opCtx')
    BY <1>1, <2>1, Still
  <2>5. Joined(r, k)
    BY <2>1 DEF Joined
  <2>6. QED
    BY <1>1, <2>3, <2>4, <2>5, ComesEnds
<1>11. QED
  BY <1>9, <1>10

-----------------------------------------------------------------------------
(* The end of onExecute.                                                   *)

\* Request r is answered; the requests of W, which is empty or one waiting request,
\* go on with the context.
Answers(r, W) ==
  /\ status[r] = "replying" /\ W \subseteq Request
  /\ UNCHANGED <<created, autocommit, sentSeizeImpl, tx, owner, kind, mode, txError, nativeOk, work>>
  /\ status'[r] = "done" /\ opCtx'[r] = opCtx[r]
  /\ \A t \in Request \ {r} : result'[t] = result[t]
  /\ result'[r] = "ok" => ~txError[owner[r]]
  /\ \A t \in Request \ {r} : t \notin W => status'[t] = status[t] /\ opCtx'[t] = opCtx[t]
  /\ \A t \in W :
       /\ status[t] = "seizing" /\ impl'[owner[t]] # None /\ impl[owner[t]] = None /\ execCount[owner[t]] = 0
       /\ sentSeizeImpl[owner[t]]
       /\ \/ status'[t] = "queued" /\ opCtx'[t] = impl'[owner[t]]
          \/ status'[t] = "autoInc" /\ kind[t] \notin Ends /\ execCount'[owner[t]] = 0
  /\ \A g \in Handler : (\A t \in W : owner[t] # g) =>
       execCount'[g] = execCount[g] /\ (g # owner[r] => impl'[g] = impl[g])
  /\ mode[r] = "NOCOMMIT" => impl'[owner[r]] = impl[owner[r]] /\ freeList' = freeList
  /\ mode[r] # "NOCOMMIT" => impl'[owner[r]] = None /\ ~ndbOpen[impl[owner[r]]]
  /\ \A c \in freeList' : c \in freeList \/ ~ndbOpen[c]
  /\ \A i \in DOMAIN seizeTxQueue' : \E j \in DOMAIN seizeTxQueue :
       seizeTxQueue'[i] = seizeTxQueue[j] /\ \A t \in W : owner[seizeTxQueue[j]] # owner[t]
  /\ \A j \in DOMAIN seizeTxQueue :
       seizeTxQueue[j] \in W \/ \E i \in DOMAIN seizeTxQueue' : seizeTxQueue'[i] = seizeTxQueue[j]

LEMMA AnswersFacts ==
  ASSUME EInv, panic = "no", NEW r \in Request, NEW W, Answers(r, W)
  PROVE  /\ r \notin W /\ owner[r] \in Handler /\ impl[owner[r]] # None /\ opCtx[r] = impl[owner[r]]
         /\ \A t \in Request : owner[t] = owner[r] /\ t # r => ~Active(t) /\ ~Closer(t)
         /\ \A t \in W : t \in Request /\ owner[t] \in Handler /\ owner[t] # owner[r] /\ Active(t)
         /\ \A t \in W : status'[t] \in {"queued", "autoInc"}
         /\ \A t \in Request : t # r /\ t \notin W => status'[t] = status[t]
         /\ \A t \in Request : Active(t)' => Active(t) /\ t # r
         /\ \A t \in Request : status[t] = "done" => status'[t] = "done"
         /\ \A t \in Request : status'[t] = "done" => status[t] = "done" \/ t = r
         /\ \A t \in Request : status'[t] # "replying"
         /\ \A t \in Request : Closer(t)' <=> Closer(t)
         /\ mode[r] # "NOCOMMIT" => Closer(r)
<1>1. /\ status[r] = "replying" /\ W \subseteq Request /\ status'[r] = "done"
      /\ UNCHANGED <<owner, autocommit, kind>>
      /\ \A t \in W : /\ status[t] = "seizing" /\ impl[owner[t]] = None
                      /\ status'[t] \in {"queued", "autoInc"}
      /\ \A t \in Request \ {r} : t \notin W => status'[t] = status[t]
      /\ mode[r] # "NOCOMMIT" => ~ndbOpen[impl[owner[r]]]
  BY DEF Answers
<1>2. owner[r] \in Handler /\ impl[owner[r]] # None /\ opCtx[r] = impl[owner[r]] /\ Active(r) /\ replying = r
  BY <1>1, Now DEF OwnContext, Active, Alive, RequestsOK
<1>3. \A t \in Request : owner[t] = owner[r] /\ t # r => ~Active(t) /\ ~Closer(t)
  BY <1>2, Alone, Now
<1>4. \A t \in W : t \in Request /\ owner[t] \in Handler /\ owner[t] # owner[r] /\ Active(t)
  BY <1>1, <1>2, Now DEF Active
<1>5. \A t \in Request : status[t] = "replying" => t = r
  BY <1>2, Now DEF Alive, RequestsOK
<1>6. \A t \in Request : Closer(t)' <=> Closer(t)
  BY <1>1 DEF Closer
<1>7. mode[r] # "NOCOMMIT" => Closer(r)
  <2>1. mode[r] \in Mode /\ (mode[r] = "COMMIT" => Closer(r))
    BY <1>2, Now DEF Alive, RequestsOK
  <2>2. mode[r] = "ROLLBACK" => kind[r] \in Ends
    BY <1>1, <1>2, Now DEF Opened
  <2>3. owner[r] # None
    BY <1>2, Now
  <2>4. QED
    BY <2>1, <2>2, <2>3 DEF Mode, Closer
<1>8. QED
  BY <1>1, <1>2, <1>3, <1>4, <1>5, <1>6, <1>7 DEF Active

LEMMA AnswersKeep ==
  ASSUME EInv, panic = "no", NEW r \in Request, NEW W, Answers(r, W)
  PROVE  OneByOne' /\ ModesOK' /\ OwnContext' /\ OutcomesOK' /\ EndsAreSound' /\ Seizing' /\ Endings'
<1>1. /\ r \notin W /\ owner[r] \in Handler /\ impl[owner[r]] # None
      /\ \A t \in Request : owner[t] = owner[r] /\ t # r => ~Active(t) /\ ~Closer(t)
      /\ \A t \in W : t \in Request /\ owner[t] \in Handler /\ owner[t] # owner[r] /\ Active(t)
      /\ \A t \in W : status'[t] \in {"queued", "autoInc"}
      /\ \A t \in Request : t # r /\ t \notin W => status'[t] = status[t]
      /\ \A t \in Request : Active(t)' => Active(t) /\ t # r
      /\ \A t \in Request : status[t] = "done" => status'[t] = "done"
      /\ \A t \in Request : status'[t] = "done" => status[t] = "done" \/ t = r
      /\ \A t \in Request : status'[t] # "replying"
      /\ \A t \in Request : Closer(t)' <=> Closer(t)
      /\ mode[r] # "NOCOMMIT" => Closer(r)
  BY AnswersFacts
<1>2. /\ status[r] = "replying" /\ status'[r] = "done"
      /\ UNCHANGED <<created, autocommit, sentSeizeImpl, tx, owner, kind, mode, txError, nativeOk, work>>
      /\ \A t \in Request \ {r} : result'[t] = result[t]
      /\ result'[r] = "ok" => ~txError[owner[r]]
  BY DEF Answers
<1>3. OneByOne'
  BY <1>1, <1>2, Now DEF OneByOne
<1>4. ModesOK'
  <2>1. \A t \in Request : status'[t] = "fetching" => status[t] = "fetching"
    BY <1>1, <1>2
  <2>2. \A t \in Request : status'[t] = "autoInc" => kind[t] \notin Ends
    <3>1. \A t \in W : status'[t] = "autoInc" => kind[t] \notin Ends
      BY DEF Answers
    <3>2. QED
      BY <1>1, <1>2, <3>1, Now DEF ModesOK
  <2>3. QED
    BY <1>1, <1>2, <2>1, <2>2, Now DEF ModesOK
<1>5. OwnContext'
  <2> SUFFICES ASSUME NEW t \in Request
      PROVE  /\ status'[t] \in {"queued", "fetching", "replying"} => impl'[owner[t]] # None /\ opCtx'[t] = impl'[owner[t]]
             /\ status'[t] = "autoInc" => impl'[owner[t]] # None
    BY <1>2 DEF OwnContext
  <2>1. CASE t \in W
    BY <2>1 DEF Answers
  <2>2. CASE t = r
    BY <1>2, <2>2
  <2>3. CASE t # r /\ t \notin W
    <3>1. status'[t] = status[t] /\ opCtx'[t] = opCtx[t]
      BY <2>3 DEF Answers
    <3>2. ASSUME status[t] \in {"queued", "fetching", "replying", "autoInc"} PROVE impl'[owner[t]] = impl[owner[t]]
      <4>1. Active(t) /\ owner[t] \in Handler
        BY <3>2, Now DEF Active
      <4>2. owner[t] # owner[r]
        BY <1>1, <2>3, <4>1
      <4>3. \A u \in W : owner[u] # owner[t]
        BY <1>1, <2>3, <4>1, Now DEF OneByOne
      <4>4. QED
        BY <4>1, <4>2, <4>3 DEF Answers
    <3>3. QED
      BY <3>1, <3>2, Now DEF OwnContext
  <2>4. QED
    BY <2>1, <2>2, <2>3
<1>6. OutcomesOK'
  <2> SUFFICES ASSUME NEW t \in Request
      PROVE  /\ status'[t] # "done" => result'[t] = None
             /\ work[t] # None => status'[t] \in {"replying", "done"} /\ kind[t] \notin Ends
             /\ kind[t] \in Ends /\ status'[t] \in {"replying", "done"} =>
                  \A s \in Request : owner[s] = owner[t] => work[s] # "pending"
    BY <1>1, <1>2 DEF OutcomesOK
  <2>1. status'[t] # "done" => result'[t] = None
    BY <1>1, <1>2, Now DEF OutcomesOK
  <2>2. work[t] # None => status'[t] = "done" /\ kind[t] \notin Ends
    <3>1. work[t] # None => status[t] \in {"replying", "done"} /\ kind[t] \notin Ends
      BY Now DEF OutcomesOK
    <3>2. status[t] = "replying" => t = r
      BY <1>2, Now DEF Alive, RequestsOK
    <3>3. QED
      BY <1>1, <1>2, <3>1, <3>2
  <2>3. status'[t] \in {"replying", "done"} => status[t] \in {"replying", "done"}
    BY <1>1, <1>2
  <2>4. QED
    BY <2>1, <2>2, <2>3, Now DEF OutcomesOK
<1>7. EndsAreSound'
  <2>1. ASSUME NEW s \in Request, kind[s] \in Ends, status'[s] = "done", NEW t \in Request, owner[t] = owner[s]
        PROVE  status'[t] = "done" /\ work[t] # "pending"
    <3>1. owner[s] # None
      BY <1>1, <1>2, <2>1, Now
    <3>2. Closer(s)
      BY <2>1, <3>1 DEF Closer
    <3>3. status'[t] = "done"
      BY <1>1, <2>1, <3>2, Now DEF OneByOne
    <3>4. QED
      BY <1>1, <1>2, <2>1, <3>3, Now DEF OutcomesOK
  <2>2. ASSUME NEW s \in Request, kind[s] = "commit", result'[s] = "ok" PROVE nativeOk[s]
    <3>1. CASE s = r
      BY <1>2, <2>2, <3>1, Now DEF OutcomesOK, Ends
    <3>2. CASE s # r
      BY <1>2, <2>2, <3>2, Now DEF EndsAreSound, SuccessIsReal
    <3>3. QED
      BY <3>1, <3>2
  <2>3. QED
    BY <1>2, <2>1, <2>2 DEF EndsAreSound, EndCoversWork, SuccessIsReal
<1>8. Seizing'
  <2> SUFFICES ASSUME NEW g \in Handler
      PROVE  /\ ~sentSeizeImpl[g] => execCount'[g] = 0 /\ \A s \in Request : owner[s] = g => kind[s] \in Ends
             /\ \A i \in DOMAIN seizeTxQueue' : owner[seizeTxQueue'[i]] = g => execCount'[g] = 0
             /\ sentSeizeImpl[g] /\ impl'[g] = None =>
                  \/ \E i \in DOMAIN seizeTxQueue' : owner[seizeTxQueue'[i]] = g
                  \/ \E s \in Request : Closer(s)' /\ owner[s] = g /\ status'[s] = "done"
    BY <1>2 DEF Seizing
  <2>1. \A i \in DOMAIN seizeTxQueue' : \E j \in DOMAIN seizeTxQueue :
          seizeTxQueue'[i] = seizeTxQueue[j] /\ \A t \in W : owner[seizeTxQueue[j]] # owner[t]
    BY DEF Answers
  <2>2. \A j \in DOMAIN seizeTxQueue :
          seizeTxQueue[j] \in W \/ \E i \in DOMAIN seizeTxQueue' : seizeTxQueue'[i] = seizeTxQueue[j]
    BY DEF Answers
  <2>3. CASE \E t \in W : owner[t] = g
    <3>1. PICK t \in W : owner[t] = g
      BY <2>3
    <3>2. sentSeizeImpl[g] /\ impl'[g] # None
      BY <3>1 DEF Answers
    <3>3. \A i \in DOMAIN seizeTxQueue' : owner[seizeTxQueue'[i]] # g
      BY <2>1, <3>1
    <3>4. QED
      BY <3>2, <3>3
  <2>4. CASE \A t \in W : owner[t] # g
    <3>1. execCount'[g] = execCount[g] /\ (g # owner[r] => impl'[g] = impl[g])
      BY <2>4 DEF Answers
    <3>2. ~sentSeizeImpl[g] => execCount'[g] = 0 /\ \A s \in Request : owner[s] = g => kind[s] \in Ends
      BY <3>1, Now DEF Seizing
    <3>3. \A i \in DOMAIN seizeTxQueue' : owner[seizeTxQueue'[i]] = g => execCount'[g] = 0
      <4>1. \A j \in DOMAIN seizeTxQueue : owner[seizeTxQueue[j]] = g => execCount[g] = 0
        BY Now DEF Seizing
      <4>2. QED
        BY <2>1, <3>1, <4>1
    <3>4. ASSUME sentSeizeImpl[g], impl'[g] = None
          PROVE  \/ \E i \in DOMAIN seizeTxQueue' : owner[seizeTxQueue'[i]] = g
                 \/ \E s \in Request : Closer(s)' /\ owner[s] = g /\ status'[s] = "done"
      <4>1. CASE g = owner[r]
        <5>1. mode[r] # "NOCOMMIT"
          BY <1>1, <3>4, <4>1 DEF Answers
        <5>2. QED
          BY <1>1, <1>2, <4>1, <5>1
      <4>2. CASE g # owner[r]
        <5>1. impl[g] = None
          BY <3>1, <3>4, <4>2
        <5>2. \/ \E j \in DOMAIN seizeTxQueue : owner[seizeTxQueue[j]] = g
              \/ \E s \in Request : Closer(s) /\ owner[s] = g /\ status[s] = "done"
          BY <3>4, <5>1, Now DEF Seizing
        <5>3. QED
          BY <1>1, <2>2, <2>4, <5>2
      <4>3. QED
        BY <4>1, <4>2
    <3>5. QED
      BY <3>2, <3>3, <3>4
  <2>5. QED
    BY <2>3, <2>4
<1>9. Endings'
  <2>1. \A h \in created' : h # tx' => \E s \in Request : Closer(s)' /\ owner'[s] = h
    BY <1>1, <1>2, Now DEF Endings
  <2>2. ASSUME NEW s \in Request, Closer(s), status'[s] = "done", impl'[owner[s]] # None
        PROVE  NeverStarted(owner[s])'
    <3>1. s # r
      <4>1. mode[r] # "NOCOMMIT" => impl'[owner[r]] = None
        BY DEF Answers
      <4>2. QED
        BY <2>2, <4>1, Now DEF ModesOK
    <3>2. status[s] = "done" /\ owner[s] \in Handler
      BY <1>1, <2>2, <3>1, Now
    <3>3. owner[s] # owner[r]
      BY <1>1, <2>2, <3>1
    <3>4. \A t \in W : owner[t] # owner[s]
      BY <1>1, <2>2, <3>2, Now DEF OneByOne, Active
    <3>5. impl[owner[s]] # None
      BY <2>2, <3>2, <3>3, <3>4 DEF Answers
    <3>6. PICK t \in Request : /\ owner[t] = owner[s] /\ kind[t] \in Scans /\ mode[t] = "COMMIT"
                               /\ status[t] = "done" /\ work[t] = None
      BY <2>2, <3>2, <3>5, Now DEF Endings, NeverStarted
    <3>7. status'[t] = "done"
      BY <1>1, <3>6
    <3>8. QED
      BY <1>2, <3>6, <3>7 DEF NeverStarted
  <2>3. QED
    BY <1>1, <1>2, <2>1, <2>2 DEF Endings
<1>10. QED
  BY <1>3, <1>4, <1>5, <1>6, <1>7, <1>8, <1>9

LEMMA AnswersEnd ==
  ASSUME EInv, panic = "no", IInv', NEW r \in Request, NEW W, Answers(r, W),
         Ran(execQueue', ndbOpen, opCtx'),
         execQueue' = execQueue \/ (\E t \in W : Joined(t, kind[t]))
  PROVE  EInv'
<1>1. /\ r \notin W /\ owner[r] \in Handler /\ impl[owner[r]] # None /\ opCtx[r] = impl[owner[r]]
      /\ \A t \in Request : owner[t] = owner[r] /\ t # r => ~Active(t) /\ ~Closer(t)
      /\ \A t \in W : t \in Request /\ owner[t] \in Handler /\ owner[t] # owner[r] /\ Active(t)
      /\ \A t \in W : status'[t] \in {"queued", "autoInc"}
      /\ \A t \in Request : t # r /\ t \notin W => status'[t] = status[t]
      /\ \A t \in Request : Active(t)' => Active(t) /\ t # r
      /\ \A t \in Request : status'[t] # "replying"
  BY AnswersFacts
<1>2. /\ status[r] = "replying" /\ status'[r] = "done" /\ UNCHANGED <<owner, kind, mode>>
  BY DEF Answers
<1>3. OneByOne' /\ ModesOK' /\ OwnContext' /\ OutcomesOK' /\ EndsAreSound' /\ Seizing' /\ Endings'
  BY AnswersKeep
<1>4. Suits(ndbOpen)
  <2>1. \A i \in DOMAIN execQueue' : execQueue'[i].step # "exec" => kind'[execQueue'[i].req] \in Scans
    <3>1. \A j \in DOMAIN execQueue : execQueue[j].step # "exec" => kind[execQueue[j].req] \in Scans
      BY Now DEF QueueOpen
    <3>2. QED
      BY <1>2, <3>1 DEF Joined
  <2>2. \A t \in Request : status'[t] = "fetching" => ndbOpen[opCtx'[t]]
    <3>1. \A t \in Request : status'[t] = "fetching" => t # r /\ t \notin W /\ status[t] = "fetching"
      BY <1>1, <1>2
    <3>2. \A t \in Request : t # r /\ t \notin W => opCtx'[t] = opCtx[t]
      BY DEF Answers
    <3>3. QED
      BY <3>1, <3>2, Now DEF Opened
  <2>3. ASSUME NEW g \in Handler, impl'[g] # None, execCount'[g] # 0,
               \A s \in Unanswered(g)' : status'[s] = "autoInc"
        PROVE  ndbOpen[impl'[g]]
    <3>1. CASE \E t \in W : owner[t] = g
      <4>1. PICK t \in W : owner[t] = g
        BY <3>1
      <4>2. t \in Unanswered(g)'
        BY <1>1, <1>2, <4>1 DEF Unanswered
      <4>3. status'[t] = "autoInc"
        BY <2>3, <4>2
      <4>4. execCount'[g] = 0
        BY <4>1, <4>3 DEF Answers
      <4>5. QED
        BY <2>3, <4>4
    <3>2. CASE (\A t \in W : owner[t] # g) /\ g # owner[r]
      <4>1. impl'[g] = impl[g] /\ execCount'[g] = execCount[g]
        BY <3>2 DEF Answers
      <4>2. \A s \in Unanswered(g) : status[s] = "autoInc"
        <5>1. \A s \in Request : owner[s] = g => status'[s] = status[s]
          BY <1>1, <3>2
        <5>2. QED
          BY <1>2, <2>3, <5>1 DEF Unanswered
      <4>3. QED
        BY <2>3, <4>1, <4>2, Now DEF Opened
    <3>3. CASE g = owner[r]
      <4>1. mode[r] = "NOCOMMIT" /\ impl'[g] = impl[g]
        BY <2>3, <3>3 DEF Answers
      <4>2. QED
        BY <1>1, <1>2, <3>3, <4>1, Now DEF Opened
    <3>4. QED
      BY <3>1, <3>2, <3>3
  <2>4. \A c \in freeList' : ~ndbOpen[c]
    BY Now DEF FreeMeansClosed, Answers
  <2>5. QED
    BY <1>1, <2>1, <2>2, <2>3, <2>4 DEF Suits
<1>5. ndbOpen \in [Context -> BOOLEAN]
  BY Now DEF TypeOK
<1>6. FreeMeansClosed' /\ NoPanic' /\ (panic' = "no" => QueueOpen' /\ Opened')
  BY <1>3, <1>4, <1>5, OpenedNext
<1>7. QED
  BY <1>3, <1>6 DEF EInv, Orderly

LEMMA ReplyEnds ==
  ASSUME EInv, IInv', NEW r \in Request, Reply(r)
  PROVE  EInv'
<1>1. /\ panic = "no" /\ replying = r
      /\ result' = [result EXCEPT ![r] = IF txError[owner[r]] THEN "error" ELSE "ok"]
      /\ UNCHANGED <<created, autocommit, sentSeizeImpl, txError, tx, owner, kind, mode, nativeOk, work>>
  BY DEF Reply, historyVars
<1>2. PICK h : h = owner[r]
  OBVIOUS
<1>3. /\ status[r] = "replying" /\ h \in Handler /\ impl[h] # None /\ impl[h] \in Context /\ opCtx[r] = impl[h]
      /\ impl \in [Handler -> Context \cup {None}] /\ status \in [Request -> Status]
      /\ opCtx \in [Request -> Context \cup {None}] /\ execCount \in [Handler -> Nat]
      /\ seizeTxQueue \in Seq(Request)
  BY <1>1, <1>2, Now DEF OwnContext, Alive, RequestsOK, TypeOK
<1>4. /\ \A t \in Request \ {r} : result'[t] = result[t]
      /\ result'[r] = "ok" => ~txError[owner[r]]
  BY <1>1, Now DEF TypeOK
<1>5. PICK answered : answered = [status EXCEPT ![r] = "done"]
  OBVIOUS
<1>6. answered[r] = "done" /\ \A t \in Request \ {r} : answered[t] = status[t]
  BY <1>3, <1>5
<1>7. CASE ~Releases(mode[r])
  <2>1. status' = answered /\ UNCHANGED <<impl, execQueue, seizeTxQueue, freeList, ndbOpen, execCount, opCtx, panic>>
    BY <1>5, <1>7 DEF Reply, queueVars, nativeVars
  <2>2. mode[r] = "NOCOMMIT"
    BY <1>7 DEF Releases
  <2>3. Answers(r, {})
    BY <1>1, <1>3, <1>4, <1>6, <2>1, <2>2 DEF Answers
  <2>4. Ran(execQueue', ndbOpen, opCtx')
    BY <1>1, <2>1, Still
  <2>5. QED
    BY <1>1, <2>1, <2>3, <2>4, AnswersEnd
<1>8. CASE Releases(mode[r])
  <2>1. ReleaseTransactionContext(r, h, impl[h]) /\ mode[r] # "NOCOMMIT"
    BY <1>2, <1>8 DEF Reply, Releases
  <2>2. CASE ~IsClosed(impl[h])
    <3>1. panic' = "stillOpen" /\ UNCHANGED <<status, freeList, ndbOpen>>
      BY <2>1, <2>2 DEF ReleaseTransactionContext, nativeVars
    <3>2. ndbOpen[impl[h]]
      BY <2>2 DEF IsClosed
    <3>3. mode[r] = "ROLLBACK" /\ kind[r] \notin Ends
      BY <1>1, <1>3, <2>1, <3>2, Now DEF Opened
    <3>4. kind[r] \in Scans
      BY <1>1, <3>3, Now DEF ModesOK
    <3>5. NoPanic'
      BY <1>1, <3>1, <3>3, <3>4 DEF NoPanic
    <3>6. FreeMeansClosed'
      BY <1>1, <3>1, Now DEF FreeMeansClosed
    <3>7. EndsAreSound'
      BY <1>1, <1>4, <3>1, <3>3, Now DEF EndsAreSound, EndCoversWork, SuccessIsReal, Ends
    <3>8. QED
      BY <3>1, <3>5, <3>6, <3>7 DEF EInv
  <2>3. CASE IsClosed(impl[h]) /\ ~SomeoneWaits
    <3>1. /\ freeList' = freeList \cup {impl[h]} /\ impl' = [impl EXCEPT ![h] = None] /\ status' = answered
          /\ UNCHANGED <<seizeTxQueue, execQueue, ndbOpen, execCount, opCtx, panic>>
      BY <1>5, <2>1, <2>3 DEF ReleaseTransactionContext, GiveBack
    <3>2. ~ndbOpen[impl[h]]
      BY <2>3 DEF IsClosed
    <3>3. impl'[h] = None /\ \A g \in Handler \ {h} : impl'[g] = impl[g]
      BY <1>3, <3>1
    <3>4. seizeTxQueue = <<>>
      BY <2>3 DEF SomeoneWaits
    <3>5. Answers(r, {})
      BY <1>1, <1>2, <1>3, <1>4, <1>6, <2>1, <3>1, <3>2, <3>3, <3>4 DEF Answers
    <3>6. Ran(execQueue', ndbOpen, opCtx')
      BY <1>1, <3>1, Still
    <3>7. QED
      BY <1>1, <3>1, <3>5, <3>6, AnswersEnd
  <2>4. CASE IsClosed(impl[h]) /\ SomeoneWaits
    <3>1. PICK s : s = Head(seizeTxQueue)
      OBVIOUS
    <3>2. PICK g : g = owner[s]
      OBVIOUS
    <3>3. PICK c : c = impl[h]
      OBVIOUS
    <3>4. /\ impl' = [impl EXCEPT ![g] = c, ![h] = None]
          /\ ExecuteSpecific(s, g, kind[s], c, answered)
          /\ seizeTxQueue' = Tail(seizeTxQueue) /\ freeList' = freeList
      BY <1>5, <2>1, <2>4, <3>1, <3>2, <3>3 DEF ReleaseTransactionContext, NextWaiter, HandOver
    <3>5. /\ s \in Request /\ s = seizeTxQueue[1] /\ 1 \in DOMAIN seizeTxQueue
          /\ \A i \in DOMAIN Tail(seizeTxQueue) :
               i + 1 \in DOMAIN seizeTxQueue /\ i + 1 # 1 /\ Tail(seizeTxQueue)[i] = seizeTxQueue[i + 1]
          /\ \A j \in DOMAIN seizeTxQueue : j = 1 \/ \E i \in DOMAIN Tail(seizeTxQueue) : j = i + 1
      <4>1. seizeTxQueue # <<>>
        BY <2>4 DEF SomeoneWaits
      <4>2. /\ s \in Request /\ s = seizeTxQueue[1] /\ 1 \in DOMAIN seizeTxQueue
            /\ DOMAIN seizeTxQueue = 1 .. Len(seizeTxQueue) /\ DOMAIN Tail(seizeTxQueue) = 1 .. Len(seizeTxQueue) - 1
            /\ \A i \in DOMAIN Tail(seizeTxQueue) : i + 1 \in DOMAIN seizeTxQueue /\ Tail(seizeTxQueue)[i] = seizeTxQueue[i + 1]
        BY <1>3, <3>1, <4>1, TailOf
      <4>3. Len(seizeTxQueue) \in Nat
        BY <1>3
      <4>4. \A j \in 1 .. Len(seizeTxQueue) : j = 1 \/ (j - 1 \in 1 .. Len(seizeTxQueue) - 1 /\ j = (j - 1) + 1)
        BY <4>3
      <4>5. \A i \in 1 .. Len(seizeTxQueue) - 1 : i + 1 # 1
        BY <4>3
      <4>6. QED
        BY <4>2, <4>4, <4>5
    <3>6. /\ status[s] = "seizing" /\ impl[g] = None /\ sentSeizeImpl[g] /\ g \in Handler /\ execCount[g] = 0
      <4>1. status[s] = "seizing" /\ impl[g] = None /\ sentSeizeImpl[g]
        BY <1>1, <3>2, <3>5, Now DEF Alive, WaitersOK
      <4>2. g \in Handler
        BY <1>1, <3>2, <3>5, <4>1, Now
      <4>3. execCount[g] = 0
        BY <1>1, <3>2, <3>5, <4>2, Now DEF Seizing
      <4>4. QED
        BY <4>1, <4>2, <4>3
    <3>7. s # r /\ g # h /\ c # None
      BY <1>3, <3>3, <3>6, Now, <1>1
    <3>8. /\ Ran(execQueue', ndbOpen, opCtx') /\ Joined(s, kind[s])
          /\ \/ /\ kind[s] = "autoInc" /\ status' = [answered EXCEPT ![s] = "autoInc"]
                /\ UNCHANGED <<execCount, opCtx>>
             \/ /\ status' = [answered EXCEPT ![s] = "queued"]
                /\ execCount' = [execCount EXCEPT ![g] = @ + 1] /\ opCtx' = [opCtx EXCEPT ![s] = c]
      <4>1. status[s] # "queued" /\ (execCount[g] # 0 => ndbOpen[c]) /\ c \in Context
        BY <1>3, <3>3, <3>6
      <4>2. PICK k : k = kind[s]
        OBVIOUS
      <4>3. ExecuteSpecific(s, g, k, c, answered)
        BY <3>4, <4>2
      <4>4. QED
        BY <1>1, <3>5, <3>6, <4>1, <4>2, <4>3, SpecificRan
    <3>9. /\ impl'[g] = c /\ impl'[h] = None /\ \A f \in Handler \ {g, h} : impl'[f] = impl[f]
      BY <1>3, <3>4, <3>6, <3>7
    <3>10. /\ \A t \in Request \ {r, s} : status'[t] = status[t] /\ opCtx'[t] = opCtx[t]
           /\ status'[r] = "done" /\ opCtx'[r] = opCtx[r]
           /\ \A f \in Handler \ {g} : execCount'[f] = execCount[f]
           /\ \/ status'[s] = "queued" /\ opCtx'[s] = c
              \/ status'[s] = "autoInc" /\ kind[s] \notin Ends /\ execCount'[g] = 0
      <4>1. answered \in [Request -> Status]
        BY <1>3, <1>5 DEF Status
      <4>2. CASE kind[s] = "autoInc" /\ status' = [answered EXCEPT ![s] = "autoInc"] /\ UNCHANGED <<execCount, opCtx>>
        BY <1>6, <3>5, <3>6, <3>7, <4>1, <4>2 DEF Ends
      <4>3. CASE /\ status' = [answered EXCEPT ![s] = "queued"]
                 /\ execCount' = [execCount EXCEPT ![g] = @ + 1] /\ opCtx' = [opCtx EXCEPT ![s] = c]
        BY <1>3, <1>6, <3>5, <3>6, <3>7, <4>1, <4>3
      <4>4. QED
        BY <3>8, <4>2, <4>3
    <3>11. /\ \A i \in DOMAIN seizeTxQueue' : \E j \in DOMAIN seizeTxQueue :
                seizeTxQueue'[i] = seizeTxQueue[j] /\ owner[seizeTxQueue[j]] # g
           /\ \A j \in DOMAIN seizeTxQueue :
                seizeTxQueue[j] = s \/ \E i \in DOMAIN seizeTxQueue' : seizeTxQueue'[i] = seizeTxQueue[j]
      <4>1. \A i, j \in DOMAIN seizeTxQueue : owner[seizeTxQueue[i]] = owner[seizeTxQueue[j]] => i = j
        BY <1>1, Now DEF Alive, WaitersOK
      <4>2. \A j \in DOMAIN seizeTxQueue : j # 1 => owner[seizeTxQueue[j]] # g
        BY <3>2, <3>5, <4>1
      <4>3. QED
        BY <3>4, <3>5, <4>2
    <3>12. ~ndbOpen[impl[h]]
      BY <2>4 DEF IsClosed
    <3>13. PICK W : W = {s}
      OBVIOUS
    <3>14. Answers(r, W)
      <4>1. W \subseteq Request /\ \A t \in Request \ {r} : t \notin W => status'[t] = status[t] /\ opCtx'[t] = opCtx[t]
        BY <3>5, <3>10, <3>13
      <4>2. \A t \in W :
              /\ status[t] = "seizing" /\ impl'[owner[t]] # None /\ impl[owner[t]] = None /\ execCount[owner[t]] = 0
              /\ sentSeizeImpl[owner[t]]
              /\ \/ status'[t] = "queued" /\ opCtx'[t] = impl'[owner[t]]
                 \/ status'[t] = "autoInc" /\ kind[t] \notin Ends /\ execCount'[owner[t]] = 0
        BY <3>2, <3>6, <3>7, <3>9, <3>10, <3>13
      <4>3. \A f \in Handler : (\A t \in W : owner[t] # f) =>
              execCount'[f] = execCount[f] /\ (f # owner[r] => impl'[f] = impl[f])
        BY <1>2, <3>2, <3>9, <3>10, <3>13
      <4>4. /\ \A i \in DOMAIN seizeTxQueue' : \E j \in DOMAIN seizeTxQueue :
                 seizeTxQueue'[i] = seizeTxQueue[j] /\ \A t \in W : owner[seizeTxQueue[j]] # owner[t]
            /\ \A j \in DOMAIN seizeTxQueue :
                 seizeTxQueue[j] \in W \/ \E i \in DOMAIN seizeTxQueue' : seizeTxQueue'[i] = seizeTxQueue[j]
        BY <3>2, <3>11, <3>13
      <4>5. impl'[owner[r]] = None /\ ~ndbOpen[impl[owner[r]]] /\ \A x \in freeList' : x \in freeList
        BY <1>2, <3>4, <3>9, <3>12
      <4>6. QED
        BY <1>1, <1>3, <1>4, <2>1, <3>10, <4>1, <4>2, <4>3, <4>4, <4>5 DEF Answers
    <3>15. \E t \in W : Joined(t, kind[t])
      BY <3>8, <3>13
    <3>16. QED
      BY <1>1, <3>8, <3>14, <3>15, AnswersEnd
  <2>5. QED
    BY <2>2, <2>3, <2>4
<1>9. QED
  BY <1>7, <1>8

-----------------------------------------------------------------------------
(* The theorems.                                                           *)

LEMMA InitEInv == Init => EInv
<1> SUFFICES ASSUME Init PROVE EInv
  OBVIOUS
<1>1. IInv
  BY InitIInv
<1>2. /\ created = {} /\ tx = None /\ execQueue = <<>> /\ seizeTxQueue = <<>> /\ freeList = {} /\ panic = "no"
      /\ \A r \in Request : status[r] = "new" /\ owner[r] = None /\ kind[r] = None /\ mode[r] = None
                            /\ result[r] = None /\ work[r] = None
      /\ \A h \in Handler : ~sentSeizeImpl[h] /\ impl[h] = None /\ execCount[h] = 0
      /\ None \notin Handler /\ None # "ok"
  BY ConstantsOK DEF Init
<1>3. \A r \in Request : ~Closer(r) /\ ~Active(r)
  BY <1>2 DEF Closer, Active
<1>4. OneByOne /\ ModesOK /\ OwnContext /\ QueueOpen
  BY <1>2, <1>3, ConstantsOK DEF OneByOne, ModesOK, OwnContext, QueueOpen
<1>5. OutcomesOK /\ Opened /\ Seizing /\ Endings
  BY <1>2, <1>3 DEF OutcomesOK, Opened, Seizing, Endings
<1>6. EndsAreSound /\ FreeMeansClosed /\ NoPanic
  BY <1>2 DEF EndsAreSound, EndCoversWork, SuccessIsReal, FreeMeansClosed, NoPanic
<1>7. QED
  BY <1>1, <1>4, <1>5, <1>6 DEF EInv, Orderly

LEMMA StutterEnds ==
  ASSUME EInv, IInv', UNCHANGED vars
  PROVE  EInv'
<1>1. UNCHANGED <<created, autocommit, sentSeizeImpl, impl, execCount, txError, tx,
                  execQueue, seizeTxQueue, freeList, ndbOpen, owner, kind, mode, status, result, opCtx,
                  panic, nativeOk, work>>
  BY DEF vars, handlerVars, queueVars, nativeVars, requestVars, historyVars
<1>2. FreeMeansClosed' /\ NoPanic' /\ EndsAreSound'
  BY <1>1 DEF EInv, FreeMeansClosed, NoPanic, EndsAreSound, EndCoversWork, SuccessIsReal
<1>3. ASSUME Orderly PROVE Orderly'
  <2>1. \A r \in Request : (Closer(r)' <=> Closer(r)) /\ (Active(r)' <=> Active(r))
    BY <1>1 DEF Closer, Active
  <2>2. OneByOne' /\ ModesOK' /\ OwnContext' /\ OutcomesOK' /\ QueueOpen'
    BY <1>1, <1>3, <2>1 DEF Orderly, OneByOne, ModesOK, OwnContext, OutcomesOK, QueueOpen
  <2>3. Opened'
    BY <1>1, <1>3 DEF Orderly, Opened, Unanswered
  <2>4. Seizing'
    BY <1>1, <1>3, <2>1 DEF Orderly, Seizing
  <2>5. Endings'
    <3>1. \A r \in Request : NeverStarted(owner[r]) => NeverStarted(owner[r])'
      BY <1>1 DEF NeverStarted
    <3>2. QED
      BY <1>1, <1>3, <2>1, <3>1 DEF Orderly, Endings
  <2>6. QED
    BY <2>2, <2>3, <2>4, <2>5 DEF Orderly
<1>4. QED
  BY <1>1, <1>2, <1>3 DEF EInv

LEMMA NextEnds == ~Pipelined /\ EInv /\ [Next]_vars => EInv'
<1> SUFFICES ASSUME ~Pipelined, EInv, [Next]_vars PROVE EInv'
  OBVIOUS
<1>0. IInv'
  BY NextKeeps DEF EInv
<1>1. CASE Begin
  BY <1>0, <1>1, BeginEnds
<1>2. ASSUME NEW r \in Request, NEW h \in Handler, NEW k \in Kinds, Execute(r, h, k)
      PROVE  EInv'
  BY <1>0, <1>2, ExecuteEnds
<1>3. ASSUME NEW r \in Request, NEW k \in Ends, EndTransaction(r, k) PROVE EInv'
  BY <1>0, <1>3, EndTransactionEnds
<1>4. ASSUME NEW r \in Request, AutoIncDone(r) \/ Reply(r) PROVE EInv'
  BY <1>0, <1>4, AutoIncDoneEnds, ReplyEnds
<1>5. ASSUME NEW r \in Request, NEW o, QueryDone(r, o) PROVE EInv'
  BY <1>0, <1>5, QueryDoneEnds
<1>6. ASSUME NEW ok \in BOOLEAN, ExecDone(ok) PROVE EInv'
  BY <1>0, <1>6, ExecDoneEnds
<1>7. CASE Scan
  BY <1>0, <1>7, ScanEnds
<1>8. CASE UNCHANGED vars
  BY <1>0, <1>8, StutterEnds
<1>9. QED
  BY <1>1, <1>2, <1>3, <1>4, <1>5, <1>6, <1>7, <1>8 DEF Next, User, Native

\* The order of calls and endings holds of every state, when the user waits for the
\* answer of each call on a begun transaction.
THEOREM OrderIsKept ==
  ASSUME ~Pipelined
  PROVE  Spec => []EInv
<1>1. Init => EInv
  BY InitEInv
<1>2. EInv /\ [Next]_vars => EInv'
  BY NextEnds
<1>3. QED
  BY <1>1, <1>2, PTL DEF Spec

\* Every call on execQueue works on the context that its handler holds, a context that
\* goes to SessionImpl's free list has no NdbTransaction, and of the assertions in
\* NdbSession.js and TransactionImpl.cpp none fails but the one after a failed fetch and,
\* where startTransaction can fail, that of the execute that opens the transaction.
THEOREM CallSoundness ==
  ASSUME ~Pipelined
  PROVE  Spec => []CallsAreSound
<1>1. EInv => CallsAreSound
  <2> SUFFICES ASSUME EInv PROVE CallsAreSound
    OBVIOUS
  <2>1. ASSUME panic = "no", NEW i \in DOMAIN execQueue, NEW r, r = execQueue[i].req
        PROVE  impl[owner[r]] # None /\ impl[owner[r]] = opCtx[r]
    <3>1. execQueue[i] \in Call /\ status[r] = "queued"
      BY <2>1, Now DEF TypeOK, Alive, QueueOK, Queued
    <3>2. r \in Request
      BY <2>1, <3>1 DEF Call
    <3>3. QED
      BY <2>1, <3>1, <3>2, Now DEF OwnContext
  <2>2. CallsOwnTheirContext
    BY <2>1 DEF CallsOwnTheirContext
  <2>3. QED
    BY <2>2 DEF EInv, CallsAreSound
<1>2. QED
  BY <1>1, OrderIsKept, PTL

\* A commit or rollback that has answered (onExecute of NdbTransactionHandler.js) leaves
\* nothing of its transaction pending or to run, and a commit that answers with success
\* was one in NDB.
THEOREM EndSoundness ==
  ASSUME ~Pipelined
  PROVE  Spec => []EndsAreSound
<1>1. EInv => EndsAreSound
  BY DEF EInv
<1>2. QED
  BY <1>1, OrderIsKept, PTL

\* A handler that the session has done with has given back its transaction context, or
\* has a scan that never started, whose onExecNoCommit releases nothing.
THEOREM NoContextLeaks ==
  ASSUME ~Pipelined
  PROVE  Spec => []NoLeak
<1>1. EInv => NoLeak
  <2> SUFFICES ASSUME EInv, panic = "no", NEW h \in created \ {tx}, Unanswered(h) = {}, ~NeverStarted(h)
               PROVE  impl[h] = None
    BY DEF NoLeak
  <2>1. PICK r \in Request : Closer(r) /\ owner[r] = h
    BY Now DEF Endings
  <2>2. status[r] = "done"
    <3>1. status[r] # "new"
      BY <2>1, Now DEF Closer
    <3>2. QED
      BY <2>1, <3>1 DEF Unanswered
  <2>3. QED
    BY <2>1, <2>2, Now DEF Endings
<1>2. QED
  BY <1>1, OrderIsKept, PTL
=============================================================================
