--------------------------- MODULE QueuedAsyncCall ---------------------------
(***************************************************************************)
(* database-jones/Adapter/common/QueuedAsyncCall.js: one queue of          *)
(* asynchronous calls and the callback that advances it.                   *)
(*                                                                         *)
(* JavaScript runs one turn at a time.  A turn is started by the native    *)
(* completion of a call, which invokes the wrappedCallback of that call;   *)
(* the turn then passes through the phases of wrappedCallback: shift and   *)
(* note the next call, run the preCallback, run the next call, run the     *)
(* post or main callback.  User code runs in the two callback phases and,  *)
(* when no call is completing, in turns of its own; in all three it may    *)
(* enqueue further calls on the same queue.                                *)
(***************************************************************************)
EXTENDS Sequences, Naturals

CONSTANTS Call,  \* the QueuedAsyncCall objects of one queue
          None   \* "undefined": no next call

ASSUME NoneIsNoCall == None \notin Call

VARIABLES
  queue,     \* the array of calls
  running,   \* the calls whose run() was called and that have not completed
  runs,      \* history: how often run() was called on each call
  returned,  \* history: the calls whose wrappedCallback was invoked
  phase,     \* of the turn: "idle", "pre" or "main" callback
  nextCall   \* local variable of wrappedCallback

vars == <<queue, running, runs, returned, phase, nextCall>>

Members == {queue[i] : i \in DOMAIN queue}

\* Types, and that a call object is either waiting in the array or returned.
TypeOK ==
  /\ queue \in Seq(Call)
  /\ running \subseteq Call
  /\ runs \in [Call -> Nat]
  /\ returned \subseteq Call
  /\ phase \in {"idle", "pre", "main"}
  /\ nextCall \in Call \cup {None}
  /\ Members \cap returned = {}

Init ==
  /\ queue = <<>>
  /\ running = {}
  /\ runs = [c \in Call |-> 0]
  /\ returned = {}
  /\ phase = "idle"
  /\ nextCall = None

\* this.run()
Run(c) == /\ running' = running \cup {c}
          /\ runs' = [runs EXCEPT ![c] = @ + 1]

\* Mutant: the call is put in front.
EnqueueInFront(c) ==
  /\ c \notin Members \cup returned
  /\ queue' = <<c>> \o queue
  /\ IF queue = <<>> THEN Run(c) ELSE UNCHANGED <<running, runs>>
  /\ UNCHANGED <<returned, phase, nextCall>>

\* QueuedAsyncCall.prototype.enqueue, by user code in any phase.  Every call
\* is constructed for one use.
Enqueue(c) ==
  /\ c \notin Members \cup returned
  /\ queue' = Append(queue, c)
  /\ IF queue = <<>> THEN Run(c) ELSE UNCHANGED <<running, runs>>
  /\ UNCHANGED <<returned, phase, nextCall>>

\* Array.prototype.shift
Shift(q) == IF q = <<>> THEN q ELSE Tail(q)

\* Mutant: the completed call is counted as waiting.
NoteNextIfTwo(q) == IF Len(q) > 1 THEN Head(q) ELSE None

\* The next call is noted before the preCallback runs.
NoteNext(q) == IF q # <<>> THEN Head(q) ELSE None

\* The native part of a running call completes and its wrappedCallback takes
\* the head of the queue for "our own QueuedAsyncCall".
Complete(c) ==
  /\ phase = "idle"
  /\ c \in running
  /\ queue' = Shift(queue)
  /\ running' = running \ {c}
  /\ returned' = returned \cup {c}
  /\ nextCall' = NoteNext(queue')
  /\ phase' = "pre"
  /\ UNCHANGED runs

\* Mutant: the next call is read after the preCallback.
AdvanceReadsQueue ==
  /\ phase = "pre"
  /\ phase' = "main"
  /\ nextCall' = None
  /\ IF queue # <<>> THEN Run(Head(queue)) ELSE UNCHANGED <<running, runs>>
  /\ UNCHANGED <<queue, returned>>

\* "Advance the queue": the preCallback has returned.
Advance ==
  /\ phase = "pre"
  /\ phase' = "main"
  /\ nextCall' = None
  /\ IF nextCall # None THEN Run(nextCall) ELSE UNCHANGED <<running, runs>>
  /\ UNCHANGED <<queue, returned>>

\* The post or main callback returns; the turn ends.
EndTurn ==
  /\ phase = "main"
  /\ phase' = "idle"
  /\ UNCHANGED <<queue, running, runs, returned, nextCall>>

Next == \/ \E c \in Call : Enqueue(c) \/ Complete(c)
        \/ Advance
        \/ EndTurn

\* A turn runs to its end, and the native side completes what it has started.
Fairness == /\ WF_vars(Advance)
            /\ WF_vars(EndTurn)
            /\ WF_vars(\E c \in Call : Complete(c))

Spec == Init /\ [][Next]_vars /\ Fairness

-----------------------------------------------------------------------------

\* "All of these have to run one at a time" (QueuedAsyncCall.js:27-31): two
\* calls of a queue are never in progress together, however callbacks and
\* enqueues nest.
OneAtATime == \A c, d \in running : c = d

\* wrappedCallback takes the head of the queue for "our own QueuedAsyncCall"
\* (QueuedAsyncCall.js:59): the call that is running is the head.
CompletesItsOwn == \A c \in running : queue # <<>> /\ Head(queue) = c

\* No call is run twice: the call noted before the preCallback and the one a
\* nested enqueue runs at once are never the same ("recursion is tricky").
RunsOnce == \A c \in Call : runs[c] <= 1

\* The queue never stalls: when calls are waiting, one of them is running or
\* the current turn is about to run it.
NeverStalls == queue # <<>> => running # {} \/ (phase = "pre" /\ nextCall # None)

\* The calls of a queue run one at a time, each takes itself from the queue, none
\* runs twice, and the queue does not stall, wherever in wrappedCallback user code
\* enqueues more of them.
QueueIsSafe == TypeOK /\ OneAtATime /\ CompletesItsOwn /\ RunsOnce /\ NeverStalls

\* Every call that is enqueued returns.
EveryCallReturns == \A c \in Call : c \in Members ~> c \in returned

-----------------------------------------------------------------------------
\* The queue implements the serial executor.

ActiveCall == IF running = {} THEN None ELSE CHOOSE c \in running : TRUE

Executor == INSTANCE SerialExecutor WITH
  pending  <- IF running = {} \/ queue = <<>> THEN queue ELSE Tail(queue),
  active   <- ActiveCall,
  finished <- returned

\* wrappedCallback and enqueue implement a serial executor: every step is a
\* submission, a start in order of submission, a return, or invisible.
ImplementsExecutor == Executor!Spec
=============================================================================
