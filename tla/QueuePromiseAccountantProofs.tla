-------------------- MODULE QueuePromiseAccountantProofs --------------------
(***************************************************************************)
(* Proofs about the execution queues, for every set of calls, about        *)
(* promises, for every set of promises, results and reasons, and about the *)
(* counters of the accountant, for any number of contexts and nodes.       *)
(***************************************************************************)
EXTENDS QueuedAsyncCall, Promises, TransactionAccountant, SequenceTheorems, FiniteSetTheorems, TLAPS

-----------------------------------------------------------------------------
(* The execution queues.                                                   *)

\* The turn has noted a next call and has not run it yet.
AboutToAdvance == phase = "pre" /\ nextCall # None

\* Between the shift and the advance nothing runs and the noted call is still
\* the head; at all other times exactly the head of the queue runs.
HeadRuns ==
  /\ AboutToAdvance => queue # <<>> /\ nextCall = Head(queue) /\ running = {}
  /\ ~AboutToAdvance => running = IF queue = <<>> THEN {} ELSE {Head(queue)}
  /\ phase # "pre" => nextCall = None

Distinct == \A i, j \in DOMAIN queue : queue[i] = queue[j] => i = j

CountsRuns == \A c \in Call : runs[c] = IF c \in running \cup returned THEN 1 ELSE 0

\* The inductive invariant.
IInv == TypeOK /\ HeadRuns /\ Distinct /\ CountsRuns

-----------------------------------------------------------------------------
\* Facts about the sequence operators the queue uses.

\* Pushing on an array keeps its head and grows its tail.
LEMMA PushFacts ==
  ASSUME NEW S, NEW q \in Seq(S), NEW e \in S
  PROVE  /\ Append(q, e) \in Seq(S)
         /\ Append(q, e) # <<>>
         /\ DOMAIN Append(q, e) = DOMAIN q \cup {Len(q) + 1}
         /\ \A i \in DOMAIN q : Append(q, e)[i] = q[i]
         /\ Append(q, e)[Len(q) + 1] = e
         /\ q = <<>> => Head(Append(q, e)) = e /\ Tail(Append(q, e)) = <<>>
         /\ q # <<>> => /\ Head(Append(q, e)) = Head(q)
                        /\ Tail(Append(q, e)) = Append(Tail(q), e)
<1>1. /\ Append(q, e) \in Seq(S)
      /\ Append(q, e) # <<>>
      /\ Len(Append(q, e)) = Len(q) + 1
      /\ \A i \in 1 .. Len(q) : Append(q, e)[i] = q[i]
      /\ Append(q, e)[Len(q) + 1] = e
  BY AppendProperties
<1>2. Len(q) \in Nat /\ DOMAIN q = 1 .. Len(q)
  BY LenProperties
<1>3. DOMAIN Append(q, e) = DOMAIN q \cup {Len(q) + 1}
  BY <1>1, <1>2
<1>4. CASE q = <<>>
  <2>1. Head(Append(q, e)) = e
    BY <1>1, <1>2, <1>4
  <2>2. Tail(Append(q, e)) = <<>>
    BY <1>1, <1>2, <1>4, HeadTailProperties, EmptySeq
  <2> QED
    BY <2>1, <2>2, <1>1, <1>2, <1>3, <1>4
<1>5. CASE q # <<>>
  <2>1. Len(q) > 0
    BY <1>2, <1>5, EmptySeq
  <2>2. Head(Append(q, e)) = Head(q)
    BY <1>1, <1>2, <2>1
  <2>3. /\ Tail(q) \in Seq(S)
        /\ Len(Tail(q)) = Len(q) - 1
        /\ \A i \in 1 .. Len(Tail(q)) : Tail(q)[i] = q[i + 1]
    BY <1>5, HeadTailProperties
  <2>4. /\ Append(Tail(q), e) \in Seq(S)
        /\ Len(Append(Tail(q), e)) = Len(q)
        /\ \A i \in 1 .. Len(q) - 1 : Append(Tail(q), e)[i] = q[i + 1]
        /\ Append(Tail(q), e)[Len(q)] = e
    BY <2>3, <1>2, <2>1, AppendProperties
  <2>5. /\ Tail(Append(q, e)) \in Seq(S)
        /\ Len(Tail(Append(q, e))) = Len(q)
        /\ \A i \in 1 .. Len(q) : Tail(Append(q, e))[i] = Append(q, e)[i + 1]
    BY <1>1, <1>2, HeadTailProperties
  <2>6. \A i \in 1 .. Len(q) : Tail(Append(q, e))[i] = Append(Tail(q), e)[i]
    <3> TAKE i \in 1 .. Len(q)
    <3>1. CASE i = Len(q)
      BY <1>1, <1>2, <2>1, <2>4, <2>5, <3>1
    <3>2. CASE i # Len(q)
      <4>1. i \in 1 .. Len(q) - 1 /\ i + 1 \in 1 .. Len(q)
        <5>1. \A n \in Nat : \A j \in 1 .. n :
                j # n => j \in 1 .. n - 1 /\ j + 1 \in 1 .. n
          OBVIOUS
        <5> QED
          BY <1>2, <3>2, <5>1
      <4> QED
        BY <1>1, <2>4, <2>5, <4>1
    <3> QED
      BY <3>1, <3>2
  <2>7. Tail(Append(q, e)) = Append(Tail(q), e)
    BY <2>4, <2>5, <2>6, SeqEqual
  <2> QED
    BY <2>2, <2>7, <1>1, <1>2, <1>3, <1>5
<1> QED
  BY <1>4, <1>5

\* Shifting an array drops its first element and moves the others down.
LEMMA ShiftFacts ==
  ASSUME NEW S, NEW q \in Seq(S), q # <<>>
  PROVE  /\ Shift(q) = Tail(q)
         /\ Tail(q) \in Seq(S)
         /\ Head(q) \in S
         /\ 1 \in DOMAIN q /\ Head(q) = q[1]
         /\ \A i \in DOMAIN Tail(q) :
              i + 1 \in DOMAIN q /\ i + 1 # 1 /\ Tail(q)[i] = q[i + 1]
         /\ Tail(q) # <<>> => 1 \in DOMAIN Tail(q) /\ Head(Tail(q)) = Tail(q)[1]
  BY DEF Shift

-----------------------------------------------------------------------------

LEMMA InitIInv == Init => IInv
  BY NoneIsNoCall DEF Init, IInv, TypeOK, HeadRuns, AboutToAdvance, Distinct,
     CountsRuns, Members

LEMMA EnqueueIInv ==
  ASSUME IInv, NEW c \in Call, Enqueue(c)
  PROVE  IInv'
<1> USE DEF IInv
<1>1. /\ queue \in Seq(Call) /\ running \subseteq Call /\ runs \in [Call -> Nat]
      /\ c \notin Members /\ c \notin returned
      /\ queue' = Append(queue, c)
      /\ UNCHANGED <<returned, phase, nextCall>>
  BY DEF TypeOK, Enqueue
<1>2. /\ queue' \in Seq(Call)
      /\ queue' # <<>>
      /\ DOMAIN queue' = DOMAIN queue \cup {Len(queue) + 1}
      /\ \A i \in DOMAIN queue : queue'[i] = queue[i]
      /\ queue'[Len(queue) + 1] = c
      /\ queue = <<>> => Head(queue') = c
      /\ queue # <<>> => Head(queue') = Head(queue)
  BY <1>1, PushFacts
<1>3. Members' = Members \cup {c}
  BY <1>1, <1>2 DEF Members
<1>4. Distinct'
  BY <1>1, <1>2 DEF Distinct, Members
<1>5. CASE queue = <<>>
  <2>1. running' = {c} /\ runs' = [runs EXCEPT ![c] = @ + 1]
    BY <1>1, <1>5 DEF Enqueue, Run, HeadRuns, AboutToAdvance
  <2>2. ~AboutToAdvance
    BY <1>5 DEF HeadRuns
  <2>3. running = {}
    BY <1>5, <2>2 DEF HeadRuns
  <2>4. HeadRuns'
    BY <1>1, <1>2, <1>5, <2>1, <2>2 DEF HeadRuns, AboutToAdvance
  <2>5. runs[c] = 0
    BY <1>1, <2>3 DEF CountsRuns
  <2>6. CountsRuns'
    BY <1>1, <2>1, <2>3, <2>5 DEF CountsRuns
  <2> QED
    BY <1>1, <1>2, <1>3, <1>4, <2>1, <2>4, <2>6 DEF TypeOK
<1>6. CASE queue # <<>>
  <2>1. UNCHANGED <<running, runs>>
    BY <1>6 DEF Enqueue
  <2>2. HeadRuns'
    BY <1>1, <1>2, <1>6, <2>1 DEF HeadRuns, AboutToAdvance
  <2> QED
    BY <1>1, <1>2, <1>3, <1>4, <2>1, <2>2 DEF TypeOK, CountsRuns
<1> QED
  BY <1>5, <1>6

LEMMA CompleteIInv ==
  ASSUME IInv, NEW c \in Call, Complete(c)
  PROVE  IInv'
<1> USE DEF IInv
<1>1. /\ queue # <<>> /\ c = Head(queue) /\ running = {c}
  BY DEF Complete, HeadRuns, AboutToAdvance
<1>2. /\ queue \in Seq(Call) /\ returned \subseteq Call
      /\ phase' = "pre" /\ running' = {} /\ returned' = returned \cup {c}
      /\ runs' = runs /\ queue' = Tail(queue)
      /\ nextCall' = IF queue' # <<>> THEN Head(queue') ELSE None
  BY <1>1 DEF Complete, TypeOK, Shift, NoteNext
<1>3. /\ queue' \in Seq(Call)
      /\ 1 \in DOMAIN queue /\ c = queue[1]
      /\ \A i \in DOMAIN queue' :
           i + 1 \in DOMAIN queue /\ i + 1 # 1 /\ queue'[i] = queue[i + 1]
      /\ queue' # <<>> => 1 \in DOMAIN queue' /\ Head(queue') = queue'[1]
  BY <1>1, <1>2, ShiftFacts
<1>4. Head(queue') \in Call \/ queue' = <<>>
  BY <1>3, ShiftFacts
<1>5. Members' \subseteq Members \ {c}
  BY <1>3 DEF Members, Distinct
<1>6. Distinct'
  <2> SUFFICES ASSUME NEW i \in DOMAIN queue', NEW j \in DOMAIN queue',
                      queue'[i] = queue'[j]
               PROVE  i = j
    BY DEF Distinct
  <2>1. i \in Int /\ j \in Int
    BY <1>3, LenProperties
  <2> QED
    BY <1>3, <2>1 DEF Distinct
<1>7. HeadRuns'
  BY <1>2, <1>4, NoneIsNoCall DEF HeadRuns, AboutToAdvance
<1>8. CountsRuns'
  BY <1>1, <1>2 DEF CountsRuns
<1>9. TypeOK'
  BY <1>2, <1>3, <1>4, <1>5 DEF TypeOK
<1> QED
  BY <1>6, <1>7, <1>8, <1>9

LEMMA AdvanceIInv ==
  ASSUME IInv, Advance
  PROVE  IInv'
<1> USE DEF IInv
<1>1. /\ phase = "pre" /\ phase' = "main" /\ nextCall' = None
      /\ UNCHANGED <<queue, returned>>
  BY DEF Advance
<1>2. Members' = Members /\ Distinct'
  BY <1>1 DEF Members, Distinct
<1>3. CASE nextCall # None
  <2>1. /\ queue # <<>> /\ nextCall = Head(queue) /\ running = {}
        /\ running' = {nextCall} /\ runs' = [runs EXCEPT ![nextCall] = @ + 1]
    BY <1>1, <1>3 DEF Advance, Run, HeadRuns, AboutToAdvance
  <2>2. nextCall \in Members /\ nextCall \in Call /\ nextCall \notin returned
    BY <2>1, ShiftFacts DEF TypeOK, Members
  <2>3. CountsRuns'
    BY <1>1, <2>1, <2>2 DEF CountsRuns, TypeOK
  <2>4. HeadRuns'
    BY <1>1, <2>1 DEF HeadRuns, AboutToAdvance
  <2> QED
    BY <1>1, <1>2, <2>1, <2>2, <2>3, <2>4 DEF TypeOK
<1>4. CASE nextCall = None
  <2>1. UNCHANGED <<running, runs>>
    BY <1>4 DEF Advance
  <2> QED
    BY <1>1, <1>2, <1>4, <2>1 DEF TypeOK, CountsRuns, HeadRuns, AboutToAdvance
<1> QED
  BY <1>3, <1>4

LEMMA NextIInv == IInv /\ [Next]_vars => IInv'
<1> SUFFICES ASSUME IInv, [Next]_vars PROVE IInv'
  OBVIOUS
<1>1. ASSUME NEW c \in Call, Enqueue(c) PROVE IInv'
  BY <1>1, EnqueueIInv
<1>2. ASSUME NEW c \in Call, Complete(c) PROVE IInv'
  BY <1>2, CompleteIInv
<1>3. CASE Advance
  BY <1>3, AdvanceIInv
<1>4. CASE EndTurn
  BY <1>4 DEF EndTurn, IInv, TypeOK, Members, HeadRuns, AboutToAdvance,
     Distinct, CountsRuns
<1>5. CASE UNCHANGED vars
  BY <1>5 DEF vars, IInv, TypeOK, Members, HeadRuns, AboutToAdvance,
     Distinct, CountsRuns
<1> QED
  BY <1>1, <1>2, <1>3, <1>4, <1>5 DEF Next

THEOREM InvarianceOfQueue == Spec => []IInv
<1>1. Init => IInv
  BY InitIInv
<1>2. IInv /\ [Next]_vars => IInv'
  BY NextIInv
<1> QED
  BY <1>1, <1>2, PTL DEF Spec

\* Two calls of a queue are never in progress together.
THEOREM MutualExclusion == Spec => []OneAtATime
<1>1. IInv => OneAtATime
  BY DEF IInv, HeadRuns, OneAtATime
<1> QED
  BY <1>1, InvarianceOfQueue, PTL

\* The running call is the one wrappedCallback will take from the queue.
THEOREM OwnCompletion == Spec => []CompletesItsOwn
<1>1. IInv => CompletesItsOwn
  BY DEF IInv, HeadRuns, CompletesItsOwn
<1> QED
  BY <1>1, InvarianceOfQueue, PTL

\* No call is run twice.
THEOREM SingleRun == Spec => []RunsOnce
<1>1. CountsRuns => RunsOnce
  <2> SUFFICES ASSUME CountsRuns, NEW c \in Call PROVE runs[c] <= 1
    BY DEF RunsOnce
  <2>1. runs[c] = 0 \/ runs[c] = 1
    BY DEF CountsRuns
  <2> QED
    BY <2>1
<1>2. IInv => RunsOnce
  BY <1>1 DEF IInv
<1> QED
  BY <1>2, InvarianceOfQueue, PTL

\* A queue with waiting calls has a running one, or is about to run one.
THEOREM NoStall == Spec => []NeverStalls
<1>1. IInv => NeverStalls
  BY DEF IInv, HeadRuns, NeverStalls, AboutToAdvance
<1> QED
  BY <1>1, InvarianceOfQueue, PTL

\* wrappedCallback and enqueue keep all of these together.
THEOREM QueueSafety == Spec => []QueueIsSafe
<1>1. IInv => TypeOK
  BY DEF IInv
<1>2. QueueIsSafe <=> TypeOK /\ OneAtATime /\ CompletesItsOwn /\ RunsOnce /\ NeverStalls
  BY DEF QueueIsSafe
<1> QED
  BY <1>1, <1>2, InvarianceOfQueue, MutualExclusion, OwnCompletion, SingleRun, NoStall, PTL

-----------------------------------------------------------------------------
\* The refinement, without its liveness part: the queue and its callbacks
\* implement the serial executor.

\* Under the invariant the refinement mapping has this simple form.
MappingForm ==
  /\ running = {} => ActiveCall = None
  /\ running # {} => /\ queue # <<>>
                     /\ ActiveCall = Head(queue)
                     /\ ActiveCall \in Call
                     /\ running = {Head(queue)}
  /\ queue = <<>> => running = {}

LEMMA MappingFacts == IInv => MappingForm
<1> SUFFICES ASSUME IInv PROVE MappingForm
  OBVIOUS
<1>1. running = {} \/ (queue # <<>> /\ running = {Head(queue)})
  BY DEF IInv, HeadRuns
<1>2. running # {} => ActiveCall \in running
  BY DEF ActiveCall
<1> QED
  BY <1>1, <1>2 DEF ActiveCall, IInv, TypeOK, HeadRuns, MappingForm

LEMMA MappingFactsNext == IInv' => MappingForm'
BY MappingFacts, PTL

THEOREM Refinement == Spec => Executor!Init /\ [][Executor!Next]_Executor!vars
<1>1. Init => Executor!Init
  BY DEF Init, Executor!Init, ActiveCall
<1>2. IInv /\ IInv' /\ [Next]_vars => [Executor!Next]_Executor!vars
  <2> SUFFICES ASSUME IInv, IInv', [Next]_vars
               PROVE  Executor!Next \/ UNCHANGED Executor!vars
    BY DEF Executor!vars
  <2> DEFINE pend == IF running = {} \/ queue = <<>> THEN queue ELSE Tail(queue)
  <2>0. MappingForm /\ MappingForm'
    BY MappingFacts, MappingFactsNext
  <2> USE DEF MappingForm
  <2>1. ASSUME NEW c \in Call, Enqueue(c)
        PROVE  Executor!Next \/ UNCHANGED Executor!vars
    <3>1. /\ queue \in Seq(Call) /\ c \notin Members /\ c \notin returned
          /\ queue' = Append(queue, c) /\ returned' = returned
          /\ queue = <<>> => running' = running \cup {c}
          /\ queue # <<>> => running' = running
      BY <2>1 DEF Enqueue, Run, IInv, TypeOK
    <3>2. /\ queue' # <<>>
          /\ queue = <<>> => Head(queue') = c /\ Tail(queue') = <<>>
          /\ queue # <<>> => /\ Head(queue') = Head(queue)
                             /\ Tail(queue') = Append(Tail(queue), c)
      BY <3>1, PushFacts
    <3>3. c # ActiveCall
      <4>1. queue # <<>> => Head(queue) \in Members
        BY <3>1, ShiftFacts DEF Members
      <4> QED
        BY <2>0, <3>1, <4>1, NoneIsNoCall
    <3>4. \A i \in DOMAIN pend : pend[i] \in Members
      <4>1. queue # <<>> => \A i \in DOMAIN Tail(queue) :
                                i + 1 \in DOMAIN queue /\ Tail(queue)[i] = queue[i + 1]
        BY <3>1, ShiftFacts
      <4> QED
        BY <4>1 DEF Members
    <3>5. c \notin Executor!InOrder \cup returned \cup {ActiveCall}
      BY <3>1, <3>3, <3>4 DEF Executor!InOrder
    <3>6. IF ActiveCall = None /\ pend = <<>>
          THEN ActiveCall' = c /\ pend' = pend
          ELSE pend' = Append(pend, c) /\ ActiveCall' = ActiveCall
      BY <2>0, <3>1, <3>2, NoneIsNoCall
    <3> QED
      BY <3>1, <3>5, <3>6 DEF Executor!Next, Executor!Submit
  <2>2. ASSUME NEW c \in Call, Complete(c)
        PROVE  Executor!Next \/ UNCHANGED Executor!vars
    <3>1. /\ queue # <<>> /\ c = Head(queue) /\ running = {c}
          /\ running' = {} /\ returned' = returned \cup {c} /\ queue' = Tail(queue)
      BY <2>0, <2>2 DEF Complete, Shift
    <3>2. ActiveCall = c /\ ActiveCall # None /\ ActiveCall' = None
      BY <2>0, <3>1, NoneIsNoCall
    <3>3. pend = Tail(queue) /\ pend' = Tail(queue)
      BY <3>1
    <3> QED
      BY <3>1, <3>2, <3>3 DEF Executor!Next, Executor!Finish
  <2>3. CASE Advance
    <3>1. CASE nextCall = None
      <4>1. UNCHANGED <<queue, running, returned>>
        BY <2>3, <3>1 DEF Advance
      <4> QED
        BY <2>0, <4>1 DEF Executor!vars
    <3>2. CASE nextCall # None
      <4>1. /\ queue # <<>> /\ nextCall = Head(queue) /\ running = {}
            /\ running' = {Head(queue)} /\ UNCHANGED <<queue, returned>>
        BY <2>3, <3>2 DEF Advance, Run, IInv, HeadRuns, AboutToAdvance
      <4>2. ActiveCall = None /\ ActiveCall' = Head(queue)
        BY <2>0, <4>1
      <4> QED
        BY <4>1, <4>2 DEF Executor!Next, Executor!Start
    <3> QED
      BY <3>1, <3>2
  <2>4. CASE EndTurn \/ UNCHANGED vars
    <3>1. UNCHANGED <<queue, running, returned>>
      BY <2>4 DEF EndTurn, vars
    <3> QED
      BY <2>0, <3>1 DEF Executor!vars
  <2> QED
    BY <2>1, <2>2, <2>3, <2>4 DEF Next
<1> QED
  BY <1>1, <1>2, InvarianceOfQueue, PTL DEF Spec

-----------------------------------------------------------------------------
(***************************************************************************)
(* Promises are sound, for any set of promises, results and errors.        *)
(*                                                                         *)
(* That nothing throws is not inductive: it needs to be known that a       *)
(* promise which then has returned is in one hand at a time - of the       *)
(* callback that is to run, of the promise or of the thenable that it has  *)
(* returned - until that settles it.  That callbacks run in the order of   *)
(* the calls of then needs the order of those still in the list of their   *)
(* promise or among the immediates.                                        *)
(***************************************************************************)

\* The callbacks of a settled promise have left its list.
Lists(out, lis) ==
  \A p \in Promise :
    /\ out[p] # Unsettled => lis[p] = <<>>
    /\ \A i \in 1..Len(lis[p]) : lis[p][i].of = p

\* No callback that waits is to settle it.
Free(c, lis, imm) ==
  /\ \A p \in Promise : \A i \in 1..Len(lis[p]) : lis[p][i].child # c
  /\ \A i \in 1..Len(imm) : imm[i].to.child # c

\* A promise that somebody is to settle.
Open(c, out, mad) == c \in mad \ Root /\ out[c] = Unsettled

\* A promise that waits is in one hand.
Hands(out, lis, imm, for, mad) ==
  /\ \A p \in Promise : \A i \in 1..Len(lis[p]) :
       Open(lis[p][i].child, out, mad) /\ lis[p][i].child \notin for
  /\ \A i \in 1..Len(imm) : Open(imm[i].to.child, out, mad) /\ imm[i].to.child \notin for
  /\ \A p, q \in Promise : \A i \in 1..Len(lis[p]), j \in 1..Len(lis[q]) :
       lis[p][i].child = lis[q][j].child => p = q /\ i = j
  /\ \A i, j \in 1..Len(imm) : imm[i].to.child = imm[j].to.child => i = j
  /\ \A p \in Promise : \A i \in 1..Len(lis[p]), j \in 1..Len(imm) :
       lis[p][i].child # imm[j].to.child

\* Those who were told, those who are about to be and those who wait are numbered as
\* they came.
Numbers(out, lis, imm, ask, tol) ==
  /\ \A p \in Promise : Len(tol[p]) <= ask[p] /\ \A i \in 1..Len(tol[p]) : tol[p][i].no = i
  /\ \A p \in Promise : out[p] = Unsettled =>
       /\ tol[p] = <<>> /\ Len(lis[p]) = ask[p]
       /\ \A i \in 1..Len(lis[p]) : lis[p][i].no = i
  /\ \A p \in Promise : out[p] # Unsettled =>
       \A n \in Len(tol[p])+1..ask[p] : \E i \in 1..Len(imm) : imm[i].to.of = p /\ imm[i].to.no = n
  /\ \A i \in 1..Len(imm) : imm[i].to.no \in Len(tol[imm[i].to.of])+1..ask[imm[i].to.of]
  /\ \A i, j \in 1..Len(imm) :
       imm[i].to.of = imm[j].to.of /\ i < j => imm[i].to.no < imm[j].to.no

\* What a callback is told of a promise settled with out.
Tells(told_, settled) ==
  \/ told_ = settled
  \/ settled = Rejected(Falsy) /\ told_ = Fulfilled(Undefined)

\* All are told what the promise was settled with.
Outcomes(out, imm, tol) ==
  /\ \A i \in 1..Len(imm) :
       out[imm[i].to.of] # Unsettled /\ Tells(imm[i].outcome, out[imm[i].to.of])
  /\ \A p \in Promise : \A i \in 1..Len(tol[p]) : Tells(tol[p][i].outcome, out[p])

\* All of these.
Whole(out, lis, imm, for, mad, ask, tol) ==
  /\ Lists(out, lis) /\ Hands(out, lis, imm, for, mad)
  /\ Numbers(out, lis, imm, ask, tol) /\ Outcomes(out, imm, tol)

\* Whoever is settled was made.
Known ==
  /\ Root \subseteq made /\ foreign \subseteq made \ Root
  /\ \A p \in Promise : outcome[p] # Unsettled => p \in made

\* The inductive invariant, with the types.
Sound ==
  /\ ~died /\ Known
  /\ Whole(outcome, listeners, immediates, foreign, made, asked, told)

-----------------------------------------------------------------------------
(* What the steps do, seen element by element.                             *)

\* q2 is q with x behind it.
Longer(q, x, q2) ==
  /\ Len(q2) = Len(q) + 1 /\ q2[Len(q) + 1] = x
  /\ \A i \in 1..Len(q) : q2[i] = q[i]

\* Settle: the callbacks of c go behind those that are immediates.
SettleStep(c, o, out, lis, imm, out2, lis2, imm2) ==
  /\ out2[c] = o /\ lis2[c] = <<>>
  /\ \A p \in Promise : p # c => out2[p] = out[p] /\ lis2[p] = lis[p]
  /\ \A i \in 1..Len(imm) : i \in 1..Len(imm2) /\ imm2[i] = imm[i]
  /\ \A i \in 1..Len(lis[c]) : /\ Len(imm) + i \in 1..Len(imm2)
                               /\ imm2[Len(imm) + i].to = lis[c][i]
                               /\ imm2[Len(imm) + i].outcome = o
  /\ \A k \in 1..Len(imm2) :
       \/ k \in 1..Len(imm) /\ imm2[k] = imm[k]
       \/ \E i \in 1..Len(lis[c]) :
            k = Len(imm) + i /\ imm2[k].to = lis[c][i] /\ imm2[k].outcome = o

\* AddListener.
AddStep(l, out, lis, imm, ask, lis2, imm2, ask2) ==
  /\ ask2[l.of] = ask[l.of] + 1
  /\ \A p \in Promise : p # l.of => ask2[p] = ask[p] /\ lis2[p] = lis[p]
  /\ \/ /\ out[l.of] = Unsettled
        /\ Longer(lis[l.of], l, lis2[l.of]) /\ imm2 = imm
     \/ /\ out[l.of] # Unsettled /\ lis2[l.of] = lis[l.of]
        /\ \E t : Longer(imm, t, imm2) /\ t.to = l /\ Tells(t.outcome, out[l.of])

\* RunImmediate tells the next.
TellStep(imm, tol, imm2, tol2) ==
  LET l == imm[1].to
  IN /\ Len(imm) \in Nat \ {0} /\ Len(imm2) = Len(imm) - 1
     /\ \A i \in 1..Len(imm2) : i + 1 \in 1..Len(imm) /\ imm2[i] = imm[i + 1]
     /\ Len(tol2[l.of]) = Len(tol[l.of]) + 1
     /\ \A i \in 1..Len(tol[l.of]) : tol2[l.of][i] = tol[l.of][i]
     /\ tol2[l.of][Len(tol[l.of]) + 1].no = l.no
     /\ tol2[l.of][Len(tol[l.of]) + 1].outcome = imm[1].outcome
     /\ \A p \in Promise : p # l.of => tol2[p] = tol[p]

\* What is enqueued.
Tasks(s, o) == [i \in DOMAIN s |-> [to |-> s[i], outcome |-> o]]

\* Each callback of the list becomes an immediate, in its place (fulfill, reject).
LEMMA TasksAre ==
  ASSUME NEW s \in Seq(Listener), NEW o \in Outcome
  PROVE  /\ Tasks(s, o) \in Seq(Task) /\ Len(Tasks(s, o)) = Len(s)
         /\ \A i \in 1..Len(s) : Tasks(s, o)[i].to = s[i] /\ Tasks(s, o)[i].outcome = o
<1>1. DOMAIN s = 1..Len(s) /\ Len(s) \in Nat /\ \A i \in 1..Len(s) : s[i] \in Listener
  OBVIOUS
<1>2. \A i \in 1..Len(s) : [to |-> s[i], outcome |-> o] \in Task
  BY <1>1 DEF Task
<1>3. Tasks(s, o) \in [1..Len(s) -> Task]
  BY <1>1, <1>2 DEF Tasks
<1>4. Tasks(s, o) \in Seq(Task) /\ Len(Tasks(s, o)) = Len(s)
  BY <1>1, <1>3, SeqDef, LenProperties
<1>5. ASSUME NEW i \in 1..Len(s) PROVE Tasks(s, o)[i].to = s[i] /\ Tasks(s, o)[i].outcome = o
  BY <1>1 DEF Tasks
<1>6. QED
  BY ONLY <1>4, <1>5

\* What is enqueued behind q: the elements of q keep their places.
LEMMA Behind ==
  ASSUME NEW q \in Seq(Task), NEW t \in Seq(Task)
  PROVE  /\ q \o t \in Seq(Task) /\ Len(q \o t) = Len(q) + Len(t)
         /\ \A i \in 1..Len(q) : i \in 1..Len(q \o t) /\ (q \o t)[i] = q[i]
         /\ \A i \in 1..Len(t) : Len(q) + i \in 1..Len(q \o t) /\ (q \o t)[Len(q) + i] = t[i]
         /\ \A k \in 1..Len(q \o t) :
              k \in 1..Len(q) \/ \E i \in 1..Len(t) : k = Len(q) + i
<1>1. q \o t \in Seq(Task) /\ Len(q \o t) = Len(q) + Len(t) /\ Len(q) \in Nat /\ Len(t) \in Nat
  OBVIOUS
<1>2. \A i \in 1..Len(q) : i \in 1..Len(q \o t) /\ (q \o t)[i] = q[i]
  BY <1>1
<1>3. \A i \in 1..Len(t) : Len(q) + i \in 1..Len(q \o t) /\ (q \o t)[Len(q) + i] = t[i]
  BY <1>1
<1>4. ASSUME NEW k \in 1..Len(q \o t), k \notin 1..Len(q)
      PROVE  \E i \in 1..Len(t) : k = Len(q) + i
  <2>1. k - Len(q) \in 1..Len(t) /\ k = Len(q) + (k - Len(q))
    BY <1>1, <1>4
  <2>2. QED
    BY <2>1
<1>5. QED
  BY <1>1, <1>2, <1>3, <1>4

LEMMA Settles ==
  ASSUME PromiseTypeOK, NEW c \in Promise, NEW o \in Outcome, NEW q \in Seq(Task), Settle(c, o, q)
  PROVE  /\ SettleStep(c, o, outcome, listeners, q, outcome', listeners', immediates')
         /\ outcome' \in [Promise -> Outcome \cup {Unsettled}]
         /\ listeners' \in [Promise -> Seq(Listener)]
         /\ immediates' \in Seq(Task)
<1> DEFINE new == Tasks(listeners[c], o)
<1>1. /\ outcome \in [Promise -> Outcome \cup {Unsettled}]
      /\ listeners \in [Promise -> Seq(Listener)]
  BY DEF PromiseTypeOK
<1>2. immediates' = q \o new
  BY DEF Settle, Tasks
<1>3. /\ new \in Seq(Task) /\ Len(new) = Len(listeners[c])
      /\ \A i \in 1..Len(listeners[c]) : new[i].to = listeners[c][i] /\ new[i].outcome = o
  BY <1>1, TasksAre
<1>4. /\ outcome' \in [Promise -> Outcome \cup {Unsettled}]
      /\ listeners' \in [Promise -> Seq(Listener)]
      /\ outcome'[c] = o /\ listeners'[c] = <<>>
      /\ \A p \in Promise : p # c => outcome'[p] = outcome[p] /\ listeners'[p] = listeners[p]
  BY <1>1 DEF Settle
<1>5. /\ immediates' \in Seq(Task)
      /\ \A i \in 1..Len(q) : i \in 1..Len(immediates') /\ immediates'[i] = q[i]
      /\ \A i \in 1..Len(new) : Len(q) + i \in 1..Len(immediates') /\ immediates'[Len(q) + i] = new[i]
      /\ \A k \in 1..Len(immediates') : k \in 1..Len(q) \/ \E i \in 1..Len(new) : k = Len(q) + i
  BY <1>2, <1>3, Behind
<1>6. \A i \in 1..Len(listeners[c]) : /\ Len(q) + i \in 1..Len(immediates')
                                      /\ immediates'[Len(q) + i].to = listeners[c][i]
                                      /\ immediates'[Len(q) + i].outcome = o
  <2> HIDE DEF new
  <2>1. QED
    BY ONLY <1>3, <1>5
<1>7. ASSUME NEW k \in 1..Len(immediates'), k \notin 1..Len(q)
      PROVE  \E i \in 1..Len(listeners[c]) :
               /\ k = Len(q) + i /\ immediates'[k].to = listeners[c][i]
               /\ immediates'[k].outcome = o
  <2>1. PICK i \in 1..Len(new) : k = Len(q) + i
    BY <1>5, <1>7
  <2>2. i \in 1..Len(listeners[c])
    BY <1>3
  <2>3. QED
    BY <1>6, <2>1, <2>2
<1>8. QED
  BY ONLY <1>4, <1>5, <1>6, <1>7 DEF SettleStep

LEMMA Adds ==
  ASSUME PromiseTypeOK, NEW l \in Listener, NEW q \in Seq(Task), AddListener(l, q)
  PROVE  /\ AddStep(l, outcome, listeners, q, asked, listeners', immediates', asked')
         /\ listeners' \in [Promise -> Seq(Listener)]
         /\ immediates' \in Seq(Task)
         /\ asked' \in [Promise -> Nat]
<1>1. /\ outcome \in [Promise -> Outcome \cup {Unsettled}]
      /\ listeners \in [Promise -> Seq(Listener)] /\ asked \in [Promise -> Nat]
  BY DEF PromiseTypeOK
<1>2. l.of \in Promise
  BY DEF Listener
<1>3. /\ asked' \in [Promise -> Nat] /\ asked'[l.of] = asked[l.of] + 1
      /\ \A p \in Promise : p # l.of => asked'[p] = asked[p]
  BY <1>1, <1>2 DEF AddListener
<1>4. CASE /\ outcome[l.of] = Unsettled
           /\ listeners' = [listeners EXCEPT ![l.of] = Append(@, l)]
           /\ immediates' = q
  <2>1. /\ listeners' \in [Promise -> Seq(Listener)]
        /\ \A p \in Promise : p # l.of => listeners'[p] = listeners[p]
        /\ Longer(listeners[l.of], l, listeners'[l.of])
    BY <1>1, <1>2, <1>4 DEF Longer
  <2>2. QED
    BY <1>3, <1>4, <2>1 DEF AddStep
<1>5. CASE /\ outcome[l.of] # Unsettled
           /\ immediates' = SetImmediate(q, [to |-> l, outcome |-> Heard(outcome[l.of])])
           /\ UNCHANGED listeners
  <2> DEFINE t == [to |-> l, outcome |-> Heard(outcome[l.of])]
  <2>1. Heard(outcome[l.of]) \in Outcome /\ Tells(Heard(outcome[l.of]), outcome[l.of])
    BY <1>1, <1>2, <1>5, PromiseConstants DEF Heard, Tells, Outcome, Fulfilled
  <2>2. t \in Task /\ t.to = l /\ Tells(t.outcome, outcome[l.of])
    BY <2>1 DEF Task
  <2>3. immediates' = Append(q, t)
    BY <1>5 DEF SetImmediate
  <2> HIDE DEF t
  <2>4. immediates' \in Seq(Task) /\ Longer(q, t, immediates')
    BY <2>2, <2>3 DEF Longer
  <2>5. QED
    BY <1>1, <1>2, <1>3, <1>5, <2>2, <2>4 DEF AddStep
<1>6. QED
  BY <1>4, <1>5 DEF AddListener

LEMMA TellsNext ==
  ASSUME PromiseTypeOK, immediates # <<>>,
         told' = [told EXCEPT ![Head(immediates).to.of] =
                    Append(@, [no |-> Head(immediates).to.no, outcome |-> Head(immediates).outcome])]
  PROVE  /\ TellStep(immediates, told, Tail(immediates), told')
         /\ Head(immediates) \in Task /\ Head(immediates) = immediates[1]
         /\ Tail(immediates) \in Seq(Task)
         /\ told' \in [Promise -> Seq([no : Nat, outcome : Outcome])]
<1> DEFINE l == Head(immediates).to
           x == [no |-> l.no, outcome |-> Head(immediates).outcome]
           Told == [no : Nat, outcome : Outcome]
<1>1. immediates \in Seq(Task) /\ told \in [Promise -> Seq(Told)]
  BY DEF PromiseTypeOK
<1>2. /\ Head(immediates) \in Task /\ Head(immediates) = immediates[1]
      /\ Tail(immediates) \in Seq(Task)
      /\ Len(immediates) \in Nat \ {0} /\ Len(Tail(immediates)) = Len(immediates) - 1
      /\ \A i \in 1..Len(Tail(immediates)) :
           i + 1 \in 1..Len(immediates) /\ Tail(immediates)[i] = immediates[i + 1]
  BY <1>1
<1>3. l \in Listener /\ Head(immediates).outcome \in Outcome
  BY <1>2 DEF Task
<1>4. l.of \in Promise /\ l.no \in Nat
  BY <1>3 DEF Listener
<1>5. x \in Told /\ x.no = l.no /\ x.outcome = Head(immediates).outcome
  BY <1>3, <1>4
<1>6. told' = [told EXCEPT ![l.of] = Append(@, x)]
  OBVIOUS
<1> HIDE DEF x, Told
<1>7. /\ told' \in [Promise -> Seq(Told)]
      /\ told'[l.of] = Append(told[l.of], x)
      /\ \A p \in Promise : p # l.of => told'[p] = told[p]
  BY <1>1, <1>4, <1>5, <1>6
<1>8. /\ Len(told'[l.of]) = Len(told[l.of]) + 1
      /\ \A i \in 1..Len(told[l.of]) : told'[l.of][i] = told[l.of][i]
      /\ told'[l.of][Len(told[l.of]) + 1] = x
  <2>1. told[l.of] \in Seq(Told) BY <1>1, <1>4
  <2>2. \A q \in Seq(Told) : /\ Len(Append(q, x)) = Len(q) + 1 /\ Append(q, x)[Len(q) + 1] = x
                              /\ \A i \in 1..Len(q) : Append(q, x)[i] = q[i]
    <3>1. x \in Told BY <1>5
    <3> QED BY ONLY <3>1, AppendProperties, SMTT(30)
  <2>3. told'[l.of] = Append(told[l.of], x) BY <1>7
  <2> QED BY ONLY <2>1, <2>2, <2>3, ZenonT(60)
<1>9. l = immediates[1].to /\ x.no = l.no /\ x.outcome = immediates[1].outcome
  BY <1>2, <1>5
<1> HIDE DEF l
<1>10. TellStep(immediates, told, Tail(immediates), told')
  BY ONLY <1>2, <1>7, <1>8, <1>9 DEF TellStep
<1>11. QED
  BY <1>2, <1>7, <1>10 DEF Told

-----------------------------------------------------------------------------
(* A promise that nobody holds is settled.                                 *)

\* The lengths and who it is that listens.
Shape(lis, imm, ask, tol) ==
  /\ Len(imm) \in Nat
  /\ \A i \in 1..Len(imm) : imm[i].to.of \in Promise /\ imm[i].to.no \in Nat
  /\ \A p \in Promise : Len(lis[p]) \in Nat /\ Len(tol[p]) \in Nat /\ ask[p] \in Nat

LEMMA SettleLists ==
  ASSUME NEW out, NEW lis, NEW imm, NEW out2, NEW lis2, NEW imm2, NEW c \in Promise, NEW o,
         SettleStep(c, o, out, lis, imm, out2, lis2, imm2), Lists(out, lis)
  PROVE  Lists(out2, lis2)
<1>1. ASSUME NEW p \in Promise
      PROVE  /\ out2[p] # Unsettled => lis2[p] = <<>>
             /\ \A i \in 1..Len(lis2[p]) : lis2[p][i].of = p
  <2>1. CASE p = c
    BY <2>1 DEF SettleStep
  <2>2. CASE p # c
    BY <2>2 DEF SettleStep, Lists
  <2>3. QED
    BY <2>1, <2>2
<1>2. QED
  BY <1>1 DEF Lists

\* Its callbacks go to the immediates, and stay each in one hand.
LEMMA SettleHands ==
  ASSUME NEW out, NEW lis, NEW imm, NEW ask, NEW tol, NEW out2, NEW lis2, NEW imm2,
         Shape(lis, imm, ask, tol), NEW for, NEW mad \in SUBSET Promise, NEW c \in Promise, NEW o,
         SettleStep(c, o, out, lis, imm, out2, lis2, imm2),
         Free(c, lis, imm), Hands(out, lis, imm, for, mad)
  PROVE  Hands(out2, lis2, imm2, for, mad)
<1>1. \A k \in 1..Len(imm2) :
        \/ k \in 1..Len(imm) /\ imm2[k] = imm[k]
        \/ \E i \in 1..Len(lis[c]) : k = Len(imm) + i /\ imm2[k].to = lis[c][i]
  BY DEF SettleStep
<1>2. /\ \A p \in Promise : p # c => lis2[p] = lis[p] /\ out2[p] = out[p]
      /\ \A i \in 1..Len(lis2[c]) : FALSE
  BY DEF SettleStep
<1>3. \A p \in Promise : \A i \in 1..Len(lis2[p]) : p # c /\ i \in 1..Len(lis[p]) /\ lis2[p][i] = lis[p][i]
  BY <1>2
<1>4. \A d : d # c /\ Open(d, out, mad) => Open(d, out2, mad)
  BY <1>2 DEF Open
<1>5. \A p \in Promise : \A i \in 1..Len(lis[p]) :
        Open(lis[p][i].child, out2, mad) /\ lis[p][i].child \notin for
  BY <1>4 DEF Free, Hands
<1>6. \A p \in Promise : \A i \in 1..Len(lis2[p]) :
        Open(lis2[p][i].child, out2, mad) /\ lis2[p][i].child \notin for
  BY <1>3, <1>5
<1>7. \A k \in 1..Len(imm2) : Open(imm2[k].to.child, out2, mad) /\ imm2[k].to.child \notin for
  <2>1. \A i \in 1..Len(imm) : Open(imm[i].to.child, out2, mad) /\ imm[i].to.child \notin for
    BY <1>4 DEF Free, Hands
  <2>2. QED
    BY <1>1, <1>5, <2>1
<1>8. ASSUME NEW p \in Promise, NEW q \in Promise, NEW i \in 1..Len(lis2[p]), NEW j \in 1..Len(lis2[q]),
             lis2[p][i].child = lis2[q][j].child
      PROVE  p = q /\ i = j
  <2>1. /\ i \in 1..Len(lis[p]) /\ lis2[p][i] = lis[p][i]
        /\ j \in 1..Len(lis[q]) /\ lis2[q][j] = lis[q][j]
    BY <1>3
  <2>2. QED
    BY <1>8, <2>1 DEF Hands
<1>9. ASSUME NEW k \in 1..Len(imm2), NEW m \in 1..Len(imm2), imm2[k].to.child = imm2[m].to.child
      PROVE  k = m
  <2>1. CASE k \in 1..Len(imm) /\ imm2[k] = imm[k] /\ m \in 1..Len(imm) /\ imm2[m] = imm[m]
    BY <1>9, <2>1 DEF Hands
  <2>2. ASSUME NEW i \in 1..Len(lis[c]), NEW j \in 1..Len(lis[c]),
               k = Len(imm) + i, imm2[k].to = lis[c][i], m = Len(imm) + j, imm2[m].to = lis[c][j]
        PROVE  k = m
    BY <1>9, <2>2 DEF Hands
  <2>3. ASSUME NEW i \in 1..Len(lis[c]), NEW x \in 1..Len(imm2), NEW y \in 1..Len(imm2),
               imm2[x].to = lis[c][i], y \in 1..Len(imm), imm2[y] = imm[y]
        PROVE  imm2[x].to.child # imm2[y].to.child
    BY <2>3 DEF Hands
  <2>4. CASE k \in 1..Len(imm) /\ imm2[k] = imm[k]
    BY <1>1, <1>9, <2>1, <2>3, <2>4
  <2>5. CASE \E i \in 1..Len(lis[c]) : k = Len(imm) + i /\ imm2[k].to = lis[c][i]
    BY <1>1, <1>9, <2>2, <2>3, <2>5
  <2>6. QED
    BY <1>1, <2>4, <2>5
<1>10. ASSUME NEW p \in Promise, NEW i \in 1..Len(lis2[p]), NEW k \in 1..Len(imm2)
       PROVE  lis2[p][i].child # imm2[k].to.child
  <2>1. p # c /\ i \in 1..Len(lis[p]) /\ lis2[p][i] = lis[p][i]
    BY <1>3
  <2>2. CASE k \in 1..Len(imm) /\ imm2[k] = imm[k]
    BY <2>1, <2>2 DEF Hands
  <2>3. CASE \E j \in 1..Len(lis[c]) : imm2[k].to = lis[c][j]
    BY <2>1, <2>3 DEF Hands
  <2>4. QED
    BY <1>1, <2>2, <2>3
<1>11. QED
  BY <1>6, <1>7, <1>8, <1>9, <1>10 DEF Hands

\* Nobody was told, so that all who wait are to be told, in their order.
LEMMA SettleNumbers ==
  ASSUME NEW out, NEW lis, NEW imm, NEW ask, NEW tol, NEW out2, NEW lis2, NEW imm2,
         Shape(lis, imm, ask, tol), NEW c \in Promise, NEW o, out[c] = Unsettled, o # Unsettled,
         SettleStep(c, o, out, lis, imm, out2, lis2, imm2), Lists(out, lis),
         Outcomes(out, imm, tol), Numbers(out, lis, imm, ask, tol)
  PROVE  Numbers(out2, lis2, imm2, ask, tol)
<1>1. \A k \in 1..Len(imm2) :
        \/ k \in 1..Len(imm) /\ imm2[k] = imm[k]
        \/ \E i \in 1..Len(lis[c]) : k = Len(imm) + i /\ imm2[k].to = lis[c][i]
  BY DEF SettleStep
<1>2. \A i \in 1..Len(imm) : imm[i].to.of \in Promise /\ imm[i].to.of # c
  BY DEF Outcomes, Shape
<1>3. /\ tol[c] = <<>> /\ Len(tol[c]) = 0 /\ Len(lis[c]) = ask[c]
      /\ \A i \in 1..Len(lis[c]) : lis[c][i].no = i /\ lis[c][i].of = c
  BY DEF Numbers, Lists
<1>4. /\ out2[c] # Unsettled
      /\ \A p \in Promise : p # c => lis2[p] = lis[p] /\ out2[p] = out[p]
  BY DEF SettleStep
<1>5. \A p \in Promise : out2[p] = Unsettled =>
       /\ tol[p] = <<>> /\ Len(lis2[p]) = ask[p]
       /\ \A i \in 1..Len(lis2[p]) : lis2[p][i].no = i
  BY <1>4 DEF Numbers
<1>6. ASSUME NEW p \in Promise, out2[p] # Unsettled, NEW n \in Len(tol[p])+1..ask[p]
      PROVE  \E i \in 1..Len(imm2) : imm2[i].to.of = p /\ imm2[i].to.no = n
  <2>1. CASE p = c
    <3>1. n \in 1..Len(lis[c])
      BY <1>3, <2>1
    <3>2. Len(imm) + n \in 1..Len(imm2) /\ imm2[Len(imm) + n].to = lis[c][n]
      BY <3>1 DEF SettleStep
    <3>3. QED
      BY <1>3, <2>1, <3>1, <3>2
  <2>2. CASE p # c
    <3>1. PICK i \in 1..Len(imm) : imm[i].to.of = p /\ imm[i].to.no = n
      BY <1>4, <1>6, <2>2 DEF Numbers
    <3>2. i \in 1..Len(imm2) /\ imm2[i] = imm[i]
      BY DEF SettleStep
    <3>3. QED
      BY <3>1, <3>2
  <2>3. QED
    BY <2>1, <2>2
<1>7. ASSUME NEW k \in 1..Len(imm2)
      PROVE  imm2[k].to.no \in Len(tol[imm2[k].to.of])+1..ask[imm2[k].to.of]
  <2>1. CASE k \in 1..Len(imm) /\ imm2[k] = imm[k]
    BY <2>1 DEF Numbers
  <2>2. ASSUME NEW i \in 1..Len(lis[c]), imm2[k].to = lis[c][i]
        PROVE  imm2[k].to.no \in Len(tol[imm2[k].to.of])+1..ask[imm2[k].to.of]
    <3>1. i \in Len(tol[c])+1..ask[c]
      BY <1>3
    <3>2. QED
      BY <1>3, <2>2, <3>1
  <2>3. QED
    BY <1>1, <2>1, <2>2
<1>8. ASSUME NEW k \in 1..Len(imm2), NEW m \in 1..Len(imm2), imm2[k].to.of = imm2[m].to.of, k < m
      PROVE  imm2[k].to.no < imm2[m].to.no
  <2>1. CASE k \in 1..Len(imm) /\ imm2[k] = imm[k] /\ m \in 1..Len(imm) /\ imm2[m] = imm[m]
    BY <1>8, <2>1 DEF Numbers
  <2>2. ASSUME NEW i \in 1..Len(lis[c]), NEW j \in 1..Len(lis[c]),
               k = Len(imm) + i, imm2[k].to = lis[c][i], m = Len(imm) + j, imm2[m].to = lis[c][j]
        PROVE  imm2[k].to.no < imm2[m].to.no
    <3>1. i < j
      BY <1>3, <1>8, <2>2 DEF Shape
    <3>2. QED
      BY <1>3, <2>2, <3>1
  <2>3. ASSUME NEW i \in 1..Len(lis[c]), NEW x \in 1..Len(imm2), NEW y \in 1..Len(imm2),
               imm2[x].to = lis[c][i], y \in 1..Len(imm), imm2[y] = imm[y]
        PROVE  imm2[x].to.of # imm2[y].to.of
    BY <1>2, <1>3, <2>3
  <2>4. CASE k \in 1..Len(imm) /\ imm2[k] = imm[k]
    BY <1>1, <1>8, <2>1, <2>3, <2>4
  <2>5. CASE \E i \in 1..Len(lis[c]) : k = Len(imm) + i /\ imm2[k].to = lis[c][i]
    BY <1>1, <1>8, <2>2, <2>3, <2>5
  <2>6. QED
    BY <1>1, <2>4, <2>5
<1>9. QED
  BY <1>5, <1>6, <1>7, <1>8 DEF Numbers

LEMMA SettleOutcomes ==
  ASSUME NEW out, NEW lis, NEW imm, NEW ask, NEW tol, NEW out2, NEW lis2, NEW imm2,
         Shape(lis, imm, ask, tol), NEW c \in Promise, NEW o, out[c] = Unsettled, o # Unsettled,
         SettleStep(c, o, out, lis, imm, out2, lis2, imm2), Lists(out, lis),
         Numbers(out, lis, imm, ask, tol), Outcomes(out, imm, tol)
  PROVE  Outcomes(out2, imm2, tol)
<1>1. /\ out2[c] = o
      /\ \A p \in Promise : p # c => out2[p] = out[p]
  BY DEF SettleStep
<1>2. ASSUME NEW k \in 1..Len(imm2)
      PROVE  out2[imm2[k].to.of] # Unsettled /\ Tells(imm2[k].outcome, out2[imm2[k].to.of])
  <2>1. CASE k \in 1..Len(imm) /\ imm2[k] = imm[k]
    BY <1>1, <2>1 DEF Outcomes, Shape
  <2>2. ASSUME NEW i \in 1..Len(lis[c]), imm2[k].to = lis[c][i], imm2[k].outcome = o
        PROVE  out2[imm2[k].to.of] # Unsettled /\ Tells(imm2[k].outcome, out2[imm2[k].to.of])
    BY <1>1, <2>2 DEF Lists, Tells
  <2>3. QED
    BY <2>1, <2>2 DEF SettleStep
<1>3. ASSUME NEW p \in Promise, NEW i \in 1..Len(tol[p]) PROVE Tells(tol[p][i].outcome, out2[p])
  <2>1. CASE p = c
    BY <2>1 DEF Numbers
  <2>2. CASE p # c
    BY <1>1, <2>2 DEF Outcomes
  <2>3. QED
    BY <2>1, <2>2
<1>4. QED
  BY <1>2, <1>3 DEF Outcomes

-----------------------------------------------------------------------------
(* Somebody listens, by a promise that nobody holds.                       *)

LEMMA AddLists ==
  ASSUME NEW out, NEW lis, NEW imm, NEW ask, NEW tol, NEW lis2, NEW imm2, NEW ask2,
         Shape(lis, imm, ask, tol), NEW l, l.of \in Promise,
         AddStep(l, out, lis, imm, ask, lis2, imm2, ask2), Lists(out, lis)
  PROVE  Lists(out, lis2)
<1>1. ASSUME NEW p \in Promise
      PROVE  /\ out[p] # Unsettled => lis2[p] = <<>>
             /\ \A i \in 1..Len(lis2[p]) : lis2[p][i].of = p
  <2>1. CASE lis2[p] = lis[p]
    BY <2>1 DEF Lists
  <2>2. CASE p = l.of /\ out[p] = Unsettled /\ Longer(lis[p], l, lis2[p])
    <3>1. \A i \in 1..Len(lis2[p]) : i \in 1..Len(lis[p]) \/ i = Len(lis[p]) + 1
      BY <2>2 DEF Longer, Shape
    <3>2. QED
      BY <2>2, <3>1 DEF Longer, Lists
  <2>3. QED
    BY <2>1, <2>2 DEF AddStep
<1>2. QED
  BY <1>1 DEF Lists

LEMMA AddHands ==
  ASSUME NEW out, NEW lis, NEW imm, NEW ask, NEW tol, NEW lis2, NEW imm2, NEW ask2,
         Shape(lis, imm, ask, tol), NEW l, l.of \in Promise,
         AddStep(l, out, lis, imm, ask, lis2, imm2, ask2), NEW for, NEW mad,
         Open(l.child, out, mad), l.child \notin for, Free(l.child, lis, imm), Hands(out, lis, imm, for, mad)
  PROVE  Hands(out, lis2, imm2, for, mad)
<1>1. CASE Longer(lis[l.of], l, lis2[l.of]) /\ imm2 = imm
  <2>1. \A p \in Promise : \A i \in 1..Len(lis2[p]) :
          \/ i \in 1..Len(lis[p]) /\ lis2[p][i] = lis[p][i]
          \/ p = l.of /\ i = Len(lis[p]) + 1 /\ lis2[p][i] = l
    <3>1. ASSUME NEW p \in Promise, NEW i \in 1..Len(lis2[p])
          PROVE  \/ i \in 1..Len(lis[p]) /\ lis2[p][i] = lis[p][i]
                 \/ p = l.of /\ i = Len(lis[p]) + 1 /\ lis2[p][i] = l
      <4>1. CASE p # l.of
        BY <4>1 DEF AddStep
      <4>2. CASE p = l.of
        <5>1. i \in 1..Len(lis[p]) \/ i = Len(lis[p]) + 1
          BY <1>1, <4>2 DEF Longer, Shape
        <5>2. QED
          BY <1>1, <4>2, <5>1 DEF Longer
      <4>3. QED
        BY <4>1, <4>2
    <3>2. QED
      BY <3>1
  <2>2. \A p \in Promise : \A i \in 1..Len(lis2[p]) :
          Open(lis2[p][i].child, out, mad) /\ lis2[p][i].child \notin for
    BY <2>1 DEF Hands, Free
  <2>3. \A p \in Promise : \A i \in 1..Len(lis2[p]), j \in 1..Len(imm2) :
          lis2[p][i].child # imm2[j].to.child
    <3>1. ASSUME NEW p \in Promise, NEW i \in 1..Len(lis2[p]), NEW j \in 1..Len(imm2)
          PROVE  lis2[p][i].child # imm2[j].to.child
      <4>1. j \in 1..Len(imm) /\ imm2[j] = imm[j] BY <1>1
      <4>2. CASE i \in 1..Len(lis[p]) /\ lis2[p][i] = lis[p][i] BY <4>1, <4>2 DEF Hands
      <4>3. CASE lis2[p][i] = l BY <4>1, <4>3 DEF Free
      <4> QED BY <2>1, <4>2, <4>3
    <3> QED BY <3>1
  <2>4. ASSUME NEW p \in Promise, NEW q \in Promise, NEW i \in 1..Len(lis2[p]), NEW j \in 1..Len(lis2[q]),
               lis2[p][i].child = lis2[q][j].child
        PROVE  p = q /\ i = j
    <3>1. CASE i \in 1..Len(lis[p]) /\ lis2[p][i] = lis[p][i]
      <4>1. CASE j \in 1..Len(lis[q]) /\ lis2[q][j] = lis[q][j]
        BY <2>4, <3>1, <4>1 DEF Hands
      <4>2. CASE lis2[q][j] = l
        BY <2>4, <3>1, <4>2 DEF Free
      <4>3. QED
        BY <2>1, <4>1, <4>2
    <3>2. CASE p = l.of /\ i = Len(lis[p]) + 1 /\ lis2[p][i] = l
      <4>1. CASE j \in 1..Len(lis[q]) /\ lis2[q][j] = lis[q][j]
        BY <2>4, <3>2, <4>1 DEF Free
      <4>2. CASE q = l.of /\ j = Len(lis[q]) + 1
        BY <3>2, <4>2
      <4>3. QED
        BY <2>1, <4>1, <4>2
    <3>3. QED
      BY <2>1, <3>1, <3>2
  <2>5. QED
    BY <1>1, <2>2, <2>3, <2>4 DEF Hands
<1>2. ASSUME NEW t, Longer(imm, t, imm2), t.to = l, lis2[l.of] = lis[l.of]
      PROVE  Hands(out, lis2, imm2, for, mad)
  <2>1. \A p \in Promise : lis2[p] = lis[p]
    BY <1>2 DEF AddStep
  <2>2. \A i \in 1..Len(imm2) :
          \/ i \in 1..Len(imm) /\ imm2[i] = imm[i]
          \/ i = Len(imm) + 1 /\ imm2[i].to = l
    <3>1. \A i \in 1..Len(imm2) : i \in 1..Len(imm) \/ i = Len(imm) + 1
      BY <1>2 DEF Longer, Shape
    <3>2. QED
      BY <1>2, <3>1 DEF Longer
  <2>3. \A i \in 1..Len(imm2) : Open(imm2[i].to.child, out, mad) /\ imm2[i].to.child \notin for
    BY <2>2 DEF Hands, Free
  <2>4. ASSUME NEW i \in 1..Len(imm2), NEW j \in 1..Len(imm2), imm2[i].to.child = imm2[j].to.child
        PROVE  i = j
    <3>1. CASE i \in 1..Len(imm) /\ imm2[i] = imm[i]
      BY <2>2, <2>4, <3>1 DEF Hands, Free
    <3>2. CASE i = Len(imm) + 1 /\ imm2[i].to = l
      BY <2>2, <2>4, <3>2 DEF Free
    <3>3. QED
      BY <2>2, <3>1, <3>2
  <2>5. \A p \in Promise : \A i \in 1..Len(lis2[p]), j \in 1..Len(imm2) :
          lis2[p][i].child # imm2[j].to.child
    BY <2>1, <2>2 DEF Hands, Free
  <2>6. QED
    BY <2>1, <2>3, <2>4, <2>5 DEF Hands
<1>3. QED
  BY <1>1, <1>2 DEF AddStep

\* He gets the next number.
LEMMA AddNumbers ==
  ASSUME NEW out, NEW lis, NEW imm, NEW ask, NEW tol, NEW lis2, NEW imm2, NEW ask2,
         Shape(lis, imm, ask, tol), NEW l, l.of \in Promise, l.no = ask[l.of] + 1,
         AddStep(l, out, lis, imm, ask, lis2, imm2, ask2), Outcomes(out, imm, tol),
         Numbers(out, lis, imm, ask, tol)
  PROVE  Numbers(out, lis2, imm2, ask2, tol)
<1>1. /\ ask2[l.of] = ask[l.of] + 1
      /\ \A p \in Promise : p # l.of => ask2[p] = ask[p] /\ lis2[p] = lis[p]
  BY DEF AddStep
<1>2. \A p \in Promise : ask[p] \in Nat /\ (ask2[p] = ask[p] \/ ask2[p] = ask[p] + 1)
  BY <1>1 DEF Shape
<1>3. ASSUME NEW i \in 1..Len(imm)
      PROVE  /\ imm[i].to.of \in Promise
             /\ imm[i].to.no \in Len(tol[imm[i].to.of])+1..ask2[imm[i].to.of]
  <2> DEFINE p == imm[i].to.of
  <2>1. p \in Promise /\ Len(tol[p]) \in Nat /\ ask[p] \in Nat
    BY DEF Shape
  <2>2. imm[i].to.no \in Len(tol[p])+1..ask[p]
    BY DEF Numbers
  <2>3. ask2[p] = ask[p] \/ ask2[p] = ask[p] + 1
    BY <1>2, <2>1
  <2> HIDE DEF p
  <2>4. imm[i].to.no \in Len(tol[p])+1..ask2[p]
    BY <2>1, <2>2, <2>3
  <2>5. QED
    BY <2>1, <2>4 DEF p
<1>4. \A p \in Promise : Len(tol[p]) <= ask2[p] /\ \A i \in 1..Len(tol[p]) : tol[p][i].no = i
  <2>1. ASSUME NEW p \in Promise PROVE Len(tol[p]) <= ask2[p]
    <3>1. Len(tol[p]) <= ask[p] /\ Len(tol[p]) \in Nat /\ ask[p] \in Nat
      BY DEF Numbers, Shape
    <3>2. QED
      BY <1>2, <3>1
  <2>2. QED
    BY <2>1 DEF Numbers
<1>5. CASE /\ out[l.of] = Unsettled
           /\ Longer(lis[l.of], l, lis2[l.of]) /\ imm2 = imm
  <2>1. ASSUME NEW p \in Promise, out[p] = Unsettled
        PROVE  /\ tol[p] = <<>> /\ Len(lis2[p]) = ask2[p]
               /\ \A i \in 1..Len(lis2[p]) : lis2[p][i].no = i
    <3>1. CASE p # l.of
      BY <1>1, <2>1, <3>1 DEF Numbers
    <3>2. CASE p = l.of
      <4>1. tol[p] = <<>> /\ Len(lis[p]) = ask[p] /\ \A i \in 1..Len(lis[p]) : lis[p][i].no = i
        BY <2>1 DEF Numbers
      <4>2. \A i \in 1..Len(lis2[p]) : i \in 1..Len(lis[p]) \/ i = Len(lis[p]) + 1
        BY <1>5, <3>2 DEF Longer, Shape
      <4>3. /\ Len(lis2[p]) = Len(lis[p]) + 1 /\ lis2[p][Len(lis[p]) + 1] = l
            /\ \A i \in 1..Len(lis[p]) : lis2[p][i] = lis[p][i]
        BY <1>5, <3>2 DEF Longer
      <4>4. ask2[p] = ask[p] + 1 /\ l.no = ask[p] + 1
        BY <1>1, <3>2
      <4>5. \A i \in 1..Len(lis2[p]) : lis2[p][i].no = i
        BY ONLY <4>1, <4>2, <4>3, <4>4, SMTT(30)
      <4>6. QED
        BY <4>1, <4>3, <4>4, <4>5
    <3>3. QED
      BY <3>1, <3>2
  <2>2. ASSUME NEW p \in Promise, out[p] # Unsettled
        PROVE  \A n \in Len(tol[p])+1..ask2[p] : \E i \in 1..Len(imm) : imm[i].to.of = p /\ imm[i].to.no = n
    BY <1>1, <1>5, <2>2 DEF Numbers
  <2>3. QED
    BY <1>4, <1>3, <1>5, <2>1, <2>2 DEF Numbers
<1>6. ASSUME out[l.of] # Unsettled, lis2[l.of] = lis[l.of], NEW t, Longer(imm, t, imm2), t.to = l
      PROVE  Numbers(out, lis2, imm2, ask2, tol)
  <2>1. /\ Len(imm) + 1 \in 1..Len(imm2) /\ imm2[Len(imm) + 1].to = l
        /\ \A i \in 1..Len(imm) : i \in 1..Len(imm2) /\ imm2[i] = imm[i]
        /\ \A i \in 1..Len(imm2) : i \in 1..Len(imm) \/ i = Len(imm) + 1
    BY <1>6 DEF Longer, Shape
  <2>2. ASSUME NEW p \in Promise, out[p] = Unsettled
        PROVE  /\ tol[p] = <<>> /\ Len(lis2[p]) = ask2[p]
               /\ \A i \in 1..Len(lis2[p]) : lis2[p][i].no = i
    BY <1>1, <1>6, <2>2 DEF Numbers
  <2>3. ASSUME NEW p \in Promise, out[p] # Unsettled, NEW n \in Len(tol[p])+1..ask2[p]
        PROVE  \E i \in 1..Len(imm2) : imm2[i].to.of = p /\ imm2[i].to.no = n
    <3>1. CASE n \in Len(tol[p])+1..ask[p]
      <4>1. PICK i \in 1..Len(imm) : imm[i].to.of = p /\ imm[i].to.no = n
        BY <2>3, <3>1 DEF Numbers
      <4>2. QED
        BY <2>1, <4>1
    <3>2. CASE p = l.of /\ n = ask[p] + 1
      BY <2>1, <3>2
    <3>3. QED
      BY <1>1, <3>1, <3>2 DEF Shape
  <2>4. ASSUME NEW i \in 1..Len(imm2)
        PROVE  imm2[i].to.no \in Len(tol[imm2[i].to.of])+1..ask2[imm2[i].to.of]
    <3>1. CASE i \in 1..Len(imm)
      BY <1>3, <2>1, <3>1
    <3>2. CASE i = Len(imm) + 1
      <4>1. Len(tol[l.of]) <= ask[l.of]
        BY DEF Numbers
      <4>2. Len(tol[l.of]) \in Nat /\ ask[l.of] \in Nat
        BY DEF Shape
      <4>3. ask[l.of] + 1 \in Len(tol[l.of])+1..ask2[l.of]
        BY <1>1, <4>1, <4>2
      <4>4. QED
        BY <2>1, <3>2, <4>3
    <3>3. QED
      BY <2>1, <3>1, <3>2
  <2>5. ASSUME NEW i \in 1..Len(imm2), NEW j \in 1..Len(imm2), imm2[i].to.of = imm2[j].to.of, i < j
        PROVE  imm2[i].to.no < imm2[j].to.no
    <3>1. i \in 1..Len(imm) /\ imm2[i] = imm[i]
      BY <2>1, <2>5 DEF Shape
    <3>2. CASE j \in 1..Len(imm)
      BY <2>1, <2>5, <3>1, <3>2 DEF Numbers
    <3>3. CASE j = Len(imm) + 1
      <4>1. imm[i].to.of = l.of /\ imm2[j].to.no = ask[l.of] + 1
        BY <2>1, <2>5, <3>1, <3>3
      <4>2. imm[i].to.no \in Nat /\ imm[i].to.no <= ask[l.of] /\ ask[l.of] \in Nat
        BY <3>1, <4>1 DEF Numbers, Shape
      <4>3. QED
        BY <3>1, <4>1, <4>2
    <3>4. QED
      BY <2>1, <3>2, <3>3
  <2>6. QED
    BY <1>4, <2>2, <2>3, <2>4, <2>5 DEF Numbers
<1>7. QED
  BY <1>5, <1>6 DEF AddStep

LEMMA AddOutcomes ==
  ASSUME NEW out, NEW lis, NEW imm, NEW ask, NEW tol, NEW lis2, NEW imm2, NEW ask2,
         Shape(lis, imm, ask, tol), NEW l, l.of \in Promise,
         AddStep(l, out, lis, imm, ask, lis2, imm2, ask2), Outcomes(out, imm, tol)
  PROVE  Outcomes(out, imm2, tol)
<1>1. CASE imm2 = imm
  BY <1>1
<1>2. ASSUME out[l.of] # Unsettled, NEW t, Longer(imm, t, imm2), t.to = l, Tells(t.outcome, out[l.of])
      PROVE  Outcomes(out, imm2, tol)
  <2>1. \A i \in 1..Len(imm2) : i \in 1..Len(imm) \/ i = Len(imm) + 1
    BY <1>2 DEF Longer, Shape
  <2>2. ASSUME NEW i \in 1..Len(imm2)
        PROVE  out[imm2[i].to.of] # Unsettled /\ Tells(imm2[i].outcome, out[imm2[i].to.of])
    BY <1>2, <2>1 DEF Longer, Outcomes
  <2>3. QED
    BY <2>2 DEF Outcomes
<1>3. QED
  BY <1>1, <1>2 DEF AddStep

-----------------------------------------------------------------------------
(* The next of the immediates is told.                                     *)

\* He is the only one who holds his promise, and has it now in his hand alone.
LEMMA TellHands ==
  ASSUME NEW out, NEW lis, NEW imm, NEW ask, NEW tol, NEW imm2, NEW tol2,
         Shape(lis, imm, ask, tol), TellStep(imm, tol, imm2, tol2), NEW for, NEW mad,
         Hands(out, lis, imm, for, mad)
  PROVE  /\ Hands(out, lis, imm2, for, mad)
         /\ Free(imm[1].to.child, lis, imm2) /\ Open(imm[1].to.child, out, mad)
         /\ imm[1].to.child \notin for
<1>1. /\ 1 \in 1..Len(imm)
      /\ \A i \in 1..Len(imm2) : i + 1 \in 1..Len(imm) /\ imm2[i] = imm[i + 1] /\ i + 1 # 1
  <2>1. /\ Len(imm) \in Nat \ {0} /\ Len(imm2) = Len(imm) - 1
        /\ \A i \in 1..Len(imm2) : i + 1 \in 1..Len(imm) /\ imm2[i] = imm[i + 1]
    BY ZenonT(60) DEF TellStep
  <2> QED BY ONLY <2>1, SMTT(30)
<1>2. /\ Free(imm[1].to.child, lis, imm2) /\ Open(imm[1].to.child, out, mad)
      /\ imm[1].to.child \notin for
  <2>1. Open(imm[1].to.child, out, mad) /\ imm[1].to.child \notin for
    BY <1>1 DEF Hands
  <2>2. \A p \in Promise : \A i \in 1..Len(lis[p]) : lis[p][i].child # imm[1].to.child
    BY <1>1 DEF Hands
  <2>3. ASSUME NEW i \in 1..Len(imm2) PROVE imm2[i].to.child # imm[1].to.child
    BY <1>1 DEF Hands
  <2>4. QED
    BY <2>1, <2>2, <2>3 DEF Free
<1>3. \A i \in 1..Len(imm2) : Open(imm2[i].to.child, out, mad) /\ imm2[i].to.child \notin for
  BY <1>1 DEF Hands
<1>4. ASSUME NEW i \in 1..Len(imm2), NEW j \in 1..Len(imm2), imm2[i].to.child = imm2[j].to.child
      PROVE  i = j
  <2>1. i + 1 = j + 1
    BY <1>1, <1>4 DEF Hands
  <2>2. QED
    BY <2>1
<1>5. \A p \in Promise : \A i \in 1..Len(lis[p]), j \in 1..Len(imm2) :
        lis[p][i].child # imm2[j].to.child
  BY <1>1 DEF Hands
<1>6. QED
  BY <1>2, <1>3, <1>4, <1>5 DEF Hands

\* His number is the next, since the next is among the immediates and he is first.
LEMMA TellNumbers ==
  ASSUME NEW out, NEW lis, NEW imm, NEW ask, NEW tol, NEW imm2, NEW tol2,
         Shape(lis, imm, ask, tol), TellStep(imm, tol, imm2, tol2),
         Outcomes(out, imm, tol), Numbers(out, lis, imm, ask, tol)
  PROVE  Numbers(out, lis, imm2, ask, tol2)
<1> DEFINE l == imm[1].to
           p == l.of
<1>1. /\ 1 \in 1..Len(imm) /\ Len(imm) \in Nat
      /\ \A i \in 1..Len(imm2) : i + 1 \in 1..Len(imm) /\ imm2[i] = imm[i + 1] /\ i + 1 # 1
      /\ \A i \in 1..Len(imm) : i # 1 => i - 1 \in 1..Len(imm2) /\ imm2[i - 1] = imm[i]
  <2>1. /\ Len(imm) \in Nat \ {0} /\ Len(imm2) = Len(imm) - 1
        /\ \A i \in 1..Len(imm2) : i + 1 \in 1..Len(imm) /\ imm2[i] = imm[i + 1]
    BY ZenonT(60) DEF TellStep
  <2>2. \A i \in 1..Len(imm) : i # 1 => i - 1 \in 1..Len(imm2) /\ (i - 1) + 1 = i
    BY ONLY <2>1, SMTT(30)
  <2>3. \A i \in 1..Len(imm) : i # 1 => imm2[i - 1] = imm[i]
    BY ONLY <2>1, <2>2, SMTT(30)
  <2> QED BY ONLY <2>1, <2>2, <2>3, SMTT(30)
<1>2. /\ p \in Promise /\ out[p] # Unsettled /\ l.no \in Nat
      /\ l.no \in Len(tol[p])+1..ask[p] /\ Len(tol[p]) \in Nat /\ ask[p] \in Nat
  BY <1>1 DEF Shape, Outcomes, Numbers
<1>3. l.no = Len(tol[p]) + 1
  <2>1. Len(tol[p]) + 1 \in Len(tol[p])+1..ask[p]
    BY <1>2
  <2>0. \A q \in Promise : out[q] # Unsettled =>
          \A n \in Len(tol[q])+1..ask[q] : \E i \in 1..Len(imm) : imm[i].to.of = q /\ imm[i].to.no = n
    BY DEF Numbers
  <2>2. PICK i \in 1..Len(imm) : imm[i].to.of = p /\ imm[i].to.no = Len(tol[p]) + 1
    <3> HIDE DEF p
    <3>1. \A n \in Len(tol[p])+1..ask[p] : \E i \in 1..Len(imm) : imm[i].to.of = p /\ imm[i].to.no = n
      BY ONLY <1>2, <2>0
    <3>2. QED
      BY ONLY <2>1, <3>1
  <2>3. CASE i # 1
    <3>1. l.no < imm[i].to.no
      BY <1>1, <2>2, <2>3 DEF Numbers
    <3>2. QED
      BY <1>2, <2>2, <3>1
  <2>4. QED
    BY <2>2, <2>3
<1>4. /\ Len(tol2[p]) = Len(tol[p]) + 1
      /\ \A i \in 1..Len(tol[p]) : tol2[p][i] = tol[p][i]
      /\ tol2[p][Len(tol[p]) + 1].no = l.no
      /\ \A q \in Promise : q # p => tol2[q] = tol[q]
  BY DEF TellStep
<1>5. ASSUME NEW q \in Promise
      PROVE  Len(tol2[q]) <= ask[q] /\ \A i \in 1..Len(tol2[q]) : tol2[q][i].no = i
  <2>1. CASE q # p
    BY <1>4, <2>1 DEF Numbers
  <2>2. CASE q = p
    <3>1. \A i \in 1..Len(tol2[p]) : i \in 1..Len(tol[p]) \/ i = Len(tol[p]) + 1
      BY <1>2, <1>4
    <3>2. \A i \in 1..Len(tol[p]) : tol[p][i].no = i
      BY <1>2 DEF Numbers
    <3>3. \A i \in 1..Len(tol2[p]) : tol2[p][i].no = i
      BY <1>3, <1>4, <3>1, <3>2
    <3>4. Len(tol2[p]) <= ask[p]
      <4> HIDE DEF p, l
      <4>1. QED
        BY ONLY <1>2, <1>3, <1>4
    <3>5. QED
      BY ONLY <2>2, <3>3, <3>4
  <2>3. QED
    BY <2>1, <2>2
<1>6. ASSUME NEW q \in Promise, out[q] = Unsettled
      PROVE  /\ tol2[q] = <<>> /\ Len(lis[q]) = ask[q]
             /\ \A i \in 1..Len(lis[q]) : lis[q][i].no = i
  BY <1>2, <1>4, <1>6 DEF Numbers
<1>7. ASSUME NEW q \in Promise, out[q] # Unsettled, NEW n \in Len(tol2[q])+1..ask[q]
      PROVE  \E i \in 1..Len(imm2) : imm2[i].to.of = q /\ imm2[i].to.no = n
  <2>1. n \in Len(tol[q])+1..ask[q] /\ ~(q = p /\ n = l.no)
    <3>1. Len(tol[q]) \in Nat /\ Len(tol2[q]) = IF q = p THEN Len(tol[q]) + 1 ELSE Len(tol[q])
      BY <1>4 DEF Shape
    <3>2. l.no = Len(tol[p]) + 1 /\ n \in Len(tol2[q])+1..ask[q] /\ ask[q] \in Nat
      BY <1>3, <1>7 DEF Shape
    <3> HIDE DEF p, l
    <3> QED BY ONLY <3>1, <3>2, SMTT(30)
  <2>2. PICK i \in 1..Len(imm) : imm[i].to.of = q /\ imm[i].to.no = n
    BY <1>7, <2>1 DEF Numbers
  <2>3. i # 1
    BY <2>1, <2>2
  <2>4. QED
    BY <1>1, <2>2, <2>3
<1>8. ASSUME NEW i \in 1..Len(imm2)
      PROVE  imm2[i].to.no \in Len(tol2[imm2[i].to.of])+1..ask[imm2[i].to.of]
  <2> DEFINE m == imm[i + 1].to
  <2>1. i + 1 \in 1..Len(imm) /\ imm2[i].to = m /\ 1 < i + 1
    BY <1>1
  <2>2. m.of \in Promise /\ m.no \in Len(tol[m.of])+1..ask[m.of]
    BY <2>1 DEF Numbers, Shape
  <2>3. CASE m.of = p
    <3>1. l.no < m.no
      BY <1>1, <2>1, <2>3 DEF Numbers
    <3>2. m.no \in Len(tol[p])+1..ask[p]
      BY <2>2, <2>3
    <3> HIDE DEF l, p, m
    <3>3. m.no \in Len(tol2[p])+1..ask[p]
      BY <1>2, <1>3, <1>4, <3>1, <3>2
    <3>4. m.no \in Len(tol2[m.of])+1..ask[m.of]
      BY <2>3, <3>3
    <3>5. QED
      BY <2>1, <3>4
  <2>4. CASE m.of # p
    BY <1>4, <2>1, <2>2, <2>4
  <2>5. QED
    BY <2>3, <2>4
<1>9. ASSUME NEW i \in 1..Len(imm2), NEW j \in 1..Len(imm2), imm2[i].to.of = imm2[j].to.of, i < j
      PROVE  imm2[i].to.no < imm2[j].to.no
  <2>1. /\ i + 1 < j + 1 /\ i + 1 \in 1..Len(imm) /\ j + 1 \in 1..Len(imm)
        /\ imm2[i] = imm[i + 1] /\ imm2[j] = imm[j + 1]
    BY <1>1, <1>9
  <2>2. imm[i + 1].to.no < imm[j + 1].to.no
    BY ONLY <1>9, <2>1, Numbers(out, lis, imm, ask, tol) DEF Numbers
  <2>3. QED
    BY <2>1, <2>2
<1>10. QED
  BY <1>5, <1>6, <1>7, <1>8, <1>9 DEF Numbers

LEMMA TellOutcomes ==
  ASSUME NEW out, NEW lis, NEW imm, NEW ask, NEW tol, NEW imm2, NEW tol2,
         Shape(lis, imm, ask, tol), TellStep(imm, tol, imm2, tol2), Outcomes(out, imm, tol)
  PROVE  /\ Outcomes(out, imm2, tol2)
         /\ imm[1].to.of \in Promise /\ out[imm[1].to.of] # Unsettled
<1> DEFINE p == imm[1].to.of
<1>1. /\ 1 \in 1..Len(imm)
      /\ \A i \in 1..Len(imm2) : i + 1 \in 1..Len(imm) /\ imm2[i] = imm[i + 1]
      /\ Len(tol2[p]) = Len(tol[p]) + 1
      /\ \A i \in 1..Len(tol[p]) : tol2[p][i] = tol[p][i]
      /\ tol2[p][Len(tol[p]) + 1].outcome = imm[1].outcome
      /\ \A q \in Promise : q # p => tol2[q] = tol[q]
  <2>1. Len(imm) \in Nat \ {0} BY DEF TellStep
  <2>2. 1 \in 1..Len(imm) BY <2>1
  <2>3. \A i \in 1..Len(imm2) : i + 1 \in 1..Len(imm) /\ imm2[i] = imm[i + 1] BY ZenonT(60) DEF TellStep
  <2>4. /\ Len(tol2[p]) = Len(tol[p]) + 1
        /\ \A i \in 1..Len(tol[p]) : tol2[p][i] = tol[p][i]
        /\ tol2[p][Len(tol[p]) + 1].outcome = imm[1].outcome
    BY ZenonT(60) DEF TellStep
  <2>5. \A q \in Promise : q # p => tol2[q] = tol[q] BY ZenonT(60) DEF TellStep
  <2> QED BY <2>2, <2>3, <2>4, <2>5
<1>2. p \in Promise /\ out[p] # Unsettled /\ Tells(imm[1].outcome, out[p]) /\ Len(tol[p]) \in Nat
  BY <1>1 DEF Outcomes, Shape
<1>3. \A i \in 1..Len(imm2) :
        out[imm2[i].to.of] # Unsettled /\ Tells(imm2[i].outcome, out[imm2[i].to.of])
  BY <1>1 DEF Outcomes
<1>4. ASSUME NEW q \in Promise, NEW i \in 1..Len(tol2[q]) PROVE Tells(tol2[q][i].outcome, out[q])
  <2>1. CASE q # p
    BY <1>1, <2>1 DEF Outcomes
  <2>2. CASE q = p
    <3>1. i \in 1..Len(tol[p]) \/ i = Len(tol[p]) + 1
      BY <1>1, <1>2, <2>2
    <3>2. \A k \in 1..Len(tol[p]) : Tells(tol[p][k].outcome, out[p])
      BY <1>2 DEF Outcomes
    <3>3. QED
      BY <1>1, <1>2, <2>2, <3>1, <3>2
  <2>3. QED
    BY <2>1, <2>2
<1>5. QED
  BY <1>2, <1>3, <1>4 DEF Outcomes

-----------------------------------------------------------------------------
(* The handlers.                                                           *)

LEMMA Shapes ==
  ASSUME NEW lis \in [Promise -> Seq(Listener)], NEW imm \in Seq(Task), NEW ask \in [Promise -> Nat],
         NEW tol \in [Promise -> Seq([no : Nat, outcome : Outcome])]
  PROVE  Shape(lis, imm, ask, tol)
<1>1. \A i \in 1..Len(imm) : imm[i].to.of \in Promise /\ imm[i].to.no \in Nat
  <2>1. \A i \in 1..Len(imm) : imm[i] \in Task
    OBVIOUS
  <2>2. QED
    BY <2>1 DEF Task, Listener
<1>2. \A p \in Promise : Len(lis[p]) \in Nat /\ Len(tol[p]) \in Nat /\ ask[p] \in Nat
  OBVIOUS
<1>3. QED
  BY <1>1, <1>2 DEF Shape

LEMMA OutcomeIsSettled == \A o \in Outcome : o # Unsettled
BY PromiseConstants DEF Outcome

\* fulfill and reject of a promise that waits, when its immediate has been taken from
\* the queue and has been told (t).
LEMMA Settled ==
  ASSUME PromiseTypeOK, Known, NEW c \in made, outcome[c] = Unsettled, NEW o \in Outcome,
         NEW q \in Seq(Task), NEW t \in [Promise -> Seq([no : Nat, outcome : Outcome])],
         Free(c, listeners, q),
         Whole(outcome, listeners, q, foreign, made, asked, t),
         Settle(c, o, q), UNCHANGED <<made, foreign>>
  PROVE  /\ Whole(outcome', listeners', immediates', foreign, made, asked, t)
         /\ outcome' \in [Promise -> Outcome \cup {Unsettled}]
         /\ listeners' \in [Promise -> Seq(Listener)] /\ immediates' \in Seq(Task)
         /\ Known'
<1>1. c \in Promise /\ made \in SUBSET Promise /\ o # Unsettled
  BY OutcomeIsSettled DEF PromiseTypeOK
<1>2. /\ SettleStep(c, o, outcome, listeners, q, outcome', listeners', immediates')
      /\ outcome' \in [Promise -> Outcome \cup {Unsettled}]
      /\ listeners' \in [Promise -> Seq(Listener)] /\ immediates' \in Seq(Task)
  BY <1>1, Settles
<1>3. Shape(listeners, q, asked, t)
  BY Shapes DEF PromiseTypeOK
<1>4. Lists(outcome, listeners) /\ Hands(outcome, listeners, q, foreign, made)
      /\ Numbers(outcome, listeners, q, asked, t) /\ Outcomes(outcome, q, t)
  BY DEF Whole
<1>5. Lists(outcome', listeners')
  BY <1>1, <1>2, <1>4, SettleLists
<1>6. Hands(outcome', listeners', immediates', foreign, made)
  BY <1>1, <1>2, <1>3, <1>4, SettleHands
<1>7. Numbers(outcome', listeners', immediates', asked, t)
  BY <1>1, <1>2, <1>3, <1>4, SettleNumbers
<1>8. Outcomes(outcome', immediates', t)
  BY <1>1, <1>2, <1>3, <1>4, SettleOutcomes
<1>9. Known'
  BY <1>2 DEF SettleStep, Known
<1>10. QED
  BY <1>2, <1>5, <1>6, <1>7, <1>8, <1>9 DEF Whole

\* then, for a promise m that is held by nobody; mad are the promises once it is made.
LEMMA Added ==
  ASSUME PromiseTypeOK, NEW l \in Listener, l.no = asked[l.of] + 1,
         NEW q \in Seq(Task), NEW t \in [Promise -> Seq([no : Nat, outcome : Outcome])], NEW mad,
         Free(l.child, listeners, q), Open(l.child, outcome, mad), l.child \notin foreign,
         Whole(outcome, listeners, q, foreign, mad, asked, t), AddListener(l, q)
  PROVE  /\ Whole(outcome, listeners', immediates', foreign, mad, asked', t)
         /\ listeners' \in [Promise -> Seq(Listener)] /\ immediates' \in Seq(Task)
         /\ asked' \in [Promise -> Nat]
<1>1. l.of \in Promise
  BY DEF Listener
<1>2. /\ AddStep(l, outcome, listeners, q, asked, listeners', immediates', asked')
      /\ listeners' \in [Promise -> Seq(Listener)] /\ immediates' \in Seq(Task)
      /\ asked' \in [Promise -> Nat]
  BY Adds
<1>3. Shape(listeners, q, asked, t)
  BY Shapes DEF PromiseTypeOK
<1>4. Lists(outcome, listeners) /\ Hands(outcome, listeners, q, foreign, mad)
      /\ Numbers(outcome, listeners, q, asked, t) /\ Outcomes(outcome, q, t)
  BY DEF Whole
<1>5. Lists(outcome, listeners')
  BY <1>1, <1>2, <1>3, <1>4, AddLists
<1>6. Hands(outcome, listeners', immediates', foreign, mad)
  BY <1>1, <1>2, <1>3, <1>4, AddHands
<1>7. Numbers(outcome, listeners', immediates', asked', t)
  BY <1>1, <1>2, <1>3, <1>4, AddNumbers
<1>8. Outcomes(outcome, immediates', t)
  BY <1>1, <1>2, <1>3, <1>4, AddOutcomes
<1>9. QED
  BY <1>2, <1>5, <1>6, <1>7, <1>8 DEF Whole

\* More promises are made.
LEMMA HandsMore ==
  ASSUME NEW out, NEW lis, NEW imm, NEW for, NEW mad, NEW more, mad \subseteq more,
         Hands(out, lis, imm, for, mad)
  PROVE  Hands(out, lis, imm, for, more)
<1>1. \A d : Open(d, out, mad) => Open(d, out, more)
  BY DEF Open
<1>2. QED
  BY <1>1 DEF Hands

LEMMA SoundThen ==
  \A p \in Promise, on \in SUBSET {"fulfilled", "rejected"} :
    PromiseTypeOK /\ Sound /\ Then(p, on) => (PromiseTypeOK /\ Sound)'
<1> SUFFICES ASSUME NEW p \in Promise, NEW on \in SUBSET {"fulfilled", "rejected"},
                    PromiseTypeOK, Sound, Then(p, on)
             PROVE  (PromiseTypeOK /\ Sound)'
  OBVIOUS
<1> DEFINE c == NewPromise
           l == [of |-> p, no |-> asked[p] + 1, child |-> c, on |-> on, adopts |-> FALSE]
<1>1. /\ made \subseteq Promise /\ made # Promise /\ made' = made \cup {c}
      /\ AddListener(l, immediates) /\ UNCHANGED <<outcome, foreign, died, told>>
  BY DEF Then, PromiseTypeOK
<1>2. c \in Promise /\ c \notin made
  <2>1. \E d \in Promise : d \notin made
    BY <1>1
  <2>2. QED
    BY <2>1 DEF NewPromise
<1>3. asked[p] + 1 \in Nat
  BY DEF PromiseTypeOK
<1>4. l \in Listener /\ l.no = asked[l.of] + 1 /\ l.child = c
  BY <1>2, <1>3 DEF Listener
<1> HIDE DEF c, l
<1>5. Known /\ Whole(outcome, listeners, immediates, foreign, made, asked, told)
  BY DEF Sound
<1>6. Free(c, listeners, immediates)
  BY <1>2, <1>5 DEF Whole, Hands, Open, Free, Known
<1>7. Open(c, outcome, made') /\ c \notin foreign
  BY <1>1, <1>2, <1>5 DEF Open, Known
<1>8. Whole(outcome, listeners, immediates, foreign, made', asked, told)
  BY <1>1, <1>5, HandsMore DEF Whole
<1>9. immediates \in Seq(Task) /\ told \in [Promise -> Seq([no : Nat, outcome : Outcome])]
  BY DEF PromiseTypeOK
<1>10. /\ Whole(outcome, listeners', immediates', foreign, made', asked', told)
       /\ listeners' \in [Promise -> Seq(Listener)] /\ immediates' \in Seq(Task)
       /\ asked' \in [Promise -> Nat]
  BY <1>1, <1>4, <1>6, <1>7, <1>8, <1>9, Added
<1>11. Known'
  BY <1>1, <1>5 DEF Known
<1>12. PromiseTypeOK'
  BY <1>1, <1>2, <1>10 DEF PromiseTypeOK
<1>13. QED
  BY <1>1, <1>10, <1>11, <1>12 DEF Sound

LEMMA SoundAnswer ==
  \A p \in Promise, o \in Outcome :
    PromiseTypeOK /\ Sound /\ Answer(p, o) => (PromiseTypeOK /\ Sound)'
<1> SUFFICES ASSUME NEW p \in Promise, NEW o \in Outcome, PromiseTypeOK, Sound, Answer(p, o)
             PROVE  (PromiseTypeOK /\ Sound)'
  OBVIOUS
<1>1. /\ p \in Root /\ outcome[p] = Unsettled /\ Settle(p, o, immediates)
      /\ UNCHANGED <<made, foreign, died, asked, told>>
  BY DEF Answer
<1>2. Known /\ Whole(outcome, listeners, immediates, foreign, made, asked, told)
  BY DEF Sound
<1>3. p \in made /\ Free(p, listeners, immediates)
  BY <1>1, <1>2 DEF Whole, Hands, Open, Free, Known
<1>4. immediates \in Seq(Task) /\ told \in [Promise -> Seq([no : Nat, outcome : Outcome])]
  BY DEF PromiseTypeOK
<1>5. /\ Whole(outcome', listeners', immediates', foreign, made, asked, told)
      /\ outcome' \in [Promise -> Outcome \cup {Unsettled}]
      /\ listeners' \in [Promise -> Seq(Listener)] /\ immediates' \in Seq(Task) /\ Known'
  BY <1>1, <1>2, <1>3, <1>4, Settled
<1>6. PromiseTypeOK'
  BY <1>1, <1>5 DEF PromiseTypeOK
<1>7. QED
  BY <1>1, <1>5, <1>6 DEF Sound

LEMMA SoundForeign ==
  \A c \in Promise, o \in Outcome :
    PromiseTypeOK /\ Sound /\ ForeignSettles(c, o) => (PromiseTypeOK /\ Sound)'
<1> SUFFICES ASSUME NEW c \in Promise, NEW o \in Outcome, PromiseTypeOK, Sound, ForeignSettles(c, o)
             PROVE  (PromiseTypeOK /\ Sound)'
  OBVIOUS
<1>1. /\ c \in foreign /\ Adopt(c, o, immediates) /\ UNCHANGED <<made, foreign, asked, told>>
  BY DEF ForeignSettles
<1>2. CASE outcome[c] # Unsettled
  <2>1. UNCHANGED promiseVars
    BY <1>1, <1>2 DEF Adopt, MaySettle, promiseVars
  <2>2. QED
    BY <2>1 DEF promiseVars, PromiseTypeOK, Sound, Known
<1>3. CASE outcome[c] = Unsettled
  <2>1. Settle(c, o, immediates) /\ UNCHANGED died
    BY <1>1, <1>3 DEF Adopt, MaySettle, SettleChild
  <2>2. Known /\ Whole(outcome, listeners, immediates, foreign, made, asked, told)
    BY DEF Sound
  <2>3. c \in made
    BY <1>1, <2>2 DEF Known
  <2>4. immediates \in Seq(Task) /\ told \in [Promise -> Seq([no : Nat, outcome : Outcome])]
    BY DEF PromiseTypeOK
  <2>5. Free(c, listeners, immediates)
    BY <1>1, <2>2 DEF Whole, Hands, Free
  <2>6. /\ Whole(outcome', listeners', immediates', foreign, made, asked, told)
        /\ outcome' \in [Promise -> Outcome \cup {Unsettled}]
        /\ listeners' \in [Promise -> Seq(Listener)] /\ immediates' \in Seq(Task) /\ Known'
    BY <1>1, <1>3, <2>1, <2>2, <2>3, <2>4, <2>5, Settled
  <2>7. PromiseTypeOK'
    BY <1>1, <2>1, <2>6 DEF PromiseTypeOK
  <2>8. QED
    BY <1>1, <2>1, <2>6, <2>7 DEF Sound
<1>4. QED
  BY <1>2, <1>3

\* RunImmediate has told the first and holds the promise that is his.
LEMMA Told ==
  ASSUME PromiseTypeOK, Sound, immediates # <<>>,
         told' = [told EXCEPT ![Head(immediates).to.of] =
                    Append(@, [no |-> Head(immediates).to.no, outcome |-> Head(immediates).outcome])]
  PROVE  /\ Whole(outcome, listeners, Tail(immediates), foreign, made, asked, told')
         /\ Free(Head(immediates).to.child, listeners, Tail(immediates))
         /\ Open(Head(immediates).to.child, outcome, made) /\ Head(immediates).to.child \notin foreign
         /\ Head(immediates) \in Task /\ Tail(immediates) \in Seq(Task)
         /\ told' \in [Promise -> Seq([no : Nat, outcome : Outcome])]
<1>1. /\ TellStep(immediates, told, Tail(immediates), told')
      /\ Head(immediates) \in Task /\ Head(immediates) = immediates[1]
      /\ Tail(immediates) \in Seq(Task)
      /\ told' \in [Promise -> Seq([no : Nat, outcome : Outcome])]
  BY TellsNext
<1>2. Shape(listeners, immediates, asked, told)
  BY Shapes DEF PromiseTypeOK
<1>3. Lists(outcome, listeners) /\ Hands(outcome, listeners, immediates, foreign, made)
      /\ Numbers(outcome, listeners, immediates, asked, told) /\ Outcomes(outcome, immediates, told)
  BY DEF Sound, Whole
<1>4. /\ Hands(outcome, listeners, Tail(immediates), foreign, made)
      /\ Free(immediates[1].to.child, listeners, Tail(immediates))
      /\ Open(immediates[1].to.child, outcome, made) /\ immediates[1].to.child \notin foreign
  BY <1>1, <1>2, <1>3, TellHands
<1>5. Numbers(outcome, listeners, Tail(immediates), asked, told')
  BY <1>1, <1>2, <1>3, TellNumbers
<1>6. Outcomes(outcome, Tail(immediates), told')
  BY <1>1, <1>2, <1>3, TellOutcomes
<1>7. QED
  BY <1>1, <1>3, <1>4, <1>5, <1>6 DEF Whole

LEMMA SoundRun == PromiseTypeOK /\ Sound /\ RunImmediate => (PromiseTypeOK /\ Sound)'
<1> SUFFICES ASSUME PromiseTypeOK, Sound, RunImmediate PROVE (PromiseTypeOK /\ Sound)'
  OBVIOUS
<1> DEFINE task == Head(immediates)
           l == task.to
           c == l.child
           rest == Tail(immediates)
<1>1. /\ immediates # <<>> /\ UNCHANGED made
      /\ told' = [told EXCEPT ![l.of] = Append(@, [no |-> l.no, outcome |-> task.outcome])]
  BY DEF RunImmediate
<1>2. /\ Whole(outcome, listeners, rest, foreign, made, asked, told')
      /\ Free(c, listeners, rest) /\ Open(c, outcome, made) /\ c \notin foreign
      /\ task \in Task /\ rest \in Seq(Task)
      /\ told' \in [Promise -> Seq([no : Nat, outcome : Outcome])]
  BY <1>1, Told
<1>3. ~died /\ Known /\ made \subseteq Promise
  BY DEF Sound, PromiseTypeOK
<1>4. l \in Listener /\ task.outcome \in Outcome
  BY <1>2 DEF Task
<1>5. c \in made \ Root /\ c \in Promise /\ outcome[c] = Unsettled
  BY <1>2, <1>3 DEF Open
<1>6. ASSUME NEW o \in Outcome, SettleChild(c, o, rest), UNCHANGED <<foreign, asked>>
      PROVE  (PromiseTypeOK /\ Sound)'
  <2> HIDE DEF c, l, task, rest
  <2>1. Settle(c, o, rest) /\ UNCHANGED died
    BY <1>5, <1>6 DEF SettleChild
  <2>2. /\ Whole(outcome', listeners', immediates', foreign, made, asked, told')
        /\ outcome' \in [Promise -> Outcome \cup {Unsettled}]
        /\ listeners' \in [Promise -> Seq(Listener)] /\ immediates' \in Seq(Task) /\ Known'
    BY <1>1, <1>2, <1>3, <1>5, <1>6, <2>1, Settled
  <2>3. PromiseTypeOK'
    BY <1>1, <1>2, <1>6, <2>1, <2>2 DEF PromiseTypeOK
  <2>4. QED
    BY <1>1, <1>3, <1>6, <2>1, <2>2, <2>3 DEF Sound
<1>7. CASE Adopt(c, task.outcome, rest) /\ UNCHANGED <<foreign, asked>>
  BY <1>4, <1>5, <1>6, <1>7 DEF Adopt, MaySettle
<1>8. CASE SettleChild(c, task.outcome, rest) /\ UNCHANGED <<foreign, asked>>
  BY <1>4, <1>6, <1>8
<1>9. ASSUME NEW v \in Value, SettleChild(c, Fulfilled(v), rest), UNCHANGED <<foreign, asked>>
      PROVE  (PromiseTypeOK /\ Sound)'
  <2>1. Fulfilled(v) \in Outcome
    BY DEF Fulfilled, Outcome
  <2>2. QED
    BY <1>6, <1>9, <2>1
<1>10. ASSUME NEW e \in Reason, SettleChild(c, Rejected(e), rest), UNCHANGED <<foreign, asked>>
       PROVE  (PromiseTypeOK /\ Sound)'
  <2>1. Rejected(e) \in Outcome
    BY DEF Rejected, Outcome
  <2>2. QED
    BY <1>6, <1>10, <2>1
<1>11. ASSUME NEW q \in made, ReturnsPromise(l, q, rest), UNCHANGED foreign
       PROVE  (PromiseTypeOK /\ Sound)'
  <2>1. CASE q = l.of
    BY <1>10, <1>11, <2>1 DEF ReturnsPromise
  <2>2. CASE q # l.of
    <3> DEFINE m == [of |-> q, no |-> asked[q] + 1, child |-> c, on |-> {"fulfilled", "rejected"},
                     adopts |-> TRUE]
    <3>1. AddListener(m, rest) /\ UNCHANGED <<outcome, died>>
      BY <1>11, <2>2 DEF ReturnsPromise
    <3>2. asked[q] + 1 \in Nat /\ q \in Promise
      BY <1>3 DEF PromiseTypeOK
    <3>3. m \in Listener /\ m.no = asked[m.of] + 1 /\ m.child = c
      BY <1>5, <3>2 DEF Listener
    <3> HIDE DEF m, c, l, task, rest
    <3>4. /\ Whole(outcome, listeners', immediates', foreign, made, asked', told')
          /\ listeners' \in [Promise -> Seq(Listener)] /\ immediates' \in Seq(Task)
          /\ asked' \in [Promise -> Nat]
      BY <1>2, <3>1, <3>3, Added
    <3>5. PromiseTypeOK'
      BY <1>1, <1>2, <1>11, <3>1, <3>4 DEF PromiseTypeOK
    <3>6. Known'
      BY <1>1, <1>3, <1>11, <3>1 DEF Known
    <3>7. QED
      BY <1>1, <1>3, <1>11, <3>1, <3>4, <3>5, <3>6 DEF Sound
  <2>3. QED
    BY <2>1, <2>2
<1>12. CASE /\ foreign' = foreign \cup {c}
            /\ immediates' = rest
            /\ UNCHANGED <<outcome, listeners, died, asked>>
  <2> HIDE DEF c, l, task, rest
  <2>1. Hands(outcome, listeners, rest, foreign', made)
    BY <1>2, <1>12 DEF Whole, Hands, Free
  <2>2. Whole(outcome', listeners', immediates', foreign', made', asked', told')
    BY <1>1, <1>2, <1>12, <2>1 DEF Whole
  <2>3. Known'
    BY <1>1, <1>3, <1>5, <1>12 DEF Known
  <2>4. PromiseTypeOK'
    BY <1>1, <1>2, <1>5, <1>12 DEF PromiseTypeOK
  <2>5. QED
    BY <1>3, <1>12, <2>2, <2>3, <2>4 DEF Sound
<1>13. QED
  BY <1>7, <1>8, <1>9, <1>10, <1>11, <1>12 DEF RunImmediate

-----------------------------------------------------------------------------
(* Theorems.                                                               *)

\* The inductive invariant holds in every reachable state of the promises, whatever the
\* callbacks return and whenever thenables settle what they were given (Promise.js).
THEOREM InvarianceOfPromises == PromiseSpec => [](PromiseTypeOK /\ Sound)
<1>1. PromiseInit => PromiseTypeOK /\ Sound
  <2> SUFFICES ASSUME PromiseInit PROVE PromiseTypeOK /\ Sound
    OBVIOUS
  <2>1. PromiseTypeOK
    <3> DEFINE Entry == [no : Nat, outcome : Outcome]
    <3> HIDE DEF Entry
    <3>1. told \in [Promise -> Seq(Entry)]
      BY DEF PromiseInit
    <3>2. /\ made \subseteq Promise /\ outcome \in [Promise -> Outcome \cup {Unsettled}]
          /\ listeners \in [Promise -> Seq(Listener)] /\ immediates \in Seq(Task)
          /\ foreign \subseteq Promise /\ died \in BOOLEAN /\ asked \in [Promise -> Nat]
      <4>1. \A S : <<>> \in Seq(S)
        OBVIOUS
      <4>2. immediates \in Seq(Task) /\ listeners \in [Promise -> Seq(Listener)]
        BY <4>1 DEF PromiseInit
      <4>3. outcome \in [Promise -> Outcome \cup {Unsettled}]
        BY DEF PromiseInit
      <4>4. made \subseteq Promise /\ foreign \subseteq Promise /\ died \in BOOLEAN
            /\ asked \in [Promise -> Nat]
        BY PromiseConstants DEF PromiseInit
      <4>5. QED
        BY <4>2, <4>3, <4>4
    <3>3. QED
      BY <3>1, <3>2 DEF PromiseTypeOK, Entry
  <2>2. Known /\ ~died
    BY DEF PromiseInit, Known
  <2>3. Lists(outcome, listeners) /\ Hands(outcome, listeners, immediates, foreign, made)
    BY DEF PromiseInit, Lists, Hands
  <2>4. Numbers(outcome, listeners, immediates, asked, told) /\ Outcomes(outcome, immediates, told)
    BY DEF PromiseInit, Numbers, Outcomes
  <2>5. QED
    BY <2>1, <2>2, <2>3, <2>4 DEF Sound, Whole
<1>2. PromiseTypeOK /\ Sound /\ [PromiseNext]_promiseVars => (PromiseTypeOK /\ Sound)'
  <2> SUFFICES ASSUME PromiseTypeOK, Sound, [PromiseNext]_promiseVars PROVE (PromiseTypeOK /\ Sound)'
    OBVIOUS
  <2>1. CASE UNCHANGED promiseVars
    <3>1. UNCHANGED <<made, outcome, listeners, immediates, foreign, died, asked, told>>
      BY <2>1 DEF promiseVars
    <3>2. PromiseTypeOK'
      BY <3>1 DEF PromiseTypeOK
    <3>3. Known'
      BY <3>1 DEF Sound, Known
    <3>4. Whole(outcome, listeners, immediates, foreign, made, asked, told)'
      BY <3>1 DEF Sound
    <3>5. QED
      BY <3>1, <3>2, <3>3, <3>4 DEF Sound
  <2>2. QED
    BY <2>1, SoundThen, SoundAnswer, SoundForeign, SoundRun DEF PromiseNext
<1>3. QED
  BY <1>1, <1>2, PTL DEF PromiseSpec

\* What the run checks for four promises, for any set of them: nothing throws because a
\* promise was settled before, and callbacks are told in the order of the calls of then
\* what their promise was settled with (fulfill, reject, then).
THEOREM PromisesHold == PromiseSpec => []PromisesAreSound
<1>1. PromiseTypeOK /\ Sound => PromisesAreSound
  <2> SUFFICES ASSUME PromiseTypeOK, Sound PROVE PromisesAreSound
    OBVIOUS
  <2>1. NothingThrows
    BY DEF Sound, NothingThrows
  <2> DEFINE Entry == [no : Nat, outcome : Outcome]
  <2>2. \A p \in Promise : told[p] \in Seq(Entry)
    BY DEF PromiseTypeOK
  <2> HIDE DEF Entry
  <2>3. \A p \in Promise : DOMAIN told[p] = 1..Len(told[p])
    BY ONLY <2>2, LenProperties
  <2>4. ToldInOrder
    BY <2>3 DEF Sound, Whole, Numbers, ToldInOrder
  <2>5. ToldTheSame
    <3>1. \A p \in Promise : \A i \in 1..Len(told[p]) : Tells(told[p][i].outcome, outcome[p])
      BY DEF Sound, Whole, Outcomes
    <3>2. QED
      BY <2>3, <3>1 DEF Tells, ToldTheSame
  <2>6. QED
    BY <2>1, <2>4, <2>5 DEF PromisesAreSound
<1>2. QED
  BY <1>1, InvarianceOfPromises, PTL

\* A promise that then has returned is settled by one hand only: a callback that waits
\* finds it unsettled, and it was not given to a thenable as well
\* (thenPromiseFulfilledOrRejected).
THEOREM OneHand ==
  PromiseSpec =>
    [](\A i \in 1..Len(immediates) :
         outcome[immediates[i].to.child] = Unsettled /\ immediates[i].to.child \notin foreign)
<1>1. Sound => \A i \in 1..Len(immediates) :
        outcome[immediates[i].to.child] = Unsettled /\ immediates[i].to.child \notin foreign
  BY DEF Sound, Whole, Hands, Open
<1>2. QED
  BY <1>1, InvarianceOfPromises, PTL

-----------------------------------------------------------------------------
(* The accountant.                                                         *)

\* The drift without modulo: concurrency has wrapped around some number of
\* times.
Drift == \E k \in Int : concurrency + scans = Cardinality(OpenContexts) + k * Width

AccountantInv == AccountantTypeOK /\ Drift /\ EstablishedBound

-----------------------------------------------------------------------------

\* A context that starts a transaction adds one to the open ones.
LEMMA OpenGrows ==
  ASSUME AccountantTypeOK, NEW c \in Context, NEW n \in Node,
         tcNode[c] = Nil, tcNode' = [tcNode EXCEPT ![c] = n]
  PROVE  Cardinality(OpenContexts') = Cardinality(OpenContexts) + 1
<1>1. IsFiniteSet(OpenContexts)
  BY AccountantConstants, FS_Subset DEF OpenContexts
<1>2. OpenContexts' = OpenContexts \cup {c}
  BY AccountantConstants DEF OpenContexts, AccountantTypeOK
<1>3. c \notin OpenContexts
  BY DEF OpenContexts
<1> QED  BY <1>1, <1>2, <1>3, FS_AddElement

\* A close takes one away.
LEMMA OpenShrinks ==
  ASSUME AccountantTypeOK, NEW c \in Context,
         tcNode[c] # Nil, tcNode' = [tcNode EXCEPT ![c] = Nil]
  PROVE  Cardinality(OpenContexts') = Cardinality(OpenContexts) - 1
<1>1. IsFiniteSet(OpenContexts)
  BY AccountantConstants, FS_Subset DEF OpenContexts
<1>2. OpenContexts' = OpenContexts \ {c}
  BY AccountantConstants DEF OpenContexts, AccountantTypeOK
<1>3. c \in OpenContexts
  BY DEF OpenContexts
<1> QED  BY <1>1, <1>2, <1>3, FS_RemoveElement

LEMMA Cardinalities ==
  /\ Cardinality(OpenContexts) \in Nat
  /\ MaxConcurrency \in Nat
<1>1. IsFiniteSet(OpenContexts)
  BY AccountantConstants, FS_Subset DEF OpenContexts
<1> QED  BY <1>1, AccountantConstants, FS_CardinalityType DEF MaxConcurrency

-----------------------------------------------------------------------------

LEMMA WidthIs == Width \in Nat /\ Width > 1
BY DEF Width

\* The 16-bit counter, counted up and down.
LEMMA Counting ==
  ASSUME NEW n \in 0 .. Width - 1
  PROVE  /\ Increment(n) \in 0 .. Width - 1
         /\ Decrement(n) \in 0 .. Width - 1
         /\ n # Width - 1 => Increment(n) = n + 1
         /\ n = Width - 1 => Increment(n) = n + 1 - Width
         /\ n # 0 => Decrement(n) = n - 1
         /\ n = 0 => Decrement(n) = n - 1 + Width
<1>1. n \in Int /\ 0 <= n /\ n <= Width - 1 /\ Width \in Int /\ Width > 1
  BY WidthIs
<1>2. /\ Increment(n) \in 0 .. Width - 1
      /\ n # Width - 1 => Increment(n) = n + 1
      /\ n = Width - 1 => Increment(n) = n + 1 - Width
  <2>1. CASE n = Width - 1
    <3>1. Increment(n) = 0
      BY <2>1 DEF Increment
    <3> QED  BY <1>1, <2>1, <3>1
  <2>2. CASE n # Width - 1
    <3>1. Increment(n) = n + 1
      BY <2>2 DEF Increment
    <3> QED  BY <1>1, <2>2, <3>1
  <2> QED  BY <2>1, <2>2
<1>3. /\ Decrement(n) \in 0 .. Width - 1
      /\ n # 0 => Decrement(n) = n - 1
      /\ n = 0 => Decrement(n) = n - 1 + Width
  <2>1. CASE n = 0
    <3>1. Decrement(n) = Width - 1
      BY <2>1 DEF Decrement
    <3> QED  BY <1>1, <2>1, <3>1
  <2>2. CASE n # 0
    <3>1. Decrement(n) = n - 1
      BY <2>2 DEF Decrement
    <3> QED  BY <1>1, <2>2, <3>1
  <2> QED  BY <2>1, <2>2
<1> QED  BY <1>2, <1>3

\* The node of the transaction and the idle records keep their types.
LEMMA StartTyped ==
  ASSUME AccountantTypeOK, NEW c \in Context, NEW n \in Node, StartTransaction(c, n)
  PROVE  tcNode' \in [Context -> Node \cup {Nil}] /\ idle' \in [Node -> Nat]
<1>1. tcNode' \in [Context -> Node \cup {Nil}]
  BY DEF AccountantTypeOK, StartTransaction
<1>2. idle[n] \in Nat
  BY DEF AccountantTypeOK
<1>3. (IF idle[n] > 0 THEN idle[n] - 1 ELSE 0) \in Nat
  BY <1>2
<1>4. idle' \in [Node -> Nat]
  BY <1>3 DEF AccountantTypeOK, StartTransaction
<1> QED  BY <1>1, <1>4

\* Wrapping around is no more than another number of times.
LEMMA Wraps ==
  ASSUME NEW k \in Int
  PROVE  (k - 1) * Width = k * Width - Width /\ (k + 1) * Width = k * Width + Width /\ k * Width \in Int
BY WidthIs

LEMMA ExecutePreserves ==
  ASSUME AccountantInv, NEW c \in Context, NEW n \in Node, Execute(c, n)
  PROVE  AccountantInv'
<1> USE Cardinalities
<1>1. AccountantTypeOK'
  <2>1. tcNode' \in [Context -> Node \cup {Nil}] /\ idle' \in [Node -> Nat]
    BY StartTyped DEF AccountantInv, Execute
  <2>2. concurrency' \in 0 .. Width - 1
    BY Counting DEF AccountantInv, AccountantTypeOK, Execute, RegisterIntentToOpen
  <2>3. /\ cacheConcurrency' \in Nat
        /\ tally' \subseteq Node
        /\ token' \in [Context -> (SUBSET Node) \cup {Nil}]
        /\ failed' \in BOOLEAN
    <3> USE DEF AccountantInv, AccountantTypeOK, Execute, RegisterIntentToOpen
    <3>1. cacheConcurrency' \in Nat /\ tally' \in SUBSET Node
      OBVIOUS
    <3>2. token' = [token EXCEPT ![c] = Nil] \/ token' = [token EXCEPT ![c] = tally]
      OBVIOUS
    <3>3. tally \in (SUBSET Node) \cup {Nil} /\ Nil \in (SUBSET Node) \cup {Nil}
      OBVIOUS
    <3>4. token' \in [Context -> (SUBSET Node) \cup {Nil}]
      BY <3>2, <3>3
    <3> QED  BY <3>1, <3>4
  <2> QED  BY <2>1, <2>2, <2>3 DEF AccountantInv, AccountantTypeOK, Execute
<1>2. Drift'
  <2>0. /\ AccountantTypeOK /\ concurrency \in 0 .. Width - 1 /\ scans \in Nat
        /\ tcNode[c] = Nil /\ tcNode' = [tcNode EXCEPT ![c] = n]
    BY AccountantConstants DEF AccountantInv, AccountantTypeOK, Execute, StartTransaction
  <2>1. Cardinality(OpenContexts') = Cardinality(OpenContexts) + 1
    BY <2>0, OpenGrows, Zenon
  <2>2. PICK k \in Int : concurrency + scans = Cardinality(OpenContexts) + k * Width
    BY DEF AccountantInv, Drift
  <2>3. scans' = scans /\ concurrency' = Increment(concurrency)
    BY DEF Execute, RegisterIntentToOpen
  <2>4. CASE concurrency = Width - 1
    <3>2. concurrency' = concurrency + 1 - Width
      BY <2>0, <2>3, <2>4, Counting
    <3>1. concurrency' + scans' = Cardinality(OpenContexts') + (k - 1) * Width
      BY <2>0, <2>1, <2>2, <2>3, <3>2, Wraps, WidthIs
    <3> QED  BY <3>1 DEF Drift
  <2>5. CASE concurrency # Width - 1
    <3>1. concurrency' + scans' = Cardinality(OpenContexts') + k * Width
      <4>1. concurrency' = concurrency + 1
        BY <2>0, <2>3, <2>5, Counting
      <4> QED  BY <2>0, <2>1, <2>2, <2>3, <4>1, Wraps, WidthIs
    <3> QED  BY <3>1 DEF Drift
  <2> QED  BY <2>4, <2>5
<1>3. EstablishedBound'
  <2>1. concurrency' \in 0 .. Width - 1
    BY Counting DEF AccountantInv, AccountantTypeOK, Execute, RegisterIntentToOpen
  <2>2. CASE UNCHANGED cacheConcurrency
    BY <2>2 DEF AccountantInv, EstablishedBound, MaxConcurrency
  <2>3. CASE /\ ~failed' /\ ~Established(concurrency')
             /\ cacheConcurrency' = cacheConcurrency + 1
    <3>1. failed' = (concurrency' > MaxConcurrency)
      BY DEF Execute, RegisterIntentToOpen
    <3>2. concurrency' \in Int
      BY <2>1, WidthIs
    <3>3. ~(concurrency' > MaxConcurrency)
      BY <2>3, <3>1, Zenon
    <3> QED  BY <2>3, <3>2, <3>3 DEF AccountantInv, AccountantTypeOK, EstablishedBound, Established, MaxConcurrency
  <2> QED  BY <2>2, <2>3 DEF Execute, RegisterIntentToOpen
<1> QED  BY <1>1, <1>2, <1>3 DEF AccountantInv

LEMMA ExecuteScanPreserves ==
  ASSUME AccountantInv, NEW c \in Context, NEW n \in Node, ExecuteScan(c, n)
  PROVE  AccountantInv'
<1> USE Cardinalities
<1>1. AccountantTypeOK'
  <2>1. tcNode' \in [Context -> Node \cup {Nil}] /\ idle' \in [Node -> Nat]
    BY StartTyped DEF AccountantInv, ExecuteScan
  <2>2. scans' \in 0 .. MaxScans
    BY AccountantConstants DEF AccountantInv, AccountantTypeOK, ExecuteScan
  <2>3. /\ failed' = failed /\ token' = token /\ blocked' = FALSE
        /\ UNCHANGED <<concurrency, cacheConcurrency, tally>>
    BY DEF ExecuteScan, accountant
  <2>4. /\ concurrency \in 0 .. Width - 1 /\ cacheConcurrency \in Nat /\ tally \subseteq Node
        /\ token \in [Context -> (SUBSET Node) \cup {Nil}] /\ failed \in BOOLEAN
    BY DEF AccountantInv, AccountantTypeOK
  <2>5. blocked' \in BOOLEAN
    BY <2>3
  <2> QED  BY <2>1, <2>2, <2>3, <2>4, <2>5 DEF AccountantTypeOK
<1>2. Drift'
  <2>0. /\ AccountantTypeOK /\ concurrency \in 0 .. Width - 1 /\ scans \in Nat
        /\ tcNode[c] = Nil /\ tcNode' = [tcNode EXCEPT ![c] = n]
    BY AccountantConstants DEF AccountantInv, AccountantTypeOK, ExecuteScan, StartTransaction
  <2>1. Cardinality(OpenContexts') = Cardinality(OpenContexts) + 1
    BY <2>0, OpenGrows, Zenon
  <2>2. scans' = scans + 1 /\ concurrency' = concurrency
    BY DEF ExecuteScan, accountant
  <2>3. PICK k \in Int : concurrency + scans = Cardinality(OpenContexts) + k * Width
    BY DEF AccountantInv, Drift
  <2>4. concurrency' + scans' = Cardinality(OpenContexts') + k * Width
    BY <2>0, <2>1, <2>2, <2>3, Wraps, WidthIs
  <2> QED  BY <2>4 DEF Drift
<1>3. EstablishedBound'
  BY DEF AccountantInv, EstablishedBound, ExecuteScan, accountant
<1> QED  BY <1>1, <1>2, <1>3 DEF AccountantInv

LEMMA ClosePreserves ==
  ASSUME AccountantInv, NEW c \in Context, Close(c)
  PROVE  AccountantInv'
<1> USE Cardinalities
<1>1. AccountantTypeOK'
  <2>1. tally' \subseteq Node
    <3>1. tcNode[c] \in Node
      BY DEF AccountantInv, AccountantTypeOK, Close
    <3>2. CASE token[c] # Nil
      <4>1. token[c] \in (SUBSET Node) \cup {Nil}
        BY DEF AccountantInv, AccountantTypeOK
      <4>2. token[c] \in SUBSET Node
        BY <4>1, <3>2
      <4>3. tally' = Xor(Xor(tally, token[c]), {tcNode[c]})
        BY <3>2 DEF Close
      <4> QED  BY <3>1, <4>2, <4>3 DEF AccountantInv, AccountantTypeOK, Xor
    <3>3. CASE token[c] = Nil
      BY <3>3 DEF AccountantInv, AccountantTypeOK, Close
    <3> QED  BY <3>2, <3>3
  <2>2. concurrency' \in 0 .. Width - 1
    BY Counting DEF AccountantInv, AccountantTypeOK, Close, CountsClose
  <2>3. idle' \in [Node -> Nat]
    <3>1. tcNode[c] \in Node
      BY DEF AccountantInv, AccountantTypeOK, Close
    <3>2. idle[tcNode[c]] + 1 \in Nat
      BY <3>1 DEF AccountantInv, AccountantTypeOK
    <3> QED  BY <3>1, <3>2 DEF AccountantInv, AccountantTypeOK, Close
  <2>4. tcNode' \in [Context -> Node \cup {Nil}]
    BY DEF AccountantInv, AccountantTypeOK, Close
  <2>5. /\ cacheConcurrency \in Nat /\ token \in [Context -> (SUBSET Node) \cup {Nil}]
        /\ blocked \in BOOLEAN /\ failed \in BOOLEAN /\ scans \in 0 .. MaxScans
    BY DEF AccountantInv, AccountantTypeOK
  <2>6. UNCHANGED <<cacheConcurrency, token, blocked, failed, scans>>
    BY DEF Close
  <2> QED  BY <2>1, <2>2, <2>3, <2>4, <2>5, <2>6 DEF AccountantTypeOK
<1>2. Drift'
  <2>0. /\ AccountantTypeOK /\ concurrency \in 0 .. Width - 1 /\ scans \in Nat
        /\ tcNode[c] # Nil /\ tcNode' = [tcNode EXCEPT ![c] = Nil]
    BY AccountantConstants DEF AccountantInv, AccountantTypeOK, Close
  <2>1. Cardinality(OpenContexts') = Cardinality(OpenContexts) - 1
    BY <2>0, OpenShrinks, Zenon
  <2>2. scans' = scans /\ concurrency' = Decrement(concurrency)
    BY DEF Close, CountsClose
  <2>3. PICK k \in Int : concurrency + scans = Cardinality(OpenContexts) + k * Width
    BY DEF AccountantInv, Drift
  <2>4. CASE concurrency = 0
    <3>1. concurrency' + scans' = Cardinality(OpenContexts') + (k + 1) * Width
      BY <2>1, <2>2, <2>3, <2>4 DEF AccountantInv, AccountantTypeOK, Decrement, Width
    <3> QED  BY <3>1 DEF Drift
  <2>5. CASE concurrency # 0
    <3>1. concurrency' + scans' = Cardinality(OpenContexts') + k * Width
      <4>1. concurrency' = concurrency - 1
        BY <2>0, <2>2, <2>5, Counting
      <4> QED  BY <2>0, <2>1, <2>2, <2>3, <4>1, Wraps, WidthIs
    <3> QED  BY <3>1 DEF Drift
  <2> QED  BY <2>4, <2>5
<1>3. EstablishedBound'
  BY DEF AccountantInv, EstablishedBound, Close
<1> QED  BY <1>1, <1>2, <1>3 DEF AccountantInv

\* The invariant is inductive: each start and each close keeps the counters
\* within the drift.
THEOREM InvarianceOfAccountant == AccountantSpec => []AccountantInv
<1>1. AccountantInit => AccountantInv
  <2> SUFFICES ASSUME AccountantInit PROVE AccountantInv
    OBVIOUS
  <2>1. OpenContexts = {}
    BY DEF AccountantInit, OpenContexts
  <2>2. Cardinality(OpenContexts) = 0
    BY <2>1, FS_EmptySet
  <2>3. AccountantTypeOK
    <3>1. token \in [Context -> (SUBSET Node) \cup {Nil}]
      BY DEF AccountantInit
    <3>2. tcNode \in [Context -> Node \cup {Nil}] /\ idle \in [Node -> Nat]
      BY DEF AccountantInit
    <3>3. concurrency \in 0 .. Width - 1 /\ scans \in 0 .. MaxScans
      BY AccountantConstants DEF AccountantInit, Width
    <3>4. cacheConcurrency \in Nat /\ tally \subseteq Node /\ blocked \in BOOLEAN /\ failed \in BOOLEAN
      <4>1. cacheConcurrency = 0 /\ tally = {} /\ blocked = FALSE /\ failed = FALSE
        BY DEF AccountantInit
      <4> QED  BY <4>1
    <3> QED  BY <3>1, <3>2, <3>3, <3>4 DEF AccountantTypeOK
  <2>4. Drift
    <3>1. concurrency + scans = Cardinality(OpenContexts) + 0 * Width
      BY <2>2 DEF AccountantInit, Width
    <3> QED  BY <3>1 DEF Drift
  <2>5. EstablishedBound
    BY Cardinalities DEF AccountantInit, EstablishedBound
  <2> QED  BY <2>3, <2>4, <2>5 DEF AccountantInv
<1>2. AccountantInv /\ [AccountantNext]_accountantVars => AccountantInv'
  <2> SUFFICES ASSUME AccountantInv, [AccountantNext]_accountantVars PROVE AccountantInv'
    OBVIOUS
  <2>1. CASE AccountantNext
    BY <2>1, ExecutePreserves, ExecuteScanPreserves, ClosePreserves DEF AccountantNext
  <2>2. CASE UNCHANGED accountantVars
    <3>1. UNCHANGED <<concurrency, cacheConcurrency, tally, token, tcNode, idle, blocked, failed, scans>>
      BY <2>2 DEF accountantVars, accountant
    <3>2. OpenContexts' = OpenContexts
      BY <3>1 DEF OpenContexts
    <3>3. AccountantTypeOK'
      BY <3>1 DEF AccountantInv, AccountantTypeOK
    <3>4. Drift'
      BY <3>1, <3>2 DEF AccountantInv, Drift
    <3>5. EstablishedBound'
      BY <3>1 DEF AccountantInv, EstablishedBound
    <3> QED  BY <3>3, <3>4, <3>5 DEF AccountantInv
  <2> QED  BY <2>1, <2>2
<1> QED  BY <1>1, <1>2, PTL DEF AccountantSpec

-----------------------------------------------------------------------------

\* registerTxClosed counts down what scans never counted up: that is the only
\* drift of concurrency, whatever the order of starts and closes.
THEOREM DriftIsOfScans == AccountantSpec => []ConcurrencyDrift
<1>1. AccountantInv => ConcurrencyDrift
  <2> SUFFICES ASSUME AccountantInv PROVE ConcurrencyDrift
    OBVIOUS
  <2>1. PICK k \in Int : concurrency + scans = Cardinality(OpenContexts) + k * Width
    BY DEF AccountantInv, Drift
  <2>2. concurrency + scans - Cardinality(OpenContexts) = k * Width
    <3>1. concurrency \in Int /\ scans \in Int
      BY WidthIs, AccountantConstants DEF AccountantInv, AccountantTypeOK
    <3>2. k * Width \in Int /\ Cardinality(OpenContexts) \in Int
      BY Cardinalities, Wraps
    <3> QED  BY <2>1, <3>1, <3>2
  <2>3. (k * Width) % Width = 0
    <3>1. (k * 65536) % 65536 = 0
      BY SMT
    <3> QED  BY <3>1 DEF Width
  <2> QED  BY <2>2, <2>3 DEF ConcurrencyDrift
<1> QED  BY <1>1, InvarianceOfAccountant, PTL

\* cacheConcurrency stays within its 16 bits: at most one more than there are
\* contexts.
THEOREM BoundHolds == AccountantSpec => []EstablishedBound
<1>1. AccountantInv => EstablishedBound
  BY DEF AccountantInv
<1> QED  BY <1>1, InvarianceOfAccountant, PTL

\* The assertion of registerIntentToOpen holds as long as no transaction was
\* started by a scan: the counter is then the number of open transactions.
THEOREM AssertionWithoutScans == AccountantSpec => HoldsWithoutScans
<1>1. AccountantInv /\ [AccountantNext]_accountantVars => [scans = 0 => ~failed']_accountantVars
  <2> SUFFICES ASSUME AccountantInv, [AccountantNext]_accountantVars, accountantVars' # accountantVars, scans = 0 PROVE ~failed'
    OBVIOUS
  <2>1. ASSUME NEW c \in Context, NEW n \in Node, Execute(c, n) PROVE ~failed'
    <3>1. IsFiniteSet(Context) /\ OpenContexts \subseteq Context /\ c \notin OpenContexts
      BY <2>1, AccountantConstants DEF Execute, OpenContexts
    <3>2. Cardinality(OpenContexts \cup {c}) = Cardinality(OpenContexts) + 1
      BY <3>1, FS_AddElement, FS_Subset
    <3>3. Cardinality(OpenContexts \cup {c}) <= Cardinality(Context)
      BY <3>1, FS_Subset
    <3>4. PICK k \in Int : concurrency + scans = Cardinality(OpenContexts) + k * Width
      BY DEF AccountantInv, Drift
    <3>5. /\ concurrency \in Int /\ 0 <= concurrency /\ concurrency < Width
          /\ MaxConcurrency + 1 < Width
      <4>1. concurrency \in 0 .. Width - 1 /\ MaxConcurrency + 1 < Width
        BY AccountantConstants DEF AccountantInv, AccountantTypeOK
      <4> QED  BY <4>1, WidthIs
    <3>6. Cardinality(OpenContexts) + 1 <= MaxConcurrency
      BY <3>2, <3>3 DEF MaxConcurrency
    <3>7. concurrency = Cardinality(OpenContexts)
      BY <3>4, <3>5, <3>6, Cardinalities DEF Width
    <3>8. concurrency' \in Int /\ concurrency' <= MaxConcurrency
      <4>1. concurrency' = Increment(concurrency)
        BY <2>1 DEF Execute, RegisterIntentToOpen
      <4>2. concurrency # Width - 1 /\ concurrency + 1 <= MaxConcurrency
        BY <3>5, <3>6, <3>7, Cardinalities, WidthIs
      <4>3. concurrency' = concurrency + 1
        BY <4>1, <4>2 DEF Increment
      <4> QED  BY <3>5, <4>2, <4>3
    <3>9. failed' = (concurrency' > MaxConcurrency)
      BY <2>1 DEF Execute, RegisterIntentToOpen
    <3>10. ~(concurrency' > MaxConcurrency)
      BY <3>8, Cardinalities
    <3> QED  BY <3>9, <3>10, Zenon
  <2>2. ASSUME NEW c \in Context, NEW n \in Node, ExecuteScan(c, n) PROVE ~failed'
    BY <2>2 DEF ExecuteScan
  <2>3. ASSUME NEW c \in Context, Close(c) PROVE ~failed'
    BY <2>3 DEF Close
  <2> QED  BY <2>1, <2>2, <2>3 DEF AccountantNext
<1> QED  BY <1>1, InvarianceOfAccountant, PTL DEF AccountantSpec, HoldsWithoutScans
=============================================================================
