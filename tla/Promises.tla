------------------------------- MODULE Promises -------------------------------
(***************************************************************************)
(* The promises of jones-promises (lib/Promise.js), which the calls of the *)
(* API return.  A promise is settled once; whoever has called then on it   *)
(* is told in a turn of his own, and what his callback returns or throws   *)
(* settles the promise that then has returned.                             *)
(*                                                                         *)
(* An action is a JavaScript turn.  A callback of the user is what it      *)
(* returns; whatever else it does (then, fulfill) might as well happen     *)
(* just before its turn, as it only adds to the end of the immediates.     *)
(***************************************************************************)
EXTENDS Sequences, Naturals

CONSTANTS
  Promise,   \* the Promise objects
  Root,      \* those that are made and settled by a UserContext
  Value,     \* results
  Reason,    \* errors
  Falsy,     \* the one of them that JavaScript takes for false
  Undefined,
  Unsettled

ASSUME PromiseConstants ==
  /\ Root \subseteq Promise
  /\ Falsy \in Reason /\ Undefined \in Value
  /\ Unsettled \notin [is : {"fulfilled"}, value : Value] \cup [is : {"rejected"}, value : Reason]

VARIABLES
  made,        \* the promises there are
  outcome,     \* of a promise: resolved with its result or err
  listeners,   \* of a promise: fulfilled_callbacks and rejected_callbacks, see Listener
  immediates,  \* what setImmediate was given, see Task
  foreign,     \* the promises to be settled by a thenable that is no Promise
  died,        \* an exception that nobody catches has ended the process
  (* history *)
  asked,       \* how often then was called on a promise
  told         \* what its callbacks were told, in the order in which they ran

promiseVars == <<made, outcome, listeners, immediates, foreign, died, asked, told>>

Outcome == [is : {"fulfilled"}, value : Value] \cup [is : {"rejected"}, value : Reason]

\* One call of then: on the promise of, as the no-th, returning the promise child.  It
\* gives a callback for the outcomes in on; or it was made by the Promise Resolution
\* Procedure, so that child adopts the outcome.
Listener == [of : Promise, no : Nat, child : Promise, on : SUBSET {"fulfilled", "rejected"}, adopts : BOOLEAN]
Task == [to : Listener, outcome : Outcome]

PromiseTypeOK ==
  /\ made \subseteq Promise
  /\ outcome \in [Promise -> Outcome \cup {Unsettled}]
  /\ listeners \in [Promise -> Seq(Listener)]
  /\ immediates \in Seq(Task)
  /\ foreign \subseteq Promise
  /\ died \in BOOLEAN
  /\ asked \in [Promise -> Nat]
  /\ told \in [Promise -> Seq([no : Nat, outcome : Outcome])]

PromiseInit ==
  /\ made = Root
  /\ outcome = [p \in Promise |-> Unsettled]
  /\ listeners = [p \in Promise |-> <<>>]
  /\ immediates = <<>> /\ foreign = {} /\ died = FALSE
  /\ asked = [p \in Promise |-> 0] /\ told = [p \in Promise |-> <<>>]

Fulfilled(v) == [is |-> "fulfilled", value |-> v]
Rejected(e) == [is |-> "rejected", value |-> e]

-----------------------------------------------------------------------------
\* Mutant: who comes late is told first.
SetImmediate_First(queue, task) == <<task>> \o queue

SetImmediate(queue, task) == Append(queue, task)

\* fulfill and reject, of a promise that is not settled: the callbacks are shifted out
\* of their list, each into an immediate.  queue is what is left of the immediates.
Settle(p, o, queue) ==
  /\ outcome' = [outcome EXCEPT ![p] = o]
  /\ listeners' = [listeners EXCEPT ![p] = <<>>]
  /\ immediates' = queue \o [i \in DOMAIN listeners[p] |-> [to |-> listeners[p][i], outcome |-> o]]

\* "if (self.err)": what then takes the outcome of a settled promise for.
Heard(o) == IF o = Rejected(Falsy) THEN Fulfilled(Undefined) ELSE o

\* then, once the promise that it returns is made.
AddListener(l, queue) ==
  /\ asked' = [asked EXCEPT ![l.of] = @ + 1]
  /\ \/ /\ outcome[l.of] = Unsettled
        /\ listeners' = [listeners EXCEPT ![l.of] = Append(@, l)]
        /\ immediates' = queue
     \/ /\ outcome[l.of] # Unsettled
        /\ immediates' = SetImmediate(queue, [to |-> l, outcome |-> Heard(outcome[l.of])])
        /\ UNCHANGED listeners

\* new Promise()
NewPromise == CHOOSE c \in Promise : c \notin made

\* The user calls then, with a callback for the outcomes in on.
Then(p, on) ==
  /\ ~died /\ p \in made /\ made # Promise
  /\ made' = made \cup {NewPromise}
  /\ AddListener([of |-> p, no |-> asked[p] + 1, child |-> NewPromise, on |-> on, adopts |-> FALSE],
                 immediates)
  /\ UNCHANGED <<outcome, foreign, died, told>>

\* A UserContext answers.  It throws when it has answered before, which is its
\* affair (module UserSession).
Answer(p, o) ==
  /\ ~died /\ p \in Root /\ outcome[p] = Unsettled
  /\ Settle(p, o, immediates)
  /\ UNCHANGED <<made, foreign, died, asked, told>>

-----------------------------------------------------------------------------
(* thenPromiseFulfilledOrRejected                                          *)

\* fulfill or reject of new_promise.  If it is settled already it throws, and the
\* reject of the catch block throws again.
SettleChild(c, o, queue) ==
  \/ /\ outcome[c] = Unsettled
     /\ Settle(c, o, queue)
     /\ UNCHANGED died
  \/ /\ outcome[c] # Unsettled
     /\ died' = TRUE /\ immediates' = queue
     /\ UNCHANGED <<outcome, listeners>>

\* Mutant: whoever settles the promise a second time is not ignored.
MaySettle_Again(c) == TRUE

\* "if (!new_promise.resolved)"
MaySettle(c) == outcome[c] = Unsettled

\* The callbacks that the Resolution Procedure gives to the then of a Promise or of
\* a thenable.
Adopt(c, o, queue) ==
  IF MaySettle(c) THEN SettleChild(c, o, queue)
  ELSE immediates' = queue /\ UNCHANGED <<outcome, listeners, died>>

\* The callback returns the promise q: its then is called.  2.3.1 of Promises/A+
\* forbids the promise that then has returned; the code compares with the one on which
\* then was called.
ReturnsPromise(l, q, queue) ==
  IF q = l.of
  THEN /\ \E e \in Reason \ {Falsy} : SettleChild(l.child, Rejected(e), queue)
       /\ UNCHANGED asked
  ELSE /\ AddListener([of |-> q, no |-> asked[q] + 1, child |-> l.child,
                       on |-> {"fulfilled", "rejected"}, adopts |-> TRUE], queue)
       /\ UNCHANGED <<outcome, died>>

RunImmediate ==
  /\ ~died /\ immediates # <<>>
  /\ LET task == Head(immediates)
         l == task.to
         rest == Tail(immediates)
     IN /\ told' = [told EXCEPT ![l.of] = Append(@, [no |-> l.no, outcome |-> task.outcome])]
        /\ \/ /\ l.adopts
              /\ Adopt(l.child, task.outcome, rest)
              /\ UNCHANGED <<foreign, asked>>
           \/ /\ ~l.adopts /\ task.outcome.is \notin l.on
              /\ SettleChild(l.child, task.outcome, rest)
              /\ UNCHANGED <<foreign, asked>>
           \/ /\ ~l.adopts /\ task.outcome.is \in l.on
              /\ \/ /\ \/ \E v \in Value : SettleChild(l.child, Fulfilled(v), rest)
                       \/ \E e \in Reason : SettleChild(l.child, Rejected(e), rest)
                    /\ UNCHANGED <<foreign, asked>>
                 \/ /\ \E q \in made : ReturnsPromise(l, q, rest)
                    /\ UNCHANGED foreign
                 \/ /\ foreign' = foreign \cup {l.child}
                    /\ immediates' = rest
                    /\ UNCHANGED <<outcome, listeners, died, asked>>
  /\ UNCHANGED made

\* A thenable settles the promise that waits for it, in its then or later, or does so
\* again.
ForeignSettles(c, o) ==
  /\ ~died /\ c \in foreign
  /\ Adopt(c, o, immediates)
  /\ UNCHANGED <<made, foreign, asked, told>>

-----------------------------------------------------------------------------
PromiseNext ==
  \/ \E p \in Promise, on \in SUBSET {"fulfilled", "rejected"} : Then(p, on)
  \/ \E p \in Promise, o \in Outcome : Answer(p, o) \/ ForeignSettles(p, o)
  \/ RunImmediate

\* The event loop runs the immediates.  Nothing is assumed of who calls and answers.
PromiseFairness == WF_promiseVars(RunImmediate)

PromiseSpec == PromiseInit /\ [][PromiseNext]_promiseVars /\ PromiseFairness

-----------------------------------------------------------------------------
\* A promise returned by then is settled by nobody but its own callback and what that
\* has returned: nothing throws for its being settled before
\* (thenPromiseFulfilledOrRejected).
NothingThrows == ~died

\* The callbacks of a promise run in the order of the calls of then, those before it was
\* settled and those after (fulfill, reject, then).
ToldInOrder == \A p \in Promise : \A i \in DOMAIN told[p] : told[p][i].no = i

\* All callbacks of a promise are told the same, and what it was settled with, though
\* after a reject with a falsy reason then takes it for fulfilled (self.err).
ToldTheSame ==
  \A p \in Promise : \A i \in DOMAIN told[p] :
    \/ told[p][i].outcome = outcome[p]
    \/ outcome[p] = Rejected(Falsy) /\ told[p][i].outcome = Fulfilled(Undefined)

\* What a promise means: all of these.
PromisesAreSound == PromiseTypeOK /\ NothingThrows /\ ToldInOrder /\ ToldTheSame

\* Whoever has called then on a promise that is settled is called back, once: as then is
\* called finitely often, again and again all have been.
EveryListenerIsTold ==
  []<>(\A p \in Promise : outcome[p] # Unsettled => Len(told[p]) = asked[p])
=============================================================================
