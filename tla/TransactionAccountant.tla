------------------------ MODULE TransactionAccountant ------------------------
(***************************************************************************)
(* CachedTransactionsAccountant of SessionImpl.cpp, with its callers in    *)
(* TransactionImpl.cpp and run() of NdbTransactionHandler.js, when         *)
(* use_ndb_async_api is set.                                               *)
(*                                                                         *)
(* An Ndb object keeps a connect record for each transaction it has had    *)
(* open with a data node.  Starting a transaction takes an idle record of  *)
(* its node, or blocks on a round trip to the node to get a new one.  The  *)
(* accountant decides from the transactions it saw closing whether the     *)
(* next one may be started in the JavaScript thread.                       *)
(*                                                                         *)
(* All native calls that open or close a transaction are serialized by     *)
(* execQueue (module NdbSession), so each is one step.                     *)
(***************************************************************************)
EXTENDS Integers, FiniteSets

CONSTANTS
  Context,     \* TransactionImpl objects: maxTransactions of them
  Node,        \* data nodes
  Nil,
  MaxScans     \* bound on the transactions started without intent

Width == 65536                           \* of an unsigned short
MaxConcurrency == Cardinality(Context)

ASSUME AccountantConstants ==
  /\ IsFiniteSet(Context) /\ IsFiniteSet(Node)
  /\ Nil \notin Node
  /\ MaxConcurrency + 1 < Width
  /\ MaxScans \in Nat

VARIABLES
  (* CachedTransactionsAccountant *)
  concurrency, cacheConcurrency,
  tally,         \* tc_bitmap: nodes at which a transaction was seen closing
  (* TransactionImpl *)
  token,         \* Nil when it is -1
  tcNode,        \* node of the open NdbTransaction, Nil when there is none
  (* Ndb *)
  idle,          \* idle connect records of each node
  blocked,       \* the last start in the JavaScript thread had to wait
  failed,        \* assert(concurrency <= maxConcurrency) has failed
  (* history *)
  scans          \* transactions started without intent

accountant == <<concurrency, cacheConcurrency, tally>>
accountantVars == <<accountant, token, tcNode, idle, blocked, failed, scans>>

OpenContexts == {c \in Context : tcNode[c] # Nil}

AccountantTypeOK ==
  /\ concurrency \in 0 .. Width - 1
  /\ cacheConcurrency \in Nat
  /\ tally \subseteq Node
  /\ token \in [Context -> (SUBSET Node) \cup {Nil}]
  /\ tcNode \in [Context -> Node \cup {Nil}]
  /\ idle \in [Node -> Nat]
  /\ blocked \in BOOLEAN
  /\ failed \in BOOLEAN
  /\ scans \in 0 .. MaxScans

AccountantInit ==
  /\ concurrency = 0
  /\ cacheConcurrency = 0
  /\ tally = {}
  /\ token = [c \in Context |-> {}]
  /\ tcNode = [c \in Context |-> Nil]
  /\ idle = [n \in Node |-> 0]
  /\ blocked = FALSE
  /\ failed = FALSE
  /\ scans = 0

\* operator ^= on bitmaps
Xor(s, t) == (s \cup t) \ (s \cap t)

Increment(n) == IF n = Width - 1 THEN 0 ELSE n + 1
Decrement(n) == IF n = 0 THEN Width - 1 ELSE n - 1

\* Mutant: nothing is ever established.
NeverEstablished(n) == FALSE

\* Already established: fewer than cacheConcurrency are open.
Established(n) == n < cacheConcurrency

TallyIsFull == tally = Node

\* registerIntentToOpen for context c, with the result in token'[c]; it ends
\* the process when there are more than MaxConcurrency.
RegisterIntentToOpen(c) ==
  /\ concurrency' = Increment(concurrency)
  /\ failed' = (concurrency' > MaxConcurrency)
  /\ \/ /\ failed' \/ Established(concurrency')
        /\ token' = [token EXCEPT ![c] = Nil]
        /\ UNCHANGED <<cacheConcurrency, tally>>
     \/ /\ ~failed' /\ ~Established(concurrency')
        /\ TallyIsFull
        /\ cacheConcurrency' = cacheConcurrency + 1
        /\ tally' = {}
        /\ token' = [token EXCEPT ![c] = Nil]
     \/ /\ ~failed' /\ ~Established(concurrency')
        /\ ~TallyIsFull
        /\ token' = [token EXCEPT ![c] = tally]
        /\ tally' = {}
        /\ UNCHANGED cacheConcurrency

\* Ndb::startTransaction: any node, by its hash key or in turn.
StartTransaction(c, n) ==
  /\ tcNode' = [tcNode EXCEPT ![c] = n]
  /\ idle' = [idle EXCEPT ![n] = IF @ > 0 THEN @ - 1 ELSE 0]

\* The first execute of a context: tryImmediateStartTransaction, and the start
\* either there or in a worker thread.
Execute(c, n) ==
  /\ ~failed
  /\ tcNode[c] = Nil
  /\ RegisterIntentToOpen(c)
  /\ StartTransaction(c, n)
  /\ blocked' = (token'[c] = Nil /\ idle[n] = 0)
  /\ UNCHANGED scans

\* prepareAndExecuteScan and prepareAndExecuteQuery start a transaction in a
\* worker thread without intent: token is left from the context's last use.
ExecuteScan(c, n) ==
  /\ ~failed
  /\ scans < MaxScans
  /\ tcNode[c] = Nil
  /\ StartTransaction(c, n)
  /\ blocked' = FALSE
  /\ scans' = scans + 1
  /\ UNCHANGED <<accountant, token, failed>>

\* Mutant: only closes with a token count.
CountsTokens(t) == t # Nil

\* "concurrency--" stands before the test of the token.
CountsClose(t) == TRUE

\* closeTransaction and registerClose.
Close(c) ==
  /\ ~failed
  /\ tcNode[c] # Nil
  /\ tcNode' = [tcNode EXCEPT ![c] = Nil]
  /\ idle' = [idle EXCEPT ![tcNode[c]] = @ + 1]
  /\ concurrency' = IF CountsClose(token[c]) THEN Decrement(concurrency) ELSE concurrency
  /\ tally' = IF token[c] # Nil THEN Xor(Xor(tally, token[c]), {tcNode[c]}) ELSE tally
  /\ UNCHANGED <<cacheConcurrency, token, blocked, failed, scans>>

AccountantNext ==
  \E c \in Context : \/ Close(c)
                    \/ \E n \in Node : Execute(c, n) \/ ExecuteScan(c, n)

AccountantSpec == AccountantInit /\ [][AccountantNext]_accountantVars

-----------------------------------------------------------------------------

\* concurrency is the number of open transactions, off by one more for each
\* transaction that a scan has ever started, modulo 2^16: the unmatched closes
\* of registerTxClosed are the only drift of the counter.
ConcurrencyDrift == (concurrency + scans - Cardinality(OpenContexts)) % Width = 0

\* The accountant never establishes more than one transaction beyond the
\* number of contexts, so that cacheConcurrency fits its 16 bits, whatever
\* scans have done to the counter.
EstablishedBound == cacheConcurrency <= MaxConcurrency + 1

\* The assertion of registerIntentToOpen holds as long as no transaction was
\* started by a scan, in any order of starts and closes on the contexts.
HoldsWithoutScans == [][scans = 0 => ~failed']_accountantVars

-----------------------------------------------------------------------------
(* Statements of the sources that the code does not keep.                  *)

\* SessionImpl.cpp:85: assert(concurrency <= maxConcurrency).
AssertionHolds == ~failed
=============================================================================
