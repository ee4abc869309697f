--------------------------- MODULE MCNdbConnection ---------------------------
(***************************************************************************)
(* Small instances of NdbConnection and of SessionPool.  They share no     *)
(* state, and a behaviour shows either the table of connections or the     *)
(* sessions of one pool.                                                   *)
(***************************************************************************)
EXTENDS NdbConnection

CONSTANTS User, Sessions, Tables, PoolMin, PoolMax

VARIABLES free, sess, holder, step, tables, destroyQueue, pool, nclose, typeError, late, twice
poolVars == <<free, sess, holder, step, tables, destroyQueue, pool, nclose, typeError, late, twice>>

P == INSTANCE SessionPool WITH execQueue <- destroyQueue, panic <- typeError

ASSUME PoolAssumption == P!PoolConstants

-----------------------------------------------------------------------------
Connections ==
  /\ P!Init
  /\ Next /\ UNCHANGED poolVars

\* Nobody has connected.
NoConnections == made = {}

PoolSessions ==
  /\ NoConnections
  /\ P!Next /\ UNCHANGED vars

ConnectionInit == Init /\ P!Init

ConnectionSpec ==
  /\ ConnectionInit /\ [][Connections \/ PoolSessions]_<<vars, poolVars>>
  /\ Fairness
  /\ WF_poolVars(NoConnections /\ P!System)
  /\ \A u \in User : WF_poolVars(NoConnections /\ ~typeError /\ P!Close(u))

\* A session of the pool is with one user, on the free list or about to be destroyed,
\* and the free list keeps within its bounds (getDBSession, closeNdbSession,
\* prefetchSession; see SessionPool).
SessionsHaveTheirPlace == P!EverySessionHasOnePlace /\ P!FreeListIsBounded

\* When the connection is gone all sessions that close() could know of are gone, and
\* close() is answered when it has closed what it found (see SessionPool).
ClosedIsClosed == P!ClosedIsClosed

\* Who connects, wants a session of the pool or gives one back is answered, and a pool
\* that is closed disconnects in the end (see NdbConnection and SessionPool).
EverybodyIsAnswered == ConnectIsAnswered /\ P!EverybodyIsAnswered
=============================================================================
