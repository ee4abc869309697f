----------------------------- MODULE SessionPool -----------------------------
(***************************************************************************)
(* The sessions of a DBConnectionPool (NdbConnectionPool.js): the free     *)
(* list and its prefetch, getDBSession, closeNdbSession, and close of the  *)
(* pool, which also closes the Ndb object of each open table.              *)
(*                                                                         *)
(* An NdbSession is made by a native call that runs on its own; sessions   *)
(* and tables are destroyed one after the other by the connection's        *)
(* execQueue.  The pool is the only one of its connection, so that its     *)
(* close disconnects (module NdbConnection counts the pools).              *)
(***************************************************************************)
EXTENDS Integers, Sequences, FiniteSets

CONSTANTS
  User,          \* those who open sessions and close them
  Sessions,      \* bound on the NdbSession objects made, which are numbered
  Tables,        \* bound on the tables opened
  PoolMin,       \* ndb_session_pool_min
  PoolMax,       \* ndb_session_pool_max
  None

Prefetch == "prefetch"

PoolConstants ==
  /\ IsFiniteSet(User) /\ Prefetch \notin User
  /\ {Sessions, Tables, PoolMin, PoolMax} \subseteq Nat
  /\ None \notin User \cup Nat

VARIABLES
  free,        \* ndbSessionFreeList, the last one is taken first
  sess,        \* the NdbSessions: impl, isOpen (isOpenNdbSession), by
  holder,      \* the session a user works with, or None
  step,        \* what a user is doing
  tables,      \* number of openTables
  execQueue,   \* of the connection: what is to be destroyed, and for whom
  pool,        \* "open", "closing", "lingering", "disconnecting", "gone"
  nclose,      \* of close(): what it still waits for
  panic,       \* a TypeError has ended the process
  (* history *)
  late,        \* sessions that came or came back after the pool was closed
  twice        \* users who have closed their session twice

vars == <<free, sess, holder, step, tables, execQueue, pool, nclose, panic, late, twice>>

\* impl: "fetching", "failed", "live", "dropped" (this.impl set to null, to be
\* destroyed), "gone".
New(n, u) == [impl |-> "fetching", isOpen |-> u # Prefetch, by |-> u]
Made == Len(sess)
Disconnecting == pool \in {"disconnecting", "gone"}

\* prefetchSession(), from onConnected of the pool
Init ==
  /\ free = <<>> /\ sess = <<New(1, Prefetch)>>
  /\ holder = [u \in User |-> None] /\ step = [u \in User |-> "new"]
  /\ tables = 0 /\ execQueue = <<>> /\ pool = "open" /\ nclose = 0
  /\ panic = FALSE /\ late = {} /\ twice = {}

\* Mutant: the session stays on the list.
Pop_Peeks == <<free[Len(free)], free>>

\* ndbSessionFreeList.pop()
Pop == <<free[Len(free)], SubSeq(free, 1, Len(free) - 1)>>

\* getDBSession: a session of the free list, else a new one is fetched.
GetDBSession(u) ==
  /\ step[u] = "new" /\ pool = "open"
  /\ \/ /\ free # <<>>
        /\ LET p == Pop IN
           /\ free' = p[2]
           /\ sess' = [sess EXCEPT ![p[1]].isOpen = TRUE, ![p[1]].by = u]
           /\ holder' = [holder EXCEPT ![u] = p[1]]
        /\ step' = [step EXCEPT ![u] = "open"]
     \/ /\ free = <<>> /\ Made < Sessions
        /\ sess' = Append(sess, New(Made + 1, u))
        /\ step' = [step EXCEPT ![u] = "getting"]
        /\ UNCHANGED <<free, holder>>
  /\ UNCHANGED <<tables, execQueue, pool, nclose, panic, late, twice>>

\* "If the pool is wanting, fetch another"
Wanting(n) == n < PoolMin

\* onFetch of a prefetched session.  While the connection is going to close the
\* session is closed too, which does nothing, as it is not marked open.
Prefetched(s, ok) ==
  /\ sess[s].by = Prefetch /\ sess[s].impl = "fetching"
  /\ LET arrived == [sess EXCEPT ![s].impl = IF ok THEN "live" ELSE "failed"]
         push == ok /\ ~Disconnecting
     IN /\ free' = IF push THEN Append(free, s) ELSE free
        /\ sess' = IF push /\ Wanting(Len(free) + 1) /\ Made < Sessions
                   THEN Append(arrived, New(Made + 1, Prefetch)) ELSE arrived
        /\ late' = IF ok /\ pool # "open" THEN late \cup {s} ELSE late
  /\ UNCHANGED <<holder, step, tables, execQueue, pool, nclose, panic, twice>>

\* fetchImpl for a user.
Fetched(u, s, ok) ==
  /\ sess[s].by = u /\ sess[s].impl = "fetching"
  /\ sess' = [sess EXCEPT ![s].impl = IF ok THEN "live" ELSE "failed"]
  /\ holder' = IF ok THEN [holder EXCEPT ![u] = s] ELSE holder
  /\ step' = [step EXCEPT ![u] = IF ok THEN "open" ELSE "done"]
  /\ UNCHANGED <<free, tables, execQueue, pool, nclose, panic, late, twice>>

\* getTableMetadata pushes the table that it has read (makeMasterCallback).
OpenTable(u) ==
  /\ step[u] = "open" /\ pool = "open" /\ tables < Tables
  /\ tables' = tables + 1
  /\ UNCHANGED <<free, sess, holder, step, execQueue, pool, nclose, panic, late, twice>>

-----------------------------------------------------------------------------
(* Closing a session.                                                      *)

\* The list is full when it has one more than the maximum.
Full == Len(free) > PoolMax

\* closeNdbSession, by a user whose close is then answered.  A second close drops a
\* session again that has no impl, or pushes one that somebody else uses.
CloseNdbSession(u, next) ==
  LET s == holder[u] IN
  \/ /\ ~sess[s].isOpen \/ pool = "gone"
     /\ step' = [step EXCEPT ![u] = next]
     /\ late' = IF pool = "gone" THEN late \cup {s} ELSE late
     /\ UNCHANGED <<free, sess, execQueue, panic>>
  \/ /\ sess[s].isOpen /\ pool # "gone" /\ (Disconnecting \/ Full)
     /\ \/ /\ sess[s].impl = "live"
           /\ sess' = [sess EXCEPT ![s].impl = "dropped"]
           /\ execQueue' = Append(execQueue, <<s, u>>)
           /\ step' = [step EXCEPT ![u] = "closing"]
           /\ UNCHANGED panic
        \/ /\ sess[s].impl # "live"
           /\ panic' = TRUE
           /\ UNCHANGED <<sess, execQueue, step>>
     /\ UNCHANGED <<free, late>>
  \/ /\ sess[s].isOpen /\ ~Disconnecting /\ ~Full
     /\ sess' = [sess EXCEPT ![s].isOpen = FALSE]
     /\ free' = Append(free, s)
     /\ step' = [step EXCEPT ![u] = next]
     /\ late' = IF pool # "open" THEN late \cup {s} ELSE late
     /\ UNCHANGED <<execQueue, panic>>

Close(u) ==
  /\ step[u] = "open"
  /\ CloseNdbSession(u, "done")
  /\ UNCHANGED <<holder, tables, pool, nclose, twice>>

\* Nothing looks at the mark "closed" of the user's session.  One user does this.
CloseAgain(u) ==
  /\ step[u] = "done" /\ holder[u] # None /\ twice = {}
  /\ CloseNdbSession(u, "done")
  /\ twice' = twice \cup {u}
  /\ UNCHANGED <<holder, tables, pool, nclose>>

-----------------------------------------------------------------------------
(* Closing the pool.                                                       *)

\* releaseNdbConnection, when nothing is left to close.
Released(n) == IF n = 0 THEN "lingering" ELSE "closing"

\* Mutant: the tables are not waited for.
ToClose_NoTables == Len(free)

\* nclose
ToClose == Len(free) + tables

\* Open tables first, then sessions from the end of the free list; 0 is a table.
ClosePool ==
  /\ pool = "open"
  /\ \A u \in User : step[u] \in {"new", "getting", "done"}
  /\ LET n == ToClose IN nclose' = n /\ pool' = Released(n)
  /\ execQueue' = execQueue \o [i \in 1..tables |-> <<0, Prefetch>>]
                            \o [i \in 1..Len(free) |-> <<free[Len(free) + 1 - i], Prefetch>>]
  /\ free' = <<>> /\ tables' = 0
  /\ sess' = [s \in 1..Made |-> IF \E i \in 1..Len(free) : free[i] = s
                                THEN [sess[s] EXCEPT !.impl = "dropped"] ELSE sess[s]]
  /\ UNCHANGED <<holder, step, panic, late, twice>>

\* The native destroy or close at the head of the queue has ended.
Destroyed ==
  /\ execQueue # <<>>
  /\ LET s == Head(execQueue)[1]
         u == Head(execQueue)[2]
     IN /\ sess' = IF s = 0 THEN sess ELSE [sess EXCEPT ![s].impl = "gone"]
        /\ IF u = Prefetch
           THEN /\ nclose' = nclose - 1
                /\ pool' = IF pool = "closing" THEN Released(nclose - 1) ELSE pool
                /\ UNCHANGED step
           ELSE /\ step' = [step EXCEPT ![u] = "done"]
                /\ UNCHANGED <<nclose, pool>>
  /\ execQueue' = Tail(execQueue)
  /\ UNCHANGED <<free, holder, tables, panic, late, twice>>

\* closeReally after linger_on_close_msec, and disconnect 100 ms later.
Timer ==
  /\ \/ pool = "lingering" /\ pool' = "disconnecting"
     \/ pool = "disconnecting" /\ pool' = "gone"
  /\ UNCHANGED <<free, sess, holder, step, tables, execQueue, nclose, panic, late, twice>>

-----------------------------------------------------------------------------
System ==
  /\ ~panic
  /\ \/ Destroyed
     \/ Timer
     \/ \E s \in 1..Made, ok \in BOOLEAN :
          Prefetched(s, ok) \/ \E u \in User : Fetched(u, s, ok)

Users ==
  /\ ~panic
  /\ \/ \E u \in User : GetDBSession(u) \/ OpenTable(u) \/ Close(u) \/ CloseAgain(u)
     \/ ClosePool

Next == System \/ Users

\* Native calls end and timers go off; users and their closes are up to them, but a
\* user closes the session it was given.
Spec == Init /\ [][Next]_vars /\ WF_vars(System)
        /\ \A u \in User : WF_vars(~panic /\ Close(u))

-----------------------------------------------------------------------------
Listed == {free[i] : i \in 1..Len(free)}
Queued == {execQueue[i][1] : i \in 1..Len(execQueue)} \ {0}
Using(u) == IF step[u] = "open" THEN {holder[u]} ELSE {}

\* A session has one place: a user, the free list, or the queue of what is to be
\* destroyed; nobody is given a session that is closed.  This is while nobody closes a
\* session twice, which the code would not notice (closeNdbSession, line 148).
EverySessionHasOnePlace ==
  twice = {} =>
    /\ \A u, v \in User : u # v => Using(u) \cap Using(v) = {}
    /\ \A u \in User : Using(u) \cap (Listed \cup Queued) = {}
    /\ Listed \cap Queued = {} /\ Cardinality(Listed) = Len(free)
    /\ \A s \in Listed \cup UNION {Using(u) : u \in User} : sess[s].impl = "live"
    /\ ~panic

\* The free list is kept in bounds: above the maximum there may be the one session
\* that closes at the limit, and the one that is prefetched.
FreeListIsBounded ==
  LET more == Cardinality({s \in 1..Made : sess[s].by = Prefetch /\ sess[s].impl = "fetching"}) IN
  /\ more <= 1
  /\ twice = {} => Len(free) + more <= (IF PoolMax + 1 > PoolMin THEN PoolMax + 1 ELSE PoolMin) + 1

\* When the connection is gone its sessions are too, but for those that came after the
\* pool was closed: a prefetch in progress, a session opened meanwhile.  And the close
\* of the pool is answered when all it found is closed.
ClosedIsClosed ==
  twice = {} =>
    /\ pool \in {"lingering", "disconnecting", "gone"} =>
         \A s \in 1..Made : sess[s].impl \in {"fetching", "failed", "gone"}
                            \/ s \in late \/ \E u \in User : holder[u] = s /\ step[u] \in {"open", "closing"}
    /\ pool = "closing" <=> nclose > 0

\* A pool that is closed is disconnected, and a user who asks for a session or gives it
\* back is answered: as each does so once, again and again nobody waits.
EverybodyIsAnswered ==
  []<>\/ panic
      \/ pool \in {"open", "gone"} /\ \A u \in User : step[u] \notin {"getting", "closing"}
=============================================================================
