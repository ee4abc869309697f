---------------------------- MODULE NdbConnection ----------------------------
(***************************************************************************)
(* The table of NDB connections: getNdbConnection and releaseNdbConnection *)
(* of NdbConnectionPool.js, connect and close of DBConnectionPool, and     *)
(* connect and close of NdbConnection.js, for one connect string.          *)
(*                                                                         *)
(* DBConnectionPools share one NdbConnection, which counts them.  When the *)
(* last is released a timer runs for linger_on_close_msec; a pool that     *)
(* connects meanwhile takes the connection over, else it is closed, which  *)
(* takes another timer and a native call.                                  *)
(*                                                                         *)
(* runCallbacks calls the users who wait one after the other, and each may *)
(* call connect or close again: it is one step per user.                   *)
(***************************************************************************)
EXTENDS Integers, Sequences, FiniteSets

CONSTANTS
  Pool,     \* DBConnectionPool objects
  Conn,     \* NdbConnection objects
  None

ASSUME ConnectionConstants ==
  IsFiniteSet(Pool) /\ None \notin Pool \cup Conn

VARIABLES
  base,            \* baseConnections[connectString]
  made,            \* the NdbConnections constructed so far
  (* NdbConnection *)
  referenceCount, pendingConnections,
  isConnected, isDisconnecting,     \* sets of connections
  native,          \* native call of connect in progress
  execQueue,       \* the pools whose close deletes the native connection
  (* DBConnectionPool *)
  ndbConnection, status,
  (* timers and control *)
  lingering,       \* timers of closeReally: the connection and who waits
  shutting,        \* timers of disconnect
  running,         \* runCallbacks in progress, or None
  panic,           \* a TypeError or failed assertion has ended the process
  (* history *)
  failed,          \* connections whose connect has failed
  deleted,         \* how often the native connection was deleted
  overlap          \* two timers of closeReally were running for a connection

tableVars == <<base, made, referenceCount>>
connVars == <<pendingConnections, isConnected, isDisconnecting, native, execQueue>>
timerVars == <<lingering, shutting, overlap>>
vars == <<tableVars, connVars, ndbConnection, status, timerVars, running, panic,
          failed, deleted>>

Timer == [conn : Conn, pool : Pool]
Status == {"new", "connecting", "open", "failed", "closing", "lingering", "closed"}

\* A pool that has a share of its connection's reference count.
Client(p) == status[p] \in {"connecting", "open", "failed", "closing"}
Clients(c) == {p \in Pool : ndbConnection[p] = c /\ Client(p)}

TypeOK ==
  /\ base \in made \cup {None}
  /\ made \subseteq Conn
  /\ referenceCount \in [Conn -> Nat]
  /\ pendingConnections \in [Conn -> Seq(Pool)]
  /\ isConnected \subseteq made
  /\ isDisconnecting \subseteq made
  /\ native \in [Conn -> {"none", "connect", "wait_until_ready"}]
  /\ execQueue \in [Conn -> Seq(Pool)]
  /\ ndbConnection \in [Pool -> made \cup {None}]
  /\ status \in [Pool -> Status]
  /\ lingering \subseteq Timer
  /\ shutting \subseteq Timer
  /\ running \in [conn : Conn, next : Nat, ok : BOOLEAN] \cup {None}
  /\ panic \in BOOLEAN
  /\ failed \subseteq made
  /\ deleted \in [Conn -> Nat]
  /\ overlap \in BOOLEAN

Init ==
  /\ base = None
  /\ made = {}
  /\ referenceCount = [c \in Conn |-> 0]
  /\ pendingConnections = [c \in Conn |-> <<>>]
  /\ isConnected = {}
  /\ isDisconnecting = {}
  /\ native = [c \in Conn |-> "none"]
  /\ execQueue = [c \in Conn |-> <<>>]
  /\ ndbConnection = [p \in Pool |-> None]
  /\ status = [p \in Pool |-> "new"]
  /\ lingering = {}
  /\ shutting = {}
  /\ running = None
  /\ panic = FALSE
  /\ failed = {}
  /\ deleted = [c \in Conn |-> 0]
  /\ overlap = FALSE

-----------------------------------------------------------------------------
(* Connecting.                                                             *)

\* getNdbConnection: the connection of the table, else a new one.
GetNdbConnection(c) ==
  \/ /\ c = base
     /\ referenceCount' = [referenceCount EXCEPT ![c] = @ + 1]
     /\ UNCHANGED <<base, made>>
  \/ /\ base = None /\ c \notin made
     /\ made' = made \cup {c}
     /\ base' = c
     /\ referenceCount' = [referenceCount EXCEPT ![c] = 1]

\* Mutant: the callback waits for a second one.
StartsForTwo(c) == Len(pendingConnections[c]) = 1

\* "this.pendingConnections.length === 1" after the push
IsFirst(c) == pendingConnections[c] = <<>>

\* NdbConnection.connect: answered at once when the connection is connected, else with
\* all others that wait.
ConnectTo(c, p) ==
  \/ /\ c \in isConnected
     /\ status' = [status EXCEPT ![p] = "open"]
     /\ UNCHANGED <<pendingConnections, native>>
  \/ /\ c \notin isConnected
     /\ status' = [status EXCEPT ![p] = "connecting"]
     /\ pendingConnections' = [pendingConnections EXCEPT ![c] = Append(@, p)]
     /\ native' = IF IsFirst(c) THEN [native EXCEPT ![c] = "connect"] ELSE native

\* DBConnectionPool.connect.
Connect(p) ==
  /\ ~panic
  /\ status[p] = "new"
  /\ \E c \in Conn :
       /\ GetNdbConnection(c)
       /\ ndbConnection' = [ndbConnection EXCEPT ![p] = c]
       /\ ConnectTo(c, p)
  /\ UNCHANGED <<isConnected, isDisconnecting, execQueue, timerVars, running,
                 panic, failed, deleted>>

RunCallbacks(c, ok) == running' = [conn |-> c, next |-> 1, ok |-> ok]

\* onConnected and onReady: the native connect, then wait_until_ready.
NativeDone(c, ok) ==
  /\ ~panic /\ running = None
  /\ \/ /\ native[c] = "connect" /\ ok
        /\ native' = [native EXCEPT ![c] = "wait_until_ready"]
        /\ UNCHANGED <<isConnected, running, failed>>
     \/ /\ native[c] = "wait_until_ready" /\ ok
        /\ native' = [native EXCEPT ![c] = "none"]
        /\ isConnected' = isConnected \cup {c}
        /\ RunCallbacks(c, TRUE)
        /\ UNCHANGED failed
     \/ /\ native[c] # "none" /\ ~ok
        /\ native' = [native EXCEPT ![c] = "none"]
        /\ failed' = failed \cup {c}
        /\ RunCallbacks(c, FALSE)
        /\ UNCHANGED isConnected
  /\ UNCHANGED <<tableVars, pendingConnections, isDisconnecting, execQueue,
                 ndbConnection, status, timerVars, panic, deleted>>

\* One turn of the loop of runCallbacks: onConnected of the pool.  Neither the
\* loop nor anything else empties pendingConnections.
Callback ==
  /\ ~panic /\ running # None
  /\ LET waiting == pendingConnections[running.conn]
     IN \/ /\ running.next > Len(waiting)
           /\ running' = None
           /\ UNCHANGED status
        \/ /\ running.next <= Len(waiting)
           /\ status' = [status EXCEPT ![waiting[running.next]] =
                           IF running.ok THEN "open" ELSE "failed"]
           /\ running' = [running EXCEPT !.next = @ + 1]
  /\ UNCHANGED <<tableVars, connVars, ndbConnection, timerVars, panic, failed, deleted>>

-----------------------------------------------------------------------------
(* Closing.                                                                *)

\* DBConnectionPool.close: close the pool's sessions and table handles.
Close(p) ==
  /\ ~panic
  /\ status[p] = "open"
  /\ status' = [status EXCEPT ![p] = "closing"]
  /\ UNCHANGED <<tableVars, connVars, ndbConnection, timerVars, running, panic,
                 failed, deleted>>

\* onNdbClose with nothing left: releaseNdbConnection, which looks the
\* connection up in the table.
Release(p) ==
  /\ ~panic
  /\ status[p] = "closing"
  /\ \/ /\ base # None => referenceCount[base] = 0
        /\ panic' = TRUE
        /\ UNCHANGED <<referenceCount, status, lingering, overlap>>
     \/ /\ base # None /\ referenceCount[base] # 0
        /\ referenceCount' = [referenceCount EXCEPT ![base] = @ - 1]
        /\ IF referenceCount[base] = 1
           THEN /\ status' = [status EXCEPT ![p] = "lingering"]
                /\ overlap' = (overlap \/ \E t \in lingering : t.conn = base)
                /\ lingering' = lingering \cup {[conn |-> base, pool |-> p]}
           ELSE /\ status' = [status EXCEPT ![p] = "closed"]
                /\ UNCHANGED <<lingering, overlap>>
        /\ UNCHANGED panic
  /\ UNCHANGED <<base, made, connVars, ndbConnection, shutting, running, failed, deleted>>

\* disconnect: the native connection is deleted through execQueue.
Disconnect(t) ==
  /\ isConnected' = isConnected \ {t.conn}
  /\ execQueue' = [execQueue EXCEPT ![t.conn] = Append(@, t.pool)]

\* Mutant: close without looking again.
NoNewCustomers(c) == TRUE

\* "No new customers."
NobodyCame(c) == referenceCount[c] = 0

\* "Lock the door."
DoorLocked == None

\* closeReally, with NdbConnection.close.  userCallback is forgotten when the
\* connection has new customers or is disconnecting already.
LingerExpired(t) ==
  /\ ~panic /\ running = None
  /\ t \in lingering
  /\ lingering' = lingering \ {t}
  /\ \/ /\ ~NobodyCame(t.conn)
        /\ UNCHANGED <<base, isConnected, isDisconnecting, execQueue, shutting>>
     \/ /\ NobodyCame(t.conn)
        /\ base' = DoorLocked
        /\ \/ /\ t.conn \notin isConnected
              /\ Disconnect(t)
              /\ UNCHANGED <<isDisconnecting, shutting>>
           \/ /\ t.conn \in isConnected \cap isDisconnecting
              /\ UNCHANGED <<isConnected, isDisconnecting, execQueue, shutting>>
           \/ /\ t.conn \in isConnected \ isDisconnecting
              /\ isDisconnecting' = isDisconnecting \cup {t.conn}
              /\ shutting' = shutting \cup {t}
              /\ UNCHANGED <<isConnected, execQueue>>
  /\ UNCHANGED <<made, referenceCount, pendingConnections, native, ndbConnection,
                 status, overlap, running, panic, failed, deleted>>

\* The 100 ms after the shutdown of the listener thread are over.
ShutdownDone(t) ==
  /\ ~panic /\ running = None
  /\ t \in shutting
  /\ shutting' = shutting \ {t}
  /\ Disconnect(t)
  /\ UNCHANGED <<tableVars, pendingConnections, isDisconnecting, native,
                 ndbConnection, status, lingering, overlap, running, panic, failed, deleted>>

\* The native connection has been deleted.
DeleteDone(c) ==
  /\ ~panic /\ running = None
  /\ execQueue[c] # <<>>
  /\ execQueue' = [execQueue EXCEPT ![c] = Tail(@)]
  /\ deleted' = [deleted EXCEPT ![c] = @ + 1]
  /\ status' = [status EXCEPT ![Head(execQueue[c])] = "closed"]
  /\ UNCHANGED <<tableVars, pendingConnections, isConnected, isDisconnecting, native,
                 ndbConnection, timerVars, running, panic, failed>>

-----------------------------------------------------------------------------

Next ==
  \/ \E p \in Pool : Connect(p) \/ Close(p) \/ Release(p)
  \/ \E c \in Conn, ok \in BOOLEAN : NativeDone(c, ok)
  \/ Callback
  \/ \E t \in Timer : LingerExpired(t) \/ ShutdownDone(t)
  \/ \E c \in Conn : DeleteDone(c)

\* Native calls return, timers fire, loops and closes of sessions end.  Nothing
\* is assumed of the user.
Fairness ==
  /\ \A c \in Conn : WF_vars(\E ok \in BOOLEAN : NativeDone(c, ok)) /\ WF_vars(DeleteDone(c))
  /\ WF_vars(Callback)
  /\ \A p \in Pool : WF_vars(Release(p))
  /\ \A t \in Timer : WF_vars(LingerExpired(t)) /\ WF_vars(ShutdownDone(t))

Spec == Init /\ [][Next]_vars /\ Fairness

-----------------------------------------------------------------------------
(* Safety, while no connection has two timers of closeReally: that is, if  *)
(* the last pool is not closed within linger_on_close_msec of another      *)
(* close after which the connection was taken over.                        *)

\* The reference count is the number of pools that use the connection, those
\* whose connect has failed included, for every connection ever made.
CountsClients ==
  ~overlap => \A c \in made : referenceCount[c] = Cardinality(Clients(c))

\* A pool that the user has open, or that is closing its sessions, has its
\* connection: no timer of an earlier close takes it away.
OpenIsConnected ==
  ~overlap => \A p \in Pool : status[p] \in {"open", "closing"} =>
    ndbConnection[p] \in isConnected \ isDisconnecting

\* NdbConnectionPool.js:82: one underlying connection.  All users are on the
\* one in the table.
OneConnection ==
  ~overlap => \A c \in made : Clients(c) # {} => c = base

\* The native connection is deleted once, and never while it is used.
DeletedOnce ==
  ~overlap => \A c \in made :
    /\ deleted[c] + Len(execQueue[c]) <= 1
    /\ deleted[c] + Len(execQueue[c]) = 1 => Clients(c) = {}

\* A release always finds its connection in the table.
ReleaseFindsIt == panic => overlap

\* What the table of connections promises, of all these together: the counts, the one
\* connection of all users, and its end (getNdbConnection, releaseNdbConnection).
ConnectionsAreSafe ==
  TypeOK /\ CountsClients /\ OpenIsConnected /\ OneConnection /\ DeletedOnce /\ ReleaseFindsIt

-----------------------------------------------------------------------------
(* Liveness.                                                               *)

\* Every connect is answered, unless the connection is one that has failed
\* to connect.
ConnectIsAnswered ==
  \A p \in Pool : (status[p] = "connecting" /\ ndbConnection[p] \notin failed)
                    ~> (status[p] # "connecting" \/ panic)

=============================================================================
