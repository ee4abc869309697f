------------------------- MODULE NdbConnectionProofs -------------------------
(***************************************************************************)
(* The table of NDB connections is safe, for any number of pools and       *)
(* connections: as long as no two timers of closeReally run for one        *)
(* connection, the counts are right, all users share the connection of the *)
(* table, and its native connection is deleted once, after they have gone. *)
(*                                                                         *)
(* The counts alone are not inductive.  A timer must be known to belong to *)
(* the connection of the table, or its end would empty the entry of        *)
(* another; a pool that is called back must still be connecting, or the    *)
(* callback would bring back one that was counted out; and a pool whose    *)
(* close is answered must not have come back.                              *)
(***************************************************************************)
EXTENDS MCNdbConnection, FiniteSetTheorems, SequenceTheorems, TLAPS

\* Only a connection that was made has a native call, and runCallbacks starts with the
\* first who waits.
Typing ==
  /\ TypeOK
  /\ \A c \in Conn : native[c] # "none" => c \in made
  /\ running # None => running.next >= 1

\* There is one timer of closeReally, for the connection of the table.
TimersOfBase ==
  /\ \A t \in lingering : t.conn = base
  /\ \A t, u \in lingering : t = u

\* disconnect has one timer for a connection that is to be deleted.
Shutdowns ==
  /\ base \notin isDisconnecting
  /\ \A t \in shutting :
       t.conn \in isDisconnecting /\ deleted[t.conn] = 0 /\ execQueue[t.conn] = <<>>
  /\ \A t, u \in shutting : t.conn = u.conn => t = u

Gone(p) == status[p] \in {"lingering", "closed"}

\* Whose close is not answered yet is not a user of the connection any more.
Leaving ==
  /\ \A t \in lingering \cup shutting : Gone(t.pool)
  /\ \A c \in Conn : \A i \in DOMAIN execQueue[c] : Gone(execQueue[c][i])

\* What is deleted, or about to be, is out of the table.
Deletion ==
  \A c \in Conn :
    /\ deleted[c] + Len(execQueue[c]) <= 1
    /\ deleted[c] + Len(execQueue[c]) = 1 => c \in made /\ c # base

\* pendingConnections names every pool once, and keeps those that were called back.
Waiting ==
  \A c \in Conn :
    /\ \A i \in DOMAIN pendingConnections[c] :
         ndbConnection[pendingConnections[c][i]] = c /\ status[pendingConnections[c][i]] # "new"
    /\ \A i, j \in DOMAIN pendingConnections[c] :
         pendingConnections[c][i] = pendingConnections[c][j] => i = j

\* During the native call all of them are connecting.
NativeWaits ==
  \A c \in Conn : native[c] # "none" =>
    /\ pendingConnections[c] # <<>>
    /\ \A i \in DOMAIN pendingConnections[c] : status[pendingConnections[c][i]] = "connecting"
    /\ running # None => running.conn # c

\* During runCallbacks those who are not told yet are.
RunningWaits ==
  running # None =>
    /\ pendingConnections[running.conn] # <<>>
    /\ \A i \in DOMAIN pendingConnections[running.conn] :
         i >= running.next => status[pendingConnections[running.conn][i]] = "connecting"
    /\ running.ok => running.conn \in isConnected

Timers == TimersOfBase /\ Shutdowns /\ Leaving /\ Deletion
Callbacks == Waiting /\ NativeWaits /\ RunningWaits
Users == CountsClients /\ OpenIsConnected /\ OneConnection /\ DeletedOnce /\ ReleaseFindsIt

\* Typing and Safe are inductive.
Safe == Users /\ (~overlap => Timers /\ Callbacks)

-----------------------------------------------------------------------------
(* Counting the users of a connection.                                     *)

LEMMA ClientsFinite == \A c : IsFiniteSet(Clients(c))
<1>1. \A c : Clients(c) \subseteq Pool
  BY DEF Clients
<1>2. QED
  BY <1>1, FS_Subset, ConnectionConstants

\* A connection that somebody uses is counted at least once.
LEMMA UsedIsCounted ==
  ASSUME Typing, CountsClients, ~overlap, NEW c \in made
  PROVE  referenceCount[c] = 0 <=> Clients(c) = {}
<1>1. IsFiniteSet(Clients(c))
  BY ClientsFinite
<1>2. Cardinality(Clients(c)) = 0 <=> Clients(c) = {}
  BY <1>1, FS_EmptySet
<1>3. QED
  BY <1>2 DEF CountsClients

\* One user more.
LEMMA OneMore ==
  ASSUME Typing, CountsClients, ~overlap, NEW c \in made, NEW p \in Pool, p \notin Clients(c)
  PROVE  Cardinality(Clients(c) \cup {p}) = referenceCount[c] + 1
<1>1. IsFiniteSet(Clients(c))
  BY ClientsFinite
<1>2. QED
  BY <1>1, FS_AddElement DEF CountsClients

\* One user less.
LEMMA OneLess ==
  ASSUME Typing, CountsClients, ~overlap, NEW c \in made, NEW p \in Pool, p \in Clients(c)
  PROVE  Cardinality(Clients(c) \ {p}) = referenceCount[c] - 1
<1>1. IsFiniteSet(Clients(c))
  BY ClientsFinite
<1>2. QED
  BY <1>1, FS_RemoveElement DEF CountsClients

\* The first user.
LEMMA First == \A p : Cardinality({p}) = 1
  BY FS_Singleton

\* All users of a connection are on that of the table.
LEMMA UsersOfBase ==
  ASSUME Typing, Users, ~overlap, NEW p \in Pool, status[p] \in {"open", "closing"}
  PROVE  /\ base \in made /\ ndbConnection[p] = base /\ base \in isConnected
         /\ p \in Clients(base) /\ referenceCount[base] # 0
<1>1. ndbConnection[p] \in isConnected /\ isConnected \subseteq made
  BY DEF Users, OpenIsConnected, Typing, TypeOK
<1>2. p \in Clients(ndbConnection[p])
  BY DEF Clients, Client
<1>3. ndbConnection[p] = base
  BY <1>1, <1>2 DEF Users, OneConnection
<1>4. QED
  BY <1>1, <1>2, <1>3, UsedIsCounted DEF Users

-----------------------------------------------------------------------------
(* Types.                                                                  *)

\* A function to queues keeps its type when one of them gets longer.
LEMMA AppendTyped ==
  ASSUME NEW S, NEW T, NEW f \in [S -> Seq(T)], NEW s \in S, NEW x \in T
  PROVE  [f EXCEPT ![s] = Append(@, x)] \in [S -> Seq(T)]
  OBVIOUS

\* Append adds one element at the end.
LEMMA AppendOf ==
  ASSUME NEW T, NEW q \in Seq(T), NEW x \in T
  PROVE  /\ Append(q, x) \in Seq(T) /\ Append(q, x) # <<>>
         /\ DOMAIN q = 1 .. Len(q) /\ Len(q) \in Nat
         /\ Len(Append(q, x)) = Len(q) + 1
         /\ DOMAIN Append(q, x) = 1 .. Len(q) + 1
         /\ \A i \in DOMAIN q : Append(q, x)[i] = q[i]
         /\ Append(q, x)[Len(q) + 1] = x
  OBVIOUS

LEMMA TypingInit == Init => Typing
<1> SUFFICES ASSUME Init PROVE Typing
  OBVIOUS
<1> USE DEF Init
<1>1. base \in made \cup {None} /\ made \subseteq Conn
  OBVIOUS
<1>2. referenceCount \in [Conn -> Nat] /\ deleted \in [Conn -> Nat]
  OBVIOUS
<1>3. pendingConnections \in [Conn -> Seq(Pool)] /\ execQueue \in [Conn -> Seq(Pool)]
  OBVIOUS
<1>4. ndbConnection \in [Pool -> made \cup {None}] /\ status \in [Pool -> Status]
  BY DEF Status
<1>5. QED
  BY <1>1, <1>2, <1>3, <1>4 DEF Typing, TypeOK

\* Connect, in its two parts: the table and the pool.
LEMMA TypingConnect == \A p \in Pool : Typing /\ Connect(p) => Typing'
<1> SUFFICES ASSUME Typing, NEW p \in Pool, Connect(p) PROVE Typing'
  OBVIOUS
<1>1. PICK c \in Conn :
        GetNdbConnection(c) /\ ndbConnection' = [ndbConnection EXCEPT ![p] = c] /\ ConnectTo(c, p)
  BY DEF Connect
<1>2. UNCHANGED <<isConnected, isDisconnecting, execQueue, timerVars, running, panic, failed, deleted>>
  BY DEF Connect
<1>3. made \subseteq made' /\ made' \subseteq Conn /\ c \in made' /\ base' = c
  BY <1>1, ConnectionConstants DEF GetNdbConnection, Typing, TypeOK
<1>4. referenceCount' \in [Conn -> Nat]
  <2>1. referenceCount \in [Conn -> Nat] /\ GetNdbConnection(c)
    BY <1>1 DEF Typing, TypeOK
  <2>2. QED
    BY <2>1 DEF GetNdbConnection
<1>5. ndbConnection' \in [Pool -> made' \cup {None}]
  BY <1>1, <1>3 DEF Typing, TypeOK
<1>6. status' \in [Pool -> Status]
  BY <1>1 DEF ConnectTo, Status, Typing, TypeOK
<1>7. pendingConnections' \in [Conn -> Seq(Pool)]
  <2>1. /\ pendingConnections \in [Conn -> Seq(Pool)]
        /\ \/ UNCHANGED pendingConnections
           \/ pendingConnections' = [pendingConnections EXCEPT ![c] = Append(@, p)]
    BY <1>1 DEF ConnectTo, Typing, TypeOK
  <2>2. [pendingConnections EXCEPT ![c] = Append(@, p)] \in [Conn -> Seq(Pool)]
    BY <2>1, AppendTyped
  <2>3. QED
    BY <2>1, <2>2
<1>8. native' \in [Conn -> {"none", "connect", "wait_until_ready"}]
  BY <1>1 DEF ConnectTo, Typing, TypeOK
<1>9. \A d \in Conn : native'[d] # "none" => d \in made'
  BY <1>1, <1>3 DEF ConnectTo, Typing, TypeOK
<1>10. QED
  BY <1>2, <1>3, <1>4, <1>5, <1>6, <1>7, <1>8, <1>9, ConnectionConstants DEF Typing, TypeOK, timerVars

LEMMA TypingRelease == \A p \in Pool : Typing /\ Release(p) => Typing'
<1> SUFFICES ASSUME Typing, NEW p \in Pool, Release(p) PROVE Typing'
  OBVIOUS
<1>1. UNCHANGED <<base, made, connVars, ndbConnection, shutting, running, failed, deleted>>
  BY DEF Release
<1>2. referenceCount' \in [Conn -> Nat]
  <2>1. referenceCount \in [Conn -> Nat] /\ base \in Conn \cup {None}
    BY DEF Typing, TypeOK
  <2>2. \/ UNCHANGED referenceCount
        \/ /\ base # None /\ referenceCount[base] # 0
           /\ referenceCount' = [referenceCount EXCEPT ![base] = @ - 1]
    BY DEF Release
  <2>3. QED
    BY <2>1, <2>2
<1>3. status' \in [Pool -> Status]
  <2>1. status \in [Pool -> Status]
    BY DEF Typing, TypeOK
  <2>2. \/ UNCHANGED status
        \/ status' = [status EXCEPT ![p] = "lingering"]
        \/ status' = [status EXCEPT ![p] = "closed"]
    BY DEF Release
  <2>3. QED
    BY <2>1, <2>2 DEF Status
<1>4. lingering' \subseteq Timer
  BY DEF Release, Timer, Typing, TypeOK
<1>5. overlap' \in BOOLEAN /\ panic' \in BOOLEAN
  BY DEF Release, Typing, TypeOK
<1>6. QED
  BY <1>1, <1>2, <1>3, <1>4, <1>5 DEF Typing, TypeOK, connVars

LEMMA TypingNativeDone ==
  \A c \in Conn, ok \in BOOLEAN : Typing /\ NativeDone(c, ok) => Typing'
<1> SUFFICES ASSUME Typing, NEW c \in Conn, NEW ok \in BOOLEAN, NativeDone(c, ok) PROVE Typing'
  OBVIOUS
<1>1. UNCHANGED <<tableVars, pendingConnections, isDisconnecting, execQueue, ndbConnection, status,
                 timerVars, panic, deleted>>
  BY DEF NativeDone
<1>2. c \in made
  BY DEF NativeDone, Typing
<1>3. native' = [native EXCEPT ![c] = "none"] \/ native' = [native EXCEPT ![c] = "wait_until_ready"]
  BY DEF NativeDone
<1>4. native' \in [Conn -> {"none", "connect", "wait_until_ready"}]
  BY <1>3 DEF Typing, TypeOK
<1>5. \A d \in Conn : native'[d] # "none" => d \in made
  BY <1>2, <1>3 DEF Typing, TypeOK
<1>6. isConnected' \subseteq made /\ failed' \subseteq made
  <2>1. isConnected \subseteq made /\ failed \subseteq made
    BY DEF Typing, TypeOK
  <2>2. QED
    BY <1>2, <2>1 DEF NativeDone
<1>7. /\ running' \in [conn : Conn, next : Nat, ok : BOOLEAN] \cup {None}
      /\ running' # None => running'.next >= 1
  <2>1. \/ UNCHANGED running
        \/ running' = [conn |-> c, next |-> 1, ok |-> TRUE]
        \/ running' = [conn |-> c, next |-> 1, ok |-> FALSE]
    BY DEF NativeDone, RunCallbacks
  <2>2. running = None
    BY DEF NativeDone
  <2>3. CASE UNCHANGED running
    BY <2>2, <2>3
  <2>4. CASE running' = [conn |-> c, next |-> 1, ok |-> TRUE]
    BY <2>4
  <2>5. CASE running' = [conn |-> c, next |-> 1, ok |-> FALSE]
    BY <2>5
  <2>6. QED
    BY <2>1, <2>3, <2>4, <2>5
<1>8. QED
  BY <1>1, <1>4, <1>5, <1>6, <1>7 DEF Typing, TypeOK, tableVars, timerVars

LEMMA TypingCallback == Typing /\ Callback => Typing'
<1> SUFFICES ASSUME Typing, Callback PROVE Typing'
  OBVIOUS
<1>1. UNCHANGED <<tableVars, connVars, ndbConnection, timerVars, panic, failed, deleted>>
  BY DEF Callback
<1>2. running \in [conn : Conn, next : Nat, ok : BOOLEAN] /\ running.next >= 1
  BY DEF Callback, Typing, TypeOK
<1>3. running' = None \/ running' = [running EXCEPT !.next = @ + 1]
  BY DEF Callback
<1>4. /\ running' \in [conn : Conn, next : Nat, ok : BOOLEAN] \cup {None}
      /\ running' # None => running'.next >= 1
  BY <1>2, <1>3
<1>5. status' \in [Pool -> Status]
  <2>1. status \in [Pool -> Status]
    BY DEF Typing, TypeOK
  <2>2. \/ UNCHANGED status
        \/ \E p \in Pool, s \in {"open", "failed"} : status' = [status EXCEPT ![p] = s]
    BY <1>2 DEF Callback, Typing, TypeOK
  <2>3. QED
    BY <2>1, <2>2 DEF Status
<1>6. QED
  BY <1>1, <1>4, <1>5 DEF Typing, TypeOK, tableVars, connVars, timerVars

LEMMA TypingLingerExpired == \A t \in Timer : Typing /\ LingerExpired(t) => Typing'
<1> SUFFICES ASSUME Typing, NEW t \in Timer, LingerExpired(t) PROVE Typing'
  OBVIOUS
<1>1. UNCHANGED <<made, referenceCount, pendingConnections, native, ndbConnection, status, overlap,
                 running, panic, failed, deleted>>
  BY DEF LingerExpired
<1>2. base' \in made \cup {None}
  BY DEF LingerExpired, DoorLocked, Typing, TypeOK
<1>3. lingering' \subseteq Timer /\ shutting' \subseteq Timer
  BY DEF LingerExpired, Typing, TypeOK
<1>4. isConnected' \subseteq made /\ isDisconnecting' \subseteq made
  BY DEF LingerExpired, Disconnect, Typing, TypeOK
<1>5. execQueue' \in [Conn -> Seq(Pool)]
  <2>1. execQueue \in [Conn -> Seq(Pool)] /\ t.conn \in Conn /\ t.pool \in Pool
    BY DEF Typing, TypeOK, Timer
  <2>2. UNCHANGED execQueue \/ execQueue' = [execQueue EXCEPT ![t.conn] = Append(@, t.pool)]
    BY DEF LingerExpired, Disconnect
  <2>3. QED
    <3>1. [execQueue EXCEPT ![t.conn] = Append(@, t.pool)] \in [Conn -> Seq(Pool)]
      BY <2>1, AppendTyped
    <3>2. QED
      BY <2>1, <2>2, <3>1
<1>6. QED
  BY <1>1, <1>2, <1>3, <1>4, <1>5 DEF Typing, TypeOK

LEMMA TypingStep == Typing /\ [Next]_vars => Typing'
<1> SUFFICES ASSUME Typing, [Next]_vars PROVE Typing'
  OBVIOUS
<1>1. ASSUME NEW p \in Pool, Close(p) PROVE Typing'
  BY <1>1 DEF Typing, TypeOK, Close, Status, tableVars, connVars, timerVars
<1>2. ASSUME NEW t \in Timer, ShutdownDone(t) PROVE Typing'
  <2>1. execQueue \in [Conn -> Seq(Pool)] /\ t.conn \in Conn /\ t.pool \in Pool
    BY DEF Typing, TypeOK, Timer
  <2>2. execQueue' \in [Conn -> Seq(Pool)]
    BY <1>2, <2>1 DEF ShutdownDone, Disconnect
  <2>3. QED
    BY <1>2, <2>2 DEF Typing, TypeOK, ShutdownDone, Disconnect, tableVars
<1>3. ASSUME NEW c \in Conn, DeleteDone(c) PROVE Typing'
  BY SMTT(20), <1>3 DEF Typing, TypeOK, DeleteDone, Status, tableVars, timerVars
<1>4. CASE UNCHANGED vars
  BY <1>4 DEF Typing, TypeOK, vars, tableVars, connVars, timerVars
<1>5. QED
  BY <1>1, <1>2, <1>3, <1>4, TypingConnect, TypingRelease, TypingNativeDone, TypingCallback,
     TypingLingerExpired DEF Next

-----------------------------------------------------------------------------
(* Safety, step by step, while timers do not overlap.                      *)

\* With two timers nothing is claimed, and they are never forgotten.
LEMMA Overlapping == overlap' => Safe'
  BY DEF Safe, Users, CountsClients, OpenIsConnected, OneConnection, DeletedOnce, ReleaseFindsIt

\* What holds of a connection that is not in the table.
LEMMA OutOfTable ==
  ASSUME Typing, Safe, ~overlap, NEW c \in Conn, c \notin made \/ c # base
  PROVE  Clients(c) = {}
<1>1. CASE c \in made
  BY <1>1 DEF Safe, Users, OneConnection
<1>2. CASE c \notin made
  <2>1. \A p \in Pool : ndbConnection[p] # c
    BY <1>2, ConnectionConstants DEF Typing, TypeOK
  <2>2. QED
    BY <2>1 DEF Clients
<1>3. QED
  BY <1>1, <1>2

LEMMA SafeConnect == \A p \in Pool : Typing /\ Safe /\ Connect(p) => Safe'
<1> SUFFICES ASSUME Typing, Safe, NEW p \in Pool, Connect(p), ~overlap' PROVE Safe'
  BY Overlapping
<1>1. PICK c \in Conn :
        GetNdbConnection(c) /\ ndbConnection' = [ndbConnection EXCEPT ![p] = c] /\ ConnectTo(c, p)
  BY DEF Connect
<1>2. /\ UNCHANGED <<isConnected, isDisconnecting, execQueue, lingering, shutting, overlap, running,
                    panic, failed, deleted>>
      /\ status[p] = "new" /\ ~panic
  BY DEF Connect, timerVars
<1>3. /\ ~overlap /\ ~panic /\ TimersOfBase /\ Shutdowns /\ Leaving /\ Deletion
      /\ Waiting /\ NativeWaits /\ RunningWaits
      /\ CountsClients /\ OpenIsConnected /\ OneConnection /\ DeletedOnce
  BY <1>2 DEF Safe, Users, Timers, Callbacks
<1>4. /\ made' = made \cup {c} /\ base' = c /\ c # None
      /\ c = base \/ (c \notin made /\ base = None)
  BY <1>1, ConnectionConstants DEF GetNdbConnection, Typing, TypeOK
<1>5. /\ \A q \in Pool : q # p => status'[q] = status[q] /\ ndbConnection'[q] = ndbConnection[q]
      /\ status'[p] \in {"open", "connecting"} /\ ndbConnection'[p] = c
      /\ status'[p] = "open" => c \in isConnected
  BY <1>1 DEF ConnectTo, Typing, TypeOK
<1>6. /\ Clients(c)' = Clients(c) \cup {p} /\ p \notin Clients(c)
      /\ \A d \in Conn : d # c => Clients(d)' = Clients(d)
  <2>1. ~Client(p) /\ Client(p)' /\ \A q \in Pool : q # p => (Client(q)' <=> Client(q))
    BY <1>2, <1>5 DEF Client
  <2>2. \A q \in Pool : q \in Clients(c)' <=> q = p \/ q \in Clients(c)
    BY <1>5, <2>1 DEF Clients
  <2>3. ASSUME NEW d \in Conn, d # c PROVE Clients(d)' = Clients(d)
    BY <1>5, <2>1, <2>3 DEF Clients
  <2>4. \A d \in Conn : Clients(d) \subseteq Pool /\ Clients(d)' \subseteq Pool
    BY DEF Clients
  <2>5. p \notin Clients(c)
    BY <2>1 DEF Clients
  <2>6. Clients(c)' = Clients(c) \cup {p}
    BY <2>2, <2>4
  <2>7. QED
    BY <2>3, <2>4, <2>5, <2>6
<1>7. \A d \in Conn : d # c => Clients(d) = {}
  BY <1>3, <1>4, OutOfTable, ConnectionConstants
<1>8. CountsClients'
  <2>1. CASE c = base
    <3>1. c \in made /\ referenceCount' = [referenceCount EXCEPT ![c] = @ + 1]
      BY <1>1, <1>4, <2>1 DEF GetNdbConnection, Typing, TypeOK
    <3>2. Cardinality(Clients(c)') = referenceCount[c] + 1
      BY <1>3, <1>6, <3>1, OneMore
    <3>3. QED
      BY <1>3, <1>4, <1>6, <3>1, <3>2 DEF CountsClients, Typing, TypeOK
  <2>2. CASE c \notin made /\ base = None
    <3>1. referenceCount' = [referenceCount EXCEPT ![c] = 1]
      BY <1>1, <1>4, <2>2 DEF GetNdbConnection
    <3>2. Clients(c)' = {p}
      BY <1>3, <1>6, <2>2, OutOfTable
    <3>3. QED
      BY <1>3, <1>4, <1>6, <3>1, <3>2, First DEF CountsClients, Typing, TypeOK
  <2>3. QED
    BY <1>4, <2>1, <2>2
<1>9. c \notin isDisconnecting
  BY <1>3, <1>4 DEF Shutdowns, Typing, TypeOK
<1>10. OpenIsConnected'
  BY <1>2, <1>3, <1>5, <1>9 DEF OpenIsConnected
<1>11. OneConnection'
  BY <1>4, <1>6, <1>7 DEF OneConnection, Typing, TypeOK
<1>12. DeletedOnce' /\ Deletion'
  BY <1>2, <1>3, <1>4, <1>6, <1>7 DEF DeletedOnce, Deletion, Typing, TypeOK
<1>13. TimersOfBase' /\ Shutdowns'
  BY <1>2, <1>3, <1>4, <1>9, ConnectionConstants DEF TimersOfBase, Shutdowns, Typing, TypeOK, Timer
<1>14. Leaving'
  <2>1. \A q \in Pool : Gone(q) => Gone(q)'
    BY <1>2, <1>5 DEF Gone
  <2>2. QED
    BY <1>2, <1>3, <2>1 DEF Leaving, Typing, TypeOK, Timer
<1>15. \A d \in Conn : /\ pendingConnections[d] \in Seq(Pool)
                      /\ \A i \in DOMAIN pendingConnections[d] : pendingConnections[d][i] \in Pool \ {p}
  BY <1>2, <1>3 DEF Waiting, Typing, TypeOK
<1>16. \/ UNCHANGED <<pendingConnections, native>>
       \/ /\ c \notin isConnected /\ status'[p] = "connecting"
          /\ pendingConnections'[c] = Append(pendingConnections[c], p)
          /\ \A d \in Conn : d # c => pendingConnections'[d] = pendingConnections[d] /\ native'[d] = native[d]
          /\ native'[c] = IF IsFirst(c) THEN "connect" ELSE native[c]
  BY <1>1, <1>5 DEF ConnectTo, Typing, TypeOK
<1>17. \A d \in Conn :
         \/ pendingConnections'[d] = pendingConnections[d]
         \/ /\ d = c /\ status'[p] = "connecting"
            /\ Len(pendingConnections'[d]) = Len(pendingConnections[d]) + 1
            /\ DOMAIN pendingConnections'[d] = 1 .. Len(pendingConnections[d]) + 1
            /\ DOMAIN pendingConnections[d] = 1 .. Len(pendingConnections[d])
            /\ pendingConnections'[d] # <<>>
            /\ pendingConnections'[d][Len(pendingConnections[d]) + 1] = p
            /\ \A i \in DOMAIN pendingConnections[d] : pendingConnections'[d][i] = pendingConnections[d][i]
  BY <1>15, <1>16, AppendOf
<1>18. Waiting'
  BY SMTT(20), <1>2, <1>3, <1>5, <1>15, <1>17 DEF Waiting
<1>19. NativeWaits'
  BY <1>2, <1>3, <1>5, <1>15, <1>16, <1>17 DEF NativeWaits, RunningWaits, IsFirst
<1>20. RunningWaits'
  BY SMTT(20), <1>2, <1>3, <1>5, <1>15, <1>17 DEF RunningWaits, Typing, TypeOK
<1>21. QED
  BY <1>2, <1>8, <1>10, <1>11, <1>12, <1>13, <1>14, <1>18, <1>19, <1>20
     DEF Safe, Users, Timers, Callbacks, ReleaseFindsIt

LEMMA SafeClose == \A p \in Pool : Typing /\ Safe /\ Close(p) => Safe'
<1> SUFFICES ASSUME Typing, Safe, NEW p \in Pool, Close(p), ~overlap' PROVE Safe'
  BY Overlapping
<1>1. /\ UNCHANGED <<base, made, referenceCount, pendingConnections, isConnected, isDisconnecting,
                    native, execQueue, ndbConnection, lingering, shutting, overlap, running, panic,
                    failed, deleted>>
      /\ status[p] = "open" /\ ~panic /\ status' = [status EXCEPT ![p] = "closing"]
  BY DEF Close, tableVars, connVars, timerVars
<1>2. /\ ~overlap /\ ~panic /\ TimersOfBase /\ Shutdowns /\ Leaving /\ Deletion
      /\ Waiting /\ NativeWaits /\ RunningWaits
      /\ CountsClients /\ OpenIsConnected /\ OneConnection /\ DeletedOnce
  BY <1>1 DEF Safe, Users, Timers, Callbacks
<1>3. status'[p] = "closing" /\ \A q \in Pool : q # p => status'[q] = status[q]
  BY <1>1 DEF Typing, TypeOK
<1>4. ASSUME NEW c PROVE Clients(c)' = Clients(c)
  <2>1. \A q \in Pool : Client(q)' <=> Client(q)
    BY <1>1, <1>3 DEF Client
  <2>2. QED
    BY <1>1, <2>1 DEF Clients
<1>5. CountsClients' /\ OneConnection' /\ DeletedOnce'
  BY <1>1, <1>2, <1>4 DEF CountsClients, OneConnection, DeletedOnce
<1>6. OpenIsConnected'
  BY <1>1, <1>2, <1>3 DEF OpenIsConnected
<1>7. TimersOfBase' /\ Shutdowns' /\ Deletion'
  BY <1>1, <1>2 DEF TimersOfBase, Shutdowns, Deletion
<1>8. Leaving'
  <2>1. \A q \in Pool : Gone(q) => Gone(q)'
    BY <1>1, <1>3 DEF Gone
  <2>2. QED
    BY <1>1, <1>2, <2>1 DEF Leaving, Typing, TypeOK, Timer
<1>9. \A c \in Conn : \A i \in DOMAIN pendingConnections[c] : pendingConnections[c][i] \in Pool
  BY DEF Typing, TypeOK
<1>10. Waiting' /\ NativeWaits' /\ RunningWaits'
  BY <1>1, <1>2, <1>3, <1>9 DEF Waiting, NativeWaits, RunningWaits, Typing, TypeOK
<1>11. QED
  BY <1>1, <1>5, <1>6, <1>7, <1>8, <1>10 DEF Safe, Users, Timers, Callbacks, ReleaseFindsIt

LEMMA SafeRelease == \A p \in Pool : Typing /\ Safe /\ Release(p) => Safe'
<1> SUFFICES ASSUME Typing, Safe, NEW p \in Pool, Release(p), ~overlap' PROVE Safe'
  BY Overlapping
<1>1. /\ UNCHANGED <<base, made, pendingConnections, isConnected, isDisconnecting,
                    native, execQueue, ndbConnection, shutting, running, failed, deleted>>
      /\ status[p] = "closing" /\ ~panic /\ ~overlap
  BY DEF Release, connVars, Typing, TypeOK
<1>2. /\ ~overlap /\ ~panic /\ TimersOfBase /\ Shutdowns /\ Leaving /\ Deletion
      /\ Waiting /\ NativeWaits /\ RunningWaits
      /\ CountsClients /\ OpenIsConnected /\ OneConnection /\ DeletedOnce
  BY <1>1 DEF Safe, Users, Timers, Callbacks
<1>3. /\ base \in made /\ base \in Conn /\ base # None /\ ndbConnection[p] = base
      /\ p \in Clients(base) /\ referenceCount[base] # 0
  BY <1>1, UsersOfBase, ConnectionConstants DEF Safe, Typing, TypeOK
<1>4. ~panic' /\ referenceCount' = [referenceCount EXCEPT ![base] = @ - 1]
  BY <1>1, <1>3 DEF Release
<1>5. \/ status' = [status EXCEPT ![p] = "closed"] /\ UNCHANGED lingering
      \/ /\ status' = [status EXCEPT ![p] = "lingering"]
         /\ lingering' = lingering \cup {[conn |-> base, pool |-> p]}
         /\ \A t \in lingering : t.conn # base
  BY <1>1, <1>3 DEF Release
<1>6. /\ status'[p] \in {"closed", "lingering"} /\ \A q \in Pool : q # p => status'[q] = status[q]
  BY <1>5 DEF Typing, TypeOK
<1>7. /\ Clients(base)' = Clients(base) \ {p}
      /\ \A d \in Conn : d # base => Clients(d)' = Clients(d)
  <2>1. ~Client(p)' /\ \A q \in Pool : q # p => (Client(q)' <=> Client(q))
    BY <1>1, <1>6 DEF Client
  <2>2. Clients(base)' = Clients(base) \ {p}
    BY <1>1, <2>1 DEF Clients
  <2>3. ASSUME NEW d \in Conn, d # base PROVE Clients(d)' = Clients(d)
    BY <1>1, <1>3, <2>1, <2>3 DEF Clients
  <2>4. QED
    BY <2>2, <2>3
<1>8. CountsClients'
  <2>1. Cardinality(Clients(base)') = referenceCount[base] - 1
    BY <1>2, <1>3, <1>7, OneLess
  <2>2. QED
    BY <1>1, <1>2, <1>3, <1>4, <1>7, <2>1 DEF CountsClients, Typing, TypeOK
<1>9. OpenIsConnected'
  BY <1>1, <1>2, <1>6 DEF OpenIsConnected
<1>10. OneConnection' /\ DeletedOnce'
  BY <1>1, <1>2, <1>3, <1>7 DEF OneConnection, DeletedOnce, Typing, TypeOK
<1>11. TimersOfBase' /\ Shutdowns' /\ Deletion'
  BY <1>1, <1>2, <1>5 DEF TimersOfBase, Shutdowns, Deletion
<1>12. Leaving'
  <2>1. Gone(p)' /\ \A q \in Pool : Gone(q) => Gone(q)'
    BY <1>1, <1>6 DEF Gone
  <2>2. QED
    BY <1>1, <1>2, <1>5, <2>1 DEF Leaving, Typing, TypeOK, Timer
<1>13. \A c \in Conn : \A i \in DOMAIN pendingConnections[c] : pendingConnections[c][i] \in Pool
  BY DEF Typing, TypeOK
<1>14. Waiting' /\ NativeWaits' /\ RunningWaits'
  BY <1>1, <1>2, <1>6, <1>13 DEF Waiting, NativeWaits, RunningWaits, Typing, TypeOK
<1>15. QED
  BY <1>4, <1>8, <1>9, <1>10, <1>11, <1>12, <1>14 DEF Safe, Users, Timers, Callbacks, ReleaseFindsIt

LEMMA SafeNativeDone == \A c \in Conn, ok \in BOOLEAN : Typing /\ Safe /\ NativeDone(c, ok) => Safe'
<1> SUFFICES ASSUME Typing, Safe, NEW c \in Conn, NEW ok \in BOOLEAN, NativeDone(c, ok), ~overlap'
             PROVE Safe'
  BY Overlapping
<1>1. /\ UNCHANGED <<base, made, referenceCount, pendingConnections, isDisconnecting, execQueue,
                    ndbConnection, status, lingering, shutting, overlap, panic, deleted>>
      /\ native[c] # "none" /\ ~panic /\ running = None
  BY DEF NativeDone, tableVars, timerVars
<1>2. /\ ~overlap /\ ~panic /\ TimersOfBase /\ Shutdowns /\ Leaving /\ Deletion
      /\ Waiting /\ NativeWaits /\ RunningWaits
      /\ CountsClients /\ OpenIsConnected /\ OneConnection /\ DeletedOnce
  BY <1>1 DEF Safe, Users, Timers, Callbacks
<1>3. /\ isConnected \subseteq isConnected'
      /\ \/ native' = [native EXCEPT ![c] = "wait_until_ready"] /\ running' = None
         \/ /\ native' = [native EXCEPT ![c] = "none"] /\ c \in isConnected'
            /\ running' = [conn |-> c, next |-> 1, ok |-> TRUE]
         \/ /\ native' = [native EXCEPT ![c] = "none"]
            /\ running' = [conn |-> c, next |-> 1, ok |-> FALSE]
  BY <1>1 DEF NativeDone, RunCallbacks
<1>4. ASSUME NEW d PROVE Clients(d)' = Clients(d)
  BY <1>1 DEF Clients, Client
<1>5. CountsClients' /\ OneConnection' /\ DeletedOnce'
  BY <1>1, <1>2, <1>4 DEF CountsClients, OneConnection, DeletedOnce
<1>6. OpenIsConnected'
  BY <1>1, <1>2, <1>3 DEF OpenIsConnected
<1>7. TimersOfBase' /\ Shutdowns' /\ Deletion'
  BY <1>1, <1>2 DEF TimersOfBase, Shutdowns, Deletion
<1>8. Leaving' /\ Waiting'
  BY <1>1, <1>2 DEF Leaving, Gone, Waiting
<1>9. /\ pendingConnections[c] # <<>>
      /\ \A i \in DOMAIN pendingConnections[c] : status[pendingConnections[c][i]] = "connecting"
  BY <1>1, <1>2 DEF NativeWaits
<1>10. NativeWaits'
  <2>1. \A d \in Conn : d # c => native'[d] = native[d]
    BY <1>3 DEF Typing, TypeOK
  <2>2. native'[c] # "none" => running' = None
    BY <1>3 DEF Typing, TypeOK
  <2>3. running' # None => running'.conn = c
    BY <1>3
  <2>4. QED
    BY <1>1, <1>2, <1>9, <2>1, <2>2, <2>3 DEF NativeWaits
<1>11. RunningWaits'
  BY <1>1, <1>3, <1>9 DEF RunningWaits
<1>12. QED
  BY <1>1, <1>5, <1>6, <1>7, <1>8, <1>10, <1>11 DEF Safe, Users, Timers, Callbacks, ReleaseFindsIt

LEMMA SafeCallback == Typing /\ Safe /\ Callback => Safe'
<1> SUFFICES ASSUME Typing, Safe, Callback, ~overlap' PROVE Safe'
  BY Overlapping
<1> DEFINE c == running.conn
           waiting == pendingConnections[c]
<1>1. /\ UNCHANGED <<base, made, referenceCount, pendingConnections, isConnected, isDisconnecting,
                    native, execQueue, ndbConnection, lingering, shutting, overlap, panic, failed, deleted>>
      /\ ~panic /\ running # None
  BY DEF Callback, tableVars, connVars, timerVars
<1>2. /\ ~overlap /\ ~panic /\ TimersOfBase /\ Shutdowns /\ Leaving /\ Deletion
      /\ Waiting /\ NativeWaits /\ RunningWaits
      /\ CountsClients /\ OpenIsConnected /\ OneConnection /\ DeletedOnce
  BY <1>1 DEF Safe, Users, Timers, Callbacks
<1>3. /\ c \in Conn /\ running.next \in Nat /\ running.next >= 1 /\ waiting \in Seq(Pool)
      /\ running \in [conn : Conn, next : Nat, ok : BOOLEAN]
  BY <1>1 DEF Typing, TypeOK
<1>4. CASE running.next > Len(waiting)
  <2>0. running' = None /\ UNCHANGED status
    BY <1>3, <1>4 DEF Callback
  <2>1. ASSUME NEW d PROVE Clients(d)' = Clients(d)
    BY <1>1, <2>0 DEF Clients, Client
  <2>2. CountsClients' /\ OneConnection' /\ DeletedOnce'
    BY <1>1, <1>2, <2>1 DEF CountsClients, OneConnection, DeletedOnce
  <2>3. QED
    BY <1>1, <1>2, <2>0, <2>2 DEF OpenIsConnected, TimersOfBase, Shutdowns, Deletion, Leaving, Gone,
       Waiting, NativeWaits, RunningWaits, Safe, Users, Timers, Callbacks, ReleaseFindsIt
<1>5. CASE running.next <= Len(waiting)
  <2> DEFINE p == waiting[running.next]
  <2>1. /\ running.next \in DOMAIN waiting /\ p \in Pool
        /\ status' = [status EXCEPT ![p] = IF running.ok THEN "open" ELSE "failed"]
        /\ running' = [running EXCEPT !.next = @ + 1]
    BY <1>3, <1>5 DEF Callback
  <2>2. status[p] = "connecting" /\ ndbConnection[p] = c
    BY <1>1, <1>2, <1>3, <2>1 DEF RunningWaits, Waiting
  <2>3. /\ status'[p] \in {"open", "failed"}
        /\ status'[p] = "open" => running.ok
        /\ \A q \in Pool : q # p => status'[q] = status[q]
    BY <2>1 DEF Typing, TypeOK
  <2>4. /\ running'.conn = c /\ running'.next = running.next + 1 /\ running'.ok = running.ok
    BY <1>3, <2>1
  <2>5. ASSUME NEW d PROVE Clients(d)' = Clients(d)
    <3>1. \A q \in Pool : Client(q)' <=> Client(q)
      BY <1>1, <2>2, <2>3 DEF Client
    <3>2. QED
      BY <1>1, <3>1 DEF Clients
  <2>6. CountsClients' /\ OneConnection' /\ DeletedOnce'
    BY <1>1, <1>2, <2>5 DEF CountsClients, OneConnection, DeletedOnce
  <2>7. c \notin isDisconnecting
    <3>1. p \in Clients(c) /\ c \in made
      BY <1>3, <2>1, <2>2, ConnectionConstants DEF Clients, Client, Typing, TypeOK
    <3>2. QED
      BY <1>2, <3>1 DEF OneConnection, Shutdowns
  <2>8. OpenIsConnected'
    BY <1>1, <1>2, <2>2, <2>3, <2>7 DEF OpenIsConnected, RunningWaits
  <2>9. TimersOfBase' /\ Shutdowns' /\ Deletion'
    BY <1>1, <1>2 DEF TimersOfBase, Shutdowns, Deletion
  <2>10. Leaving'
    <3>1. \A q \in Pool : Gone(q) => Gone(q)'
      BY <2>2, <2>3 DEF Gone
    <3>2. QED
      BY <1>1, <1>2, <3>1 DEF Leaving, Typing, TypeOK, Timer
  <2>11. \A d \in Conn : \A i \in DOMAIN pendingConnections[d] : pendingConnections[d][i] \in Pool
    BY DEF Typing, TypeOK
  <2>12. Waiting'
    BY <1>1, <1>2, <2>3, <2>11 DEF Waiting
  <2>13. NativeWaits'
    <3>1. ASSUME NEW d \in Conn, native[d] # "none", NEW i \in DOMAIN pendingConnections[d]
          PROVE  pendingConnections[d][i] # p
      BY <1>1, <1>2, <2>2, <3>1 DEF Waiting, NativeWaits
    <3>2. QED
      BY <1>1, <1>2, <2>3, <2>4, <2>11, <3>1 DEF NativeWaits
  <2>14. RunningWaits'
    <3>1. \A i \in DOMAIN waiting : i >= running.next + 1 => i # running.next /\ i >= running.next
      BY <1>3
    <3>2. \A i \in DOMAIN waiting : i >= running.next + 1 => waiting[i] # p /\ status[waiting[i]] = "connecting"
      BY <1>1, <1>2, <1>3, <2>1, <3>1 DEF Waiting, RunningWaits
    <3>3. \A i \in DOMAIN waiting : i >= running.next + 1 => status'[waiting[i]] = "connecting"
      BY <1>3, <2>3, <2>11, <3>2
    <3>4. QED
      BY <1>1, <1>2, <2>4, <3>3 DEF RunningWaits
  <2>15. QED
    BY <1>1, <2>6, <2>8, <2>9, <2>10, <2>12, <2>13, <2>14
       DEF Safe, Users, Timers, Callbacks, ReleaseFindsIt
<1>6. QED
  BY <1>3, <1>4, <1>5

\* What lets nobody in or out of the table leaves the users' part alone.
LEMMA SafeLingerExpired == \A t \in Timer : Typing /\ Safe /\ LingerExpired(t) => Safe'
<1> SUFFICES ASSUME Typing, Safe, NEW t \in Timer, LingerExpired(t), ~overlap' PROVE Safe'
  BY Overlapping
<1> DEFINE c == t.conn
<1>1. /\ UNCHANGED <<made, referenceCount, pendingConnections, native, ndbConnection, status,
                    overlap, running, panic, failed, deleted>>
      /\ ~panic /\ running = None /\ t \in lingering /\ lingering' = lingering \ {t}
      /\ c \in Conn /\ t.pool \in Pool
  BY DEF LingerExpired, Timer
<1>2. /\ ~overlap /\ ~panic /\ TimersOfBase /\ Shutdowns /\ Leaving /\ Deletion
      /\ Waiting /\ NativeWaits /\ RunningWaits
      /\ CountsClients /\ OpenIsConnected /\ OneConnection /\ DeletedOnce
  BY <1>1 DEF Safe, Users, Timers, Callbacks
<1>3. c = base /\ lingering' = {} /\ Gone(t.pool) /\ c \in made
  BY <1>1, <1>2, ConnectionConstants DEF TimersOfBase, Leaving, Typing, TypeOK
<1>4. ASSUME NEW d PROVE Clients(d)' = Clients(d)
  BY <1>1 DEF Clients, Client
<1>5. CountsClients' /\ Waiting' /\ NativeWaits' /\ TimersOfBase' /\ ReleaseFindsIt'
  BY <1>1, <1>2, <1>3, <1>4
     DEF CountsClients, Waiting, NativeWaits, TimersOfBase, ReleaseFindsIt
<1>6. CASE ~NobodyCame(c)
  <2>1. UNCHANGED <<base, isConnected, isDisconnecting, execQueue, shutting>>
    BY <1>6 DEF LingerExpired
  <2>2. OneConnection' /\ DeletedOnce' /\ OpenIsConnected' /\ Shutdowns' /\ Deletion'
    BY <1>1, <1>2, <1>4, <2>1 DEF OneConnection, DeletedOnce, OpenIsConnected, Shutdowns, Deletion
  <2>3. Leaving' /\ RunningWaits'
    BY <1>1, <1>2, <2>1 DEF Leaving, Gone, RunningWaits
  <2>4. QED
    BY <1>5, <2>2, <2>3 DEF Safe, Users, Timers, Callbacks
<1>7. CASE NobodyCame(c)
  <2>1. base' = None /\ Clients(c) = {}
    BY <1>1, <1>2, <1>3, <1>7, UsedIsCounted DEF LingerExpired, NobodyCame, DoorLocked
  <2>2. \A d \in made : Clients(d) = {}
    BY <1>2, <1>3, <2>1 DEF OneConnection
  <2>3. OneConnection' /\ RunningWaits'
    BY <1>1, <1>4, <2>2 DEF OneConnection, RunningWaits
  <2>4. OpenIsConnected'
    BY <1>1, <1>2, <1>3, <2>1, UsersOfBase DEF OpenIsConnected, Safe
  <2>5. deleted[c] = 0 /\ execQueue[c] = <<>> /\ c \notin isDisconnecting /\ None \notin Conn
    BY <1>1, <1>2, <1>3, ConnectionConstants DEF Deletion, Shutdowns, Typing, TypeOK
  <2>6. CASE c \notin isConnected
    <3>1. /\ execQueue' = [execQueue EXCEPT ![c] = Append(@, t.pool)]
          /\ UNCHANGED <<isDisconnecting, shutting>>
      BY <1>7, <2>6 DEF LingerExpired, Disconnect
    <3>2. /\ execQueue'[c] = <<t.pool>> /\ Len(execQueue'[c]) = 1
          /\ \A d \in Conn : d # c => execQueue'[d] = execQueue[d]
      BY <1>1, <2>5, <3>1 DEF Typing, TypeOK
    <3>3. Deletion' /\ DeletedOnce'
      <4>1. \A d \in made : Clients(d)' = {}
        BY <1>4, <2>2
      <4>2. \A d \in Conn : deleted[d] \in Nat /\ Len(execQueue[d]) \in Nat
        BY DEF Typing, TypeOK
      <4>3. Deletion'
        <5>1. ASSUME NEW d \in Conn, d # c
              PROVE  /\ deleted'[d] + Len(execQueue'[d]) <= 1
                     /\ deleted'[d] + Len(execQueue'[d]) = 1 => d \in made' /\ d # base'
          BY <1>1, <1>2, <2>1, <2>5, <3>2, <5>1 DEF Deletion
        <5>2. deleted'[c] + Len(execQueue'[c]) = 1 /\ c \in made' /\ c # base'
          BY <1>1, <1>3, <2>1, <2>5, <3>2
        <5>3. QED
          BY <5>1, <5>2 DEF Deletion
      <4>4. DeletedOnce'
        <5>1. made' = made /\ made \subseteq Conn
          BY <1>1 DEF Typing, TypeOK
        <5>2. \A d \in made : deleted'[d] + Len(execQueue'[d]) <= 1
          BY <4>3, <5>1 DEF Deletion
        <5>3. QED
          BY <4>1, <5>1, <5>2 DEF DeletedOnce
      <4>5. QED
        BY <4>3, <4>4
    <3>4. Shutdowns'
      BY <1>1, <1>2, <2>1, <2>5, <3>1, <3>2 DEF Shutdowns, Typing, TypeOK, Timer
    <3>5. Leaving'
      BY <1>1, <1>2, <1>3, <3>1, <3>2 DEF Leaving, Gone
    <3>6. QED
      BY <1>5, <2>3, <2>4, <3>3, <3>4, <3>5 DEF Safe, Users, Timers, Callbacks
  <2>7. CASE c \in isConnected
    <3>1. /\ UNCHANGED execQueue /\ shutting' = shutting \cup {t}
          /\ isDisconnecting' = isDisconnecting \cup {c}
      BY <1>7, <2>5, <2>7 DEF LingerExpired
    <3>2. Deletion' /\ DeletedOnce'
      BY <1>1, <1>2, <1>4, <2>1, <2>5, <3>1 DEF Deletion, DeletedOnce
    <3>3. Shutdowns'
      BY <1>1, <1>2, <2>1, <2>5, <3>1 DEF Shutdowns, Typing, TypeOK
    <3>4. Leaving'
      BY <1>1, <1>2, <1>3, <3>1 DEF Leaving, Gone
    <3>5. QED
      BY <1>5, <2>3, <2>4, <3>2, <3>3, <3>4 DEF Safe, Users, Timers, Callbacks
  <2>8. QED
    BY <2>6, <2>7
<1>8. QED
  BY <1>6, <1>7

LEMMA SafeShutdownDone == \A t \in Timer : Typing /\ Safe /\ ShutdownDone(t) => Safe'
<1> SUFFICES ASSUME Typing, Safe, NEW t \in Timer, ShutdownDone(t), ~overlap' PROVE Safe'
  BY Overlapping
<1> DEFINE c == t.conn
<1>1. /\ UNCHANGED <<base, made, referenceCount, pendingConnections, isDisconnecting, native,
                    ndbConnection, status, lingering, overlap, running, panic, failed, deleted>>
      /\ ~panic /\ running = None /\ t \in shutting /\ shutting' = shutting \ {t}
      /\ isConnected' = isConnected \ {c}
      /\ execQueue' = [execQueue EXCEPT ![c] = Append(@, t.pool)]
      /\ c \in Conn /\ t.pool \in Pool
  BY DEF ShutdownDone, Disconnect, tableVars, Timer
<1>2. /\ ~overlap /\ ~panic /\ TimersOfBase /\ Shutdowns /\ Leaving /\ Deletion
      /\ Waiting /\ NativeWaits /\ RunningWaits
      /\ CountsClients /\ OpenIsConnected /\ OneConnection /\ DeletedOnce
  BY <1>1 DEF Safe, Users, Timers, Callbacks
<1>3. /\ c \in isDisconnecting /\ c \in made /\ c # base /\ deleted[c] = 0 /\ execQueue[c] = <<>>
      /\ Gone(t.pool)
  BY <1>1, <1>2 DEF Shutdowns, Leaving, Typing, TypeOK
<1>4. /\ execQueue'[c] = <<t.pool>> /\ Len(execQueue'[c]) = 1
      /\ \A d \in Conn : d # c => execQueue'[d] = execQueue[d]
  BY <1>1, <1>3 DEF Typing, TypeOK
<1>5. ASSUME NEW d PROVE Clients(d)' = Clients(d)
  BY <1>1 DEF Clients, Client
<1>6. CountsClients' /\ OneConnection' /\ Waiting' /\ NativeWaits' /\ RunningWaits' /\ TimersOfBase'
  BY <1>1, <1>2, <1>5 DEF CountsClients, OneConnection, Waiting, NativeWaits, RunningWaits, TimersOfBase
<1>7. OpenIsConnected'
  <2>1. \A p \in Pool : status[p] \in {"open", "closing"} => ndbConnection[p] # c
    BY <1>2, <1>3 DEF OpenIsConnected
  <2>2. QED
    BY <1>1, <1>2, <2>1 DEF OpenIsConnected
<1>8. Clients(c) = {}
  BY <1>2, <1>3 DEF OneConnection
<1>9. Deletion'
  <2>1. ASSUME NEW d \in Conn, d # c
        PROVE  /\ deleted'[d] + Len(execQueue'[d]) <= 1
               /\ deleted'[d] + Len(execQueue'[d]) = 1 => d \in made' /\ d # base'
    BY <1>1, <1>2, <1>4, <2>1 DEF Deletion
  <2>2. deleted'[c] + Len(execQueue'[c]) = 1 /\ c \in made' /\ c # base'
    BY <1>1, <1>3, <1>4
  <2>3. QED
    BY <2>1, <2>2 DEF Deletion
<1>10. DeletedOnce'
  <2>1. ASSUME NEW d \in made', d # c
        PROVE  /\ deleted'[d] + Len(execQueue'[d]) <= 1
               /\ deleted'[d] + Len(execQueue'[d]) = 1 => Clients(d)' = {}
    BY <1>1, <1>2, <1>4, <1>5, <2>1 DEF DeletedOnce, Typing, TypeOK
  <2>2. deleted'[c] + Len(execQueue'[c]) = 1 /\ Clients(c)' = {}
    BY <1>1, <1>3, <1>4, <1>5, <1>8
  <2>3. QED
    BY <2>1, <2>2 DEF DeletedOnce
<1>11. Shutdowns'
  BY <1>1, <1>2, <1>4 DEF Shutdowns, Typing, TypeOK, Timer
<1>12. Leaving'
  BY <1>1, <1>2, <1>3, <1>4 DEF Leaving, Gone
<1>13. QED
  BY <1>1, <1>6, <1>7, <1>9, <1>10, <1>11, <1>12 DEF Safe, Users, Timers, Callbacks, ReleaseFindsIt

LEMMA SafeDeleteDone == \A c \in Conn : Typing /\ Safe /\ DeleteDone(c) => Safe'
<1> SUFFICES ASSUME Typing, Safe, NEW c \in Conn, DeleteDone(c), ~overlap' PROVE Safe'
  BY Overlapping
<1> DEFINE p == Head(execQueue[c])
<1>1. /\ UNCHANGED <<base, made, referenceCount, pendingConnections, isConnected, isDisconnecting,
                    native, ndbConnection, lingering, shutting, overlap, running, panic, failed>>
      /\ ~panic /\ execQueue[c] # <<>>
      /\ execQueue' = [execQueue EXCEPT ![c] = Tail(@)]
      /\ deleted' = [deleted EXCEPT ![c] = @ + 1]
      /\ status' = [status EXCEPT ![p] = "closed"]
  BY DEF DeleteDone, tableVars, timerVars
<1>2. /\ ~overlap /\ ~panic /\ TimersOfBase /\ Shutdowns /\ Leaving /\ Deletion
      /\ Waiting /\ NativeWaits /\ RunningWaits
      /\ CountsClients /\ OpenIsConnected /\ OneConnection /\ DeletedOnce
  BY <1>1 DEF Safe, Users, Timers, Callbacks
<1>3. /\ p \in Pool /\ 1 \in DOMAIN execQueue[c] /\ p = execQueue[c][1]
      /\ Len(Tail(execQueue[c])) = Len(execQueue[c]) - 1 /\ Len(execQueue[c]) \in Nat \ {0}
  <2>1. execQueue[c] \in Seq(Pool)
    BY DEF Typing, TypeOK
  <2>2. QED
    BY <1>1, <2>1
<1>4. Gone(p)
  BY <1>2, <1>3 DEF Leaving
<1>5. status'[p] = "closed" /\ \A q \in Pool : q # p => status'[q] = status[q]
  BY <1>1, <1>3 DEF Typing, TypeOK
<1>6. /\ deleted[c] = 0 /\ Len(execQueue[c]) = 1 /\ deleted'[c] = 1 /\ execQueue'[c] = <<>>
      /\ \A d \in Conn : d # c => deleted'[d] = deleted[d] /\ execQueue'[d] = execQueue[d]
  <2>1. deleted \in [Conn -> Nat] /\ execQueue \in [Conn -> Seq(Pool)] /\ deleted[c] + Len(execQueue[c]) <= 1
    BY <1>2 DEF Deletion, Typing, TypeOK
  <2>2. deleted[c] = 0 /\ Len(execQueue[c]) = 1
    BY <1>3, <2>1
  <2>3. QED
    BY <1>1, <2>1, <2>2
<1>7. ASSUME NEW d PROVE Clients(d)' = Clients(d)
  <2>1. \A q \in Pool : Client(q)' <=> Client(q)
    BY <1>4, <1>5 DEF Client, Gone
  <2>2. QED
    BY <1>1, <2>1 DEF Clients
<1>8. CountsClients' /\ OneConnection' /\ TimersOfBase'
  BY <1>1, <1>2, <1>7 DEF CountsClients, OneConnection, TimersOfBase
<1>9. OpenIsConnected'
  BY <1>1, <1>2, <1>5 DEF OpenIsConnected
<1>10. Deletion' /\ DeletedOnce'
  <2>1. ASSUME NEW d \in Conn
        PROVE  deleted'[d] + Len(execQueue'[d]) = deleted[d] + Len(execQueue[d])
    <3>1. CASE d = c
      <4>1. Len(execQueue'[c]) = 0 /\ deleted'[c] = 1
        BY <1>6
      <4>2. Len(execQueue[c]) = 1 /\ deleted[c] = 0
        BY <1>6
      <4>3. QED
        BY ONLY <3>1, <4>1, <4>2
    <3>2. CASE d # c
      BY <1>6, <3>2
    <3>3. QED
      BY <3>1, <3>2
  <2>2. Deletion'
    BY <1>1, <1>2, <2>1 DEF Deletion
  <2>3. DeletedOnce'
    <3>1. ASSUME NEW d \in made'
          PROVE  /\ deleted'[d] + Len(execQueue'[d]) <= 1
                 /\ deleted'[d] + Len(execQueue'[d]) = 1 => Clients(d)' = {}
      BY <1>1, <1>2, <1>7, <2>1, <3>1 DEF DeletedOnce, Typing, TypeOK
    <3>2. QED
      BY <3>1 DEF DeletedOnce
  <2>4. QED
    BY <2>2, <2>3
<1>11. Shutdowns'
  <2>1. ASSUME NEW t \in shutting PROVE t.conn \in Conn /\ t.conn # c
    <3>1. t.conn \in Conn
      BY DEF Typing, TypeOK, Timer
    <3>2. execQueue[t.conn] = <<>>
      BY <1>2 DEF Shutdowns
    <3>3. QED
      BY <1>1, <3>1, <3>2
  <2>2. QED
    BY <1>1, <1>2, <1>6, <2>1 DEF Shutdowns
<1>12. Leaving'
  <2>1. \A q \in Pool : Gone(q) => Gone(q)'
    BY <1>5 DEF Gone
  <2>2. QED
    BY <1>1, <1>2, <1>6, <2>1 DEF Leaving, Typing, TypeOK, Timer
<1>13. \A d \in Conn : \A i \in DOMAIN pendingConnections[d] : pendingConnections[d][i] \in Pool
  BY DEF Typing, TypeOK
<1>14. Waiting' /\ NativeWaits' /\ RunningWaits'
  BY SMTT(20), <1>1, <1>2, <1>4, <1>5, <1>13 DEF Waiting, NativeWaits, RunningWaits, Gone, Typing, TypeOK
<1>15. QED
  BY <1>1, <1>8, <1>9, <1>10, <1>11, <1>12, <1>14 DEF Safe, Users, Timers, Callbacks, ReleaseFindsIt

-----------------------------------------------------------------------------
(* Theorems.                                                               *)

\* The inductive invariant holds in every reachable state: the types, the users' part
\* of the table, and whose timers and callbacks are under way (NdbConnectionPool.js and
\* NdbConnection.js).
THEOREM Invariance == Spec => [](Typing /\ Safe)
<1>1. Init => Typing /\ Safe
  <2> SUFFICES ASSUME Init PROVE Safe
    BY TypingInit
  <2>1. Users
    BY DEF Init, Users, CountsClients, OpenIsConnected, OneConnection, DeletedOnce, ReleaseFindsIt
  <2>2. TimersOfBase /\ Shutdowns /\ Leaving
    BY DEF Init, TimersOfBase, Shutdowns, Leaving
  <2>3. Deletion
    BY DEF Init, Deletion
  <2>4. Waiting /\ NativeWaits /\ RunningWaits
    BY DEF Init, Waiting, NativeWaits, RunningWaits
  <2>5. QED
    BY <2>1, <2>2, <2>3, <2>4 DEF Safe, Timers, Callbacks
<1>2. Typing /\ Safe /\ [Next]_vars => (Typing /\ Safe)'
  <2> SUFFICES ASSUME Typing, Safe, [Next]_vars PROVE Safe'
    BY TypingStep
  <2>1. CASE UNCHANGED vars
    <3>1. ASSUME NEW d PROVE Clients(d)' = Clients(d)
      BY <2>1 DEF Clients, Client, vars
    <3>2. Users'
      BY <2>1, <3>1 DEF Safe, Users, CountsClients, OpenIsConnected, OneConnection, DeletedOnce,
         ReleaseFindsIt, vars, tableVars, connVars, timerVars
    <3>3. ~overlap => Timers' /\ Callbacks'
      BY <2>1 DEF Safe, Timers, TimersOfBase, Shutdowns, Leaving, Gone, Deletion, Callbacks, Waiting,
         NativeWaits, RunningWaits, vars, tableVars, connVars, timerVars
    <3>4. QED
      BY <2>1, <3>2, <3>3 DEF Safe, vars, timerVars
  <2>2. QED
    BY <2>1, SafeConnect, SafeClose, SafeRelease, SafeNativeDone, SafeCallback, SafeLingerExpired,
       SafeShutdownDone, SafeDeleteDone DEF Next
<1>3. QED
  BY <1>1, <1>2, PTL DEF Spec

\* What the run checks for three pools and two connections, for any number of them: the
\* counts are right, all users are on the one connection of the table, which is
\* connected, it is deleted once and after they have gone, and a release finds it.
THEOREM TableSafety == Spec => []ConnectionsAreSafe
<1>1. Typing /\ Safe => ConnectionsAreSafe
  BY DEF Typing, Safe, Users, ConnectionsAreSafe
<1>2. QED
  BY <1>1, Invariance, PTL

\* Until two timers overlap, the close of the pool that waits for a timer finds nobody
\* on the connection when it goes on, and the connection still in the table: nothing
\* else has emptied the entry or filled it again (closeReally).
THEOREM TimerFindsItsConnection ==
  Spec => [](~overlap => \A t \in lingering : t.conn = base /\ Gone(t.pool))
<1>1. Typing /\ Safe => (~overlap => \A t \in lingering : t.conn = base /\ Gone(t.pool))
  BY DEF Safe, Timers, TimersOfBase, Leaving
<1>2. QED
  BY <1>1, Invariance, PTL

-----------------------------------------------------------------------------
(***************************************************************************)
(* The sessions of a pool have one place each, and close() of the pool     *)
(* closes what it finds, for any number of users and sessions and any      *)
(* bounds of the free list, as long as nobody closes a session twice.      *)
(*                                                                         *)
(* That a session has one place is not inductive: isOpen tells the session *)
(* of a user from one of the free list, and `by' the users from each other.*)
(* That close() is answered in time rests on the order of execQueue: it is *)
(* empty when the pool is closed, so that the first nclose entries are     *)
(* those that close() waits for.                                           *)
(***************************************************************************)

Known == DOMAIN sess
Impl == {"fetching", "failed", "live", "dropped", "gone"}
Owner == User \cup {P!Prefetch}
Entry == ({0} \cup Known) \X Owner
SessionRecord ==
  [impl : Impl, isOpen : BOOLEAN, by : Owner]

\* A user whose session is open has one; the session closed twice had been one, too.
PoolTypeOK ==
  /\ free \in Seq(Known)
  /\ sess \in Seq(SessionRecord)
  /\ holder \in [User -> Known \cup {None}]
  /\ step \in [User -> {"new", "getting", "open", "closing", "done"}]
  /\ tables \in Nat
  /\ destroyQueue \in Seq(Entry)
  /\ pool \in {"open", "closing", "lingering", "disconnecting", "gone"}
  /\ nclose \in Int
  /\ typeError \in BOOLEAN
  /\ late \subseteq Known
  /\ twice \subseteq User
  /\ \A u \in User : step[u] = "open" => holder[u] # None

Prefetching(s) == sess[s].by = P!Prefetch /\ sess[s].impl = "fetching"

\* What the free list may hold with the session that is prefetched.
FreeBound == (IF PoolMax + 1 > PoolMin THEN PoolMax + 1 ELSE PoolMin) + 1

\* One session is prefetched at a time, and there is room for it.
FreeListOK ==
  /\ \A s, t \in Known : Prefetching(s) /\ Prefetching(t) => s = t
  /\ Len(free) <= FreeBound
  /\ (\E s \in Known : Prefetching(s)) => Len(free) < FreeBound

\* Who waits for a session waits for one; it is marked open unless it is prefetched.
FetchesOK ==
  \A s \in Known : sess[s].impl = "fetching" =>
    /\ sess[s].isOpen <=> sess[s].by # P!Prefetch
    /\ sess[s].by # P!Prefetch => step[sess[s].by] = "getting"
    /\ \A t \in Known : sess[t].impl = "fetching" /\ sess[t].by = sess[s].by => s = t

\* The session of a user is live, and marked as open and as the user's.
UsersOK ==
  \A u \in User : step[u] = "open" =>
    LET s == sess[holder[u]] IN s.impl = "live" /\ s.isOpen /\ s.by = u

\* A session of the free list is live, not marked as open, and is on it once.
ListOK ==
  /\ \A i \in 1..Len(free) : sess[free[i]].impl = "live" /\ ~sess[free[i]].isOpen
  /\ \A i, j \in 1..Len(free) : free[i] = free[j] => i = j

\* First comes what close() of the pool waits for, then the sessions of users who close.
QueueOK ==
  /\ nclose \in 0..Len(destroyQueue)
  /\ pool = "closing" <=> nclose > 0
  /\ \A i \in 1..Len(destroyQueue) :
       /\ destroyQueue[i][1] # 0 => sess[destroyQueue[i][1]].impl \in {"dropped", "gone"}
       /\ destroyQueue[i][2] = P!Prefetch <=> i <= nclose
       /\ i > nclose => /\ step[destroyQueue[i][2]] = "closing"
                        /\ holder[destroyQueue[i][2]] = destroyQueue[i][1]
                        /\ destroyQueue[i][1] # 0
                        /\ \A j \in 1..Len(destroyQueue) :
                             destroyQueue[j][2] = destroyQueue[i][2] => i = j

Held(s) == \E u \in User : holder[u] = s /\ step[u] \in {"open", "closing"}

\* Every session is on its way to a user or away from one, on the list, waited for by
\* close(), or gone; but for those that came too late for it.
PlacesOK ==
  \A s \in Known :
    \/ sess[s].impl \in {"fetching", "failed", "gone"}
    \/ s \in late
    \/ Held(s)
    \/ pool = "open" /\ \E i \in 1..Len(free) : free[i] = s
    \/ \E i \in 1..nclose : destroyQueue[i][1] = s

PoolInv ==
  /\ PoolTypeOK
  /\ FreeListOK
  /\ twice = {} =>
       FetchesOK /\ UsersOK /\ ListOK /\ QueueOK /\ PlacesOK /\ ~typeError

-----------------------------------------------------------------------------
(* Sequences.                                                              *)

\* Append adds one entry at the end.
LEMMA AppendFacts ==
  ASSUME NEW S, NEW q \in Seq(S), NEW x \in S
  PROVE  /\ Append(q, x) \in Seq(S) /\ Len(q) \in Nat /\ Len(Append(q, x)) = Len(q) + 1
         /\ \A i \in 1..Len(q) : Append(q, x)[i] = q[i] /\ q[i] \in S
         /\ Append(q, x)[Len(q) + 1] = x
  OBVIOUS

\* Tail drops the first entry.
LEMMA TailFacts ==
  ASSUME NEW S, NEW q \in Seq(S), q # <<>>
  PROVE  /\ Tail(q) \in Seq(S) /\ Len(q) \in Nat /\ Len(q) > 0 /\ Len(Tail(q)) = Len(q) - 1
         /\ Head(q) = q[1] /\ Head(q) \in S
         /\ \A i \in 1..Len(q) - 1 : Tail(q)[i] = q[i + 1] /\ i + 1 \in 1..Len(q)
  OBVIOUS

\* What is left when the last entry is taken.
LEMMA FrontFacts ==
  ASSUME NEW S, NEW q \in Seq(S), q # <<>>
  PROVE  /\ SubSeq(q, 1, Len(q) - 1) \in Seq(S) /\ Len(q) \in Nat /\ Len(q) > 0
         /\ Len(SubSeq(q, 1, Len(q) - 1)) = Len(q) - 1
         /\ q[Len(q)] \in S
         /\ \A i \in 1..Len(q) - 1 : SubSeq(q, 1, Len(q) - 1)[i] = q[i] /\ i \in 1..Len(q)
<1>1. Len(q) \in Nat /\ Len(q) > 0 /\ q[Len(q)] \in S
  OBVIOUS
<1>2. PICK n \in Nat : Len(q) = n + 1 /\ n = Len(q) - 1
  BY <1>1
<1>3. SubSeq(q, 1, n) \in Seq(S) /\ Len(SubSeq(q, 1, n)) = n
  BY <1>2
<1>4. \A i \in 1..n : SubSeq(q, 1, n)[i] = q[i] /\ i \in 1..Len(q)
  BY <1>2
<1>5. QED
  BY <1>1, <1>2, <1>3, <1>4

\* One entry is replaced.
LEMMA ReplaceFacts ==
  ASSUME NEW S, NEW q \in Seq(S), NEW s \in DOMAIN q, NEW x \in S
  PROVE  /\ [q EXCEPT ![s] = x] \in Seq(S) /\ DOMAIN [q EXCEPT ![s] = x] = DOMAIN q
         /\ Len([q EXCEPT ![s] = x]) = Len(q)
         /\ [q EXCEPT ![s] = x][s] = x
         /\ \A i \in DOMAIN q : i # s => [q EXCEPT ![s] = x][i] = q[i]
  OBVIOUS

\* The entries of a sequence are in its set.
LEMMA EntryOf ==
  ASSUME NEW S, NEW q \in Seq(S)
  PROVE  Len(q) \in Nat /\ DOMAIN q = 1..Len(q) /\ \A i \in 1..Len(q) : q[i] \in S
  OBVIOUS

\* A function of the first numbers is a sequence.
LEMMA FunctionIsSeq ==
  ASSUME NEW S, NEW n \in Nat, NEW f \in [1..n -> S]
  PROVE  f \in Seq(S)
  BY SeqDef

-----------------------------------------------------------------------------
(* What the actions do with the sessions.                                  *)

\* Session s changes, and no other.
Only(s) ==
  /\ Known' = Known
  /\ sess' \in Seq(SessionRecord)
  /\ \A t \in Known : t # s => sess'[t] = sess[t]

\* The number of sessions, and their parts.
LEMMA SessionFacts ==
  ASSUME PoolTypeOK
  PROVE  /\ \A s \in Known : /\ sess[s] \in SessionRecord
                                   /\ sess[s].impl \in Impl
                                   /\ sess[s].isOpen \in BOOLEAN /\ sess[s].by \in Owner
         /\ \A u \in User : holder[u] # None => holder[u] \in Known
         /\ Len(free) \in Nat /\ \A i \in 1..Len(free) : free[i] \in Known
         /\ Len(destroyQueue) \in Nat
         /\ \A i \in 1..Len(destroyQueue) :
              destroyQueue[i][1] \in {0} \cup Known /\ destroyQueue[i][2] \in Owner
<1>1. \A s \in Known : sess[s] \in SessionRecord
  BY EntryOf DEF PoolTypeOK, Known
<1>2. \A s \in Known :
        /\ sess[s].impl \in Impl
        /\ sess[s].isOpen \in BOOLEAN /\ sess[s].by \in Owner
  BY <1>1 DEF SessionRecord
<1>3. Len(free) \in Nat /\ \A i \in 1..Len(free) : free[i] \in Known
  BY EntryOf DEF PoolTypeOK
<1>4. /\ Len(destroyQueue) \in Nat
      /\ \A i \in 1..Len(destroyQueue) : destroyQueue[i] \in Entry
  BY EntryOf DEF PoolTypeOK
<1>5. QED
  BY <1>1, <1>2, <1>3, <1>4 DEF PoolTypeOK, Entry

\* A session of the free list is given to a user.
LEMMA Given ==
  ASSUME PoolTypeOK, NEW s \in Known, NEW u \in Owner,
         sess' = [sess EXCEPT ![s].isOpen = TRUE, ![s].by = u]
  PROVE  Only(s) /\ sess'[s].impl = sess[s].impl /\ sess'[s].isOpen /\ sess'[s].by = u
<1> DEFINE r == [sess[s] EXCEPT !.isOpen = TRUE, !.by = u]
<1>1. sess \in Seq(SessionRecord) /\ s \in DOMAIN sess /\ sess[s] \in SessionRecord
  BY EntryOf DEF PoolTypeOK, Known
<1>2. r \in SessionRecord /\ r.impl = sess[s].impl /\ r.isOpen /\ r.by = u
  BY ONLY <1>1, u \in Owner DEF SessionRecord
<1>3. sess' = [sess EXCEPT ![s] = r]
  BY ONLY <1>1, sess' = [sess EXCEPT ![s].isOpen = TRUE, ![s].by = u] DEF SessionRecord
<1> HIDE DEF r
<1>4. QED
  BY ONLY <1>1, <1>2, <1>3, ReplaceFacts DEF Known, Only

\* A session gets another impl.
LEMMA TurnedTo ==
  ASSUME PoolTypeOK, NEW s \in Known, NEW v \in Impl
  PROVE  LET q == [sess EXCEPT ![s].impl = v] IN
         /\ q \in Seq(SessionRecord) /\ DOMAIN q = Known /\ Len(q) = Len(sess)
         /\ \A t \in Known : t # s => q[t] = sess[t]
         /\ q[s].impl = v /\ q[s].isOpen = sess[s].isOpen /\ q[s].by = sess[s].by
<1> DEFINE r == [sess[s] EXCEPT !.impl = v]
<1>1. sess \in Seq(SessionRecord) /\ s \in DOMAIN sess /\ sess[s] \in SessionRecord
  BY EntryOf DEF PoolTypeOK, Known
<1>2. r \in SessionRecord /\ r.impl = v /\ r.isOpen = sess[s].isOpen /\ r.by = sess[s].by
  BY ONLY <1>1, v \in Impl DEF SessionRecord
<1>3. [sess EXCEPT ![s].impl = v] = [sess EXCEPT ![s] = r]
  OBVIOUS
<1> HIDE DEF r
<1>4. /\ [sess EXCEPT ![s] = r] \in Seq(SessionRecord) /\ DOMAIN [sess EXCEPT ![s] = r] = DOMAIN sess
      /\ [sess EXCEPT ![s] = r][s] = r
      /\ \A t \in DOMAIN sess : t # s => [sess EXCEPT ![s] = r][t] = sess[t]
      /\ Len([sess EXCEPT ![s] = r]) = Len(sess)
  BY ONLY <1>1, <1>2, ReplaceFacts
<1>5. QED
  BY ONLY <1>2, <1>3, <1>4 DEF Known

\* The same, of the next state.
LEMMA Turned ==
  ASSUME PoolTypeOK, NEW s \in Known, NEW v \in Impl, sess' = [sess EXCEPT ![s].impl = v]
  PROVE  Only(s) /\ sess'[s].impl = v /\ sess'[s].isOpen = sess[s].isOpen /\ sess'[s].by = sess[s].by
BY TurnedTo DEF Only, Known

\* A session is marked as not open.
LEMMA Returned ==
  ASSUME PoolTypeOK, NEW s \in Known, sess' = [sess EXCEPT ![s].isOpen = FALSE]
  PROVE  Only(s) /\ sess'[s].impl = sess[s].impl /\ ~sess'[s].isOpen /\ sess'[s].by = sess[s].by
<1> DEFINE r == [sess[s] EXCEPT !.isOpen = FALSE]
<1>1. sess \in Seq(SessionRecord) /\ s \in DOMAIN sess /\ sess[s] \in SessionRecord
  BY EntryOf DEF PoolTypeOK, Known
<1>2. r \in SessionRecord /\ r.impl = sess[s].impl /\ ~r.isOpen /\ r.by = sess[s].by
  BY ONLY <1>1 DEF SessionRecord
<1>3. sess' = [sess EXCEPT ![s] = r]
  BY ONLY <1>1, sess' = [sess EXCEPT ![s].isOpen = FALSE] DEF SessionRecord
<1> HIDE DEF r
<1>4. QED
  BY ONLY <1>1, <1>2, <1>3, ReplaceFacts DEF Known, Only

\* A session that is made: it is fetched for u.
LEMMA Added ==
  ASSUME NEW q \in Seq(SessionRecord), NEW u \in Owner, NEW k
  PROVE  /\ Append(q, P!New(k, u)) \in Seq(SessionRecord)
         /\ DOMAIN Append(q, P!New(k, u)) = DOMAIN q \cup {Len(q) + 1}
         /\ Len(q) + 1 \in Nat \ DOMAIN q
         /\ \A t \in DOMAIN q : Append(q, P!New(k, u))[t] = q[t]
         /\ Append(q, P!New(k, u))[Len(q) + 1].impl = "fetching"
         /\ Append(q, P!New(k, u))[Len(q) + 1].isOpen <=> u # P!Prefetch
         /\ Append(q, P!New(k, u))[Len(q) + 1].by = u
<1> DEFINE r == P!New(k, u)
<1>1. r \in SessionRecord /\ r.impl = "fetching" /\ (r.isOpen <=> u # P!Prefetch) /\ r.by = u
  BY DEF P!New, SessionRecord, Impl
<1> HIDE DEF r
<1>2. /\ Append(q, r) \in Seq(SessionRecord) /\ Len(q) \in Nat /\ DOMAIN q = 1..Len(q)
      /\ Len(Append(q, r)) = Len(q) + 1 /\ Append(q, r)[Len(q) + 1] = r
      /\ \A i \in 1..Len(q) : Append(q, r)[i] = q[i]
  BY <1>1, AppendFacts, EntryOf
<1>3. DOMAIN Append(q, r) = 1..Len(q) + 1
  BY <1>2, EntryOf
<1>4. QED
  BY <1>1, <1>2, <1>3 DEF r

\* More sessions do not disturb the types.
LEMMA Grows ==
  ASSUME PoolTypeOK, Known \subseteq Known'
  PROVE  /\ free \in Seq(Known') /\ holder \in [User -> Known' \cup {None}]
         /\ destroyQueue \in Seq(Entry') /\ late \subseteq Known'
         /\ SessionRecord' = SessionRecord /\ Owner' = Owner
         /\ Known' = Known => Entry' = Entry
<1>1. Owner' = Owner /\ SessionRecord' = SessionRecord /\ Entry' = ({0} \cup Known') \X Owner
  BY DEF Owner, P!Prefetch, SessionRecord, Impl, Entry
<1>2. Entry \subseteq Entry'
  BY <1>1 DEF Entry
<1>3. QED
  BY <1>1, <1>2, SeqMonotonic DEF PoolTypeOK, Entry

\* What every action starts from.
LEMMA Basics ==
  ASSUME P!PoolConstants, PoolInv
  PROVE  /\ PoolTypeOK /\ FreeListOK
         /\ twice = {} => FetchesOK /\ UsersOK /\ ListOK /\ QueueOK /\ PlacesOK /\ ~typeError
         /\ Sessions \in Nat /\ PoolMin \in Nat /\ PoolMax \in Nat /\ FreeBound \in Nat
         /\ P!Prefetch \notin User /\ None \notin Known
         /\ \A v \in User : step[v] = "open" => holder[v] \in Known
         /\ \A i \in 1..Len(free) : free[i] \in Known
         /\ \A i \in 1..Len(destroyQueue) :
              destroyQueue[i][1] \in {0} \cup Known /\ destroyQueue[i][2] \in Owner
         /\ \A t \in Known : sess[t].by \in Owner
         /\ Len(free) \in Nat /\ Len(destroyQueue) \in Nat
<1>1. /\ PoolTypeOK /\ FreeListOK
      /\ twice = {} => FetchesOK /\ UsersOK /\ ListOK /\ QueueOK /\ PlacesOK /\ ~typeError
  BY DEF PoolInv
<1>2. \A v \in User : step[v] = "open" => holder[v] \in Known
  BY <1>1, SessionFacts DEF PoolTypeOK
<1>3. None \notin Known
  BY <1>1, EntryOf DEF PoolTypeOK, Known, P!PoolConstants
<1>4. FreeBound \in Nat
  BY DEF P!PoolConstants, FreeBound
<1>5. QED
  BY <1>1, <1>2, <1>3, <1>4, SessionFacts DEF P!PoolConstants

-----------------------------------------------------------------------------
(* Each action keeps the invariant.                                        *)

\* A user opens a session.
LEMMA KeepsGet ==
  ASSUME P!PoolConstants, PoolInv, NEW u \in User, P!GetDBSession(u), ~typeError
  PROVE  PoolInv'
<1>0. /\ PoolTypeOK /\ FreeListOK
      /\ twice = {} => FetchesOK /\ UsersOK /\ ListOK /\ QueueOK /\ PlacesOK /\ ~typeError
      /\ Sessions \in Nat /\ PoolMin \in Nat /\ PoolMax \in Nat /\ FreeBound \in Nat
      /\ P!Prefetch \notin User /\ None \notin Known
      /\ \A v \in User : step[v] = "open" => holder[v] \in Known
      /\ \A i \in 1..Len(free) : free[i] \in Known
      /\ \A i \in 1..Len(destroyQueue) :
              destroyQueue[i][1] \in {0} \cup Known /\ destroyQueue[i][2] \in Owner
      /\ \A t \in Known : sess[t].by \in Owner
      /\ Len(free) \in Nat /\ Len(destroyQueue) \in Nat
      /\ u # P!Prefetch /\ u \in Owner
  BY Basics DEF Owner
<1>1. CASE free # <<>>
  <2>0. free[Len(free)] \in Known /\ Len(free) \in 1..Len(free)
    <3>1. free \in Seq(Known)
      BY <1>0 DEF PoolTypeOK
    <3>2. QED
      BY ONLY <1>0, <1>1, <3>1, EntryOf
  <2>1. PICK s \in Known : s = free[Len(free)]
    BY <2>0
  <2>2. /\ free' = SubSeq(free, 1, Len(free) - 1)
        /\ sess' = [sess EXCEPT ![s].isOpen = TRUE, ![s].by = u]
        /\ holder' = [holder EXCEPT ![u] = s]
        /\ step[u] = "new" /\ step' = [step EXCEPT ![u] = "open"] /\ pool = "open"
        /\ UNCHANGED <<tables, destroyQueue, pool, nclose, typeError, late, twice>>
    BY <1>1, <2>1 DEF P!GetDBSession, P!Pop
  <2>3. Only(s) /\ sess'[s].impl = sess[s].impl /\ sess'[s].isOpen /\ sess'[s].by = u
    <3>1. u \in Owner /\ PoolTypeOK /\ sess' = [sess EXCEPT ![s].isOpen = TRUE, ![s].by = u]
      BY <1>0, <2>2 DEF Owner
    <3>2. QED
      BY ONLY <3>1, <2>1, Given
  <2>4. /\ Len(free') = Len(free) - 1 /\ free' \in Seq(Known)
        /\ \A i \in 1..Len(free') : free'[i] = free[i] /\ i \in 1..Len(free) /\ i # Len(free)
        /\ \A i \in 1..Len(free) : i # Len(free) => i \in 1..Len(free')
    <3>1. /\ Len(free') = Len(free) - 1 /\ free' \in Seq(Known)
          /\ \A i \in 1..Len(free) - 1 : free'[i] = free[i]
      BY <1>0, <1>1, <2>2, FrontFacts DEF PoolTypeOK
    <3>2. QED
      BY ONLY <3>1, <1>0
  <2>5. /\ holder' \in [User -> Known \cup {None}] /\ holder'[u] = s
        /\ step' \in [User -> {"new", "getting", "open", "closing", "done"}]
        /\ step[u] = "new" /\ step'[u] = "open" /\ pool = "open"
        /\ \A v \in User : v # u => holder'[v] = holder[v] /\ step'[v] = step[v]
        /\ UNCHANGED <<tables, destroyQueue, pool, nclose, typeError, late, twice>>
    BY <1>0, <2>1, <2>2 DEF PoolTypeOK
  <2>6. PoolTypeOK'
    <3>1. Entry' = Entry /\ SessionRecord' = SessionRecord
      BY <1>0, <2>3, Grows DEF Only
    <3>2. \A v \in User : step'[v] = "open" => holder'[v] # None
      BY <1>0, <2>5
    <3>3. QED
      BY <1>0, <2>3, <2>4, <2>5, <3>1, <3>2 DEF PoolTypeOK, Only
  <2>7. FreeListOK'
    <3>1. \A t \in Known : Prefetching(t)' => Prefetching(t) /\ t # s
      BY <1>0, <2>1, <2>3 DEF Only, Prefetching, P!Prefetch
    <3>2. Len(free') <= Len(free) /\ Len(free') \in Nat /\ FreeBound' = FreeBound
      BY <1>0, <2>0, <2>4 DEF FreeBound
    <3>3. QED
      BY <1>0, <2>3, <3>1, <3>2 DEF FreeListOK, Only
  <2>8. ASSUME twice = {}
        PROVE  (FetchesOK /\ UsersOK /\ ListOK /\ QueueOK /\ PlacesOK /\ ~typeError)'
    <3>1. FetchesOK /\ UsersOK /\ ListOK /\ QueueOK /\ PlacesOK /\ ~typeError
      BY <1>0, <2>8
    <3>2. sess[s].impl = "live" /\ ~sess[s].isOpen
      BY <2>0, <3>1, <2>1 DEF ListOK
    <3>3. FetchesOK'
      BY <1>0, <3>1, <3>2, <2>1, <2>3, <2>5 DEF FetchesOK, Only, Owner, P!Prefetch
    <3>4. UsersOK'
      BY <1>0, <3>1, <3>2, <2>1, <2>3, <2>5 DEF UsersOK, Only
    <3>5. ListOK'
      <4>1. \A i \in 1..Len(free') : free'[i] # s /\ free'[i] \in Known /\ free'[i] = free[i] /\ i \in 1..Len(free)
        BY <1>0, <3>1, <2>0, <2>1, <2>4 DEF ListOK
      <4>2. QED
        BY <3>1, <4>1, <2>3 DEF ListOK, Only
    <3>6. QueueOK'
      BY <1>0, <3>1, <3>2, <2>1, <2>3, <2>5 DEF QueueOK, Only, Owner, P!Prefetch
    <3>7. PlacesOK'
      <4>1. Held(s)' /\ \A t \in Known : Held(t) => Held(t)'
        BY <2>1, <2>5 DEF Held
      <4>2. \A t \in Known : t # s /\ (\E i \in 1..Len(free) : free[i] = t) => \E i \in 1..Len(free') : free'[i] = t
        BY <2>1, <2>4
      <4>3. QED
        BY <3>1, <2>3, <2>5, <4>1, <4>2 DEF PlacesOK, Only
    <3>8. QED
      BY <3>1, <3>3, <3>4, <3>5, <3>6, <3>7, <2>5
  <2>9. QED
    BY <2>5, <2>6, <2>7, <2>8 DEF PoolInv
<1>2. CASE free = <<>>
  <2>1. PICK n : n = Len(sess) + 1
    OBVIOUS
  <2>2. /\ sess' = Append(sess, P!New(P!Made + 1, u))
        /\ step[u] = "new" /\ step' = [step EXCEPT ![u] = "getting"] /\ pool = "open"
        /\ UNCHANGED <<free, holder, tables, destroyQueue, pool, nclose, typeError, late, twice>>
    BY <1>2 DEF P!GetDBSession
  <2>3. /\ sess' \in Seq(SessionRecord) /\ Known' = Known \cup {n} /\ n \notin Known /\ n \in Nat
        /\ \A t \in Known : sess'[t] = sess[t]
        /\ sess'[n].impl = "fetching" /\ sess'[n].isOpen /\ sess'[n].by = u
    <3>1. sess \in Seq(SessionRecord) /\ sess' = Append(sess, P!New(P!Made + 1, u))
      BY <1>0, <2>2 DEF PoolTypeOK
    <3>2. QED
      BY ONLY <1>0, <2>1, <3>1, Added DEF Known
  <2>4. /\ step' \in [User -> {"new", "getting", "open", "closing", "done"}]
        /\ step[u] = "new" /\ step'[u] = "getting" /\ pool = "open"
        /\ \A v \in User : v # u => step'[v] = step[v]
        /\ UNCHANGED <<free, holder, tables, destroyQueue, pool, nclose, typeError, late, twice>>
    BY <1>0, <2>2 DEF PoolTypeOK
  <2>5. PoolTypeOK'
    <3>1. /\ free \in Seq(Known') /\ holder \in [User -> Known' \cup {None}]
          /\ destroyQueue \in Seq(Entry') /\ late \subseteq Known'
          /\ SessionRecord' = SessionRecord
      BY <1>0, <2>3, Grows
    <3>2. \A v \in User : step'[v] = "open" => holder[v] # None
      BY <1>0, <2>4
    <3>3. QED
      BY <1>0, <2>3, <2>4, <3>1, <3>2 DEF PoolTypeOK
  <2>6. FreeListOK'
    <3>1. \A t \in Known' : Prefetching(t)' => t \in Known /\ Prefetching(t)
      BY <1>0, <2>3 DEF Prefetching, P!Prefetch
    <3>2. FreeBound' = FreeBound
      BY DEF FreeBound
    <3>3. QED
      BY <1>0, <2>4, <3>1, <3>2 DEF FreeListOK
  <2>7. ASSUME twice = {}
        PROVE  (FetchesOK /\ UsersOK /\ ListOK /\ QueueOK /\ PlacesOK /\ ~typeError)'
    <3>1. FetchesOK /\ UsersOK /\ ListOK /\ QueueOK /\ PlacesOK /\ ~typeError
      BY <1>0, <2>7
    <3>2. FetchesOK'
      <4>1. \A t \in Known : sess[t].impl = "fetching" => sess[t].by # u
        BY <1>0, <2>4, <3>1 DEF FetchesOK
      <4>2. QED
        BY <1>0, <2>3, <2>4, <3>1, <4>1 DEF FetchesOK, Owner, P!Prefetch
    <3>3. UsersOK'
      BY <1>0, <2>3, <2>4, <3>1 DEF UsersOK
    <3>4. ListOK'
      BY <1>0, <2>3, <2>4, <3>1 DEF ListOK
    <3>5. QueueOK'
      BY <1>0, <2>3, <2>4, <3>1 DEF QueueOK, Owner, P!Prefetch
    <3>6. PlacesOK'
      <4>1. \A t \in Known : Held(t) => Held(t)'
        BY <2>4 DEF Held
      <4>2. QED
        BY <2>3, <2>4, <3>1, <4>1 DEF PlacesOK
    <3>7. QED
      BY <3>1, <3>2, <3>3, <3>4, <3>5, <3>6, <2>4
  <2>8. QED
    BY <2>4, <2>5, <2>6, <2>7 DEF PoolInv
<1>3. QED
  BY <1>1, <1>2

\* Opening a table, or a timer: the sessions are left alone.
LEMMA KeepsTimer ==
  ASSUME P!PoolConstants, PoolInv, tables' \in Nat,
         UNCHANGED <<free, sess, holder, step, destroyQueue, nclose, typeError, late, twice>>,
         \/ pool' = pool
         \/ pool \in {"lingering", "disconnecting"} /\ pool' \in {"disconnecting", "gone"}
  PROVE  PoolInv'
<1>1. /\ Known' = Known /\ FreeBound' = FreeBound
      /\ Entry' = Entry /\ SessionRecord' = SessionRecord /\ Owner' = Owner
      /\ \A t : Prefetching(t)' = Prefetching(t) /\ Held(t)' = Held(t)
  <2>1. Known' = Known /\ \A t : Prefetching(t)' = Prefetching(t) /\ Held(t)' = Held(t)
    BY DEF Known, Prefetching, Held, P!Prefetch
  <2>2. FreeBound' = FreeBound
    BY DEF FreeBound
  <2>3. QED
    BY <2>1, <2>2, Basics, Grows
<1>2. PoolTypeOK'
  BY <1>1, Basics DEF PoolTypeOK
<1>3. FreeListOK'
  BY <1>1, Basics DEF FreeListOK
<1>4. ASSUME twice = {}
      PROVE  (FetchesOK /\ UsersOK /\ ListOK /\ QueueOK /\ PlacesOK /\ ~typeError)'
  <2>1. FetchesOK /\ UsersOK /\ ListOK /\ QueueOK /\ PlacesOK /\ ~typeError
    BY <1>4, Basics
  <2>2. FetchesOK' /\ UsersOK' /\ ListOK'
    BY <1>1, <2>1 DEF FetchesOK, UsersOK, ListOK, P!Prefetch
  <2>3. QueueOK' /\ PlacesOK'
    BY <1>1, <2>1 DEF QueueOK, PlacesOK, P!Prefetch
  <2>4. QED
    BY <2>1, <2>2, <2>3
<1>5. QED
  BY <1>2, <1>3, <1>4 DEF PoolInv

\* A prefetched session arrives, and another is fetched if the pool is wanting.
LEMMA KeepsPrefetched ==
  ASSUME P!PoolConstants, PoolInv, NEW s \in Known, NEW ok \in BOOLEAN, P!Prefetched(s, ok)
  PROVE  PoolInv'
<1> DEFINE v == IF ok THEN "live" ELSE "failed"
           arrived == [sess EXCEPT ![s].impl = v]
           n == Len(arrived) + 1
<1>1. /\ Prefetching(s)
      /\ UNCHANGED <<holder, step, tables, destroyQueue, pool, nclose, typeError, twice>>
      /\ late' = IF ok /\ pool # "open" THEN late \cup {s} ELSE late
  BY DEF P!Prefetched, Prefetching
<1>2. /\ arrived \in Seq(SessionRecord) /\ DOMAIN arrived = Known /\ Len(arrived) = Len(sess)
      /\ \A t \in Known : t # s => arrived[t] = sess[t]
      /\ arrived[s].impl = v /\ arrived[s].isOpen = sess[s].isOpen /\ arrived[s].by = sess[s].by
  <2>1. v \in Impl
    BY DEF Impl
  <2> HIDE DEF v
  <2>2. QED
    BY <2>1, Basics, TurnedTo
<1>3. \/ ok /\ free' = Append(free, s)
      \/ free' = free /\ (ok => pool # "open")
  BY DEF P!Prefetched, P!Disconnecting
<1>4. \/ sess' = arrived
      \/ /\ sess' = Append(arrived, P!New(P!Made + 1, P!Prefetch))
         /\ Len(free) + 1 < PoolMin /\ free' = Append(free, s)
  BY DEF P!Prefetched, P!Wanting
<1> HIDE DEF arrived
<1>5. /\ sess' \in Seq(SessionRecord) /\ Known \subseteq Known'
      /\ \A t \in Known : t # s => sess'[t] = sess[t]
      /\ sess'[s].impl = v /\ sess'[s].isOpen = sess[s].isOpen /\ sess'[s].by = sess[s].by
      /\ \A t \in Known' \ Known : /\ sess'[t].impl = "fetching" /\ ~sess'[t].isOpen
                                   /\ sess'[t].by = P!Prefetch
                                   /\ Len(free) + 1 < PoolMin /\ free' = Append(free, s)
      /\ \A t, r \in Known' \ Known : t = r
      /\ None \notin Known'
  <2>1. CASE sess' = arrived
    BY <1>2, <2>1, Basics DEF Known
  <2>2. CASE /\ sess' = Append(arrived, P!New(P!Made + 1, P!Prefetch))
             /\ Len(free) + 1 < PoolMin /\ free' = Append(free, s)
    <3>1. /\ Append(arrived, P!New(P!Made + 1, P!Prefetch)) \in Seq(SessionRecord)
          /\ DOMAIN Append(arrived, P!New(P!Made + 1, P!Prefetch)) = Known \cup {n}
          /\ n \in Nat \ Known
          /\ \A t \in Known : Append(arrived, P!New(P!Made + 1, P!Prefetch))[t] = arrived[t]
          /\ Append(arrived, P!New(P!Made + 1, P!Prefetch))[n].impl = "fetching"
          /\ ~Append(arrived, P!New(P!Made + 1, P!Prefetch))[n].isOpen
          /\ Append(arrived, P!New(P!Made + 1, P!Prefetch))[n].by = P!Prefetch
      <4>1. P!Prefetch \in Owner
        BY DEF Owner
      <4>2. QED
        BY ONLY <1>2, <4>1, Added
    <3>2. Known' = Known \cup {n} /\ None # n
      BY <2>2, <3>1 DEF Known, P!PoolConstants
    <3> HIDE DEF n
    <3>3. QED
      BY <1>2, <2>2, <3>1, <3>2, Basics
  <2>3. QED
    BY <1>4, <2>1, <2>2
<1>6. /\ free' \in Seq(Known) /\ Len(free') \in Nat /\ Len(free') \in Len(free)..Len(free) + 1
      /\ \A i \in 1..Len(free) : free'[i] = free[i] /\ i \in 1..Len(free')
      /\ \A i \in 1..Len(free') : i \in 1..Len(free) \/ (i = Len(free) + 1 /\ free'[i] = s /\ ok)
      /\ ok /\ pool = "open" => Len(free) + 1 \in 1..Len(free') /\ free'[Len(free) + 1] = s
  <2>1. free \in Seq(Known) /\ Len(free) \in Nat
    BY Basics DEF PoolTypeOK
  <2>2. CASE ok /\ free' = Append(free, s)
    BY ONLY <2>1, <2>2, AppendFacts
  <2>3. CASE free' = free /\ (ok => pool # "open")
    BY ONLY <2>1, <2>3
  <2>4. QED
    BY <1>3, <2>2, <2>3
<1>7. PoolTypeOK'
  <2>1. /\ free' \in Seq(Known')
        /\ holder' \in [User -> Known' \cup {None}] /\ destroyQueue' \in Seq(Entry')
        /\ late' \subseteq Known' /\ SessionRecord' = SessionRecord
    BY <1>1, <1>5, <1>6, Basics, Grows, SeqMonotonic
  <2>2. QED
    BY <1>1, <1>5, <2>1, Basics DEF PoolTypeOK
<1>8. FreeListOK'
  <2>1. \A t \in Known' : Prefetching(t)' => t \in Known' \ Known
    BY <1>1, <1>5, Basics DEF Prefetching, FreeListOK, P!Prefetch
  <2>2. FreeBound' = FreeBound /\ FreeBound >= PoolMin + 1 /\ Len(free) < FreeBound
    BY <1>1, Basics DEF FreeBound, FreeListOK
  <2>3. \A t \in Known' \ Known : Len(free') < FreeBound
    BY <1>5, <1>6, <2>2, Basics
  <2>4. Len(free') <= FreeBound
    BY <1>6, <2>2, Basics
  <2>5. QED
    BY <1>5, <2>1, <2>2, <2>3, <2>4 DEF FreeListOK
<1>9. ASSUME twice = {}
      PROVE  (FetchesOK /\ UsersOK /\ ListOK /\ QueueOK /\ PlacesOK /\ ~typeError)'
  <2>1. FetchesOK /\ UsersOK /\ ListOK /\ QueueOK /\ PlacesOK /\ ~typeError
    BY <1>9, Basics
  <2>2. sess[s].impl = "fetching" /\ sess[s].by = P!Prefetch /\ ~sess[s].isOpen
    BY <1>1, <2>1 DEF Prefetching, FetchesOK
  <2>3. FetchesOK'
    <3>1. ASSUME NEW t \in Known', sess'[t].impl = "fetching", t \in Known
          PROVE  t # s /\ sess'[t] = sess[t] /\ sess[t].by # P!Prefetch
      BY <1>5, <2>1, <2>2, <3>1 DEF FetchesOK
    <3>2. \A t \in Known' : sess'[t].impl = "fetching" =>
            /\ sess'[t].isOpen <=> sess'[t].by # P!Prefetch
            /\ sess'[t].by # P!Prefetch => step[sess'[t].by] = "getting"
      BY <1>5, <2>1, <3>1 DEF FetchesOK
    <3>3. ASSUME NEW t \in Known', NEW r \in Known', sess'[t].impl = "fetching",
                 sess'[r].impl = "fetching", sess'[r].by = sess'[t].by
          PROVE  t = r
      <4>1. CASE t \in Known /\ r \in Known
        BY <2>1, <3>1, <3>3, <4>1 DEF FetchesOK
      <4>2. CASE t \notin Known /\ r \notin Known
        BY <1>5, <4>2
      <4>3. CASE t \in Known /\ r \notin Known
        BY <1>5, <3>1, <3>3, <4>3
      <4>4. CASE t \notin Known /\ r \in Known
        BY <1>5, <3>1, <3>3, <4>4
      <4>5. QED
        BY <4>1, <4>2, <4>3, <4>4
    <3>4. QED
      BY <1>1, <3>2, <3>3 DEF FetchesOK, P!Prefetch
  <2>4. UsersOK'
    <3>1. \A w \in User : step[w] = "open" => holder[w] \in Known /\ holder[w] # s
      BY <2>1, <2>2, Basics DEF UsersOK
    <3>2. QED
      BY <1>1, <1>5, <2>1, <3>1 DEF UsersOK
  <2>5. ListOK'
    <3>1. \A i \in 1..Len(free) : free[i] \in Known /\ free[i] # s /\ sess'[free[i]] = sess[free[i]]
      BY <1>5, <2>1, <2>2, Basics DEF ListOK
    <3>2. \A i \in 1..Len(free') : sess'[free'[i]].impl = "live" /\ ~sess'[free'[i]].isOpen
      BY <1>5, <1>6, <2>1, <2>2, <3>1 DEF ListOK
    <3>3. \A i, j \in 1..Len(free') : free'[i] = free'[j] => i = j
      BY <1>6, <2>1, <3>1 DEF ListOK
    <3>4. QED
      BY <3>2, <3>3 DEF ListOK
  <2>6. QueueOK'
    <3>1. \A i \in 1..Len(destroyQueue) :
            destroyQueue[i][1] # 0 => sess'[destroyQueue[i][1]].impl \in {"dropped", "gone"}
      BY <1>5, <2>1, <2>2, Basics DEF QueueOK
    <3>2. QED
      BY <1>1, <2>1, <3>1 DEF QueueOK, P!Prefetch
  <2>7. PlacesOK'
    <3>1. \A t \in Known : Held(t) => Held(t)'
      BY <1>1 DEF Held
    <3>2. sess'[s].impl = "failed" \/ s \in late' \/ (pool = "open" /\ \E i \in 1..Len(free') : free'[i] = s)
      BY <1>1, <1>5, <1>6
    <3>3. \A t \in Known : (\E i \in 1..Len(free) : free[i] = t) => \E i \in 1..Len(free') : free'[i] = t
      BY <1>6
    <3>4. ASSUME NEW t \in Known, t # s
          PROVE  \/ sess'[t].impl \in {"fetching", "failed", "gone"}
                 \/ t \in late'
                 \/ Held(t)'
                 \/ pool' = "open" /\ \E i \in 1..Len(free') : free'[i] = t
                 \/ \E i \in 1..nclose' : destroyQueue'[i][1] = t
      BY <1>1, <1>5, <2>1, <3>1, <3>3, <3>4 DEF PlacesOK
    <3>5. QED
      BY <1>1, <1>5, <3>2, <3>4 DEF PlacesOK
  <2>8. QED
    BY <1>1, <2>1, <2>3, <2>4, <2>5, <2>6, <2>7
<1>10. QED
  BY <1>1, <1>7, <1>8, <1>9 DEF PoolInv

\* A session arrives for a user.
LEMMA KeepsFetched ==
  ASSUME P!PoolConstants, PoolInv, NEW u \in User, NEW s \in Known, NEW ok \in BOOLEAN,
         P!Fetched(u, s, ok)
  PROVE  PoolInv'
<1> DEFINE v == IF ok THEN "live" ELSE "failed"
<1>1. /\ sess[s].by = u /\ sess[s].impl = "fetching"
      /\ sess' = [sess EXCEPT ![s].impl = v]
      /\ holder' = IF ok THEN [holder EXCEPT ![u] = s] ELSE holder
      /\ step' = [step EXCEPT ![u] = IF ok THEN "open" ELSE "done"]
      /\ UNCHANGED <<free, tables, destroyQueue, pool, nclose, typeError, late, twice>>
  BY DEF P!Fetched
<1>2. Only(s) /\ sess'[s].impl = v /\ sess'[s].isOpen = sess[s].isOpen /\ sess'[s].by = u
  <2>1. v \in Impl
    BY DEF Impl
  <2> HIDE DEF v
  <2>2. QED
    BY <1>1, <2>1, Basics, Turned
<1>3. /\ holder' \in [User -> Known \cup {None}]
      /\ step' \in [User -> {"new", "getting", "open", "closing", "done"}]
      /\ ok => holder'[u] = s /\ step'[u] = "open"
      /\ ~ok => step'[u] = "done"
      /\ \A w \in User : w # u => holder'[w] = holder[w] /\ step'[w] = step[w]
  BY <1>1, Basics DEF PoolTypeOK
<1>4. UNCHANGED <<free, tables, destroyQueue, pool, nclose, typeError, late, twice>>
  BY <1>1
<1>5. PoolTypeOK'
  <2>1. Entry' = Entry /\ SessionRecord' = SessionRecord
    BY <1>2, Basics, Grows DEF Only
  <2>2. \A w \in User : step'[w] = "open" => holder'[w] # None
    BY <1>3, Basics DEF PoolTypeOK
  <2>3. QED
    BY <1>2, <1>3, <1>4, <2>1, <2>2, Basics DEF PoolTypeOK, Only
<1>6. FreeListOK'
  <2>1. \A t \in Known : Prefetching(t)' => Prefetching(t)
    BY <1>2 DEF Only, Prefetching, P!Prefetch
  <2>2. FreeBound' = FreeBound
    BY DEF FreeBound
  <2>3. QED
    BY <1>2, <1>4, <2>1, <2>2, Basics DEF FreeListOK, Only
<1>7. ASSUME twice = {}
      PROVE  (FetchesOK /\ UsersOK /\ ListOK /\ QueueOK /\ PlacesOK /\ ~typeError)'
  <2>1. FetchesOK /\ UsersOK /\ ListOK /\ QueueOK /\ PlacesOK /\ ~typeError
    BY <1>7, Basics
  <2>2. u # P!Prefetch /\ step[u] = "getting" /\ sess[s].isOpen
    BY <1>1, <2>1, Basics DEF FetchesOK
  <2>3. FetchesOK'
    <3>1. \A t \in Known : sess'[t].impl = "fetching" => t # s /\ sess'[t] = sess[t] /\ sess[t].by # u
      BY <1>1, <1>2, <2>1 DEF FetchesOK, Only
    <3>2. \A t \in Known : sess'[t].impl = "fetching" /\ sess[t].by # P!Prefetch => step'[sess[t].by] = "getting"
      BY <1>3, <2>1, <3>1, Basics DEF FetchesOK, Owner
    <3>3. QED
      BY <1>2, <2>1, <3>1, <3>2 DEF FetchesOK, Only, P!Prefetch
  <2>4. UsersOK'
    <3>1. \A w \in User : step[w] = "open" => holder[w] \in Known /\ holder[w] # s
      BY <1>1, <2>1, Basics DEF UsersOK
    <3>2. \A w \in User : w # u /\ step'[w] = "open" =>
            sess'[holder'[w]] = sess[holder[w]] /\ step[w] = "open"
      BY <1>2, <1>3, <3>1 DEF Only
    <3>3. step'[u] = "open" => holder'[u] = s /\ sess'[s].impl = "live" /\ sess'[s].isOpen /\ sess'[s].by = u
      BY <1>2, <1>3, <2>2
    <3>4. QED
      BY <2>1, <3>2, <3>3 DEF UsersOK
  <2>5. ListOK'
    <3>1. \A i \in 1..Len(free) : free[i] \in Known /\ free[i] # s /\ sess'[free[i]] = sess[free[i]]
      BY <1>1, <1>2, <2>1, Basics DEF ListOK, Only
    <3>2. QED
      BY <1>4, <2>1, <3>1 DEF ListOK
  <2>6. QueueOK'
    <3>1. \A i \in 1..Len(destroyQueue) :
            destroyQueue[i][1] # 0 => sess'[destroyQueue[i][1]].impl \in {"dropped", "gone"}
      BY <1>1, <1>2, <2>1, Basics DEF QueueOK, Only
    <3>2. \A i \in 1..Len(destroyQueue) : i > nclose =>
            destroyQueue[i][2] \in User /\ destroyQueue[i][2] # u
      BY <2>1, <2>2, Basics DEF QueueOK, Owner
    <3>3. QED
      BY <1>3, <1>4, <2>1, <3>1, <3>2 DEF QueueOK, P!Prefetch
  <2>7. PlacesOK'
    <3>1. \A t \in Known : Held(t) => Held(t)'
      BY <1>3, <2>2 DEF Held
    <3>2. sess'[s].impl = "failed" \/ Held(s)'
      BY <1>2, <1>3 DEF Held
    <3>3. QED
      BY <1>2, <1>4, <2>1, <3>1, <3>2 DEF PlacesOK, Only
  <2>8. QED
    BY <1>4, <2>1, <2>3, <2>4, <2>5, <2>6, <2>7
<1>8. QED
  BY <1>4, <1>5, <1>6, <1>7 DEF PoolInv

\* The outcomes of closeNdbSession: the session is past closing, it is destroyed, there
\* is nothing to destroy, or it goes to the free list.
ClosePast(u, s) ==
  /\ ~sess[s].isOpen \/ pool = "gone"
  /\ step' = [step EXCEPT ![u] = "done"]
  /\ pool = "gone" => s \in late'
  /\ late' \in {late, late \cup {s}}
  /\ UNCHANGED <<free, sess, destroyQueue, typeError>>

CloseDestroys(u, s) ==
  /\ sess[s].isOpen /\ sess[s].impl = "live"
  /\ sess' = [sess EXCEPT ![s].impl = "dropped"]
  /\ destroyQueue' = Append(destroyQueue, <<s, u>>)
  /\ step' = [step EXCEPT ![u] = "closing"]
  /\ UNCHANGED <<free, late, typeError>>

CloseThrows(u, s) ==
  /\ sess[s].isOpen /\ sess[s].impl # "live"
  /\ typeError' = TRUE
  /\ UNCHANGED <<free, sess, destroyQueue, step, late>>

CloseLists(u, s) ==
  /\ sess[s].isOpen /\ Len(free) <= PoolMax
  /\ sess' = [sess EXCEPT ![s].isOpen = FALSE]
  /\ free' = Append(free, s)
  /\ step' = [step EXCEPT ![u] = "done"]
  /\ pool # "open" => s \in late'
  /\ late' \in {late, late \cup {s}}
  /\ UNCHANGED <<destroyQueue, typeError>>

CloseOutcome(u, s) ==
  ClosePast(u, s) \/ CloseDestroys(u, s) \/ CloseThrows(u, s) \/ CloseLists(u, s)

\* closeNdbSession has one of them.
LEMMA CloseHasOutcome ==
  ASSUME P!PoolConstants, PoolInv, NEW u \in User, P!CloseNdbSession(u, "done"), NEW s, s = holder[u]
  PROVE  CloseOutcome(u, s)
<1>1. Len(free) \in Nat /\ PoolMax \in Nat
  BY Basics DEF P!PoolConstants
<1>2. ~P!Full => Len(free) <= PoolMax
  BY <1>1 DEF P!Full
<1>3. QED
  BY <1>2 DEF P!CloseNdbSession, CloseOutcome, ClosePast, CloseDestroys, CloseThrows, CloseLists

\* Of the sessions no other changes, and none begins to be fetched.
LEMMA CloseChanges ==
  ASSUME P!PoolConstants, PoolInv, NEW u \in User, NEW s \in Known, CloseOutcome(u, s)
  PROVE  /\ sess' \in Seq(SessionRecord) /\ Known' = Known
         /\ \A t \in Known : t # s => sess'[t] = sess[t]
         /\ sess'[s].by = sess[s].by
         /\ sess'[s].impl = "fetching" => sess[s].impl = "fetching"
<1>1. CASE UNCHANGED sess
  BY <1>1, Basics DEF PoolTypeOK, Known
<1>2. CASE sess' = [sess EXCEPT ![s].impl = "dropped"]
  <2>1. "dropped" \in Impl
    BY DEF Impl
  <2>2. QED
    BY <1>2, <2>1, Basics, Turned DEF Only
<1>3. CASE sess' = [sess EXCEPT ![s].isOpen = FALSE]
  BY <1>3, Basics, Returned DEF Only
<1>4. QED
  BY <1>1, <1>2, <1>3 DEF CloseOutcome, ClosePast, CloseDestroys, CloseThrows, CloseLists

\* Types and bounds survive any close, also the second of a session.
LEMMA CloseKeepsBounds ==
  ASSUME P!PoolConstants, PoolInv, NEW u \in User, NEW s \in Known, s = holder[u],
         CloseOutcome(u, s), UNCHANGED <<holder, tables, pool, nclose>>, twice' \subseteq User
  PROVE  PoolTypeOK' /\ FreeListOK'
<1>1. /\ sess' \in Seq(SessionRecord) /\ Known' = Known
      /\ \A t \in Known : Prefetching(t)' => Prefetching(t)
  BY CloseChanges DEF Prefetching, P!Prefetch
<1>2. Entry' = Entry /\ SessionRecord' = SessionRecord /\ s \in Known
  BY <1>1, Basics, Grows
<1>3. destroyQueue' \in Seq(Entry)
  <2>1. destroyQueue \in Seq(Entry) /\ <<s, u>> \in Entry
    BY Basics DEF PoolTypeOK, Entry, Owner
  <2>2. destroyQueue' = destroyQueue \/ destroyQueue' = Append(destroyQueue, <<s, u>>)
    BY DEF CloseOutcome, ClosePast, CloseDestroys, CloseThrows, CloseLists
  <2> DEFINE e == <<s, u>>
  <2> HIDE DEF e
  <2>3. QED
    BY ZenonT(40), <2>1, <2>2, AppendFacts DEF e
<1>4. free' \in Seq(Known) /\ (free' = free \/ (Len(free') = Len(free) + 1 /\ Len(free) <= PoolMax))
  <2>1. free \in Seq(Known)
    BY Basics DEF PoolTypeOK
  <2>2. free' = free \/ (free' = Append(free, s) /\ Len(free) <= PoolMax)
    BY DEF CloseOutcome, ClosePast, CloseDestroys, CloseThrows, CloseLists
  <2>3. QED
    BY <2>1, <2>2, AppendFacts
<1>5. /\ step' \in [User -> {"new", "getting", "open", "closing", "done"}]
      /\ \A w \in User : step'[w] = "open" => step[w] = "open"
  <2>1. \/ step' = step \/ step' = [step EXCEPT ![u] = "done"] \/ step' = [step EXCEPT ![u] = "closing"]
    BY DEF CloseOutcome, ClosePast, CloseDestroys, CloseThrows, CloseLists
  <2>2. QED
    BY <2>1, Basics DEF PoolTypeOK
<1>6. late' \subseteq Known /\ typeError' \in BOOLEAN
  BY Basics DEF CloseOutcome, ClosePast, CloseDestroys, CloseThrows, CloseLists, PoolTypeOK
<1>7. PoolTypeOK'
  BY <1>1, <1>2, <1>3, <1>4, <1>5, <1>6, Basics DEF PoolTypeOK
<1>8. FreeListOK'
  <2>1. FreeBound' = FreeBound /\ FreeBound >= PoolMax + 2
    BY Basics DEF FreeBound
  <2>2. \/ free' = free
        \/ Len(free') < FreeBound
    BY <1>4, <2>1, Basics
  <2>3. QED
    BY <1>1, <2>1, <2>2, Basics DEF FreeListOK
<1>9. QED
  BY <1>7, <1>8

\* A user closes the session: it is destroyed or goes to the free list.
LEMMA KeepsClose ==
  ASSUME P!PoolConstants, PoolInv, NEW u \in User, P!Close(u)
  PROVE  PoolInv'
<1>1. PICK s \in Known : s = holder[u]
  BY Basics DEF P!Close
<1>2. step[u] = "open" /\ CloseOutcome(u, s) /\ UNCHANGED <<holder, tables, pool, nclose, twice>>
  BY <1>1, CloseHasOutcome DEF P!Close
<1>3. PoolTypeOK' /\ FreeListOK'
  BY <1>1, <1>2, CloseKeepsBounds, Basics DEF PoolTypeOK
<1>4. ASSUME twice = {}
      PROVE  (FetchesOK /\ UsersOK /\ ListOK /\ QueueOK /\ PlacesOK /\ ~typeError)'
  <2>1. FetchesOK /\ UsersOK /\ ListOK /\ QueueOK /\ PlacesOK /\ ~typeError
    BY <1>4, Basics
  <2>2. sess[s].impl = "live" /\ sess[s].isOpen /\ sess[s].by = u /\ u # P!Prefetch /\ u \in Owner
    BY <1>1, <1>2, <2>1, Basics DEF UsersOK, Owner
  <2>3. /\ \A i \in 1..Len(free) : free[i] \in Known /\ free[i] # s
        /\ \A i \in 1..Len(destroyQueue) :
             /\ destroyQueue[i][1] # s
             /\ i > nclose => destroyQueue[i][2] \in User /\ destroyQueue[i][2] # u
        /\ \A w \in User : w # u /\ step[w] = "open" => holder[w] \in Known /\ holder[w] # s
        /\ \A t \in Known : sess[t].impl = "fetching" => t # s /\ sess[t].by # u
    <3>1. \A i \in 1..Len(free) : free[i] \in Known /\ free[i] # s
      BY <2>1, <2>2, Basics DEF ListOK
    <3>2. \A i \in 1..Len(destroyQueue) : destroyQueue[i][1] # s
      <4>1. s # 0
        BY Basics, EntryOf DEF PoolTypeOK, Known
      <4>2. QED
        BY <2>1, <2>2, <4>1, Basics DEF QueueOK
    <3>3. \A i \in 1..Len(destroyQueue) : i > nclose => destroyQueue[i][2] \in User /\ destroyQueue[i][2] # u
      BY <1>2, <2>1, Basics DEF QueueOK, Owner
    <3>4. \A w \in User : w # u /\ step[w] = "open" => holder[w] \in Known /\ holder[w] # s
      BY <2>1, <2>2, Basics DEF UsersOK
    <3>5. \A t \in Known : sess[t].impl = "fetching" => t # s /\ sess[t].by # u
      BY <1>2, <2>1, <2>2 DEF FetchesOK
    <3>6. QED
      BY <3>1, <3>2, <3>3, <3>4, <3>5
  <2>4. /\ step'[u] \in {"closing", "done"} /\ \A w \in User : w # u => step'[w] = step[w]
        /\ ~typeError'
    <3>0. ~CloseThrows(u, s)
      BY <2>2 DEF CloseThrows
    <3>1. \/ step' = [step EXCEPT ![u] = "done"] /\ UNCHANGED typeError
          \/ step' = [step EXCEPT ![u] = "closing"] /\ UNCHANGED typeError
      BY <1>2, <3>0 DEF CloseOutcome, ClosePast, CloseDestroys, CloseLists
    <3>2. QED
      BY <2>1, <3>1, Basics DEF PoolTypeOK
  <2>5. /\ sess' \in Seq(SessionRecord) /\ Known' = Known /\ sess'[s].impl # "fetching"
        /\ \A t \in Known : t # s => sess'[t] = sess[t]
    BY <1>1, <1>2, <2>2, CloseChanges
  <2>6. FetchesOK'
    <3>1. \A t \in Known : sess'[t].impl = "fetching" => sess[t].impl = "fetching" /\ sess'[t] = sess[t]
      BY <2>5
    <3>2. \A t \in Known : sess[t].impl = "fetching" /\ sess[t].by # P!Prefetch => step'[sess[t].by] = "getting"
      BY <2>1, <2>3, <2>4, Basics DEF FetchesOK, Owner
    <3>3. QED
      BY <2>1, <2>5, <3>1, <3>2 DEF FetchesOK, P!Prefetch
  <2>7. UsersOK'
    <3>1. \A w \in User : step'[w] = "open" => step[w] = "open" /\ holder'[w] = holder[w] /\ sess'[holder[w]] = sess[holder[w]]
      BY <1>2, <2>3, <2>4, <2>5
    <3>2. QED
      BY <2>1, <3>1 DEF UsersOK
  <2>8. \A t \in Known : t # s /\ Held(t) => Held(t)'
    BY <1>1, <1>2, <2>4 DEF Held
  <2>9. CASE ClosePast(u, s)
    <3>0. /\ pool = "gone" /\ s \in late'
          /\ step' = [step EXCEPT ![u] = "done"] /\ late' \in {late, late \cup {s}}
          /\ UNCHANGED <<free, sess, destroyQueue>>
      BY <2>2, <2>9 DEF ClosePast
    <3>1. ListOK' /\ QueueOK'
      BY SMTT(20), <1>2, <2>1, <2>3, <2>4, <3>0 DEF ListOK, QueueOK, P!Prefetch
    <3>2. PlacesOK'
      BY <1>2, <2>1, <2>5, <2>8, <3>0 DEF PlacesOK
    <3>3. QED
      BY <2>4, <2>6, <2>7, <3>1, <3>2
  <2>10. CASE CloseDestroys(u, s)
    <3>0. /\ sess' = [sess EXCEPT ![s].impl = "dropped"]
          /\ destroyQueue' = Append(destroyQueue, <<s, u>>)
          /\ step' = [step EXCEPT ![u] = "closing"]
          /\ UNCHANGED <<free, late>>
      BY <2>10 DEF CloseDestroys
    <3>1. sess'[s].impl = "dropped" /\ step'[u] = "closing"
      <4>1. "dropped" \in Impl
        BY DEF Impl
      <4>2. QED
        BY <3>0, <4>1, Basics, Turned DEF PoolTypeOK
    <3>2. PICK n : n = Len(destroyQueue) + 1
      OBVIOUS
    <3>3. /\ Len(destroyQueue') = n /\ n \in Nat /\ n > Len(destroyQueue)
          /\ \A i \in 1..Len(destroyQueue) : destroyQueue'[i] = destroyQueue[i] /\ i \in 1..n /\ i # n
          /\ \A i \in 1..n : i \in 1..Len(destroyQueue) \/ i = n
          /\ destroyQueue'[n] = <<s, u>> /\ destroyQueue'[n][1] = s /\ destroyQueue'[n][2] = u
      <4> DEFINE e == <<s, u>>
      <4>1. destroyQueue \in Seq(Entry) /\ e \in Entry /\ e[1] = s /\ e[2] = u
        BY <2>2, Basics DEF PoolTypeOK, Entry
      <4>2. destroyQueue' = Append(destroyQueue, e)
        BY <3>0
      <4> HIDE DEF e
      <4>3. /\ Len(destroyQueue') = n /\ n \in Nat /\ n > Len(destroyQueue) /\ destroyQueue'[n] = e
            /\ \A i \in 1..Len(destroyQueue) : destroyQueue'[i] = destroyQueue[i]
        BY ONLY <3>2, <4>1, <4>2, AppendFacts
      <4>4. \A i \in 1..Len(destroyQueue) : i \in 1..n /\ i # n
        BY ONLY <3>2, <4>3, Len(destroyQueue) \in Nat, Basics
      <4>5. \A i \in 1..n : i \in 1..Len(destroyQueue) \/ i = n
        BY ONLY <3>2, <4>3, Len(destroyQueue) \in Nat, Basics
      <4>6. QED
        BY <4>1, <4>3, <4>4, <4>5 DEF e
    <3>4. ListOK'
      BY <2>1, <2>3, <2>5, <3>0 DEF ListOK
    <3>5. QueueOK'
      <4>1. nclose' \in 0..Len(destroyQueue') /\ (pool' = "closing" <=> nclose' > 0) /\ n > nclose /\ nclose' = nclose
        BY <1>2, <2>1, <3>3 DEF QueueOK
      <4>2. ASSUME NEW i \in 1..Len(destroyQueue)
            PROVE  /\ destroyQueue'[i][1] # 0 => sess'[destroyQueue'[i][1]].impl \in {"dropped", "gone"}
                   /\ destroyQueue'[i][2] = P!Prefetch <=> i <= nclose'
                   /\ i > nclose' => /\ step'[destroyQueue'[i][2]] = "closing"
                                     /\ holder'[destroyQueue'[i][2]] = destroyQueue'[i][1]
                                     /\ destroyQueue'[i][1] # 0
                                     /\ \A j \in 1..Len(destroyQueue) :
                                          destroyQueue'[j][2] = destroyQueue'[i][2] => i = j
        <5>1. destroyQueue'[i] = destroyQueue[i] /\ destroyQueue[i][1] # s
          BY <2>3, <3>3
        <5>2. destroyQueue[i][1] # 0 => sess'[destroyQueue[i][1]].impl \in {"dropped", "gone"}
          BY <2>1, <2>3, <2>5, Basics DEF QueueOK
        <5>3. destroyQueue[i][2] = P!Prefetch <=> i <= nclose'
          BY <2>1, <4>1 DEF QueueOK
        <5>4. i > nclose' => /\ step'[destroyQueue[i][2]] = "closing"
                             /\ holder'[destroyQueue[i][2]] = destroyQueue[i][1]
                             /\ destroyQueue[i][1] # 0
          BY <1>2, <2>1, <2>3, <2>4, <4>1 DEF QueueOK
        <5>5. i > nclose' => \A j \in 1..Len(destroyQueue) : destroyQueue'[j][2] = destroyQueue[i][2] => i = j
          BY <2>1, <3>3, <4>1 DEF QueueOK
        <5>6. QED
          BY <5>1, <5>2, <5>3, <5>4, <5>5
      <4>3. \A i \in 1..Len(destroyQueue) : destroyQueue'[i][2] # u
        BY <2>1, <2>2, <2>3, <3>3, <4>1, Basics DEF QueueOK
      <4>4. \A i \in 1..Len(destroyQueue') : i # n => i \in 1..Len(destroyQueue)
        BY <3>3
      <4>5. /\ destroyQueue'[n][1] # 0 => sess'[destroyQueue'[n][1]].impl \in {"dropped", "gone"}
            /\ destroyQueue'[n][2] = P!Prefetch <=> n <= nclose'
            /\ step'[destroyQueue'[n][2]] = "closing" /\ destroyQueue'[n][1] # 0
            /\ holder'[destroyQueue'[n][2]] = destroyQueue'[n][1]
        <5>1. s # 0
          BY Basics, EntryOf DEF PoolTypeOK, Known
        <5>2. QED
          BY <1>1, <1>2, <2>2, <3>1, <3>3, <4>1, <5>1
      <4>6. \A i \in 1..Len(destroyQueue') : i > nclose' =>
              \A j \in 1..Len(destroyQueue') : destroyQueue'[j][2] = destroyQueue'[i][2] => i = j
        BY <3>3, <4>2, <4>3, <4>4
      <4>7. ASSUME NEW i \in 1..Len(destroyQueue')
            PROVE  /\ destroyQueue'[i][1] # 0 => sess'[destroyQueue'[i][1]].impl \in {"dropped", "gone"}
                   /\ destroyQueue'[i][2] = P!Prefetch <=> i <= nclose'
                   /\ i > nclose' => /\ step'[destroyQueue'[i][2]] = "closing"
                                     /\ holder'[destroyQueue'[i][2]] = destroyQueue'[i][1]
                                     /\ destroyQueue'[i][1] # 0
        BY <4>2, <4>4, <4>5
      <4>8. QED
        BY <4>1, <4>6, <4>7 DEF QueueOK, P!Prefetch
    <3>6. PlacesOK'
      <4>1. Held(s)'
        BY <1>1, <1>2, <3>1 DEF Held
      <4>2. \A t \in Known : (\E i \in 1..nclose : destroyQueue[i][1] = t)
                              => \E i \in 1..nclose' : destroyQueue'[i][1] = t
        BY <1>2, <2>1, <3>3, Basics DEF QueueOK
      <4>3. ASSUME NEW t \in Known, t # s
            PROVE  \/ sess'[t].impl \in {"fetching", "failed", "gone"}
                   \/ t \in late'
                   \/ Held(t)'
                   \/ pool' = "open" /\ \E i \in 1..Len(free') : free'[i] = t
                   \/ \E i \in 1..nclose' : destroyQueue'[i][1] = t
        <5>1. \/ sess[t].impl \in {"fetching", "failed", "gone"}
              \/ t \in late
              \/ Held(t)
              \/ pool = "open" /\ \E i \in 1..Len(free) : free[i] = t
              \/ \E i \in 1..nclose : destroyQueue[i][1] = t
          BY <2>1 DEF PlacesOK
        <5>2. free' = free /\ late' = late /\ pool' = pool /\ sess'[t] = sess[t]
          BY <1>2, <2>5, <3>0, <4>3
        <5>3. QED
          BY <5>1, <5>2, <2>8, <4>2, <4>3
      <4>4. QED
        BY <2>5, <4>1, <4>3 DEF PlacesOK
    <3>7. QED
      BY <2>4, <2>6, <2>7, <3>4, <3>5, <3>6
  <2>11. CASE CloseLists(u, s)
    <3>0. /\ sess' = [sess EXCEPT ![s].isOpen = FALSE]
          /\ free' = Append(free, s)
          /\ step' = [step EXCEPT ![u] = "done"]
          /\ pool # "open" => s \in late'
          /\ late' \in {late, late \cup {s}}
          /\ UNCHANGED destroyQueue
      BY <2>11 DEF CloseLists
    <3>1. sess'[s].impl = "live" /\ ~sess'[s].isOpen
      BY <2>2, <3>0, Basics, Returned
    <3>2. PICK n : n = Len(free) + 1
      OBVIOUS
    <3>3. /\ Len(free') = n /\ n \in Nat /\ n \in 1..n /\ free'[n] = s
          /\ \A i \in 1..Len(free) : free'[i] = free[i] /\ i \in 1..n /\ i # n
          /\ \A i \in 1..n : i \in 1..Len(free) \/ i = n
      <4>1. free \in Seq(Known) /\ Len(free) \in Nat
        BY Basics DEF PoolTypeOK
      <4>2. /\ Len(free') = n /\ free'[n] = s /\ \A i \in 1..Len(free) : free'[i] = free[i]
        BY ONLY <3>0, <3>2, <4>1, AppendFacts
      <4>3. QED
        BY ONLY <3>2, <4>1, <4>2
    <3>4. ListOK'
      <4>1. \A i \in 1..Len(free') : sess'[free'[i]].impl = "live" /\ ~sess'[free'[i]].isOpen
        BY <2>1, <2>3, <2>5, <3>1, <3>3 DEF ListOK
      <4>2. \A i, j \in 1..Len(free') : free'[i] = free'[j] => i = j
        BY <2>1, <2>3, <3>3 DEF ListOK
      <4>3. QED
        BY <4>1, <4>2 DEF ListOK
    <3>5. QueueOK'
      <4>1. \A i \in 1..Len(destroyQueue) :
              destroyQueue[i][1] # 0 => sess'[destroyQueue[i][1]].impl \in {"dropped", "gone"}
        BY <2>1, <2>3, <2>5, Basics DEF QueueOK
      <4>2. QED
        BY <1>2, <2>1, <2>3, <2>4, <3>0, <4>1 DEF QueueOK, P!Prefetch
    <3>6. PlacesOK'
      <4>1. s \in late' \/ (pool' = "open" /\ \E i \in 1..Len(free') : free'[i] = s)
        BY <1>2, <3>0, <3>3
      <4>2. \A t \in Known : (\E i \in 1..Len(free) : free[i] = t) => \E i \in 1..Len(free') : free'[i] = t
        BY <3>3
      <4>3. QED
        BY <1>2, <2>1, <2>5, <2>8, <3>0, <4>1, <4>2 DEF PlacesOK
    <3>7. QED
      BY <2>4, <2>6, <2>7, <3>4, <3>5, <3>6
  <2>12. ~CloseThrows(u, s)
    BY <2>2 DEF CloseThrows
  <2>13. QED
    BY <1>2, <2>9, <2>10, <2>11, <2>12 DEF CloseOutcome
<1>5. QED
  BY <1>2, <1>3, <1>4 DEF PoolInv

\* A user closes the session again: from then on only types and bounds are claimed.
LEMMA KeepsCloseAgain ==
  ASSUME P!PoolConstants, PoolInv, NEW u \in User, P!CloseAgain(u)
  PROVE  PoolInv'
<1>1. PICK s \in Known : s = holder[u]
  BY Basics DEF P!CloseAgain, PoolTypeOK
<1>2. CloseOutcome(u, s) /\ UNCHANGED <<holder, tables, pool, nclose>> /\ twice' = twice \cup {u}
  BY <1>1, CloseHasOutcome DEF P!CloseAgain
<1>3. PoolTypeOK' /\ FreeListOK'
  BY <1>1, <1>2, CloseKeepsBounds, Basics DEF PoolTypeOK
<1>4. QED
  BY <1>2, <1>3 DEF PoolInv

-----------------------------------------------------------------------------
(* Closing the pool.                                                       *)

\* What close() queues, and what it does to the sessions of the free list.
OfTables == [i \in 1..tables |-> <<0, P!Prefetch>>]
OfList == [i \in 1..Len(free) |-> <<free[Len(free) + 1 - i], P!Prefetch>>]
Dropping(s) ==
  IF \E i \in 1..Len(free) : free[i] = s THEN [sess[s] EXCEPT !.impl = "dropped"] ELSE sess[s]

\* The sessions after that.
LEMMA DroppingFacts ==
  ASSUME PoolTypeOK, sess' = [s \in 1..Len(sess) |-> Dropping(s)]
  PROVE  /\ sess' \in Seq(SessionRecord) /\ Known' = Known
         /\ \A s \in Known : /\ sess'[s].isOpen = sess[s].isOpen /\ sess'[s].by = sess[s].by
                             /\ (\E i \in 1..Len(free) : free[i] = s) => sess'[s].impl = "dropped"
                             /\ (~\E i \in 1..Len(free) : free[i] = s) => sess'[s].impl = sess[s].impl
<1>1. Known = 1..Len(sess) /\ Len(sess) \in Nat /\ \A s \in Known : sess[s] \in SessionRecord
  BY EntryOf DEF PoolTypeOK, Known
<1>2. \A s \in Known : /\ Dropping(s) \in SessionRecord
                       /\ Dropping(s).isOpen = sess[s].isOpen /\ Dropping(s).by = sess[s].by
                       /\ (\E i \in 1..Len(free) : free[i] = s) => Dropping(s).impl = "dropped"
                       /\ (~\E i \in 1..Len(free) : free[i] = s) => Dropping(s).impl = sess[s].impl
  BY <1>1 DEF Dropping, SessionRecord, Impl
<1>3. sess' \in [1..Len(sess) -> SessionRecord] /\ \A s \in Known : sess'[s] = Dropping(s)
  BY <1>1, <1>2
<1>4. sess' \in Seq(SessionRecord) /\ DOMAIN sess' = Known
  BY <1>1, <1>3, SeqDef
<1>5. QED
  BY <1>2, <1>3, <1>4 DEF Known

\* The queue after that.
LEMMA ClosingQueue ==
  ASSUME PoolTypeOK, destroyQueue' = destroyQueue \o OfTables \o OfList
  PROVE  /\ destroyQueue' \in Seq(Entry)
         /\ destroyQueue = <<>> =>
              /\ Len(destroyQueue') = Len(free) + tables
              /\ \A i \in 1..Len(destroyQueue') :
                   /\ destroyQueue'[i][2] = P!Prefetch
                   /\ destroyQueue'[i][1] # 0 => \E j \in 1..Len(free) : free[j] = destroyQueue'[i][1]
              /\ \A j \in 1..Len(free) :
                   \E i \in 1..Len(free) + tables : destroyQueue'[i][1] = free[j]
<1>1. /\ tables \in Nat /\ Len(free) \in Nat /\ \A i \in 1..Len(free) : free[i] \in Known
      /\ destroyQueue \in Seq(Entry)
  BY EntryOf DEF PoolTypeOK
<1>2. /\ <<0, P!Prefetch>> \in Entry
      /\ \A i \in 1..Len(free) : Len(free) + 1 - i \in 1..Len(free)
      /\ \A i \in 1..Len(free) : <<free[i], P!Prefetch>> \in Entry
  BY <1>1 DEF Entry, Owner
<1>3. /\ OfTables \in Seq(Entry) /\ Len(OfTables) = tables
      /\ \A i \in 1..tables : OfTables[i][1] = 0 /\ OfTables[i][2] = P!Prefetch
  <2>1. OfTables \in [1..tables -> Entry]
    BY <1>2 DEF OfTables
  <2>2. OfTables \in Seq(Entry)
    BY ONLY <1>1, <2>1, FunctionIsSeq
  <2>3. DOMAIN OfTables = 1..tables /\ DOMAIN OfTables = 1..Len(OfTables) /\ Len(OfTables) \in Nat
    BY <2>2, EntryOf DEF OfTables
  <2>4. Len(OfTables) = tables
    BY <1>1, <2>3
  <2>5. QED
    BY <2>2, <2>4 DEF OfTables
<1>4. /\ OfList \in Seq(Entry) /\ Len(OfList) = Len(free)
      /\ \A i \in 1..Len(free) : OfList[i][1] = free[Len(free) + 1 - i] /\ OfList[i][2] = P!Prefetch
  <2>1. OfList \in [1..Len(free) -> Entry]
    BY <1>2 DEF OfList
  <2>2. OfList \in Seq(Entry)
    BY ONLY <1>1, <2>1, FunctionIsSeq
  <2>3. DOMAIN OfList = 1..Len(free) /\ DOMAIN OfList = 1..Len(OfList) /\ Len(OfList) \in Nat
    BY <2>2, EntryOf DEF OfList
  <2>4. Len(OfList) = Len(free)
    BY <1>1, <2>3
  <2>5. QED
    BY <2>2, <2>4 DEF OfList
<1> DEFINE two == OfTables \o OfList
<1>5. destroyQueue' = destroyQueue \o OfTables \o OfList /\ destroyQueue' \in Seq(Entry)
  BY <1>1, <1>3, <1>4, ConcatProperties
<1>6. ASSUME destroyQueue = <<>>
      PROVE  destroyQueue' = two
  BY <1>3, <1>5, <1>6, ConcatEmptySeq
<1>7. /\ two \in Seq(Entry) /\ Len(two) = tables + Len(free)
      /\ \A i \in 1..tables + Len(free) :
           two[i] = IF i <= tables THEN OfTables[i] ELSE OfList[i - tables]
  BY <1>3, <1>4, ConcatProperties
<1> HIDE DEF two
<1>8. ASSUME NEW i \in 1..tables + Len(free)
      PROVE  /\ two[i][2] = P!Prefetch
             /\ two[i][1] # 0 => \E j \in 1..Len(free) : free[j] = two[i][1]
  <2>1. CASE i <= tables
    <3>1. i \in 1..tables /\ two[i] = OfTables[i]
      BY <1>1, <1>7, <2>1
    <3>2. QED
      BY <1>3, <3>1
  <2>2. CASE ~(i <= tables)
    <3>1. i - tables \in 1..Len(free) /\ two[i] = OfList[i - tables]
      BY <1>1, <1>7, <2>2
    <3>2. Len(free) + 1 - (i - tables) \in 1..Len(free)
      BY <1>2, <3>1
    <3>3. QED
      BY <1>4, <3>1, <3>2
  <2>3. QED
    BY <2>1, <2>2
<1>9. ASSUME NEW j \in 1..Len(free)
      PROVE  \E i \in 1..Len(free) + tables : two[i][1] = free[j]
  <2>1. PICK k : k = Len(free) + 1 - j
    OBVIOUS
  <2>2. k \in 1..Len(free) /\ Len(free) + 1 - k = j
    BY <1>1, <2>1
  <2>3. /\ tables + k \in 1..Len(free) + tables /\ tables + k \in 1..tables + Len(free)
        /\ ~(tables + k <= tables) /\ (tables + k) - tables = k
    BY <1>1, <2>2
  <2>4. two[tables + k] = OfList[k]
    BY <1>7, <2>3
  <2>5. OfList[k][1] = free[j]
    BY <1>4, <2>2
  <2>6. QED
    BY <2>3, <2>4, <2>5
<1>10. tables + Len(free) = Len(free) + tables
  BY <1>1
<1>11. QED
  BY <1>5, <1>6, <1>7, <1>8, <1>9, <1>10

\* close() takes what is on the free list and waits for all of it; as no user has a
\* session, execQueue is empty then.
LEMMA KeepsClosePool ==
  ASSUME P!PoolConstants, PoolInv, P!ClosePool
  PROVE  PoolInv'
<1>1. /\ pool = "open" /\ \A u \in User : step[u] \in {"new", "getting", "done"}
      /\ nclose' = Len(free) + tables
      /\ pool' = IF Len(free) + tables = 0 THEN "lingering" ELSE "closing"
      /\ free' = <<>> /\ tables' = 0
      /\ UNCHANGED <<holder, step, typeError, late, twice>>
  BY DEF P!ClosePool, P!ToClose, P!Released
<1>2. /\ destroyQueue' = destroyQueue \o OfTables \o OfList
      /\ sess' = [s \in 1..Len(sess) |-> Dropping(s)]
  BY DEF P!ClosePool, OfTables, OfList, Dropping, P!Made
<1>3. /\ sess' \in Seq(SessionRecord) /\ Known' = Known
      /\ \A s \in Known : /\ sess'[s].isOpen = sess[s].isOpen /\ sess'[s].by = sess[s].by
                          /\ (\E i \in 1..Len(free) : free[i] = s) => sess'[s].impl = "dropped"
                          /\ (~\E i \in 1..Len(free) : free[i] = s) => sess'[s].impl = sess[s].impl
  BY <1>2, Basics, DroppingFacts
<1>4. tables \in Nat /\ Len(free) \in Nat /\ Len(free) + tables \in Nat /\ Len(free') = 0
  BY <1>1, Basics DEF PoolTypeOK
<1>5. PoolTypeOK'
  <2>1. Entry' = Entry /\ SessionRecord' = SessionRecord
    BY <1>3, Basics, Grows
  <2>2. free' \in Seq(Known) /\ destroyQueue' \in Seq(Entry)
    BY <1>1, <1>2, Basics, ClosingQueue
  <2>3. QED
    BY <1>1, <1>3, <1>4, <2>1, <2>2, Basics DEF PoolTypeOK
<1>6. FreeListOK'
  <2>1. \A t \in Known : Prefetching(t)' => Prefetching(t)
    BY <1>3 DEF Prefetching, P!Prefetch
  <2>2. FreeBound' = FreeBound /\ FreeBound > 0
    BY Basics DEF FreeBound
  <2>3. QED
    BY <1>3, <1>4, <2>1, <2>2, Basics DEF FreeListOK
<1>7. ASSUME twice = {}
      PROVE  (FetchesOK /\ UsersOK /\ ListOK /\ QueueOK /\ PlacesOK /\ ~typeError)'
  <2>1. FetchesOK /\ UsersOK /\ ListOK /\ QueueOK /\ PlacesOK /\ ~typeError
    BY <1>7, Basics
  <2>2. nclose = 0 /\ Len(destroyQueue) = 0 /\ destroyQueue = <<>>
    <3>1. nclose = 0
      BY <1>1, <2>1 DEF QueueOK
    <3>2. ASSUME NEW i \in 1..Len(destroyQueue)
          PROVE  FALSE
      <4>1. i > nclose
        BY <3>1
      <4>2. destroyQueue[i][2] \in User /\ step[destroyQueue[i][2]] = "closing"
        BY <2>1, <4>1, Basics DEF QueueOK, Owner
      <4>3. QED
        BY <1>1, <4>2
    <3>3. Len(destroyQueue) = 0
      BY <3>2, Basics
    <3>4. QED
      BY <3>1, <3>3, Basics DEF PoolTypeOK
  <2>3. /\ Len(destroyQueue') = Len(free) + tables
        /\ \A i \in 1..Len(destroyQueue') :
             /\ destroyQueue'[i][2] = P!Prefetch
             /\ destroyQueue'[i][1] # 0 => \E j \in 1..Len(free) : free[j] = destroyQueue'[i][1]
        /\ \A j \in 1..Len(free) : \E i \in 1..Len(free) + tables : destroyQueue'[i][1] = free[j]
    BY <1>2, <2>2, Basics, ClosingQueue
  <2>4. FetchesOK'
    <3>1. \A t \in Known : sess'[t].impl = "fetching" => sess[t].impl = "fetching"
      BY <1>3
    <3>2. QED
      BY <1>1, <1>3, <2>1, <3>1 DEF FetchesOK, P!Prefetch
  <2>5. UsersOK' /\ ListOK'
    BY <1>1, <1>4 DEF UsersOK, ListOK
  <2>6. QueueOK'
    <3>1. \A i \in 1..Len(destroyQueue') :
            destroyQueue'[i][1] # 0 => sess'[destroyQueue'[i][1]].impl = "dropped"
      BY <1>3, <2>3, Basics
    <3>2. nclose' \in 0..Len(destroyQueue') /\ (pool' = "closing" <=> nclose' > 0)
      BY <1>1, <1>4, <2>3
    <3>3. \A i \in 1..Len(destroyQueue') : i <= nclose' /\ ~(i > nclose')
      BY <1>1, <1>4, <2>3
    <3>4. QED
      BY <2>3, <3>1, <3>2, <3>3 DEF QueueOK, P!Prefetch
  <2>7. PlacesOK'
    <3>1. ASSUME NEW t \in Known
          PROVE  \/ sess[t].impl \in {"fetching", "failed", "gone"} /\ ~\E i \in 1..Len(free) : free[i] = t
                 \/ t \in late
                 \/ \E i \in 1..Len(free) : free[i] = t
      <4>1. ~Held(t)
        BY <1>1 DEF Held
      <4>2. ~\E i \in 1..nclose : destroyQueue[i][1] = t
        BY <2>2
      <4>3. QED
        BY <2>1, <4>1, <4>2 DEF PlacesOK
    <3>2. \A t \in Known : (\E i \in 1..Len(free) : free[i] = t) => \E i \in 1..nclose' : destroyQueue'[i][1] = t
      BY <1>1, <2>3
    <3>3. QED
      BY <1>1, <1>3, <3>1, <3>2 DEF PlacesOK
  <2>8. QED
    BY <1>1, <2>1, <2>4, <2>5, <2>6, <2>7
<1>8. QED
  BY <1>1, <1>5, <1>6, <1>7 DEF PoolInv

\* The native call at the head of the queue has ended.
LEMMA KeepsDestroyed ==
  ASSUME P!PoolConstants, PoolInv, P!Destroyed
  PROVE  PoolInv'
<1>1. /\ destroyQueue \in Seq(Entry) /\ destroyQueue # <<>>
      /\ destroyQueue' = Tail(destroyQueue)
      /\ UNCHANGED <<free, holder, tables, typeError, late, twice>>
  BY Basics DEF P!Destroyed, PoolTypeOK
<1>2. PICK s, u : s = destroyQueue[1][1] /\ u = destroyQueue[1][2]
  OBVIOUS
<1>3. /\ Len(destroyQueue) \in Nat /\ 1 \in 1..Len(destroyQueue)
      /\ Len(destroyQueue') = Len(destroyQueue) - 1 /\ destroyQueue' \in Seq(Entry)
      /\ \A i \in 1..Len(destroyQueue') : destroyQueue'[i] = destroyQueue[i + 1] /\ i + 1 \in 1..Len(destroyQueue)
      /\ Head(destroyQueue) = destroyQueue[1]
  BY ONLY <1>1, TailFacts
<1>4. /\ s \in {0} \cup Known /\ u \in Owner /\ 0 \notin Known
      /\ sess' = IF s = 0 THEN sess ELSE [sess EXCEPT ![s].impl = "gone"]
      /\ IF u = P!Prefetch
         THEN /\ nclose' = nclose - 1
              /\ pool' = IF pool = "closing" THEN P!Released(nclose - 1) ELSE pool
              /\ UNCHANGED step
         ELSE /\ step' = [step EXCEPT ![u] = "done"]
              /\ UNCHANGED <<nclose, pool>>
  <2>1. s \in {0} \cup Known /\ u \in Owner
    BY <1>2, <1>3, Basics
  <2>2. 0 \notin Known
    BY Basics, EntryOf DEF PoolTypeOK, Known
  <2>3. QED
    BY <1>2, <1>3, <2>1, <2>2 DEF P!Destroyed
<1>5. /\ sess' \in Seq(SessionRecord) /\ Known' = Known
      /\ \A t \in Known : t # s => sess'[t] = sess[t]
      /\ s # 0 => sess'[s].impl = "gone"
  <2>1. CASE s = 0
    BY <1>4, <2>1, Basics DEF PoolTypeOK, Known
  <2>2. CASE s # 0
    <3>1. s \in Known /\ "gone" \in Impl /\ sess' = [sess EXCEPT ![s].impl = "gone"]
      BY <1>4, <2>2 DEF Impl
    <3>2. QED
      BY ONLY <3>1, <2>2, Basics, Turned, P!PoolConstants, PoolInv DEF Only
  <2>3. QED
    BY <2>1, <2>2
<1>6. PoolTypeOK'
  <2>1. Entry' = Entry /\ SessionRecord' = SessionRecord
    BY <1>5, Basics, Grows
  <2>2. /\ step' \in [User -> {"new", "getting", "open", "closing", "done"}]
        /\ nclose' \in Int /\ pool' \in {"open", "closing", "lingering", "disconnecting", "gone"}
        /\ \A w \in User : step'[w] = "open" => step[w] = "open"
    <3>1. /\ step \in [User -> {"new", "getting", "open", "closing", "done"}] /\ nclose \in Int
          /\ pool \in {"open", "closing", "lingering", "disconnecting", "gone"}
      BY Basics DEF PoolTypeOK
    <3>2. CASE u = P!Prefetch
      BY ONLY <1>4, <3>1, <3>2 DEF P!Released
    <3>3. CASE u # P!Prefetch
      BY ONLY <1>4, <3>1, <3>3
    <3>4. QED
      BY <3>2, <3>3
  <2>3. QED
    BY <1>1, <1>3, <1>5, <2>1, <2>2, Basics DEF PoolTypeOK
<1>7. FreeListOK'
  <2>1. \A t \in Known : Prefetching(t)' => Prefetching(t)
    BY <1>4, <1>5 DEF Prefetching, P!Prefetch
  <2>2. FreeBound' = FreeBound
    BY DEF FreeBound
  <2>3. QED
    BY <1>1, <1>5, <2>1, <2>2, Basics DEF FreeListOK
<1>8. ASSUME twice = {}
      PROVE  (FetchesOK /\ UsersOK /\ ListOK /\ QueueOK /\ PlacesOK /\ ~typeError)'
  <2>1. FetchesOK /\ UsersOK /\ ListOK /\ QueueOK /\ PlacesOK /\ ~typeError
    BY <1>8, Basics
  <2>2. s # 0 => sess[s].impl \in {"dropped", "gone"}
    BY <1>2, <1>3, <2>1 DEF QueueOK
  <2>3. /\ nclose \in 0..Len(destroyQueue) /\ (pool = "closing" <=> nclose > 0)
        /\ u = P!Prefetch <=> nclose > 0
    BY <1>2, <1>3, <2>1 DEF QueueOK
  <2>4. \/ /\ u = P!Prefetch /\ nclose > 0 /\ nclose' = nclose - 1
           /\ pool' = P!Released(nclose - 1) /\ step' = step
        \/ /\ u \in User /\ nclose = 0 /\ nclose' = 0 /\ pool' = pool
           /\ step[u] = "closing" /\ holder[u] = s /\ step' = [step EXCEPT ![u] = "done"]
           /\ \A j \in 1..Len(destroyQueue) : destroyQueue[j][2] = u => j = 1
    <3>1. CASE u = P!Prefetch
      BY <1>4, <2>3, <3>1
    <3>2. CASE u # P!Prefetch
      <4>1. u \in User /\ nclose = 0 /\ 1 > nclose
        BY <1>4, <2>3, <3>2 DEF Owner
      <4>2. /\ step[u] = "closing" /\ holder[u] = s
            /\ \A j \in 1..Len(destroyQueue) : destroyQueue[j][2] = u => 1 = j
        BY <1>2, <1>3, <2>1, <4>1 DEF QueueOK
      <4>3. QED
        BY <1>4, <3>2, <4>1, <4>2
    <3>3. QED
      BY <3>1, <3>2
  <2>5. /\ \A w \in User : step'[w] = "open" => step[w] = "open"
        /\ \A w \in User : w # u => step'[w] = step[w]
        /\ \A w \in User : step[w] # "closing" => step'[w] = step[w]
    BY <2>4, Basics DEF PoolTypeOK
  <2>6. \A t \in Known : sess[t].impl \notin {"dropped", "gone"} => t # s /\ sess'[t] = sess[t]
    BY <1>4, <1>5, <2>2
  <2>7. FetchesOK'
    <3>1. \A t \in Known : sess'[t].impl = "fetching" => sess[t].impl = "fetching" /\ sess'[t] = sess[t]
      BY <1>4, <1>5
    <3>2. \A t \in Known : sess[t].impl = "fetching" /\ sess[t].by # P!Prefetch => step'[sess[t].by] = "getting"
      BY <2>1, <2>5, Basics DEF FetchesOK, Owner
    <3>3. QED
      BY <2>1, <1>5, <3>1, <3>2 DEF FetchesOK, P!Prefetch
  <2>8. UsersOK' /\ ListOK'
    <3>1. \A w \in User : step'[w] = "open" => step[w] = "open" /\ sess'[holder[w]] = sess[holder[w]]
      BY <2>1, <2>5, <2>6, Basics DEF UsersOK
    <3>2. \A i \in 1..Len(free) : sess'[free[i]] = sess[free[i]]
      BY <2>1, <2>6, Basics DEF ListOK
    <3>3. QED
      BY <1>1, <2>1, <3>1, <3>2 DEF UsersOK, ListOK
  <2>9. QueueOK'
    <3>1. nclose' \in 0..Len(destroyQueue') /\ (pool' = "closing" <=> nclose' > 0)
      BY <1>3, <2>3, <2>4 DEF P!Released
    <3>2. ASSUME NEW i \in 1..Len(destroyQueue')
          PROVE  /\ destroyQueue'[i][1] # 0 => sess'[destroyQueue'[i][1]].impl \in {"dropped", "gone"}
                 /\ destroyQueue'[i][2] = P!Prefetch <=> i <= nclose'
                 /\ i > nclose' => /\ step'[destroyQueue'[i][2]] = "closing"
                                   /\ holder'[destroyQueue'[i][2]] = destroyQueue'[i][1]
                                   /\ destroyQueue'[i][1] # 0
                                   /\ \A j \in 1..Len(destroyQueue') :
                                        destroyQueue'[j][2] = destroyQueue'[i][2] => i = j
      <4>1. PICK k \in 1..Len(destroyQueue) : k = i + 1 /\ k # 1 /\ destroyQueue'[i] = destroyQueue[k]
        BY <1>3
      <4>2. destroyQueue[k][1] # 0 => sess'[destroyQueue[k][1]].impl \in {"dropped", "gone"}
        <5>1. destroyQueue[k][1] # 0 => destroyQueue[k][1] \in Known /\ sess[destroyQueue[k][1]].impl \in {"dropped", "gone"}
          BY <2>1, Basics DEF QueueOK
        <5>2. QED
          BY <1>5, <5>1
      <4>3. destroyQueue[k][2] = P!Prefetch <=> k <= nclose
        BY <2>1 DEF QueueOK
      <4>4. destroyQueue[k][2] = P!Prefetch <=> i <= nclose'
        BY <2>3, <2>4, <4>1, <4>3
      <4>5. i > nclose' => k > nclose
        BY <2>3, <2>4, <4>1
      <4>6. k > nclose => /\ step[destroyQueue[k][2]] = "closing"
                          /\ holder[destroyQueue[k][2]] = destroyQueue[k][1]
                          /\ destroyQueue[k][1] # 0
                          /\ destroyQueue[k][2] \in User
                          /\ \A j \in 1..Len(destroyQueue) : destroyQueue[j][2] = destroyQueue[k][2] => k = j
        BY <2>1, <4>3, Basics DEF QueueOK, Owner
      <4>7. k > nclose => step'[destroyQueue[k][2]] = "closing"
        <5>1. k > nclose => destroyQueue[k][2] # u
          BY <1>2, <1>3, <4>1, <4>6
        <5>2. QED
          BY <2>5, <4>6, <5>1
      <4>8. i > nclose' => \A j \in 1..Len(destroyQueue') : destroyQueue'[j][2] = destroyQueue'[i][2] => i = j
        <5>1. \A j \in 1..Len(destroyQueue') : destroyQueue'[j] = destroyQueue[j + 1] /\ j + 1 \in 1..Len(destroyQueue)
          BY <1>3
        <5>2. QED
          BY <4>1, <4>5, <4>6, <5>1
      <4>9. QED
        BY <1>1, <4>1, <4>2, <4>4, <4>5, <4>6, <4>7, <4>8
    <3>3. QED
      BY <3>1, <3>2 DEF QueueOK, P!Prefetch
  <2>10. PlacesOK'
    <3>1. ASSUME NEW t \in Known, t # s
          PROVE  \/ sess'[t].impl \in {"fetching", "failed", "gone"}
                 \/ t \in late'
                 \/ Held(t)'
                 \/ pool' = "open" /\ \E i \in 1..Len(free') : free'[i] = t
                 \/ \E i \in 1..nclose' : destroyQueue'[i][1] = t
      <4>1. \/ sess[t].impl \in {"fetching", "failed", "gone"}
            \/ t \in late
            \/ Held(t)
            \/ pool = "open" /\ \E i \in 1..Len(free) : free[i] = t
            \/ \E i \in 1..nclose : destroyQueue[i][1] = t
        BY <2>1 DEF PlacesOK
      <4>2. sess'[t] = sess[t]
        BY <1>5, <3>1
      <4>3. Held(t) => Held(t)'
        BY <1>1, <2>4, <2>5, <3>1 DEF Held
      <4>4. pool = "open" => pool' = "open"
        BY <2>3, <2>4
      <4>5. ASSUME NEW i \in 1..nclose, destroyQueue[i][1] = t
            PROVE  \E j \in 1..nclose' : destroyQueue'[j][1] = t
        <5>1. i # 1 /\ nclose > 0 /\ nclose' = nclose - 1
          BY <1>2, <2>3, <2>4, <3>1, <4>5
        <5>2. i - 1 \in 1..nclose' /\ i - 1 \in 1..Len(destroyQueue') /\ (i - 1) + 1 = i
          BY <1>3, <2>3, <5>1
        <5>3. destroyQueue'[i - 1] = destroyQueue[i]
          BY <1>3, <5>2
        <5>4. QED
          BY <4>5, <5>2, <5>3
      <4>6. QED
        BY <1>1, <4>1, <4>2, <4>3, <4>4, <4>5
    <3>2. \A t \in Known : t = s => sess'[t].impl = "gone"
      BY <1>4, <1>5
    <3>3. QED
      BY <1>5, <3>1, <3>2 DEF PlacesOK
  <2>11. QED
    BY <1>1, <2>1, <2>7, <2>8, <2>9, <2>10
<1>9. QED
  BY <1>1, <1>6, <1>7, <1>8 DEF PoolInv

-----------------------------------------------------------------------------
(* The theorems.                                                           *)

\* Any action of the pool keeps the invariant.
LEMMA KeepsNext ==
  ASSUME P!PoolConstants, PoolInv, P!Next
  PROVE  PoolInv'
<1>1. ~typeError /\ P!Made = Len(sess) /\ Known = 1..Len(sess)
  BY Basics, EntryOf DEF P!Next, P!System, P!Users, PoolTypeOK, Known, P!Made
<1>2. CASE P!System
  <2>1. CASE P!Destroyed
    BY <2>1, KeepsDestroyed
  <2>2. CASE P!Timer
    BY <2>2, Basics, KeepsTimer DEF P!Timer, PoolTypeOK
  <2>3. ASSUME NEW s \in 1..P!Made, NEW ok \in BOOLEAN, P!Prefetched(s, ok)
        PROVE  PoolInv'
    BY <1>1, <2>3, KeepsPrefetched
  <2>4. ASSUME NEW s \in 1..P!Made, NEW ok \in BOOLEAN, NEW u \in User, P!Fetched(u, s, ok)
        PROVE  PoolInv'
    BY <1>1, <2>4, KeepsFetched
  <2>5. QED
    BY <1>2, <2>1, <2>2, <2>3, <2>4 DEF P!System
<1>3. CASE P!Users
  <2>1. ASSUME NEW u \in User, P!GetDBSession(u) PROVE PoolInv'
    BY <1>1, <2>1, KeepsGet
  <2>2. ASSUME NEW u \in User, P!OpenTable(u) PROVE PoolInv'
    BY <2>2, Basics, KeepsTimer DEF P!OpenTable, PoolTypeOK
  <2>3. ASSUME NEW u \in User, P!Close(u) PROVE PoolInv'
    BY <2>3, KeepsClose
  <2>4. ASSUME NEW u \in User, P!CloseAgain(u) PROVE PoolInv'
    BY <2>4, KeepsCloseAgain
  <2>5. CASE P!ClosePool
    BY <2>5, KeepsClosePool
  <2>6. QED
    BY <1>3, <2>1, <2>2, <2>3, <2>4, <2>5 DEF P!Users
<1>4. QED
  BY <1>2, <1>3 DEF P!Next

\* The pool begins with the session that it prefetches.
LEMMA PoolBegins ==
  ASSUME P!PoolConstants, P!Init
  PROVE  PoolInv
<1>1. /\ free = <<>> /\ Len(free) = 0 /\ destroyQueue = <<>> /\ Len(destroyQueue) = 0
      /\ sess = <<P!New(1, P!Prefetch)>> /\ Known = {1} /\ Len(sess) = 1
      /\ sess[1] = P!New(1, P!Prefetch)
      /\ holder = [u \in User |-> None] /\ step = [u \in User |-> "new"]
      /\ tables = 0 /\ pool = "open" /\ nclose = 0 /\ typeError = FALSE /\ late = {} /\ twice = {}
  BY DEF P!Init, Known
<1>2. /\ sess[1] \in SessionRecord /\ sess[1].impl = "fetching" /\ ~sess[1].isOpen
      /\ sess[1].by = P!Prefetch
  BY <1>1 DEF P!New, SessionRecord, Impl, Owner
<1>3. PoolTypeOK
  <2>1. sess \in Seq(SessionRecord)
    BY <1>1, <1>2
  <2>2. free \in Seq(Known) /\ destroyQueue \in Seq(Entry)
    BY <1>1
  <2>3. /\ holder \in [User -> Known \cup {None}]
        /\ step \in [User -> {"new", "getting", "open", "closing", "done"}]
        /\ \A u \in User : step[u] # "open"
    BY ONLY <1>1
  <2>4. tables \in Nat /\ nclose \in Int /\ typeError \in BOOLEAN /\ late \subseteq Known /\ twice \subseteq User
    <3>1. tables = 0 /\ nclose = 0 /\ typeError = FALSE /\ late = {} /\ twice = {}
      BY <1>1
    <3>2. typeError \in BOOLEAN /\ late \subseteq Known /\ twice \subseteq User
      BY ONLY <3>1, Zenon
    <3>3. QED
      BY <3>1, <3>2
  <2>5. pool \in {"open", "closing", "lingering", "disconnecting", "gone"}
    BY ONLY <1>1
  <2>6. QED
    BY ONLY <2>1, <2>2, <2>3, <2>4, <2>5 DEF PoolTypeOK
<1>4. FreeListOK
  <2>1. FreeBound \in Nat /\ FreeBound > 0
    BY DEF FreeBound, P!PoolConstants
  <2>2. QED
    BY <1>1, <2>1 DEF FreeListOK
<1>5. FetchesOK /\ UsersOK /\ ListOK
  BY <1>1, <1>2 DEF FetchesOK, UsersOK, ListOK
<1>6. QueueOK /\ PlacesOK
  BY <1>1, <1>2 DEF QueueOK, PlacesOK
<1>7. QED
  BY <1>1, <1>3, <1>4, <1>5, <1>6 DEF PoolInv

\* Whatever is done with the pool and with other pools, its sessions are kept in order.
THEOREM PoolInvariance == ConnectionSpec => []PoolInv
<1>1. P!PoolConstants
  BY PoolAssumption
<1>2. ConnectionInit => PoolInv
  BY <1>1, PoolBegins DEF ConnectionInit
<1>3. PoolInv /\ [Connections \/ PoolSessions]_<<vars, poolVars>> => PoolInv'
  <2> SUFFICES ASSUME PoolInv, [Connections \/ PoolSessions]_<<vars, poolVars>>
               PROVE  PoolInv'
    OBVIOUS
  <2>1. CASE UNCHANGED poolVars
    BY <1>1, <2>1, Basics, KeepsTimer DEF poolVars, PoolTypeOK
  <2>2. CASE P!Next
    BY <1>1, <2>2, KeepsNext
  <2>3. QED
    BY <2>1, <2>2 DEF Connections, PoolSessions
<1>4. QED
  BY <1>2, <1>3, PTL DEF ConnectionSpec

\* The instance's own name of a cardinality.
LEMMA SameCardinality ==
  \A S : P!Cardinality(S) = Cardinality(S)
BY DEF P!Cardinality, Cardinality

\* As many sessions are listed as the list is long when none is on it twice.
LEMMA ListedOnce ==
  ASSUME PoolTypeOK, ListOK
  PROVE  Cardinality(P!Listed) = Len(free)
<1> DEFINE f == [i \in 1..Len(free) |-> free[i]]
<1>1. Len(free) \in Nat
  BY SessionFacts
<1>2. f \in Bijection(1..Len(free), P!Listed)
  <2>1. f \in [1..Len(free) -> P!Listed]
    BY DEF P!Listed
  <2>2. \A i, j \in 1..Len(free) : f[i] = f[j] => i = j
    BY DEF ListOK
  <2>3. \A t \in P!Listed : \E i \in 1..Len(free) : f[i] = t
    BY DEF P!Listed
  <2>4. QED
    BY <2>1, <2>2, <2>3 DEF Bijection, Injection, Surjection, IsInjective
<1>3. QED
  BY <1>1, <1>2, FS_CountingElements DEF ExistsBijection

\* A session of the pool has one place, with one user, on the free list or in the queue
\* of what is to be destroyed, and the free list never holds more than what its limits
\* allow with the session that is prefetched (getDBSession, closeNdbSession).
THEOREM OnePlace == ConnectionSpec => []SessionsHaveTheirPlace
<1>1. PoolInv => SessionsHaveTheirPlace
  <2> SUFFICES ASSUME PoolInv PROVE SessionsHaveTheirPlace
    OBVIOUS
  <2>0. P!PoolConstants /\ PoolTypeOK /\ FreeListOK /\ P!Made = Len(sess) /\ Known = 1..Len(sess)
    BY PoolAssumption, Basics, EntryOf DEF PoolTypeOK, Known, P!Made
  <2> DEFINE Fetching == {s \in 1..P!Made : sess[s].by = P!Prefetch /\ sess[s].impl = "fetching"}
  <2>1. /\ IsFiniteSet(Fetching) /\ Cardinality(Fetching) \in {0, 1}
        /\ Cardinality(Fetching) = 1 => \E s \in Known : Prefetching(s)
    <3>1. \A s, t \in Fetching : s = t
      BY <2>0 DEF FreeListOK, Prefetching
    <3>2. CASE Fetching = {}
      BY <3>2, FS_EmptySet
    <3>3. CASE Fetching # {}
      <4>1. PICK s \in Fetching : TRUE
        BY <3>3
      <4>2. Fetching = {s}
        BY <3>1, <4>1
      <4>3. IsFiniteSet(Fetching) /\ Cardinality(Fetching) = 1
        BY <4>2, FS_Singleton
      <4>4. Prefetching(s) /\ s \in Known
        BY <2>0, <4>1 DEF Prefetching
      <4>5. QED
        BY <4>3, <4>4
    <3>4. QED
      BY <3>2, <3>3
  <2>2. P!FreeListIsBounded
    <3> DEFINE more == Cardinality(Fetching)
    <3>1. more \in {0, 1} /\ (more = 1 => Len(free) < FreeBound) /\ Len(free) <= FreeBound
      BY <2>0, <2>1 DEF FreeListOK
    <3>2. Len(free) + more <= FreeBound
      BY <2>0, <3>1, Basics
    <3> HIDE DEF Fetching
    <3>3. more <= 1 /\ Len(free) + more <= FreeBound
      BY <3>1, <3>2
    <3>4. QED
      BY <3>3, SameCardinality DEF P!FreeListIsBounded, FreeBound, Fetching
  <2>3. P!EverySessionHasOnePlace
    <3> SUFFICES ASSUME twice = {}
        PROVE  /\ \A u, v \in User : u # v => P!Using(u) \cap P!Using(v) = {}
               /\ \A u \in User : P!Using(u) \cap (P!Listed \cup P!Queued) = {}
               /\ P!Listed \cap P!Queued = {} /\ Cardinality(P!Listed) = Len(free)
               /\ \A s \in P!Listed \cup UNION {P!Using(u) : u \in User} : sess[s].impl = "live"
               /\ ~typeError
      BY SameCardinality DEF P!EverySessionHasOnePlace
    <3>1. UsersOK /\ ListOK /\ QueueOK /\ ~typeError
      BY <2>0, Basics
    <3>2. \A u \in User : \A s \in P!Using(u) :
            s \in Known /\ sess[s].impl = "live" /\ sess[s].isOpen /\ sess[s].by = u
      BY <2>0, <3>1, Basics DEF P!Using, UsersOK
    <3>3. \A s \in P!Listed : s \in Known /\ sess[s].impl = "live" /\ ~sess[s].isOpen
      BY <2>0, <3>1, Basics DEF P!Listed, ListOK
    <3>4. \A s \in P!Queued : sess[s].impl \in {"dropped", "gone"}
      BY <3>1 DEF P!Queued, QueueOK
    <3>5. Cardinality(P!Listed) = Len(free)
      BY <2>0, <3>1, ListedOnce
    <3>6. \A u, v \in User : u # v => P!Using(u) \cap P!Using(v) = {}
      BY <3>2
    <3>7. \A u \in User : P!Using(u) \cap (P!Listed \cup P!Queued) = {}
      BY <3>2, <3>3, <3>4
    <3>8. P!Listed \cap P!Queued = {}
      BY <3>3, <3>4
    <3>9. \A s \in P!Listed \cup UNION {P!Using(u) : u \in User} : sess[s].impl = "live"
      BY <3>2, <3>3
    <3>10. QED
      BY <3>1, <3>5, <3>6, <3>7, <3>8, <3>9
  <2>4. QED
    BY <2>2, <2>3 DEF SessionsHaveTheirPlace
<1>2. QED
  BY <1>1, PoolInvariance, PTL

\* A pool that lingers has closed all the sessions that its close() could know of: what
\* is not gone came too late, or is still with a user; and close() waits exactly as long
\* as something of what it found is left (closeNdbSession, NdbConnectionPool.close).
THEOREM CloseIsComplete == ConnectionSpec => []ClosedIsClosed
<1>1. PoolInv => ClosedIsClosed
  <2> SUFFICES ASSUME PoolInv, twice = {}
      PROVE  /\ pool \in {"lingering", "disconnecting", "gone"} =>
                  \A s \in 1..P!Made :
                    \/ sess[s].impl \in {"fetching", "failed", "gone"} \/ s \in late
                    \/ \E u \in User : holder[u] = s /\ step[u] \in {"open", "closing"}
             /\ pool = "closing" <=> nclose > 0
    BY DEF ClosedIsClosed, P!ClosedIsClosed
  <2>1. QueueOK /\ PlacesOK /\ P!Made = Len(sess) /\ Known = 1..Len(sess)
    BY PoolAssumption, Basics, EntryOf DEF PoolTypeOK, Known, P!Made
  <2>2. ASSUME pool \in {"lingering", "disconnecting", "gone"}, NEW s \in 1..P!Made
        PROVE  \/ sess[s].impl \in {"fetching", "failed", "gone"} \/ s \in late \/ Held(s)
    <3>1. pool # "open" /\ nclose = 0
      BY <2>1, <2>2, Basics DEF QueueOK
    <3>2. QED
      BY <2>1, <2>2, <3>1 DEF PlacesOK
  <2>3. pool = "closing" <=> nclose > 0
    BY <2>1 DEF QueueOK
  <2>4. QED
    BY <2>2, <2>3 DEF Held
<1>2. QED
  BY <1>1, PoolInvariance, PTL
=============================================================================
