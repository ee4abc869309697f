--------------------------- MODULE SessionFactory ---------------------------
(***************************************************************************)
(* The registry of connections and session factories (getSessionFactory in *)
(* UserContext.js) and the sessions of a factory (SessionFactory.js).      *)
(*                                                                         *)
(* All connections here have the same connection key.  The first call of   *)
(* connect or jones.openSession makes the Connection and starts to connect *)
(* its pool; calls that come before the pool is there wait.  A factory is  *)
(* made per database, shared by everyone who asks for it, and closed by    *)
(* deleteFactory, the last one with the pool.                              *)
(*                                                                         *)
(* An action is a JavaScript turn.  The turn that answers those who wait   *)
(* is split (notify), because the first may act before the others are told.*)
(***************************************************************************)
EXTENDS Integers, Sequences, FiniteSets

CONSTANTS
  Call,       \* the calls of the users, numbered in the order they are made
  KindsOf(_), \* the kinds that a call may be of
  Db,         \* databases: each has at most one factory per Connection
  MaxConn,    \* bound on the Connection objects made
  None

Kinds == {"connect", "openSession", "open", "closeSession", "close"}
Asks == {"connect", "openSession"}

ASSUME ConstantsAssumption ==
  /\ Call \subseteq Nat \ {0} /\ MaxConn \in Nat /\ None \notin Call \cup Db
  /\ None \notin Kinds \cup {"closed", "ok", "error", "throws"}
  /\ \A c \in Call : KindsOf(c) \subseteq Kinds

VARIABLES
  registry,   \* jonesConnections: the Connection under the key, or 0
  conns,      \* the Connection objects made
  facts,      \* the SessionFactory objects made
  call,       \* the calls of the users
  notify,     \* the Connection whose waiting calls are being told, or 0
  rash        \* history: has a user closed a factory that others still rely on?

vars == <<registry, conns, facts, call, notify, rash>>

NewConnection(c) ==
  [isConnecting |-> TRUE, pool |-> None, count |-> 0, first |-> c,
   factories |-> [d \in Db |-> 0], waiting |-> <<>>]

\* state: "open", "closing" (somebody called close), "deleted" (deleteFactory).
NewFactory(n, d) == [conn |-> n, db |-> d, sessions |-> <<>>, state |-> "open"]

\* step: what the call waits for; factory, slot, of: what it works on; left: the
\* slots of the sessions that a close waits for; wrong: a mapping was not found.
Init ==
  /\ registry = 0 /\ conns = <<>> /\ facts = <<>> /\ notify = 0 /\ rash = FALSE
  /\ call = [c \in Call |-> [kind |-> None, db |-> None, mappings |-> FALSE, step |-> "new",
                             factory |-> 0, slot |-> 0, of |-> 0, left |-> {}, wrong |-> FALSE,
                             answer |-> None]]

NextCall(c, kind) ==
  /\ kind \in KindsOf(c) /\ call[c].kind = None
  /\ \A d \in Call : d < c => call[d].kind # None

-----------------------------------------------------------------------------
(* Slots of sessions: 0 is null, c the session of call c, -c its           *)
(* placeholder.                                                            *)

\* Mutant: no placeholder is put in the slot.
Allocate_WithoutPlaceholder(sessions, c) ==
  LET empty == {i \in 1..Len(sessions) : sessions[i] = 0} IN
  IF empty = {} THEN [slot |-> Len(sessions) + 1, sessions |-> Append(sessions, 0)]
  ELSE [slot |-> CHOOSE i \in empty : \A j \in empty : i <= j, sessions |-> sessions]

\* allocateSessionSlot: the first empty slot, or one more.
Allocate(sessions, c) ==
  LET empty == {i \in 1..Len(sessions) : sessions[i] = 0} IN
  IF empty = {} THEN [slot |-> Len(sessions) + 1, sessions |-> Append(sessions, -c)]
  ELSE LET i == CHOOSE i \in empty : \A j \in empty : i <= j IN
       [slot |-> i, sessions |-> [sessions EXCEPT ![i] = -c]]

\* closeSession: the slot is emptied, whoever is in it by now.
CloseSlot(f, slot) == facts' = [facts EXCEPT ![f].sessions[slot] = 0]

\* factory.openSession, or getSessionFactory that needs a session for mappings.
StartSession(fs, cs, c, f, step) ==
  LET a == Allocate(fs[f].sessions, c) IN
  /\ facts' = [fs EXCEPT ![f].sessions = a.sessions]
  /\ call' = [cs EXCEPT ![c].factory = f, ![c].slot = a.slot, ![c].step = step]

\* openSessionOnSessionFactory, or the answer of connect.
HasFactory(fs, cs, c, f) ==
  IF cs[c].kind = "openSession" THEN StartSession(fs, cs, c, f, "dbSession")
  ELSE facts' = fs /\ call' = [cs EXCEPT ![c].factory = f, ![c].step = "done", ![c].answer = "ok"]

\* resolveTableMappingsAndCallback.
ResolveAndCallback(fs, cs, c, f) ==
  IF cs[c].mappings THEN StartSession(fs, cs, c, f, "mappingSession")
  ELSE HasFactory(fs, cs, c, f)

Fail(cs, c) == [cs EXCEPT ![c].step = "done", ![c].answer = "error"]

-----------------------------------------------------------------------------
(* getSessionFactory.                                                      *)

\* Mutant: the factory that exists is not reused.
FactoryOf_AlwaysNew(n, d) ==
  [factory |-> Len(facts) + 1, facts |-> Append(facts, NewFactory(n, d)), made |-> 1]

\* The factory of the database, made if there is none.
FactoryOf(n, d) ==
  IF conns[n].factories[d] # 0
  THEN [factory |-> conns[n].factories[d], facts |-> facts, made |-> 0]
  ELSE [factory |-> Len(facts) + 1, facts |-> Append(facts, NewFactory(n, d)), made |-> 1]

\* Gives call c the factory of its database on Connection n.
UseConnection(cns, cs, c, n) ==
  LET r == FactoryOf(n, cs[c].db) IN
  /\ conns' = [cns EXCEPT ![n].factories[cs[c].db] = r.factory, ![n].count = @ + r.made]
  /\ ResolveAndCallback(r.facts, cs, c, r.factory)

\* connect and jones.openSession: the Connection is made, waited for, unusable for
\* ever since it failed, or there.
Connect(c, kind, d, mappings) ==
  /\ kind \in Asks /\ NextCall(c, kind)
  /\ notify = 0
  /\ LET cs == [call EXCEPT ![c].kind = kind, ![c].db = d, ![c].mappings = mappings,
                            ![c].step = "connection"]
         n == registry IN
     IF n = 0
     THEN /\ Len(conns) < MaxConn
          /\ conns' = Append(conns, NewConnection(c))
          /\ registry' = Len(conns) + 1
          /\ call' = cs
          /\ UNCHANGED facts
     ELSE /\ UNCHANGED registry
          /\ IF conns[n].isConnecting
             THEN /\ conns' = [conns EXCEPT ![n].waiting = Append(@, c)]
                  /\ call' = cs
                  /\ UNCHANGED facts
             ELSE IF conns[n].pool = None
             THEN call' = Fail(cs, c) /\ UNCHANGED <<conns, facts>>
             ELSE UseConnection(conns, cs, c, n)
  /\ UNCHANGED <<notify, rash>>

\* Mutant: after an error nobody else is told.
PoolCreated_TellsOne(n, ok) ==
  /\ notify = 0
  /\ conns[n].isConnecting
  /\ LET c == conns[n].first
         cns == [conns EXCEPT ![n].isConnecting = FALSE, ![n].pool = IF ok THEN "open" ELSE None] IN
     IF ok THEN UseConnection(cns, call, c, n)
     ELSE conns' = cns /\ call' = Fail(call, c) /\ UNCHANGED facts
  /\ notify' = IF ~ok \/ conns[n].waiting = <<>> THEN 0 ELSE n
  /\ UNCHANGED <<registry, rash>>

\* dbConnectionPoolCreated_callback of the first: it is served, the rest is next.
PoolCreated(n, ok) ==
  /\ notify = 0
  /\ conns[n].isConnecting
  /\ LET c == conns[n].first
         cns == [conns EXCEPT ![n].isConnecting = FALSE, ![n].pool = IF ok THEN "open" ELSE None] IN
     IF ok THEN UseConnection(cns, call, c, n)
     ELSE conns' = cns /\ call' = Fail(call, c) /\ UNCHANGED facts
  /\ notify' = IF conns[n].waiting = <<>> THEN 0 ELSE n
  /\ UNCHANGED <<registry, rash>>

\* The same callback for a call that waited.  The pool is the one of the first
\* call's turn, even if it has been closed since.
Notify ==
  /\ notify # 0
  /\ LET n == notify
         c == Head(conns[n].waiting)
         cns == [conns EXCEPT ![n].waiting = Tail(@)] IN
     /\ IF conns[n].pool = None
        THEN conns' = cns /\ call' = Fail(call, c) /\ UNCHANGED facts
        ELSE UseConnection(cns, call, c, n)
     /\ notify' = IF Len(conns[n].waiting) = 1 THEN 0 ELSE n
  /\ UNCHANGED <<registry, rash>>

\* getDBSession for the mappings answers: an error leaves the placeholder.
MappingSession(c, ok) ==
  /\ notify = 0 /\ call[c].step = "mappingSession"
  /\ IF ok THEN /\ facts' = [facts EXCEPT ![call[c].factory].sessions[call[c].slot] = c]
                /\ call' = [call EXCEPT ![c].step = "mappings"]
           ELSE call' = Fail(call, c) /\ UNCHANGED facts
  /\ UNCHANGED <<registry, conns, notify, rash>>

\* resolveTableMappings: the table handlers of all mappings, one after the other;
\* then the session made for them is closed.  err: one of them was not found.
MappingsResolved(c, err) ==
  /\ notify = 0 /\ call[c].step = "mappings"
  /\ call' = [call EXCEPT ![c].step = "mappingClose", ![c].wrong = err]
  /\ UNCHANGED <<registry, conns, facts, notify, rash>>

\* The session of the mappings is closed; an error leaves it in its slot.
MappingClosed(c, ok) ==
  /\ notify = 0 /\ call[c].step = "mappingClose"
  /\ IF ~ok THEN call' = Fail(call, c) /\ UNCHANGED facts
     ELSE LET f == call[c].factory
              fs == [facts EXCEPT ![f].sessions[call[c].slot] = 0] IN
          IF call[c].wrong THEN call' = Fail(call, c) /\ facts' = fs
          ELSE HasFactory(fs, call, c, f)
  /\ UNCHANGED <<registry, conns, notify, rash>>

-----------------------------------------------------------------------------
(* Sessions.                                                               *)

\* The factories that users got; a factory may be had by several of them.
Held == {call[c].factory : c \in {c \in Call : call[c].kind = "connect" /\ call[c].answer = "ok"}}
Closing(f) == facts[f].state # "open"

\* factory.openSession.
Open(c, f, mappings) ==
  /\ NextCall(c, "open") /\ notify = 0 /\ f \in Held
  /\ StartSession(facts, [call EXCEPT ![c].kind = "open", ![c].mappings = mappings], c, f, "dbSession")
  /\ rash' = (rash \/ Closing(f))
  /\ UNCHANGED <<registry, conns, notify>>

\* openSessionOnSession; only factory.openSession resolves mappings now.  An error
\* leaves the placeholder in its slot.
SessionArrives(c, ok) ==
  /\ notify = 0 /\ call[c].step = "dbSession"
  /\ IF ok THEN /\ facts' = [facts EXCEPT ![call[c].factory].sessions[call[c].slot] = c]
                /\ call' = IF call[c].kind = "open" /\ call[c].mappings
                           THEN [call EXCEPT ![c].step = "sessionMappings"]
                           ELSE [call EXCEPT ![c].step = "done", ![c].answer = "ok"]
           ELSE call' = Fail(call, c) /\ UNCHANGED facts
  /\ UNCHANGED <<registry, conns, notify, rash>>

\* openSessionOnResolvedMappings: after an error the session stays open in its slot.
SessionMappings(c, err) ==
  /\ notify = 0 /\ call[c].step = "sessionMappings"
  /\ call' = IF err THEN Fail(call, c) ELSE [call EXCEPT ![c].step = "done", ![c].answer = "ok"]
  /\ UNCHANGED <<registry, conns, facts, notify, rash>>

\* The sessions that users got and have not closed.
OpenSession(s) == /\ call[s].kind \in {"open", "openSession"} /\ call[s].answer = "ok"
                  /\ \A c \in Call : call[c].kind = "closeSession" => call[c].of # s

\* Session.close, by the user.
CloseSession(c, s) ==
  /\ NextCall(c, "closeSession") /\ notify = 0 /\ OpenSession(s)
  /\ call' = [call EXCEPT ![c].kind = "closeSession", ![c].of = s, ![c].step = "dbClose"]
  /\ UNCHANGED <<registry, conns, facts, notify, rash>>

\* closeSessionOnDBSessionClose.
SessionClosed(c) ==
  /\ notify = 0 /\ call[c].step = "dbClose"
  /\ CloseSlot(call[call[c].of].factory, call[call[c].of].slot)
  /\ call' = [call EXCEPT ![c].step = "done", ![c].answer = "ok"]
  /\ UNCHANGED <<registry, conns, notify, rash>>

-----------------------------------------------------------------------------
(* SessionFactory.close and deleteFactory.                                 *)

\* deleteFactory looks its factory up by key and database, and counts on the
\* Connection that made it.  fs and cs are the factories and calls by then.
Delete(fs, cs, c) ==
  LET f == cs[c].of
      n == facts[f].conn
      d == facts[f].db IN
  /\ facts' = [fs EXCEPT ![f].state = "deleted"]
  /\ IF registry = 0 \/ (registry # 0 /\ conns[registry].factories[d] = 0)
     THEN /\ call' = [cs EXCEPT ![c].step = "done", ![c].answer = "throws"]
          /\ UNCHANGED <<registry, conns>>
     ELSE LET cns == [conns EXCEPT ![registry].factories[d] = 0]
              last == conns[n].count = 1 IN
          /\ conns' = [cns EXCEPT ![n].count = @ - 1, ![registry].pool = IF last THEN "closed" ELSE @]
          /\ registry' = IF last THEN 0 ELSE registry
          /\ call' = [cs EXCEPT ![c].step = IF last THEN "poolClose" ELSE "done",
                                ![c].answer = IF last THEN None ELSE "ok"]

\* The sessions that must say that they are closed; placeholders do so at once.
SessionsLeft(f) == {i \in 1..Len(facts[f].sessions) : facts[f].sessions[i] > 0}

\* close: all sessions are closed and their slots emptied.  The user may do so in a
\* callback while other calls have not been told of the connection yet.
Close(c, f) ==
  /\ NextCall(c, "close") /\ f \in Held
  /\ LET left == SessionsLeft(f)
         fs == [facts EXCEPT ![f].sessions = [i \in DOMAIN @ |-> 0],
                             ![f].state = IF @ = "open" THEN "closing" ELSE @]
         cs == [call EXCEPT ![c].kind = "close", ![c].of = f, ![c].left = left,
                            ![c].step = "sessionsClose"] IN
     IF left = {} THEN Delete(fs, cs, c)
     ELSE facts' = fs /\ call' = cs /\ UNCHANGED <<registry, conns>>
  /\ rash' = (rash \/ Closing(f) \/ notify # 0)
  /\ UNCHANGED notify

\* onSessionClose, after the close of a session has emptied its slot once more.
FactorySessionClosed(c, i) ==
  /\ notify = 0 /\ i \in call[c].left
  /\ LET fs == [facts EXCEPT ![call[c].of].sessions[i] = 0]
         cs == [call EXCEPT ![c].left = @ \ {i}] IN
     IF cs[c].left = {} THEN Delete(fs, cs, c)
     ELSE facts' = fs /\ call' = cs /\ UNCHANGED <<registry, conns>>
  /\ UNCHANGED <<notify, rash>>

PoolClosed(c) ==
  /\ notify = 0 /\ call[c].step = "poolClose"
  /\ call' = [call EXCEPT ![c].step = "done", ![c].answer = "ok"]
  /\ UNCHANGED <<registry, conns, facts, notify, rash>>

-----------------------------------------------------------------------------
User ==
  \E c \in Call :
    \/ \E kind \in Asks, d \in Db, mappings \in BOOLEAN : Connect(c, kind, d, mappings)
    \/ \E f \in Held : Close(c, f) \/ \E mappings \in BOOLEAN : Open(c, f, mappings)
    \/ \E s \in Call : CloseSession(c, s)

System ==
  \/ Notify
  \/ \E n \in 1..Len(conns), ok \in BOOLEAN : PoolCreated(n, ok)
  \/ \E c \in Call : SessionClosed(c) \/ PoolClosed(c)
  \/ \E c \in Call, ok \in BOOLEAN :
       \/ MappingSession(c, ok) \/ MappingsResolved(c, ok) \/ MappingClosed(c, ok)
       \/ SessionArrives(c, ok) \/ SessionMappings(c, ok)
  \/ \E c \in Call : \E i \in call[c].left : FactorySessionClosed(c, i)

Next == User \/ System

\* The adapter answers and the event loop runs.
Spec == Init /\ [][Next]_vars /\ WF_vars(System)

-----------------------------------------------------------------------------
(* Properties.                                                             *)

Deleted(f) == facts[f].state = "deleted"

\* As long as nobody closes a factory that others rely on: a factory that is not
\* closed is the one that the registry has for its database, its pool is open,
\* and the Connection counts its factories, so that the pool is closed with the
\* last one and not before (getSessionFactory, deleteFactory).
RegistryIsExact ==
  ~rash =>
    /\ \A f \in 1..Len(facts) : ~Deleted(f) =>
         /\ facts[f].conn = registry
         /\ conns[registry].factories[facts[f].db] = f
         /\ conns[registry].pool = "open"
    /\ registry # 0 => conns[registry].count = Cardinality({d \in Db : conns[registry].factories[d] # 0})

\* A session that its user has not closed is in its slot, as long as its factory
\* is not closed: nobody else's open or close takes it away (allocateSessionSlot,
\* closeSession).
SessionsKeepTheirSlots ==
  ~rash => \A s \in Call : OpenSession(s) =>
    \/ Closing(call[s].factory)
    \/ facts[call[s].factory].sessions[call[s].slot] = s

\* Every call is answered, whatever fails (waitingForConnection, onSessionClose): as each
\* call is made once, again and again nobody waits.
EveryCallIsAnswered == []<>(\A c \in Call : call[c].kind = None \/ call[c].answer # None)
=============================================================================
