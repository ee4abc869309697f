------------------------- MODULE SessionFactoryProofs -------------------------
(***************************************************************************)
(* The registry of connections is exact, open sessions keep their slots,   *)
(* reads of the dictionary are shared and handlers agree, for any number   *)
(* of users, databases and calls.                                          *)
(*                                                                         *)
(* That a session keeps its slot rests on everybody who has a slot: the    *)
(* placeholder or the session in it is told from all others by its call.   *)
(* That the registry is exact rests on the order of things: only the       *)
(* Connection of the registry connects, nobody waits for another one, and  *)
(* a factory is deleted once, by the one call that closes it.              *)
(*                                                                         *)
(* That reads are shared rests on where in the list those begin who have   *)
(* not been told: from there on it has exactly the callers who wait.  That *)
(* handlers agree, on the handler that a constructor keeps until the       *)
(* factory is closed, which waits for every call to be answered.           *)
(***************************************************************************)
EXTENDS MCSessionFactory, FiniteSetTheorems, WellFoundedInduction, TLAPS

Steps == {"new", "connection", "mappingSession", "mappings", "mappingClose", "dbSession",
          "sessionMappings", "dbClose", "sessionsClose", "poolClose", "done"}
ConnRecord ==
  [isConnecting : BOOLEAN, pool : {None, "open", "closed"}, count : Int, first : Call,
   factories : [Db -> Nat], waiting : Seq(Call)]
FactRecord ==
  [conn : Nat, db : Db, sessions : Seq(Int), state : {"open", "closing", "deleted"}]
CallRecord ==
  [kind : Kinds \cup {None}, db : Db \cup {None}, mappings : BOOLEAN, step : Steps,
   factory : Nat, slot : Nat, of : Nat, left : SUBSET Nat, wrong : BOOLEAN,
   answer : {None, "ok", "error", "throws"}]

RegistryTypeOK ==
  /\ registry \in 0..Len(conns)
  /\ conns \in Seq(ConnRecord)
  /\ facts \in Seq(FactRecord)
  /\ call \in [Call -> CallRecord]
  /\ notify \in 0..Len(conns)
  /\ rash \in BOOLEAN

\* What a call waits for says what kind of call it is; it is answered at its end.
KindOK(r) ==
  /\ r.step = "new" <=> r.kind = None
  /\ r.step \in {"connection", "mappingSession", "mappings", "mappingClose"} =>
       r.kind \in Asks /\ r.db \in Db
  /\ r.step = "dbSession" => r.kind \in {"open", "openSession"}
  /\ r.step = "sessionMappings" => r.kind = "open"
  /\ r.step = "dbClose" => r.kind = "closeSession"
  /\ r.step \in {"sessionsClose", "poolClose"} => r.kind = "close"
  /\ r.answer # None => r.step = "done"
  /\ r.left # {} => r.step = "sessionsClose"

\* Factories and connections refer to each other.
LinksOK ==
  /\ \A n \in 1..Len(conns), d \in Db : conns[n].factories[d] \in 0..Len(facts)
  /\ \A f \in 1..Len(facts) : facts[f].conn \in 1..Len(conns)

\* Calls work on factories and sessions that there are, each session is closed by one
\* call, and each factory by one while nobody is rash.
TargetsOK ==
  /\ \A c \in Call : call[c].kind = "connect" /\ call[c].answer = "ok" =>
       call[c].factory \in 1..Len(facts)
  /\ \A c \in Call : call[c].kind = "closeSession" =>
       /\ call[c].of \in Call
       /\ call[call[c].of].kind \in {"open", "openSession"} /\ call[call[c].of].answer = "ok"
  /\ \A c, d \in Call : call[c].kind = "closeSession" /\ call[d].kind = "closeSession"
                        /\ call[c].of = call[d].of => c = d
  /\ \A c \in Call : call[c].kind = "close" => call[c].of \in 1..Len(facts) /\ Closing(call[c].of)
  /\ ~rash =>
       /\ \A c, d \in Call : call[c].kind = "close" /\ call[d].kind = "close"
                             /\ call[c].of = call[d].of => c = d
       /\ \A c \in Call : call[c].step = "sessionsClose" => ~Deleted(call[c].of)

\* Only the Connection of the registry connects, while nobody is being told; who waits
\* for a Connection waits once, for one that connects or tells.
WaitingOK ==
  /\ \A n \in 1..Len(conns) : conns[n].isConnecting =>
       /\ n = registry /\ notify = 0
       /\ \A d \in Db : conns[n].factories[d] = 0
       /\ call[conns[n].first].step = "connection"
       /\ \A i \in 1..Len(conns[n].waiting) : conns[n].waiting[i] # conns[n].first
  /\ \A n \in 1..Len(conns) : conns[n].waiting # <<>> => notify = n \/ conns[n].isConnecting
  /\ \A n \in 1..Len(conns) : \A i \in 1..Len(conns[n].waiting) :
       /\ call[conns[n].waiting[i]].step = "connection"
       /\ \A j \in 1..Len(conns[n].waiting) : conns[n].waiting[i] = conns[n].waiting[j] => i = j
  /\ notify # 0 => conns[notify].waiting # <<>>

\* The databases that have a factory on the Connection of the registry.
Served == {d \in Db : conns[registry].factories[d] # 0}

\* RegistryIsExact, and what it rests on.
ExactOK ==
  ~rash =>
    /\ notify # 0 => notify = registry
    /\ registry # 0 => /\ conns[registry].pool # "closed"
                       /\ IsFiniteSet(Served) /\ conns[registry].count = Cardinality(Served)
    /\ \A f \in 1..Len(facts) : ~Deleted(f) =>
         /\ facts[f].conn = registry
         /\ conns[registry].factories[facts[f].db] = f
         /\ conns[registry].pool = "open"

\* Has the close of session s ended?
Gone(s) == \E c \in Call : call[c].kind = "closeSession" /\ call[c].of = s /\ call[c].step # "dbClose"

\* Who has a slot, and what is in it.
Placeholding(c) == call[c].step \in {"mappingSession", "dbSession"}
HasSlot(c) ==
  \/ Placeholding(c)
  \/ call[c].step \in {"mappings", "mappingClose", "sessionMappings"}
  \/ call[c].kind \in {"open", "openSession"} /\ call[c].answer = "ok" /\ ~Gone(c)
InSlot(c) == IF Placeholding(c) THEN -c ELSE c

SlotOK(c) ==
  HasSlot(c) =>
    LET f == call[c].factory IN
    /\ f \in 1..Len(facts)
    /\ call[c].slot \in 1..Len(facts[f].sessions)
    /\ Closing(f) \/ facts[f].sessions[call[c].slot] = InSlot(c)

RegistryInv ==
  /\ RegistryTypeOK
  /\ \A c \in Call : KindOK(call[c])
  /\ LinksOK /\ TargetsOK /\ WaitingOK /\ ExactOK
  /\ \A c \in Call : SlotOK(c)

-----------------------------------------------------------------------------
(* Slots.                                                                  *)

\* A nonempty set of naturals has a least element.
LEMMA Least ==
  ASSUME NEW S, S \subseteq Nat, S # {}
  PROVE \E i \in S : \A j \in S : i <= j
<1> DEFINE R == OpToRel(<, Nat)
<1>1. IsWellFoundedOn(R, Nat) BY NatLessThanWellFounded
<1>2. PICK x \in S : \A y \in S : ~(<<y, x>> \in R)
  <2> HIDE DEF R
  <2> QED BY <1>1, WFMin
<1>3. \A y \in S : ~(y < x)
  BY <1>2 DEF OpToRel
<1> HIDE DEF R
<1> QED BY <1>2, <1>3

\* The slots of calls other than x are as they were.
OthersKept(ss, tt, x) ==
  /\ Len(ss) <= Len(tt)
  /\ \A i \in 1..Len(ss) : ss[i] \in {0, x, -x} \/ tt[i] = ss[i]

\* From fs to gs only call x has changed what is in slots of factories that stay open.
Grows(fs, gs, x) ==
  \A f \in 1..Len(fs) :
    /\ f \in 1..Len(gs)
    /\ gs[f].conn = fs[f].conn /\ gs[f].db = fs[f].db
    /\ fs[f].state # "open" => gs[f].state # "open"
    /\ Len(fs[f].sessions) <= Len(gs[f].sessions)
    /\ gs[f].state # "open" \/ OthersKept(fs[f].sessions, gs[f].sessions, x)

\* The factories themselves are as they were.
SameStates(fs, gs) ==
  Len(fs) = Len(gs) /\ \A f \in 1..Len(fs) : gs[f].state = fs[f].state

\* A slot is given: the first that is empty, or a new one.
LEMMA AllocateGives ==
  ASSUME NEW ss \in Seq(Int), NEW c \in Nat
  PROVE LET a == Allocate(ss, c) IN
        /\ a.sessions \in Seq(Int) /\ Len(ss) <= Len(a.sessions)
        /\ a.slot \in 1..Len(a.sessions) /\ a.sessions[a.slot] = -c
        /\ \A i \in 1..Len(ss) : ss[i] = 0 \/ a.sessions[i] = ss[i]
<1> DEFINE empty == {i \in 1..Len(ss) : ss[i] = 0}
<1>1. CASE empty = {}
  <2>1. Allocate(ss, c) = [slot |-> Len(ss) + 1, sessions |-> Append(ss, -c)]
    BY <1>1 DEF Allocate
  <2>2. /\ Append(ss, -c) \in Seq(Int) /\ Len(Append(ss, -c)) = Len(ss) + 1
        /\ Append(ss, -c)[Len(ss) + 1] = -c
        /\ \A i \in 1..Len(ss) : Append(ss, -c)[i] = ss[i]
    OBVIOUS
  <2> HIDE DEF empty
  <2> QED BY <2>1, <2>2
<1>2. CASE empty # {}
  <2>1. PICK a \in empty : \A j \in empty : a <= j
    <3>1. empty \subseteq Nat OBVIOUS
    <3> HIDE DEF empty
    <3> QED BY <1>2, <3>1, Least
  <2> DEFINE k == CHOOSE i \in empty : \A j \in empty : i <= j
  <2>2. k \in empty
    <3> HIDE DEF empty
    <3> QED BY <2>1
  <2>3. Allocate(ss, c) = [slot |-> k, sessions |-> [ss EXCEPT ![k] = -c]]
    BY <1>2 DEF Allocate
  <2>4. k \in 1..Len(ss) /\ ss[k] = 0 BY <2>2
  <2> HIDE DEF k, empty
  <2>5. /\ [ss EXCEPT ![k] = -c] \in Seq(Int) /\ Len([ss EXCEPT ![k] = -c]) = Len(ss)
        /\ [ss EXCEPT ![k] = -c][k] = -c
        /\ \A i \in 1..Len(ss) : i = k \/ [ss EXCEPT ![k] = -c][i] = ss[i]
    BY <2>4
  <2> QED BY <2>3, <2>4, <2>5
<1> QED BY <1>1, <1>2

Write(fs, f, ss) == [fs EXCEPT ![f].sessions = ss]

\* A slot is written.
LEMMA WriteSlot ==
  ASSUME NEW fs \in Seq(FactRecord), NEW f \in 1..Len(fs), NEW ss \in Seq(Int),
         Len(fs[f].sessions) <= Len(ss), NEW x \in Nat,
         fs[f].state # "open" \/ OthersKept(fs[f].sessions, ss, x)
  PROVE /\ Write(fs, f, ss) \in Seq(FactRecord)
        /\ Grows(fs, Write(fs, f, ss), x) /\ SameStates(fs, Write(fs, f, ss))
        /\ Write(fs, f, ss)[f].sessions = ss
<1> DEFINE gs == [fs EXCEPT ![f].sessions = ss]
<1>1. Len(gs) = Len(fs) /\ \A g \in 1..Len(fs) : g # f => gs[g] = fs[g] OBVIOUS
<1>2. fs[f] \in FactRecord OBVIOUS
<1>3. gs[f] = [fs[f] EXCEPT !.sessions = ss] BY <1>2
<1>4. /\ gs[f] \in FactRecord /\ gs[f].sessions = ss /\ gs[f].state = fs[f].state
      /\ gs[f].conn = fs[f].conn /\ gs[f].db = fs[f].db
  <2> DEFINE r == [fs[f] EXCEPT !.sessions = ss]
  <2>1. /\ r \in FactRecord /\ r.sessions = ss /\ r.state = fs[f].state
        /\ r.conn = fs[f].conn /\ r.db = fs[f].db
    BY <1>2 DEF FactRecord
  <2> HIDE DEF gs
  <2>2. gs[f] = r BY <1>3
  <2> HIDE DEF r
  <2> QED BY <2>1, <2>2
<1>5. gs \in Seq(FactRecord)
  <2> DEFINE r == [fs[f] EXCEPT !.sessions = ss]
  <2>1. gs = [fs EXCEPT ![f] = r] OBVIOUS
  <2>2. r \in FactRecord BY <1>3, <1>4
  <2> HIDE DEF gs, r
  <2> QED BY <2>1, <2>2
<1> HIDE DEF gs
<1>6. SameStates(fs, gs) BY <1>1, <1>4 DEF SameStates
<1>7. \A g \in 1..Len(fs) : Len(fs[g].sessions) \in Nat
  BY SMTT(20) DEF FactRecord
<1>8. Grows(fs, gs, x)
  <2> SUFFICES ASSUME NEW g \in 1..Len(fs)
               PROVE /\ g \in 1..Len(gs)
                     /\ gs[g].conn = fs[g].conn /\ gs[g].db = fs[g].db
                     /\ fs[g].state # "open" => gs[g].state # "open"
                     /\ Len(fs[g].sessions) <= Len(gs[g].sessions)
                     /\ gs[g].state # "open" \/ OthersKept(fs[g].sessions, gs[g].sessions, x)
    BY DEF Grows
  <2>1. CASE g = f BY <2>1, <1>1, <1>4
  <2>2. CASE g # f
    <3>1. OthersKept(fs[g].sessions, fs[g].sessions, x) BY <1>7 DEF OthersKept
    <3> QED BY <2>2, <3>1, <1>1, <1>7
  <2> QED BY <2>1, <2>2
<1> QED BY <1>4, <1>5, <1>6, <1>8 DEF gs, Write

-----------------------------------------------------------------------------
(* What the steps of a call do to it and to the factories.                 *)

\* Call c, which was q and is r, has got factory f of gs and waits for a session, or has
\* been answered.
Given(gs, q, r, c, f) ==
  /\ r \in CallRecord
  /\ r.kind = q.kind /\ r.db = q.db /\ r.of = q.of /\ r.left = q.left /\ r.factory = f
  /\ \/ /\ r.step = "mappingSession" \/ (r.step = "dbSession" /\ r.kind = "openSession")
        /\ r.answer = q.answer
        /\ r.slot \in 1..Len(gs[f].sessions) /\ gs[f].sessions[r.slot] = -c
     \/ r.kind = "connect" /\ r.step = "done" /\ r.answer = "ok"

\* So it has, and the factories are otherwise as in fs.
Got(fs, gs, q, r, c, f) ==
  /\ Given(gs, q, r, c, f)
  /\ gs \in Seq(FactRecord) /\ Grows(fs, gs, c) /\ SameStates(fs, gs)

\* A call gets a slot.
LEMMA StartSessionDoes ==
  ASSUME ConstantsAssumption,
         NEW fs \in Seq(FactRecord), NEW f \in 1..Len(fs), NEW c \in Call,
         NEW cs \in [Call -> CallRecord], NEW step \in Steps, StartSession(fs, cs, c, f, step)
  PROVE \E r \in CallRecord :
    /\ call' = [cs EXCEPT ![c] = r]
    /\ facts' \in Seq(FactRecord) /\ Grows(fs, facts', c) /\ SameStates(fs, facts')
    /\ r.kind = cs[c].kind /\ r.db = cs[c].db /\ r.of = cs[c].of /\ r.left = cs[c].left
    /\ r.answer = cs[c].answer /\ r.factory = f /\ r.step = step
    /\ r.slot \in 1..Len(facts'[f].sessions) /\ facts'[f].sessions[r.slot] = -c
<1> DEFINE ss == fs[f].sessions
           a == Allocate(ss, c)
           r == [cs[c] EXCEPT !.factory = f, !.slot = a.slot, !.step = step]
<1>0. c \in Nat BY DEF ConstantsAssumption
<1>1. ss \in Seq(Int)
  <2>1. fs[f] \in FactRecord OBVIOUS
  <2> QED BY <2>1 DEF FactRecord
<1>2. /\ a.sessions \in Seq(Int) /\ Len(ss) <= Len(a.sessions)
      /\ a.slot \in 1..Len(a.sessions) /\ a.sessions[a.slot] = -c
      /\ \A i \in 1..Len(ss) : ss[i] = 0 \/ a.sessions[i] = ss[i]
  <2> HIDE DEF ss
  <2> QED BY <1>0, <1>1, AllocateGives
<1>3. facts' = [fs EXCEPT ![f].sessions = a.sessions]
  BY DEF StartSession
<1>4. call' = [cs EXCEPT ![c] = r]
  BY DEF StartSession
<1> HIDE DEF a
<1>5. /\ facts' \in Seq(FactRecord) /\ Grows(fs, facts', c) /\ SameStates(fs, facts')
      /\ facts'[f].sessions = a.sessions
  <2> DEFINE new == a.sessions
  <2>1. new \in Seq(Int) /\ Len(fs[f].sessions) <= Len(new) /\ OthersKept(fs[f].sessions, new, c)
    BY <1>2 DEF OthersKept
  <2>2. facts' = Write(fs, f, new) BY <1>3 DEF Write
  <2> HIDE DEF new
  <2>6. /\ facts' \in Seq(FactRecord) /\ Grows(fs, facts', c) /\ SameStates(fs, facts')
        /\ facts'[f].sessions = new
    BY <1>0, <2>1, <2>2, WriteSlot
  <2> QED BY <2>6 DEF new
<1>6. a.slot \in Nat /\ f \in Nat BY <1>2
<1>7. cs[c] \in CallRecord OBVIOUS
<1>8. r \in CallRecord BY <1>6, <1>7 DEF CallRecord
<1>9. /\ r.kind = cs[c].kind /\ r.db = cs[c].db /\ r.of = cs[c].of /\ r.left = cs[c].left
      /\ r.answer = cs[c].answer /\ r.factory = f /\ r.step = step /\ r.slot = a.slot
  BY <1>7 DEF CallRecord
<1> HIDE DEF r
<1>10. r.slot \in 1..Len(facts'[f].sessions) /\ facts'[f].sessions[r.slot] = -c
  BY <1>2, <1>5, <1>9
<1> QED BY <1>4, <1>5, <1>8, <1>9, <1>10

\* Nothing has changed.
LEMMA GrowsItself ==
  ASSUME NEW fs \in Seq(FactRecord), NEW x
  PROVE Grows(fs, fs, x) /\ SameStates(fs, fs)
<1>1. \A f \in 1..Len(fs) : Len(fs[f].sessions) \in Nat BY DEF FactRecord
<1> QED BY <1>1 DEF Grows, SameStates, OthersKept

\* A call of connect or openSession has its factory.
LEMMA HasFactoryDoes ==
  ASSUME ConstantsAssumption,
         NEW fs \in Seq(FactRecord), NEW f \in 1..Len(fs), NEW c \in Call,
         NEW cs \in [Call -> CallRecord], cs[c].kind \in Asks, HasFactory(fs, cs, c, f)
  PROVE \E r \in CallRecord : call' = [cs EXCEPT ![c] = r] /\ Got(fs, facts', cs[c], r, c, f)
<1>1. CASE cs[c].kind = "openSession"
  <2>1. StartSession(fs, cs, c, f, "dbSession") BY <1>1 DEF HasFactory
  <2>2. "dbSession" \in Steps BY DEF Steps
  <2> QED BY SMTT(20), <1>1, <2>1, <2>2, StartSessionDoes DEF Got, Given
<1>2. CASE cs[c].kind # "openSession"
  <2> DEFINE r == [cs[c] EXCEPT !.factory = f, !.step = "done", !.answer = "ok"]
  <2>1. facts' = fs /\ call' = [cs EXCEPT ![c] = r]
    BY <1>2 DEF HasFactory
  <2>2. cs[c] \in CallRecord /\ f \in Nat OBVIOUS
  <2>3. r \in CallRecord BY <2>2 DEF CallRecord, Steps
  <2>4. /\ r.kind = cs[c].kind /\ r.db = cs[c].db /\ r.of = cs[c].of /\ r.left = cs[c].left
        /\ r.factory = f /\ r.step = "done" /\ r.answer = "ok"
    BY <2>2 DEF CallRecord
  <2>5. r.kind = "connect" BY <1>2, <2>4 DEF Asks
  <2> HIDE DEF r
  <2>6. Grows(fs, facts', c) /\ SameStates(fs, facts') BY <2>1, GrowsItself
  <2>7. Got(fs, facts', cs[c], r, c, f) BY <2>1, <2>3, <2>4, <2>5, <2>6 DEF Got, Given
  <2> QED BY <2>1, <2>3, <2>7
<1> QED BY <1>1, <1>2

\* With mappings to resolve it first needs a session for them.
LEMMA ResolveDoes ==
  ASSUME ConstantsAssumption,
         NEW fs \in Seq(FactRecord), NEW f \in 1..Len(fs), NEW c \in Call,
         NEW cs \in [Call -> CallRecord], cs[c].kind \in Asks, ResolveAndCallback(fs, cs, c, f)
  PROVE \E r \in CallRecord : call' = [cs EXCEPT ![c] = r] /\ Got(fs, facts', cs[c], r, c, f)
<1>1. CASE cs[c].mappings
  <2>1. StartSession(fs, cs, c, f, "mappingSession") BY <1>1 DEF ResolveAndCallback
  <2>2. "mappingSession" \in Steps BY DEF Steps
  <2> QED BY <2>1, <2>2, StartSessionDoes DEF Got, Given
<1>2. CASE ~cs[c].mappings
  BY <1>2, HasFactoryDoes DEF ResolveAndCallback
<1> QED BY <1>1, <1>2

\* Call c, which is then r, has got factory f of Connection n: one that there was, or
\* a new one.
Uses(cns, cs, c, n, f, r) ==
  LET d == cs[c].db IN
  /\ r \in CallRecord /\ call' = [cs EXCEPT ![c] = r]
  /\ Given(facts', cs[c], r, c, f)
  /\ facts' \in Seq(FactRecord) /\ Grows(facts, facts', c)
  /\ \A g \in 1..Len(facts) : facts'[g].state = facts[g].state
  /\ f \in 1..Len(facts')
  /\ conns' \in Seq(ConnRecord) /\ Len(conns') = Len(conns)
  /\ \A m \in 1..Len(conns) : m # n => conns'[m] = cns[m]
  /\ conns'[n].isConnecting = cns[n].isConnecting /\ conns'[n].pool = cns[n].pool
  /\ conns'[n].first = cns[n].first /\ conns'[n].waiting = cns[n].waiting
  /\ conns'[n].factories = [conns[n].factories EXCEPT ![d] = f]
  /\ \/ /\ conns[n].factories[d] = f /\ f # 0 /\ Len(facts') = Len(facts)
        /\ conns'[n].count = cns[n].count
     \/ /\ conns[n].factories[d] = 0 /\ f = Len(facts) + 1 /\ Len(facts') = f
        /\ facts'[f].conn = n /\ facts'[f].db = d /\ facts'[f].state = "open"
        /\ conns'[n].count = cns[n].count + 1

\* A new factory is the last one.
LEMMA NewFactoryGrows ==
  ASSUME NEW n \in Nat, NEW d \in Db, NEW x, facts \in Seq(FactRecord)
  PROVE LET fs == Append(facts, NewFactory(n, d)) IN
        /\ fs \in Seq(FactRecord) /\ Grows(facts, fs, x) /\ Len(fs) = Len(facts) + 1
        /\ \A g \in 1..Len(facts) : fs[g] = facts[g]
        /\ fs[Len(facts) + 1] = NewFactory(n, d)
<1> DEFINE new == NewFactory(n, d)
           fs == Append(facts, new)
<1>1. new \in FactRecord
  <2>1. <<>> \in Seq(Int) OBVIOUS
  <2> QED BY <2>1 DEF NewFactory, FactRecord
<1> HIDE DEF new
<1>2. /\ fs \in Seq(FactRecord) /\ Len(fs) = Len(facts) + 1
      /\ \A g \in 1..Len(facts) : fs[g] = facts[g]
      /\ fs[Len(facts) + 1] = new
  BY <1>1
<1>3. \A f \in 1..Len(facts) : Len(facts[f].sessions) \in Nat BY DEF FactRecord
<1> HIDE DEF fs
<1>4. Grows(facts, fs, x) BY <1>2, <1>3 DEF Grows, OthersKept
<1> QED BY <1>2, <1>4 DEF fs, new

LEMMA UseConnectionDoes ==
  ASSUME ConstantsAssumption, RegistryTypeOK, LinksOK,
         NEW cs \in [Call -> CallRecord], NEW c \in Call, cs[c].kind \in Asks, cs[c].db \in Db,
         NEW cns \in Seq(ConnRecord), Len(cns) = Len(conns),
         NEW n \in 1..Len(conns), cns[n].factories = conns[n].factories,
         UseConnection(cns, cs, c, n)
  PROVE \E f \in Nat, r \in CallRecord : Uses(cns, cs, c, n, f, r)
<1> DEFINE d == cs[c].db
           R == FactoryOf(n, d)
<1>0. /\ facts \in Seq(FactRecord) /\ conns \in Seq(ConnRecord) /\ n \in Nat
      /\ conns[n].factories[d] \in 0..Len(facts)
  BY DEF RegistryTypeOK, LinksOK
<1>1. \E f \in Nat, m \in Nat, fs \in Seq(FactRecord) :
        /\ R = [factory |-> f, facts |-> fs, made |-> m]
        /\ Grows(facts, fs, c) /\ f \in 1..Len(fs)
        /\ \A g \in 1..Len(facts) : fs[g] = facts[g]
        /\ \/ conns[n].factories[d] = f /\ f # 0 /\ Len(fs) = Len(facts) /\ m = 0
           \/ /\ conns[n].factories[d] = 0 /\ f = Len(facts) + 1 /\ Len(fs) = f /\ m = 1
              /\ fs[f] = NewFactory(n, d)
  <2>1. CASE conns[n].factories[d] # 0
    <3>1. R = [factory |-> conns[n].factories[d], facts |-> facts, made |-> 0]
      BY <2>1 DEF FactoryOf
    <3>2. Grows(facts, facts, c) BY <1>0, GrowsItself
    <3>3. conns[n].factories[d] \in Nat /\ conns[n].factories[d] \in 1..Len(facts) BY <1>0, <2>1
    <3> HIDE DEF R
    <3> QED BY <1>0, <2>1, <3>1, <3>2, <3>3
  <2>2. CASE conns[n].factories[d] = 0
    <3> DEFINE fs == Append(facts, NewFactory(n, d))
    <3>1. R = [factory |-> Len(facts) + 1, facts |-> fs, made |-> 1]
      BY <2>2 DEF FactoryOf
    <3>2. /\ fs \in Seq(FactRecord) /\ Grows(facts, fs, c) /\ Len(fs) = Len(facts) + 1
          /\ \A g \in 1..Len(facts) : fs[g] = facts[g]
          /\ fs[Len(facts) + 1] = NewFactory(n, d)
      BY <1>0, NewFactoryGrows
    <3>3. Len(facts) + 1 \in Nat /\ Len(facts) + 1 \in 1..Len(fs) BY <1>0, <3>2
    <3> DEFINE k == Len(facts) + 1
    <3>4. /\ R = [factory |-> k, facts |-> fs, made |-> 1]
          /\ fs \in Seq(FactRecord) /\ Grows(facts, fs, c) /\ k \in 1..Len(fs)
          /\ \A g \in 1..Len(facts) : fs[g] = facts[g]
          /\ k = Len(facts) + 1 /\ Len(fs) = k /\ fs[k] = NewFactory(n, d) /\ k \in Nat
      BY <3>1, <3>2, <3>3
    <3> HIDE DEF R, fs, k, d
    <3>5. 1 \in Nat OBVIOUS
    <3> QED BY <2>2, <3>4, <3>5
  <2> QED BY <2>1, <2>2
<1>2. PICK f \in Nat, m \in Nat, fs \in Seq(FactRecord) :
        /\ R = [factory |-> f, facts |-> fs, made |-> m]
        /\ Grows(facts, fs, c) /\ f \in 1..Len(fs)
        /\ \A g \in 1..Len(facts) : fs[g] = facts[g]
        /\ \/ conns[n].factories[d] = f /\ f # 0 /\ Len(fs) = Len(facts) /\ m = 0
           \/ /\ conns[n].factories[d] = 0 /\ f = Len(facts) + 1 /\ Len(fs) = f /\ m = 1
              /\ fs[f] = NewFactory(n, d)
  BY <1>1
<1>3. /\ conns' = [cns EXCEPT ![n].factories[d] = f, ![n].count = @ + m]
      /\ ResolveAndCallback(fs, cs, c, f)
  BY <1>2 DEF UseConnection
<1>4. PICK r \in CallRecord : call' = [cs EXCEPT ![c] = r] /\ Got(fs, facts', cs[c], r, c, f)
  BY <1>2, <1>3, ResolveDoes
<1>5. /\ Given(facts', cs[c], r, c, f) /\ facts' \in Seq(FactRecord)
      /\ Grows(fs, facts', c) /\ SameStates(fs, facts')
  BY <1>4 DEF Got
<1>6. Grows(facts, facts', c) BY <1>0, <1>2, <1>5 DEF Grows
<1>7. Len(facts') = Len(fs) /\ \A g \in 1..Len(fs) : facts'[g].state = fs[g].state
  BY <1>5 DEF SameStates
<1>8. fs[f] = NewFactory(n, d) => facts'[f].conn = n /\ facts'[f].db = d /\ facts'[f].state = "open"
  BY <1>2, <1>5, <1>7 DEF Grows, NewFactory
<1> DEFINE old == cns[n]
           new == [old EXCEPT !.factories[d] = f, !.count = @ + m]
<1>9. conns' = [cns EXCEPT ![n] = new] BY <1>3
<1>10. old \in ConnRecord /\ d \in Db BY <1>0
<1>11. /\ new \in ConnRecord
       /\ new.isConnecting = old.isConnecting /\ new.pool = old.pool
       /\ new.first = old.first /\ new.waiting = old.waiting
       /\ new.factories = [old.factories EXCEPT ![d] = f] /\ new.count = old.count + m
  <2> HIDE DEF d, old
  <2>1. old.factories \in [Db -> Nat] /\ old.count \in Int BY <1>10 DEF ConnRecord
  <2>2. [old.factories EXCEPT ![d] = f] \in [Db -> Nat] /\ old.count + m \in Int
    BY <1>2, <1>10, <2>1
  <2> DEFINE upd == [old EXCEPT !.factories = [old.factories EXCEPT ![d] = f], !.count = old.count + m]
  <2>3. new = upd BY <1>10 DEF ConnRecord
  <2>4. /\ upd \in ConnRecord
        /\ upd.isConnecting = old.isConnecting /\ upd.pool = old.pool
        /\ upd.first = old.first /\ upd.waiting = old.waiting
        /\ upd.factories = [old.factories EXCEPT ![d] = f] /\ upd.count = old.count + m
    BY <1>10, <2>2 DEF ConnRecord
  <2> QED BY <2>3, <2>4
<1> HIDE DEF new
<1>12. /\ conns' \in Seq(ConnRecord) /\ Len(conns') = Len(conns) /\ conns'[n] = new
       /\ \A k \in 1..Len(conns) : k # n => conns'[k] = cns[k]
  BY <1>0, <1>9, <1>11
<1>13. old.count + 0 = old.count BY <1>10 DEF ConnRecord
<1> HIDE DEF R
<1>14. Uses(cns, cs, c, n, f, r)
  <2>1. f \in 1..Len(facts') BY <1>2, <1>7
  <2>2. \A g \in 1..Len(facts) : facts'[g].state = facts[g].state
    BY <1>0, <1>2, <1>7
  <2>3. conns'[n].factories = [conns[n].factories EXCEPT ![d] = f] BY <1>11, <1>12
  <2>4. \/ /\ conns[n].factories[d] = f /\ f # 0 /\ Len(facts') = Len(facts)
           /\ conns'[n].count = cns[n].count
        \/ /\ conns[n].factories[d] = 0 /\ f = Len(facts) + 1 /\ Len(facts') = f
           /\ facts'[f].conn = n /\ facts'[f].db = d /\ facts'[f].state = "open"
           /\ conns'[n].count = cns[n].count + 1
    BY <1>2, <1>7, <1>8, <1>11, <1>12, <1>13
  <2> QED BY <1>4, <1>5, <1>6, <1>11, <1>12, <2>1, <2>2, <2>3, <2>4 DEF Uses
<1> QED BY <1>14

-----------------------------------------------------------------------------
(* What the steps of one call keep for the others.                         *)

\* The slots of all but x and y are as they were.
LEMMA SlotsKept ==
  ASSUME ConstantsAssumption, RegistryTypeOK, \A c \in Call : SlotOK(c),
         NEW x \in Call, NEW y \in Call,
         \A c \in Call : c \notin {x, y} => call'[c] = call[c],
         facts' \in Seq(FactRecord), Grows(facts, facts', x),
         \A c \in Call : Gone(c) => Gone(c)'
  PROVE \A c \in Call : c \notin {x, y} => SlotOK(c)'
<1> SUFFICES ASSUME NEW c \in Call, c \notin {x, y}, HasSlot(c)'
             PROVE /\ call'[c].factory \in 1..Len(facts')
                   /\ call'[c].slot \in 1..Len(facts'[call'[c].factory].sessions)
                   /\ \/ facts'[call'[c].factory].state # "open"
                      \/ facts'[call'[c].factory].sessions[call'[c].slot] = InSlot(c)'
  BY DEF SlotOK, Closing
<1> DEFINE f == call[c].factory
           i == call[c].slot
<1>1. call'[c] = call[c] OBVIOUS
<1>2. HasSlot(c) BY <1>1 DEF HasSlot, Placeholding
<1>3. /\ f \in 1..Len(facts) /\ i \in 1..Len(facts[f].sessions)
      /\ Closing(f) \/ facts[f].sessions[i] = InSlot(c)
  BY <1>2 DEF SlotOK
<1>4. InSlot(c)' = InSlot(c) BY <1>1 DEF InSlot, Placeholding
<1>5. InSlot(c) \notin {0, x, -x}
  <2>1. c \in Nat \ {0} /\ x \in Nat /\ c # x BY DEF ConstantsAssumption
  <2> QED BY <2>1 DEF InSlot
<1>6. /\ f \in 1..Len(facts')
      /\ facts[f].state # "open" => facts'[f].state # "open"
      /\ Len(facts[f].sessions) <= Len(facts'[f].sessions)
      /\ facts'[f].state # "open" \/ OthersKept(facts[f].sessions, facts'[f].sessions, x)
  BY <1>3 DEF Grows
<1>7. facts[f].sessions \in Seq(Int) /\ facts'[f].sessions \in Seq(Int)
  <2>1. facts[f] \in FactRecord /\ facts'[f] \in FactRecord BY <1>3, <1>6 DEF RegistryTypeOK
  <2> QED BY <2>1 DEF FactRecord
<1>8. i \in 1..Len(facts'[f].sessions)
  <2> DEFINE a == Len(facts[f].sessions)
             b == Len(facts'[f].sessions)
  <2>1. a \in Nat /\ b \in Nat /\ a <= b /\ i \in 1..a
    <3>1. a \in Nat BY <1>7
    <3>2. b \in Nat BY <1>7
    <3> QED BY <1>3, <1>6, <3>1, <3>2
  <2> HIDE DEF a, b, i
  <2>2. i \in 1..b BY <2>1
  <2> QED BY <2>2 DEF b
<1>9. facts'[f].state # "open" \/ facts'[f].sessions[i] = InSlot(c)'
  <2>1. CASE Closing(f) BY <2>1, <1>6 DEF Closing
  <2>2. CASE facts'[f].state # "open" BY <2>2
  <2>3. CASE facts[f].sessions[i] = InSlot(c) /\ OthersKept(facts[f].sessions, facts'[f].sessions, x)
    BY <2>3, <1>3, <1>4, <1>5 DEF OthersKept
  <2> QED BY <1>3, <1>6, <2>1, <2>2, <2>3
<1> QED BY <1>1, <1>6, <1>8, <1>9

\* A call that had been made keeps its kind and what it is about.
Follows(q, r) == q.kind # None => r.kind = q.kind /\ r.of = q.of /\ r.step # "dbClose"

LEMMA GoneKept ==
  ASSUME ConstantsAssumption, RegistryTypeOK,
         NEW x \in Call, NEW r, call' = [call EXCEPT ![x] = r], Follows(call[x], r)
  PROVE \A c \in Call : Gone(c) => Gone(c)'
<1>1. SUFFICES ASSUME NEW c \in Call, NEW d \in Call, call[d].kind = "closeSession",
                      call[d].of = c, call[d].step # "dbClose"
               PROVE call'[d].kind = "closeSession" /\ call'[d].of = c /\ call'[d].step # "dbClose"
  BY DEF Gone
<1>2. None # "closeSession" BY DEF ConstantsAssumption, Kinds
<1>3. CASE d = x
  <2>1. call'[d] = r BY <1>3 DEF RegistryTypeOK
  <2> QED BY <1>1, <1>2, <1>3, <2>1 DEF Follows
<1>4. CASE d # x
  <2>1. call'[d] = call[d] BY <1>4 DEF RegistryTypeOK
  <2> QED BY <1>1, <2>1
<1> QED BY <1>3, <1>4

\* The call that moves is r, all others are as they were.
LEMMA CallsMove ==
  ASSUME RegistryTypeOK, \A c \in Call : KindOK(call[c]),
         NEW x \in Call, NEW r \in CallRecord, call' = [call EXCEPT ![x] = r], KindOK(r)
  PROVE /\ call' \in [Call -> CallRecord] /\ call'[x] = r
        /\ \A c \in Call : c # x => call'[c] = call[c]
        /\ \A c \in Call : KindOK(call'[c])
<1>1. call \in [Call -> CallRecord] BY DEF RegistryTypeOK
<1>2. /\ call' \in [Call -> CallRecord] /\ call'[x] = r
      /\ \A c \in Call : c # x => call'[c] = call[c]
  BY <1>1
<1> QED BY <1>2

\* A step of a call that waits for no connection, with the registry as it was.
LEMMA QuietStep ==
  ASSUME ConstantsAssumption, RegistryInv,
         NEW x \in Call, NEW y, NEW r \in CallRecord, call' = [call EXCEPT ![x] = r],
         KindOK(r), call[x].step # "connection",
         facts' \in Seq(FactRecord), Grows(facts, facts', y), Len(facts') = Len(facts),
         \A f \in 1..Len(facts) : facts[f].state = "deleted" => facts'[f].state = "deleted",
         UNCHANGED <<registry, conns, notify>>, rash' \in BOOLEAN, rash => rash'
  PROVE /\ RegistryTypeOK' /\ LinksOK' /\ WaitingOK' /\ ExactOK'
        /\ \A c \in Call : KindOK(call'[c])
<1> USE DEF RegistryInv
<1>1. /\ call' \in [Call -> CallRecord] /\ call'[x] = r
      /\ \A c \in Call : c # x => call'[c] = call[c]
      /\ \A c \in Call : KindOK(call'[c])
  BY CallsMove
<1>2. RegistryTypeOK' BY <1>1 DEF RegistryTypeOK
<1>3. LinksOK' BY DEF LinksOK, Grows
<1>4. WaitingOK'
  <2>1. \A c \in Call : call[c].step = "connection" => call'[c].step = "connection" BY <1>1
  <2>2. \A n \in 1..Len(conns) : conns[n].first \in Call /\ conns[n].waiting \in Seq(Call)
    <3>1. \A n \in 1..Len(conns) : conns[n] \in ConnRecord BY DEF RegistryTypeOK
    <3> QED BY <3>1 DEF ConnRecord
  <2>3. \A n \in 1..Len(conns) : \A i \in 1..Len(conns[n].waiting) : conns[n].waiting[i] \in Call
    BY <2>2
  <2> QED BY <2>1, <2>2, <2>3 DEF WaitingOK
<1>5. ExactOK'
  <2> SUFFICES ASSUME ~rash' PROVE ExactOK' BY DEF ExactOK
  <2>1. ~rash OBVIOUS
  <2>2. Served' = Served BY DEF Served
  <2>3. \A f \in 1..Len(facts') : ~Deleted(f)' =>
          /\ facts'[f].conn = registry /\ conns[registry].factories[facts'[f].db] = f
          /\ conns[registry].pool = "open"
    BY <2>1 DEF ExactOK, Grows, Deleted
  <2> QED BY <2>1, <2>2, <2>3 DEF ExactOK
<1> QED BY <1>1, <1>2, <1>3, <1>4, <1>5

\* The step of a call that has not been answered, and has no new target.
LEMMA TargetsKept ==
  ASSUME ConstantsAssumption, RegistryTypeOK, \A c \in Call : KindOK(call[c]), TargetsOK,
         NEW x \in Call, NEW y, NEW r \in CallRecord, call' = [call EXCEPT ![x] = r], KindOK(r),
         call[x].answer = None, call[x].kind # None, r.kind = call[x].kind, r.of = call[x].of,
         r.kind = "connect" /\ r.answer = "ok" => r.factory \in 1..Len(facts'),
         Grows(facts, facts', y), rash' = rash,
         r.step = "sessionsClose" => call[x].step = "sessionsClose",
         \A f \in 1..Len(facts) : facts'[f].state = "deleted" =>
           \/ facts[f].state = "deleted"
           \/ call[x].kind = "close" /\ f = call[x].of /\ r.step # "sessionsClose"
  PROVE TargetsOK'
<1>1. /\ call' \in [Call -> CallRecord] /\ call'[x] = r
      /\ \A c \in Call : c # x => call'[c] = call[c]
  BY CallsMove
<1>2. \A c \in Call : call'[c].kind = call[c].kind /\ call'[c].of = call[c].of
  BY <1>1
<1>3. \A c \in Call : call'[c].kind = "connect" /\ call'[c].answer = "ok" =>
        call'[c].factory \in 1..Len(facts')
  BY <1>1 DEF TargetsOK, Grows
<1>4. \A c \in Call : call'[c].kind = "closeSession" =>
        /\ call'[c].of \in Call
        /\ call'[call'[c].of].kind \in {"open", "openSession"} /\ call'[call'[c].of].answer = "ok"
  <2> SUFFICES ASSUME NEW c \in Call, call'[c].kind = "closeSession"
               PROVE /\ call'[c].of \in Call
                     /\ call'[call'[c].of].kind \in {"open", "openSession"}
                     /\ call'[call'[c].of].answer = "ok"
    OBVIOUS
  <2> DEFINE s == call[c].of
  <2>1. s \in Call /\ call[s].kind \in {"open", "openSession"} /\ call[s].answer = "ok"
    BY <1>2 DEF TargetsOK
  <2>2. s # x
    <3>1. None # "ok" BY DEF ConstantsAssumption
    <3> QED BY <2>1, <3>1
  <2> QED BY <1>1, <1>2, <2>1, <2>2
<1>5. \A c, d \in Call : call'[c].kind = "closeSession" /\ call'[d].kind = "closeSession"
                         /\ call'[c].of = call'[d].of => c = d
  BY <1>2 DEF TargetsOK
<1>6. \A c \in Call : call'[c].kind = "close" =>
        call'[c].of \in 1..Len(facts') /\ facts'[call'[c].of].state # "open"
  <2> SUFFICES ASSUME NEW c \in Call, call[c].kind = "close"
               PROVE call[c].of \in 1..Len(facts') /\ facts'[call[c].of].state # "open"
    BY <1>2
  <2>1. call[c].of \in 1..Len(facts) /\ facts[call[c].of].state # "open"
    BY DEF TargetsOK, Closing
  <2> QED BY <2>1 DEF Grows
<1>7. ~rash' =>
       /\ \A c, d \in Call : call'[c].kind = "close" /\ call'[d].kind = "close"
                             /\ call'[c].of = call'[d].of => c = d
       /\ \A c \in Call : call'[c].step = "sessionsClose" => facts'[call'[c].of].state # "deleted"
  <2> SUFFICES ASSUME ~rash PROVE
       /\ \A c, d \in Call : call[c].kind = "close" /\ call[d].kind = "close"
                             /\ call[c].of = call[d].of => c = d
       /\ \A c \in Call : call'[c].step = "sessionsClose" => facts'[call[c].of].state # "deleted"
    BY <1>2
  <2>1. \A c, d \in Call : call[c].kind = "close" /\ call[d].kind = "close"
                             /\ call[c].of = call[d].of => c = d
    BY DEF TargetsOK
  <2>2. ASSUME NEW c \in Call, call'[c].step = "sessionsClose" PROVE facts'[call[c].of].state # "deleted"
    <3>1. call[c].step = "sessionsClose" BY <1>1, <2>2
    <3>2. call[c].kind = "close" BY <3>1 DEF KindOK
    <3>3. call[c].of \in 1..Len(facts) /\ ~Deleted(call[c].of) BY <3>1, <3>2 DEF TargetsOK
    <3>4. ~(call[x].kind = "close" /\ call[c].of = call[x].of /\ r.step # "sessionsClose")
      BY <2>1, <2>2, <3>2, <1>1
    <3> QED BY <3>3, <3>4 DEF Deleted
  <2> QED BY <2>1, <2>2
<1> QED BY <1>3, <1>4, <1>5, <1>6, <1>7 DEF TargetsOK, Closing, Deleted

\* A step of a call that is under way, and neither waits for a connection nor deletes.
LEMMA QuietSystem ==
  ASSUME ConstantsAssumption, RegistryInv,
         NEW x \in Call, NEW y \in Call, NEW r \in CallRecord, call' = [call EXCEPT ![x] = r],
         KindOK(r), call[x].step \notin {"connection", "new", "done"},
         r.kind = call[x].kind, r.of = call[x].of, r.step # "dbClose",
         r.step = "sessionsClose" => call[x].step = "sessionsClose",
         r.kind = "connect" /\ r.answer = "ok" => r.factory \in 1..Len(facts),
         facts' \in Seq(FactRecord), Grows(facts, facts', y), SameStates(facts, facts'),
         UNCHANGED <<registry, conns, notify, rash>>,
         SlotOK(x)', SlotOK(y)'
  PROVE RegistryInv'
<1> USE DEF RegistryInv
<1>1. Len(facts') = Len(facts) /\ \A f \in 1..Len(facts) : facts'[f].state = facts[f].state
  BY DEF SameStates
<1>2. rash \in BOOLEAN BY DEF RegistryTypeOK
<1>3. KindOK(call[x]) OBVIOUS
<1>4. call[x].answer = None /\ call[x].kind # None BY <1>3 DEF KindOK
<1>5. /\ RegistryTypeOK' /\ LinksOK' /\ WaitingOK' /\ ExactOK'
      /\ \A c \in Call : KindOK(call'[c])
  BY <1>1, <1>2, QuietStep
<1>6. TargetsOK' BY <1>1, <1>4, TargetsKept
<1>7. \A c \in Call : Gone(c) => Gone(c)' BY GoneKept DEF Follows
<1>8. \A c \in Call : c # x => call'[c] = call[c] BY CallsMove
<1>9. \A c \in Call : c \notin {x, y} => SlotOK(c)'
  <2>1. \A c \in Call : c \notin {y, x} => SlotOK(c)'
    BY <1>7, <1>8, SlotsKept
  <2> QED BY <2>1
<1>10. \A c \in Call : SlotOK(c)' BY <1>9
<1> QED BY <1>5, <1>6, <1>10

Put(f, i, v) == [facts EXCEPT ![f].sessions[i] = v]

\* A call that has a slot writes it.
LEMMA PutInSlot ==
  ASSUME ConstantsAssumption, RegistryTypeOK, NEW c \in Call, SlotOK(c), HasSlot(c), NEW v \in Int
  PROVE LET gs == Put(call[c].factory, call[c].slot, v) IN
        /\ gs \in Seq(FactRecord) /\ Grows(facts, gs, c) /\ SameStates(facts, gs)
        /\ call[c].factory \in 1..Len(facts) /\ call[c].factory \in 1..Len(gs)
        /\ call[c].slot \in 1..Len(gs[call[c].factory].sessions)
        /\ gs[call[c].factory].sessions[call[c].slot] = v
<1> DEFINE f == call[c].factory
           i == call[c].slot
           ss == facts[f].sessions
           tt == [ss EXCEPT ![i] = v]
<1>1. /\ f \in 1..Len(facts) /\ i \in 1..Len(ss)
      /\ facts[f].state # "open" \/ ss[i] = InSlot(c)
  BY DEF SlotOK, Closing
<1>2. ss \in Seq(Int)
  <2>1. facts[f] \in FactRecord BY <1>1 DEF RegistryTypeOK
  <2> QED BY <2>1 DEF FactRecord
<1>3. InSlot(c) \in {0, c, -c} /\ c \in Nat BY DEF InSlot, ConstantsAssumption
<1> HIDE DEF ss, i, f
<1>4. /\ tt \in Seq(Int) /\ Len(tt) = Len(ss) /\ tt[i] = v
      /\ \A j \in 1..Len(ss) : j # i => tt[j] = ss[j]
  BY <1>1, <1>2
<1> HIDE DEF tt
<1>5. facts[f].state # "open" \/ OthersKept(ss, tt, c)
  BY <1>1, <1>2, <1>3, <1>4 DEF OthersKept
<1>6. Put(f, i, v) = Write(facts, f, tt)
  BY DEF Put, Write, tt, ss
<1>7. Len(ss) <= Len(tt) BY <1>2, <1>4
<1>8. facts \in Seq(FactRecord) BY DEF RegistryTypeOK
<1>9. /\ Write(facts, f, tt) \in Seq(FactRecord)
      /\ Grows(facts, Write(facts, f, tt), c) /\ SameStates(facts, Write(facts, f, tt))
      /\ Write(facts, f, tt)[f].sessions = tt
  <2>1. facts[f].state # "open" \/ OthersKept(facts[f].sessions, tt, c) BY <1>5 DEF ss
  <2>2. Len(facts[f].sessions) <= Len(tt) BY <1>7 DEF ss
  <2> QED BY <1>1, <1>3, <1>4, <1>8, <2>1, <2>2, WriteSlot
<1>10. f \in 1..Len(Write(facts, f, tt)) BY <1>1, <1>9 DEF SameStates
<1> QED BY <1>1, <1>4, <1>6, <1>9, <1>10 DEF f, i

\* A call that fails has no slot.
LEMMA FailDoes ==
  ASSUME ConstantsAssumption, RegistryTypeOK, NEW c \in Call, KindOK(call[c]),
         call[c].step \notin {"new", "sessionsClose"}
  PROVE \E r \in CallRecord :
          /\ \A cs : cs = Fail(call, c) => cs = [call EXCEPT ![c] = r]
          /\ KindOK(r) /\ r.step = "done" /\ r.answer = "error"
          /\ r.kind = call[c].kind /\ r.of = call[c].of
<1> DEFINE r == [call[c] EXCEPT !.step = "done", !.answer = "error"]
<1>1. Fail(call, c) = [call EXCEPT ![c] = r] BY DEF Fail
<1>2. call[c] \in CallRecord BY DEF RegistryTypeOK
<1>3. r \in CallRecord BY <1>2 DEF CallRecord, Steps
<1>4. /\ r.step = "done" /\ r.answer = "error" /\ r.kind = call[c].kind /\ r.of = call[c].of
      /\ r.left = call[c].left
  BY <1>2 DEF CallRecord
<1> HIDE DEF r
<1>5. KindOK(r) BY <1>4 DEF KindOK
<1> QED BY <1>1, <1>3, <1>4, <1>5

-----------------------------------------------------------------------------
(* The steps of calls that are under way.                                  *)

\* A step of c that leaves the factories alone.
LEMMA OwnStep ==
  ASSUME ConstantsAssumption, RegistryInv,
         NEW c \in Call, NEW r \in CallRecord, call' = [call EXCEPT ![c] = r],
         KindOK(r), call[c].step \notin {"connection", "new", "done", "sessionsClose"},
         r.kind = call[c].kind, r.of = call[c].of, r.step \notin {"dbClose", "sessionsClose"},
         r.kind # "connect" \/ r.answer # "ok",
         UNCHANGED <<registry, conns, facts, notify, rash>>,
         SlotOK(c)'
  PROVE RegistryInv'
<1>1. facts \in Seq(FactRecord) BY DEF RegistryInv, RegistryTypeOK
<1>2. Grows(facts, facts, c) /\ SameStates(facts, facts) BY <1>1, GrowsItself
<1>3. Grows(facts, facts', c) /\ SameStates(facts, facts') /\ facts' \in Seq(FactRecord)
  BY <1>1, <1>2
<1> QED BY <1>3, QuietSystem

\* A call that fails, and so leaves what it has where it is.
LEMMA FailedStep ==
  ASSUME ConstantsAssumption, RegistryInv, NEW c \in Call, call' = Fail(call, c),
         call[c].step \notin {"connection", "new", "done", "sessionsClose"},
         UNCHANGED <<registry, conns, facts, notify, rash>>
  PROVE RegistryInv'
<1>1. KindOK(call[c]) BY DEF RegistryInv
<1>2. PICK r \in CallRecord :
        /\ \A cs : cs = Fail(call, c) => cs = [call EXCEPT ![c] = r]
        /\ KindOK(r) /\ r.step = "done" /\ r.answer = "error"
        /\ r.kind = call[c].kind /\ r.of = call[c].of
  BY <1>1, FailDoes DEF RegistryInv
<1>3. call' = [call EXCEPT ![c] = r] BY <1>2
<1>4. call'[c] = r BY <1>3 DEF RegistryInv, RegistryTypeOK
<1>5. SlotOK(c)' BY <1>2, <1>4 DEF SlotOK, HasSlot, Placeholding
<1> QED BY <1>2, <1>3, <1>5, OwnStep

LEMMA MappingSessionKeeps ==
  ASSUME ConstantsAssumption, RegistryInv, NEW c \in Call, NEW ok \in BOOLEAN, MappingSession(c, ok)
  PROVE RegistryInv'
<1>1. CASE ~ok
  <2>1. /\ call' = Fail(call, c) /\ call[c].step = "mappingSession"
        /\ UNCHANGED <<registry, conns, facts, notify, rash>>
    BY <1>1 DEF MappingSession
  <2> QED BY <2>1, FailedStep
<1>2. CASE ok
  <2> DEFINE r == [call[c] EXCEPT !.step = "mappings"]
             f == call[c].factory
             i == call[c].slot
  <2>1. /\ call[c].step = "mappingSession" /\ facts' = Put(f, i, c)
        /\ call' = [call EXCEPT ![c] = r] /\ UNCHANGED <<registry, conns, notify, rash>>
    BY <1>2 DEF MappingSession, Put
  <2>2. call[c] \in CallRecord /\ KindOK(call[c]) /\ SlotOK(c) /\ RegistryTypeOK
    BY DEF RegistryInv, RegistryTypeOK
  <2>3. /\ r \in CallRecord /\ r.step = "mappings" /\ r.kind = call[c].kind /\ r.of = call[c].of
        /\ r.answer = call[c].answer /\ r.factory = f /\ r.slot = i /\ r.db = call[c].db
        /\ r.left = call[c].left
    BY <2>2 DEF CallRecord, Steps
  <2> HIDE DEF r
  <2>4. KindOK(r) /\ r.answer = None BY <2>1, <2>2, <2>3 DEF KindOK
  <2>5. HasSlot(c) BY <2>1 DEF HasSlot, Placeholding
  <2>6. c \in Int BY DEF ConstantsAssumption
  <2>7. /\ facts' \in Seq(FactRecord) /\ Grows(facts, facts', c) /\ SameStates(facts, facts')
        /\ f \in 1..Len(facts') /\ i \in 1..Len(facts'[f].sessions) /\ facts'[f].sessions[i] = c
    BY <2>1, <2>2, <2>5, <2>6, PutInSlot
  <2>8. call'[c] = r BY <2>1, <2>2 DEF RegistryTypeOK
  <2>9. SlotOK(c)' BY <2>3, <2>7, <2>8 DEF SlotOK, InSlot, Placeholding
  <2>10. None # "ok" BY DEF ConstantsAssumption
  <2> QED BY <2>1, <2>3, <2>4, <2>7, <2>9, <2>10, QuietSystem
<1> QED BY <1>1, <1>2

LEMMA MappingsResolvedKeeps ==
  ASSUME ConstantsAssumption, RegistryInv, NEW c \in Call, NEW err \in BOOLEAN,
         MappingsResolved(c, err)
  PROVE RegistryInv'
<1> DEFINE r == [call[c] EXCEPT !.step = "mappingClose", !.wrong = err]
<1>1. /\ call[c].step = "mappings" /\ call' = [call EXCEPT ![c] = r]
      /\ UNCHANGED <<registry, conns, facts, notify, rash>>
  BY DEF MappingsResolved
<1>2. call[c] \in CallRecord /\ KindOK(call[c]) /\ SlotOK(c) /\ RegistryTypeOK
  BY DEF RegistryInv, RegistryTypeOK
<1>3. /\ r \in CallRecord /\ r.step = "mappingClose" /\ r.kind = call[c].kind /\ r.of = call[c].of
      /\ r.answer = call[c].answer /\ r.factory = call[c].factory /\ r.slot = call[c].slot
      /\ r.db = call[c].db /\ r.left = call[c].left
  BY <1>2 DEF CallRecord, Steps
<1> HIDE DEF r
<1>4. KindOK(r) /\ r.answer = None BY <1>1, <1>2, <1>3 DEF KindOK
<1>5. call'[c] = r BY <1>1, <1>2 DEF RegistryTypeOK
<1>6. SlotOK(c)' BY <1>1, <1>2, <1>3, <1>5 DEF SlotOK, HasSlot, InSlot, Placeholding, Closing
<1>7. None # "ok" BY DEF ConstantsAssumption
<1> QED BY <1>1, <1>3, <1>4, <1>6, <1>7, OwnStep

LEMMA PoolClosedKeeps ==
  ASSUME ConstantsAssumption, RegistryInv, NEW c \in Call, PoolClosed(c)
  PROVE RegistryInv'
<1> DEFINE r == [call[c] EXCEPT !.step = "done", !.answer = "ok"]
<1>1. /\ call[c].step = "poolClose" /\ call' = [call EXCEPT ![c] = r]
      /\ UNCHANGED <<registry, conns, facts, notify, rash>>
  BY DEF PoolClosed
<1>2. call[c] \in CallRecord /\ KindOK(call[c]) /\ RegistryTypeOK
  BY DEF RegistryInv, RegistryTypeOK
<1>3. /\ r \in CallRecord /\ r.step = "done" /\ r.kind = call[c].kind /\ r.of = call[c].of
      /\ r.left = call[c].left
  BY <1>2 DEF CallRecord, Steps
<1> HIDE DEF r
<1>4. r.kind = "close" /\ None # "close" BY <1>1, <1>2, <1>3 DEF KindOK, ConstantsAssumption, Kinds
<1>5. KindOK(r) BY <1>1, <1>2, <1>3, <1>4 DEF KindOK
<1>6. call'[c] = r BY <1>1, <1>2 DEF RegistryTypeOK
<1>7. SlotOK(c)' BY <1>3, <1>4, <1>6 DEF SlotOK, HasSlot, Placeholding
<1> QED BY <1>1, <1>3, <1>4, <1>5, <1>7, OwnStep

LEMMA SessionMappingsKeeps ==
  ASSUME ConstantsAssumption, RegistryInv, NEW c \in Call, NEW err \in BOOLEAN,
         SessionMappings(c, err)
  PROVE RegistryInv'
<1>1. CASE err
  <2>1. /\ call' = Fail(call, c) /\ call[c].step = "sessionMappings"
        /\ UNCHANGED <<registry, conns, facts, notify, rash>>
    BY <1>1 DEF SessionMappings
  <2> QED BY <2>1, FailedStep
<1>2. CASE ~err
  <2> DEFINE r == [call[c] EXCEPT !.step = "done", !.answer = "ok"]
  <2>1. /\ call[c].step = "sessionMappings" /\ call' = [call EXCEPT ![c] = r]
        /\ UNCHANGED <<registry, conns, facts, notify, rash>>
    BY <1>2 DEF SessionMappings
  <2>2. call[c] \in CallRecord /\ KindOK(call[c]) /\ SlotOK(c) /\ RegistryTypeOK
    BY DEF RegistryInv, RegistryTypeOK
  <2>3. /\ r \in CallRecord /\ r.step = "done" /\ r.kind = call[c].kind /\ r.of = call[c].of
        /\ r.left = call[c].left /\ r.factory = call[c].factory /\ r.slot = call[c].slot
    BY <2>2 DEF CallRecord, Steps
  <2> HIDE DEF r
  <2>4. r.kind = "open" /\ None # "open" BY <2>1, <2>2, <2>3 DEF KindOK, ConstantsAssumption, Kinds
  <2>5. KindOK(r) BY <2>1, <2>2, <2>3, <2>4 DEF KindOK
  <2>6. call'[c] = r BY <2>1, <2>2 DEF RegistryTypeOK
  <2>7. SlotOK(c)'
    BY <2>1, <2>2, <2>3, <2>6 DEF SlotOK, HasSlot, InSlot, Placeholding, Closing
  <2> QED BY <2>1, <2>3, <2>4, <2>5, <2>7, OwnStep
<1> QED BY <1>1, <1>2

LEMMA SessionArrivesKeeps ==
  ASSUME ConstantsAssumption, RegistryInv, NEW c \in Call, NEW ok \in BOOLEAN, SessionArrives(c, ok)
  PROVE RegistryInv'
<1>1. CASE ~ok
  <2>1. /\ call' = Fail(call, c) /\ call[c].step = "dbSession"
        /\ UNCHANGED <<registry, conns, facts, notify, rash>>
    BY <1>1 DEF SessionArrives
  <2> QED BY <2>1, FailedStep
<1>2. CASE ok
  <2> DEFINE f == call[c].factory
             i == call[c].slot
  <2>1. /\ call[c].step = "dbSession" /\ facts' = Put(f, i, c)
        /\ UNCHANGED <<registry, conns, notify, rash>>
    BY <1>2 DEF SessionArrives, Put
  <2>2. call[c] \in CallRecord /\ KindOK(call[c]) /\ SlotOK(c) /\ RegistryTypeOK
    BY DEF RegistryInv, RegistryTypeOK
  <2>3. PICK r \in CallRecord :
          /\ call' = [call EXCEPT ![c] = r]
          /\ r.kind = call[c].kind /\ r.of = call[c].of /\ r.left = call[c].left
          /\ r.factory = f /\ r.slot = i
          /\ \/ r.step = "sessionMappings" /\ r.kind = "open" /\ r.answer = call[c].answer
             \/ r.step = "done" /\ r.answer = "ok"
    <3>1. CASE call[c].kind = "open" /\ call[c].mappings
      <4> DEFINE r == [call[c] EXCEPT !.step = "sessionMappings"]
      <4>1. call' = [call EXCEPT ![c] = r] BY <1>2, <3>1 DEF SessionArrives
      <4>2. /\ r \in CallRecord /\ r.step = "sessionMappings" /\ r.kind = call[c].kind
            /\ r.of = call[c].of /\ r.answer = call[c].answer /\ r.factory = f /\ r.slot = i
            /\ r.left = call[c].left
        BY <2>2 DEF CallRecord, Steps
      <4> HIDE DEF r
      <4> QED BY <3>1, <4>1, <4>2
    <3>2. CASE ~(call[c].kind = "open" /\ call[c].mappings)
      <4> DEFINE r == [call[c] EXCEPT !.step = "done", !.answer = "ok"]
      <4>1. call' = [call EXCEPT ![c] = r] BY <1>2, <3>2 DEF SessionArrives
      <4>2. /\ r \in CallRecord /\ r.step = "done" /\ r.kind = call[c].kind
            /\ r.of = call[c].of /\ r.answer = "ok" /\ r.factory = f /\ r.slot = i
            /\ r.left = call[c].left
        BY <2>2 DEF CallRecord, Steps
      <4> HIDE DEF r
      <4> QED BY <4>1, <4>2
    <3> QED BY <3>1, <3>2
  <2>4. r.kind \in {"open", "openSession"} /\ None \notin {"open", "openSession"} /\ r.left = {}
    BY <2>1, <2>2, <2>3 DEF KindOK, ConstantsAssumption, Kinds
  <2>5. KindOK(r) BY <2>1, <2>2, <2>3, <2>4 DEF KindOK
  <2>6. HasSlot(c) BY <2>1 DEF HasSlot, Placeholding
  <2>7. c \in Int BY DEF ConstantsAssumption
  <2>8. /\ facts' \in Seq(FactRecord) /\ Grows(facts, facts', c) /\ SameStates(facts, facts')
        /\ f \in 1..Len(facts') /\ i \in 1..Len(facts'[f].sessions) /\ facts'[f].sessions[i] = c
    BY <2>1, <2>2, <2>6, <2>7, PutInSlot
  <2>9. call'[c] = r BY <2>3, <2>2 DEF RegistryTypeOK
  <2>10. SlotOK(c)' BY <2>3, <2>8, <2>9 DEF SlotOK, InSlot, Placeholding
  <2> QED BY <2>1, <2>3, <2>4, <2>5, <2>8, <2>10, QuietSystem
<1> QED BY <1>1, <1>2

LEMMA OthersTwice ==
  ASSUME NEW ss \in Seq(Int), NEW tt \in Seq(Int), NEW uu \in Seq(Int), NEW x,
         OthersKept(ss, tt, x), OthersKept(tt, uu, x)
  PROVE OthersKept(ss, uu, x)
<1>1. Len(ss) \in Nat /\ Len(tt) \in Nat /\ Len(uu) \in Nat OBVIOUS
<1>2. Len(ss) <= Len(tt) /\ Len(tt) <= Len(uu) BY DEF OthersKept
<1>3. Len(ss) <= Len(uu) BY <1>1, <1>2
<1>4. ASSUME NEW i \in 1..Len(ss) PROVE ss[i] \in {0, x, -x} \/ uu[i] = ss[i]
  <2>1. i \in 1..Len(tt) BY <1>1, <1>2
  <2>2. ss[i] \in {0, x, -x} \/ tt[i] = ss[i] BY DEF OthersKept
  <2>3. tt[i] \in {0, x, -x} \/ uu[i] = tt[i] BY <2>1 DEF OthersKept
  <2> QED BY <2>2, <2>3
<1> QED BY <1>3, <1>4 DEF OthersKept

\* Of two changes by the same call, others see neither.
LEMMA GrowsTwice ==
  ASSUME NEW fs \in Seq(FactRecord), NEW gs \in Seq(FactRecord), NEW hs \in Seq(FactRecord), NEW x,
         Grows(fs, gs, x), Grows(gs, hs, x)
  PROVE Grows(fs, hs, x)
<1> SUFFICES ASSUME NEW f \in 1..Len(fs)
             PROVE /\ f \in 1..Len(hs)
                   /\ hs[f].conn = fs[f].conn /\ hs[f].db = fs[f].db
                   /\ fs[f].state # "open" => hs[f].state # "open"
                   /\ Len(fs[f].sessions) <= Len(hs[f].sessions)
                   /\ hs[f].state # "open" \/ OthersKept(fs[f].sessions, hs[f].sessions, x)
  BY DEF Grows
<1>1. /\ f \in 1..Len(gs)
      /\ gs[f].conn = fs[f].conn /\ gs[f].db = fs[f].db
      /\ fs[f].state # "open" => gs[f].state # "open"
      /\ Len(fs[f].sessions) <= Len(gs[f].sessions)
      /\ gs[f].state # "open" \/ OthersKept(fs[f].sessions, gs[f].sessions, x)
  BY DEF Grows
<1>2. /\ f \in 1..Len(hs)
      /\ hs[f].conn = gs[f].conn /\ hs[f].db = gs[f].db
      /\ gs[f].state # "open" => hs[f].state # "open"
      /\ Len(gs[f].sessions) <= Len(hs[f].sessions)
      /\ hs[f].state # "open" \/ OthersKept(gs[f].sessions, hs[f].sessions, x)
  BY <1>1 DEF Grows
<1>3. fs[f] \in FactRecord /\ gs[f] \in FactRecord /\ hs[f] \in FactRecord BY <1>1, <1>2
<1>4. /\ fs[f].sessions \in Seq(Int) /\ gs[f].sessions \in Seq(Int) /\ hs[f].sessions \in Seq(Int)
  BY <1>3 DEF FactRecord
<1>6. Len(fs[f].sessions) <= Len(hs[f].sessions)
  <2>1. Len(fs[f].sessions) \in Nat BY <1>4
  <2>2. Len(gs[f].sessions) \in Nat BY <1>4
  <2>3. Len(hs[f].sessions) \in Nat BY <1>4
  <2> QED BY <1>1, <1>2, <2>1, <2>2, <2>3
<1>5. OthersKept(fs[f].sessions, gs[f].sessions, x) /\ OthersKept(gs[f].sessions, hs[f].sessions, x)
      => OthersKept(fs[f].sessions, hs[f].sessions, x)
  BY <1>4, OthersTwice
<1> QED BY <1>1, <1>2, <1>5, <1>6

LEMMA SameTwice ==
  ASSUME NEW fs, NEW gs, NEW hs, SameStates(fs, gs), SameStates(gs, hs)
  PROVE SameStates(fs, hs)
BY DEF SameStates

LEMMA MappingClosedKeeps ==
  ASSUME ConstantsAssumption, RegistryInv, NEW c \in Call, NEW ok \in BOOLEAN, MappingClosed(c, ok)
  PROVE RegistryInv'
<1> DEFINE f == call[c].factory
           i == call[c].slot
           fs == Put(f, i, 0)
<1>1. /\ call[c].step = "mappingClose" /\ UNCHANGED <<registry, conns, notify, rash>>
  BY DEF MappingClosed
<1>2. call[c] \in CallRecord /\ KindOK(call[c]) /\ SlotOK(c) /\ RegistryTypeOK
  BY DEF RegistryInv, RegistryTypeOK
<1>3. HasSlot(c) BY <1>1 DEF HasSlot
<1>4. 0 \in Int OBVIOUS
<1>5. /\ fs \in Seq(FactRecord) /\ Grows(facts, fs, c) /\ SameStates(facts, fs)
      /\ f \in 1..Len(facts) /\ f \in 1..Len(fs)
  BY <1>2, <1>3, <1>4, PutInSlot
<1>6. call[c].kind \in Asks BY <1>1, <1>2 DEF KindOK
<1>7. CASE ~ok
  <2>1. call' = Fail(call, c) /\ facts' = facts BY <1>7 DEF MappingClosed
  <2> QED BY <1>1, <2>1, FailedStep
<1>8. CASE ok /\ call[c].wrong
  <2>1. call' = Fail(call, c) /\ facts' = fs BY <1>8 DEF MappingClosed, Put
  <2>2. PICK r \in CallRecord :
          /\ \A cs : cs = Fail(call, c) => cs = [call EXCEPT ![c] = r]
          /\ KindOK(r) /\ r.step = "done" /\ r.answer = "error"
          /\ r.kind = call[c].kind /\ r.of = call[c].of
    BY <1>1, <1>2, FailDoes
  <2>3. call' = [call EXCEPT ![c] = r] BY <2>1, <2>2
  <2>4. call'[c] = r BY <1>2, <2>3 DEF RegistryTypeOK
  <2>5. SlotOK(c)' BY <2>2, <2>4 DEF SlotOK, HasSlot, Placeholding
  <2> HIDE DEF fs
  <2> QED BY <1>1, <1>5, <2>1, <2>2, <2>3, <2>5, QuietSystem
<1>9. CASE ok /\ ~call[c].wrong
  <2>1. HasFactory(fs, call, c, f) BY <1>9 DEF MappingClosed, Put
  <2>2. call \in [Call -> CallRecord] /\ facts \in Seq(FactRecord) BY <1>2 DEF RegistryTypeOK
  <2> HIDE DEF fs
  <2>3. PICK r \in CallRecord : call' = [call EXCEPT ![c] = r] /\ Got(fs, facts', call[c], r, c, f)
    BY <1>5, <1>6, <2>1, <2>2, HasFactoryDoes
  <2>4. /\ Given(facts', call[c], r, c, f) /\ facts' \in Seq(FactRecord)
        /\ Grows(fs, facts', c) /\ SameStates(fs, facts')
    BY <2>3 DEF Got
  <2>5. Grows(facts, facts', c) BY <1>5, <2>2, <2>4, GrowsTwice
  <2>6. SameStates(facts, facts') BY <1>5, <2>4, SameTwice
  <2>7. call'[c] = r BY <2>2, <2>3
  <2>8. KindOK(r) BY <1>1, <1>2, <2>4 DEF KindOK, Given, Asks
  <2>9. SlotOK(c)'
    <3>1. f \in 1..Len(facts') BY <1>5, <2>6 DEF SameStates
    <3>2. CASE r.step \in {"mappingSession", "dbSession"}
      BY <2>4, <2>7, <3>1, <3>2 DEF SlotOK, InSlot, Placeholding, Given
    <3>3. CASE r.step \notin {"mappingSession", "dbSession"}
      BY <2>4, <2>7, <3>3 DEF SlotOK, HasSlot, Placeholding, Given
    <3> QED BY <3>2, <3>3
  <2>10. r.kind = call[c].kind /\ r.of = call[c].of /\ r.step \notin {"dbClose", "sessionsClose"}
         /\ r.factory \in 1..Len(facts)
    BY <1>5, <2>4 DEF Given
  <2> QED BY <1>1, <2>3, <2>4, <2>5, <2>6, <2>8, <2>9, <2>10, QuietSystem
<1> QED BY <1>7, <1>8, <1>9

LEMMA SessionClosedKeeps ==
  ASSUME ConstantsAssumption, RegistryInv, NEW c \in Call, SessionClosed(c)
  PROVE RegistryInv'
<1>0. PICK s : s = call[c].of OBVIOUS
<1> DEFINE r == [call[c] EXCEPT !.step = "done", !.answer = "ok"]
<1>1. /\ call[c].step = "dbClose" /\ call' = [call EXCEPT ![c] = r]
      /\ UNCHANGED <<registry, conns, notify, rash>>
      /\ facts' = Put(call[s].factory, call[s].slot, 0)
  BY <1>0 DEF SessionClosed, CloseSlot, Put
<1>2. call[c] \in CallRecord /\ KindOK(call[c]) /\ TargetsOK /\ RegistryTypeOK
  BY DEF RegistryInv, RegistryTypeOK
<1>3. /\ r \in CallRecord /\ r.step = "done" /\ r.kind = call[c].kind /\ r.of = call[c].of
      /\ r.left = call[c].left
  BY <1>2 DEF CallRecord, Steps
<1> HIDE DEF r
<1>4. call[c].kind = "closeSession" /\ None \notin {"closeSession", "ok"}
  BY <1>1, <1>2 DEF KindOK, ConstantsAssumption, Kinds
<1>5. KindOK(r) BY <1>1, <1>2, <1>3, <1>4 DEF KindOK
<1>6. s \in Call /\ call[s].kind \in {"open", "openSession"} /\ call[s].answer = "ok"
  BY <1>0, <1>2, <1>4 DEF TargetsOK
<1>7. ~Gone(s)
  <2> SUFFICES ASSUME NEW d \in Call, call[d].kind = "closeSession", call[d].of = s,
                      call[d].step # "dbClose"
               PROVE FALSE
    BY DEF Gone
  <2> QED BY <1>0, <1>1, <1>2, <1>4 DEF TargetsOK
<1>8. HasSlot(s) /\ SlotOK(s) BY <1>6, <1>7 DEF HasSlot, RegistryInv
<1>9. 0 \in Int OBVIOUS
<1>10. facts' \in Seq(FactRecord) /\ Grows(facts, facts', s) /\ SameStates(facts, facts')
  BY <1>1, <1>2, <1>6, <1>8, <1>9, PutInSlot
<1>11. call'[c] = r /\ call'[s] = call[s]
  BY <1>1, <1>2, <1>4, <1>6 DEF RegistryTypeOK
<1>12. SlotOK(c)' BY <1>3, <1>4, <1>11 DEF SlotOK, HasSlot, Placeholding
<1>13. SlotOK(s)'
  <2>1. Gone(s)' BY <1>0, <1>3, <1>4, <1>11 DEF Gone
  <2>2. call[s].step = "done" BY <1>4, <1>6 DEF RegistryInv, KindOK
  <2> QED BY <1>11, <2>1, <2>2 DEF SlotOK, HasSlot, Placeholding
<1> QED BY <1>1, <1>3, <1>4, <1>5, <1>6, <1>10, <1>12, <1>13, QuietSystem

-----------------------------------------------------------------------------
(* New calls on factories and sessions.                                    *)

\* A new call, with its target.
LEMMA NewTargets ==
  ASSUME ConstantsAssumption, RegistryTypeOK, \A c \in Call : KindOK(call[c]), TargetsOK,
         NEW x \in Call, NEW y, NEW r \in CallRecord, call' = [call EXCEPT ![x] = r], KindOK(r),
         call[x].kind = None,
         r.kind = "connect" /\ r.answer = "ok" => r.factory \in 1..Len(facts'),
         r.kind = "closeSession" => r.of \in Call /\ OpenSession(r.of),
         r.kind = "close" =>
           /\ r.of \in 1..Len(facts) /\ facts'[r.of].state # "open"
           /\ ~rash' => facts[r.of].state = "open"
           /\ ~rash' /\ r.step = "sessionsClose" => facts'[r.of].state # "deleted",
         Grows(facts, facts', y), rash => rash',
         \A f \in 1..Len(facts) : facts'[f].state = "deleted" =>
           facts[f].state = "deleted" \/ (r.kind = "close" /\ f = r.of)
  PROVE TargetsOK'
<1>1. /\ call' \in [Call -> CallRecord] /\ call'[x] = r
      /\ \A c \in Call : c # x => call'[c] = call[c]
  BY CallsMove
<1>0. /\ None \notin {"connect", "closeSession", "close", "open", "openSession", "ok"}
      /\ call[x].step = "new"
  BY DEF ConstantsAssumption, Kinds, KindOK
<1>3. \A c \in Call : call'[c].kind = "connect" /\ call'[c].answer = "ok" =>
        call'[c].factory \in 1..Len(facts')
  BY <1>1 DEF TargetsOK, Grows
<1>4. \A c \in Call : call'[c].kind = "closeSession" =>
        /\ call'[c].of \in Call
        /\ call'[call'[c].of].kind \in {"open", "openSession"} /\ call'[call'[c].of].answer = "ok"
  <2> SUFFICES ASSUME NEW c \in Call, call'[c].kind = "closeSession"
               PROVE /\ call'[c].of \in Call
                     /\ call'[call'[c].of].kind \in {"open", "openSession"}
                     /\ call'[call'[c].of].answer = "ok"
    OBVIOUS
  <2>0. PICK s : s = call'[c].of OBVIOUS
  <2>1. s \in Call /\ call[s].kind \in {"open", "openSession"} /\ call[s].answer = "ok"
    <3>1. CASE c = x BY <1>1, <2>0, <3>1 DEF OpenSession
    <3>2. CASE c # x BY <1>1, <2>0, <3>2 DEF TargetsOK
    <3> QED BY <3>1, <3>2
  <2>2. s # x BY <1>0, <2>1
  <2> QED BY <1>1, <2>0, <2>1, <2>2
<1>5. \A c, d \in Call : call'[c].kind = "closeSession" /\ call'[d].kind = "closeSession"
                         /\ call'[c].of = call'[d].of => c = d
  <2> SUFFICES ASSUME NEW c \in Call, NEW d \in Call, call'[c].kind = "closeSession",
                      call'[d].kind = "closeSession", call'[c].of = call'[d].of, c # d
               PROVE FALSE
    OBVIOUS
  <2>1. CASE c = x BY <1>1, <2>1 DEF OpenSession
  <2>2. CASE d = x BY <1>1, <2>2 DEF OpenSession
  <2>3. CASE c # x /\ d # x BY <1>1, <2>3 DEF TargetsOK
  <2> QED BY <2>1, <2>2, <2>3
<1>6. \A c \in Call : call'[c].kind = "close" =>
        call'[c].of \in 1..Len(facts') /\ facts'[call'[c].of].state # "open"
  <2> SUFFICES ASSUME NEW c \in Call, call'[c].kind = "close"
               PROVE call'[c].of \in 1..Len(facts') /\ facts'[call'[c].of].state # "open"
    OBVIOUS
  <2>1. CASE c = x BY <1>1, <2>1 DEF Grows
  <2>2. CASE c # x
    <3>1. call[c].of \in 1..Len(facts) /\ facts[call[c].of].state # "open"
      BY <1>1, <2>2 DEF TargetsOK, Closing
    <3> QED BY <1>1, <2>2, <3>1 DEF Grows
  <2> QED BY <2>1, <2>2
<1>7. ASSUME ~rash', NEW c \in Call, c # x, call[c].kind = "close", r.kind = "close"
      PROVE call[c].of # r.of
  <2>1. facts[call[c].of].state # "open" BY <1>7 DEF TargetsOK, Closing
  <2>2. facts[r.of].state = "open" BY <1>7
  <2> QED BY <2>1, <2>2
<1>8. ~rash' => \A c, d \in Call : call'[c].kind = "close" /\ call'[d].kind = "close"
                                   /\ call'[c].of = call'[d].of => c = d
  <2> SUFFICES ASSUME ~rash', NEW c \in Call, NEW d \in Call, call'[c].kind = "close",
                      call'[d].kind = "close", call'[c].of = call'[d].of, c # d
               PROVE FALSE
    OBVIOUS
  <2>1. CASE c = x BY <1>1, <1>7, <2>1
  <2>2. CASE d = x BY <1>1, <1>7, <2>2
  <2>3. CASE c # x /\ d # x BY <1>1, <2>3 DEF TargetsOK
  <2> QED BY <2>1, <2>2, <2>3
<1>9. ~rash' => \A c \in Call : call'[c].step = "sessionsClose" => facts'[call'[c].of].state # "deleted"
  <2> SUFFICES ASSUME ~rash', NEW c \in Call, call'[c].step = "sessionsClose"
               PROVE facts'[call'[c].of].state # "deleted"
    OBVIOUS
  <2>1. CASE c = x BY <1>1, <2>1 DEF KindOK
  <2>2. CASE c # x
    <3>1. call[c].step = "sessionsClose" /\ call'[c] = call[c] BY <1>1, <2>2
    <3>2. call[c].kind = "close" BY <3>1 DEF KindOK
    <3>3. call[c].of \in 1..Len(facts) /\ facts[call[c].of].state # "deleted"
      BY <3>1, <3>2 DEF TargetsOK, Deleted
    <3> QED BY <2>2, <3>1, <3>2, <3>3, <1>7
  <2> QED BY <2>1, <2>2
<1> QED BY <1>3, <1>4, <1>5, <1>6, <1>8, <1>9 DEF TargetsOK, Closing, Deleted

LEMMA OpenKeeps ==
  ASSUME ConstantsAssumption, RegistryInv, NEW c \in Call, NEW f, NEW mappings \in BOOLEAN,
         Open(c, f, mappings)
  PROVE RegistryInv'
<1> DEFINE q == [call[c] EXCEPT !.kind = "open", !.mappings = mappings]
           cs == [call EXCEPT ![c] = q]
<1>1. /\ call[c].kind = None /\ f \in Held
      /\ StartSession(facts, cs, c, f, "dbSession")
      /\ rash' = (rash \/ Closing(f)) /\ UNCHANGED <<registry, conns, notify>>
  BY DEF Open, NextCall
<1>2. /\ call[c] \in CallRecord /\ KindOK(call[c]) /\ RegistryTypeOK /\ TargetsOK
      /\ call \in [Call -> CallRecord] /\ facts \in Seq(FactRecord) /\ rash \in BOOLEAN
  BY DEF RegistryInv, RegistryTypeOK
<1>3. f \in 1..Len(facts) BY <1>1, <1>2 DEF Held, TargetsOK
<1>4. /\ q \in CallRecord /\ q.kind = "open" /\ q.step = call[c].step /\ q.of = call[c].of
      /\ q.left = call[c].left /\ q.answer = call[c].answer
  BY <1>2 DEF CallRecord, Kinds
<1> HIDE DEF q
<1>5. cs \in [Call -> CallRecord] /\ cs[c] = q BY <1>2, <1>4
<1>6. "dbSession" \in Steps BY DEF Steps
<1> HIDE DEF cs
<1>7. PICK r \in CallRecord :
    /\ call' = [cs EXCEPT ![c] = r]
    /\ facts' \in Seq(FactRecord) /\ Grows(facts, facts', c) /\ SameStates(facts, facts')
    /\ r.kind = cs[c].kind /\ r.db = cs[c].db /\ r.of = cs[c].of /\ r.left = cs[c].left
    /\ r.answer = cs[c].answer /\ r.factory = f /\ r.step = "dbSession"
    /\ r.slot \in 1..Len(facts'[f].sessions) /\ facts'[f].sessions[r.slot] = -c
  BY SMTT(20), <1>1, <1>2, <1>3, <1>5, <1>6, StartSessionDoes
<1>8. call' = [call EXCEPT ![c] = r] BY <1>2, <1>7 DEF cs
<1>9. call[c].step = "new" /\ call[c].answer = None /\ call[c].left = {} /\ None # "open"
  BY <1>1, <1>2 DEF KindOK, ConstantsAssumption, Kinds
<1>10. KindOK(r) /\ r.kind = "open" BY <1>4, <1>5, <1>7, <1>9 DEF KindOK
<1>11. Len(facts') = Len(facts) /\ \A g \in 1..Len(facts) : facts'[g].state = facts[g].state
  BY <1>7 DEF SameStates
<1>12. rash' \in BOOLEAN /\ (rash => rash') BY <1>1, <1>2
<1>13. /\ RegistryTypeOK' /\ LinksOK' /\ WaitingOK' /\ ExactOK'
       /\ \A d \in Call : KindOK(call'[d])
  BY <1>1, <1>7, <1>8, <1>9, <1>10, <1>11, <1>12, QuietStep
<1>14. TargetsOK'
  <2>1. \A d \in Call : KindOK(call[d]) BY DEF RegistryInv
  <2> QED BY <1>1, <1>2, <1>7, <1>8, <1>10, <1>11, <1>12, <2>1, NewTargets
<1>15. \A d \in Call : Gone(d) => Gone(d)' BY <1>1, <1>2, <1>8, GoneKept DEF Follows
<1>16. call'[c] = r /\ \A d \in Call : d # c => call'[d] = call[d] BY <1>2, <1>8
<1>17. \A d \in Call : d \notin {c, c} => SlotOK(d)'
  BY <1>2, <1>7, <1>15, <1>16, SlotsKept DEF RegistryInv
<1>18. SlotOK(c)'
  <2>1. f \in 1..Len(facts') BY <1>3, <1>11
  <2> QED BY <1>7, <1>16, <2>1 DEF SlotOK, InSlot, Placeholding
<1> QED BY <1>13, <1>14, <1>17, <1>18 DEF RegistryInv

LEMMA CloseSessionKeeps ==
  ASSUME ConstantsAssumption, RegistryInv, NEW c \in Call, NEW s \in Call, CloseSession(c, s)
  PROVE RegistryInv'
<1> DEFINE r == [call[c] EXCEPT !.kind = "closeSession", !.of = s, !.step = "dbClose"]
<1>1. /\ call[c].kind = None /\ OpenSession(s) /\ call' = [call EXCEPT ![c] = r]
      /\ UNCHANGED <<registry, conns, facts, notify, rash>>
  BY DEF CloseSession, NextCall
<1>2. /\ call[c] \in CallRecord /\ KindOK(call[c]) /\ RegistryTypeOK /\ TargetsOK
      /\ call \in [Call -> CallRecord] /\ facts \in Seq(FactRecord) /\ rash \in BOOLEAN
  BY DEF RegistryInv, RegistryTypeOK
<1>3. /\ r \in CallRecord /\ r.kind = "closeSession" /\ r.of = s /\ r.step = "dbClose"
      /\ r.left = call[c].left /\ r.answer = call[c].answer
  <2>1. s \in Nat BY DEF ConstantsAssumption
  <2> QED BY <1>2, <2>1 DEF CallRecord, Kinds, Steps
<1> HIDE DEF r
<1>4. call[c].step = "new" /\ call[c].answer = None /\ call[c].left = {} /\ None # "closeSession"
  BY <1>1, <1>2 DEF KindOK, ConstantsAssumption, Kinds
<1>5. KindOK(r) BY <1>3, <1>4 DEF KindOK
<1>6. Grows(facts, facts', c) /\ SameStates(facts, facts') /\ facts' \in Seq(FactRecord)
  BY <1>1, <1>2, GrowsItself
<1>7. /\ RegistryTypeOK' /\ LinksOK' /\ WaitingOK' /\ ExactOK'
      /\ \A d \in Call : KindOK(call'[d])
  BY <1>1, <1>2, <1>3, <1>4, <1>5, <1>6, QuietStep
<1>8. TargetsOK'
  <2>1. \A d \in Call : KindOK(call[d]) BY DEF RegistryInv
  <2> QED BY <1>1, <1>2, <1>3, <1>5, <1>6, <2>1, NewTargets
<1>9. \A d \in Call : Gone(d) => Gone(d)' BY <1>1, <1>2, GoneKept DEF Follows
<1>10. call'[c] = r /\ \A d \in Call : d # c => call'[d] = call[d] BY <1>1, <1>2
<1>11. \A d \in Call : d \notin {c, c} => SlotOK(d)'
  BY <1>2, <1>6, <1>9, <1>10, SlotsKept DEF RegistryInv
<1>12. SlotOK(c)' BY <1>3, <1>10 DEF SlotOK, HasSlot, Placeholding
<1> QED BY <1>7, <1>8, <1>11, <1>12 DEF RegistryInv

-----------------------------------------------------------------------------
(* The end of a factory.                                                   *)

Marked(fs, f) == [fs EXCEPT ![f].state = "deleted"]

\* In hs factory f is marked as deleted, all else is as in fs.
Marks(fs, f, hs, x) ==
  /\ hs \in Seq(FactRecord) /\ Len(hs) = Len(fs) /\ Grows(fs, hs, x)
  /\ hs[f].state = "deleted" /\ \A g \in 1..Len(fs) : g # f => hs[g] = fs[g]

\* A factory is marked as deleted.
LEMMA MarkDeleted ==
  ASSUME NEW fs, NEW f, NEW x, NEW hs, fs \in Seq(FactRecord), f \in 1..Len(fs),
         hs = Marked(fs, f)
  PROVE Marks(fs, f, hs, x)
<1> DEFINE r == [fs[f] EXCEPT !.state = "deleted"]
<1>1. fs[f] \in FactRecord OBVIOUS
<1>2. /\ r \in FactRecord /\ r.state = "deleted" /\ r.conn = fs[f].conn /\ r.db = fs[f].db
      /\ r.sessions = fs[f].sessions
  BY <1>1 DEF FactRecord
<1>3. hs = [fs EXCEPT ![f] = r] BY DEF Marked
<1> HIDE DEF r
<1>4. /\ hs \in Seq(FactRecord) /\ Len(hs) = Len(fs) /\ hs[f] = r
      /\ \A g \in 1..Len(fs) : g # f => hs[g] = fs[g]
  BY <1>2, <1>3
<1>5. \A g \in 1..Len(fs) : Len(fs[g].sessions) \in Nat BY DEF FactRecord
<1>6. \A g \in 1..Len(fs) : OthersKept(fs[g].sessions, fs[g].sessions, x)
  BY <1>5 DEF OthersKept
<1>7. Grows(fs, hs, x)
  <2> SUFFICES ASSUME NEW g \in 1..Len(fs)
               PROVE /\ g \in 1..Len(hs)
                     /\ hs[g].conn = fs[g].conn /\ hs[g].db = fs[g].db
                     /\ fs[g].state # "open" => hs[g].state # "open"
                     /\ Len(fs[g].sessions) <= Len(hs[g].sessions)
                     /\ hs[g].state # "open" \/ OthersKept(fs[g].sessions, hs[g].sessions, x)
    BY DEF Grows
  <2>1. CASE g = f BY <2>1, <1>2, <1>4, <1>5
  <2>2. CASE g # f BY <2>2, <1>4, <1>5, <1>6
  <2> QED BY <2>1, <2>2
<1> QED BY <1>2, <1>4, <1>7 DEF Marks

\* What deleteFactory does to the connections: nothing, if it throws; else the factory
\* of database d is no longer on Connection R of the registry, Connection n counts one
\* less, and with the last one R leaves the registry with its pool closed.
Dropped(R, n, d) ==
  /\ R \in 1..Len(conns) /\ conns[R].factories[d] # 0
  /\ conns' \in Seq(ConnRecord) /\ Len(conns') = Len(conns)
  /\ \A m \in 1..Len(conns) :
       /\ conns'[m].isConnecting = conns[m].isConnecting
       /\ conns'[m].first = conns[m].first /\ conns'[m].waiting = conns[m].waiting
       /\ m # R => conns'[m].factories = conns[m].factories
  /\ conns'[R].factories = [conns[R].factories EXCEPT ![d] = 0]
  /\ conns'[n].count = conns[n].count - 1
  /\ \/ conns[n].count = 1 /\ registry' = 0
     \/ conns[n].count # 1 /\ registry' = R /\ conns'[R].pool = conns[R].pool

DropFactory(n, d) ==
  LET cns == [conns EXCEPT ![registry].factories[d] = 0]
      last == conns[n].count = 1 IN
  /\ conns' = [cns EXCEPT ![n].count = @ - 1, ![registry].pool = IF last THEN "closed" ELSE @]
  /\ registry' = IF last THEN 0 ELSE registry

Replace(s, i, e) == [s EXCEPT ![i] = e]

LEMMA ReplaceDoes ==
  ASSUME NEW s, NEW i, NEW e, NEW t, s \in Seq(ConnRecord), i \in 1..Len(s), e \in ConnRecord,
         t = Replace(s, i, e)
  PROVE /\ t \in Seq(ConnRecord) /\ Len(t) = Len(s) /\ t[i] = e
        /\ \A j \in 1..Len(s) : j # i => t[j] = s[j]
BY DEF Replace

LEMMA DropDoes ==
  ASSUME RegistryTypeOK, NEW n \in 1..Len(conns), NEW d \in Db, registry # 0,
         conns[registry].factories[d] # 0,
         DropFactory(n, d)
  PROVE Dropped(registry, n, d)
<1>0. PICK R : R = registry OBVIOUS
<1>1. conns \in Seq(ConnRecord) /\ R \in 1..Len(conns) BY <1>0 DEF RegistryTypeOK
<1>2. PICK last \in BOOLEAN : last = (conns[n].count = 1) OBVIOUS
<1>3. \A m \in 1..Len(conns) : conns[m] \in ConnRecord BY <1>1
<1> DEFINE a == [conns[R] EXCEPT !.factories[d] = 0]
<1>4. PICK A : A = a OBVIOUS
<1>5. /\ A \in ConnRecord /\ A.isConnecting = conns[R].isConnecting /\ A.pool = conns[R].pool
      /\ A.count = conns[R].count /\ A.first = conns[R].first /\ A.waiting = conns[R].waiting
      /\ A.factories = [conns[R].factories EXCEPT ![d] = 0]
  <2>1. conns[R].factories \in [Db -> Nat] BY <1>1, <1>3 DEF ConnRecord
  <2>2. [conns[R].factories EXCEPT ![d] = 0] \in [Db -> Nat] BY <2>1
  <2> QED BY <1>1, <1>3, <1>4, <2>2 DEF ConnRecord
<1>6. PICK cns \in Seq(ConnRecord) :
        /\ cns = [conns EXCEPT ![R].factories[d] = 0] /\ Len(cns) = Len(conns) /\ cns[R] = A
        /\ \A m \in 1..Len(conns) : m # R => cns[m] = conns[m]
  <2>1. [conns EXCEPT ![R].factories[d] = 0] = [conns EXCEPT ![R] = A] BY <1>4
  <2> DEFINE new == [conns EXCEPT ![R] = A]
  <2>2. /\ new \in Seq(ConnRecord) /\ Len(new) = Len(conns) /\ new[R] = A
        /\ \A m \in 1..Len(conns) : m # R => new[m] = conns[m]
    BY <1>1, <1>5
  <2> QED BY <2>1, <2>2
<1>7. PICK B : B = [cns[n] EXCEPT !.count = @ - 1] OBVIOUS
<1>8. \A m \in 1..Len(conns) : cns[m] \in ConnRecord BY <1>6
<1>9. /\ B \in ConnRecord /\ B.isConnecting = cns[n].isConnecting /\ B.pool = cns[n].pool
      /\ B.count = cns[n].count - 1 /\ B.first = cns[n].first /\ B.waiting = cns[n].waiting
      /\ B.factories = cns[n].factories
  <2>1. PICK o \in ConnRecord : o = cns[n] BY <1>8
  <2>2. o.count - 1 \in Int BY DEF ConnRecord
  <2>3. B = [o EXCEPT !.count = o.count - 1] BY <1>7, <2>1
  <2>4. /\ B \in ConnRecord /\ B.isConnecting = o.isConnecting /\ B.pool = o.pool
        /\ B.count = o.count - 1 /\ B.first = o.first /\ B.waiting = o.waiting
        /\ B.factories = o.factories
    BY <2>2, <2>3 DEF ConnRecord
  <2> QED BY <2>1, <2>4
<1>10. PICK dns \in Seq(ConnRecord) :
         /\ dns = Replace(cns, n, B) /\ Len(dns) = Len(conns) /\ dns[n] = B
         /\ \A m \in 1..Len(conns) : m # n => dns[m] = cns[m]
  <2>1. PICK new : new = Replace(cns, n, B) OBVIOUS
  <2>2. n \in 1..Len(cns) BY <1>6
  <2>3. B \in ConnRecord BY <1>9
  <2>5. cns \in Seq(ConnRecord) OBVIOUS
  <2>4. /\ new \in Seq(ConnRecord) /\ Len(new) = Len(cns) /\ new[n] = B
        /\ \A m \in 1..Len(cns) : m # n => new[m] = cns[m]
    BY <2>1, <2>2, <2>3, <2>5, ReplaceDoes
  <2> QED BY <1>6, <2>1, <2>2, <2>4
<1>11. PICK C : C = [dns[R] EXCEPT !.pool = IF last THEN "closed" ELSE @] OBVIOUS
<1>12. /\ C \in ConnRecord /\ C.isConnecting = dns[R].isConnecting /\ C.count = dns[R].count
       /\ C.first = dns[R].first /\ C.waiting = dns[R].waiting /\ C.factories = dns[R].factories
       /\ ~last => C.pool = dns[R].pool
  <2>1. dns[R] \in ConnRecord BY <1>1, <1>10
  <2> QED BY <1>11, <2>1 DEF ConnRecord
<1>13. conns' = [dns EXCEPT ![R] = C]
  <2>1. conns' = [cns EXCEPT ![n].count = @ - 1, ![R].pool = IF last THEN "closed" ELSE @]
    <3>1. cns = [conns EXCEPT ![R].factories[d] = 0] BY <1>6
    <3> QED BY <3>1, <1>0, <1>2 DEF DropFactory
  <2>2. [cns EXCEPT ![n].count = @ - 1] = dns BY <1>7, <1>10 DEF Replace
  <2>3. [dns EXCEPT ![R].pool = IF last THEN "closed" ELSE @] = [dns EXCEPT ![R] = C] BY <1>11
  <2>4. [cns EXCEPT ![n].count = @ - 1, ![R].pool = IF last THEN "closed" ELSE @]
        = [[cns EXCEPT ![n].count = @ - 1] EXCEPT ![R].pool = IF last THEN "closed" ELSE @]
    OBVIOUS
  <2> QED BY <2>1, <2>2, <2>3, <2>4
<1>14. /\ conns' \in Seq(ConnRecord) /\ Len(conns') = Len(conns) /\ conns'[R] = C
       /\ \A m \in 1..Len(conns) : m # R => conns'[m] = dns[m]
  <2>1. R \in 1..Len(dns) BY <1>1, <1>10
  <2>5. dns \in Seq(ConnRecord) OBVIOUS
  <2>2. C \in ConnRecord BY <1>12
  <2>3. conns' = Replace(dns, R, C) BY <1>13 DEF Replace
  <2>4. /\ conns' \in Seq(ConnRecord) /\ Len(conns') = Len(dns) /\ conns'[R] = C
        /\ \A m \in 1..Len(dns) : m # R => conns'[m] = dns[m]
    BY <2>1, <2>2, <2>3, <2>5, ReplaceDoes
  <2> QED BY <1>10, <2>1, <2>4
<1>15. \A m \in 1..Len(conns) :
         /\ dns[m].isConnecting = conns[m].isConnecting
         /\ dns[m].first = conns[m].first /\ dns[m].waiting = conns[m].waiting
         /\ dns[m].factories = cns[m].factories /\ dns[m].pool = conns[m].pool
  <2> TAKE m \in 1..Len(conns)
  <2>1. /\ cns[m].isConnecting = conns[m].isConnecting /\ cns[m].pool = conns[m].pool
        /\ cns[m].first = conns[m].first /\ cns[m].waiting = conns[m].waiting
    <3>1. cns[R] = A /\ (m # R => cns[m] = conns[m]) BY <1>6
    <3> QED BY <1>5, <3>1
  <2>2. /\ dns[m].isConnecting = cns[m].isConnecting /\ dns[m].pool = cns[m].pool
        /\ dns[m].first = cns[m].first /\ dns[m].waiting = cns[m].waiting
        /\ dns[m].factories = cns[m].factories
    <3>1. dns[n] = B /\ (m # n => dns[m] = cns[m]) BY <1>10
    <3> QED BY <1>9, <3>1
  <2> QED BY <2>1, <2>2
<1>16. dns[n].count = conns[n].count - 1
  BY <1>5, <1>6, <1>9, <1>10
<1>17. registry' = IF last THEN 0 ELSE R BY <1>0, <1>2 DEF DropFactory
<1>18. \A m \in 1..Len(conns) :
       /\ conns'[m].isConnecting = conns[m].isConnecting
       /\ conns'[m].first = conns[m].first /\ conns'[m].waiting = conns[m].waiting
       /\ m # R => conns'[m].factories = conns[m].factories
  <2> TAKE m \in 1..Len(conns)
  <2>1. conns'[R] = C /\ (m # R => conns'[m] = dns[m] /\ cns[m] = conns[m]) BY <1>6, <1>14
  <2>2. CASE m = R BY <2>1, <2>2, <1>12, <1>15
  <2>3. CASE m # R BY <2>1, <2>3, <1>15
  <2> QED BY <2>2, <2>3
<1>19. conns'[R].factories = [conns[R].factories EXCEPT ![d] = 0]
  BY <1>1, <1>5, <1>6, <1>12, <1>14, <1>15
<1>20. conns'[n].count = conns[n].count - 1
  BY <1>1, <1>12, <1>14, <1>16
<1>21. ~last => conns'[R].pool = conns[R].pool
  BY <1>1, <1>12, <1>14, <1>15
<1>22. Dropped(R, n, d)
  BY <1>0, <1>1, <1>2, <1>14, <1>17, <1>18, <1>19, <1>20, <1>21 DEF Dropped
<1> QED BY <1>0, <1>22

\* Call c has deleted factory f, and is r then; fs are the factories before.
Ends(fs, c, f, r) ==
  /\ call' = [call EXCEPT ![c] = r] /\ KindOK(r) /\ r.kind = "close" /\ r.of = f
  /\ r.step \in {"done", "poolClose"} /\ r.left = {}
  /\ facts' \in Seq(FactRecord) /\ Grows(facts, facts', c) /\ Len(facts') = Len(facts)
  /\ facts'[f].state = "deleted"
  /\ \A g \in 1..Len(facts) : g # f => facts'[g] = fs[g]
  /\ \/ UNCHANGED <<registry, conns>>
     \/ registry # 0 /\ Dropped(registry, facts[f].conn, facts[f].db)

\* deleteFactory by call c.
LEMMA DeleteDoes ==
  ASSUME ConstantsAssumption, RegistryTypeOK, LinksOK, NEW c \in Call, NEW q \in CallRecord,
         NEW cs, cs = [call EXCEPT ![c] = q], q.kind = "close", q.left = {},
         q.of \in 1..Len(facts),
         NEW fs \in Seq(FactRecord), Grows(facts, fs, c), Len(fs) = Len(facts),
         Delete(fs, cs, c)
  PROVE \E r \in CallRecord : Ends(fs, c, q.of, r)
<1>0. PICK f : f = q.of OBVIOUS
<1>1. call \in [Call -> CallRecord] /\ cs[c] = q BY DEF RegistryTypeOK
<1>2. PICK n : n = facts[f].conn OBVIOUS
<1>3. PICK d : d = facts[f].db OBVIOUS
<1>4. n \in 1..Len(conns) /\ d \in Db
  <2>1. facts[f] \in FactRecord BY <1>0 DEF RegistryTypeOK
  <2>2. d \in Db BY <2>1, <1>3 DEF FactRecord
  <2> QED BY <2>2, <1>0, <1>2 DEF LinksOK
<1>5. facts' = Marked(fs, f)
  <2>1. facts' = [fs EXCEPT ![cs[c].of].state = "deleted"] BY DEF Delete
  <2> QED BY <1>0, <1>1, <2>1 DEF Marked
<1>6. /\ facts' \in Seq(FactRecord) /\ Len(facts') = Len(fs) /\ Grows(fs, facts', c)
      /\ facts'[f].state = "deleted" /\ \A g \in 1..Len(fs) : g # f => facts'[g] = fs[g]
  <2>1. f \in 1..Len(fs) BY <1>0
  <2>2. fs \in Seq(FactRecord) OBVIOUS
  <2>3. PICK hs : hs = Marked(fs, f) OBVIOUS
  <2>4. /\ hs \in Seq(FactRecord) /\ Len(hs) = Len(fs) /\ Grows(fs, hs, c)
        /\ hs[f].state = "deleted" /\ \A g \in 1..Len(fs) : g # f => hs[g] = fs[g]
    <3>1. Marks(fs, f, hs, c) BY <2>1, <2>2, <2>3, MarkDeleted, Zenon
    <3> QED BY <3>1 DEF Marks
  <2>5. facts' = hs BY <1>5, <2>3
  <2> QED BY <2>4, <2>5
<1>7. Grows(facts, facts', c)
  <2>1. c \in Nat /\ facts \in Seq(FactRecord) BY DEF ConstantsAssumption, RegistryTypeOK
  <2> QED BY <1>6, <2>1, GrowsTwice
<1>8. /\ "close" # None /\ {"done", "poolClose"} \subseteq Steps
      /\ {None, "ok", "throws"} \subseteq {None, "ok", "error", "throws"}
  BY DEF ConstantsAssumption, Kinds, Steps
<1>9. ASSUME NEW s \in {"done", "poolClose"}, NEW a \in {None, "ok", "throws"},
             a # None => s = "done", call' = [cs EXCEPT ![c].step = s, ![c].answer = a]
      PROVE \E r \in CallRecord :
          /\ call' = [call EXCEPT ![c] = r] /\ KindOK(r) /\ r.kind = "close" /\ r.of = q.of
          /\ r.step \in {"done", "poolClose"} /\ r.left = {}
  <2> DEFINE r == [q EXCEPT !.step = s, !.answer = a]
  <2>1. call' = [call EXCEPT ![c] = r] BY <1>1, <1>9
  <2>2. /\ r \in CallRecord /\ r.kind = "close" /\ r.of = q.of /\ r.step = s /\ r.left = {}
        /\ r.answer = a
    BY <1>8, <1>9 DEF CallRecord
  <2> HIDE DEF r
  <2>3. KindOK(r) BY <1>8, <1>9, <2>2 DEF KindOK
  <2> QED BY <2>1, <2>2, <2>3
<1>10. CASE registry = 0 \/ conns[registry].factories[d] = 0
  <2>1. /\ call' = [cs EXCEPT ![c].step = "done", ![c].answer = "throws"]
        /\ UNCHANGED <<registry, conns>>
    BY <1>0, <1>1, <1>3, <1>10 DEF Delete
  <2>2. PICK r \in CallRecord :
          /\ call' = [call EXCEPT ![c] = r] /\ KindOK(r) /\ r.kind = "close" /\ r.of = q.of
          /\ r.step \in {"done", "poolClose"} /\ r.left = {}
    BY <2>1, <1>9
  <2> QED BY <1>0, <1>6, <1>7, <2>1, <2>2 DEF Ends
<1>11. CASE registry # 0 /\ conns[registry].factories[d] # 0
  <2>1. PICK last \in BOOLEAN : last = (conns[n].count = 1) OBVIOUS
  <2>2. /\ call' = [cs EXCEPT ![c].step = IF last THEN "poolClose" ELSE "done",
                              ![c].answer = IF last THEN None ELSE "ok"]
        /\ DropFactory(n, d)
    <3>1. /\ call' = [cs EXCEPT ![c].step = IF conns[facts[cs[c].of].conn].count = 1
                                            THEN "poolClose" ELSE "done",
                                ![c].answer = IF conns[facts[cs[c].of].conn].count = 1
                                              THEN None ELSE "ok"]
          /\ DropFactory(facts[cs[c].of].conn, facts[cs[c].of].db)
      <4>1. ~(registry = 0 \/ (registry # 0 /\ conns[registry].factories[facts[cs[c].of].db] = 0))
        BY <1>0, <1>1, <1>3, <1>11
      <4> QED BY <4>1, Zenon DEF Delete, DropFactory
    <3> QED BY <1>0, <1>1, <1>2, <1>3, <2>1, <3>1
  <2>3. Dropped(registry, n, d) BY <1>4, <1>11, <2>2, DropDoes
  <2>4. PICK r \in CallRecord :
          /\ call' = [call EXCEPT ![c] = r] /\ KindOK(r) /\ r.kind = "close" /\ r.of = q.of
          /\ r.step \in {"done", "poolClose"} /\ r.left = {}
    <3> DEFINE s == IF last THEN "poolClose" ELSE "done"
               a == IF last THEN None ELSE "ok"
    <3>1. s \in {"done", "poolClose"} /\ a \in {None, "ok", "throws"} /\ (a # None => s = "done")
      OBVIOUS
    <3>2. call' = [cs EXCEPT ![c].step = s, ![c].answer = a] BY <2>2
    <3> HIDE DEF s, a
    <3> QED BY <3>1, <3>2, <1>9
  <2> QED BY <1>0, <1>2, <1>3, <1>6, <1>7, <1>11, <2>3, <2>4 DEF Ends
<1> QED BY <1>10, <1>11

\* The call that deletes factory f leaves the registry exact.
LEMMA DroppedExact ==
  ASSUME ConstantsAssumption, RegistryTypeOK, LinksOK, ExactOK, NEW f \in 1..Len(facts), NEW x,
         facts' \in Seq(FactRecord), Grows(facts, facts', x), Len(facts') = Len(facts),
         facts'[f].state = "deleted",
         \A g \in 1..Len(facts) : facts[g].state = "deleted" => facts'[g].state = "deleted",
         registry # 0, Dropped(registry, facts[f].conn, facts[f].db), UNCHANGED notify,
         ~rash' => ~rash /\ notify = 0 /\ ~Deleted(f)
  PROVE ExactOK'
<1> SUFFICES ASSUME ~rash' PROVE ExactOK' BY DEF ExactOK
<1>0. PICK R : R = registry OBVIOUS
<1>00. PICK d : d = facts[f].db OBVIOUS
<1>1. /\ ~Deleted(f) /\ ~rash /\ notify' = 0 /\ facts[f].conn = R /\ conns[R].factories[d] = f
      /\ conns[R].pool = "open" /\ IsFiniteSet(Served) /\ conns[R].count = Cardinality(Served)
      /\ R \in 1..Len(conns)
  BY <1>0, <1>00 DEF ExactOK, RegistryTypeOK
<1>2. f # 0 /\ d \in Db
  <2>1. facts[f] \in FactRecord BY DEF RegistryTypeOK
  <2> QED BY <2>1, <1>00 DEF FactRecord
<1>3. Dropped(R, R, d) BY <1>0, <1>00, <1>1
<1>4. conns[R].factories \in [Db -> Nat] /\ conns'[R].factories = [conns[R].factories EXCEPT ![d] = 0]
  <2>1. conns[R] \in ConnRecord BY <1>1 DEF RegistryTypeOK
  <2> QED BY <2>1, <1>3 DEF ConnRecord, Dropped
<1>5. d \in Served BY <1>0, <1>1, <1>2 DEF Served
<1>6. \A g \in 1..Len(facts) : facts'[g].state # "deleted" =>
        /\ g # f /\ facts'[g].conn = R /\ facts'[g].db # d /\ facts'[g].db \in Db
        /\ conns[R].factories[facts'[g].db] = g /\ conns'[R].factories[facts'[g].db] = g
  <2> SUFFICES ASSUME NEW g \in 1..Len(facts), facts'[g].state # "deleted"
               PROVE /\ g # f /\ facts'[g].conn = R /\ facts'[g].db # d /\ facts'[g].db \in Db
                     /\ conns[R].factories[facts'[g].db] = g
                     /\ conns'[R].factories[facts'[g].db] = g
    OBVIOUS
  <2>1. g # f /\ ~Deleted(g) BY DEF Deleted
  <2>2. facts[g].conn = R /\ conns[R].factories[facts[g].db] = g BY <1>0, <1>1, <2>1 DEF ExactOK
  <2>3. facts'[g].db = facts[g].db /\ facts'[g].conn = facts[g].conn BY DEF Grows
  <2>4. facts[g].db \in Db
    <3>1. facts[g] \in FactRecord BY DEF RegistryTypeOK
    <3> QED BY <3>1 DEF FactRecord
  <2>5. facts[g].db # d BY <1>1, <2>1, <2>2
  <2> QED BY <1>4, <2>1, <2>2, <2>3, <2>4, <2>5
<1>7. CASE conns[R].count = 1
  <2>1. registry' = 0 BY <1>3, <1>7 DEF Dropped
  <2>2. \A e \in Served : e = d
    <3>1. PICK o : Served = {o} BY <1>1, <1>7, FS_Singleton
    <3> QED BY <1>5, <3>1
  <2>3. \A g \in 1..Len(facts) : facts'[g].state = "deleted"
    <3> SUFFICES ASSUME NEW g \in 1..Len(facts), facts'[g].state # "deleted" PROVE FALSE OBVIOUS
    <3>1. /\ facts'[g].db # d /\ facts'[g].db \in Db /\ conns[R].factories[facts'[g].db] = g
      BY <1>6
    <3>2. facts'[g].db \in Served BY <1>0, <3>1 DEF Served
    <3> QED BY <2>2, <3>1, <3>2
  <2> QED BY <1>1, <2>1, <2>3 DEF ExactOK, Deleted
<1>8. CASE conns[R].count # 1
  <2>1. registry' = R /\ conns'[R].pool = conns[R].pool /\ conns'[R].count = conns[R].count - 1
    BY <1>3, <1>8 DEF Dropped
  <2>2. Served' = Served \ {d} BY <1>0, <1>2, <1>4, <2>1 DEF Served
  <2>3. IsFiniteSet(Served \ {d}) /\ Cardinality(Served \ {d}) = Cardinality(Served) - 1
    BY <1>1, <1>5, FS_RemoveElement
  <2>4. IsFiniteSet(Served') /\ conns'[R].count = Cardinality(Served') BY <1>1, <2>1, <2>2, <2>3
  <2>5. conns'[registry'].count = Cardinality(Served') BY <2>1, <2>4
  <2>6. conns'[registry'].pool = "open" BY <1>1, <2>1
  <2>7. "open" # "closed" OBVIOUS
  <2>8. \A g \in 1..Len(facts') : facts'[g].state # "deleted" =>
          /\ facts'[g].conn = registry' /\ conns'[registry'].factories[facts'[g].db] = g
          /\ conns'[registry'].pool = "open"
    BY <1>6, <2>1, <2>6
  <2> QED BY <1>1, <2>4, <2>5, <2>6, <2>8 DEF ExactOK, Deleted
<1> QED BY <1>7, <1>8

\* When a factory is deleted nothing connects any more.
LEMMA DroppedKeeps ==
  ASSUME ConstantsAssumption, RegistryTypeOK, LinksOK, WaitingOK, \A c \in Call : KindOK(call[c]),
         NEW x \in Call, NEW r \in CallRecord, call' = [call EXCEPT ![x] = r], KindOK(r),
         call[x].step # "connection", NEW n \in 1..Len(conns), NEW d \in Db,
         facts' \in Seq(FactRecord), Grows(facts, facts', x), Len(facts') = Len(facts),
         registry # 0, Dropped(registry, n, d), UNCHANGED notify, rash' \in BOOLEAN
  PROVE RegistryTypeOK' /\ LinksOK' /\ WaitingOK' /\ \A c \in Call : KindOK(call'[c])
<1>0. PICK R : R = registry OBVIOUS
<1>1. /\ call' \in [Call -> CallRecord] /\ call'[x] = r
      /\ \A c \in Call : c # x => call'[c] = call[c]
      /\ \A c \in Call : KindOK(call'[c])
  BY CallsMove
<1>2. /\ R \in 1..Len(conns) /\ conns[R].factories[d] # 0
      /\ conns' \in Seq(ConnRecord) /\ Len(conns') = Len(conns) /\ registry' \in {0, R}
      /\ conns'[R].factories = [conns[R].factories EXCEPT ![d] = 0]
  BY <1>0 DEF Dropped
<1>3. \A m \in 1..Len(conns) :
        /\ conns'[m].isConnecting = conns[m].isConnecting
        /\ conns'[m].first = conns[m].first /\ conns'[m].waiting = conns[m].waiting
        /\ m # R => conns'[m].factories = conns[m].factories
  BY <1>0 DEF Dropped
<1>4. RegistryTypeOK' BY <1>1, <1>2 DEF RegistryTypeOK
<1>5. LinksOK'
  <2>1. \A m \in 1..Len(conns), e \in Db : conns'[m].factories[e] \in 0..Len(facts)
    <3> SUFFICES ASSUME NEW m \in 1..Len(conns), NEW e \in Db
                 PROVE conns'[m].factories[e] \in 0..Len(facts)
      OBVIOUS
    <3>1. conns[m].factories[e] \in 0..Len(facts) BY DEF LinksOK
    <3>2. CASE m # R BY <1>3, <3>1, <3>2
    <3>3. CASE m = R
      <4>1. conns[R].factories \in [Db -> Nat]
        <5>1. conns[R] \in ConnRecord BY <1>2 DEF RegistryTypeOK
        <5> QED BY <5>1 DEF ConnRecord
      <4>2. 0 \in 0..Len(facts) BY DEF RegistryTypeOK
      <4>3. \A F \in [Db -> Nat] : [F EXCEPT ![d] = 0][e] = IF e = d THEN 0 ELSE F[e] OBVIOUS
      <4>4. conns'[R].factories[e] = IF e = d THEN 0 ELSE conns[R].factories[e]
        BY <1>2, <4>1, <4>3
      <4> QED BY <3>1, <3>3, <4>2, <4>4
    <3> QED BY <3>2, <3>3
  <2>2. \A f \in 1..Len(facts) : facts'[f].conn \in 1..Len(conns) BY DEF LinksOK, Grows
  <2> QED BY <1>2, <2>1, <2>2 DEF LinksOK
<1>6. \A m \in 1..Len(conns) : ~conns[m].isConnecting
  BY <1>0, <1>2 DEF WaitingOK
<1>7. WaitingOK'
  <2>1. \A c \in Call : call[c].step = "connection" => call'[c].step = "connection" BY <1>1
  <2>2. \A m \in 1..Len(conns) : conns[m].waiting \in Seq(Call)
    <3>1. \A m \in 1..Len(conns) : conns[m] \in ConnRecord BY DEF RegistryTypeOK
    <3> QED BY <3>1 DEF ConnRecord
  <2>3. \A m \in 1..Len(conns) : \A i \in 1..Len(conns[m].waiting) : conns[m].waiting[i] \in Call
    BY <2>2
  <2>4. \A m \in 1..Len(conns') : ~conns'[m].isConnecting BY <1>2, <1>3, <1>6
  <2>5. \A m \in 1..Len(conns') : conns'[m].waiting # <<>> => notify' = m
    BY <1>2, <1>3, <1>6 DEF WaitingOK
  <2>6. \A m \in 1..Len(conns') : \A i \in 1..Len(conns'[m].waiting) :
          /\ call'[conns'[m].waiting[i]].step = "connection"
          /\ \A j \in 1..Len(conns'[m].waiting) : conns'[m].waiting[i] = conns'[m].waiting[j] => i = j
    BY SMTT(20), <1>2, <1>3, <2>1, <2>3 DEF WaitingOK
  <2>7. notify' # 0 => conns'[notify'].waiting # <<>>
    <3>1. notify \in 0..Len(conns) BY DEF RegistryTypeOK
    <3> QED BY <1>3, <3>1 DEF WaitingOK
  <2> QED BY <2>4, <2>5, <2>6, <2>7 DEF WaitingOK
<1> QED BY <1>1, <1>4, <1>5, <1>7

\* Call c, which closes its factory, deletes it.
LEMMA DeleteKeeps ==
  ASSUME ConstantsAssumption, RegistryInv, NEW c \in Call, NEW q \in CallRecord,
         NEW cs, cs = [call EXCEPT ![c] = q], q.kind = "close", q.left = {},
         q.of \in 1..Len(facts), call[c].step \notin {"connection", "dbSession", "dbClose"},
         call[c].kind \in {None, "close"}, call[c].answer = None,
         NEW fs \in Seq(FactRecord), Grows(facts, fs, c), Len(fs) = Len(facts),
         \A g \in 1..Len(facts) : g # q.of => fs[g] = facts[g],
         Delete(fs, cs, c), UNCHANGED notify, rash' \in BOOLEAN, rash => rash',
         ~rash' => notify = 0 /\ ~Deleted(q.of),
         \/ call[c].kind = None /\ (~rash' => ~Closing(q.of))
         \/ call[c].kind = "close" /\ q.of = call[c].of /\ rash' = rash
  PROVE RegistryInv'
<1>0. PICK f : f = q.of OBVIOUS
<1>1. /\ RegistryTypeOK /\ LinksOK /\ TargetsOK /\ WaitingOK /\ ExactOK
      /\ \A d \in Call : KindOK(call[d]) /\ SlotOK(d)
      /\ call \in [Call -> CallRecord] /\ facts \in Seq(FactRecord)
  BY DEF RegistryInv, RegistryTypeOK
<1>2. PICK r \in CallRecord :
          /\ call' = [call EXCEPT ![c] = r] /\ KindOK(r) /\ r.kind = "close" /\ r.of = f
          /\ r.step \in {"done", "poolClose"} /\ r.left = {}
          /\ facts' \in Seq(FactRecord) /\ Grows(facts, facts', c) /\ Len(facts') = Len(facts)
          /\ facts'[f].state = "deleted"
          /\ \A g \in 1..Len(facts) : g # f => facts'[g] = fs[g]
          /\ \/ UNCHANGED <<registry, conns>>
             \/ registry # 0 /\ Dropped(registry, facts[f].conn, facts[f].db)
  <2>1. PICK r \in CallRecord : Ends(fs, c, q.of, r) BY <1>1, DeleteDoes, Zenon
  <2>2. Ends(fs, c, f, r) BY <1>0, <2>1
  <2> QED BY <2>2 DEF Ends
<1>3. f \in 1..Len(facts) /\ \A g \in 1..Len(facts) : g # f => facts'[g] = facts[g]
  BY <1>0, <1>2
<1>4. \A g \in 1..Len(facts) : facts[g].state = "deleted" => facts'[g].state = "deleted"
  BY <1>2, <1>3
<1>5. /\ RegistryTypeOK' /\ LinksOK' /\ WaitingOK' /\ ExactOK'
      /\ \A d \in Call : KindOK(call'[d])
  <2>1. CASE UNCHANGED <<registry, conns>>
    BY <1>2, <1>4, <2>1, QuietStep
  <2>2. CASE registry # 0 /\ Dropped(registry, facts[f].conn, facts[f].db)
    <3>1. facts[f].conn \in 1..Len(conns) /\ facts[f].db \in Db
      <4>1. facts[f] \in FactRecord BY <1>1, <1>3
      <4> QED BY <1>1, <1>3, <4>1 DEF LinksOK, FactRecord
    <3>2. ExactOK'
      <4>1. ~rash' => ~rash /\ notify = 0 /\ ~Deleted(f) BY <1>0
      <4> QED BY <1>1, <1>2, <1>3, <1>4, <2>2, <4>1, DroppedExact
    <3>3. RegistryTypeOK' /\ LinksOK' /\ WaitingOK' /\ \A d \in Call : KindOK(call'[d])
      BY <1>1, <1>2, <2>2, <3>1, DroppedKeeps
    <3> QED BY <3>2, <3>3
  <2> QED BY <1>2, <2>1, <2>2
<1>6. /\ call[c].kind \in {None, "close"} /\ None # "close"
      /\ facts'[f].state # "open" /\ r.step # "sessionsClose" /\ r.kind # "connect"
  BY <1>2 DEF ConstantsAssumption, Kinds
<1>7. \A g \in 1..Len(facts) : facts'[g].state = "deleted" =>
        facts[g].state = "deleted" \/ g = f
  BY <1>3
<1>8. TargetsOK'
  <2>1. CASE call[c].kind = None /\ (~rash' => ~Closing(f))
    <3>1. ~rash' => facts[f].state = "open" BY <2>1 DEF Closing
    <3>2. facts[f].state = "open" \/ rash' BY <3>1
    <3> QED BY <1>1, <1>2, <1>3, <1>6, <1>7, <2>1, <3>1, NewTargets
  <2>2. CASE call[c].kind = "close" /\ f = call[c].of /\ rash' = rash
    BY <1>1, <1>2, <1>6, <1>7, <2>2, TargetsKept
  <2> QED BY <1>0, <2>1, <2>2
<1>9. \A d \in Call : Gone(d) => Gone(d)'
  <2>1. Follows(call[c], r)
    <3>1. call[c].kind = "close" => r.of = call[c].of BY <1>0, <1>2, <1>6
    <3> QED BY <1>2, <1>6, <3>1 DEF Follows
  <2> QED BY <1>1, <1>2, <2>1, GoneKept
<1>10. call'[c] = r /\ \A d \in Call : d # c => call'[d] = call[d] BY <1>1, <1>2
<1>11. \A d \in Call : d \notin {c, c} => SlotOK(d)'
  BY <1>1, <1>2, <1>9, <1>10, SlotsKept
<1>12. SlotOK(c)' BY <1>2, <1>10 DEF SlotOK, HasSlot, Placeholding
<1> QED BY <1>5, <1>8, <1>11, <1>12 DEF RegistryInv

\* A slot of a factory that is being closed is emptied.
LEMMA EmptySlot ==
  ASSUME facts \in Seq(FactRecord), NEW f \in 1..Len(facts), facts[f].state # "open",
         NEW i \in Nat, NEW x \in Nat
  PROVE /\ Put(f, i, 0) \in Seq(FactRecord) /\ Grows(facts, Put(f, i, 0), x)
        /\ Len(Put(f, i, 0)) = Len(facts) /\ SameStates(facts, Put(f, i, 0))
        /\ \A g \in 1..Len(facts) : g # f => Put(f, i, 0)[g] = facts[g]
<1>1. PICK ss : ss = facts[f].sessions OBVIOUS
<1>2. ss \in Seq(Int)
  <2>1. facts[f] \in FactRecord OBVIOUS
  <2> QED BY <1>1, <2>1 DEF FactRecord
<1>3. PICK tt : tt = [ss EXCEPT ![i] = 0] OBVIOUS
<1>4. tt \in Seq(Int) /\ Len(tt) = Len(ss)
  <2>1. CASE i \in 1..Len(ss) BY <1>2, <1>3, <2>1
  <2>2. CASE i \notin 1..Len(ss)
    <3>1. tt = ss BY <1>2, <1>3, <2>2
    <3> QED BY <1>2, <3>1
  <2> QED BY <2>1, <2>2
<1>5. Put(f, i, 0) = Write(facts, f, tt) BY <1>1, <1>3 DEF Put, Write
<1>6. Len(facts[f].sessions) <= Len(tt) BY <1>1, <1>2, <1>4
<1>7. /\ Write(facts, f, tt) \in Seq(FactRecord) /\ Grows(facts, Write(facts, f, tt), x)
      /\ SameStates(facts, Write(facts, f, tt))
  BY <1>4, <1>6, WriteSlot
<1>8. \A g \in 1..Len(facts) : g # f => Write(facts, f, tt)[g] = facts[g] BY DEF Write
<1> QED BY <1>5, <1>7, <1>8 DEF SameStates

LEMMA FactorySessionClosedKeeps ==
  ASSUME ConstantsAssumption, RegistryInv, NEW c \in Call, NEW i \in call[c].left,
         FactorySessionClosed(c, i)
  PROVE RegistryInv'
<1>1. /\ RegistryTypeOK /\ TargetsOK /\ KindOK(call[c]) /\ facts \in Seq(FactRecord)
      /\ call \in [Call -> CallRecord] /\ call[c] \in CallRecord /\ rash \in BOOLEAN
  BY DEF RegistryInv, RegistryTypeOK
<1>2. PICK f : f = call[c].of OBVIOUS
<1>3. /\ call[c].step = "sessionsClose" /\ call[c].kind = "close" /\ call[c].answer = None
      /\ f \in 1..Len(facts) /\ facts[f].state # "open" /\ notify = 0
      /\ ~rash => ~Deleted(f)
  <2>1. call[c].step = "sessionsClose" BY <1>1 DEF KindOK
  <2> QED BY <1>1, <1>2, <2>1 DEF KindOK, TargetsOK, Closing, FactorySessionClosed
<1>4. i \in Nat /\ c \in Nat
  <2>1. call[c].left \in SUBSET Nat BY <1>1 DEF CallRecord
  <2> QED BY <2>1 DEF ConstantsAssumption
<1>5. PICK q : q = [call[c] EXCEPT !.left = @ \ {i}] OBVIOUS
<1>6. /\ q \in CallRecord /\ q.kind = "close" /\ q.of = f /\ q.left = call[c].left \ {i}
      /\ q.step = "sessionsClose" /\ q.answer = None
  <2>1. call[c].left \ {i} \in SUBSET Nat BY <1>1 DEF CallRecord
  <2> QED BY <1>1, <1>2, <1>3, <1>5, <2>1 DEF CallRecord
<1>7. PICK cs : cs = [call EXCEPT ![c] = q] OBVIOUS
<1>8. cs = [call EXCEPT ![c].left = @ \ {i}] /\ cs[c] = q BY <1>1, <1>5, <1>7
<1>9. PICK fs : fs = Put(f, i, 0) OBVIOUS
<1>10. fs = [facts EXCEPT ![call[c].of].sessions[i] = 0] BY <1>2, <1>9 DEF Put
<1>11. /\ fs \in Seq(FactRecord) /\ Grows(facts, fs, c) /\ Len(fs) = Len(facts)
       /\ SameStates(facts, fs) /\ \A g \in 1..Len(facts) : g # f => fs[g] = facts[g]
  BY <1>1, <1>3, <1>4, <1>9, EmptySlot
<1>12. UNCHANGED <<notify, rash>> BY DEF FactorySessionClosed
<1>13. CASE q.left = {}
  <2>1. Delete(fs, cs, c) BY <1>8, <1>10, <1>13 DEF FactorySessionClosed
  <2>2. rash' \in BOOLEAN /\ (rash => rash') /\ (~rash' => notify = 0 /\ ~Deleted(q.of))
    BY <1>1, <1>3, <1>6, <1>12
  <2>3. call[c].kind = "close" /\ q.of = call[c].of /\ rash' = rash BY <1>2, <1>3, <1>6, <1>12
  <2>4. q.of \in 1..Len(facts) /\ \A g \in 1..Len(facts) : g # q.of => fs[g] = facts[g]
    BY <1>3, <1>6, <1>11
  <2> QED BY <1>3, <1>6, <1>7, <1>11, <1>12, <1>13, <2>1, <2>2, <2>3, <2>4, DeleteKeeps
<1>14. CASE q.left # {}
  <2>1. facts' = fs /\ call' = cs /\ UNCHANGED <<registry, conns>>
    BY <1>8, <1>10, <1>14 DEF FactorySessionClosed
  <2>2. KindOK(q) /\ None # "close"
    <3>1. None # "close" BY DEF ConstantsAssumption, Kinds
    <3> QED BY <1>6, <3>1 DEF KindOK
  <2>3. call'[c] = q BY <1>8, <2>1
  <2>4. SlotOK(c)' BY <1>6, <2>3 DEF SlotOK, HasSlot, Placeholding
  <2> QED BY <1>2, <1>3, <1>6, <1>7, <1>11, <1>12, <2>1, <2>2, <2>4, QuietSystem
<1> QED BY <1>13, <1>14

Emptied(f) ==
  [facts EXCEPT ![f].sessions = [i \in DOMAIN @ |-> 0],
                ![f].state = IF @ = "open" THEN "closing" ELSE @]

\* All slots of a factory are emptied, and it is marked as being closed.
LEMMA EmptyAll ==
  ASSUME facts \in Seq(FactRecord), NEW f \in 1..Len(facts), NEW x
  PROVE /\ Emptied(f) \in Seq(FactRecord) /\ Grows(facts, Emptied(f), x)
        /\ Len(Emptied(f)) = Len(facts)
        /\ Emptied(f)[f].state # "open"
        /\ Emptied(f)[f].state = "deleted" <=> facts[f].state = "deleted"
        /\ \A g \in 1..Len(facts) : g # f => Emptied(f)[g] = facts[g]
<1>1. PICK e \in FactRecord : e = facts[f] OBVIOUS
<1>2. PICK ss : ss = [i \in DOMAIN e.sessions |-> 0] OBVIOUS
<1>3. ss \in Seq(Int) /\ Len(ss) = Len(e.sessions) /\ Len(e.sessions) \in Nat
  <2>1. e.sessions \in Seq(Int) BY DEF FactRecord
  <2> QED BY <1>2, <2>1
<1>4. PICK s : s = IF e.state = "open" THEN "closing" ELSE e.state OBVIOUS
<1>5. s \in {"closing", "deleted"} /\ (s = "deleted" <=> e.state = "deleted")
  BY <1>4 DEF FactRecord
<1>6. PICK r : r = [e EXCEPT !.sessions = ss, !.state = s] OBVIOUS
<1>7. /\ r \in FactRecord /\ r.conn = e.conn /\ r.db = e.db /\ r.sessions = ss /\ r.state = s
  BY <1>3, <1>5, <1>6 DEF FactRecord
<1>8. PICK hs : hs = [facts EXCEPT ![f] = r] OBVIOUS
<1>9. Emptied(f) = hs
  BY <1>1, <1>2, <1>4, <1>6, <1>8 DEF Emptied
<1>10. /\ hs \in Seq(FactRecord) /\ Len(hs) = Len(facts) /\ hs[f] = r
       /\ \A g \in 1..Len(facts) : g # f => hs[g] = facts[g]
  BY <1>7, <1>8
<1>11. \A g \in 1..Len(facts) : Len(facts[g].sessions) \in Nat BY SMTT(20) DEF FactRecord
<1>12. Grows(facts, hs, x)
  <2> SUFFICES ASSUME NEW g \in 1..Len(facts)
               PROVE /\ g \in 1..Len(hs)
                     /\ hs[g].conn = facts[g].conn /\ hs[g].db = facts[g].db
                     /\ facts[g].state # "open" => hs[g].state # "open"
                     /\ Len(facts[g].sessions) <= Len(hs[g].sessions)
                     /\ hs[g].state # "open" \/ OthersKept(facts[g].sessions, hs[g].sessions, x)
    BY DEF Grows
  <2>1. CASE g = f BY <2>1, <1>1, <1>3, <1>5, <1>7, <1>10
  <2>2. CASE g # f
    <3>1. OthersKept(facts[g].sessions, facts[g].sessions, x) BY <1>11 DEF OthersKept
    <3> QED BY <2>2, <3>1, <1>10, <1>11
  <2> QED BY <2>1, <2>2
<1> QED BY <1>1, <1>5, <1>7, <1>9, <1>10, <1>12

LEMMA CloseKeeps ==
  ASSUME ConstantsAssumption, RegistryInv, NEW c \in Call, NEW f, Close(c, f)
  PROVE RegistryInv'
<1>1. /\ RegistryTypeOK /\ TargetsOK /\ KindOK(call[c]) /\ facts \in Seq(FactRecord)
      /\ call \in [Call -> CallRecord] /\ call[c] \in CallRecord /\ rash \in BOOLEAN
      /\ \A d \in Call : KindOK(call[d]) /\ SlotOK(d)
  BY DEF RegistryInv, RegistryTypeOK
<1>2. /\ call[c].kind = None /\ f \in Held /\ UNCHANGED notify
      /\ rash' = (rash \/ Closing(f) \/ notify # 0)
  BY DEF Close, NextCall
<1>3. /\ f \in 1..Len(facts) /\ f \in Nat
      /\ call[c].step = "new" /\ call[c].answer = None /\ call[c].left = {} /\ None # "close"
  BY <1>1, <1>2 DEF KindOK, ConstantsAssumption, Kinds, Held, TargetsOK
<1>4. PICK left : left = SessionsLeft(f) OBVIOUS
<1>5. left \in SUBSET Nat BY <1>4 DEF SessionsLeft
<1>6. PICK q : q = [call[c] EXCEPT !.kind = "close", !.of = f, !.left = left,
                                   !.step = "sessionsClose"]
  OBVIOUS
<1>7. /\ q \in CallRecord /\ q.kind = "close" /\ q.of = f /\ q.left = left
      /\ q.step = "sessionsClose" /\ q.answer = None
  BY <1>1, <1>3, <1>5, <1>6 DEF CallRecord, Kinds, Steps
<1>8. PICK cs : cs = [call EXCEPT ![c] = q] OBVIOUS
<1>9. cs = [call EXCEPT ![c].kind = "close", ![c].of = f, ![c].left = left,
                        ![c].step = "sessionsClose"]
  BY <1>1, <1>6, <1>8
<1>10. PICK fs : fs = Emptied(f) OBVIOUS
<1>11. /\ fs \in Seq(FactRecord) /\ Grows(facts, fs, c) /\ Len(fs) = Len(facts)
       /\ fs[f].state # "open" /\ (fs[f].state = "deleted" <=> facts[f].state = "deleted")
       /\ \A g \in 1..Len(facts) : g # f => fs[g] = facts[g]
  BY <1>1, <1>3, <1>10, EmptyAll
<1>12. IF left = {} THEN Delete(fs, cs, c) ELSE facts' = fs /\ call' = cs /\ UNCHANGED <<registry, conns>>
  BY <1>4, <1>9, <1>10, Zenon DEF Close, Emptied
<1>13. /\ rash' \in BOOLEAN /\ (rash => rash')
       /\ ~rash' => ~rash /\ notify = 0 /\ ~Closing(f) /\ ~Deleted(f)
  BY <1>1, <1>2 DEF Closing, Deleted
<1>14. CASE left = {}
  <2>1. Delete(fs, cs, c) BY <1>12, <1>14
  <2>2. /\ ~rash' => notify = 0 /\ ~Deleted(q.of)
        /\ call[c].kind = None /\ (~rash' => ~Closing(q.of))
    BY <1>2, <1>7, <1>13
  <2>3. q.of \in 1..Len(facts) /\ \A g \in 1..Len(facts) : g # q.of => fs[g] = facts[g]
    BY <1>3, <1>7, <1>11
  <2> QED BY <1>2, <1>3, <1>7, <1>8, <1>11, <1>13, <1>14, <2>1, <2>2, <2>3, DeleteKeeps
<1>15. CASE left # {}
  <2>1. facts' = fs /\ call' = cs /\ UNCHANGED <<registry, conns, notify>> BY <1>2, <1>12, <1>15
  <2>2. KindOK(q) BY <1>3, <1>7 DEF KindOK
  <2>3. call' = [call EXCEPT ![c] = q] BY <1>8, <2>1
  <2>4. \A g \in 1..Len(facts) : facts'[g].state = "deleted" <=> facts[g].state = "deleted"
    BY <1>11, <2>1
  <2>5. facts' \in Seq(FactRecord) /\ Grows(facts, facts', c) /\ Len(facts') = Len(facts)
        /\ facts'[f].state # "open"
    BY <1>11, <2>1
  <2>6. /\ RegistryTypeOK' /\ LinksOK' /\ WaitingOK' /\ ExactOK'
        /\ \A d \in Call : KindOK(call'[d])
    BY <1>3, <1>7, <1>13, <2>1, <2>2, <2>3, <2>4, <2>5, QuietStep
  <2>7. TargetsOK'
    <3>1. /\ ~rash' => facts[f].state = "open" 
          /\ ~rash' => facts'[f].state # "deleted"
      BY <1>13, <2>4, <1>3 DEF Closing, Deleted
    <3>2. q.kind # "connect" /\ q.kind # "closeSession" BY <1>7
    <3> QED BY <1>1, <1>2, <1>3, <1>7, <1>13, <2>2, <2>3, <2>4, <2>5, <3>1, <3>2, NewTargets
  <2>8. \A d \in Call : Gone(d) => Gone(d)' BY <1>1, <1>2, <2>3, GoneKept DEF Follows
  <2>9. call'[c] = q /\ \A d \in Call : d # c => call'[d] = call[d] BY <1>1, <1>7, <2>3
  <2>10. \A d \in Call : d \notin {c, c} => SlotOK(d)'
    BY <1>1, <2>5, <2>8, <2>9, SlotsKept
  <2>11. SlotOK(c)' BY <1>7, <2>9 DEF SlotOK, HasSlot, Placeholding
  <2> QED BY <2>6, <2>7, <2>10, <2>11 DEF RegistryInv
<1> QED BY <1>14, <1>15

-----------------------------------------------------------------------------
(* Connections.                                                            *)

\* A factory got on the Connection of the registry leaves the registry exact.
LEMMA UsesExact ==
  ASSUME ConstantsAssumption, RegistryTypeOK, LinksOK, ExactOK,
         NEW cns, NEW cs, NEW c, cs[c].db \in Db, NEW n \in 1..Len(conns), NEW f \in Nat, NEW r,
         Uses(cns, cs, c, n, f, r), UNCHANGED <<registry, rash>>,
         ~rash => /\ n = registry /\ cns[n].pool = "open" /\ cns[n].count = conns[n].count
                  /\ notify' # 0 => notify' = registry
  PROVE ExactOK'
<1> SUFFICES ASSUME ~rash PROVE ExactOK' BY DEF ExactOK
<1>0. PICK d : d = cs[c].db OBVIOUS
<1>1. /\ n = registry /\ n # 0 /\ registry' = n /\ cns[n].pool = "open"
      /\ cns[n].count = conns[n].count /\ notify' # 0 => notify' = n
      /\ IsFiniteSet(Served) /\ conns[n].count = Cardinality(Served)
      /\ facts \in Seq(FactRecord) /\ n \in 1..Len(conns) /\ d \in Db
  BY <1>0 DEF ExactOK, RegistryTypeOK
<1>2. /\ conns'[n].pool = "open" /\ conns'[n].factories = [conns[n].factories EXCEPT ![d] = f]
      /\ \A g \in 1..Len(facts) : facts'[g].state = facts[g].state
      /\ Grows(facts, facts', c)
      /\ \/ /\ conns[n].factories[d] = f /\ f # 0 /\ Len(facts') = Len(facts)
            /\ conns'[n].count = conns[n].count
         \/ /\ conns[n].factories[d] = 0 /\ f = Len(facts) + 1 /\ Len(facts') = f
            /\ facts'[f].conn = n /\ facts'[f].db = d /\ facts'[f].state = "open"
            /\ conns'[n].count = conns[n].count + 1
  BY <1>0, <1>1 DEF Uses
<1>3. /\ conns[n].factories \in [Db -> Nat]
      /\ \A e \in Db : conns'[n].factories[e] = IF e = d THEN f ELSE conns[n].factories[e]
  <2>1. conns[n].factories \in [Db -> Nat]
    <3>1. conns[n] \in ConnRecord BY DEF RegistryTypeOK
    <3> QED BY <3>1 DEF ConnRecord
  <2>2. \A F \in [Db -> Nat] : \A e \in Db : [F EXCEPT ![d] = f][e] = IF e = d THEN f ELSE F[e]
    OBVIOUS
  <2> QED BY <1>2, <2>1, <2>2
<1>4. Len(facts) \in Nat BY <1>1
<1>5. f # 0 BY <1>2, <1>4
<1>6. Served' = Served \cup {d} BY <1>1, <1>3, <1>5 DEF Served
<1>7. d \in Served <=> conns[n].factories[d] # 0 BY <1>1 DEF Served
<1>8. IsFiniteSet(Served') /\ conns'[n].count = Cardinality(Served')
  BY <1>1, <1>2, <1>4, <1>6, <1>7, FS_AddElement
<1>9. ASSUME NEW g \in 1..Len(facts'), facts'[g].state # "deleted"
      PROVE facts'[g].conn = n /\ conns'[n].factories[facts'[g].db] = g
  <2>1. CASE g \in 1..Len(facts)
    <3>1. ~Deleted(g) BY <1>2, <1>9, <2>1 DEF Deleted
    <3>2. facts[g].conn = n /\ conns[n].factories[facts[g].db] = g
      BY <1>1, <2>1, <3>1 DEF ExactOK
    <3>3. facts'[g].conn = facts[g].conn /\ facts'[g].db = facts[g].db
      BY <1>2, <2>1 DEF Grows
    <3>4. facts[g].db \in Db
      <4>1. facts[g] \in FactRecord BY <1>1, <2>1
      <4> QED BY <4>1 DEF FactRecord
    <3>5. g # 0 BY <2>1
    <3>6. facts[g].db = d => f = g BY <1>2, <3>2, <3>5
    <3> QED BY <1>3, <3>2, <3>3, <3>4, <3>6
  <2>2. CASE g \notin 1..Len(facts)
    <3>1. g = f /\ facts'[f].conn = n /\ facts'[f].db = d BY <1>2, <1>4, <2>2
    <3> QED BY <1>1, <1>3, <3>1
  <2> QED BY <2>1, <2>2
<1>10. "open" # "closed" OBVIOUS
<1> QED BY <1>1, <1>2, <1>8, <1>9, <1>10 DEF ExactOK, Deleted

\* A call that gets a factory keeps everything, but for those who wait.
LEMMA UsesKeeps ==
  ASSUME ConstantsAssumption, RegistryInv, NEW c \in Call, NEW q \in CallRecord,
         NEW cs, cs = [call EXCEPT ![c] = q], q.kind \in Asks, q.db \in Db, q.left = {},
         q.answer = None, NEW n \in 1..Len(conns), NEW cns \in Seq(ConnRecord),
         Len(cns) = Len(conns), \A m \in 1..Len(conns) : m # n => cns[m] = conns[m],
         cns[n].factories = conns[n].factories,
         NEW f \in Nat, NEW r, Uses(cns, cs, c, n, f, r),
         UNCHANGED <<registry, rash>>, notify' \in 0..Len(conns),
         ~rash => /\ n = registry /\ cns[n].pool = "open" /\ cns[n].count = conns[n].count
                  /\ notify' # 0 => notify' = registry,
         \/ call[c].kind = None
         \/ call[c].kind = q.kind /\ call[c].of = q.of /\ call[c].answer = None
  PROVE /\ RegistryTypeOK' /\ LinksOK' /\ TargetsOK' /\ ExactOK'
        /\ \A d \in Call : KindOK(call'[d]) /\ SlotOK(d)'
        /\ \A d \in Call : d # c => call'[d] = call[d]
<1>0. PICK d : d = q.db OBVIOUS
<1>1. /\ RegistryTypeOK /\ LinksOK /\ TargetsOK /\ ExactOK /\ facts \in Seq(FactRecord)
      /\ call \in [Call -> CallRecord] /\ rash \in BOOLEAN
      /\ \A e \in Call : KindOK(call[e]) /\ SlotOK(e)
      /\ registry \in 0..Len(conns)
  BY DEF RegistryInv, RegistryTypeOK
<1>2. cs[c] = q BY <1>1
<1>3. /\ r \in CallRecord /\ call' = [cs EXCEPT ![c] = r] /\ Given(facts', q, r, c, f)
      /\ facts' \in Seq(FactRecord) /\ Grows(facts, facts', c)
      /\ \A g \in 1..Len(facts) : facts'[g].state = facts[g].state
      /\ f \in 1..Len(facts') /\ conns' \in Seq(ConnRecord) /\ Len(conns') = Len(conns)
      /\ \A m \in 1..Len(conns) : m # n => conns'[m] = conns[m]
      /\ conns'[n].factories = [conns[n].factories EXCEPT ![d] = f]
      /\ \/ Len(facts') = Len(facts)
         \/ f = Len(facts) + 1 /\ Len(facts') = f /\ facts'[f].conn = n
  BY <1>0, <1>2 DEF Uses
<1>4. call' = [call EXCEPT ![c] = r] BY <1>3
<1>5. /\ r.kind = q.kind /\ r.db = d /\ r.of = q.of /\ r.left = {} /\ r.factory = f
      /\ \/ /\ r.step = "mappingSession" \/ (r.step = "dbSession" /\ r.kind = "openSession")
            /\ r.answer = None
            /\ r.slot \in 1..Len(facts'[f].sessions) /\ facts'[f].sessions[r.slot] = -c
         \/ r.kind = "connect" /\ r.step = "done" /\ r.answer = "ok"
  BY <1>0, <1>3 DEF Given
<1>6. r.kind \in Asks /\ None \notin Asks /\ r.db \in Db
  BY <1>0, <1>5 DEF Asks, ConstantsAssumption, Kinds
<1>7. KindOK(r)
  BY <1>5, <1>6 DEF KindOK, Asks
<1>8. /\ call' \in [Call -> CallRecord] /\ call'[c] = r
      /\ \A e \in Call : e # c => call'[e] = call[e]
      /\ \A e \in Call : KindOK(call'[e])
  BY <1>1, <1>3, <1>4, <1>7, CallsMove
<1>9. RegistryTypeOK' BY <1>1, <1>3, <1>8 DEF RegistryTypeOK
<1>10. LinksOK'
  <2>1. Len(facts) \in Nat /\ Len(facts') \in Nat /\ Len(facts) <= Len(facts')
    BY <1>1, <1>3
  <2>2. ASSUME NEW m \in 1..Len(conns), NEW e \in Db
        PROVE conns'[m].factories[e] \in 0..Len(facts')
    <3>1. conns[m].factories[e] \in 0..Len(facts') BY <1>1, <2>1 DEF LinksOK
    <3>2. CASE m # n BY <1>3, <3>1, <3>2
    <3>3. CASE m = n
      <4>1. conns[n].factories \in [Db -> Nat]
        <5>1. conns[n] \in ConnRecord BY <1>1 DEF RegistryTypeOK
        <5> QED BY <5>1 DEF ConnRecord
      <4>2. \A F \in [Db -> Nat] : [F EXCEPT ![d] = f][e] = IF e = d THEN f ELSE F[e] OBVIOUS
      <4>3. conns'[n].factories[e] = IF e = d THEN f ELSE conns[n].factories[e]
        BY <1>3, <4>1, <4>2
      <4>4. f \in 0..Len(facts') BY <1>3, <2>1
      <4> QED BY <3>1, <3>3, <4>3, <4>4
    <3> QED BY <3>2, <3>3
  <2>3. ASSUME NEW g \in 1..Len(facts') PROVE facts'[g].conn \in 1..Len(conns)
    <3>1. CASE g \in 1..Len(facts) BY <1>1, <1>3, <3>1 DEF LinksOK, Grows
    <3>2. CASE g \notin 1..Len(facts) BY <1>3, <2>1, <3>2
    <3> QED BY <3>1, <3>2
  <2> QED BY <1>3, <2>2, <2>3 DEF LinksOK
<1>11. ExactOK'
  <2>1. cs[c].db \in Db BY <1>2
  <2> QED BY <1>1, <2>1, UsesExact
<1>12. TargetsOK'
  <2>1. r.kind # "close" /\ r.kind # "closeSession" /\ r.step # "sessionsClose"
    BY <1>5, <1>6 DEF Asks
  <2>2. \A g \in 1..Len(facts) : facts'[g].state = "deleted" => facts[g].state = "deleted"
    BY <1>3
  <2>3. r.kind = "connect" /\ r.answer = "ok" => r.factory \in 1..Len(facts') BY <1>3, <1>5
  <2>6. RegistryTypeOK /\ TargetsOK /\ \A e \in Call : KindOK(call[e]) BY <1>1
  <2>7. r \in CallRecord /\ Grows(facts, facts', c) /\ rash' = rash BY <1>3
  <2>4. CASE call[c].kind = None
    <3>1. rash => rash' BY <2>7
    <3>2. r.kind = "closeSession" => r.of \in Call /\ OpenSession(r.of) BY <2>1
    <3> QED BY <1>4, <1>7, <2>1, <2>2, <2>3, <2>4, <2>6, <2>7, <3>1, <3>2, NewTargets
  <2>5. CASE call[c].kind = q.kind /\ call[c].of = q.of /\ call[c].answer = None
    <3>1. call[c].kind # None /\ r.kind = call[c].kind /\ r.of = call[c].of
      BY <1>5, <1>6, <2>5
    <3> QED BY <1>4, <1>7, <2>1, <2>2, <2>3, <2>5, <2>6, <2>7, <3>1, TargetsKept
  <2> QED BY <2>4, <2>5
<1>13. \A e \in Call : Gone(e) => Gone(e)'
  <2>1. Follows(call[c], r) BY <1>5 DEF Follows
  <2> QED BY <1>1, <1>4, <2>1, GoneKept
<1>14. \A e \in Call : e \notin {c, c} => SlotOK(e)'
  BY <1>1, <1>3, <1>8, <1>13, SlotsKept
<1>15. SlotOK(c)'
  <2>1. CASE r.step \in {"mappingSession", "dbSession"}
    <3>1. /\ r.factory = f /\ f \in 1..Len(facts') /\ r.slot \in 1..Len(facts'[f].sessions)
          /\ facts'[f].sessions[r.slot] = -c
      BY <1>3, <1>5, <2>1
    <3> QED BY <1>8, <2>1, <3>1 DEF SlotOK, InSlot, Placeholding
  <2>2. CASE r.kind = "connect" /\ r.step = "done"
    BY <1>8, <2>2 DEF SlotOK, HasSlot, Placeholding
  <2> QED BY <1>5, <2>1, <2>2
<1> QED BY <1>8, <1>9, <1>10, <1>11, <1>12, <1>14, <1>15

\* A call that asks for a connection, and waits for it or has failed.
LEMMA AskKeeps ==
  ASSUME ConstantsAssumption, RegistryInv, NEW c \in Call, NEW r \in CallRecord,
         call' = [call EXCEPT ![c] = r], r.kind \in Asks, r.left = {},
         \/ r.step = "connection" /\ r.db \in Db /\ r.answer = None
         \/ r.step = "done" /\ r.answer = "error",
         \/ call[c].kind = None
         \/ call[c].kind = r.kind /\ call[c].of = r.of /\ call[c].answer = None,
         UNCHANGED <<facts, rash>>
  PROVE /\ TargetsOK' /\ call' \in [Call -> CallRecord]
        /\ \A d \in Call : KindOK(call'[d]) /\ SlotOK(d)'
        /\ call'[c] = r /\ \A d \in Call : d # c => call'[d] = call[d]
<1>1. /\ RegistryTypeOK /\ TargetsOK /\ facts \in Seq(FactRecord)
      /\ call \in [Call -> CallRecord] /\ rash \in BOOLEAN
      /\ \A e \in Call : KindOK(call[e]) /\ SlotOK(e)
  BY DEF RegistryInv, RegistryTypeOK
<1>2. /\ None \notin Asks /\ None # "error" /\ r.kind # "close" /\ r.kind # "closeSession"
      /\ r.step # "sessionsClose"
  BY DEF Asks, ConstantsAssumption, Kinds
<1>3. KindOK(r) BY <1>2 DEF KindOK
<1>4. /\ call' \in [Call -> CallRecord] /\ call'[c] = r
      /\ \A d \in Call : d # c => call'[d] = call[d]
      /\ \A d \in Call : KindOK(call'[d])
  BY <1>1, <1>3, CallsMove
<1>5. Grows(facts, facts', c) /\ facts' \in Seq(FactRecord)
  BY <1>1, GrowsItself
<1>6. TargetsOK'
  <2>1. RegistryTypeOK /\ TargetsOK /\ \A e \in Call : KindOK(call[e]) BY <1>1
  <2>2. \A g \in 1..Len(facts) : facts'[g].state = "deleted" => facts[g].state = "deleted"
    OBVIOUS
  <2>3. r.answer # "ok"
    <3>1. None # "ok" BY DEF ConstantsAssumption
    <3> QED BY <3>1
  <2>4. rash' = rash /\ (rash => rash') OBVIOUS
  <2>5. CASE call[c].kind = None
    <3>2. r.kind = "closeSession" => r.of \in Call /\ OpenSession(r.of) BY <1>2
    <3> QED BY <1>2, <1>3, <1>5, <2>1, <2>2, <2>3, <2>4, <2>5, <3>2, NewTargets
  <2>6. CASE call[c].kind = r.kind /\ call[c].of = r.of /\ call[c].answer = None
    <3>1. call[c].kind # None BY <1>2, <2>6
    <3> QED BY <1>2, <1>3, <1>5, <2>1, <2>2, <2>3, <2>4, <2>6, <3>1, TargetsKept
  <2> QED BY <2>5, <2>6
<1>7. \A e \in Call : Gone(e) => Gone(e)'
  <2>1. Follows(call[c], r) BY DEF Follows
  <2> QED BY <1>1, <2>1, GoneKept
<1>8. \A e \in Call : e \notin {c, c} => SlotOK(e)'
  BY <1>1, <1>4, <1>5, <1>7, SlotsKept
<1>9. SlotOK(c)'
  <2>1. r.answer # "ok" BY DEF ConstantsAssumption
  <2> QED BY <1>4, <2>1 DEF SlotOK, HasSlot, Placeholding
<1> QED BY <1>4, <1>6, <1>8, <1>9

\* The pool of Connection n answers: those who wait are told next.
LEMMA PoolWaiting ==
  ASSUME RegistryTypeOK, WaitingOK, NEW n \in 1..Len(conns), conns[n].isConnecting, notify = 0,
         \A d \in Call : d # conns[n].first => call'[d] = call[d],
         Len(conns') = Len(conns), \A m \in 1..Len(conns) : m # n => conns'[m] = conns[m],
         conns'[n].isConnecting = FALSE, conns'[n].waiting = conns[n].waiting,
         notify' = IF conns[n].waiting = <<>> THEN 0 ELSE n
  PROVE WaitingOK'
<1>1. \A m \in 1..Len(conns) : conns[m].first \in Call /\ conns[m].waiting \in Seq(Call)
  <2>1. \A m \in 1..Len(conns) : conns[m] \in ConnRecord BY DEF RegistryTypeOK
  <2> QED BY <2>1 DEF ConnRecord
<1>2. n = registry BY DEF WaitingOK
<1>3. \A m \in 1..Len(conns') : ~conns'[m].isConnecting BY <1>2 DEF WaitingOK
<1>4. \A m \in 1..Len(conns) : m # n => conns[m].waiting = <<>> BY <1>2 DEF WaitingOK
<1>5. \A m \in 1..Len(conns') : conns'[m].waiting # <<>> => notify' = m BY <1>4
<1>6. ASSUME NEW m \in 1..Len(conns), NEW i \in 1..Len(conns'[m].waiting)
      PROVE /\ call'[conns'[m].waiting[i]].step = "connection"
            /\ \A j \in 1..Len(conns'[m].waiting) :
                 conns'[m].waiting[i] = conns'[m].waiting[j] => i = j
  <2>1. m = n /\ conns'[m].waiting = conns[n].waiting /\ i \in 1..Len(conns[n].waiting)
    BY <1>4, <1>6
  <2>2. conns[n].waiting[i] \in Call BY <1>1, <2>1
  <2>3. conns[n].waiting[i] # conns[n].first /\ call[conns[n].waiting[i]].step = "connection"
    BY <2>1 DEF WaitingOK
  <2>4. \A j \in 1..Len(conns[n].waiting) : conns[n].waiting[i] = conns[n].waiting[j] => i = j
    BY <2>1 DEF WaitingOK
  <2> QED BY <2>1, <2>2, <2>3, <2>4
<1>7. notify' # 0 => conns'[notify'].waiting # <<>> OBVIOUS
<1> QED BY <1>3, <1>5, <1>6, <1>7 DEF WaitingOK

\* One who waited has been told.
LEMMA NotifyWaiting ==
  ASSUME RegistryTypeOK, WaitingOK, NEW n \in 1..Len(conns), notify = n,
         \A d \in Call : d # Head(conns[n].waiting) => call'[d] = call[d],
         Len(conns') = Len(conns), \A m \in 1..Len(conns) : m # n => conns'[m] = conns[m],
         conns'[n].isConnecting = conns[n].isConnecting,
         conns'[n].waiting = Tail(conns[n].waiting),
         notify' = IF Len(conns[n].waiting) = 1 THEN 0 ELSE n
  PROVE WaitingOK'
<1>0. PICK w : w = conns[n].waiting OBVIOUS
<1>1. w \in Seq(Call) /\ w # <<>> /\ Len(w) \in Nat \ {0}
  <2>1. \A m \in 1..Len(conns) : conns[m] \in ConnRecord BY DEF RegistryTypeOK
  <2>2. w \in Seq(Call) BY <1>0, <2>1 DEF ConnRecord
  <2>3. w # <<>> BY <1>0 DEF WaitingOK
  <2> QED BY <2>2, <2>3
<1>2. PICK v : v = Tail(w) OBVIOUS
<1>3. /\ v \in Seq(Call) /\ Len(v) = Len(w) - 1 /\ \A i \in 1..Len(v) : v[i] = w[i + 1]
      /\ Head(w) = w[1]
  BY <1>1, <1>2
<1>4. \A m \in 1..Len(conns') : ~conns'[m].isConnecting BY DEF WaitingOK
<1>5. \A m \in 1..Len(conns) : m # n => conns[m].waiting = <<>> BY <1>4 DEF WaitingOK
<1>6. conns'[n].waiting = v BY <1>0, <1>2
<1>7. notify' = IF Len(w) = 1 THEN 0 ELSE n BY <1>0
<1>8. \A m \in 1..Len(conns') : conns'[m].waiting # <<>> => notify' = m
  <2> SUFFICES ASSUME NEW m \in 1..Len(conns), conns'[m].waiting # <<>> PROVE notify' = m
    OBVIOUS
  <2>1. m = n BY <1>5
  <2>2. Len(v) # 0 BY <1>3, <1>6, <2>1
  <2> QED BY <1>1, <1>3, <1>7, <2>1, <2>2
<1>9. ASSUME NEW m \in 1..Len(conns), NEW i \in 1..Len(conns'[m].waiting)
      PROVE /\ call'[conns'[m].waiting[i]].step = "connection"
            /\ \A j \in 1..Len(conns'[m].waiting) :
                 conns'[m].waiting[i] = conns'[m].waiting[j] => i = j
  <2>1. m = n /\ conns'[m].waiting = v /\ i \in 1..Len(v) BY <1>5, <1>6, <1>9
  <2>2. /\ i + 1 \in 1..Len(w) /\ 1 \in 1..Len(w) /\ v[i] = w[i + 1] /\ i + 1 # 1
        /\ w[i + 1] \in Call
    BY <1>1, <1>3, <2>1
  <2>3. /\ call[w[i + 1]].step = "connection"
        /\ \A j \in 1..Len(w) : w[i + 1] = w[j] => i + 1 = j
    BY <1>0, <2>2 DEF WaitingOK
  <2>4. v[i] # Head(w) /\ v[i] \in Call BY <1>3, <2>2, <2>3
  <2>5. call'[v[i]].step = "connection" BY <1>0, <2>2, <2>3, <2>4
  <2>6. \A j \in 1..Len(v) : v[i] = v[j] => i = j
    <3> TAKE j \in 1..Len(v)
    <3>1. v[j] = w[j + 1] /\ j + 1 \in 1..Len(w) /\ (i + 1 = j + 1 => i = j) BY <1>1, <1>3, <2>1
    <3> QED BY <2>2, <2>3, <3>1
  <2> QED BY <2>1, <2>5, <2>6
<1>10. notify' # 0 => conns'[notify'].waiting # <<>>
  <2> SUFFICES ASSUME Len(w) # 1 PROVE conns'[n].waiting # <<>> BY <1>7
  <2>1. Len(v) # 0 BY <1>1, <1>3
  <2> QED BY <1>6, <2>1
<1> QED BY <1>4, <1>8, <1>9, <1>10 DEF WaitingOK

\* A call is made, and the connections wait as they did.
LEMMA SameWaiting ==
  ASSUME RegistryTypeOK, WaitingOK, NEW c \in Call, call[c].step = "new",
         \A d \in Call : d # c => call'[d] = call[d],
         Len(conns') = Len(conns), UNCHANGED <<registry, notify>>,
         \A m \in 1..Len(conns) :
           /\ conns'[m].isConnecting = conns[m].isConnecting /\ conns'[m].first = conns[m].first
           /\ conns'[m].waiting = conns[m].waiting
           /\ conns[m].isConnecting => conns'[m].factories = conns[m].factories
  PROVE WaitingOK'
<1>1. \A m \in 1..Len(conns) : conns[m].first \in Call /\ conns[m].waiting \in Seq(Call)
  <2>1. \A m \in 1..Len(conns) : conns[m] \in ConnRecord BY DEF RegistryTypeOK
  <2> QED BY <2>1 DEF ConnRecord
<1>2. \A m \in 1..Len(conns) : \A i \in 1..Len(conns[m].waiting) : conns[m].waiting[i] \in Call
  BY <1>1
<1>3. \A d \in Call : call[d].step = "connection" => call'[d].step = "connection" OBVIOUS
<1>4. \A m \in 1..Len(conns') : conns'[m].isConnecting =>
       /\ m = registry' /\ notify' = 0
       /\ \A d \in Db : conns'[m].factories[d] = 0
       /\ call'[conns'[m].first].step = "connection"
       /\ \A i \in 1..Len(conns'[m].waiting) : conns'[m].waiting[i] # conns'[m].first
  BY <1>1, <1>3 DEF WaitingOK
<1>5. \A m \in 1..Len(conns') : \A i \in 1..Len(conns'[m].waiting) :
       /\ call'[conns'[m].waiting[i]].step = "connection"
       /\ \A j \in 1..Len(conns'[m].waiting) : conns'[m].waiting[i] = conns'[m].waiting[j] => i = j
  BY SMTT(20), <1>2, <1>3 DEF WaitingOK
<1>6. notify' # 0 => conns'[notify'].waiting # <<>>
  <2>1. notify \in 0..Len(conns) BY DEF RegistryTypeOK
  <2> QED BY <2>1 DEF WaitingOK
<1>7. \A m \in 1..Len(conns') : conns'[m].waiting # <<>> => notify' = m \/ conns'[m].isConnecting
  BY DEF WaitingOK
<1> QED BY <1>4, <1>5, <1>6, <1>7 DEF WaitingOK

\* The factories of the registry stay as they are.
LEMMA SameExact ==
  ASSUME RegistryTypeOK, ExactOK, UNCHANGED <<registry, facts, rash>>, Len(conns') = Len(conns),
         registry # 0 => /\ conns'[registry].factories = conns[registry].factories
                         /\ conns'[registry].count = conns[registry].count
                         /\ \/ conns'[registry].pool = conns[registry].pool
                            \/ /\ conns'[registry].pool # "closed"
                               /\ \A d \in Db : conns[registry].factories[d] = 0,
         ~rash => (notify' # 0 => notify' = registry),
         \A f \in 1..Len(facts) : facts[f].conn # 0
  PROVE ExactOK'
<1> SUFFICES ASSUME ~rash PROVE ExactOK' BY DEF ExactOK
<1>1. registry # 0 => Served' = Served BY DEF Served
<1>2. ASSUME NEW f \in 1..Len(facts), facts[f].state # "deleted"
      PROVE /\ facts[f].conn = registry /\ conns'[registry].factories[facts[f].db] = f
            /\ conns'[registry].pool = "open"
  <2>1. /\ facts[f].conn = registry /\ conns[registry].factories[facts[f].db] = f
        /\ conns[registry].pool = "open" /\ registry # 0
    BY <1>2 DEF ExactOK, Deleted
  <2>2. facts[f].db \in Db /\ f # 0
    <3>1. facts[f] \in FactRecord BY DEF RegistryTypeOK
    <3> QED BY <3>1 DEF FactRecord
  <2> QED BY <2>1, <2>2
<1>3. registry # 0 => conns'[registry].pool # "closed" BY DEF ExactOK
<1>4. registry # 0 => /\ IsFiniteSet(Served')
                      /\ conns'[registry].count = Cardinality(Served')
  BY <1>1 DEF ExactOK
<1> QED BY <1>2, <1>3, <1>4 DEF ExactOK, Deleted

\* What the Connection becomes when its pool is there, or has failed.
Answered(n, ok) ==
  [conns EXCEPT ![n].isConnecting = FALSE, ![n].pool = IF ok THEN "open" ELSE None]

IsAnswered(cns, n, ok) ==
  /\ cns \in Seq(ConnRecord) /\ Len(cns) = Len(conns)
  /\ \A m \in 1..Len(conns) : m # n => cns[m] = conns[m]
  /\ cns[n].isConnecting = FALSE /\ cns[n].pool = (IF ok THEN "open" ELSE None)
  /\ cns[n].count = conns[n].count /\ cns[n].first = conns[n].first
  /\ cns[n].factories = conns[n].factories /\ cns[n].waiting = conns[n].waiting

LEMMA AnsweredDoes ==
  ASSUME NEW cns, NEW n, NEW ok \in BOOLEAN, conns \in Seq(ConnRecord), n \in 1..Len(conns),
         cns = Answered(n, ok)
  PROVE IsAnswered(cns, n, ok)
<1>1. PICK o \in ConnRecord : o = conns[n] OBVIOUS
<1>2. PICK p \in {None, "open"} : p = IF ok THEN "open" ELSE None OBVIOUS
<1>3. PICK e : e = [o EXCEPT !.isConnecting = FALSE, !.pool = p] OBVIOUS
<1>4. /\ e \in ConnRecord /\ e.isConnecting = FALSE /\ e.pool = p /\ e.count = o.count
      /\ e.first = o.first /\ e.factories = o.factories /\ e.waiting = o.waiting
  BY <1>3 DEF ConnRecord
<1>5. cns = [conns EXCEPT ![n] = e] BY <1>1, <1>2, <1>3 DEF Answered
<1>6. /\ cns \in Seq(ConnRecord) /\ Len(cns) = Len(conns) /\ cns[n] = e
      /\ \A m \in 1..Len(conns) : m # n => cns[m] = conns[m]
  BY <1>4, <1>5
<1> QED BY <1>1, <1>2, <1>4, <1>6 DEF IsAnswered

\* What it becomes when others wait for it, or have been told.
Requeued(n, w) == [conns EXCEPT ![n].waiting = w]

IsRequeued(cns, n, w) ==
  /\ cns \in Seq(ConnRecord) /\ Len(cns) = Len(conns)
  /\ \A m \in 1..Len(conns) : m # n => cns[m] = conns[m]
  /\ cns[n].isConnecting = conns[n].isConnecting /\ cns[n].pool = conns[n].pool
  /\ cns[n].count = conns[n].count /\ cns[n].first = conns[n].first
  /\ cns[n].factories = conns[n].factories /\ cns[n].waiting = w

LEMMA RequeuedDoes ==
  ASSUME NEW cns, NEW n, NEW w, conns \in Seq(ConnRecord), n \in 1..Len(conns), w \in Seq(Call),
         cns = Requeued(n, w)
  PROVE IsRequeued(cns, n, w)
<1>1. PICK o \in ConnRecord : o = conns[n] OBVIOUS
<1>3. PICK e : e = [o EXCEPT !.waiting = w] OBVIOUS
<1>4. /\ e \in ConnRecord /\ e.isConnecting = o.isConnecting /\ e.pool = o.pool
      /\ e.count = o.count
      /\ e.first = o.first /\ e.factories = o.factories /\ e.waiting = w
  BY <1>3 DEF ConnRecord
<1>5. cns = [conns EXCEPT ![n] = e] BY <1>1, <1>3 DEF Requeued
<1>6. /\ cns \in Seq(ConnRecord) /\ Len(cns) = Len(conns) /\ cns[n] = e
      /\ \A m \in 1..Len(conns) : m # n => cns[m] = conns[m]
  BY <1>4, <1>5
<1> QED BY <1>1, <1>4, <1>6 DEF IsRequeued

\* What a call that waits for a connection looks like.
LEMMA WaiterIs ==
  ASSUME RegistryInv, NEW c \in Call, call[c].step = "connection"
  PROVE /\ call[c] \in CallRecord /\ call = [call EXCEPT ![c] = call[c]]
        /\ call[c].kind \in Asks /\ call[c].db \in Db /\ call[c].left = {} /\ call[c].answer = None
<1>1. call \in [Call -> CallRecord] /\ KindOK(call[c]) BY DEF RegistryInv, RegistryTypeOK
<1>2. call = [call EXCEPT ![c] = call[c]] BY <1>1
<1> QED BY <1>1, <1>2 DEF KindOK

LEMMA PoolCreatedKeeps ==
  ASSUME ConstantsAssumption, RegistryInv, NEW n \in 1..Len(conns), NEW ok \in BOOLEAN,
         PoolCreated(n, ok)
  PROVE RegistryInv'
<1>0. PICK c : c = conns[n].first OBVIOUS
<1>1. /\ RegistryTypeOK /\ LinksOK /\ WaitingOK /\ ExactOK /\ conns \in Seq(ConnRecord)
      /\ facts \in Seq(FactRecord)
  BY DEF RegistryInv, RegistryTypeOK
<1>2. conns[n] \in ConnRecord BY <1>1
<1>3. /\ notify = 0 /\ conns[n].isConnecting /\ UNCHANGED <<registry, rash>>
      /\ notify' = IF conns[n].waiting = <<>> THEN 0 ELSE n
  BY DEF PoolCreated
<1>4. PICK cns : cns = Answered(n, ok) OBVIOUS
<1>5. /\ cns \in Seq(ConnRecord) /\ Len(cns) = Len(conns)
      /\ \A m \in 1..Len(conns) : m # n => cns[m] = conns[m]
      /\ cns[n].isConnecting = FALSE /\ cns[n].pool = (IF ok THEN "open" ELSE None)
      /\ cns[n].count = conns[n].count /\ cns[n].first = conns[n].first
      /\ cns[n].factories = conns[n].factories /\ cns[n].waiting = conns[n].waiting
  <2>1. IsAnswered(cns, n, ok) BY <1>1, <1>4, AnsweredDoes, Zenon
  <2> QED BY <2>1 DEF IsAnswered
<1>6. IF ok THEN UseConnection(cns, call, c, n)
      ELSE conns' = cns /\ call' = Fail(call, c) /\ UNCHANGED facts
  BY <1>0, <1>4, Zenon DEF PoolCreated, Answered
<1>7. /\ n = registry /\ \A d \in Db : conns[n].factories[d] = 0
      /\ call[c].step = "connection" /\ c \in Call
  BY <1>0, <1>1, <1>2, <1>3 DEF WaitingOK, ConnRecord
<1>8. /\ call[c] \in CallRecord /\ call = [call EXCEPT ![c] = call[c]]
      /\ call[c].kind \in Asks /\ call[c].db \in Db /\ call[c].left = {} /\ call[c].answer = None
  BY <1>7, WaiterIs
<1>9. notify' \in 0..Len(conns) /\ (notify' # 0 => notify' = registry) BY <1>3, <1>7
<1>10. CASE ok
  <2>1. call \in [Call -> CallRecord] BY <1>1 DEF RegistryTypeOK
  <2>2. UseConnection(cns, call, c, n) BY <1>6, <1>10
  <2>3. PICK f \in Nat, r \in CallRecord : Uses(cns, call, c, n, f, r)
    BY <1>1, <1>5, <1>7, <1>8, <2>1, <2>2, UseConnectionDoes
  <2>4. ~rash => /\ n = registry /\ cns[n].pool = "open" /\ cns[n].count = conns[n].count
                 /\ notify' # 0 => notify' = registry
    BY <1>5, <1>7, <1>9, <1>10
  <2>5. /\ RegistryTypeOK' /\ LinksOK' /\ TargetsOK' /\ ExactOK'
        /\ \A d \in Call : KindOK(call'[d]) /\ SlotOK(d)'
        /\ \A d \in Call : d # c => call'[d] = call[d]
    BY <1>3, <1>5, <1>7, <1>8, <1>9, <2>3, <2>4, UsesKeeps
  <2>6. /\ Len(conns') = Len(conns) /\ \A m \in 1..Len(conns) : m # n => conns'[m] = conns[m]
        /\ conns'[n].isConnecting = FALSE /\ conns'[n].waiting = conns[n].waiting
    BY <1>5, <2>3 DEF Uses
  <2>7. WaitingOK' BY <1>0, <1>1, <1>3, <2>5, <2>6, PoolWaiting
  <2> QED BY <2>5, <2>7 DEF RegistryInv
<1>11. CASE ~ok
  <2>1. conns' = cns /\ call' = Fail(call, c) /\ UNCHANGED facts BY <1>6, <1>11
  <2>2. KindOK(call[c]) BY <1>7 DEF RegistryInv
  <2>3. PICK r \in CallRecord :
          /\ \A cs : cs = Fail(call, c) => cs = [call EXCEPT ![c] = r]
          /\ KindOK(r) /\ r.step = "done" /\ r.answer = "error"
          /\ r.kind = call[c].kind /\ r.of = call[c].of
    BY <1>1, <1>7, <2>2, FailDoes
  <2>4. call' = [call EXCEPT ![c] = r] BY <2>1, <2>3
  <2>5. r.left = {} /\ r.kind \in Asks BY <1>8, <2>3 DEF KindOK
  <2>6. /\ TargetsOK' /\ call' \in [Call -> CallRecord]
        /\ \A d \in Call : KindOK(call'[d]) /\ SlotOK(d)'
        /\ \A d \in Call : d # c => call'[d] = call[d]
    BY ZenonT(40), <1>3, <1>7, <1>8, <2>1, <2>3, <2>4, <2>5, AskKeeps
  <2>7. RegistryTypeOK' BY <1>1, <1>3, <1>5, <1>9, <2>1, <2>6 DEF RegistryTypeOK
  <2>8. \A m \in 1..Len(conns) : conns'[m].factories = conns[m].factories BY <1>5, <2>1
  <2>9. LinksOK' BY <1>1, <1>5, <2>1, <2>8 DEF LinksOK
  <2>10. WaitingOK' BY <1>0, <1>1, <1>3, <1>5, <2>1, <2>6, PoolWaiting
  <2>11. ExactOK'
    <3>1. conns'[n].pool = None /\ None # "closed" BY <1>5, <1>11, <2>1 DEF ConstantsAssumption
    <3>2. \A f \in 1..Len(facts) : facts[f].conn # 0 BY <1>1 DEF LinksOK
    <3>3. /\ Len(conns') = Len(conns) /\ conns'[registry].factories = conns[registry].factories
          /\ conns'[registry].count = conns[registry].count
      BY <1>5, <1>7, <2>1
    <3> QED BY <1>1, <1>3, <1>7, <1>9, <2>1, <3>1, <3>2, <3>3, SameExact
  <2> QED BY <2>6, <2>7, <2>9, <2>10, <2>11 DEF RegistryInv
<1> QED BY <1>10, <1>11

LEMMA NotifyKeeps ==
  ASSUME ConstantsAssumption, RegistryInv, Notify
  PROVE RegistryInv'
<1>1. /\ RegistryTypeOK /\ LinksOK /\ WaitingOK /\ ExactOK /\ conns \in Seq(ConnRecord)
      /\ facts \in Seq(FactRecord)
  BY DEF RegistryInv, RegistryTypeOK
<1>2. PICK n : n = notify OBVIOUS
<1>3. n \in 1..Len(conns) /\ n # 0 /\ UNCHANGED <<registry, rash>> BY <1>1, <1>2 DEF Notify, RegistryTypeOK
<1>4. PICK w : w = conns[n].waiting OBVIOUS
<1>5. w \in Seq(Call) /\ w # <<>>
  <2>1. conns[n] \in ConnRecord BY <1>1, <1>3
  <2>2. w \in Seq(Call) BY <1>4, <2>1 DEF ConnRecord
  <2> QED BY <1>1, <1>2, <1>3, <1>4, <2>2 DEF WaitingOK
<1>6. PICK c : c = Head(w) OBVIOUS
<1>7. /\ c = w[1] /\ c \in Call /\ 1 \in 1..Len(w) /\ Tail(w) \in Seq(Call)
  BY <1>5, <1>6
<1>8. call[c].step = "connection" BY <1>1, <1>3, <1>4, <1>7 DEF WaitingOK
<1>9. PICK cns : cns = Requeued(n, Tail(w)) OBVIOUS
<1>10. /\ cns \in Seq(ConnRecord) /\ Len(cns) = Len(conns)
       /\ \A m \in 1..Len(conns) : m # n => cns[m] = conns[m]
       /\ cns[n].isConnecting = conns[n].isConnecting /\ cns[n].pool = conns[n].pool
       /\ cns[n].count = conns[n].count /\ cns[n].first = conns[n].first
       /\ cns[n].factories = conns[n].factories /\ cns[n].waiting = Tail(w)
  <2>1. IsRequeued(cns, n, Tail(w)) BY <1>1, <1>3, <1>7, <1>9, RequeuedDoes, Zenon
  <2> QED BY <2>1 DEF IsRequeued
<1>11. /\ IF conns[n].pool = None
          THEN conns' = cns /\ call' = Fail(call, c) /\ UNCHANGED facts
          ELSE UseConnection(cns, call, c, n)
       /\ notify' = IF Len(w) = 1 THEN 0 ELSE n
  <2>1. cns = [conns EXCEPT ![n].waiting = Tail(@)] BY <1>4, <1>9 DEF Requeued
  <2> QED BY <1>2, <1>4, <1>6, <2>1, Zenon DEF Notify
<1>12. /\ call[c] \in CallRecord /\ call = [call EXCEPT ![c] = call[c]]
       /\ call[c].kind \in Asks /\ call[c].db \in Db /\ call[c].left = {} /\ call[c].answer = None
  BY <1>7, <1>8, WaiterIs
<1>13. notify' \in 0..Len(conns) /\ (~rash => n = registry /\ (notify' # 0 => notify' = registry))
  BY <1>1, <1>2, <1>3, <1>11 DEF ExactOK
<1>14. CASE conns[n].pool # None
  <2>1. call \in [Call -> CallRecord] BY <1>1 DEF RegistryTypeOK
  <2>2. UseConnection(cns, call, c, n) BY <1>11, <1>14
  <2>3. PICK f \in Nat, r \in CallRecord : Uses(cns, call, c, n, f, r)
    BY <1>1, <1>3, <1>7, <1>10, <1>12, <2>1, <2>2, UseConnectionDoes
  <2>4. ~rash => /\ n = registry /\ cns[n].pool = "open" /\ cns[n].count = conns[n].count
                 /\ notify' # 0 => notify' = registry
    <3> SUFFICES ASSUME ~rash PROVE conns[n].pool = "open" BY <1>10, <1>13
    <3>1. conns[n].pool # "closed" BY <1>1, <1>3, <1>13 DEF ExactOK
    <3>2. conns[n] \in ConnRecord BY <1>1, <1>3
    <3> QED BY <1>14, <3>1, <3>2 DEF ConnRecord
  <2>5. /\ RegistryTypeOK' /\ LinksOK' /\ TargetsOK' /\ ExactOK'
        /\ \A d \in Call : KindOK(call'[d]) /\ SlotOK(d)'
        /\ \A d \in Call : d # c => call'[d] = call[d]
    BY <1>3, <1>7, <1>10, <1>12, <1>13, <2>3, <2>4, UsesKeeps
  <2>6. /\ Len(conns') = Len(conns) /\ \A m \in 1..Len(conns) : m # n => conns'[m] = conns[m]
        /\ conns'[n].isConnecting = conns[n].isConnecting /\ conns'[n].waiting = Tail(w)
    BY <1>10, <2>3 DEF Uses
  <2>7. WaitingOK' BY <1>1, <1>2, <1>3, <1>4, <1>6, <1>11, <2>5, <2>6, NotifyWaiting
  <2> QED BY <2>5, <2>7 DEF RegistryInv
<1>15. CASE conns[n].pool = None
  <2>1. conns' = cns /\ call' = Fail(call, c) /\ UNCHANGED facts BY <1>11, <1>15
  <2>2. KindOK(call[c]) BY <1>7 DEF RegistryInv
  <2>3. PICK r \in CallRecord :
          /\ \A cs : cs = Fail(call, c) => cs = [call EXCEPT ![c] = r]
          /\ KindOK(r) /\ r.step = "done" /\ r.answer = "error"
          /\ r.kind = call[c].kind /\ r.of = call[c].of
    BY <1>1, <1>7, <1>8, <2>2, FailDoes
  <2>4. call' = [call EXCEPT ![c] = r] BY <2>1, <2>3
  <2>5. r.left = {} /\ r.kind \in Asks BY <1>12, <2>3 DEF KindOK
  <2>6. /\ TargetsOK' /\ call' \in [Call -> CallRecord]
        /\ \A d \in Call : KindOK(call'[d]) /\ SlotOK(d)'
        /\ \A d \in Call : d # c => call'[d] = call[d]
    BY <1>3, <1>7, <1>12, <2>1, <2>3, <2>4, <2>5, AskKeeps
  <2>7. RegistryTypeOK' BY <1>1, <1>3, <1>10, <1>13, <2>1, <2>6 DEF RegistryTypeOK
  <2>8. \A m \in 1..Len(conns) :
          /\ conns'[m].factories = conns[m].factories /\ conns'[m].count = conns[m].count
          /\ conns'[m].pool = conns[m].pool
    BY <1>10, <2>1
  <2>9. LinksOK' BY <1>1, <1>10, <2>1, <2>8 DEF LinksOK
  <2>10. WaitingOK' BY <1>1, <1>2, <1>3, <1>4, <1>6, <1>10, <1>11, <2>1, <2>6, NotifyWaiting
  <2>11. ExactOK'
    <3>1. \A f \in 1..Len(facts) : facts[f].conn # 0 BY <1>1 DEF LinksOK
    <3>2. registry # 0 => registry \in 1..Len(conns) BY <1>1 DEF RegistryTypeOK
    <3>3. Len(conns') = Len(conns) BY <1>10, <2>1
    <3>4. registry # 0 => /\ conns'[registry].factories = conns[registry].factories
                          /\ conns'[registry].count = conns[registry].count
                          /\ conns'[registry].pool = conns[registry].pool
      BY <2>8, <3>2
    <3> QED BY <1>1, <1>3, <1>13, <2>1, <3>1, <3>3, <3>4, SameExact
  <2> QED BY <2>6, <2>7, <2>9, <2>10, <2>11 DEF RegistryInv
<1> QED BY <1>14, <1>15

\* The first call makes the Connection.
LEMMA MakeConnection ==
  ASSUME ConstantsAssumption, RegistryInv, NEW c \in Call, NEW q \in CallRecord,
         call' = [call EXCEPT ![c] = q], call[c].kind = None, registry = 0, notify = 0,
         q.kind \in Asks, q.db \in Db, q.step = "connection", q.left = {}, q.answer = None,
         conns' = Append(conns, NewConnection(c)), registry' = Len(conns) + 1,
         UNCHANGED <<facts, notify, rash>>
  PROVE RegistryInv'
<1>1. /\ RegistryTypeOK /\ LinksOK /\ WaitingOK /\ conns \in Seq(ConnRecord)
      /\ \A d \in Call : KindOK(call[d])
  BY DEF RegistryInv, RegistryTypeOK
<1>2. PICK e : e = NewConnection(c) OBVIOUS
<1>3. /\ e \in ConnRecord /\ e.isConnecting = TRUE /\ e.pool = None /\ e.count = 0
      /\ e.first = c /\ e.factories = [d \in Db |-> 0] /\ e.waiting = <<>>
  BY <1>2 DEF NewConnection, ConnRecord
<1>4. PICK n \in Nat : n = Len(conns) + 1 BY <1>1
<1>5. /\ conns' \in Seq(ConnRecord) /\ Len(conns') = n /\ conns'[n] = e /\ Len(conns) \in Nat
      /\ \A m \in 1..Len(conns) : conns'[m] = conns[m]
      /\ n \in 1..n /\ \A m \in 1..n : m # n => m \in 1..Len(conns)
  BY <1>1, <1>2, <1>3, <1>4
<1>6. /\ TargetsOK' /\ call' \in [Call -> CallRecord]
      /\ \A d \in Call : KindOK(call'[d]) /\ SlotOK(d)'
      /\ call'[c] = q /\ \A d \in Call : d # c => call'[d] = call[d]
  BY AskKeeps
<1>7. RegistryTypeOK' BY <1>1, <1>4, <1>5, <1>6 DEF RegistryTypeOK
<1>8. LinksOK'
  <2>1. \A m \in 1..n, d \in Db : conns'[m].factories[d] \in 0..Len(facts)
    <3> SUFFICES ASSUME NEW m \in 1..n, NEW d \in Db PROVE conns'[m].factories[d] \in 0..Len(facts)
      OBVIOUS
    <3>1. CASE m = n
      <4>1. Len(facts) \in Nat BY <1>1 DEF RegistryTypeOK
      <4> QED BY <1>3, <1>5, <3>1, <4>1
    <3>2. CASE m # n BY <1>1, <1>5, <3>2 DEF LinksOK
    <3> QED BY <3>1, <3>2
  <2>2. \A f \in 1..Len(facts) : facts[f].conn \in 1..n BY <1>1, <1>4, <1>5 DEF LinksOK
  <2> QED BY <1>5, <2>1, <2>2 DEF LinksOK
<1>9. \A m \in 1..Len(conns) : ~conns[m].isConnecting /\ conns[m].waiting = <<>>
  BY <1>1 DEF WaitingOK
<1>10. WaitingOK'
  <2>1. \A m \in 1..n : m # n => ~conns'[m].isConnecting BY <1>5, <1>9
  <2>2. \A m \in 1..n : conns'[m].waiting = <<>> BY <1>3, <1>5, <1>9
  <2>3. /\ n = registry' /\ notify' = 0 /\ \A d \in Db : conns'[n].factories[d] = 0
        /\ call'[conns'[n].first].step = "connection" /\ conns'[n].isConnecting
    BY <1>3, <1>4, <1>5, <1>6
  <2>4. Len(<<>>) = 0 OBVIOUS
  <2>5. \A m \in 1..Len(conns') : Len(conns'[m].waiting) = 0 BY <1>5, <2>2, <2>4
  <2> QED BY <1>5, <2>1, <2>2, <2>3, <2>5 DEF WaitingOK
<1>11. ExactOK'
  <2>1. Served' = {} BY <1>3, <1>4, <1>5 DEF Served
  <2>2. IsFiniteSet({}) /\ Cardinality({}) = 0 BY FS_EmptySet
  <2>3. IsFiniteSet(Served') /\ conns'[registry'].count = Cardinality(Served')
    BY <1>3, <1>4, <1>5, <2>1, <2>2
  <2>4. None # "closed" BY DEF ConstantsAssumption
  <2>5. conns'[registry'].pool # "closed" BY <1>3, <1>4, <1>5, <2>4
  <2>6. \A f \in 1..Len(facts) : ~rash => facts[f].state = "deleted"
    BY <1>1 DEF RegistryInv, ExactOK, LinksOK, Deleted
  <2> QED BY <2>3, <2>5, <2>6 DEF ExactOK, Deleted
<1> QED BY <1>6, <1>7, <1>8, <1>10, <1>11 DEF RegistryInv

\* A call waits for the Connection that connects.
LEMMA WaitForConnection ==
  ASSUME ConstantsAssumption, RegistryInv, NEW c \in Call, NEW q \in CallRecord,
         call' = [call EXCEPT ![c] = q], call[c].kind = None, registry # 0, notify = 0,
         q.kind \in Asks, q.db \in Db, q.step = "connection", q.left = {}, q.answer = None,
         conns[registry].isConnecting,
         conns' = Requeued(registry, Append(conns[registry].waiting, c)),
         UNCHANGED <<registry, facts, notify, rash>>
  PROVE RegistryInv'
<1>0. PICK n : n = registry OBVIOUS
<1>1. /\ RegistryTypeOK /\ LinksOK /\ WaitingOK /\ ExactOK /\ conns \in Seq(ConnRecord)
      /\ \A d \in Call : KindOK(call[d])
  BY DEF RegistryInv, RegistryTypeOK
<1>2. n \in 1..Len(conns) BY <1>0, <1>1 DEF RegistryTypeOK
<1>3. PICK w : w = conns[n].waiting OBVIOUS
<1>4. conns[n] \in ConnRecord /\ w \in Seq(Call) /\ conns[n].first \in Call
  <2>1. conns[n] \in ConnRecord BY <1>1, <1>2
  <2> QED BY <1>3, <2>1 DEF ConnRecord
<1>5. PICK v : v = Append(w, c) OBVIOUS
<1>6. /\ v \in Seq(Call) /\ Len(v) = Len(w) + 1 /\ Len(w) \in Nat /\ v[Len(w) + 1] = c
      /\ \A i \in 1..Len(w) : v[i] = w[i]
  BY <1>4, <1>5
<1>7. /\ conns' \in Seq(ConnRecord) /\ Len(conns') = Len(conns)
      /\ \A m \in 1..Len(conns) : m # n => conns'[m] = conns[m]
      /\ conns'[n].isConnecting = conns[n].isConnecting /\ conns'[n].pool = conns[n].pool
      /\ conns'[n].count = conns[n].count /\ conns'[n].first = conns[n].first
      /\ conns'[n].factories = conns[n].factories /\ conns'[n].waiting = v
  <2>1. PICK cns : cns = Requeued(n, v) OBVIOUS
  <2>2. IsRequeued(cns, n, v) BY <1>1, <1>2, <1>6, <2>1, RequeuedDoes, Zenon
  <2>3. conns' = cns BY <1>0, <1>3, <1>5, <2>1
  <2> QED BY <2>2, <2>3 DEF IsRequeued
<1>8. /\ TargetsOK' /\ call' \in [Call -> CallRecord]
      /\ \A d \in Call : KindOK(call'[d]) /\ SlotOK(d)'
      /\ call'[c] = q /\ \A d \in Call : d # c => call'[d] = call[d]
  BY AskKeeps
<1>9. RegistryTypeOK' BY <1>1, <1>7, <1>8 DEF RegistryTypeOK
<1>10. \A m \in 1..Len(conns) : conns'[m].factories = conns[m].factories BY <1>7
<1>11. LinksOK' BY <1>1, <1>7, <1>10 DEF LinksOK
<1>12. call[c].step = "new" BY <1>1 DEF KindOK
<1>13. WaitingOK'
  <2>1. /\ \A d \in Db : conns[n].factories[d] = 0
        /\ call[conns[n].first].step = "connection"
        /\ \A i \in 1..Len(w) : w[i] # conns[n].first
    BY <1>0, <1>1, <1>2, <1>3 DEF WaitingOK
  <2>2. \A m \in 1..Len(conns) : m # n => ~conns[m].isConnecting /\ conns[m].waiting = <<>>
    BY <1>0, <1>1, <1>2 DEF WaitingOK
  <2>3. \A i \in 1..Len(w) :
          /\ w[i] \in Call /\ call[w[i]].step = "connection" /\ w[i] # c
          /\ \A j \in 1..Len(w) : w[i] = w[j] => i = j
    BY <1>1, <1>2, <1>3, <1>4, <1>12 DEF WaitingOK
  <2>4. conns[n].first # c BY <1>12, <2>1
  <2>5. \A i \in 1..Len(v) : i \in 1..Len(w) \/ i = Len(w) + 1 BY <1>6
  <2>6. \A i \in 1..Len(v) : v[i] # conns[n].first BY <1>6, <2>1, <2>4, <2>5
  <2>7. \A i \in 1..Len(v) : call'[v[i]].step = "connection" BY <1>6, <1>8, <2>3, <2>5
  <2>8. \A i \in 1..Len(v) : \A j \in 1..Len(v) : v[i] = v[j] => i = j BY <1>6, <2>3, <2>5
  <2>9. \A m \in 1..Len(conns) : m # n => ~conns'[m].isConnecting /\ conns'[m].waiting = <<>>
    BY <1>7, <2>2
  <2>10. call'[conns[n].first].step = "connection" BY <1>4, <1>8, <2>1, <2>4
  <2>11. \A m \in 1..Len(conns') : conns'[m].isConnecting =>
       /\ m = registry' /\ notify' = 0
       /\ \A d \in Db : conns'[m].factories[d] = 0
       /\ call'[conns'[m].first].step = "connection"
       /\ \A i \in 1..Len(conns'[m].waiting) : conns'[m].waiting[i] # conns'[m].first
    BY <1>0, <1>7, <2>1, <2>6, <2>9, <2>10
  <2>12. \A m \in 1..Len(conns') : conns'[m].waiting # <<>> => conns'[m].isConnecting
    BY <1>0, <1>7, <2>9
  <2>13. \A m \in 1..Len(conns') : \A i \in 1..Len(conns'[m].waiting) :
       /\ call'[conns'[m].waiting[i]].step = "connection"
       /\ \A j \in 1..Len(conns'[m].waiting) : conns'[m].waiting[i] = conns'[m].waiting[j] => i = j
    BY <1>7, <2>7, <2>8, <2>9
  <2> QED BY <2>11, <2>12, <2>13 DEF WaitingOK
<1>14. ExactOK'
  <2>1. \A f \in 1..Len(facts) : facts[f].conn # 0 BY <1>1 DEF LinksOK
  <2> QED BY <1>0, <1>1, <1>7, <2>1, SameExact
<1> QED BY <1>8, <1>9, <1>11, <1>13, <1>14 DEF RegistryInv

LEMMA ConnectKeeps ==
  ASSUME ConstantsAssumption, RegistryInv, NEW c \in Call, NEW kind, NEW d \in Db,
         NEW mappings \in BOOLEAN, Connect(c, kind, d, mappings)
  PROVE RegistryInv'
<1>1. /\ RegistryTypeOK /\ LinksOK /\ WaitingOK /\ ExactOK /\ conns \in Seq(ConnRecord)
      /\ call \in [Call -> CallRecord] /\ KindOK(call[c]) /\ facts \in Seq(FactRecord)
  BY DEF RegistryInv, RegistryTypeOK
<1>2. /\ kind \in Asks /\ call[c].kind = None /\ notify = 0 /\ UNCHANGED <<notify, rash>>
  BY DEF Connect, NextCall
<1>3. call[c].step = "new" /\ call[c].left = {} /\ call[c].answer = None
  BY <1>1, <1>2 DEF KindOK, ConstantsAssumption, Kinds
<1>4. PICK q : q = [call[c] EXCEPT !.kind = kind, !.db = d, !.mappings = mappings,
                                   !.step = "connection"]
  OBVIOUS
<1>5. /\ q \in CallRecord /\ q.kind = kind /\ q.db = d /\ q.step = "connection"
      /\ q.left = {} /\ q.answer = None
  <2>1. call[c] \in CallRecord BY <1>1
  <2> QED BY <1>2, <1>3, <1>4, <2>1 DEF CallRecord, Kinds, Asks, Steps
<1>6. PICK cs : cs = [call EXCEPT ![c] = q] OBVIOUS
<1>7. /\ cs = [call EXCEPT ![c].kind = kind, ![c].db = d, ![c].mappings = mappings,
                           ![c].step = "connection"]
      /\ cs \in [Call -> CallRecord] /\ cs[c] = q
  BY <1>1, <1>4, <1>5, <1>6
<1>8. PICK n : n = registry OBVIOUS
<1>9. IF n = 0
      THEN /\ conns' = Append(conns, NewConnection(c))
           /\ registry' = Len(conns) + 1
           /\ call' = cs
           /\ UNCHANGED facts
      ELSE /\ UNCHANGED registry
           /\ IF conns[n].isConnecting
              THEN /\ conns' = [conns EXCEPT ![n].waiting = Append(@, c)]
                   /\ call' = cs
                   /\ UNCHANGED facts
              ELSE IF conns[n].pool = None
              THEN call' = Fail(cs, c) /\ UNCHANGED <<conns, facts>>
              ELSE UseConnection(conns, cs, c, n)
  BY <1>7, <1>8, Zenon DEF Connect
<1>10. CASE n = 0
  BY <1>2, <1>5, <1>6, <1>8, <1>9, <1>10, MakeConnection
<1>11. CASE n # 0 /\ conns[n].isConnecting
  <2>1. conns' = Requeued(registry, Append(conns[registry].waiting, c))
    BY <1>8, <1>9, <1>11 DEF Requeued
  <2>2. call' = [call EXCEPT ![c] = q] /\ UNCHANGED <<registry, facts>>
    BY <1>6, <1>9, <1>11
  <2> QED BY <1>2, <1>5, <1>8, <1>11, <2>1, <2>2, WaitForConnection
<1>12. ASSUME n # 0, ~conns[n].isConnecting PROVE n \in 1..Len(conns) /\ UNCHANGED registry
  BY <1>1, <1>8, <1>9, <1>12 DEF RegistryTypeOK
<1>13. CASE n # 0 /\ ~conns[n].isConnecting /\ conns[n].pool = None
  <2>1. UNCHANGED <<registry, conns, facts>> /\ call' = Fail(cs, c) BY <1>9, <1>13
  <2>2. PICK r : r = [q EXCEPT !.step = "done", !.answer = "error"] OBVIOUS
  <2>3. call' = [call EXCEPT ![c] = r] BY <1>1, <1>6, <1>7, <2>1, <2>2 DEF Fail
  <2>4. /\ r \in CallRecord /\ r.kind = kind /\ r.left = {} /\ r.step = "done"
        /\ r.answer = "error"
    BY <1>5, <2>2 DEF CallRecord, Steps
  <2>5. /\ TargetsOK' /\ call' \in [Call -> CallRecord]
        /\ \A e \in Call : KindOK(call'[e]) /\ SlotOK(e)'
        /\ \A e \in Call : e # c => call'[e] = call[e]
    BY <1>2, <2>1, <2>3, <2>4, AskKeeps
  <2>6. RegistryTypeOK' BY <1>1, <1>2, <2>1, <2>5 DEF RegistryTypeOK
  <2>7. LinksOK' BY <1>1, <2>1 DEF LinksOK
  <2>8. WaitingOK' BY <1>1, <1>2, <1>3, <2>1, <2>5, SameWaiting
  <2>9. ExactOK'
    <3>1. \A f \in 1..Len(facts) : facts[f].conn # 0 BY <1>1 DEF LinksOK
    <3>2. ~rash => (notify' # 0 => notify' = registry) BY <1>2
    <3> QED BY <1>1, <1>2, <2>1, <3>1, <3>2, SameExact
  <2> QED BY <2>5, <2>6, <2>7, <2>8, <2>9 DEF RegistryInv
<1>14. CASE n # 0 /\ ~conns[n].isConnecting /\ conns[n].pool # None
  <2>1. n \in 1..Len(conns) /\ UNCHANGED registry BY <1>12, <1>14
  <2>2. UseConnection(conns, cs, c, n) BY <1>9, <1>14
  <2>3. PICK f \in Nat, r \in CallRecord : Uses(conns, cs, c, n, f, r)
    BY <1>1, <1>2, <1>5, <1>7, <2>1, <2>2, UseConnectionDoes
  <2>4. ~rash => /\ n = registry /\ conns[n].pool = "open" /\ conns[n].count = conns[n].count
                 /\ notify' # 0 => notify' = registry
    <3> SUFFICES ASSUME ~rash PROVE conns[n].pool = "open" BY <1>2, <1>8
    <3>1. conns[n].pool # "closed" BY <1>1, <1>8, <1>14 DEF ExactOK
    <3>2. conns[n] \in ConnRecord BY <1>1, <2>1
    <3> QED BY <1>14, <3>1, <3>2 DEF ConnRecord
  <2>5. /\ RegistryTypeOK' /\ LinksOK' /\ TargetsOK' /\ ExactOK'
        /\ \A e \in Call : KindOK(call'[e]) /\ SlotOK(e)'
        /\ \A e \in Call : e # c => call'[e] = call[e]
    <3>1. notify' \in 0..Len(conns) BY <1>1, <1>2
    <3>2. q.kind \in Asks /\ q.db \in Db BY <1>2, <1>5
    <3> QED BY <1>1, <1>2, <1>5, <1>6, <2>1, <2>3, <2>4, <3>1, <3>2, UsesKeeps
  <2>6. /\ Len(conns') = Len(conns) /\ \A m \in 1..Len(conns) : m # n => conns'[m] = conns[m]
        /\ conns'[n].isConnecting = conns[n].isConnecting /\ conns'[n].first = conns[n].first
        /\ conns'[n].waiting = conns[n].waiting
    BY <2>3 DEF Uses
  <2>7. WaitingOK'
    <3>1. \A m \in 1..Len(conns) :
           /\ conns'[m].isConnecting = conns[m].isConnecting /\ conns'[m].first = conns[m].first
           /\ conns'[m].waiting = conns[m].waiting
           /\ conns[m].isConnecting => conns'[m].factories = conns[m].factories
      BY <1>14, <2>6
    <3> QED BY <1>1, <1>2, <1>3, <2>1, <2>5, <2>6, <3>1, SameWaiting
  <2> QED BY <2>5, <2>7 DEF RegistryInv
<1> QED BY <1>10, <1>11, <1>13, <1>14

-----------------------------------------------------------------------------
(* The registry.                                                           *)

LEMMA RegistryStarts ==
  ASSUME ConstantsAssumption, Init
  PROVE RegistryInv
<1> DEFINE r == [kind |-> None, db |-> None, mappings |-> FALSE, step |-> "new",
                 factory |-> 0, slot |-> 0, of |-> 0, left |-> {}, wrong |-> FALSE,
                 answer |-> None]
<1>1. /\ registry = 0 /\ conns = <<>> /\ facts = <<>> /\ notify = 0 /\ rash = FALSE
      /\ call = [c \in Call |-> r]
  BY DEF Init
<1>2. /\ r \in CallRecord /\ r.step = "new" /\ r.kind = None /\ r.left = {} /\ r.answer = None
  BY DEF CallRecord, Steps
<1> HIDE DEF r
<1>3. \A c \in Call : call[c] = r BY <1>1
<1>4. Len(<<>>) = 0 OBVIOUS
<1>5. Len(conns) = 0 /\ Len(facts) = 0 BY <1>1, <1>4
<1>6. RegistryTypeOK
  <2>1. <<>> \in Seq(ConnRecord) /\ <<>> \in Seq(FactRecord) OBVIOUS
  <2>2. conns \in Seq(ConnRecord) /\ facts \in Seq(FactRecord) BY <1>1, <2>1
  <2>3. call \in [Call -> CallRecord] BY <1>1, <1>2
  <2>4. registry \in 0..Len(conns) /\ notify \in 0..Len(conns) BY <1>1, <1>5
  <2>5. rash \in BOOLEAN BY <1>1
  <2> QED BY <2>2, <2>3, <2>4, <2>5 DEF RegistryTypeOK
<1>7. None \notin {"ok", "connect", "open", "openSession", "closeSession", "close"}
  BY DEF ConstantsAssumption, Kinds
<1>8. \A c \in Call : KindOK(call[c]) BY <1>2, <1>3, <1>7 DEF KindOK
<1>9. LinksOK /\ WaitingOK /\ ExactOK BY <1>1, <1>5 DEF LinksOK, WaitingOK, ExactOK
<1>10. TargetsOK BY <1>2, <1>3, <1>7 DEF TargetsOK
<1>11. \A c \in Call : SlotOK(c) BY <1>2, <1>3, <1>7 DEF SlotOK, HasSlot, Placeholding
<1> QED BY <1>6, <1>8, <1>9, <1>10, <1>11 DEF RegistryInv

LEMMA RegistryStep ==
  ASSUME ConstantsAssumption, RegistryInv, Next
  PROVE RegistryInv'
<1>1. CASE User
  <2>1. PICK c \in Call :
          \/ \E kind \in Asks, d \in Db, mappings \in BOOLEAN : Connect(c, kind, d, mappings)
          \/ \E f \in Held : Close(c, f) \/ \E mappings \in BOOLEAN : Open(c, f, mappings)
          \/ \E s \in Call : CloseSession(c, s)
    BY <1>1 DEF User
  <2>2. ASSUME NEW kind \in Asks, NEW d \in Db, NEW mappings \in BOOLEAN,
               Connect(c, kind, d, mappings)
        PROVE RegistryInv'
    BY <2>2, ConnectKeeps
  <2>3. ASSUME NEW f, Close(c, f) PROVE RegistryInv' BY <2>3, CloseKeeps
  <2>4. ASSUME NEW f, NEW mappings \in BOOLEAN, Open(c, f, mappings) PROVE RegistryInv'
    BY <2>4, OpenKeeps
  <2>5. ASSUME NEW s \in Call, CloseSession(c, s) PROVE RegistryInv' BY <2>5, CloseSessionKeeps
  <2> QED BY <2>1, <2>2, <2>3, <2>4, <2>5
<1>2. CASE System
  <2>1. CASE Notify BY <2>1, NotifyKeeps
  <2>2. ASSUME NEW n \in 1..Len(conns), NEW ok \in BOOLEAN, PoolCreated(n, ok) PROVE RegistryInv'
    BY <2>2, PoolCreatedKeeps
  <2>3. ASSUME NEW c \in Call, SessionClosed(c) PROVE RegistryInv' BY <2>3, SessionClosedKeeps
  <2>4. ASSUME NEW c \in Call, PoolClosed(c) PROVE RegistryInv' BY <2>4, PoolClosedKeeps
  <2>5. ASSUME NEW c \in Call, NEW ok \in BOOLEAN, MappingSession(c, ok) PROVE RegistryInv'
    BY <2>5, MappingSessionKeeps
  <2>6. ASSUME NEW c \in Call, NEW ok \in BOOLEAN, MappingsResolved(c, ok) PROVE RegistryInv'
    BY <2>6, MappingsResolvedKeeps
  <2>7. ASSUME NEW c \in Call, NEW ok \in BOOLEAN, MappingClosed(c, ok) PROVE RegistryInv'
    BY <2>7, MappingClosedKeeps
  <2>8. ASSUME NEW c \in Call, NEW ok \in BOOLEAN, SessionArrives(c, ok) PROVE RegistryInv'
    BY <2>8, SessionArrivesKeeps
  <2>9. ASSUME NEW c \in Call, NEW ok \in BOOLEAN, SessionMappings(c, ok) PROVE RegistryInv'
    BY <2>9, SessionMappingsKeeps
  <2>10. ASSUME NEW c \in Call, NEW i \in call[c].left, FactorySessionClosed(c, i)
         PROVE RegistryInv'
    BY <2>10, FactorySessionClosedKeeps
  <2> QED
    BY <1>2, <2>1, <2>2, <2>3, <2>4, <2>5, <2>6, <2>7, <2>8, <2>9, <2>10 DEF System
<1> QED BY <1>1, <1>2 DEF Next

LEMMA RegistryStutter ==
  ASSUME RegistryInv, UNCHANGED vars
  PROVE RegistryInv'
BY DEF RegistryInv, RegistryTypeOK, KindOK, LinksOK, TargetsOK, Closing, Deleted, WaitingOK,
       ExactOK, Served, SlotOK, HasSlot, InSlot, Placeholding, Gone, vars

\* The registry's invariant holds (getSessionFactory, SessionFactory.close, deleteFactory,
\* Session.close), whatever the users call and whatever fails.
THEOREM RegistryInvariance == FactorySpec => []RegistryInv
<1>1. ConstantsAssumption BY ConstantsAssumption
<1>2. RegistryInit => RegistryInv BY <1>1, RegistryStarts DEF RegistryInit
<1>3. RegistryInv /\ [Registry \/ Handlers]_<<vars, handlerVars>> => RegistryInv'
  <2> SUFFICES ASSUME RegistryInv, [Registry \/ Handlers]_<<vars, handlerVars>> PROVE RegistryInv'
    OBVIOUS
  <2>1. CASE Registry BY <1>1, <2>1, RegistryStep DEF Registry
  <2>2. CASE Handlers BY <2>2, RegistryStutter DEF Handlers
  <2>3. CASE UNCHANGED <<vars, handlerVars>> BY <2>3, RegistryStutter
  <2> QED BY <2>1, <2>2, <2>3
<1> QED BY <1>2, <1>3, PTL DEF FactorySpec

\* As long as nobody closes a factory that others rely on, every factory that is not closed
\* is the registry's for its database, its pool is open, and the Connection counts exactly
\* the factories it has (getSessionFactory, deleteFactory).
THEOREM RegistryExact == FactorySpec => []RegistryIsExact
<1>1. RegistryInv => RegistryIsExact
  <2> SUFFICES ASSUME RegistryInv, ~rash PROVE RegistryIsExact BY DEF RegistryIsExact
  <2>1. ExactOK BY DEF RegistryInv
  <2> QED BY <2>1 DEF ExactOK, Served, RegistryIsExact
<1> QED BY <1>1, RegistryInvariance, PTL

\* A session that its user has not closed is in its slot, as long as its factory is not
\* closed: the first empty slot is never that of somebody else (allocateSessionSlot,
\* closeSessionOnDBSessionClose).
THEOREM SlotsAreKept == FactorySpec => []SessionsKeepTheirSlots
<1>1. RegistryInv => SessionsKeepTheirSlots
  <2> SUFFICES ASSUME RegistryInv, NEW s \in Call, OpenSession(s)
               PROVE \/ Closing(call[s].factory)
                     \/ facts[call[s].factory].sessions[call[s].slot] = s
    BY DEF SessionsKeepTheirSlots
  <2>1. call[s].step = "done"
    <3>1. KindOK(call[s]) BY DEF RegistryInv
    <3>2. ConstantsAssumption BY ConstantsAssumption
    <3>3. call[s].answer # None BY <3>2 DEF OpenSession, ConstantsAssumption
    <3> QED BY <3>1, <3>3 DEF KindOK
  <2>2. ~Placeholding(s) BY <2>1 DEF Placeholding
  <2>3. ~Gone(s) BY DEF OpenSession, Gone
  <2>4. HasSlot(s) BY <2>3 DEF OpenSession, HasSlot
  <2>5. SlotOK(s) BY DEF RegistryInv
  <2> QED BY <2>2, <2>4, <2>5 DEF SlotOK, InSlot
<1> QED BY <1>1, RegistryInvariance, PTL

-----------------------------------------------------------------------------
(* Handlers of tables and reads of the dictionary.                         *)

Mappings == {"default", "user", "mapping", "ctor"}
HandlerRecord == [meta : Nat, by : Mappings, of : HandlerCall]
Perhaps == HandlerRecord \cup {None}
OfCtor == {h \in HandlerRecord : h.by = "ctor"} \cup {None}
CacheRecord ==
  [meta : Nat, factory : Perhaps, session : [Session -> Perhaps], ctor : OfCtor,
   null : BOOLEAN, mapping : {None, "user", "default"}]
HandlerCallRecord ==
  [kind : H!Kinds \cup {None}, session : Session \cup {None}, in : Caches \cup {"none"},
   by : Mappings, step : {"new", "reading", "creating", "again", "done"}, at : {0, 1},
   err : {None, "missing", "create", "invalid"}, handler : Perhaps, answers : Nat]
ToldRecord == [i : Nat \ {0}, err : {None, "missing"}, meta : Nat]

HandlerTypeOK ==
  /\ cache \in CacheRecord
  /\ list \in Seq(HandlerCall)
  /\ reading \in Nat /\ metas \in Nat /\ closes \in {0, 1}
  /\ told \in ToldRecord \cup {None}
  /\ handlerCall \in [HandlerCall -> HandlerCallRecord]

\* What has been asked for by a call, and how often it has been answered.
AskedOK(c) ==
  /\ c.step = "new" <=> c.kind = None
  /\ c.kind # None => c.session \in Session
  /\ c.kind = "mapping" => c.by = "mapping"
  /\ c.answers = IF c.step = "done" THEN 1 ELSE 0

Awaits(c) == c.step \in {"reading", "again"}

\* Where those begin in the list who have not been told.
First == IF told = None THEN 1 ELSE told.i

\* ReadsAreShared, and what it rests on: from First on the list has exactly those who
\* wait, each once.
ListOK ==
  /\ reading + (IF told = None THEN 0 ELSE 1) = IF list = <<>> THEN 0 ELSE 1
  /\ First <= Len(list) + 1
  /\ \A i \in First..Len(list) :
       /\ Awaits(handlerCall[list[i]])
       /\ \A j \in First..Len(list) : list[i] = list[j] => i = j
  /\ \A d \in HandlerCall : Awaits(handlerCall[d]) => \E i \in First..Len(list) : list[i] = d

\* HandlersAgree, and what it rests on: until the factory is closed everyone who asked by
\* the constructor has the handler that the constructor has.
ByCtor(c) == c.kind = "ctor" /\ c.step = "done" /\ c.err = None
AgreeOK ==
  /\ closes = 0 =>
       /\ ~cache.null
       /\ \A d \in HandlerCall : ByCtor(handlerCall[d]) =>
            handlerCall[d].handler = cache.ctor /\ cache.ctor # None
  /\ closes = 1 =>
       \A d \in HandlerCall : handlerCall[d].kind # None /\ handlerCall[d].at = 0 =>
         handlerCall[d].step = "done"
  /\ \A d \in HandlerCall : handlerCall[d].at <= closes
  /\ HandlersAgree

HandlerInv ==
  /\ HandlerTypeOK
  /\ \A d \in HandlerCall : AskedOK(handlerCall[d])
  /\ ListOK /\ AgreeOK

\* A handler by the name of the table: what is cached, or a new one by the mapping of c.
NameDone(n, c) ==
  /\ n = [handler |-> n.handler, err |-> n.err, watch |-> n.watch, cache |-> n.cache]
  /\ n.handler \in HandlerRecord /\ n.err \in {None, "invalid"} /\ n.cache \in CacheRecord
  /\ n.cache.ctor = cache.ctor /\ n.cache.null = cache.null
  /\ c.kind = "mapping" => n.handler.by = c.by

LEMMA NameDoes ==
  ASSUME H!HandlerConstants, cache \in CacheRecord, NEW d \in HandlerCall,
         NEW c \in HandlerCallRecord, c.session \in Session, NEW m \in Nat
  PROVE NameDone(H!ForTheName(d, c, m), c)
<1>1. PICK known : known = H!Known(c.session) OBVIOUS
<1>2. known \in Perhaps BY <1>1 DEF H!Known, CacheRecord
<1>3. PICK fresh \in BOOLEAN : fresh = (c.kind = "mapping" \/ known = None) OBVIOUS
<1>4. PICK h : h = IF fresh THEN H!Handler(d, m, c.by) ELSE known OBVIOUS
<1>5. h \in HandlerRecord /\ (c.kind = "mapping" => h.by = c.by)
  <2>1. H!Handler(d, m, c.by) \in HandlerRecord /\ H!Handler(d, m, c.by).by = c.by
    BY DEF H!Handler, HandlerRecord, HandlerCallRecord
  <2> QED BY <1>2, <1>3, <1>4, <2>1 DEF Perhaps
<1>6. PICK keep : keep = IF fresh /\ H!Valid(c.by) THEN c.in ELSE "none" OBVIOUS
<1>7. PICK C : C = [cache EXCEPT !.meta = IF @ = 0 THEN m ELSE @,
                              !.factory = IF keep = "factory" THEN h ELSE @,
                              !.session[c.session] = IF keep = "session" THEN h ELSE @]
  OBVIOUS
<1>8. PICK s : s = [cache.session EXCEPT ![c.session] = IF keep = "session" THEN h ELSE @] OBVIOUS
<1>9. s \in [Session -> Perhaps]
  <2>1. cache.session \in [Session -> Perhaps] BY DEF CacheRecord
  <2>2. h \in Perhaps BY <1>5 DEF Perhaps
  <2> QED BY <1>8, <2>1, <2>2
<1>10. C \in CacheRecord /\ C.ctor = cache.ctor /\ C.null = cache.null
  <2>1. h \in Perhaps BY <1>5 DEF Perhaps
  <2>2. PICK M \in Nat : M = IF cache.meta = 0 THEN m ELSE cache.meta BY DEF CacheRecord
  <2>3. PICK F \in Perhaps : F = IF keep = "factory" THEN h ELSE cache.factory
    BY <2>1 DEF CacheRecord
  <2>4. C = [cache EXCEPT !.meta = M, !.factory = F, !.session = s]
    BY <1>7, <1>8, <2>2, <2>3 DEF CacheRecord
  <2> QED BY <1>9, <2>2, <2>3, <2>4 DEF CacheRecord
<1>11. PICK n : n = H!ForTheName(d, c, m) OBVIOUS
<1>12. n.handler = h /\ n.err = (IF fresh /\ ~H!Valid(c.by) THEN "invalid" ELSE None) /\ n.cache = C
  BY <1>1, <1>3, <1>4, <1>6, <1>7, <1>11 DEF H!ForTheName
<1>13. n = [handler |-> n.handler, err |-> n.err, watch |-> n.watch, cache |-> n.cache]
  BY <1>11 DEF H!ForTheName
<1> QED BY <1>5, <1>10, <1>11, <1>12, <1>13 DEF NameDone

\* A handler by a constructor, after what was done by the name: the constructor keeps
\* the first that is made for it.
CtorDone(r) ==
  /\ r.handler \in Perhaps /\ r.err \in {None, "invalid"} /\ r.cache \in CacheRecord
  /\ r.cache.null = cache.null
  /\ cache.ctor # None => r.cache.ctor = cache.ctor
  /\ r.err = None /\ ~cache.null => r.cache.ctor # None /\ r.handler = r.cache.ctor

LEMMA CtorDoes ==
  ASSUME H!HandlerConstants, cache \in CacheRecord, NEW d \in HandlerCall,
         NEW c, NEW n, NameDone(n, c), NEW m \in Nat
  PROVE CtorDone(H!ForTheCtor(d, m, n))
<1>1. PICK a, e, w, C : n = [handler |-> a, err |-> e, watch |-> w, cache |-> C]
  BY Zenon DEF NameDone
<1>2. /\ a \in HandlerRecord /\ e \in {None, "invalid"} /\ C \in CacheRecord
      /\ C.ctor = cache.ctor /\ C.null = cache.null
  BY <1>1 DEF NameDone
<1>3. PICK h : h = H!Handler(d, m, "ctor") OBVIOUS
<1>4. h \in HandlerRecord /\ h.by = "ctor" /\ h # None
  <2>1. h \in HandlerRecord /\ h.by = "ctor" BY <1>3 DEF H!Handler, HandlerRecord, Mappings
  <2>2. None \notin HandlerRecord BY DEF HandlerRecord, Mappings, H!HandlerConstants
  <2> QED BY <2>1, <2>2
<1>5. PICK r : r = H!ForTheCtor(d, m, n) OBVIOUS
<1> SUFFICES CtorDone(r) BY <1>5
<1>6. CASE cache.null
  <2>1. r = [handler |-> None, err |-> e, watch |-> w, cache |-> C] BY <1>1, <1>5, <1>6 DEF H!ForTheCtor
  <2> QED BY <1>2, <1>6, <2>1 DEF CtorDone, Perhaps
<1>7. CASE ~cache.null /\ cache.ctor # None
  <2>1. r = [handler |-> cache.ctor, err |-> e, watch |-> w, cache |-> C]
    BY <1>1, <1>5, <1>7 DEF H!ForTheCtor
  <2>2. cache.ctor \in Perhaps BY DEF CacheRecord, OfCtor, Perhaps
  <2> QED BY <1>2, <1>7, <2>1, <2>2 DEF CtorDone
<1>8. CASE ~cache.null /\ cache.ctor = None /\ H!Valid("ctor")
  <2>1. PICK D : D = [C EXCEPT !.ctor = h] OBVIOUS
  <2>2. D \in CacheRecord /\ D.ctor = h /\ D.null = C.null
    BY <1>2, <1>4, <2>1 DEF CacheRecord, OfCtor
  <2>3. r = [handler |-> h, err |-> e, watch |-> w \cup {<<m, "ctor", None>>}, cache |-> D]
    BY <1>1, <1>3, <1>5, <1>8, <2>1 DEF H!ForTheCtor
  <2>4. r.handler = h /\ r.err = e /\ r.cache = D BY <2>3
  <2>5. h \in Perhaps BY <1>4 DEF Perhaps
  <2> QED BY <1>2, <1>4, <1>8, <2>2, <2>4, <2>5 DEF CtorDone
<1>9. CASE ~cache.null /\ cache.ctor = None /\ ~H!Valid("ctor")
  <2>1. r = [handler |-> h, err |-> "invalid", watch |-> w, cache |-> C]
    BY <1>1, <1>3, <1>5, <1>9 DEF H!ForTheCtor
  <2>2. h \in Perhaps /\ "invalid" # None BY <1>4 DEF Perhaps, H!HandlerConstants
  <2> QED BY <1>2, <1>9, <2>1, <2>2 DEF CtorDone
<1> QED BY <1>6, <1>7, <1>8, <1>9

\* Call c becomes r, which has been answered, and the caches become C.
AnswersIt(c, r, C) ==
  /\ r \in HandlerCallRecord
  /\ r.kind = c.kind /\ r.at = c.at /\ r.by = c.by /\ r.session = c.session
  /\ r.step = "done" /\ r.answers = c.answers + 1
  /\ C \in CacheRecord /\ C.null = cache.null
  /\ cache.ctor # None => C.ctor = cache.ctor
  /\ r.err = None =>
       /\ c.kind = "mapping" => r.handler.by = c.by
       /\ c.kind = "string" => r.handler # None
       /\ c.kind = "ctor" /\ ~cache.null => C.ctor # None /\ r.handler = C.ctor

\* What an answer leaves of a call, and what it says.
Replied(c, err, h, r) ==
  /\ r \in HandlerCallRecord
  /\ r.kind = c.kind /\ r.at = c.at /\ r.by = c.by /\ r.session = c.session
  /\ r.step = "done" /\ r.answers = c.answers + 1
  /\ r.err = err /\ r.handler = h

LEMMA AnswerDoes ==
  ASSUME NEW c \in HandlerCallRecord, NEW err \in {None, "missing", "create", "invalid"},
         NEW h \in Perhaps
  PROVE Replied(c, err, h, H!Answer(c, err, h))
<1>1. PICK x : x = [c EXCEPT !.step = "done", !.err = err] OBVIOUS
<1>2. x \in HandlerCallRecord BY <1>1 DEF HandlerCallRecord
<1>3. /\ x.kind = c.kind /\ x.at = c.at /\ x.by = c.by /\ x.session = c.session
      /\ x.step = "done" /\ x.err = err /\ x.answers = c.answers
  BY <1>1 DEF HandlerCallRecord
<1>4. PICK k \in Nat : k = c.answers + 1 BY DEF HandlerCallRecord
<1>5. PICK r : r = [x EXCEPT !.handler = h, !.answers = k] OBVIOUS
<1>6. r \in HandlerCallRecord BY <1>2, <1>5 DEF HandlerCallRecord
<1>7. /\ r.kind = x.kind /\ r.at = x.at /\ r.by = x.by /\ r.session = x.session
      /\ r.step = x.step /\ r.err = x.err /\ r.answers = k /\ r.handler = h
  BY <1>2, <1>5 DEF HandlerCallRecord
<1>8. r = H!Answer(c, err, h) BY <1>1, <1>4, <1>5 DEF H!Answer, HandlerCallRecord
<1> QED BY <1>3, <1>4, <1>6, <1>7, <1>8 DEF Replied

LEMMA NameAndCtor ==
  ASSUME H!HandlerConstants, cache \in CacheRecord, NEW d \in HandlerCall,
         NEW c \in HandlerCallRecord, c.session \in Session, NEW m \in Nat,
         NEW n, n = H!ForTheName(d, c, m),
         NEW q, q = IF c.kind = "ctor" THEN H!ForTheCtor(d, m, n) ELSE n,
         NEW r, r = H!Answer(c, q.err, q.handler)
  PROVE AnswersIt(c, r, q.cache)
<1>1. NameDone(n, c) BY NameDoes, Zenon
<1>2. CASE c.kind = "ctor"
  <2>1. CtorDone(q) BY <1>1, <1>2, CtorDoes, Zenon
  <2>2. q.err \in {None, "missing", "create", "invalid"} /\ q.handler \in Perhaps BY <2>1 DEF CtorDone
  <2>3. Replied(c, q.err, q.handler, r) BY <2>2, AnswerDoes, Zenon
  <2> QED BY <1>2, <2>1, <2>3 DEF CtorDone, AnswersIt, Replied
<1>3. CASE c.kind # "ctor"
  <2>1. NameDone(q, c) BY <1>1, <1>3
  <2>2. q.err \in {None, "missing", "create", "invalid"} /\ q.handler \in Perhaps
    BY <2>1 DEF NameDone, Perhaps
  <2>3. Replied(c, q.err, q.handler, r) BY <2>2, AnswerDoes, Zenon
  <2>4. q.handler # None
    <3>1. None \notin HandlerRecord BY DEF HandlerRecord, Mappings, H!HandlerConstants
    <3> QED BY <2>1, <3>1 DEF NameDone
  <2> QED BY <1>3, <2>1, <2>3, <2>4 DEF NameDone, AnswersIt, Replied
<1> QED BY <1>2, <1>3

LEMMA ExistingAnswers ==
  ASSUME H!HandlerConstants, cache \in CacheRecord,
         handlerCall \in [HandlerCall -> HandlerCallRecord], NEW d \in HandlerCall,
         handlerCall[d].session \in Session, NEW err \in {None, "missing", "create"},
         NEW m \in Nat, H!Existing(d, err, m)
  PROVE \E r : handlerCall' = [handlerCall EXCEPT ![d] = r] /\ AnswersIt(handlerCall[d], r, cache')
<1>1. PICK c \in HandlerCallRecord : c = handlerCall[d] OBVIOUS
<1>2. CASE err # None
  <2>1. PICK r : r = H!Answer(c, err, None) OBVIOUS
  <2>2. Replied(c, err, None, r)
    <3>1. None \in Perhaps BY DEF Perhaps
    <3>2. err \in {None, "missing", "create", "invalid"} OBVIOUS
    <3> QED BY <2>1, <3>1, <3>2, AnswerDoes, Zenon
  <2>3. handlerCall' = [handlerCall EXCEPT ![d] = r] /\ cache' = cache
    BY <1>1, <1>2, <2>1 DEF H!Existing
  <2>4. AnswersIt(c, r, cache') BY <1>2, <2>2, <2>3 DEF AnswersIt, Replied
  <2> QED BY <1>1, <2>3, <2>4
<1>3. CASE err = None
  <2>1. PICK n : n = H!ForTheName(d, c, m) OBVIOUS
  <2>2. PICK q : q = IF c.kind = "ctor" THEN H!ForTheCtor(d, m, n) ELSE n OBVIOUS
  <2>3. PICK r : r = H!Answer(c, q.err, q.handler) OBVIOUS
  <2>4. handlerCall' = [handlerCall EXCEPT ![d] = r] /\ cache' = q.cache
    BY <1>1, <1>3, <2>1, <2>2, <2>3 DEF H!Existing
  <2>5. c.session \in Session BY <1>1
  <2>6. AnswersIt(c, r, q.cache) BY <2>1, <2>2, <2>3, <2>5, NameAndCtor, Zenon
  <2> QED BY <1>1, <2>4, <2>6
<1> QED BY <1>2, <1>3

\* What is given to call r, in the caches C, is what such a call is to be given.
AgreesWith(r, C) ==
  r.step = "done" /\ r.err = None =>
    /\ r.kind = "mapping" => r.handler.by = "mapping"
    /\ r.kind = "string" => r.handler # None
    /\ r.kind = "ctor" /\ r.at = 0 => C.ctor # None /\ r.handler = C.ctor

\* A call that has been made since the factory was opened does a step.
LEMMA MovesAgree ==
  ASSUME HandlerTypeOK, AgreeOK, NEW d \in HandlerCall, NEW r \in HandlerCallRecord,
         handlerCall' = [handlerCall EXCEPT ![d] = r], closes' = closes,
         cache' \in CacheRecord, cache'.null = cache.null,
         cache.ctor # None => cache'.ctor = cache.ctor,
         r.kind # None, r.at = closes, AgreesWith(r, cache')
  PROVE AgreeOK'
<1>1. \A e \in HandlerCall : handlerCall'[e] = IF e = d THEN r ELSE handlerCall[e]
  BY DEF HandlerTypeOK
<1>2. closes \in {0, 1} BY DEF HandlerTypeOK
<1>3. closes = 0 => ~cache'.null BY DEF AgreeOK
<1>4. closes = 0 => \A e \in HandlerCall : ByCtor(handlerCall'[e]) =>
        handlerCall'[e].handler = cache'.ctor /\ cache'.ctor # None
  <2> SUFFICES ASSUME closes = 0, NEW e \in HandlerCall, ByCtor(handlerCall'[e])
               PROVE handlerCall'[e].handler = cache'.ctor /\ cache'.ctor # None
    OBVIOUS
  <2>1. CASE e = d BY <1>1, <2>1 DEF ByCtor, AgreesWith
  <2>2. CASE e # d
    <3>1. handlerCall'[e] = handlerCall[e] BY <1>1, <2>2
    <3>2. handlerCall[e].handler = cache.ctor /\ cache.ctor # None BY <3>1 DEF AgreeOK
    <3> QED BY <3>1, <3>2
  <2> QED BY <2>1, <2>2
<1>5. closes = 1 => \A e \in HandlerCall :
        handlerCall'[e].kind # None /\ handlerCall'[e].at = 0 => handlerCall'[e].step = "done"
  <2> SUFFICES ASSUME closes = 1, NEW e \in HandlerCall, handlerCall'[e].kind # None,
                      handlerCall'[e].at = 0
               PROVE handlerCall'[e].step = "done"
    OBVIOUS
  <2>1. e # d BY <1>1
  <2>2. handlerCall'[e] = handlerCall[e] BY <1>1, <2>1
  <2> QED BY <2>2 DEF AgreeOK
<1>6. \A e \in HandlerCall : handlerCall'[e].at <= closes
  <2> TAKE e \in HandlerCall
  <2>1. CASE e = d BY <1>1, <1>2, <2>1
  <2>2. CASE e # d BY <1>1, <2>2 DEF AgreeOK
  <2> QED BY <2>1, <2>2
<1>7. \A e \in HandlerCall : LET c == handlerCall'[e] IN
        c.step = "done" /\ c.err = None =>
          /\ c.kind = "mapping" => c.handler.by = "mapping"
          /\ c.kind = "string" => c.handler # None
          /\ c.kind = "ctor" /\ c.at = 0 => c.handler.by = "ctor"
  <2> SUFFICES ASSUME NEW e \in HandlerCall, NEW c, c = handlerCall'[e], c.step = "done", c.err = None
               PROVE /\ c.kind = "mapping" => c.handler.by = "mapping"
                     /\ c.kind = "string" => c.handler # None
                     /\ c.kind = "ctor" /\ c.at = 0 => c.handler.by = "ctor"
    OBVIOUS
  <2>1. CASE e = d
    <3>1. c = r BY <1>1, <2>1
    <3>2. cache'.ctor \in OfCtor BY DEF CacheRecord
    <3> QED BY <2>1, <3>1, <3>2 DEF AgreesWith, OfCtor
  <2>2. CASE e # d
    <3>1. c = handlerCall[e] BY <1>1, <2>2
    <3> QED BY <3>1 DEF AgreeOK, HandlersAgree, H!HandlersAgree
  <2> QED BY <2>1, <2>2
<1>8. \A e, f \in HandlerCall :
        /\ ByCtor(handlerCall'[e]) /\ handlerCall'[e].at = 0
        /\ ByCtor(handlerCall'[f]) /\ handlerCall'[f].at = 0
        => handlerCall'[e].handler = handlerCall'[f].handler
  <2> SUFFICES ASSUME NEW e \in HandlerCall, NEW f \in HandlerCall,
                      ByCtor(handlerCall'[e]), handlerCall'[e].at = 0,
                      ByCtor(handlerCall'[f]), handlerCall'[f].at = 0
               PROVE handlerCall'[e].handler = handlerCall'[f].handler
    OBVIOUS
  <2>1. CASE closes = 0 BY <1>4, <2>1
  <2>2. CASE closes = 1
    <3>1. e # d /\ f # d BY <1>1, <2>2
    <3>2. handlerCall'[e] = handlerCall[e] /\ handlerCall'[f] = handlerCall[f] BY <1>1, <3>1
    <3> QED BY <3>2 DEF AgreeOK, HandlersAgree, H!HandlersAgree, ByCtor
  <2> QED BY <1>2, <2>1, <2>2
<1>9. HandlersAgree' BY <1>7, <1>8 DEF HandlersAgree, H!HandlersAgree, ByCtor
<1> QED BY <1>3, <1>4, <1>5, <1>6, <1>9 DEF AgreeOK

\* Callers of the list: one is added, one is told.
LEMMA AddKeeps ==
  ASSUME HandlerTypeOK, ListOK, NEW d \in HandlerCall, NEW r \in HandlerCallRecord,
         handlerCall' = [handlerCall EXCEPT ![d] = r], ~Awaits(handlerCall[d]), Awaits(r),
         H!Add(d), told' = told
  PROVE ListOK' /\ list' \in Seq(HandlerCall) /\ reading' \in Nat
<1>1. \A e \in HandlerCall : handlerCall'[e] = IF e = d THEN r ELSE handlerCall[e]
  BY DEF HandlerTypeOK
<1>2. PICK n \in Nat : n = Len(list) BY DEF HandlerTypeOK
<1>3. /\ list' \in Seq(HandlerCall) /\ Len(list') = n + 1 /\ list'[n + 1] = d
      /\ \A i \in 1..n : list'[i] = list[i] /\ list[i] \in HandlerCall
      /\ list' # <<>>
  BY <1>2 DEF HandlerTypeOK, H!Add
<1>4. PICK k \in Nat \ {0} : k = First BY DEF HandlerTypeOK, First, ToldRecord
<1>5. First' = k BY <1>4 DEF First
<1>6. k <= n + 1 BY <1>2, <1>4 DEF ListOK
<1>7. reading' \in Nat /\ reading' + (IF told = None THEN 0 ELSE 1) = 1
  <2>1. reading \in Nat BY DEF HandlerTypeOK
  <2>2. reading' = IF list = <<>> THEN reading + 1 ELSE reading BY DEF H!Add
  <2>3. reading + (IF told = None THEN 0 ELSE 1) = IF list = <<>> THEN 0 ELSE 1 BY DEF ListOK
  <2> QED BY <2>1, <2>2, <2>3
<1>8. \A i \in k..n : Awaits(handlerCall[list[i]]) /\ list[i] # d
  BY <1>2, <1>4 DEF ListOK
<1>9. \A i \in k..(n + 1) :
        /\ Awaits(handlerCall'[list'[i]])
        /\ \A j \in k..(n + 1) : list'[i] = list'[j] => i = j
  <2> SUFFICES ASSUME NEW i \in k..(n + 1)
               PROVE /\ Awaits(handlerCall'[list'[i]])
                     /\ \A j \in k..(n + 1) : list'[i] = list'[j] => i = j
    OBVIOUS
  <2>1. CASE i = n + 1
    <3>1. list'[i] = d BY <1>3, <2>1
    <3>2. \A j \in k..n : list'[j] # d BY <1>3, <1>8
    <3> QED BY <1>1, <2>1, <3>1, <3>2
  <2>2. CASE i # n + 1
    <3>1. i \in k..n /\ i \in 1..n BY <2>2
    <3>2. list'[i] = list[i] /\ list[i] # d /\ list[i] \in HandlerCall BY <1>3, <1>8, <3>1
    <3>3. Awaits(handlerCall'[list'[i]]) BY <1>1, <1>8, <3>1, <3>2
    <3>4. ASSUME NEW j \in k..(n + 1), list'[i] = list'[j] PROVE i = j
      <4>1. j # n + 1 BY <1>3, <3>2, <3>4
      <4>2. j \in k..n /\ j \in 1..n BY <4>1
      <4>3. list'[j] = list[j] BY <1>3, <4>2
      <4> QED BY <1>2, <1>4, <3>1, <3>2, <3>4, <4>2, <4>3 DEF ListOK
    <3> QED BY <3>3, <3>4
  <2> QED BY <2>1, <2>2
<1>10. \A e \in HandlerCall : Awaits(handlerCall'[e]) => \E i \in k..(n + 1) : list'[i] = e
  <2> SUFFICES ASSUME NEW e \in HandlerCall, Awaits(handlerCall'[e])
               PROVE \E i \in k..(n + 1) : list'[i] = e
    OBVIOUS
  <2>1. CASE e = d BY <1>3, <1>6, <2>1
  <2>2. CASE e # d
    <3>1. PICK i \in k..n : list[i] = e BY <1>1, <1>2, <1>4, <2>2 DEF ListOK
    <3>2. i \in 1..n /\ i \in k..(n + 1) OBVIOUS
    <3> QED BY <1>3, <3>1, <3>2
  <2> QED BY <2>1, <2>2
<1>11. ListOK'
  <2>1. Len(list)' = n + 1 /\ k <= n + 1 + 1 BY <1>3, <1>6
  <2>2. reading' + (IF told' = None THEN 0 ELSE 1) = IF list' = <<>> THEN 0 ELSE 1 BY <1>3, <1>7
  <2> QED BY <1>5, <1>9, <1>10, <2>1, <2>2 DEF ListOK
<1> QED BY <1>3, <1>7, <1>11

LEMMA TellKeeps ==
  ASSUME H!HandlerConstants, HandlerTypeOK, ListOK, told # None, told.i <= Len(list),
         NEW r \in HandlerCallRecord, ~Awaits(r),
         handlerCall' = [handlerCall EXCEPT ![list[told.i]] = r],
         told' = [told EXCEPT !.i = @ + 1], list' = list, reading' = reading
  PROVE ListOK' /\ told' \in ToldRecord
<1>1. PICK k \in Nat \ {0} : k = told.i BY DEF HandlerTypeOK, ToldRecord
<1>2. PICK n \in Nat : n = Len(list) BY DEF HandlerTypeOK
<1>3. \A i \in 1..n : list[i] \in HandlerCall BY <1>2 DEF HandlerTypeOK
<1>4. PICK d \in HandlerCall : d = list[k] BY <1>1, <1>2, <1>3
<1>5. \A e \in HandlerCall : handlerCall'[e] = IF e = d THEN r ELSE handlerCall[e]
  BY <1>1, <1>4 DEF HandlerTypeOK
<1>6. told' \in ToldRecord /\ told'.i = k + 1 /\ told' # None
  <2>1. told \in ToldRecord BY DEF HandlerTypeOK
  <2>2. told' \in ToldRecord /\ told'.i = k + 1 BY <1>1, <2>1 DEF ToldRecord
  <2> QED BY <2>2 DEF ToldRecord, H!HandlerConstants
<1>7. First = k /\ First' = k + 1 BY <1>1, <1>6 DEF First
<1>8. \A i \in k..n : Awaits(handlerCall[list[i]]) /\ \A j \in k..n : list[i] = list[j] => i = j
  BY <1>2, <1>7 DEF ListOK
<1>9. \A i \in (k + 1)..n :
        /\ Awaits(handlerCall'[list[i]])
        /\ \A j \in (k + 1)..n : list[i] = list[j] => i = j
  <2> SUFFICES ASSUME NEW i \in (k + 1)..n
               PROVE /\ Awaits(handlerCall'[list[i]])
                     /\ \A j \in (k + 1)..n : list[i] = list[j] => i = j
    OBVIOUS
  <2>1. i \in k..n /\ k \in k..n /\ i \in 1..n /\ i # k BY <1>1, <1>2
  <2>2. list[i] # d BY <1>4, <1>8, <2>1
  <2>3. handlerCall'[list[i]] = handlerCall[list[i]] BY <1>3, <1>5, <2>1, <2>2
  <2> QED BY <1>8, <2>1, <2>3
<1>10. \A e \in HandlerCall : Awaits(handlerCall'[e]) => \E i \in (k + 1)..n : list[i] = e
  <2> SUFFICES ASSUME NEW e \in HandlerCall, Awaits(handlerCall'[e])
               PROVE \E i \in (k + 1)..n : list[i] = e
    OBVIOUS
  <2>1. e # d BY <1>5
  <2>2. PICK i \in k..n : list[i] = e BY <1>2, <1>5, <1>7, <2>1 DEF ListOK
  <2>3. i # k BY <1>4, <2>1, <2>2
  <2>4. i \in (k + 1)..n BY <2>3
  <2> QED BY <2>2, <2>4
<1>11. ListOK'
  <2>1. k + 1 <= n + 1 BY <1>1, <1>2
  <2>2. reading' + (IF told' = None THEN 0 ELSE 1) = IF list' = <<>> THEN 0 ELSE 1
    BY <1>6 DEF ListOK
  <2> QED BY <1>2, <1>7, <1>9, <1>10, <2>1, <2>2 DEF ListOK
<1> QED BY <1>6, <1>11

\* A call that neither waited nor waits.
LEMMA OthersWait ==
  ASSUME HandlerTypeOK, ListOK, NEW d \in HandlerCall, NEW r \in HandlerCallRecord,
         handlerCall' = [handlerCall EXCEPT ![d] = r], ~Awaits(handlerCall[d]), ~Awaits(r),
         UNCHANGED <<list, reading, told>>
  PROVE ListOK'
<1>1. \A e \in HandlerCall : handlerCall'[e] = IF e = d THEN r ELSE handlerCall[e]
  BY DEF HandlerTypeOK
<1>2. \A e \in HandlerCall : Awaits(handlerCall'[e]) <=> Awaits(handlerCall[e])
  <2> TAKE e \in HandlerCall
  <2>1. CASE e = d BY <1>1, <2>1
  <2>2. CASE e # d BY <1>1, <2>2
  <2> QED BY <2>1, <2>2
<1>3. PICK k \in Nat \ {0} : k = First BY DEF HandlerTypeOK, First, ToldRecord
<1>4. PICK n \in Nat : n = Len(list) BY DEF HandlerTypeOK
<1>5. \A i \in k..n : list[i] \in HandlerCall BY <1>4 DEF HandlerTypeOK
<1>6. First' = k BY <1>3 DEF First
<1>7. \A i \in k..n :
        /\ Awaits(handlerCall'[list[i]])
        /\ \A j \in k..n : list[i] = list[j] => i = j
  <2> SUFFICES ASSUME NEW i \in k..n
               PROVE /\ Awaits(handlerCall'[list[i]])
                     /\ \A j \in k..n : list[i] = list[j] => i = j
    OBVIOUS
  <2>1. list[i] \in HandlerCall BY <1>5
  <2> QED BY <1>2, <1>3, <1>4, <2>1 DEF ListOK
<1>8. \A e \in HandlerCall : Awaits(handlerCall'[e]) => \E i \in k..n : list[i] = e
  BY <1>2, <1>3, <1>4 DEF ListOK
<1>9. k <= n + 1 /\ reading + (IF told = None THEN 0 ELSE 1) = IF list = <<>> THEN 0 ELSE 1
  BY <1>3, <1>4 DEF ListOK
<1> QED BY <1>4, <1>6, <1>7, <1>8, <1>9 DEF ListOK

\* Call d becomes r, which agrees with what was asked for and with the caches.
LEMMA CallKeeps ==
  ASSUME HandlerInv, NEW d \in HandlerCall, NEW r \in HandlerCallRecord,
         handlerCall' = [handlerCall EXCEPT ![d] = r], closes' = closes,
         cache' \in CacheRecord, cache'.null = cache.null,
         cache.ctor # None => cache'.ctor = cache.ctor,
         AskedOK(r), r.kind # None, r.at = closes, AgreesWith(r, cache')
  PROVE /\ AgreeOK'
        /\ \A e \in HandlerCall : AskedOK(handlerCall'[e])
        /\ handlerCall' \in [HandlerCall -> HandlerCallRecord]
<1>1. AgreeOK' BY MovesAgree, Zenon DEF HandlerInv
<1>2. \A e \in HandlerCall : handlerCall'[e] = IF e = d THEN r ELSE handlerCall[e]
  BY DEF HandlerInv, HandlerTypeOK
<1>3. \A e \in HandlerCall : AskedOK(handlerCall'[e])
  <2> TAKE e \in HandlerCall
  <2>1. CASE e = d BY <1>2, <2>1
  <2>2. CASE e # d BY <1>2, <2>2 DEF HandlerInv
  <2> QED BY <2>1, <2>2
<1>4. handlerCall' \in [HandlerCall -> HandlerCallRecord] BY DEF HandlerInv, HandlerTypeOK
<1> QED BY <1>1, <1>3, <1>4

\* The same for an answer to c.
Ready(c) ==
  /\ c \in HandlerCallRecord /\ c.kind # None /\ c.session \in Session
  /\ c.kind = "mapping" => c.by = "mapping"
  /\ c.answers = 0 /\ c.at = closes

LEMMA AnswerKeeps ==
  ASSUME HandlerInv, H!HandlerConstants, NEW d \in HandlerCall, NEW c, Ready(c), NEW r,
         handlerCall' = [handlerCall EXCEPT ![d] = r], closes' = closes, AnswersIt(c, r, cache')
  PROVE /\ AgreeOK'
        /\ \A e \in HandlerCall : AskedOK(handlerCall'[e])
        /\ handlerCall' \in [HandlerCall -> HandlerCallRecord]
        /\ r \in HandlerCallRecord /\ ~Awaits(r) /\ cache' \in CacheRecord
<1>1. r \in HandlerCallRecord /\ cache' \in CacheRecord /\ cache'.null = cache.null
  BY DEF AnswersIt
<1>2. cache.ctor # None => cache'.ctor = cache.ctor BY DEF AnswersIt
<1>3. AskedOK(r) /\ ~Awaits(r) BY DEF AnswersIt, Ready, AskedOK, Awaits
<1>4. r.kind # None /\ r.at = closes BY DEF AnswersIt, Ready
<1>5. AgreesWith(r, cache')
  <2>1. r.at = 0 => ~cache.null BY <1>4 DEF HandlerInv, AgreeOK
  <2> QED BY <2>1 DEF AnswersIt, Ready, AgreesWith
<1> QED BY <1>1, <1>2, <1>3, <1>4, <1>5, CallKeeps, Zenon

\* A call that is under way was made since the factory was opened.
LEMMA UnderWay ==
  ASSUME HandlerInv, NEW d \in HandlerCall, handlerCall[d].step \notin {"new", "done"}
  PROVE Ready(handlerCall[d])
<1>1. handlerCall[d] \in HandlerCallRecord BY DEF HandlerInv, HandlerTypeOK
<1>2. AskedOK(handlerCall[d]) BY DEF HandlerInv
<1>3. handlerCall[d].at = closes
  <2>1. handlerCall[d].at \in {0, 1} BY <1>1 DEF HandlerCallRecord
  <2>2. closes \in {0, 1} BY DEF HandlerInv, HandlerTypeOK
  <2>3. handlerCall[d].kind # None BY <1>2 DEF AskedOK
  <2> QED BY <2>1, <2>2, <2>3 DEF HandlerInv, AgreeOK
<1> QED BY <1>1, <1>2, <1>3 DEF AskedOK, Ready

LEMMA ExistingKeeps ==
  ASSUME HandlerInv, H!HandlerConstants, NEW d \in HandlerCall,
         handlerCall[d].step \notin {"new", "done"}, NEW err \in {None, "missing", "create"},
         NEW m \in Nat, H!Existing(d, err, m), closes' = closes
  PROVE /\ AgreeOK'
        /\ \A e \in HandlerCall : AskedOK(handlerCall'[e])
        /\ handlerCall' \in [HandlerCall -> HandlerCallRecord]
        /\ cache' \in CacheRecord
        /\ \E r \in HandlerCallRecord :
             ~Awaits(r) /\ handlerCall' = [handlerCall EXCEPT ![d] = r]
<1>1. Ready(handlerCall[d]) BY UnderWay
<1>2. cache \in CacheRecord /\ handlerCall \in [HandlerCall -> HandlerCallRecord]
  BY DEF HandlerInv, HandlerTypeOK
<1>3. handlerCall[d].session \in Session BY <1>1 DEF Ready
<1>4. PICK r : handlerCall' = [handlerCall EXCEPT ![d] = r] /\ AnswersIt(handlerCall[d], r, cache')
  BY <1>2, <1>3, ExistingAnswers, Zenon
<1>5. /\ AgreeOK'
      /\ \A e \in HandlerCall : AskedOK(handlerCall'[e])
      /\ handlerCall' \in [HandlerCall -> HandlerCallRecord]
      /\ r \in HandlerCallRecord /\ ~Awaits(r) /\ cache' \in CacheRecord
  BY <1>1, <1>4, AnswerKeeps, Zenon
<1> QED BY <1>4, <1>5, Zenon

LEMMA MissingKeeps ==
  ASSUME HandlerInv, H!HandlerConstants, NEW d \in HandlerCall,
         handlerCall[d].step = "reading", H!Missing(d), closes' = closes
  PROVE /\ AgreeOK'
        /\ \A e \in HandlerCall : AskedOK(handlerCall'[e])
        /\ handlerCall' \in [HandlerCall -> HandlerCallRecord]
        /\ cache' \in CacheRecord
        /\ \E r \in HandlerCallRecord :
             ~Awaits(r) /\ handlerCall' = [handlerCall EXCEPT ![d] = r]
<1>1. PICK c : c = handlerCall[d] OBVIOUS
<1>2. Ready(c) BY <1>1, UnderWay
<1>3. PICK by : by = IF c.kind = "mapping" THEN "mapping"
            ELSE IF cache.mapping # None THEN cache.mapping
            ELSE IF world.allow THEN "default" ELSE None
  OBVIOUS
<1>4. CASE by = None
  <2>1. H!Existing(d, "missing", 0) BY <1>1, <1>3, <1>4 DEF H!Missing
  <2>2. handlerCall[d].step \notin {"new", "done"} /\ "missing" \in {None, "missing", "create"} /\ 0 \in Nat
    OBVIOUS
  <2> QED BY <2>1, <2>2, ExistingKeeps, Zenon
<1>5. CASE by # None
  <2>1. PICK r : r = [c EXCEPT !.step = "creating", !.by = by] OBVIOUS
  <2>2. handlerCall \in [HandlerCall -> HandlerCallRecord] /\ cache \in CacheRecord
    BY DEF HandlerInv, HandlerTypeOK
  <2>3. by \in Mappings /\ (by # "mapping" => by \in {None, "user", "default"})
        /\ (c.kind = "mapping" => by = "mapping")
    BY <1>3, <1>5, <2>2 DEF Mappings, CacheRecord
  <2>4. r \in HandlerCallRecord /\ r.kind = c.kind /\ r.step = "creating" /\ r.by = by
        /\ r.session = c.session /\ r.answers = c.answers /\ r.at = c.at
    BY <1>2, <2>1, <2>3 DEF Ready, HandlerCallRecord
  <2>5. handlerCall' = [handlerCall EXCEPT ![d] = r]
    BY <1>1, <1>3, <1>5, <2>1, <2>2 DEF H!Missing
  <2>6. cache' = [cache EXCEPT !.mapping = IF by = "mapping" THEN @ ELSE by]
    BY <1>1, <1>3, <1>5 DEF H!Missing
  <2>7. cache' \in CacheRecord /\ cache'.null = cache.null /\ cache'.ctor = cache.ctor
    BY <2>2, <2>3, <2>6 DEF CacheRecord
  <2>8. AskedOK(r) /\ ~Awaits(r) /\ AgreesWith(r, cache') /\ r.kind # None /\ r.at = closes
    BY <1>2, <2>3, <2>4 DEF Ready, AskedOK, Awaits, AgreesWith
  <2>9. /\ AgreeOK'
        /\ \A e \in HandlerCall : AskedOK(handlerCall'[e])
        /\ handlerCall' \in [HandlerCall -> HandlerCallRecord]
    BY <2>4, <2>5, <2>7, <2>8, CallKeeps, Zenon
  <2> QED BY <2>4, <2>5, <2>7, <2>8, <2>9
<1> QED BY <1>4, <1>5

-----------------------------------------------------------------------------
LEMMA TellDoes ==
  ASSUME HandlerInv, H!HandlerConstants, H!Tell
  PROVE HandlerInv'
<1>1. /\ told # None /\ told.i <= Len(list) /\ told' = [told EXCEPT !.i = @ + 1]
      /\ UNCHANGED <<list, reading, metas, closes>>
  BY DEF H!Tell
<1>2. told \in ToldRecord BY <1>1 DEF HandlerInv, HandlerTypeOK
<1>3. told.i \in 1..Len(list) BY <1>1, <1>2 DEF HandlerInv, HandlerTypeOK, ToldRecord
<1>4. PICK d \in HandlerCall : d = list[told.i] BY <1>3 DEF HandlerInv, HandlerTypeOK
<1>5. Awaits(handlerCall[d]) BY <1>1, <1>2, <1>3, <1>4 DEF HandlerInv, ListOK, First, HandlerTypeOK, ToldRecord
<1>6. handlerCall[d].step \notin {"new", "done"} BY <1>5 DEF Awaits
<1>7. \/ handlerCall[d].step = "reading" /\ H!Missing(d)
      \/ H!Existing(d, told.err, told.meta)
  BY <1>4 DEF H!Tell
<1>8. /\ AgreeOK'
      /\ \A e \in HandlerCall : AskedOK(handlerCall'[e])
      /\ handlerCall' \in [HandlerCall -> HandlerCallRecord]
      /\ cache' \in CacheRecord
      /\ \E r \in HandlerCallRecord :
           ~Awaits(r) /\ handlerCall' = [handlerCall EXCEPT ![d] = r]
  <2>1. CASE handlerCall[d].step = "reading" /\ H!Missing(d)
    BY <1>1, <2>1, MissingKeeps, Zenon
  <2>2. CASE H!Existing(d, told.err, told.meta)
    <3>1. told.err \in {None, "missing", "create"} /\ told.meta \in Nat BY <1>2 DEF ToldRecord
    <3>2. closes' = closes BY <1>1
    <3> QED BY <1>6, <2>2, <3>1, <3>2, ExistingKeeps, Zenon
  <2> QED BY <1>7, <2>1, <2>2
<1>9. PICK r \in HandlerCallRecord : ~Awaits(r) /\ handlerCall' = [handlerCall EXCEPT ![d] = r]
  BY <1>8
<1>10. ListOK' /\ told' \in ToldRecord
  <2>1. HandlerTypeOK /\ ListOK BY DEF HandlerInv
  <2>2. handlerCall' = [handlerCall EXCEPT ![list[told.i]] = r] BY <1>4, <1>9
  <2>3. list' = list /\ reading' = reading BY <1>1
  <2> QED BY <1>1, <1>9, <2>1, <2>2, <2>3, TellKeeps, Zenon
<1>11. HandlerTypeOK' BY <1>1, <1>8, <1>10 DEF HandlerInv, HandlerTypeOK
<1> QED BY <1>8, <1>10, <1>11 DEF HandlerInv

LEMMA ToldDoes ==
  ASSUME HandlerInv, H!Told
  PROVE HandlerInv'
<1>1. /\ told # None /\ told.i > Len(list) /\ list' = <<>> /\ told' = None
      /\ UNCHANGED <<world, cache, watch, reading, metas, closes, handlerCall>>
  BY DEF H!Told, H!Clear
<1>2. HandlerTypeOK' BY <1>1 DEF HandlerInv, HandlerTypeOK
<1>3. reading \in Nat /\ Len(list) \in Nat /\ told.i \in Nat
  BY <1>1 DEF HandlerInv, HandlerTypeOK, ToldRecord
<1>4. \A d \in HandlerCall : ~Awaits(handlerCall[d])
  <2>1. First = told.i BY <1>1 DEF First
  <2>2. First..Len(list) = {} BY <1>1, <1>3, <2>1
  <2> QED BY <2>2 DEF HandlerInv, ListOK
<1>5. reading = 0 /\ told' = None /\ list' = <<>>
  BY <1>1, <1>3 DEF HandlerInv, ListOK
<1>6. ListOK' BY <1>1, <1>4, <1>5 DEF ListOK, First
<1>7. AgreeOK' BY <1>1 DEF HandlerInv, AgreeOK, HandlersAgree, H!HandlersAgree
<1>8. \A e \in HandlerCall : AskedOK(handlerCall'[e]) BY <1>1 DEF HandlerInv
<1> QED BY <1>2, <1>6, <1>7, <1>8 DEF HandlerInv

LEMMA ReadEndsDoes ==
  ASSUME HandlerInv, H!HandlerConstants, NEW ok \in BOOLEAN, H!ReadEnds(ok)
  PROVE HandlerInv'
<1>1. /\ reading > 0 /\ told = None /\ reading' = reading - 1
      /\ metas' = (IF ok /\ world.exists THEN metas + 1 ELSE metas)
      /\ told' = [i |-> 1, err |-> IF ok /\ world.exists THEN None ELSE "missing", meta |-> metas + 1]
      /\ UNCHANGED <<world, cache, watch, list, closes, handlerCall>>
  BY DEF H!ReadEnds
<1>2. reading \in Nat /\ metas \in Nat BY DEF HandlerInv, HandlerTypeOK
<1>3. told' \in ToldRecord /\ told'.i = 1 /\ told' # None
  <2>1. told' \in ToldRecord /\ told'.i = 1 BY <1>1, <1>2 DEF ToldRecord
  <2> QED BY <2>1 DEF ToldRecord, H!HandlerConstants
<1>4. reading' \in Nat /\ metas' \in Nat BY <1>1, <1>2
<1>5. HandlerTypeOK' BY <1>1, <1>3, <1>4 DEF HandlerInv, HandlerTypeOK
<1>6. First' = First BY <1>1, <1>3 DEF First
<1>7. reading' + (IF told' = None THEN 0 ELSE 1) = IF list' = <<>> THEN 0 ELSE 1
  BY <1>1, <1>2, <1>3 DEF HandlerInv, ListOK
<1>8. ListOK' BY <1>1, <1>6, <1>7 DEF HandlerInv, ListOK
<1>9. AgreeOK' BY <1>1 DEF HandlerInv, AgreeOK, HandlersAgree, H!HandlersAgree
<1>10. \A e \in HandlerCall : AskedOK(handlerCall'[e]) BY <1>1 DEF HandlerInv
<1> QED BY <1>5, <1>8, <1>9, <1>10 DEF HandlerInv

LEMMA CreatedDoes ==
  ASSUME HandlerInv, H!HandlerConstants, NEW d \in HandlerCall, NEW ok \in BOOLEAN, H!Created(d, ok)
  PROVE HandlerInv'
<1>1. handlerCall[d].step = "creating" /\ told = None /\ UNCHANGED <<told, metas, closes>>
  BY DEF H!Created
<1>2. ~Awaits(handlerCall[d]) BY <1>1 DEF Awaits
<1>3. HandlerTypeOK /\ ListOK BY DEF HandlerInv
<1>4. CASE ok /\ ~world.exists
  <2>1. H!Add(d) /\ handlerCall' = [handlerCall EXCEPT ![d].step = "again"] /\ UNCHANGED <<cache, watch>>
    BY <1>4 DEF H!Created
  <2>2. PICK c : c = handlerCall[d] OBVIOUS
  <2>3. Ready(c) BY <1>1, <2>2, UnderWay
  <2>4. PICK r : r = [c EXCEPT !.step = "again"] OBVIOUS
  <2>5. r \in HandlerCallRecord /\ r.kind = c.kind /\ r.step = "again" /\ r.by = c.by
        /\ r.session = c.session /\ r.answers = c.answers /\ r.at = c.at
    BY <2>3, <2>4 DEF Ready, HandlerCallRecord
  <2>6. handlerCall' = [handlerCall EXCEPT ![d] = r] BY <1>3, <2>1, <2>2, <2>4 DEF HandlerTypeOK
  <2>7. AskedOK(r) /\ Awaits(r) /\ AgreesWith(r, cache') /\ r.kind # None /\ r.at = closes
    BY <2>3, <2>5 DEF Ready, AskedOK, Awaits, AgreesWith
  <2>8. cache' \in CacheRecord /\ cache'.null = cache.null /\ cache'.ctor = cache.ctor /\ closes' = closes
        /\ told' = told
    BY <1>1, <1>3, <2>1 DEF HandlerTypeOK
  <2>9. /\ AgreeOK'
        /\ \A e \in HandlerCall : AskedOK(handlerCall'[e])
        /\ handlerCall' \in [HandlerCall -> HandlerCallRecord]
    BY <2>5, <2>6, <2>7, <2>8, CallKeeps, Zenon
  <2>10. ListOK' /\ list' \in Seq(HandlerCall) /\ reading' \in Nat
    BY <1>2, <1>3, <2>1, <2>5, <2>6, <2>7, <2>8, AddKeeps, Zenon
  <2>11. HandlerTypeOK' BY <1>1, <1>3, <2>8, <2>9, <2>10 DEF HandlerTypeOK
  <2> QED BY <2>9, <2>10, <2>11 DEF HandlerInv
<1>5. CASE ~(ok /\ ~world.exists)
  <2>1. H!Existing(d, "create", 0) /\ UNCHANGED <<list, reading>> BY <1>5 DEF H!Created
  <2>2. handlerCall[d].step \notin {"new", "done"} /\ "create" \in {None, "missing", "create"}
        /\ 0 \in Nat /\ closes' = closes
    BY <1>1
  <2>3. /\ AgreeOK'
        /\ \A e \in HandlerCall : AskedOK(handlerCall'[e])
        /\ handlerCall' \in [HandlerCall -> HandlerCallRecord]
        /\ cache' \in CacheRecord
        /\ \E r \in HandlerCallRecord :
             ~Awaits(r) /\ handlerCall' = [handlerCall EXCEPT ![d] = r]
    BY <2>1, <2>2, ExistingKeeps, Zenon
  <2>4. PICK r \in HandlerCallRecord : ~Awaits(r) /\ handlerCall' = [handlerCall EXCEPT ![d] = r]
    BY <2>3
  <2>5. UNCHANGED <<list, reading, told>> BY <1>1, <2>1
  <2>6. ListOK' BY <1>2, <1>3, <2>4, <2>5, OthersWait, Zenon
  <2>7. HandlerTypeOK' BY <1>1, <1>3, <2>1, <2>3 DEF HandlerTypeOK
  <2> QED BY <2>3, <2>6, <2>7 DEF HandlerInv
<1> QED BY <1>4, <1>5

LEMMA KnownIs ==
  ASSUME cache \in CacheRecord, NEW s \in Session
  PROVE H!Known(s) \in Perhaps
<1> QED BY DEF CacheRecord, H!Known

\* c is answered at once.
LEMMA AnsweredAtOnce ==
  ASSUME HandlerInv, H!HandlerConstants, NEW d \in HandlerCall, handlerCall[d].step = "new",
         NEW c, Ready(c), NEW r, AnswersIt(c, r, cache'),
         handlerCall' = [handlerCall EXCEPT ![d] = r],
         UNCHANGED <<list, reading, told, metas, closes>>
  PROVE HandlerInv'
<1>1. closes' = closes OBVIOUS
<1>2. /\ AgreeOK'
      /\ \A e \in HandlerCall : AskedOK(handlerCall'[e])
      /\ handlerCall' \in [HandlerCall -> HandlerCallRecord]
      /\ r \in HandlerCallRecord /\ ~Awaits(r) /\ cache' \in CacheRecord
  BY <1>1, AnswerKeeps, Zenon
<1>3. ~Awaits(handlerCall[d]) BY DEF Awaits
<1>4. HandlerTypeOK /\ ListOK BY DEF HandlerInv
<1>5. UNCHANGED <<list, reading, told>> OBVIOUS
<1>6. ListOK' BY <1>2, <1>3, <1>4, <1>5, OthersWait, Zenon
<1>7. HandlerTypeOK' BY <1>2, <1>4 DEF HandlerTypeOK
<1> QED BY <1>2, <1>6, <1>7 DEF HandlerInv

LEMMA CreateDoes ==
  ASSUME HandlerInv, H!HandlerConstants, NEW d \in HandlerCall, handlerCall[d].step = "new",
         NEW c, Ready(c), H!CreateTableHandler(d, c), UNCHANGED <<told, metas, closes>>
  PROVE HandlerInv'
<1>1. HandlerTypeOK /\ ListOK BY DEF HandlerInv
<1>2. cache \in CacheRecord BY <1>1 DEF HandlerTypeOK
<1>3. CASE cache.meta # 0
  <2>1. PICK m \in Nat : m = cache.meta BY <1>2 DEF CacheRecord
  <2>2. PICK n : n = H!ForTheName(d, c, m) OBVIOUS
  <2>3. PICK q : q = IF c.kind = "ctor" THEN H!ForTheCtor(d, m, n) ELSE n OBVIOUS
  <2>4. PICK r : r = H!Answer(c, q.err, q.handler) OBVIOUS
  <2>5. handlerCall' = [handlerCall EXCEPT ![d] = r] /\ cache' = q.cache
        /\ UNCHANGED <<list, reading>>
    BY <1>3, <2>1, <2>2, <2>3, <2>4 DEF H!CreateTableHandler
  <2>6. c \in HandlerCallRecord /\ c.session \in Session BY DEF Ready
  <2>7. AnswersIt(c, r, q.cache) BY <1>2, <2>2, <2>3, <2>4, <2>6, NameAndCtor, Zenon
  <2>8. AnswersIt(c, r, cache') BY <2>5, <2>7
  <2>9. UNCHANGED <<list, reading, told, metas, closes>> BY <2>5
  <2> QED BY <2>5, <2>8, <2>9, AnsweredAtOnce, Zenon
<1>4. CASE cache.meta = 0
  <2>1. PICK r : r = [c EXCEPT !.step = "reading"] OBVIOUS
  <2>2. H!Add(d) /\ handlerCall' = [handlerCall EXCEPT ![d] = r] /\ UNCHANGED <<cache, watch>>
    BY <1>4, <2>1 DEF H!CreateTableHandler
  <2>3. r \in HandlerCallRecord /\ r.kind = c.kind /\ r.step = "reading" /\ r.by = c.by
        /\ r.session = c.session /\ r.answers = c.answers /\ r.at = c.at
    BY <2>1 DEF Ready, HandlerCallRecord
  <2>4. AskedOK(r) /\ Awaits(r) /\ AgreesWith(r, cache') /\ r.kind # None /\ r.at = closes
    BY <2>3 DEF Ready, AskedOK, Awaits, AgreesWith
  <2>5. cache' \in CacheRecord /\ cache'.null = cache.null /\ cache'.ctor = cache.ctor /\ closes' = closes
        /\ told' = told
    BY <1>2, <2>2
  <2>6. /\ AgreeOK'
        /\ \A e \in HandlerCall : AskedOK(handlerCall'[e])
        /\ handlerCall' \in [HandlerCall -> HandlerCallRecord]
    BY <2>2, <2>3, <2>4, <2>5, CallKeeps, Zenon
  <2>7. ~Awaits(handlerCall[d]) BY DEF Awaits
  <2>8. ListOK' /\ list' \in Seq(HandlerCall) /\ reading' \in Nat
    BY <1>1, <2>2, <2>3, <2>4, <2>5, <2>7, AddKeeps, Zenon
  <2>9. HandlerTypeOK' BY <1>1, <2>5, <2>6, <2>8 DEF HandlerTypeOK
  <2> QED BY <2>6, <2>8, <2>9 DEF HandlerInv
<1> QED BY <1>3, <1>4

LEMMA GetDoes ==
  ASSUME HandlerInv, H!HandlerConstants, NEW d \in HandlerCall, NEW kind \in H!Kinds,
         NEW s \in Session, NEW in \in Caches, H!GetTableHandler(d, kind, s, in)
  PROVE HandlerInv'
<1>1. handlerCall[d].step = "new" /\ UNCHANGED <<told, metas, closes>> BY DEF H!GetTableHandler
<1>2. HandlerTypeOK BY DEF HandlerInv
<1>3. PICK o : o = handlerCall[d] OBVIOUS
<1>4. o \in HandlerCallRecord /\ o.step = "new" /\ o.answers = 0
  BY <1>1, <1>2, <1>3 DEF HandlerInv, HandlerTypeOK, AskedOK
<1>5. PICK by \in Mappings : by = IF kind = "mapping" THEN "mapping" ELSE "default" BY DEF Mappings
<1>6. PICK c : c = [o EXCEPT !.kind = kind, !.session = s, !.in = in, !.at = closes, !.by = by]
  OBVIOUS
<1>7. c \in HandlerCallRecord /\ c.kind = kind /\ c.session = s /\ c.at = closes /\ c.by = by
      /\ c.answers = 0
  BY <1>2, <1>4, <1>5, <1>6 DEF HandlerTypeOK, HandlerCallRecord
<1>8. kind # None BY DEF H!HandlerConstants
<1>9. Ready(c) BY <1>5, <1>7, <1>8 DEF Ready
<1>10. PICK cached : cached = CASE kind = "string" -> H!Known(s) # None
                     [] kind = "ctor" -> cache.null \/ cache.ctor # None
                     [] kind = "mapping" -> FALSE
  OBVIOUS
<1>11. IF cached
       THEN /\ handlerCall' = [handlerCall EXCEPT ![d] =
                   H!Answer(c, None, IF kind = "string" THEN H!Known(s) ELSE cache.ctor)]
            /\ UNCHANGED <<cache, watch, list, reading>>
       ELSE IF kind = "ctor" /\ world.refused
       THEN /\ handlerCall' = [handlerCall EXCEPT ![d] = H!Answer(c, "invalid", None)]
            /\ UNCHANGED <<cache, watch, list, reading>>
       ELSE H!CreateTableHandler(d, c)
  BY <1>3, <1>5, <1>6, <1>10 DEF H!GetTableHandler
<1>12. CASE cached
  <2>1. PICK h : h = IF kind = "string" THEN H!Known(s) ELSE cache.ctor OBVIOUS
  <2>2. cache \in CacheRecord BY <1>2 DEF HandlerTypeOK
  <2>3. h \in Perhaps
    <3>1. cache.ctor \in Perhaps BY <2>2 DEF CacheRecord, OfCtor, Perhaps
    <3> QED BY <2>1, <2>2, <3>1, KnownIs
  <2>4. PICK r : r = H!Answer(c, None, h) OBVIOUS
  <2>5. Replied(c, None, h, r)
    <3>1. None \in {None, "missing", "create", "invalid"} OBVIOUS
    <3> QED BY <1>7, <2>3, <2>4, <3>1, AnswerDoes, Zenon
  <2>6. handlerCall' = [handlerCall EXCEPT ![d] = r] /\ UNCHANGED <<cache, watch, list, reading>>
    BY <1>11, <1>12, <2>1, <2>4
  <2>7. /\ kind # "mapping"
        /\ kind = "string" => h # None
        /\ kind = "ctor" => h = cache.ctor /\ (cache.null \/ cache.ctor # None)
    BY <1>10, <1>12, <2>1 DEF H!Kinds
  <2>8. AnswersIt(c, r, cache') BY <1>7, <2>2, <2>5, <2>6, <2>7 DEF AnswersIt, Replied
  <2>9. UNCHANGED <<list, reading, told, metas, closes>> BY <1>1, <2>6
  <2> QED BY <1>1, <1>9, <2>6, <2>8, <2>9, AnsweredAtOnce, Zenon
<1>13. CASE ~cached /\ kind = "ctor" /\ world.refused
  <2>1. cache \in CacheRecord BY <1>2 DEF HandlerTypeOK
  <2>2. PICK r : r = H!Answer(c, "invalid", None) OBVIOUS
  <2>3. Replied(c, "invalid", None, r)
    <3>1. "invalid" \in {None, "missing", "create", "invalid"} /\ None \in Perhaps
      BY DEF Perhaps
    <3> QED BY <1>7, <2>2, <3>1, AnswerDoes, Zenon
  <2>4. handlerCall' = [handlerCall EXCEPT ![d] = r] /\ UNCHANGED <<cache, watch, list, reading>>
    BY <1>11, <1>13, <2>2
  <2>5. "invalid" # None BY DEF H!HandlerConstants
  <2>6. AnswersIt(c, r, cache') BY <1>7, <2>1, <2>3, <2>4, <2>5 DEF AnswersIt, Replied
  <2>7. UNCHANGED <<list, reading, told, metas, closes>> BY <1>1, <2>4
  <2> QED BY <1>1, <1>9, <2>4, <2>6, <2>7, AnsweredAtOnce, Zenon
<1>14. CASE ~cached /\ ~(kind = "ctor" /\ world.refused)
  <2>1. H!CreateTableHandler(d, c) BY <1>11, <1>14
  <2> QED BY <1>1, <1>9, <2>1, CreateDoes, Zenon
<1> QED BY <1>12, <1>13, <1>14

LEMMA CloseDoes ==
  ASSUME HandlerInv, H!HandlerConstants, H!CloseFactory
  PROVE HandlerInv'
<1>1. /\ closes = 0 /\ closes' = 1
      /\ \A d \in HandlerCall : handlerCall[d].step \in {"new", "done"}
      /\ UNCHANGED <<world, list, reading, told, metas, handlerCall>>
  BY DEF H!CloseFactory
<1>2. cache \in CacheRecord BY DEF HandlerInv, HandlerTypeOK
<1>3. PICK i : i = H!Invalidate(cache.meta) OBVIOUS
<1>4. i \in CacheRecord
  <2>1. PICK meta \in Nat : meta = IF <<cache.meta, "meta", None>> \in watch THEN 0 ELSE cache.meta
    BY <1>2 DEF CacheRecord
  <2>2. PICK factory \in Perhaps :
          factory = IF \E s \in Session : <<cache.meta, "factory", s>> \in watch THEN None ELSE cache.factory
    BY <1>2 DEF CacheRecord, Perhaps
  <2>3. PICK session \in [Session -> Perhaps] :
          session = [s \in Session |-> IF <<cache.meta, "session", s>> \in watch THEN None
                                       ELSE cache.session[s]]
    BY <1>2 DEF CacheRecord, Perhaps
  <2>4. PICK null \in BOOLEAN : null = (cache.null \/ (world.detail /\ <<cache.meta, "ctor", None>> \in watch))
    OBVIOUS
  <2>5. PICK ctor \in OfCtor :
          ctor = IF world.detail /\ <<cache.meta, "ctor", None>> \in watch THEN None ELSE cache.ctor
    BY <1>2 DEF CacheRecord, OfCtor
  <2>6. i = [cache EXCEPT !.meta = meta, !.factory = factory, !.session = session,
                          !.null = null, !.ctor = ctor]
    BY <1>3, <2>1, <2>2, <2>3, <2>4, <2>5 DEF H!Invalidate
  <2> QED BY <1>2, <2>6 DEF CacheRecord
<1>5. cache' = [i EXCEPT !.meta = 0, !.factory = None, !.session = [s \in Session |-> None],
                         !.mapping = None]
  BY <1>3 DEF H!CloseFactory
<1>6. cache' \in CacheRecord BY <1>4, <1>5 DEF CacheRecord, Perhaps
<1>7. HandlerTypeOK' BY <1>1, <1>6 DEF HandlerInv, HandlerTypeOK
<1>8. ListOK' BY <1>1 DEF HandlerInv, ListOK, First
<1>9. \A d \in HandlerCall : AskedOK(handlerCall'[d]) BY <1>1 DEF HandlerInv
<1>10. AgreeOK'
  <2>1. \A d \in HandlerCall : handlerCall[d].kind # None => handlerCall[d].step = "done"
    BY <1>1 DEF HandlerInv, AskedOK
  <2>2. \A d \in HandlerCall : handlerCall[d].at <= 1
    <3> TAKE d \in HandlerCall
    <3>1. handlerCall[d].at \in {0, 1} BY DEF HandlerInv, HandlerTypeOK, HandlerCallRecord
    <3> QED BY <3>1
  <2>3. HandlersAgree' BY <1>1 DEF HandlerInv, AgreeOK, HandlersAgree, H!HandlersAgree
  <2> QED BY <1>1, <2>1, <2>2, <2>3 DEF AgreeOK
<1> QED BY <1>7, <1>8, <1>9, <1>10 DEF HandlerInv

-----------------------------------------------------------------------------
LEMMA HandlersStart ==
  ASSUME H!HandlerConstants, H!Init
  PROVE HandlerInv
<1>1. /\ list = <<>> /\ reading = 0 /\ told = None /\ metas = 0 /\ closes = 0
      /\ cache = [meta |-> 0, factory |-> None, session |-> [s \in Session |-> None], ctor |-> None,
              null |-> FALSE, mapping |-> IF world.mapped = "user" THEN "user" ELSE None]
      /\ handlerCall = [d \in HandlerCall |-> [kind |-> None, session |-> None, in |-> "none", by |-> "default",
                             step |-> "new", at |-> 0, err |-> None, handler |-> None, answers |-> 0]]
  BY DEF H!Init
<1>2. cache \in CacheRecord BY <1>1 DEF CacheRecord, Perhaps, OfCtor
<1>3. handlerCall \in [HandlerCall -> HandlerCallRecord]
  BY <1>1 DEF HandlerCallRecord, Perhaps, Mappings
<1>4. HandlerTypeOK BY <1>1, <1>2, <1>3 DEF HandlerTypeOK
<1>5. \A d \in HandlerCall : handlerCall[d].step = "new" /\ handlerCall[d].kind = None
        /\ handlerCall[d].answers = 0 /\ handlerCall[d].at = 0
  BY <1>1
<1>6. \A d \in HandlerCall : AskedOK(handlerCall[d])
  BY <1>5 DEF AskedOK, H!HandlerConstants, H!Kinds
<1>7. ListOK BY <1>1, <1>5 DEF ListOK, First, Awaits
<1>8. AgreeOK BY <1>1, <1>5 DEF AgreeOK, ByCtor, HandlersAgree, H!HandlersAgree
<1> QED BY <1>4, <1>6, <1>7, <1>8 DEF HandlerInv

LEMMA HandlersStep ==
  ASSUME HandlerInv, H!HandlerConstants, H!Next
  PROVE HandlerInv'
<1>1. CASE H!Tell BY <1>1, TellDoes
<1>2. CASE H!Told BY <1>2, ToldDoes
<1>3. ASSUME NEW ok \in BOOLEAN, H!ReadEnds(ok) PROVE HandlerInv' BY <1>3, ReadEndsDoes
<1>4. ASSUME NEW ok \in BOOLEAN, NEW d \in HandlerCall, H!Created(d, ok) PROVE HandlerInv'
  BY <1>4, CreatedDoes
<1>5. ASSUME NEW d \in HandlerCall, NEW kind \in H!Kinds, NEW s \in Session, NEW in \in Caches,
             H!GetTableHandler(d, kind, s, in)
      PROVE HandlerInv'
  BY <1>5, GetDoes
<1>6. CASE H!CloseFactory BY <1>6, CloseDoes
<1> QED BY <1>1, <1>2, <1>3, <1>4, <1>5, <1>6, Zenon DEF H!Next, H!System, H!Users

LEMMA HandlersStutter ==
  ASSUME HandlerInv, UNCHANGED handlerVars
  PROVE HandlerInv'
<1>1. UNCHANGED <<cache, list, reading, told, metas, closes, handlerCall>> BY DEF handlerVars
<1>2. HandlerTypeOK' BY <1>1 DEF HandlerInv, HandlerTypeOK
<1>3. ListOK' BY <1>1 DEF HandlerInv, ListOK, First
<1>4. AgreeOK' BY <1>1 DEF HandlerInv, AgreeOK, HandlersAgree, H!HandlersAgree
<1>5. \A d \in HandlerCall : AskedOK(handlerCall'[d]) BY <1>1 DEF HandlerInv
<1> QED BY <1>2, <1>3, <1>4, <1>5 DEF HandlerInv

\* The caches of handlers, the list of those who wait for the dictionary and the answers
\* fit together in every state of getTableHandler (SessionFactory.js, DictionaryCall.js).
THEOREM HandlersInvariance == FactorySpec => []HandlerInv
<1>1. RegistryInit => HandlerInv BY HandlersStart, HandlersAssumption DEF RegistryInit
<1>2. HandlerInv /\ [Registry \/ Handlers]_<<vars, handlerVars>> => HandlerInv'
  <2>1. CASE Registry BY <2>1, HandlersStutter DEF Registry
  <2>2. CASE Handlers BY <2>2, HandlersStep, HandlersAssumption DEF Handlers
  <2>3. CASE UNCHANGED <<vars, handlerVars>> BY <2>3, HandlersStutter
  <2> QED BY <2>1, <2>2, <2>3
<1> QED BY <1>1, <1>2, PTL DEF FactorySpec

\* Whoever waits for a table shares the one read of it, stands in the list once, and is
\* answered once (DictionaryCall.js).
THEOREM ReadsShared == FactorySpec => []ReadsAreShared
<1>1. HandlerInv => ReadsAreShared
  <2> SUFFICES ASSUME HandlerInv PROVE ReadsAreShared OBVIOUS
  <2>1. reading \in Nat /\ Len(list) \in Nat BY DEF HandlerInv, HandlerTypeOK
  <2>2. /\ reading + (IF told = None THEN 0 ELSE 1) <= 1
        /\ reading > 0 => list # <<>>
        /\ list # <<>> => reading > 0 \/ told # None
    BY <2>1 DEF HandlerInv, ListOK
  <2>3. ASSUME NEW d \in H!Waiting
        PROVE H!Cardinality({i \in 1..Len(list) : list[i] = d /\ (told # None => i >= told.i)}) = 1
    <3>1. d \in HandlerCall /\ Awaits(handlerCall[d]) BY DEF H!Waiting, Awaits
    <3>2. PICK k \in Nat \ {0} : k = First BY DEF HandlerInv, HandlerTypeOK, First, ToldRecord
    <3>3. PICK i \in k..Len(list) : list[i] = d BY <3>1, <3>2 DEF HandlerInv, ListOK
    <3>4. PICK S : S = {j \in 1..Len(list) : list[j] = d /\ (told # None => j >= told.i)} OBVIOUS
    <3>5. \A j \in 1..Len(list) : (told # None => j >= told.i) <=> j \in k..Len(list)
      BY <2>1, <3>2 DEF First
    <3>6. S = {i}
      <4>1. i \in S BY <2>1, <3>2, <3>3, <3>4, <3>5
      <4>2. ASSUME NEW j \in S PROVE j = i
        <5>1. j \in k..Len(list) /\ list[j] = d BY <3>4, <3>5, <4>2
        <5> QED BY <3>2, <3>3, <5>1 DEF HandlerInv, ListOK
      <4> QED BY <4>1, <4>2
    <3>7. Cardinality({i}) = 1 BY FS_Singleton
    <3>8. H!Cardinality({i}) = Cardinality({i}) BY Zenon DEF H!Cardinality, Cardinality
    <3> QED BY <3>4, <3>6, <3>7, <3>8
  <2>4. ASSUME NEW d \in HandlerCall PROVE handlerCall[d].answers <= 1
    BY DEF HandlerInv, AskedOK
  <2> QED BY <2>2, <2>3, <2>4 DEF ReadsAreShared, H!ReadsAreShared
<1> QED BY <1>1, HandlersInvariance, PTL

\* Whoever asks by the same constructor is given the same handler, made by its mapping,
\* and whoever asks with a TableMapping one made by that (getTableHandler).
THEOREM Agreement == FactorySpec => []HandlersAgree
<1>1. HandlerInv => HandlersAgree BY DEF HandlerInv, AgreeOK
<1> QED BY <1>1, HandlersInvariance, PTL

=============================================================================
