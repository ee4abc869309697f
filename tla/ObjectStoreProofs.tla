------------------------- MODULE ObjectStoreProofs -------------------------
(***************************************************************************)
(* The values of auto-increment columns in jones-ndb, for any number of    *)
(* sessions, any lists of objects and any order of asks, fetches that may  *)
(* fail, other clients and explicit keys.                                  *)
(*                                                                         *)
(* That a list needs no second round trip is not inductive: it is so       *)
(* because the range fetched for its first ask covers the asks of the list *)
(* that are still in the queue, and those of others between them, which    *)
(* take values of the same range.  Sizes says so before the fetch, and     *)
(* Fetched after it.                                                       *)
(***************************************************************************)
EXTENDS ObjectStore, FiniteSetTheorems, SequenceTheorems, TLAPS

\* A call of getValue, and a list that waits for its values.
Ask == [session : Session, size : Nat]
Waiting == [objs : AllLists, ids : Seq(Nat), fetches : Nat]

\* The values that a list has, the calls that are to come for it, the values it lacks.
GivenTo(w) == IF w = None THEN {} ELSE ToSet(w.ids) \ {0}
AsksOf(q, s) == {i \in DOMAIN q : q[i].session = s}
LackingOf(w) == IF w = None THEN 0 ELSE Len(w.objs) - Len(w.ids)

Types(q, r, n, w) ==
  /\ q \in Seq(Ask) /\ r \in Seq(Nat) /\ n \in Nat \ {0} /\ w \in [Session -> Waiting \cup {None}]

\* An ask takes a batch size with it that covers the asks of its list which follow.
Sizes(q) ==
  \A i, j \in DOMAIN q : i <= j /\ q[i].session = q[j].session => q[i].size >= j - i + 1

\* A list for which a range was fetched finds all that it lacks in it.
Fetched(q, r, w) ==
  \A s \in Session : w[s] # None =>
    /\ w[s].fetches <= 1
    /\ w[s].fetches = 1 => \A j \in DOMAIN q : q[j].session = s => j <= Len(r)

\* There is a call in the queue for each value that a list lacks, and for no other.
Served(q, w) == \A s \in Session : Cardinality(AsksOf(q, s)) = LackingOf(w[s])

\* The values held and those given are below the next one, and each is in one place.
Once(r, n, w) ==
  /\ \A i \in DOMAIN r : r[i] < n
  /\ \A i, j \in DOMAIN r : r[i] = r[j] => i = j
  /\ \A s \in Session : GivenTo(w[s]) \cap ToSet(r) = {} /\ \A x \in GivenTo(w[s]) : x < n
  /\ \A s, t \in Session : s # t => GivenTo(w[s]) \cap GivenTo(w[t]) = {}

\* The batch size counts the calls that have not started.
Announced(b, q) == b = 1 + IF q = <<>> THEN 0 ELSE Len(q) - 1

Good(b, q, r, n, w) ==
  Types(q, r, n, w) /\ Announced(b, q) /\ Sizes(q) /\ Fetched(q, r, w) /\ Served(q, w) /\ Once(r, n, w)

\* The inductive invariant.
Inv == table \in Table /\ Good(batchSize, asks, range, next, waiting)

-----------------------------------------------------------------------------
(* The values that a list has.                                             *)

\* The elements of a sequence are of its set.
LEMMA ElementsAre ==
  ASSUME NEW S, NEW u \in Seq(S)
  PROVE /\ DOMAIN u = 1..Len(u) /\ Len(u) \in Nat
        /\ \A i \in DOMAIN u : u[i] \in S
        /\ ToSet(u) \subseteq S
<1>1. DOMAIN u = 1..Len(u) /\ Len(u) \in Nat BY LenProperties
<1>2. \A i \in DOMAIN u : u[i] \in S BY <1>1, ElementOfSeq
<1> QED BY <1>1, <1>2 DEF ToSet

LEMMA GivenAreNumbers ==
  ASSUME NEW x \in Waiting \cup {None}
  PROVE GivenTo(x) \subseteq Nat
<1>1. CASE x = None BY <1>1 DEF GivenTo
<1>2. CASE x # None
  <2>1. x.ids \in Seq(Nat) BY <1>2 DEF Waiting
  <2>2. ToSet(x.ids) \subseteq Nat BY <2>1, ElementsAre
  <2> QED BY <1>2, <2>2 DEF GivenTo
<1> QED BY <1>1, <1>2

-----------------------------------------------------------------------------
(* The calls of getValue.                                                  *)

LEMMA TailIs ==
  ASSUME NEW S, NEW q \in Seq(S), q # <<>>
  PROVE /\ Tail(q) \in Seq(S) /\ Len(q) \in Nat \ {0} /\ Len(Tail(q)) = Len(q) - 1
        /\ DOMAIN q = 1..Len(q) /\ DOMAIN Tail(q) = 1..(Len(q) - 1) /\ 1 \in DOMAIN q
        /\ Head(q) = q[1] /\ Head(q) \in S
        /\ \A i \in DOMAIN Tail(q) : i + 1 \in DOMAIN q /\ Tail(q)[i] = q[i + 1]
<1>1. Len(q) \in Nat /\ Len(q) >= 1 BY LenProperties, EmptySeq
<1>2. /\ Head(q) \in S /\ Tail(q) \in Seq(S) /\ Len(Tail(q)) = Len(q) - 1
      /\ \A i \in 1..Len(Tail(q)) : Tail(q)[i] = q[i + 1]
  BY HeadTailProperties
<1>3. DOMAIN q = 1..Len(q) /\ DOMAIN Tail(q) = 1..Len(Tail(q)) BY <1>2, LenProperties
<1>4. Head(q) = q[1] BY <1>1
<1> QED BY <1>1, <1>2, <1>3, <1>4

LEMMA AsksAre ==
  ASSUME NEW q \in Seq(Ask), NEW s
  PROVE IsFiniteSet(AsksOf(q, s)) /\ Cardinality(AsksOf(q, s)) \in Nat /\ AsksOf(<<>>, s) = {}
<1>1. DOMAIN q = 1..Len(q) /\ Len(q) \in Nat BY LenProperties
<1>2. IsFiniteSet(1..Len(q)) BY <1>1, FS_Interval
<1>3. AsksOf(q, s) \subseteq 1..Len(q) BY <1>1 DEF AsksOf
<1>4. IsFiniteSet(AsksOf(q, s)) BY <1>2, <1>3, FS_Subset
<1> QED BY <1>4, FS_CardinalityType DEF AsksOf

\* A call less is running or waits.
LEMMA AskLess ==
  ASSUME NEW q \in Seq(Ask), q # <<>>, NEW s
  PROVE Cardinality(AsksOf(Tail(q), s)) =
          Cardinality(AsksOf(q, s)) - IF q[1].session = s THEN 1 ELSE 0
<1> DEFINE A == AsksOf(q, s)
           B == AsksOf(Tail(q), s)
           R == A \ {1}
           up == [i \in B |-> i + 1]
<1>1. /\ DOMAIN q = 1..Len(q) /\ DOMAIN Tail(q) = 1..(Len(q) - 1) /\ 1 \in DOMAIN q
      /\ Len(q) \in Nat \ {0} /\ Tail(q) \in Seq(Ask)
      /\ \A i \in DOMAIN Tail(q) : i + 1 \in DOMAIN q /\ Tail(q)[i] = q[i + 1]
  BY TailIs
<1>2. IsFiniteSet(A) /\ Cardinality(A) \in Nat BY AsksAre
<1>3. IsFiniteSet(B) /\ Cardinality(B) \in Nat BY <1>1, AsksAre
<1>4. \A i \in B : i \in Nat /\ i > 0 /\ i + 1 \in R
  <2> SUFFICES ASSUME NEW i \in B PROVE i \in Nat /\ i > 0 /\ i + 1 \in R
    OBVIOUS
  <2>1. i \in DOMAIN Tail(q) /\ Tail(q)[i].session = s BY DEF AsksOf
  <2>2. i \in Nat /\ i > 0 /\ i + 1 # 1 BY <1>1, <2>1
  <2>3. i + 1 \in DOMAIN q /\ q[i + 1].session = s BY <1>1, <2>1
  <2> QED BY <2>2, <2>3 DEF AsksOf
<1>5. \A j \in R : j - 1 \in B /\ (j - 1) + 1 = j
  <2> SUFFICES ASSUME NEW j \in R PROVE j - 1 \in B /\ (j - 1) + 1 = j
    OBVIOUS
  <2>1. j \in DOMAIN q /\ q[j].session = s /\ j # 1 BY DEF AsksOf
  <2>2. j - 1 \in DOMAIN Tail(q) /\ (j - 1) + 1 = j BY <1>1, <2>1
  <2>3. Tail(q)[j - 1] = q[j] BY <1>1, <2>2
  <2> QED BY <2>1, <2>2, <2>3 DEF AsksOf
<1>6. up \in Bijection(B, R)
  <2> HIDE DEF A, B, R
  <2>1. up \in [B -> R] BY <1>4
  <2>2. \A a, b \in B : up[a] = up[b] => a = b BY <1>4
  <2>3. \A j \in R : \E i \in B : up[i] = j BY <1>5
  <2> QED BY <2>1, <2>2, <2>3 DEF Bijection, Injection, Surjection, IsInjective
<1>7. Cardinality(B) = Cardinality(R)
  <2>1. ExistsBijection(B, R) BY <1>6 DEF ExistsBijection
  <2> QED BY <1>3, <2>1, FS_Bijection
<1>8. CASE q[1].session = s
  <2>1. 1 \in A BY <1>1, <1>8 DEF AsksOf
  <2>2. Cardinality(R) = Cardinality(A) - 1 BY <1>2, <2>1, FS_RemoveElement
  <2> QED BY <1>7, <1>8, <2>2
<1>9. CASE q[1].session # s
  <2>1. 1 \notin A BY <1>9 DEF AsksOf
  <2>2. R = A BY <2>1
  <2>3. Cardinality(B) = Cardinality(A) BY <1>7, <2>2
  <2> HIDE DEF A, B, R
  <2>4. Cardinality(B) = Cardinality(A) - IF q[1].session = s THEN 1 ELSE 0 BY ONLY <1>2, <1>9, <2>3
  <2> QED BY <2>4 DEF A, B
<1> QED BY <1>8, <1>9

\* A list asks for its values, with calls of its own.
LEMMA AskMore ==
  ASSUME NEW q \in Seq(Ask), NEW e \in Seq(Ask), NEW a \in Session, \A i \in DOMAIN e : e[i].session = a
  PROVE /\ q \o e \in Seq(Ask) /\ Len(q) \in Nat /\ Len(e) \in Nat /\ Len(q \o e) = Len(q) + Len(e)
        /\ DOMAIN q = 1..Len(q) /\ DOMAIN e = 1..Len(e) /\ DOMAIN (q \o e) = 1..(Len(q) + Len(e))
        /\ \A i \in DOMAIN q : (q \o e)[i] = q[i]
        /\ \A i \in DOMAIN e : (q \o e)[Len(q) + i] = e[i]
        /\ \A i \in DOMAIN (q \o e) : i \notin DOMAIN q => i - Len(q) \in DOMAIN e /\ (q \o e)[i] = e[i - Len(q)]
        /\ \A s \in Session : s # a => AsksOf(q \o e, s) = AsksOf(q, s)
        /\ AsksOf(q, a) = {} => Cardinality(AsksOf(q \o e, a)) = Len(e)
<1> DEFINE p == q \o e
<1>1. /\ p \in Seq(Ask) /\ Len(q) \in Nat /\ Len(e) \in Nat /\ Len(p) = Len(q) + Len(e)
      /\ \A i \in 1..(Len(q) + Len(e)) : p[i] = IF i <= Len(q) THEN q[i] ELSE e[i - Len(q)]
  BY ConcatProperties, LenProperties
<1>2. DOMAIN q = 1..Len(q) /\ DOMAIN e = 1..Len(e) /\ DOMAIN p = 1..(Len(q) + Len(e))
  BY <1>1, LenProperties
<1> HIDE DEF p
<1>3. \A i \in DOMAIN q : i \in DOMAIN p /\ p[i] = q[i] BY <1>1, <1>2
<1>4. \A i \in DOMAIN e : Len(q) + i \in DOMAIN p /\ p[Len(q) + i] = e[i]
  <2> SUFFICES ASSUME NEW i \in DOMAIN e PROVE Len(q) + i \in DOMAIN p /\ p[Len(q) + i] = e[i]
    OBVIOUS
  <2>1. /\ Len(q) + i \in 1..(Len(q) + Len(e)) /\ ~(Len(q) + i <= Len(q)) /\ (Len(q) + i) - Len(q) = i
    BY <1>1, <1>2
  <2> QED BY <1>1, <1>2, <2>1
<1>5. \A i \in DOMAIN p : i \notin DOMAIN q => i - Len(q) \in DOMAIN e /\ p[i] = e[i - Len(q)]
  BY <1>1, <1>2
<1>6. \A s \in Session : s # a => AsksOf(p, s) = AsksOf(q, s)
  <2> SUFFICES ASSUME NEW s \in Session, s # a PROVE AsksOf(p, s) = AsksOf(q, s)
    OBVIOUS
  <2>1. ASSUME NEW i \in AsksOf(p, s) PROVE i \in AsksOf(q, s)
    <3>1. i \in DOMAIN p /\ p[i].session = s BY DEF AsksOf
    <3>2. i \in DOMAIN q BY <1>5, <3>1
    <3> QED BY <1>3, <3>1, <3>2 DEF AsksOf
  <2>2. ASSUME NEW i \in AsksOf(q, s) PROVE i \in AsksOf(p, s) BY <1>3 DEF AsksOf
  <2> QED BY <2>1, <2>2
<1>7. ASSUME AsksOf(q, a) = {} PROVE Cardinality(AsksOf(p, a)) = Len(e)
  <2>1. AsksOf(p, a) = (Len(q) + 1)..(Len(q) + Len(e))
    <3>1. ASSUME NEW i \in AsksOf(p, a) PROVE i \in (Len(q) + 1)..(Len(q) + Len(e))
      <4>1. i \in DOMAIN p /\ p[i].session = a BY DEF AsksOf
      <4>2. i \notin DOMAIN q BY <1>3, <1>7, <4>1 DEF AsksOf
      <4> QED BY <1>1, <1>2, <4>1, <4>2
    <3>2. ASSUME NEW i \in (Len(q) + 1)..(Len(q) + Len(e)) PROVE i \in AsksOf(p, a)
      <4>1. i \in DOMAIN p /\ i \notin DOMAIN q BY <1>1, <1>2
      <4>2. i - Len(q) \in DOMAIN e /\ p[i] = e[i - Len(q)] BY <1>5, <4>1
      <4> QED BY <4>1, <4>2 DEF AsksOf
    <3> QED BY <3>1, <3>2
  <2>2. Cardinality((Len(q) + 1)..(Len(q) + Len(e))) =
          IF Len(q) + 1 > Len(q) + Len(e) THEN 0 ELSE (Len(q) + Len(e)) - (Len(q) + 1) + 1
    <3>1. Len(q) + 1 \in Int /\ Len(q) + Len(e) \in Int BY <1>1
    <3> QED BY <3>1, FS_Interval
  <2>3. (IF Len(q) + 1 > Len(q) + Len(e) THEN 0 ELSE (Len(q) + Len(e)) - (Len(q) + 1) + 1) = Len(e)
    BY <1>1
  <2> QED BY <2>1, <2>2, <2>3
<1> QED BY <1>1, <1>2, <1>3, <1>4, <1>5, <1>6, <1>7 DEF p

\* The calls of the others stay those they were.
LEMMA OthersAskNoMore ==
  ASSUME NEW q \in Seq(Ask), NEW e \in Seq(Ask), NEW a \in Session, \A i \in DOMAIN e : e[i].session = a,
         NEW s \in Session, s # a
  PROVE AsksOf(q \o e, s) = AsksOf(q, s)
BY AskMore

LEMMA NewAsks ==
  ASSUME NEW q \in Seq(Ask), NEW e \in Seq(Ask), NEW a \in Session, \A i \in DOMAIN e : e[i].session = a,
         AsksOf(q, a) = {}
  PROVE Cardinality(AsksOf(q \o e, a)) = Len(e)
BY AskMore

-----------------------------------------------------------------------------
(* A call of getValue answers.                                             *)

\* The list of the running call waits for it.
LEMMA HeadIsAwaited ==
  ASSUME NEW q, NEW r, NEW n, NEW w, Types(q, r, n, w), Served(q, w), q # <<>>
  PROVE /\ Head(q).session \in Session /\ w[Head(q).session] \in Waiting
        /\ Head(q) = q[1] /\ Head(q).size \in Nat
<1>1. q \in Seq(Ask) /\ w \in [Session -> Waiting \cup {None}] BY DEF Types
<1>2. Head(q) = q[1] /\ Head(q) \in Ask /\ 1 \in DOMAIN q BY <1>1, TailIs
<1>3. PICK s \in Session : s = Head(q).session BY <1>2 DEF Ask
<1>4. 1 \in AsksOf(q, s) BY <1>2, <1>3 DEF AsksOf
<1>5. Cardinality(AsksOf(q, s)) # 0 BY <1>1, <1>4, AsksAre, FS_EmptySet
<1>6. w[s] # None BY <1>5 DEF Served, LackingOf
<1> QED BY <1>1, <1>2, <1>3, <1>6 DEF Ask

\* The call gives value v (0 is none) to its list; with f = 1 a range was fetched for it.
Gives(b, q, r, n, w, v, f, b2, r2, n2, w2) ==
  /\ Good(b, q, r, n, w) /\ q # <<>> /\ v \in Nat /\ f \in {0, 1}
  /\ b2 = (IF Len(q) > 1 THEN b - 1 ELSE b)
  /\ w2 = [w EXCEPT ![Head(q).session].ids = Append(@, v), ![Head(q).session].fetches = @ + f]
  /\ r2 \in Seq(Nat) /\ Len(r2) >= Len(r) - 1 /\ n2 \in Nat /\ n2 >= n /\ v < n2
  /\ f = 1 => r = <<>> /\ Len(r2) = Head(q).size - 1
  /\ v # 0 => v \notin ToSet(r2) /\ \A s \in Session : v \notin GivenTo(w[s])
  /\ \A i \in DOMAIN r2 : r2[i] < n2
  /\ \A i, j \in DOMAIN r2 : r2[i] = r2[j] => i = j
  /\ \A s \in Session : GivenTo(w[s]) \cap ToSet(r2) = {}

\* Whatever value it is, the invariant holds for the calls and lists that are left.
LEMMA AnsweredKeeps ==
  ASSUME NEW b, NEW q, NEW r, NEW n, NEW w, NEW v, NEW f, NEW b2, NEW r2, NEW n2, NEW w2,
         Gives(b, q, r, n, w, v, f, b2, r2, n2, w2)
  PROVE Good(b2, Tail(q), r2, n2, w2)
<1> SUFFICES ASSUME Good(b, q, r, n, w), q # <<>>, v \in Nat, f \in {0, 1}, NEW a, a = Head(q).session,
                    b2 = (IF Len(q) > 1 THEN b - 1 ELSE b),
                    w2 = [w EXCEPT ![a].ids = Append(@, v), ![a].fetches = @ + f],
                    r2 \in Seq(Nat), Len(r2) >= Len(r) - 1, n2 \in Nat, n2 >= n, v < n2,
                    f = 1 => r = <<>> /\ Len(r2) = Head(q).size - 1,
                    v # 0 => v \notin ToSet(r2) /\ \A s \in Session : v \notin GivenTo(w[s]),
                    \A i \in DOMAIN r2 : r2[i] < n2,
                    \A i, j \in DOMAIN r2 : r2[i] = r2[j] => i = j,
                    \A s \in Session : GivenTo(w[s]) \cap ToSet(r2) = {}
             PROVE Good(b2, Tail(q), r2, n2, w2)
  BY DEF Gives
<1> DEFINE p == Tail(q)
<1>1. /\ q \in Seq(Ask) /\ w \in [Session -> Waiting \cup {None}] /\ n \in Nat \ {0} /\ r \in Seq(Nat)
  BY DEF Good, Types
<1>0. \A c, d \in Nat : c <= d => c + 1 <= d + 1 /\ (d + 1) - (c + 1) + 1 = d - c + 1 OBVIOUS
<1>2. /\ p \in Seq(Ask) /\ Len(q) \in Nat \ {0} /\ Len(p) = Len(q) - 1
      /\ DOMAIN q = 1..Len(q) /\ DOMAIN p = 1..(Len(q) - 1) /\ 1 \in DOMAIN q
      /\ Head(q) = q[1] /\ \A i \in DOMAIN p : i + 1 \in DOMAIN q /\ p[i] = q[i + 1]
  BY <1>1, TailIs
<1>3. a \in Session /\ w[a] \in Waiting /\ Head(q).size \in Nat BY HeadIsAwaited DEF Good
<1>4. PICK x \in Waiting : x = [w[a] EXCEPT !.ids = Append(@, v), !.fetches = @ + f]
  <2>1. w[a].ids \in Seq(Nat) /\ w[a].fetches \in Nat /\ w[a].objs \in AllLists BY <1>3 DEF Waiting
  <2>2. Append(w[a].ids, v) \in Seq(Nat) /\ w[a].fetches + f \in Nat BY <2>1
  <2> QED BY <1>3, <2>2 DEF Waiting
<1>5. x # None /\ w[a] # None BY <1>3, StoreAssumption DEF Waiting
<1>6. /\ x.objs = w[a].objs /\ x.ids = Append(w[a].ids, v) /\ x.fetches = w[a].fetches + f
      /\ w[a].ids \in Seq(Nat) /\ w[a].fetches \in Nat /\ w[a].objs \in AllLists
  BY <1>3, <1>4 DEF Waiting
<1>7. /\ w2 \in [Session -> Waiting \cup {None}] /\ w2[a] = x /\ \A s \in Session \ {a} : w2[s] = w[s]
  BY <1>1, <1>3, <1>4
<1>8. /\ Len(x.ids) = Len(w[a].ids) + 1 /\ Len(w[a].ids) \in Nat
      /\ GivenTo(x) = GivenTo(w[a]) \cup ({v} \ {0})
  <2>1. /\ Len(x.ids) = Len(w[a].ids) + 1 /\ Len(w[a].ids) \in Nat
        /\ \A i \in 1..Len(w[a].ids) : x.ids[i] = w[a].ids[i]
        /\ x.ids[Len(w[a].ids) + 1] = v
    BY <1>6, AppendProperties, LenProperties
  <2>2. DOMAIN x.ids = 1..(Len(w[a].ids) + 1) /\ DOMAIN w[a].ids = 1..Len(w[a].ids)
    <3>1. x.ids \in Seq(Nat) BY DEF Waiting
    <3> QED BY <1>6, <2>1, <3>1, LenProperties
  <2>3. ToSet(x.ids) = ToSet(w[a].ids) \cup {v}
    <3>1. ASSUME NEW y \in ToSet(x.ids) PROVE y \in ToSet(w[a].ids) \cup {v}
      <4>1. PICK i \in DOMAIN x.ids : y = x.ids[i] BY <3>1 DEF ToSet
      <4>2. i = Len(w[a].ids) + 1 \/ i \in DOMAIN w[a].ids BY <2>1, <2>2, <4>1
      <4> QED BY <2>1, <2>2, <4>1, <4>2 DEF ToSet
    <3>2. ASSUME NEW y \in ToSet(w[a].ids) PROVE y \in ToSet(x.ids)
      <4>1. PICK i \in DOMAIN w[a].ids : y = w[a].ids[i] BY <3>2 DEF ToSet
      <4>2. i \in DOMAIN x.ids BY <2>1, <2>2, <4>1
      <4> QED BY <2>1, <2>2, <4>1, <4>2 DEF ToSet
    <3>3. v \in ToSet(x.ids)
      <4>1. Len(w[a].ids) + 1 \in DOMAIN x.ids BY <2>1, <2>2
      <4> QED BY <2>1, <4>1 DEF ToSet
    <3> QED BY <3>1, <3>2, <3>3
  <2> QED BY <1>5, <2>1, <2>3 DEF GivenTo
<1>9. Types(p, r2, n2, w2)
  <2>1. n2 \in Nat \ {0} BY <1>1
  <2> QED BY <1>2, <1>7, <2>1 DEF Types
<1>10. Announced(b2, p)
  <2>1. p = <<>> <=> Len(p) = 0 BY <1>2, EmptySeq
  <2>2. b = Len(q)  BY <1>2 DEF Good, Announced
  <2> HIDE DEF p
  <2> QED BY <1>2, <2>1, <2>2 DEF Announced
<1>11. Sizes(p)
  <2> SUFFICES ASSUME NEW i \in DOMAIN p, NEW j \in DOMAIN p, i <= j, p[i].session = p[j].session
               PROVE p[i].size >= j - i + 1
    BY DEF Sizes
  <2>1. i + 1 \in DOMAIN q /\ j + 1 \in DOMAIN q /\ p[i] = q[i + 1] /\ p[j] = q[j + 1] BY <1>2
  <2>2. i \in Nat /\ j \in Nat BY <1>2
  <2>3. i + 1 <= j + 1 /\ (j + 1) - (i + 1) + 1 = j - i + 1 BY <1>0, <2>2
  <2> QED BY <2>1, <2>3 DEF Good, Sizes
<1>12. Served(p, w2)
  <2> SUFFICES ASSUME NEW s \in Session PROVE Cardinality(AsksOf(p, s)) = LackingOf(w2[s])
    BY DEF Served
  <2>1. Cardinality(AsksOf(p, s)) = Cardinality(AsksOf(q, s)) - IF q[1].session = s THEN 1 ELSE 0
    BY <1>1, AskLess
  <2>2. Cardinality(AsksOf(q, s)) \in Nat /\ Cardinality(AsksOf(q, s)) = LackingOf(w[s])
    BY <1>1, AsksAre DEF Good, Served
  <2> HIDE DEF p
  <2>3. CASE s = a
    <3>1. LackingOf(w[s]) = Len(w[a].objs) - Len(w[a].ids) BY <1>5, <2>3 DEF LackingOf
    <3>2. LackingOf(w2[s]) = Len(w[a].objs) - (Len(w[a].ids) + 1)
      BY <1>5, <1>6, <1>7, <1>8, <2>3 DEF LackingOf
    <3>3. Len(w[a].objs) \in Nat BY <1>6, StoreAssumption
    <3>4. Cardinality(AsksOf(p, s)) = Cardinality(AsksOf(q, s)) - 1 BY <1>2, <2>1, <2>3
    <3> DEFINE k == Len(w[a].objs)
               l == Len(w[a].ids)
               c == Cardinality(AsksOf(q, s))
    <3>5. k \in Nat /\ l \in Nat /\ c = k - l BY <1>8, <2>2, <3>1, <3>3
    <3> HIDE DEF k, l, c
    <3>6. c - 1 = k - (l + 1) BY <3>5
    <3> QED BY <3>2, <3>4, <3>6 DEF k, l, c
  <2>4. CASE s # a
    <3>1. Cardinality(AsksOf(p, s)) = Cardinality(AsksOf(q, s)) - 0 BY <1>2, <2>1, <2>4
    <3>2. w2[s] = w[s] BY <1>7, <2>4
    <3> QED BY ONLY <2>2, <3>1, <3>2
  <2> QED BY <2>3, <2>4
<1>13. Fetched(p, r2, w2)
  <2> SUFFICES ASSUME NEW s \in Session, w2[s] # None
               PROVE /\ w2[s].fetches <= 1
                     /\ w2[s].fetches = 1 => \A j \in DOMAIN p : p[j].session = s => j <= Len(r2)
    BY DEF Fetched
  <2>1. Len(r) \in Nat /\ Len(r2) \in Nat BY <1>1, LenProperties
  <2>2. ASSUME w[s] # None, w[s].fetches = 1, NEW j \in DOMAIN p, p[j].session = s PROVE j <= Len(r2)
    <3>1. j + 1 \in DOMAIN q /\ q[j + 1].session = s BY <1>2, <2>2
    <3>2. j + 1 <= Len(r) BY <2>2, <3>1 DEF Good, Fetched
    <3> QED BY <1>2, <2>1, <3>2
  <2>3. CASE s # a
    <3>1. w2[s] = w[s] BY <1>7, <2>3
    <3>2. w[s].fetches <= 1 BY <3>1 DEF Good, Fetched
    <3> QED BY <2>2, <3>1, <3>2
  <2>4. CASE s = a /\ f = 0
    <3>0. w[a].fetches + 0 = w[a].fetches BY <1>6
    <3>1. w2[s].fetches = w[s].fetches /\ w[s] # None BY <1>5, <1>6, <1>7, <2>4, <3>0
    <3>2. w[s].fetches <= 1 BY <3>1 DEF Good, Fetched
    <3> QED BY <2>2, <3>1, <3>2
  <2>5. CASE s = a /\ f = 1
    <3>1. w[s] # None /\ w[s].fetches \in Nat /\ w2[s].fetches = w[s].fetches + 1 BY <1>5, <1>6, <1>7, <2>5
    <3>2. w[s].fetches <= 1 BY <3>1 DEF Good, Fetched
    <3>3. w[s].fetches # 1
      <4> SUFFICES ASSUME w[s].fetches = 1 PROVE FALSE
        OBVIOUS
      <4>1. q[1].session = s BY <1>2, <2>5
      <4>2. 1 <= Len(r) BY <1>2, <3>1, <4>1 DEF Good, Fetched
      <4>3. Len(r) = 0 BY <2>5, EmptySeq
      <4> QED BY <4>2, <4>3
    <3>4. w2[s].fetches = 1
      <4>1. PICK m \in Nat : m = w[s].fetches BY <3>1
      <4>2. m <= 1 /\ m # 1 BY <3>2, <3>3, <4>1
      <4>3. m = 0 BY <4>2
      <4> QED BY <3>1, <4>1, <4>3
    <3>5. ASSUME NEW j \in DOMAIN p, p[j].session = s PROVE j <= Len(r2)
      <4>1. j + 1 \in DOMAIN q /\ q[j + 1].session = s /\ j \in Nat BY <1>2, <3>5
      <4>2. q[1].session = q[j + 1].session /\ 1 <= j + 1 /\ 1 \in DOMAIN q BY <1>2, <2>5, <4>1
      <4>3. q[1].size >= (j + 1) - 1 + 1 BY <4>1, <4>2 DEF Good, Sizes
      <4>4. Len(r2) = q[1].size - 1 /\ q[1].size \in Nat BY <1>2, <1>3, <2>5
      <4> QED BY ONLY <4>1, <4>3, <4>4
    <3> QED BY <3>4, <3>5
  <2> QED BY <2>3, <2>4, <2>5
<1>14. Once(r2, n2, w2)
  <2>1. \A s \in Session : /\ GivenTo(w2[s]) \subseteq GivenTo(w[s]) \cup ({v} \ {0})
                           /\ s # a => GivenTo(w2[s]) = GivenTo(w[s])
    BY <1>7, <1>8
  <2>2. ASSUME NEW s \in Session, NEW y \in GivenTo(w2[s]) PROVE y \notin ToSet(r2)
    <3>1. CASE y \in GivenTo(w[s]) BY <3>1
    <3>2. CASE y = v /\ v # 0 BY <3>2
    <3> QED BY <2>1, <3>1, <3>2
  <2>3. ASSUME NEW s \in Session, NEW y \in GivenTo(w2[s]) PROVE y < n2
    <3>1. CASE y = v BY <3>1
    <3>2. CASE y \in GivenTo(w[s])
      <4>1. w[s] \in Waiting \cup {None} BY <1>1
      <4>5. y \in Nat BY <3>2, <4>1, GivenAreNumbers
      <4>4. y < n BY <3>2 DEF Good, Once
      <4> QED BY <1>1, <4>5, <4>4
    <3> QED BY <2>1, <3>1, <3>2
  <2>4. ASSUME NEW s \in Session, NEW t \in Session, s # t PROVE GivenTo(w2[s]) \cap GivenTo(w2[t]) = {}
    <3>1. GivenTo(w[s]) \cap GivenTo(w[t]) = {} BY <2>4 DEF Good, Once
    <3>2. v # 0 => v \notin GivenTo(w[s]) /\ v \notin GivenTo(w[t]) OBVIOUS
    <3>3. s # a \/ t # a BY <2>4
    <3> QED BY <2>1, <3>1, <3>2, <3>3
  <2> QED BY <2>2, <2>3, <2>4 DEF Once
<1> QED BY <1>9, <1>10, <1>11, <1>12, <1>13, <1>14 DEF Good

-----------------------------------------------------------------------------
(* The other steps.                                                        *)

\* The next value of the data nodes may be moved ahead.
LEMMA NextGrows ==
  ASSUME NEW b, NEW q, NEW r, NEW n, NEW w, Good(b, q, r, n, w), NEW n2 \in Nat, n2 >= n
  PROVE Good(b, q, r, n2, w)
<1>1. /\ n \in Nat \ {0} /\ r \in Seq(Nat) /\ w \in [Session -> Waiting \cup {None}]
  BY DEF Good, Types
<1>2. n2 \in Nat \ {0} BY <1>1
<1>3. Types(q, r, n2, w) BY <1>2 DEF Good, Types
<1>4. ASSUME NEW i \in DOMAIN r PROVE r[i] < n2
  <2>1. r[i] \in Nat BY <1>1, ElementsAre
  <2>2. r[i] < n BY DEF Good, Once
  <2> QED BY <1>1, <2>1, <2>2
<1>5. ASSUME NEW s \in Session, NEW y \in GivenTo(w[s]) PROVE y < n2
  <2>1. w[s] \in Waiting \cup {None} BY <1>1
  <2>2. y \in Nat BY <2>1, GivenAreNumbers
  <2>3. y < n BY DEF Good, Once
  <2> QED BY <1>1, <2>2, <2>3
<1>6. Once(r, n2, w) BY <1>4, <1>5 DEF Good, Once
<1> QED BY <1>3, <1>6 DEF Good

\* A session has a list that waits for its values no more.
LEMMA ListEnds ==
  ASSUME NEW b, NEW q, NEW r, NEW n, NEW w, Good(b, q, r, n, w),
         NEW s \in Session, w[s] # None, Len(w[s].ids) = Len(w[s].objs),
         NEW w2, w2 = [w EXCEPT ![s] = None]
  PROVE Good(b, q, r, n, w2)
<1>1. w \in [Session -> Waiting \cup {None}] BY DEF Good, Types
<1>2. /\ w2 \in [Session -> Waiting \cup {None}] /\ w2[s] = None
      /\ \A t \in Session \ {s} : w2[t] = w[t]
  BY <1>1
<1>3. GivenTo(w2[s]) = {} /\ LackingOf(w2[s]) = 0 BY <1>2 DEF GivenTo, LackingOf
<1>4. LackingOf(w[s]) = 0
  <2>1. w[s].objs \in AllLists BY <1>1 DEF Waiting
  <2>2. Len(w[s].objs) \in Nat BY <2>1, StoreAssumption
  <2>3. LackingOf(w[s]) = Len(w[s].objs) - Len(w[s].objs) BY DEF LackingOf
  <2> QED BY <2>2, <2>3
<1>5. Types(q, r, n, w2) BY <1>2 DEF Good, Types
<1>6. Fetched(q, r, w2) BY <1>2 DEF Good, Fetched
<1>7. Served(q, w2) BY <1>2, <1>3, <1>4 DEF Good, Served
<1>8. Once(r, n, w2)
  <2>1. \A t \in Session : GivenTo(w2[t]) \subseteq GivenTo(w[t]) BY <1>2, <1>3
  <2> QED BY <2>1 DEF Good, Once
<1> QED BY <1>5, <1>6, <1>7, <1>8 DEF Good

\* A list asks for its values.
LEMMA ListBegins ==
  ASSUME NEW b, NEW q, NEW r, NEW n, NEW w, Good(b, q, r, n, w),
         NEW s \in Session, w[s] = None, NEW objs \in AllLists,
         NEW m, m = Len(objs), NEW k, k = (IF q = <<>> THEN 1 ELSE 0),
         NEW e, e = [i \in 1..m |-> [session |-> s, size |-> b + m - (IF i > 1 THEN k ELSE 0)]],
         NEW b2, b2 = b + m - k,
         NEW w2, w2 = [w EXCEPT ![s] = [objs |-> objs, ids |-> <<>>, fetches |-> 0]]
  PROVE Good(b2, q \o e, r, n, w2)
<1> DEFINE p == q \o e
           x == [objs |-> objs, ids |-> <<>>, fetches |-> 0]
<1>1. q \in Seq(Ask) /\ w \in [Session -> Waiting \cup {None}] BY DEF Good, Types
<1>2. m \in Nat \ {0} /\ k \in {0, 1} BY StoreAssumption
<1>3. Len(q) \in Nat /\ (q = <<>> <=> Len(q) = 0) BY <1>1, LenProperties, EmptySeq
<1>4. b \in Nat \ {0} /\ b2 \in Nat /\ b2 >= m /\ b2 = Len(q) + m
  <2>1. CASE q = <<>>
    <3>1. b = 1 /\ k = 1 BY <2>1 DEF Good, Announced
    <3> QED BY <1>2, <1>3, <2>1, <3>1
  <2>2. CASE q # <<>>
    <3>1. b = 1 + (Len(q) - 1) /\ k = 0 BY <2>2 DEF Good, Announced
    <3> QED BY <1>2, <1>3, <2>2, <3>1
  <2> QED BY <2>1, <2>2
<1>5. \A i \in 1..m : /\ e[i].session = s /\ e[i].size >= m /\ e[i] \in Ask
  <2> SUFFICES ASSUME NEW i \in 1..m PROVE e[i].session = s /\ e[i].size >= m /\ e[i] \in Ask
    OBVIOUS
  <2> DEFINE z == b + m - (IF i > 1 THEN k ELSE 0)
  <2>1. z \in Nat /\ z >= m
    <3>1. CASE i > 1 BY <1>2, <1>4, <3>1
    <3>2. CASE ~(i > 1) BY <1>2, <1>4, <3>2
    <3> QED BY <3>1, <3>2
  <2>2. e[i] = [session |-> s, size |-> z] OBVIOUS
  <2> HIDE DEF z
  <2> QED BY <2>1, <2>2 DEF Ask
<1>6. e \in Seq(Ask) /\ Len(e) = m /\ DOMAIN e = 1..m
  <2>1. DOMAIN e = 1..m OBVIOUS
  <2>2. e = [i \in 1..m |-> e[i]] OBVIOUS
  <2>3. e \in [1..m -> Ask] BY <1>5, <2>1, <2>2
  <2>4. e \in Seq(Ask) BY <1>2, <2>3, SeqDef
  <2>5. Len(e) \in Nat /\ DOMAIN e = 1..Len(e) BY <2>4, LenProperties
  <2> QED BY <1>2, <2>1, <2>4, <2>5
<1>7. \A i \in DOMAIN e : e[i].session = s BY <1>5, <1>6
<1>8. AsksOf(q, s) = {}
  <2>1. Cardinality(AsksOf(q, s)) = 0 BY DEF Good, Served, LackingOf
  <2>2. IsFiniteSet(AsksOf(q, s)) BY <1>1, AsksAre
  <2> QED BY <2>1, <2>2, FS_EmptySet
<1>9. /\ p \in Seq(Ask) /\ Len(p) = Len(q) + m
      /\ DOMAIN q = 1..Len(q) /\ DOMAIN p = 1..(Len(q) + m)
      /\ \A i \in DOMAIN q : p[i] = q[i]
      /\ \A i \in DOMAIN p : i \notin DOMAIN q => i - Len(q) \in DOMAIN e /\ p[i] = e[i - Len(q)]
      /\ \A t \in Session : t # s => AsksOf(p, t) = AsksOf(q, t)
      /\ Cardinality(AsksOf(p, s)) = m
  <2>1. /\ p \in Seq(Ask) /\ Len(p) = Len(q) + Len(e)
        /\ DOMAIN q = 1..Len(q) /\ DOMAIN p = 1..(Len(q) + Len(e))
        /\ \A i \in DOMAIN q : p[i] = q[i]
        /\ \A i \in DOMAIN p : i \notin DOMAIN q => i - Len(q) \in DOMAIN e /\ p[i] = e[i - Len(q)]
    BY <1>1, <1>6, <1>7, AskMore
  <2>2. ASSUME NEW t \in Session, t # s PROVE AsksOf(p, t) = AsksOf(q, t)
    <3>1. e \in Seq(Ask) BY <1>6
    <3> QED BY <1>1, <1>7, <2>2, <3>1, OthersAskNoMore
  <2>3. Cardinality(AsksOf(p, s)) = Len(e)
    <3>1. e \in Seq(Ask) BY <1>6
    <3> QED BY <1>1, <1>7, <1>8, <3>1, NewAsks
  <2> HIDE DEF p
  <2> QED BY <1>6, <2>1, <2>2, <2>3
<1> HIDE DEF p
<1>10. x \in Waiting /\ x # None
  <2>1. x \in Waiting BY EmptySeq DEF Waiting
  <2> QED BY <2>1, StoreAssumption DEF Waiting
<1>11. w2 \in [Session -> Waiting \cup {None}] /\ w2[s] = x /\ \A t \in Session \ {s} : w2[t] = w[t]
  BY <1>1, <1>10
<1>12. GivenTo(x) = {} /\ LackingOf(x) = m /\ x.fetches = 0
  <2>1. ToSet(x.ids) = {} BY DEF ToSet
  <2>2. Len(x.ids) = 0 /\ Len(x.objs) = m BY EmptySeq
  <2> QED BY <1>2, <1>10, <2>1, <2>2 DEF GivenTo, LackingOf
<1> HIDE DEF x
<1>13. Types(p, r, n, w2) BY <1>9, <1>11 DEF Good, Types
<1>14. Announced(b2, p)
  <2>1. p # <<>> BY <1>2, <1>3, <1>9, EmptySeq
  <2> QED BY <1>2, <1>3, <1>4, <1>9, <2>1 DEF Announced
<1>15. Sizes(p)
  <2> SUFFICES ASSUME NEW i \in DOMAIN p, NEW j \in DOMAIN p, i <= j, p[i].session = p[j].session
               PROVE p[i].size >= j - i + 1
    BY DEF Sizes
  <2>1. CASE j \in DOMAIN q
    <3>1. i \in DOMAIN q BY <1>3, <1>9, <2>1
    <3>2. p[i] = q[i] /\ p[j] = q[j] BY <1>9, <2>1, <3>1
    <3> QED BY <2>1, <3>1, <3>2 DEF Good, Sizes
  <2>2. CASE j \notin DOMAIN q
    <3>1. p[j].session = s
      <4>1. j - Len(q) \in DOMAIN e /\ p[j] = e[j - Len(q)] BY <1>9, <2>2
      <4> QED BY <1>7, <4>1
    <3>2. i \notin DOMAIN q BY <1>8, <1>9, <3>1 DEF AsksOf
    <3>3. i - Len(q) \in 1..m /\ p[i] = e[i - Len(q)] BY <1>6, <1>9, <3>2
    <3>4. p[i].size >= m /\ p[i].size \in Nat BY <1>5, <3>3 DEF Ask
    <3>5. j - i + 1 <= m /\ j - i + 1 \in Int BY <1>2, <1>3, <1>9, <3>2
    <3> QED BY <1>2, <3>4, <3>5
  <2> QED BY <2>1, <2>2
<1>16. Fetched(p, r, w2)
  <2> SUFFICES ASSUME NEW t \in Session, w2[t] # None
               PROVE /\ w2[t].fetches <= 1
                     /\ w2[t].fetches = 1 => \A j \in DOMAIN p : p[j].session = t => j <= Len(r)
    BY DEF Fetched
  <2>1. CASE t = s BY <1>11, <1>12, <2>1
  <2>2. CASE t # s
    <3>1. w2[t] = w[t] BY <1>11, <2>2
    <3>2. ASSUME NEW j \in DOMAIN p, p[j].session = t PROVE j \in DOMAIN q /\ q[j].session = t
      <4>1. j \in AsksOf(p, t) BY <3>2 DEF AsksOf
      <4>2. j \in AsksOf(q, t) BY <1>9, <2>2, <4>1
      <4> QED BY <4>2 DEF AsksOf
    <3> QED BY <3>1, <3>2 DEF Good, Fetched
  <2> QED BY <2>1, <2>2
<1>17. Served(p, w2)
  <2> SUFFICES ASSUME NEW t \in Session PROVE Cardinality(AsksOf(p, t)) = LackingOf(w2[t])
    BY DEF Served
  <2>1. CASE t = s BY <1>9, <1>11, <1>12, <2>1
  <2>2. CASE t # s BY <1>9, <1>11, <2>2 DEF Good, Served
  <2> QED BY <2>1, <2>2
<1>18. Once(r, n, w2)
  <2>1. \A t \in Session : GivenTo(w2[t]) \subseteq GivenTo(w[t]) BY <1>11, <1>12
  <2> QED BY <2>1 DEF Good, Once
<1> QED BY <1>13, <1>14, <1>15, <1>16, <1>17, <1>18 DEF Good, p

-----------------------------------------------------------------------------
(* The steps of the getValue calls.                                        *)

\* The value was held by the Ndb object, and is held no more.
LEMMA TakeValueKeeps == Inv /\ TakeValue => Inv'
<1> SUFFICES ASSUME Inv, TakeValue PROVE Inv'
  OBVIOUS
<1> DEFINE a == Head(asks).session
<1>1. Good(batchSize, asks, range, next, waiting) BY DEF Inv
<1>2. /\ range \in Seq(Nat) /\ next \in Nat \ {0} /\ waiting \in [Session -> Waiting \cup {None}]
  BY <1>1 DEF Good, Types
<1>3. /\ asks # <<>> /\ range # <<>> /\ range' = Tail(range) /\ next' = next /\ table' = table
      /\ asks' = Tail(asks)
      /\ batchSize' = (IF Len(asks) > 1 THEN batchSize - 1 ELSE batchSize)
      /\ waiting' = [waiting EXCEPT ![a].ids = Append(@, Head(range)), ![a].fetches = @ + 0]
  BY DEF TakeValue, Answered, StartNext
<1>4. /\ range' \in Seq(Nat) /\ Len(range) \in Nat \ {0} /\ Len(range') = Len(range) - 1
      /\ DOMAIN range' = 1..(Len(range) - 1) /\ DOMAIN range = 1..Len(range)
      /\ 1 \in DOMAIN range /\ Head(range) = range[1] /\ Head(range) \in Nat
      /\ \A i \in DOMAIN range' : i + 1 \in DOMAIN range /\ range'[i] = range[i + 1]
  BY <1>2, <1>3, TailIs
<1>5. /\ \A i \in DOMAIN range : range[i] < next
      /\ \A i, j \in DOMAIN range : range[i] = range[j] => i = j
      /\ \A s \in Session : GivenTo(waiting[s]) \cap ToSet(range) = {}
  BY <1>1 DEF Good, Once
<1>6. ToSet(range') \subseteq ToSet(range)
  <2> SUFFICES ASSUME NEW y \in ToSet(range') PROVE y \in ToSet(range)
    OBVIOUS
  <2>1. PICK i \in DOMAIN range' : y = range'[i] BY DEF ToSet
  <2> QED BY <1>4, <2>1 DEF ToSet
<1>7. Head(range) \notin ToSet(range')
  <2> SUFFICES ASSUME NEW i \in DOMAIN range' PROVE range'[i] # Head(range)
    BY DEF ToSet
  <2>1. i + 1 \in DOMAIN range /\ range'[i] = range[i + 1] /\ i + 1 # 1 BY <1>4
  <2> QED BY <1>4, <1>5, <2>1
<1>8. \A s \in Session : Head(range) \notin GivenTo(waiting[s])
  <2>1. Head(range) \in ToSet(range) BY <1>4 DEF ToSet
  <2> QED BY <1>5, <2>1
<1>9. ASSUME NEW i \in DOMAIN range' PROVE range'[i] < next BY <1>4, <1>5
<1>10. ASSUME NEW i \in DOMAIN range', NEW j \in DOMAIN range', range'[i] = range'[j] PROVE i = j
  <2>1. /\ i + 1 \in DOMAIN range /\ range'[i] = range[i + 1]
        /\ j + 1 \in DOMAIN range /\ range'[j] = range[j + 1]
    BY <1>4
  <2>2. i + 1 = j + 1 BY <1>5, <1>10, <2>1
  <2> QED BY <1>4, <2>2
<1>11. \A s \in Session : GivenTo(waiting[s]) \cap ToSet(range') = {} BY <1>5, <1>6
<1>12. Head(range) < next
  <2>1. range[1] < next BY <1>4, <1>5
  <2> QED BY <1>4, <2>1
<1>13. next' \in Nat /\ next' >= next BY <1>2, <1>3
<1>14. Len(range') >= Len(range) - 1 BY <1>4
<1>15. \A i \in DOMAIN range' : range'[i] < next' BY <1>3, <1>9
<1>16. \A i, j \in DOMAIN range' : range'[i] = range'[j] => i = j BY <1>10
<1>17. Head(range) < next' BY <1>3, <1>12
<1>18. Gives(batchSize, asks, range, next, waiting, Head(range), 0, batchSize', range', next', waiting')
  BY <1>1, <1>3, <1>4, <1>7, <1>8, <1>11, <1>13, <1>14, <1>15, <1>16, <1>17 DEF Gives
<1>19. Good(batchSize', asks', range', next', waiting') BY <1>3, <1>18, AnsweredKeeps
<1> QED BY <1>3, <1>19 DEF Inv

\* The range is above all values that were given, and covers the asks of the list.
LEMMA FetchRangeKeeps == Inv /\ FetchRange => Inv'
<1> SUFFICES ASSUME Inv, FetchRange PROVE Inv'
  OBVIOUS
<1> DEFINE m == Head(asks).size
<1>1. Good(batchSize, asks, range, next, waiting) BY DEF Inv
<1>2. next \in Nat \ {0} /\ waiting \in [Session -> Waiting \cup {None}] /\ asks \in Seq(Ask)
  BY <1>1 DEF Good, Types
<1>3. /\ asks # <<>> /\ range = <<>> /\ table' = table /\ asks' = Tail(asks)
      /\ range' = [i \in 1..m - 1 |-> next + i] /\ next' = next + m
      /\ batchSize' = (IF Len(asks) > 1 THEN batchSize - 1 ELSE batchSize)
      /\ waiting' = [waiting EXCEPT ![Head(asks).session].ids = Append(@, next),
                                    ![Head(asks).session].fetches = @ + 1]
  BY DEF FetchRange, Answered, StartNext
<1>4. m \in Nat \ {0}
  <2>1. m \in Nat /\ m = asks[1].size BY <1>1, <1>3, HeadIsAwaited DEF Good
  <2>2. 1 \in DOMAIN asks BY <1>2, <1>3, TailIs
  <2>3. asks[1].size >= 1 - 1 + 1 BY <1>1, <2>2 DEF Good, Sizes
  <2> QED BY <2>1, <2>3
<1> HIDE DEF m
<1>5. DOMAIN range' = 1..(m - 1) /\ \A i \in DOMAIN range' : range'[i] = next + i /\ i \in Nat /\ 1 <= i /\ i <= m - 1
  BY <1>3, <1>4
<1>6. range' \in Seq(Nat) /\ Len(range') = m - 1 /\ Len(range) = 0
  <2>1. m - 1 \in Nat BY <1>4
  <2>2. range' \in [1..(m - 1) -> Nat] BY <1>2, <1>3, <2>1
  <2>3. range' \in Seq(Nat) BY <2>1, <2>2, SeqDef
  <2>4. Len(range') \in Nat /\ DOMAIN range' = 1..Len(range') BY <2>3, LenProperties
  <2> QED BY <1>3, <1>5, <2>1, <2>3, <2>4, EmptySeq
<1>7. ASSUME NEW i \in DOMAIN range' PROVE range'[i] < next' /\ range'[i] > next
  BY <1>2, <1>3, <1>4, <1>5
<1>8. ASSUME NEW i \in DOMAIN range', NEW j \in DOMAIN range', range'[i] = range'[j] PROVE i = j
  BY <1>2, <1>5, <1>8
<1>9. ASSUME NEW s \in Session, NEW y \in GivenTo(waiting[s]) PROVE y \in Nat /\ y < next
  <2>1. waiting[s] \in Waiting \cup {None} BY <1>2
  <2> QED BY <1>1, <2>1, GivenAreNumbers DEF Good, Once
<1>10. next \notin ToSet(range')
  <2> SUFFICES ASSUME NEW i \in DOMAIN range' PROVE range'[i] # next
    BY DEF ToSet
  <2> QED BY <1>2, <1>5
<1>11. \A s \in Session : next \notin GivenTo(waiting[s]) BY <1>2, <1>9
<1>12. ASSUME NEW s \in Session, NEW y \in GivenTo(waiting[s]) PROVE y \notin ToSet(range')
  <2> SUFFICES ASSUME NEW i \in DOMAIN range' PROVE range'[i] # y
    BY DEF ToSet
  <2>1. range'[i] = next + i /\ i \in Nat BY <1>5
  <2> QED BY <1>2, <1>9, <2>1
<1>13. next' \in Nat /\ next' >= next /\ next < next' BY <1>2, <1>3, <1>4
<1>14. Len(range') >= Len(range) - 1 BY <1>4, <1>6
<1>15. Gives(batchSize, asks, range, next, waiting, next, 1, batchSize', range', next', waiting')
  <2>1. Len(range') = Head(asks).size - 1 BY <1>6 DEF m
  <2> QED BY <1>1, <1>2, <1>3, <1>6, <1>7, <1>8, <1>10, <1>11, <1>12, <1>13, <1>14, <2>1 DEF Gives
<1>16. Good(batchSize', asks', range', next', waiting') BY <1>3, <1>15, AnsweredKeeps
<1> QED BY <1>3, <1>16 DEF Inv

\* A list may get 0 for a value.
LEMMA FetchFailsKeeps == Inv /\ FetchFails => Inv'
<1> SUFFICES ASSUME Inv, FetchFails PROVE Inv'
  OBVIOUS
<1>1. Good(batchSize, asks, range, next, waiting) BY DEF Inv
<1>2. next \in Nat \ {0} /\ range \in Seq(Nat) BY <1>1 DEF Good, Types
<1>3. /\ asks # <<>> /\ range = <<>> /\ table' = table /\ asks' = Tail(asks)
      /\ range' = range /\ next' = next
      /\ batchSize' = (IF Len(asks) > 1 THEN batchSize - 1 ELSE batchSize)
      /\ waiting' = [waiting EXCEPT ![Head(asks).session].ids = Append(@, 0),
                                    ![Head(asks).session].fetches = @ + 0]
  BY DEF FetchFails, Answered, StartNext
<1>4. Len(range') >= Len(range) - 1 BY <1>2, <1>3, LenProperties
<1>5. next' \in Nat /\ next' >= next /\ 0 < next' BY <1>2, <1>3
<1>6. DOMAIN range' = {} /\ ToSet(range') = {} BY <1>3 DEF ToSet
<1>7. Gives(batchSize, asks, range, next, waiting, 0, 0, batchSize', range', next', waiting')
  BY <1>1, <1>2, <1>3, <1>4, <1>5, <1>6 DEF Gives
<1>8. Good(batchSize', asks', range', next', waiting') BY <1>3, <1>7, AnsweredKeeps
<1> QED BY <1>3, <1>8 DEF Inv

-----------------------------------------------------------------------------
(* Lists of objects.                                                       *)

LEMMA AskForValuesKeeps ==
  ASSUME NEW s \in Session, NEW objs \in Lists(table), Inv, AskForValues(s, objs)
  PROVE Inv'
<1> DEFINE m == Len(objs)
           k == IF asks = <<>> THEN 1 ELSE 0
           e == [i \in 1..m |-> [session |-> s, size |-> batchSize + m - (IF i > 1 THEN k ELSE 0)]]
<1>1. Good(batchSize, asks, range, next, waiting) /\ objs \in AllLists BY StoreAssumption DEF Inv
<1>2. /\ waiting[s] = None /\ table' = table /\ range' = range /\ next' = next
      /\ waiting' = [waiting EXCEPT ![s] = [objs |-> objs, ids |-> <<>>, fetches |-> 0]]
      /\ asks' = asks \o e /\ batchSize' = batchSize + m - k
  BY DEF AskForValues
<1>3. Good(batchSize', asks', range, next, waiting') BY <1>1, <1>2, ListBegins
<1> QED BY <1>2, <1>3 DEF Inv

LEMMA ExecuteListKeeps ==
  ASSUME NEW s \in Session, Inv, ExecuteList(s)
  PROVE Inv'
<1>1. Good(batchSize, asks, range, next, waiting) BY DEF Inv
<1>2. /\ waiting[s] # None /\ Len(waiting[s].ids) = Len(waiting[s].objs) /\ table' = table
      /\ waiting' = [waiting EXCEPT ![s] = None]
      /\ UNCHANGED <<batchSize, asks, range, next>>
  BY DEF ExecuteList, ListCompletes, Completes
<1>3. Good(batchSize, asks, range, next, waiting') BY <1>1, <1>2, ListEnds
<1> QED BY <1>2, <1>3 DEF Inv

-----------------------------------------------------------------------------
(* The steps that move no list.                                            *)

LEMMA OthersKeep ==
  ASSUME Inv, table' = table, UNCHANGED <<batchSize, asks, range, waiting>>,
         next' \in Nat, next' >= next
  PROVE Inv'
<1>1. Good(batchSize, asks, range, next', waiting) BY NextGrows DEF Inv
<1> QED BY <1>1 DEF Inv

LEMMA InitGood == Init => Inv
<1> SUFFICES ASSUME Init PROVE Inv
  OBVIOUS
<1>1. /\ table \in Table /\ batchSize = 1 /\ asks = <<>> /\ range = <<>> /\ next = 1
      /\ waiting = [s \in Session |-> None]
  BY DEF Init
<1>2. Types(asks, range, next, waiting) BY <1>1, EmptySeq DEF Types
<1>3. Announced(batchSize, asks) BY <1>1 DEF Announced
<1>4. Sizes(asks) /\ DOMAIN range = {} /\ ToSet(range) = {} BY <1>1 DEF Sizes, ToSet
<1>5. Fetched(asks, range, waiting) BY <1>1 DEF Fetched
<1>6. Served(asks, waiting)
  <2> SUFFICES ASSUME NEW s \in Session PROVE Cardinality(AsksOf(asks, s)) = LackingOf(waiting[s])
    BY DEF Served
  <2>1. AsksOf(asks, s) = {} BY <1>1 DEF AsksOf
  <2>2. Cardinality({}) = 0 BY FS_EmptySet
  <2> QED BY <1>1, <2>1, <2>2 DEF LackingOf
<1>7. \A s \in Session : GivenTo(waiting[s]) = {} BY <1>1 DEF GivenTo
<1>8. Once(range, next, waiting) BY <1>4, <1>7 DEF Once
<1> QED BY <1>1, <1>2, <1>3, <1>4, <1>5, <1>6, <1>8 DEF Inv, Good

LEMMA NextKeeps == Inv /\ [Next]_vars => Inv'
<1> SUFFICES ASSUME Inv, [Next]_vars PROVE Inv'
  OBVIOUS
<1>0. next \in Nat BY DEF Inv, Good, Types
<1>1. ASSUME table' = table, UNCHANGED autoIncrement PROVE Inv'
  BY <1>0, <1>1, OthersKeep DEF autoIncrement
<1>2. ASSUME NEW m, Call(m) PROVE Inv'
  BY <1>1, <1>2 DEF Call
<1>3. CASE OnlyMappedColumns BY <1>1, <1>3 DEF OnlyMappedColumns
<1>4. CASE OpenTable BY <1>1, <1>4 DEF OpenTable
<1>5. CASE Correct BY <1>1, <1>5 DEF Correct
<1>6. ASSUME NEW k \in Key, RemoveObject(k) \/ Find(k) PROVE Inv'
  BY <1>1, <1>6 DEF RemoveObject, Find, Replies, Completes
<1>7. ASSUME NEW k \in Key, next' = next \/ next' = Bump(k) PROVE next' \in Nat /\ next' >= next
  <2>1. k \in Nat BY StoreAssumption
  <2> QED BY <1>0, <1>7, <2>1 DEF Bump
<1>8. ASSUME NEW k \in Key, NEW obj, Persist(k, obj) PROVE Inv'
  <2>1. /\ next' = next \/ next' = Bump(k)
        /\ table' = table /\ UNCHANGED <<batchSize, asks, range, waiting>>
    BY <1>8 DEF Persist, Replies, Completes
  <2> QED BY <1>7, <2>1, OthersKeep
<1>9. ASSUME NEW k \in Key, NEW obj, Save(k, obj) PROVE Inv'
  <2>1. /\ next' = next \/ next' = Bump(k)
        /\ table' = table /\ UNCHANGED <<batchSize, asks, range, waiting>>
    BY <1>9 DEF Save, Replies, Completes
  <2> QED BY <1>7, <2>1, OthersKeep
<1>10. ASSUME NEW k \in Key, NEW obj, Update(k, obj) PROVE Inv'
  <2>1. table' = table /\ UNCHANGED autoIncrement BY <1>10 DEF Update, Replies, Completes
  <2> QED BY <1>1, <2>1
<1>11. ASSUME NEW objs \in Lists(table), PersistByServer(objs) PROVE Inv'
  <2> DEFINE done == InsertList(objs, [i \in DOMAIN objs |-> next + i - 1])
             sent == {i \in 1..Len(objs) : \A j \in 1..(i - 1) : done.oks[j]}
  <2>1. table' = table /\ next' = next + Cardinality(sent) /\ UNCHANGED <<batchSize, asks, range, waiting>>
    BY <1>11 DEF PersistByServer, ListCompletes, Completes
  <2>2. Len(objs) \in Nat BY StoreAssumption DEF Inv
  <2>3. IsFiniteSet(1..Len(objs)) BY <2>2, FS_Interval
  <2>4. Cardinality(sent) \in Nat BY <2>3, FS_Subset, FS_CardinalityType
  <2> HIDE DEF sent
  <2> QED BY <1>0, <2>1, <2>4, OthersKeep
<1>12. CASE OtherClient
  <2>1. table' = table /\ next' = next + 1 /\ UNCHANGED <<batchSize, asks, range, waiting>>
    BY <1>12 DEF OtherClient
  <2> QED BY <1>0, <2>1, OthersKeep
<1>13. CASE UNCHANGED vars BY <1>1, <1>13 DEF vars
<1> QED
  BY <1>2, <1>3, <1>4, <1>5, <1>6, <1>8, <1>9, <1>10, <1>11, <1>12, <1>13,
     TakeValueKeeps, FetchRangeKeeps, FetchFailsKeeps, AskForValuesKeeps, ExecuteListKeeps
  DEF Next

-----------------------------------------------------------------------------
\* Calls, ranges and lists are what NdbAutoIncrement.js keeps them to be.
THEOREM Invariance == Spec => []Inv
<1>1. Init => Inv BY InitGood
<1>2. Inv /\ [Next]_vars => Inv' BY NextKeeps
<1> QED BY <1>1, <1>2, PTL DEF Spec

LEMMA InvShares == Inv => ValuesAreShared
<1> SUFFICES ASSUME Inv PROVE ValuesAreShared
  OBVIOUS
<1>1. Good(batchSize, asks, range, next, waiting) BY DEF Inv
<1>2. ValuesAreBatched
  <2>1. batchSize = 1 + NotStarted BY <1>1 DEF Good, Announced, NotStarted
  <2>2. \A s \in Session : waiting[s] # None => waiting[s].fetches <= 1 BY <1>1 DEF Good, Fetched
  <2> QED BY <2>1, <2>2 DEF ValuesAreBatched
<1>3. ValuesAreOwned
  <2>1. \A s \in Session : Cardinality({i \in DOMAIN asks : asks[i].session = s}) =
                             IF waiting[s] = None THEN 0 ELSE Len(waiting[s].objs) - Len(waiting[s].ids)
    BY <1>1 DEF Good, Served, AsksOf, LackingOf
  <2>2. /\ \A s \in Session : (IF waiting[s] = None THEN {} ELSE ToSet(waiting[s].ids) \ {0}) \cap ToSet(range) = {}
        /\ \A s, r \in Session : s # r =>
             (IF waiting[s] = None THEN {} ELSE ToSet(waiting[s].ids) \ {0}) \cap
             (IF waiting[r] = None THEN {} ELSE ToSet(waiting[r].ids) \ {0}) = {}
    BY <1>1 DEF Good, Once, GivenTo
  <2> QED BY <2>1, <2>2 DEF ValuesAreOwned
<1> QED BY <1>2, <1>3 DEF ValuesAreShared

\* getValue gives each value once, to a list that lacks it; the batch size counts the
\* asks that were announced by prefetch and have not started, and a list is served
\* with one round trip at most.
THEOREM Batching == Spec => []ValuesAreShared
<1>1. Inv => ValuesAreShared BY InvShares
<1> QED BY <1>1, Invariance, PTL
=============================================================================
