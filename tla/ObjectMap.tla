----------------------------- MODULE ObjectMap -----------------------------
(***************************************************************************)
(* What a table of objects promises to its users, whatever the mapping and *)
(* the adapter: a map from keys to objects.  persist adds an object, save  *)
(* adds it or changes its fields, update changes them, remove takes it     *)
(* out, find gives a copy.  The fields that a change does not name keep    *)
(* their values, except those that the mapping keeps together in a column: *)
(* they are replaced as a whole.                                           *)
(***************************************************************************)
EXTENDS Integers, Sequences, FiniteSets, TLC

CONSTANTS
  Key,         \* the keys that the user names
  Id, Null,    \* all keys
  Object(_),   \* the objects that may be given under a shape, without their key
  ObjectList   \* lists of objects to be persisted at once, without their keys

VARIABLES
  shape,   \* of the objects: [key, fields, together, initial, notNull]
  store,   \* key -> object
  answer   \* to the last call

vars == <<shape, store, answer>>

Answer(op, result) == [op |-> op, result |-> result]
Keyed(k, obj) == (shape.key :> k) @@ obj

Init == store = <<>> /\ answer = Answer("none", "ok")

\* The mapping may change as long as there is nothing in the map.
Define == store = <<>> /\ UNCHANGED <<store, answer>>

\* The parts of an object that are kept, and what they make of an older one.
Kept(obj) == [f \in DOMAIN obj \cap shape.fields |-> obj[f]]
Merge(old, obj) == Kept(obj) @@ [f \in DOMAIN old \ shape.together |-> old[f]]
New(obj) == Merge(shape.initial, obj)

\* A field of a column that is never null is not given null.
Legal(obj) == \A f \in DOMAIN obj \cap shape.notNull : obj[f] # Null

\* A change that names no field may be refused.
Empty(obj) == DOMAIN obj \cap shape.fields = {}

Fails(op) == answer' = Answer(op, "error") /\ UNCHANGED <<shape, store>>
Done(op, newStore) == answer' = Answer(op, "ok") /\ store' = newStore /\ UNCHANGED shape

Persist(k, obj) ==
  IF Legal(obj) /\ k \notin DOMAIN store
  THEN Done("persist", (k :> New(Keyed(k, obj))) @@ store) ELSE Fails("persist")

Save(k, obj) ==
  \/ /\ Legal(obj)
     /\ IF k \in DOMAIN store THEN Done("save", (k :> Merge(store[k], Keyed(k, obj))) @@ store)
                              ELSE Done("save", (k :> New(Keyed(k, obj))) @@ store)
  \/ (~Legal(obj) \/ Empty(obj)) /\ Fails("save")

Update(k, obj) ==
  \/ Legal(obj) /\ k \in DOMAIN store /\ Done("update", (k :> Merge(store[k], Keyed(k, obj))) @@ store)
  \/ (~Legal(obj) \/ k \notin DOMAIN store \/ Empty(obj)) /\ Fails("update")

Remove(k) ==
  IF k \in DOMAIN store THEN Done("remove", [j \in DOMAIN store \ {k} |-> store[j]]) ELSE Fails("remove")

Find(k) ==
  /\ UNCHANGED <<shape, store>>
  /\ answer' = Answer("find", IF k \in DOMAIN store THEN store[k] ELSE "missing")

\* Of a list of objects without keys some are kept, each under a new key.  Who is
\* told that all is well is kept; the first to be told of an error is not.
PersistAll(objs) ==
  \E kept \in SUBSET (1..Len(objs)), told \in [1..Len(objs) -> {"ok", "error"}] :
    \E ks \in [kept -> Id] :
      /\ \A i, j \in kept : ks[i] = ks[j] => i = j
      /\ \A i \in kept : ks[i] \notin DOMAIN store /\ Legal(objs[i])
      /\ \A i \in 1..Len(objs) : told[i] = "ok" => i \in kept
      /\ \A i \in 1..Len(objs) : told[i] = "error" => \E j \in 1..i : j \notin kept
      /\ LET At(k) == CHOOSE i \in kept : ks[i] = k
         IN  store' = [k \in {ks[i] : i \in kept} |-> New(Keyed(k, objs[At(k)]))] @@ store
      /\ answer' = Answer("persistAll", told)
      /\ UNCHANGED shape

Next ==
  \/ Define
  \/ \E k \in Key : Remove(k) \/ Find(k)
  \/ \E k \in Key, obj \in Object(shape) : Persist(k, obj) \/ Save(k, obj) \/ Update(k, obj)
  \/ \E objs \in ObjectList : PersistAll(objs)

Spec == Init /\ [][Next]_vars
=============================================================================
