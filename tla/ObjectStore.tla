---------------------------- MODULE ObjectStore ----------------------------
(***************************************************************************)
(* Objects kept in a table by either adapter: the user defines a mapping,  *)
(* a session makes the table handler from it, and persist, save, update,   *)
(* remove and find turn objects into rows and rows into objects.  jones-   *)
(* ndb encodes the defined columns into a row buffer with a mask of them   *)
(* (NdbOperation.js); jones-mysql writes a statement with the defined      *)
(* columns (MySQLConnection.js).  Objects persisted without the key are    *)
(* given one: by the MySQL server, or from the cache of auto-increment     *)
(* values of the table in jones-ndb (NdbAutoIncrement.js).                 *)
(*                                                                         *)
(* An operation on one row is atomic in the server, and is one step here;  *)
(* how operations share transactions is the matter of other modules.       *)
(***************************************************************************)
EXTENDS ObjectMapping

CONSTANTS
  Adapter,       \* "ndb", "mysql"
  Table,         \* the tables
  Session,       \* those who persist lists of objects without key
  Key, MaxKey,   \* keys are 1..MaxKey; those that the user names are in Key
  FieldChoices(_, _), SparseChoices(_, _), ExcludeChoices(_, _), ConverterChoices(_, _),
                 \* the calls that the user may add to a mapping of a table
  MaxCalls,      \* bound on them
  Names,         \* the names of the properties of objects
  Object(_),     \* the objects that may be given under a shape, without their key
  AllLists, Lists(_)   \* lists of objects without keys; those for a table

\* Keys are numbers, a list that is persisted has an object, and None is no such list
\* that waits.
ASSUME StoreAssumption ==
  /\ Key \subseteq Nat
  /\ \A t \in Table : Lists(t) \subseteq AllLists
  /\ \A objs \in AllLists : Len(objs) \in Nat \ {0}
  /\ None \notin [objs : AllLists, ids : Seq(Nat), fetches : Nat]

VARIABLES
  adapter, table,
  mapping, calls,   \* the user's mapping, and the number of calls that made it
  handler,          \* the table handler, or None
  shape,            \* what the mapping means to the user (see ObjectMap)
  rows,             \* key -> row of the table
  objects,          \* key -> the object that the row is read as (history)
  answer,
  batchSize,        \* NdbAutoIncrementCache.batch_size
  asks,             \* its execQueue: the calls of getValue, the first one running
  range, next,      \* values the Ndb object holds; the next value of the data nodes
  waiting           \* NdbAutoIncrementHandlers: lists that wait for values, or None

autoIncrement == <<batchSize, asks, range, next, waiting>>
vars == <<adapter, table, mapping, calls, handler, shape, rows, objects, answer, autoIncrement>>

Answer(op, result) == [op |-> op, result |-> result]

Init ==
  /\ adapter \in Adapter /\ table \in Table
  /\ mapping = TableMapping(TRUE) /\ calls = 0
  /\ handler = None /\ shape = None
  /\ rows = <<>> /\ objects = <<>> /\ answer = Answer("none", "ok")
  /\ batchSize = 1 /\ asks = <<>> /\ range = <<>> /\ next = 1
  /\ waiting = [s \in Session |-> None]

-----------------------------------------------------------------------------
(* The mapping.                                                            *)

\* What the code takes without a check, and cannot keep: a column of a field
\* with many columns that another field uses too; a field that is not persistent,
\* or is excluded, but named like a column or also mapped; a shared column
\* without a converter; a converter for a column that is not null by default; a
\* column for sparse fields that is not among those of the handler; a key that
\* is not a field by itself.
Persistent(m) == {f \in ToSet(m.fields) : f.persistent}
ColumnsOf(f) == IF f.toMany # <<>> THEN ToSet(f.toMany) ELSE {ColumnOf(f)}
Careful(t, m) ==
  /\ \A f \in Persistent(m) : f.toMany # <<>> =>
       /\ IsInjective(f.toMany)
       /\ \A g \in Persistent(m) : ColumnsOf(f) \cap ColumnsOf(g) # {} => f = g
       /\ ColumnsOf(f) \cap ({m.sparse} \cup m.converters) = {}
  /\ m.excluded \cap ToSet(t.columns) = {}
  /\ \A f \in Persistent(m) : f.name \notin m.excluded
  /\ \A f \in Persistent(m) : f.shared => ColumnOf(f) \in t.json \cup m.converters
  /\ m.converters \cap t.notNull = {}
  /\ \A f \in Persistent(m) : f.converter => ColumnsOf(f) \cap t.notNull = {}
  /\ m.sparse # None => m.mapAllColumns \/ m.sparse = t.sparse \/ \E f \in Persistent(m) : m.sparse \in ColumnsOf(f)
  /\ \A f \in Persistent(m) : t.key \in ColumnsOf(f) <=> f = DefaultField(t.key)

\* What the user has asked for with the mapping.
SharedColumns(m) == {ColumnOf(f) : f \in {g \in Persistent(m) : g.shared}}
UsedColumns(m) == UNION {ColumnsOf(f) : f \in Persistent(m)}

\* The column of all fields that have no other, if there is one.
SparseColumn(t, m) ==
  IF m.sparse # None THEN m.sparse
  ELSE IF ~m.mapAllColumns /\ t.sparse \notin UsedColumns(m) THEN t.sparse ELSE None

\* Fields that have columns of their own, mapped by the user or by default.
OwnFields(t, m) ==
  LET byUser == {f \in Persistent(m) : ColumnsOf(f) \cap (SharedColumns(m) \cup {SparseColumn(t, m)}) = {}}
      free == ToSet(t.columns) \ (UsedColumns(m) \cup {f.name : f \in Persistent(m)} \cup {SparseColumn(t, m)})
  IN  byUser \cup (IF m.mapAllColumns THEN {DefaultField(c) : c \in free} ELSE {})

Shape(t, m) ==
  LET own == OwnFields(t, m)
      ownNames == {f.name : f \in own}
      sparse == IF SparseColumn(t, m) = None THEN {} ELSE Names \ m.excluded
      fields == {f.name : f \in Persistent(m)} \cup ownNames \cup sparse
      Value(c) == IF c \in t.notNull THEN Dflt ELSE Null
      Initial(f) == IF f.toMany # <<>> THEN [c \in ToSet(f.toMany) |-> Value(c)] ELSE Value(ColumnOf(f))
  IN  [key |-> t.key, fields |-> fields, together |-> fields \ ownNames,
       initial |-> [n \in ownNames |-> Initial(CHOOSE f \in own : f.name = n)],
       notNull |-> {f.name : f \in {g \in own : ColumnsOf(g) \subseteq t.notNull}}]

Call(m) ==
  /\ handler = None /\ calls < MaxCalls /\ Careful(table, m)
  /\ mapping' = m /\ calls' = calls + 1
  /\ UNCHANGED <<adapter, table, handler, shape, rows, objects, answer, autoIncrement>>

\* A mapping given as a literal may say that only the mapped columns are used.
OnlyMappedColumns ==
  /\ handler = None /\ calls = 0 /\ mapping.mapAllColumns
  /\ mapping' = MapField(TableMapping(FALSE), DefaultField(table.key))
  /\ UNCHANGED <<adapter, table, calls, handler, shape, rows, objects, answer, autoIncrement>>

OpenTable ==
  /\ handler = None
  /\ handler' = DBTableHandler(table, mapping)
  /\ shape' = Shape(table, mapping)
  /\ UNCHANGED <<adapter, table, mapping, calls, rows, objects, answer, autoIncrement>>

\* A table handler with an error is refused; the user corrects the mapping.
Correct ==
  /\ handler # None /\ handler.error
  /\ handler' = None /\ shape' = None /\ mapping' = TableMapping(TRUE) /\ calls' = 0
  /\ UNCHANGED <<adapter, table, rows, objects, answer, autoIncrement>>

Usable == handler # None /\ ~handler.error

-----------------------------------------------------------------------------
(* Rows.  values are those of the handler's columns, and a set of their    *)
(* positions says which are defined.                                       *)

Default(c) == IF c \in table.notNull THEN Dflt ELSE Null
Position(c) == {i \in DOMAIN handler.columns : handler.columns[i].name = c}
Changed(row, values, ids) ==
  [c \in DOMAIN row |-> IF Position(c) \cap ids = {} THEN row[c] ELSE values[ColumnId(handler, c)]]
NewRow(values, ids) == Changed([c \in ToSet(table.columns) |-> Default(c)], values, ids)

MayBeNull(i) == handler.columns[i].name \notin table.notNull \cup {table.key}
Nulls(values, ids) == {i \in ids : values[i] = Null /\ ~MayBeNull(i)}
KeyId == ColumnId(handler, table.key)

\* encodeColumnsInBuffer: the columns that are not undefined, and an error for
\* each null that may not be.
EncodeRow(values) ==
  LET mask == {i \in DOMAIN values : values[i] # Undefined}
  IN  [mask |-> mask, error |-> Nulls(values, mask) # {}]

\* FieldValueDefinedListener: no key when all columns are defined.  setUndefined
\* makes one, with a D for each column before.
SetDefined(key, i) == IF key = None THEN None ELSE Append(key, "D")
\* Mutant: the column itself counts as one before.
SetUndefined_TooMany(key, i) == Append(IF key = None THEN [j \in 1..i |-> "D"] ELSE key, "U")
SetUndefined(key, i) == Append(IF key = None THEN [j \in 1..i - 1 |-> "D"] ELSE key, "U")
DefinedKey(values) ==
  FoldLeft(LAMBDA key, i : IF values[i] = Undefined THEN SetUndefined(key, i) ELSE SetDefined(key, i),
           None, [i \in DOMAIN values |-> i])

\* createInsertSQL makes two statements, and extractValues their values: an
\* INSERT of the defined columns, which may have a clause ON DUPLICATE KEY
\* UPDATE of those that are not in the primary key.
InsertColumns(values) ==
  LET key == DefinedKey(values) IN {i \in DOMAIN values : key = None \/ key[i] = "D"}
DuplicateColumns(values) == InsertColumns(values) \ {KeyId}

\* buildUpdateOperation: SET of the defined columns that are not in the index.
SetColumns(values) == {i \in DOMAIN values : values[i] # Undefined} \ {KeyId}

-----------------------------------------------------------------------------
(* The operations.                                                         *)

Completes(op, result, newRows) ==
  /\ rows' = newRows
  /\ objects' = IF rows' = rows THEN objects ELSE [k \in DOMAIN rows' |-> NewResultObject(handler, rows'[k])]
  /\ answer' = Answer(op, result)
  /\ UNCHANGED <<adapter, table, mapping, calls, handler, shape>>

Replies(op, ok, newRows) == Completes(op, IF ok THEN "ok" ELSE "error", IF ok THEN newRows ELSE rows)

Keyed(k, obj) == (handler.columns[KeyId].fieldNames[1] :> k) @@ obj
With(k, row) == (k :> row) @@ rows

\* An explicit key moves the counter of the MySQL server.
Bump(k) == IF adapter = "mysql" /\ next <= k THEN k + 1 ELSE next

Persist(k, obj) ==
  /\ Usable
  /\ LET values == GetColumns(handler, Keyed(k, obj))
         ids == IF adapter = "ndb" THEN EncodeRow(values).mask ELSE InsertColumns(values)
         ok == Nulls(values, ids) = {} /\ k \notin DOMAIN rows
     IN  Replies("persist", ok, With(k, NewRow(values, ids))) /\ next' = IF ok THEN Bump(k) ELSE next
  /\ UNCHANGED <<batchSize, asks, range, waiting>>

\* NDB writes the masked columns of the row or of a new one.  For MySQL an
\* empty list of columns to update is an error of syntax.
Save(k, obj) ==
  /\ Usable
  /\ LET values == GetColumns(handler, Keyed(k, obj))
         ids == IF adapter = "ndb" THEN EncodeRow(values).mask ELSE InsertColumns(values)
         change == IF adapter = "ndb" THEN ids ELSE DuplicateColumns(values)
         row == IF k \in DOMAIN rows THEN Changed(rows[k], values, change) ELSE NewRow(values, ids)
         ok == Nulls(values, ids) = {} /\ change # {}
     IN  Replies("save", ok, With(k, row)) /\ next' = IF ok THEN Bump(k) ELSE next
  /\ UNCHANGED <<batchSize, asks, range, waiting>>

Update(k, obj) ==
  /\ Usable
  /\ LET values == GetColumns(handler, Keyed(k, obj))
         ids == IF adapter = "ndb" THEN EncodeRow(values).mask ELSE SetColumns(values)
         ok == Nulls(values, ids) = {} /\ ids # {} /\ k \in DOMAIN rows
     IN  Replies("update", ok, IF ok THEN With(k, Changed(rows[k], values, ids)) ELSE rows)
  /\ UNCHANGED autoIncrement

RemoveObject(k) ==
  /\ Usable
  /\ Replies("remove", k \in DOMAIN rows, [j \in DOMAIN rows \ {k} |-> rows[j]])
  /\ UNCHANGED autoIncrement

Find(k) ==
  /\ Usable
  /\ answer' = Answer("find", IF k \in DOMAIN rows THEN NewResultObject(handler, rows[k]) ELSE "missing")
  /\ UNCHANGED <<adapter, table, mapping, calls, handler, shape, rows, objects, autoIncrement>>

-----------------------------------------------------------------------------
(* Objects without keys.                                                   *)

\* A list is executed in its order.  Over NDB it is one transaction that ignores
\* the errors of its operations (AO_IGNORE): an object that has a key in use, or
\* is not encoded, is passed over, and the others are committed.  The statements
\* to MySQL commit one by one, and none is sent after one has failed.  A key that
\* was not obtained is not set in the buffer of the row, where it is 0.
Insert(done, obj, key) ==
  LET values == GetColumns(handler, Keyed(key, obj))
      sent == adapter = "ndb" \/ \A i \in DOMAIN done.oks : done.oks[i]
      ok == sent /\ key \notin DOMAIN done.rows /\ ~EncodeRow(values).error
  IN  [rows |-> IF ok THEN (key :> NewRow(values, EncodeRow(values).mask)) @@ done.rows ELSE done.rows,
       oks |-> Append(done.oks, ok)]
InsertList(objs, keys) ==
  FoldLeft(LAMBDA done, i : Insert(done, objs[i], keys[i]), [rows |-> rows, oks |-> <<>>],
           [i \in DOMAIN objs |-> i])

\* The operations that follow one with an error are told of it as well (its
\* error cascades), also those that have been committed.
Told(oks) == [i \in DOMAIN oks |-> IF \A j \in 1..i : oks[j] THEN "ok" ELSE "error"]
ListCompletes(done) == Completes("persistAll", Told(done.oks), done.rows)

\* The server takes a value for each statement that it is sent, and reports it
\* with the answer.
PersistByServer(objs) ==
  /\ Usable /\ adapter = "mysql"
  /\ next + Len(objs) - 1 <= MaxKey
  /\ LET done == InsertList(objs, [i \in DOMAIN objs |-> next + i - 1])
     IN  /\ ListCompletes(done)
         /\ next' = next + Cardinality({i \in 1..Len(objs) : \A j \in 1..(i - 1) : done.oks[j]})
  /\ UNCHANGED <<batchSize, asks, range, waiting>>

\* A list in execution: a new NdbAutoIncrementHandler announces all the values
\* it needs, then asks for each.  An ask takes the batch size of its time with
\* it; the first one, if none is running, runs at once.  (Of the lists at most
\* one per session is modelled; fetches is history.)
AskForValues(s, objs) ==
  LET n == Len(objs)
      running == IF asks = <<>> THEN 1 ELSE 0
      Size(i) == batchSize + n - (IF i > 1 THEN running ELSE 0)
  IN  /\ Usable /\ adapter = "ndb" /\ waiting[s] = None
      /\ waiting' = [waiting EXCEPT ![s] = [objs |-> objs, ids |-> <<>>, fetches |-> 0]]
      /\ asks' = asks \o [i \in 1..n |-> [session |-> s, size |-> Size(i)]]
      /\ batchSize' = batchSize + n - running
      /\ UNCHANGED <<adapter, table, mapping, calls, handler, shape, rows, objects, answer, range, next>>

\* Mutant: a call is counted when it ends.
StartNext_AtEnd == batchSize' = batchSize - 1
\* The running call answers, and the next one runs.
StartNext == batchSize' = IF Len(asks) > 1 THEN batchSize - 1 ELSE batchSize
Answered(value, fetched) ==
  /\ asks' = Tail(asks)
  /\ StartNext
  /\ waiting' = [waiting EXCEPT ![Head(asks).session].ids = Append(@, value),
                                ![Head(asks).session].fetches = @ + fetched]
  /\ UNCHANGED <<adapter, table, mapping, calls, handler, shape, rows, objects, answer>>

\* Ndb::getAutoIncrementValue takes a value that the object holds, or has as
\* many as the batch size reserved for it, which may fail.
TakeValue ==
  /\ asks # <<>> /\ range # <<>>
  /\ Answered(Head(range), 0) /\ range' = Tail(range) /\ UNCHANGED next

FetchRange ==
  /\ asks # <<>> /\ range = <<>>
  /\ LET n == Head(asks).size IN
     /\ next + n - 1 <= MaxKey
     /\ Answered(next, 1)
     /\ range' = [i \in 1..n - 1 |-> next + i]
     /\ next' = next + n

FetchFails ==
  /\ asks # <<>> /\ range = <<>>
  /\ Answered(0, 0) /\ UNCHANGED <<range, next>>

\* The last value has come, and the operations are executed with their keys,
\* also when some have none: the count of errors is not looked at.
ExecuteList(s) ==
  /\ waiting[s] # None /\ Len(waiting[s].ids) = Len(waiting[s].objs)
  /\ ListCompletes(InsertList(waiting[s].objs, waiting[s].ids))
  /\ waiting' = [waiting EXCEPT ![s] = None]
  /\ UNCHANGED <<batchSize, asks, range, next>>

\* Another process has values reserved.
OtherClient ==
  /\ Usable /\ adapter = "ndb" /\ next < MaxKey
  /\ \E s \in Session : waiting[s] # None
  /\ next' = next + 1
  /\ UNCHANGED <<adapter, table, mapping, calls, handler, shape, rows, objects, answer, batchSize, asks, range, waiting>>

-----------------------------------------------------------------------------
Next ==
  \/ \E f \in FieldChoices(table, mapping) : Call(MapField(mapping, f))
  \/ \E c \in SparseChoices(table, mapping) : Call(MapSparseFields(mapping, c))
  \/ \E names \in ExcludeChoices(table, mapping) : Call(ExcludeFields(mapping, names))
  \/ \E c \in ConverterChoices(table, mapping) : Call(RegisterColumnConverter(mapping, c))
  \/ OnlyMappedColumns
  \/ OpenTable
  \/ Correct
  \/ \E k \in Key : RemoveObject(k) \/ Find(k)
  \/ Usable /\ \E k \in Key, obj \in Object(shape) : Persist(k, obj) \/ Save(k, obj) \/ Update(k, obj)
  \/ Usable /\ \E s \in Session, objs \in Lists(table) : AskForValues(s, objs)
  \/ Usable /\ \E objs \in Lists(table) : PersistByServer(objs)
  \/ TakeValue \/ FetchRange \/ FetchFails
  \/ \E s \in Session : ExecuteList(s)
  \/ OtherClient

Spec == Init /\ [][Next]_vars

-----------------------------------------------------------------------------
(* Properties.                                                             *)

\* The table with its handler is a map of objects: what was written is read,
\* in all fields that the mapping keeps and in no other, whether they have a
\* column each, many columns, or a column with other fields, with converters
\* or without; and the adapters do the same.  Of a list that is persisted each
\* object is kept by itself, under a key of its own, and the first that is told
\* an error is not kept.
Objects == INSTANCE ObjectMap WITH
  Id <- 0..MaxKey, ObjectList <- AllLists, store <- objects

IsAnObjectMap == Objects!Spec

NotStarted == IF asks = <<>> THEN 0 ELSE Len(asks) - 1

\* The batch size of a table is one more than the values that were asked for
\* and whose calls have not started; and what is asked for is then fetched in
\* one round trip for a list, however lists of sessions interleave, as long as
\* no fetch fails.
\* (NdbAutoIncrement.js prefetch, getValue, makeOperationCallback.)
ValuesAreBatched ==
  /\ batchSize = 1 + NotStarted
  /\ \A s \in Session : waiting[s] # None => waiting[s].fetches <= 1

\* Every list that waits is being served: as many values are to come for it as
\* it lacks, and no value is given twice.
ValuesAreOwned ==
  LET Given(s) == IF waiting[s] = None THEN {} ELSE ToSet(waiting[s].ids) \ {0}
      Lacking(s) == IF waiting[s] = None THEN 0 ELSE Len(waiting[s].objs) - Len(waiting[s].ids)
  IN  /\ \A s \in Session : Cardinality({i \in DOMAIN asks : asks[i].session = s}) = Lacking(s)
      /\ \A s \in Session : Given(s) \cap ToSet(range) = {}
      /\ \A s, r \in Session : s # r => Given(s) \cap Given(r) = {}

\* Both: auto-increment values are fetched as announced and given once, to the list that
\* asked for them (NdbAutoIncrement.js).
ValuesAreShared == ValuesAreBatched /\ ValuesAreOwned
=============================================================================
