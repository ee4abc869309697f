----------------------------- MODULE AccessPaths -----------------------------
(***************************************************************************)
(* How an index is chosen: chooseIndex of Adapter/common/DBTableHandler.js *)
(* for the keys of find, load, remove and update, and the constructor of   *)
(* QueryHandler in Adapter/api/Query.js for the predicate of a query.      *)
(*                                                                         *)
(* A table is a record [ncol, nullable, indexes]; an index is a record     *)
(* [columns, unique, ordered, primary].  An index is named by its position *)
(* in indexes (dbIndexHandlers); no index is 0.  The mapping is the        *)
(* default one: a column of the handler is the column of the table.        *)
(***************************************************************************)
EXTENDS Predicates

First(positions) == IF positions = {} THEN 0 ELSE CHOOSE i \in positions : \A j \in positions : i <= j

IndexMask(index, ncol) == FoldLeft(SetBit, NewMask(ncol), index.columns)

\* The first unique index all of whose columns are set equal.
ChooseUniqueIndex(table, equal) ==
  LET Covered(index) ==
        LET mask == IndexMask(index, table.ncol)
        IN  index.unique /\ EqualMasks(AndMasks(equal, mask), mask)
  IN  First({i \in DOMAIN table.indexes : Covered(table.indexes[i])})

\* One point for each consecutive key part used and one more if it is equal.
Score(index, used, equal) ==
  LET unused == {i \in DOMAIN index.columns : ~BitIsSet(used, index.columns[i])}
      prefix == IF unused = {} THEN Len(index.columns) ELSE First(unused) - 1
  IN  prefix + Cardinality({i \in 1..prefix : BitIsSet(equal, index.columns[i])})

\* The first of the ordered indexes with the highest score, if above zero.
ChooseOrderedIndex(table, used, equal) ==
  LET indexes == table.indexes
      score == [i \in DOMAIN indexes |-> Score(indexes[i], used, equal)]
      scoring == {i \in DOMAIN indexes : indexes[i].ordered /\ score[i] > 0}
  IN  First({i \in scoring : \A j \in scoring : score[i] >= score[j]})

\* keys: a simple value, which stands for the first column of the first index,
\* or an object, with the values of the columns that its fields define.
Simple(v) == [simple |-> TRUE, value |-> v]
Fields(values) == [simple |-> FALSE, values |-> values]

\* getColumns: the value of a column that the keys do not define is undefined.
KeyColumn(keys, c) ==
  IF keys.simple THEN keys.value ELSE IF c \in DOMAIN keys.values THEN keys.values[c] ELSE Null

\* Mutant: a key that is null counts as given.
KeyMasksWithNulls(table, keys) ==
  LET columns == IF keys.simple THEN <<table.indexes[1].columns[1]>> ELSE SetToSeq(DOMAIN keys.values)
      mask == FoldLeft(SetBit, NewMask(table.ncol), columns)
  IN  [used |-> mask, equal |-> mask]

KeyMasks(table, keys) ==
  LET Set(columns) == FoldLeft(SetBit, NewMask(table.ncol), SetToSeq(columns))
      first == Set({table.indexes[1].columns[1]})
  IN  IF keys.simple THEN [used |-> first, equal |-> first]
      ELSE [used |-> Set(DOMAIN keys.values),
            equal |-> Set({c \in DOMAIN keys.values : keys.values[c] # Null})]

ChooseIndex(table, keys, allowUnique, allowScan) ==
  LET masks == KeyMasks(table, keys)
      unique == IF allowUnique THEN ChooseUniqueIndex(table, masks.equal) ELSE 0
  IN  IF unique # 0 THEN unique
      ELSE IF allowScan THEN ChooseOrderedIndex(table, masks.used, masks.equal)
      ELSE 0

PrimaryKey == 0
UniqueKey == 1
IndexScan == 2
TableScan == 3

\* The constructor of QueryHandler, for the predicate of where() or for none.
QueryHandler(table, predicates) ==
  LET p == CHOOSE p \in predicates : TRUE
      unique == IF predicates = {} THEN 0 ELSE ChooseUniqueIndex(table, EqualMask(p))
      ordered == IF predicates = {} THEN 0
                 ELSE ChooseOrderedIndex(table, UsedMask(p), EqualMask(p))
  IN  CASE unique # 0 ->
             [index |-> unique,
              queryType |-> IF table.indexes[unique].primary THEN PrimaryKey ELSE UniqueKey]
        [] unique = 0 /\ ordered # 0 -> [index |-> ordered, queryType |-> IndexScan]
        [] OTHER -> [index |-> 0, queryType |-> TableScan]

\* getKeys: a key query is a comparison of one column (see EqualMask), whose
\* argument is the key.
GetKeys(index, predicate, params) ==
  [i \in DOMAIN index.columns |->
     IF BitIsSet(EqualMask(predicate), index.columns[i]) THEN ValueOf(predicate.args[1], params)
     ELSE Null]
==============================================================================
