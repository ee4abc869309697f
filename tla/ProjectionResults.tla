------------------------- MODULE ProjectionResults -------------------------
(***************************************************************************)
(* How jones-mysql reads a graph of objects with one statement             *)
(* (initializeProjection and ReadProjectionOperation of                    *)
(* jones-mysql/impl/MySQLConnection.js).  The statement joins the tables   *)
(* of all sectors of a projection; its rows are taken apart again.         *)
(*                                                                         *)
(* A sector is one projection of the tree: table, key and nonKey (its      *)
(* fields), parent (the position of its parent sector), name and toMany    *)
(* (of the field of the parent), this and other (the columns joined), and  *)
(* through (None, or the join table in between, with its own columns).     *)
(* A database gives to each table the set of its rows.                     *)
(***************************************************************************)
EXTENDS Integers, Sequences, SequencesExt, FiniteSets, TLC

CONSTANTS None, Null, Undefined

-----------------------------------------------------------------------------
(* The statement: SELECT the keys and the other fields of each sector,     *)
(* FROM the outer join of the tables, ORDER BY the keys of the root and of *)
(* the sectors that may have many objects.                                 *)

Fields(s) == s.key \o s.nonKey
Offset(sectors, i) == FoldLeft(LAMBDA n, s : n + Len(Fields(s)), 0, SubSeq(sectors, 1, i - 1))

\* The rows that LEFT OUTER JOIN finds for a row of the table before, if any:
\* null is equal to nothing.
Matching(rows, this, row, other) ==
  IF row = None THEN {}
  ELSE {r \in rows : \A j \in DOMAIN this : row[other[j]] # Null /\ r[this[j]] = row[other[j]]}
OuterJoin(rows, this, row, other) ==
  LET found == Matching(rows, this, row, other) IN IF found = {} THEN {None} ELSE found

\* The rows of sector i for a row of its parent.
SectorRows(db, s, parent) ==
  IF s.through = None THEN OuterJoin(db[s.table], s.this, parent, s.other)
  ELSE UNION {OuterJoin(db[s.table], s.this, r, s.other) :
                r \in OuterJoin(db[s.through.table], s.through.this, parent, s.through.other)}

\* The join from the root on: one row, or None, for each sector.  A key reads
\* one root, None reads all.
Joined(db, sectors, key) ==
  LET root == sectors[1]
      roots == {row \in db[root.table] : key = None \/ \A j \in DOMAIN key : row[root.key[j]] = key[j]}
      Extend(joined, s) == {Append(joined, row) : row \in SectorRows(db, s, joined[s.parent])}
  IN  FoldLeft(LAMBDA all, s : UNION {Extend(joined, s) : joined \in all}, {<<row>> : row \in roots}, Tail(sectors))

\* Rows in the order of some of their columns, nulls first: columns gives those of each.
Precedes(a, b) ==
  LET Less(x, y) == x # y /\ (x = Null \/ (y # Null /\ x < y))
  IN  \E i \in DOMAIN a : Less(a[i], b[i]) /\ \A j \in 1..i - 1 : a[j] = b[j]
SortedBy(columns) == SortSeq(SetToSeq(DOMAIN columns), LAMBDA a, b : Precedes(columns[a], columns[b]))

Cells(row, fields) == [j \in DOMAIN fields |-> IF row = None THEN Null ELSE row[fields[j]]]

SelectedRows(db, sectors, key) ==
  LET Selected(joined) == FlattenSeq([i \in DOMAIN sectors |-> Cells(joined[i], Fields(sectors[i]))])
      Order(joined) ==
        FlattenSeq([i \in DOMAIN sectors |->
          IF i = 1 \/ sectors[i].toMany THEN Cells(joined[i], sectors[i].key) ELSE <<>>])
      sorted == SortedBy([joined \in Joined(db, sectors, key) |-> Order(joined)])
  IN  [n \in DOMAIN sorted |-> Selected(sorted[n])]

-----------------------------------------------------------------------------
(* The objects.  While they are put together they refer to each other: a   *)
(* heap holds them, and a reference is a position in it.                   *)

RelatedOf(heap, ref, name) ==
  IF name \in DOMAIN heap[ref].related THEN heap[ref].related[name] ELSE Undefined
Relate(heap, ref, name, value) == [heap EXCEPT ![ref].related = (name :> value) @@ @]

KeyInRow(sectors, row, i) ==
  SubSeq(row, Offset(sectors, i) + 1, Offset(sectors, i) + Len(sectors[i].key))
IsRowSectorKeyNull(sectors, row, i) == \A j \in DOMAIN sectors[i].key : KeyInRow(sectors, row, i)[j] = Null
IsRowSectorKeyEqual(sectors, row, i, heap, tuple) ==
  tuple # None /\ KeyInRow(sectors, row, i) = Cells(heap[tuple].fields, sectors[i].key)

NewResultObjectFromRow(sectors, row, i) ==
  LET fields == Fields(sectors[i])
      Position(f) == CHOOSE j \in DOMAIN fields : fields[j] = f
  IN  [fields |-> [f \in ToSet(fields) |-> row[Offset(sectors, i) + Position(f)]], related |-> <<>>]

\* resetTuples: the objects of the sectors below belong to another object.
RECURSIVE Below(_, _)
Below(sectors, i) ==
  LET children == {c \in DOMAIN sectors : c > 1 /\ sectors[c].parent = i}
  IN  children \cup UNION {Below(sectors, c) : c \in children}
\* Mutant: the objects below stay those of the object before.
SetOneTuple(sectors, tuples, i, tuple) == [tuples EXCEPT ![i] = tuple]

SetTuple(sectors, tuples, i, tuple) ==
  [j \in DOMAIN tuples |-> IF j = i THEN tuple ELSE IF j \in Below(sectors, i) THEN None ELSE tuples[j]]

\* The object that the parent has for this row already: one of many, or the one.
FindResultTupleInParent(sectors, row, i, heap, parent) ==
  LET candidates == RelatedOf(heap, parent, sectors[i].name)
      same == {c \in ToSet(candidates) : IsRowSectorKeyEqual(sectors, row, i, heap, c)}
  IN  CASE candidates \in {Undefined, Null} -> None
        [] OTHER -> IF ~sectors[i].toMany THEN candidates
                    ELSE IF same = {} THEN None ELSE CHOOSE c \in same : \A d \in same : c <= d

\* onResult: a row is taken apart from the root down.  state has the heap, the
\* current object of each sector, and the roots.
OnSector(sectors, row, state, i) ==
  LET s == sectors[i]
      heap == state.heap
      parent == state.tuples[s.parent]
      found == IF i = 1 THEN None ELSE FindResultTupleInParent(sectors, row, i, heap, parent)
      new == Len(heap) + 1
      added == Append(heap, NewResultObjectFromRow(sectors, row, i))
      old == RelatedOf(heap, parent, s.name)
      With(h, tuple) == [state EXCEPT !.heap = h, !.tuples = SetTuple(sectors, @, i, tuple)]
  IN  CASE i > 1 /\ IsRowSectorKeyNull(sectors, row, i) ->
             With(IF parent = None THEN heap ELSE Relate(heap, parent, s.name, IF s.toMany THEN <<>> ELSE Null), None)
        [] IsRowSectorKeyEqual(sectors, row, i, heap, state.tuples[i]) -> state
        [] i > 1 /\ found # None -> With(heap, found)
        [] i = 1 -> [With(added, new) EXCEPT !.roots = Append(@, new)]
        [] s.toMany -> With(Relate(added, parent, s.name, Append(IF old = Undefined THEN <<>> ELSE old, new)), new)
        [] OTHER -> With(Relate(added, parent, s.name, new), new)

\* The object of a sector with all objects below it.
RECURSIVE Unfold(_, _, _, _)
Unfold(sectors, i, heap, ref) ==
  LET children == {c \in DOMAIN sectors : c > 1 /\ sectors[c].parent = i}
      Child(name) == CHOOSE c \in children : sectors[c].name = name
      Value(c) ==
        LET value == RelatedOf(heap, ref, sectors[c].name)
        IN  IF value \in {Undefined, Null} THEN value
            ELSE IF sectors[c].toMany THEN [n \in DOMAIN value |-> Unfold(sectors, c, heap, value[n])]
            ELSE Unfold(sectors, c, heap, value)
  IN  [fields |-> heap[ref].fields,
       related |-> [name \in {sectors[c].name : c \in children} |-> Value(Child(name))]]

ReadProjection(db, sectors, key) ==
  LET start == [heap |-> <<>>, tuples |-> [i \in DOMAIN sectors |-> None], roots |-> <<>>]
      OnResult(state, row) ==
        FoldLeft(LAMBDA s, i : OnSector(sectors, row, s, i), state, [i \in DOMAIN sectors |-> i])
      end == FoldLeft(OnResult, start, SelectedRows(db, sectors, key))
  IN  [n \in DOMAIN end.roots |-> Unfold(sectors, 1, end.heap, end.roots[n])]
=============================================================================
