----------------------------- MODULE ScanFilter -----------------------------
(***************************************************************************)
(* What DBOperation.prepareScan hands to NDB: the scan filter of           *)
(* jones-ndb/impl/ndb/NdbScanFilter.js and the index bounds encoded by     *)
(* buildPartialSpec in NdbOperation.js.                                    *)
(*                                                                         *)
(* A buffer is a function from the offsets that were encoded to values;    *)
(* table.space[c] is the space of a value of column c.                     *)
(***************************************************************************)
EXTENDS IndexBounds

-----------------------------------------------------------------------------
(* BufferManagerVisitor: the terms of the predicate in the order of its    *)
(* visit, laid out in a buffer for literals and one for parameters.        *)

RECURSIVE Terms(_)
Terms(node) ==
  LET kids == [i \in DOMAIN node.kids |-> Terms(node.kids[i])]
  IN  [i \in DOMAIN node.args |-> [arg |-> node.args[i], col |-> node.col]] \o FlattenSeq(kids)

\* addTerm: a term follows those of its schema.
Offset(terms, n, space) ==
  LET Add(size, t) == IF t.arg.literal = terms[n].arg.literal THEN size + space[t.col] ELSE size
  IN  FoldLeft(Add, 0, SubSeq(terms, 1, n - 1))

\* BufferSchema.encode: the buffer of the literals, encoded once, and that of
\* the parameters, encoded for each execution.  A schema of size 0 has none.
Encode(terms, literal, params, space) ==
  LET mine == {n \in DOMAIN terms : terms[n].arg.literal = literal}
  IN  [o \in {Offset(terms, n, space) : n \in mine} |->
         LET n == CHOOSE n \in mine : Offset(terms, n, space) = o
         IN  ValueOf(terms[n].arg, params)]

-----------------------------------------------------------------------------
(* FilterBuildingVisitor: the filter, a tree of groups and of comparisons  *)
(* with the value found in a buffer at the offset of the term.  BETWEEN    *)
(* becomes a group of two comparisons, NOT a group of one member.          *)

\* n: how many terms come before those of this node; found: their values.
RECURSIVE Filter(_, _, _, _)
Filter(node, n, found, terms) ==
  LET Cmp(op, k) == Leaf(op, node.col, <<Literal(found[k])>>)
      before(i) == n + Len(FlattenSeq([j \in 1..(i - 1) |-> Terms(node.kids[j])]))
  IN  CASE node.op \in Comparators -> Cmp(node.op, n + 1)
        [] node.op = "between" -> Group("and", <<Cmp("ge", n + 1), Cmp("le", n + 2)>>)
        [] node.op \in {"isNull", "notNull"} -> node
        [] OTHER -> Group(node.op, [i \in DOMAIN node.kids |->
                                      Filter(node.kids[i], before(i), found, terms)])

\* getScanFilterCode.  A filter with no parameter is built once; its literals
\* do not depend on params, so that building it again is the same.
ScanFilterCode(node, params, space) ==
  LET terms == Terms(node)
      constBuffer == IF HasConstants(node) THEN Encode(terms, TRUE, params, space) ELSE <<>>
      paramBuffer == Encode(terms, FALSE, params, space)
      found == [n \in DOMAIN terms |->
                  IF terms[n].arg.literal THEN constBuffer[Offset(terms, n, space)]
                  ELSE paramBuffer[Offset(terms, n, space)]]
  IN  Filter(node, 0, found, terms)

-----------------------------------------------------------------------------
(* buildPartialSpec: the parts of a bound before the first infinite one, or *)
(* null of a column that is not nullable.  The bound stays exclusive when   *)
(* its last parts are cut off.                                              *)

PartialSpec(p, columns, nullable) ==
  LET stops == {i \in DOMAIN p.key : \/ p.key[i] \in {NegInf, PosInf}
                                     \/ p.key[i] = Null /\ columns[i] \notin nullable}
      n == IF stops = {} THEN Len(p.key) ELSE (CHOOSE i \in stops : \A j \in stops : i <= j) - 1
  IN  [key |-> SubSeq(p.key, 1, n), inclusive |-> p.inclusive]

BoundSpec(bound, columns, nullable) ==
  [low |-> PartialSpec(bound[1], columns, nullable),
   high |-> PartialSpec(bound[2], columns, nullable)]

\* NDB: the row lies between the ends, compared over the parts they have.
InRange(row, columns, spec) ==
  LET key == [i \in DOMAIN columns |-> row[columns[i]]]
      low == CompareKeys(key, spec.low.key)
      high == CompareKeys(key, spec.high.key)
  IN  /\ spec.low.key = <<>> \/ low = 1 \/ (low = 0 /\ spec.low.inclusive)
      /\ spec.high.key = <<>> \/ high = -1 \/ (high = 0 /\ spec.high.inclusive)
=============================================================================
