----------------------------- MODULE IndexBounds -----------------------------
(***************************************************************************)
(* The interval algebra of Adapter/common/IndexBounds.js: from the         *)
(* predicate of a query and its parameters to the ranges of an ordered     *)
(* index that an index scan must read.                                     *)
(*                                                                         *)
(* A value is an integer; NegInf, Null and PosInf stand for -Infinity,     *)
(* null and Infinity.  An endpoint carries the IndexValue it bounds (the   *)
(* sequence of its parts; a plain value is a value of one part) and lies   *)
(* at the low or the high end of a segment.  isLow = null of the code      *)
(* behaves as FALSE in every comparison.  A number line is the sequence of *)
(* its transition points; a segment is a line of two points.               *)
(*                                                                         *)
(* NOT is taken over a single comparison: over a group the code            *)
(* complements the shared endpoints of its children in place, which is not *)
(* modelled.                                                               *)
(***************************************************************************)
EXTENDS Predicates

NegInf == -2
PosInf == 99

-----------------------------------------------------------------------------
(* Values and endpoints.                                                   *)

\* -Infinity is the lowest and Infinity the highest, also compared with
\* itself; nulls sort low.
CompareValues(a, b) ==
  CASE a = NegInf \/ b = PosInf -> -1
    [] a = PosInf \/ b = NegInf -> 1
    [] OTHER -> IF a = b THEN 0 ELSE IF a < b THEN -1 ELSE 1

\* Two IndexValues are compared over the parts that both have.
CompareKeys(k, l) ==
  LET n == IF Len(k) < Len(l) THEN Len(k) ELSE Len(l)
      differ == {i \in 1..n : CompareValues(k[i], l[i]) # 0}
  IN  IF differ = {} THEN 0
      ELSE LET i == CHOOSE i \in differ : \A j \in differ : i <= j
           IN  CompareValues(k[i], l[i])

Point(v, inclusive) == [key |-> <<v>>, inclusive |-> inclusive, isLow |-> FALSE]
IsFinite(p) == Len(p.key) > 0 /\ Last(p.key) \notin {NegInf, Null, PosInf}
LowEnd(p) == [p EXCEPT !.isLow = TRUE]
HighEnd(p) == [p EXCEPT !.isLow = FALSE]

ComparePoints(p, q) ==
  LET cmp == CompareKeys(p.key, q.key) IN
  CASE cmp # 0 -> cmp
    [] cmp = 0 /\ p.isLow = q.isLow /\ p.inclusive # q.inclusive ->
         IF p.inclusive = p.isLow THEN -1 ELSE 1
    [] OTHER -> IF p.isLow = (p.inclusive /\ q.inclusive) THEN -1 ELSE 1

\* Mutant: the complement of a bound keeps its inclusiveness.
FlipSideOnly(p) == [p EXCEPT !.isLow = ~@]

\* Endpoint.complement: only a finite point changes sides.
Flip(p) == [p EXCEPT !.inclusive = IF IsFinite(p) THEN ~@ ELSE @, !.isLow = ~@]

-----------------------------------------------------------------------------
(* Segments and number lines.                                              *)

SegmentOf(p, q) ==
  IF ComparePoints(p, q) = -1 THEN <<LowEnd(p), HighEnd(q)>> ELSE <<LowEnd(q), HighEnd(p)>>

Unbounded == SegmentOf(LowEnd(Point(NegInf, TRUE)), HighEnd(Point(PosInf, TRUE)))

\* The iterator of a line: its segments, from P1 to P2, P3 to P4, ...
SegmentsOf(line) == [n \in 1..(Len(line) \div 2) |-> SegmentOf(line[2 * n - 1], line[2 * n])]

\* The bounds of a line that is not empty are shifted off when infinite,
\* else a new infinite bound is added.
Complement(line) ==
  LET flipped == [i \in DOMAIN line |-> Flip(line[i])]
      below == IF IsFinite(Head(flipped)) THEN <<LowEnd(Point(NegInf, TRUE))>> \o flipped
               ELSE Tail(flipped)
  IN  IF below = <<>> THEN <<>>
      ELSE IF IsFinite(Last(below)) THEN Append(below, HighEnd(Point(PosInf, TRUE)))
           ELSE Front(below)

NonNull(line) == [line EXCEPT ![1] = LowEnd(Point(Null, FALSE))]

RECURSIVE MergePoints(_, _)
MergePoints(l, m) ==
  CASE l = <<>> -> m
    [] m = <<>> -> l
    [] OTHER -> IF ComparePoints(Head(l), Head(m)) < 1
                THEN <<Head(l)>> \o MergePoints(Tail(l), m)
                ELSE <<Head(m)>> \o MergePoints(l, Tail(m))

\* NumberLineStack: the last line first, then the others merged into it.
RECURSIVE Stack(_)
Stack(lines) == IF Len(lines) = 1 THEN lines[1] ELSE MergePoints(Stack(Tail(lines)), Head(lines))

\* The points at which the depth of nesting crosses the target.
Depth(points, n) ==
  LET low == {i \in 1..n : points[i].isLow} IN 2 * Cardinality(low) - n
Sweep(points, target) ==
  LET Crosses(i) == Depth(points, IF points[i].isLow THEN i ELSE i - 1) = target
      crossings == SelectSeq([i \in DOMAIN points |-> i], Crosses)
  IN  [n \in DOMAIN crossings |-> points[crossings[n]]]

Intersection(lines) == Sweep(Stack(lines), Len(lines))
Union(lines) == Sweep(Stack(lines), 1)
InsertSegment(line, segment) == Union(<<line, segment>>)

-----------------------------------------------------------------------------
(* ColumnBoundVisitor: the bound that each node sets on each column.       *)

\* createSegmentForComparator and the segments of BETWEEN and IS [NOT] NULL.
SegmentFor(op, v) ==
  LET ends == CASE op = "le" -> <<Point(Null, FALSE), Point(v[1], TRUE)>>
                [] op = "lt" -> <<Point(Null, FALSE), Point(v[1], FALSE)>>
                [] op = "ge" -> <<Point(v[1], TRUE), Point(PosInf, TRUE)>>
                [] op = "gt" -> <<Point(v[1], FALSE), Point(PosInf, TRUE)>>
                [] op \in {"eq", "ne"} -> <<Point(v[1], TRUE), Point(v[1], TRUE)>>
                [] op = "between" -> <<Point(v[1], TRUE), Point(v[2], TRUE)>>
                [] op = "isNull" -> <<Point(Null, TRUE), Point(Null, TRUE)>>
                [] op = "notNull" -> <<Point(Null, FALSE), Point(PosInf, TRUE)>>
      segment == SegmentOf(ends[1], ends[2])
  IN  IF op = "ne" THEN NonNull(Complement(segment)) ELSE segment

ColumnOr(bounds, c) == IF c \in DOMAIN bounds THEN bounds[c] ELSE Unbounded

RECURSIVE ColumnBounds(_, _)
ColumnBounds(node, params) ==
  IF node.op \in Leaves THEN [c \in {node.col} |-> SegmentFor(node.op, ValuesOf(node, params))]
  ELSE
    LET kids == [i \in DOMAIN node.kids |-> ColumnBounds(node.kids[i], params)]
        Lines(c) == [i \in DOMAIN kids |-> ColumnOr(kids[i], c)]
    IN  [c \in UsedColumns(node) |->
           CASE node.op = "and" -> Intersection(Lines(c))
             [] node.op = "or" -> Union(Lines(c))
             [] node.op = "not" -> Complement(kids[1][c])]

-----------------------------------------------------------------------------
(* IndexBoundVisitor: the ranges of a composite index.                     *)

PushPart(p, q) == [p EXCEPT !.key = Append(@, Last(q.key)), !.inclusive = q.inclusive]

\* Consolidator.consolidate: every segment of the first column extends a copy
\* of the partial bound; an end goes on to the next column while it is
\* inclusive and finite.  doLow and doHigh are variables of the whole loop: an
\* end stopped by one segment stays closed for the segments after it.
RECURSIVE Consolidate(_, _, _, _)
Consolidate(bounds, columns, partial, s) ==
  LET Extend(t, segment) ==
        LET low == IF t.doLow THEN PushPart(partial[1], segment[1]) ELSE partial[1]
            high == IF t.doHigh THEN PushPart(partial[2], segment[2]) ELSE partial[2]
            next == [line |-> t.line,
                     doLow |-> t.doLow /\ segment[1].inclusive /\ IsFinite(segment[1]),
                     doHigh |-> t.doHigh /\ segment[2].inclusive /\ IsFinite(segment[2])]
            goesOn == /\ Len(columns) > 1
                      /\ columns[2] \in DOMAIN bounds
                      /\ next.doLow \/ next.doHigh
        IN  [next EXCEPT !.line =
               IF goesOn
               THEN Consolidate(bounds, Tail(columns), SegmentOf(low, high), next).line
               ELSE InsertSegment(@, <<low, high>>)]
  IN  FoldLeft(Extend, s, SegmentsOf(bounds[columns[1]]))

InitialBounds ==
  LET empty == [key |-> <<>>, inclusive |-> TRUE, isLow |-> FALSE] IN SegmentOf(empty, empty)

LineOr(range, line) == IF range # {} THEN CHOOSE l \in range : TRUE ELSE line

\* The indexRange of a node, as a set of at most one line.  That of an AND is
\* computed once: a later execution of the query finds it in the node, so that
\* it stands for the parameters of the first execution.  That of an OR is
\* computed again, from the ranges of its children.
RECURSIVE IndexRange(_, _, _, _)
IndexRange(node, columns, first, params) ==
  LET RangeOr(kid) == LineOr(IndexRange(kid, columns, first, params),
                             ColumnOr(ColumnBounds(kid, params), columns[1]))
  IN  CASE node.op = "and" ->
             {Consolidate(ColumnBounds(node, first), columns, InitialBounds,
                          [line |-> <<>>, doLow |-> TRUE, doHigh |-> TRUE]).line}
        [] node.op = "or" -> {Union([i \in DOMAIN node.kids |-> RangeOr(node.kids[i])])}
        [] OTHER -> {}

\* getIndexBounds: the segments of the range of the top node.
GetIndexBounds(node, columns, first, params) ==
  LET range == IF Len(columns) > 1 THEN IndexRange(node, columns, first, params) ELSE {}
  IN  SegmentsOf(LineOr(range, ColumnOr(ColumnBounds(node, params), columns[1])))
=============================================================================
