-------------------------- MODULE MCQueryExecution --------------------------
(***************************************************************************)
(* Small instances of QueryExecution.  Of the 26 columns of the tables the *)
(* queries are on two: A, and B in the second word of the bit masks.       *)
(***************************************************************************)
EXTENDS QueryExecution, TLC

A == 0
B == 25

\* All rows over null, 0, 1 and 2, in the order of an index on A or on B.
Column == <<Null, 0, 1, 2>>
Row(a, b) == (A :> a) @@ (B :> b)
ByA == FlattenSeq([i \in 1..4 |-> [j \in 1..4 |-> Row(Column[i], Column[j])]])
ByB == FlattenSeq([i \in 1..4 |-> [j \in 1..4 |-> Row(Column[j], Column[i])]])
MCEntriesBy(columns) == IF columns[1] = A THEN ByA ELSE ByB

Hash(columns, primary) == [columns |-> columns, unique |-> TRUE, ordered |-> FALSE, primary |-> primary]
Ordered(columns) == [columns |-> columns, unique |-> FALSE, ordered |-> TRUE, primary |-> FALSE]
TableWith(indexes, nullable, rows) ==
  [ncol |-> 26, nullable |-> nullable, rows |-> rows, space |-> (A :> 4) @@ (B :> 8), indexes |-> indexes]
AllRows(nullable) == {row \in Range(ByA) : \A c \in {A, B} : row[c] = Null => c \in nullable}

\* A unique index on each column, and an ordered one; a composite index that
\* may hold nulls; one of the key of the table, which may not; two indexes.
MCTable == {
  TableWith(<<Hash(<<A>>, TRUE), Ordered(<<A>>), Hash(<<B>>, FALSE)>>, {B}, {Row(0, Null), Row(1, 1), Row(2, 0)}),
  TableWith(<<Ordered(<<A, B>>)>>, {A, B}, AllRows({A, B})),
  TableWith(<<Hash(<<A, B>>, TRUE), Ordered(<<A, B>>)>>, {}, AllRows({})),
  TableWith(<<Ordered(<<B, A>>), Ordered(<<A>>)>>, {A, B}, AllRows({A, B})) }

-----------------------------------------------------------------------------
(* Predicates: comparisons of both columns with parameters and literals,   *)
(* their negations, groups of two, and groups of two levels.               *)

P == QueryParameter("p")
Q == QueryParameter("q")

Arguments(op) ==
  CASE op \in {"isNull", "notNull"} -> {<<>>}
    [] op = "between" -> {<<P, Q>>, <<P, Literal(1)>>, <<Literal(0), Q>>, <<Literal(1), Literal(2)>>}
    [] OTHER -> {<<P>>, <<Literal(1)>>}
LeavesOver(ops) == UNION {{Leaf(op, c, args) : c \in {A, B}, args \in Arguments(op)} : op \in ops}

Members == {
  Leaf("eq", A, <<P>>), Leaf("ge", A, <<Literal(1)>>), Leaf("ne", A, <<P>>),
  Leaf("between", A, <<P, Q>>), Leaf("isNull", A, <<>>),
  Leaf("eq", B, <<Q>>), Leaf("gt", B, <<Literal(1)>>), Leaf("le", B, <<P>>),
  Leaf("isNull", B, <<>>) }
Few == {
  Leaf("eq", A, <<Q>>), Leaf("gt", A, <<P>>), Leaf("eq", B, <<P>>), Leaf("le", B, <<Literal(1)>>),
  Group("not", <<Leaf("eq", B, <<P>>)>>) }

Fewer == {Leaf("gt", A, <<P>>), Group("not", <<Leaf("eq", B, <<P>>)>>)}

MCQuery ==
  LeavesOver(Leaves)
    \cup {Group("not", <<x>>) : x \in LeavesOver(Comparators \cup {"between"})}
    \cup {Group(op, <<x, y>>) : op \in {"and", "or"}, x \in Members, y \in Members}
    \cup {Group("and", <<x, Group("or", <<y, z>>)>>) : x \in Few, y \in Fewer, z \in Fewer}
    \cup {Group("or", <<Leaf("eq", A, <<Literal(2)>>), Group("and", <<Leaf("lt", A, <<Q>>), x>>)>>) : x \in Few}

MCParams(predicates_) ==
  IF predicates_ = {} THEN {<<>>}
  ELSE {[p |-> 0, q |-> 2], [p |-> 1, q |-> 1]}

\* Pages of a query without predicate, and of a few others.
Paged == {Leaf("ge", A, <<P>>), Leaf("notNull", B, <<>>), Group("and", <<Leaf("eq", A, <<Q>>), Leaf("le", B, <<P>>)>>)}
MCPages(predicates_) ==
  IF predicates_ \subseteq Paged
  THEN [order : {None, "asc", "desc", "bad"}, skip : {None, -1, 1}, limit : {None, -1, 0, 2}]
  ELSE {NoPage}

MCKeys == {Simple(1)} \cup {Fields(f) : f \in UNION {[columns -> {Null, 1}] : columns \in SUBSET {A, B}}}
=============================================================================
