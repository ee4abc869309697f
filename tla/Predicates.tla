----------------------------- MODULE Predicates -----------------------------
(***************************************************************************)
(* The predicates of Adapter/api/Query.js, the marks that the constructor  *)
(* of QueryHandler leaves on them, and their translation to SQL.           *)
(*                                                                         *)
(* A predicate is a tree of records [op, col, args, kids]: a comparison of *)
(* the column numbered col with its arguments, or a group of predicates.   *)
(* An argument is a literal [literal |-> TRUE, value |-> v] or a named     *)
(* parameter [literal |-> FALSE, name |-> n].                              *)
(***************************************************************************)
EXTENDS Integers, Sequences, FiniteSets, SequencesExt, BitMask

Null == -1

Comparators == {"eq", "ne", "lt", "le", "gt", "ge"}
Leaves == Comparators \cup {"between", "isNull", "notNull"}

Literal(v) == [literal |-> TRUE, value |-> v]
QueryParameter(n) == [literal |-> FALSE, name |-> n]
Leaf(op, col, args) == [op |-> op, col |-> col, args |-> args, kids |-> <<>>]
Group(op, kids) == [op |-> op, col |-> 0, args |-> <<>>, kids |-> kids]

ValueOf(arg, params) == IF arg.literal THEN arg.value ELSE params[arg.name]
ValuesOf(node, params) == [i \in DOMAIN node.args |-> ValueOf(node.args[i], params)]

-----------------------------------------------------------------------------
(* MaskMarkerVisitor and ConstMarkerVisitor.                               *)

RECURSIVE UsedMask(_)
UsedMask(node) ==
  IF node.op \in Leaves THEN SetBit(NewMask(Radix), node.col)
  ELSE LET kids == [i \in DOMAIN node.kids |-> UsedMask(node.kids[i])]
       IN  IF node.op = "not" THEN kids[1] ELSE FoldLeft(OrMasks, NewMask(Radix), kids)

\* The visitor reads its own operationCode, not that of the node: a group is
\* never marked with the columns that its members set equal.
EqualMask(node) ==
  IF node.op = "eq" THEN SetBit(NewMask(Radix), node.col) ELSE NewMask(Radix)

UsedColumns(node) == BitsOf(UsedMask(node))

\* node.constants of a group: some member compares with a literal.
RECURSIVE HasConstants(_)
HasConstants(node) ==
  IF node.op \in {"isNull", "notNull"} THEN TRUE
  ELSE \/ \E i \in DOMAIN node.args : node.args[i].literal
       \/ \E i \in DOMAIN node.kids : HasConstants(node.kids[i])

-----------------------------------------------------------------------------
(* SQLVisitor: a text with a question mark for every parameter, and the    *)
(* list of the formal parameters.  The parentheses around the members of a *)
(* group keep the shape of the tree, so the text is a tree as well.  (The  *)
(* nodes below the root share one sql object per kind: a group that is not *)
(* the first member of a group below the root garbles the text.  Such      *)
(* trees are left out.)                                                    *)

Placeholder == QueryParameter("?")

RECURSIVE SqlText(_)
SqlText(node) ==
  [node EXCEPT !.args = [i \in DOMAIN @ |-> IF @[i].literal THEN @[i] ELSE Placeholder],
               !.kids = [i \in DOMAIN @ |-> SqlText(@[i])]]

RECURSIVE FormalParameters(_)
FormalParameters(node) ==
  LET IsParameter(arg) == ~arg.literal
      kids == [i \in DOMAIN node.kids |-> FormalParameters(node.kids[i])]
  IN  SelectSeq(node.args, IsParameter) \o FlattenSeq(kids)

\* buildScanOperation: the values of the formal parameters, in their order.
SqlParameters(node, params) ==
  LET formal == FormalParameters(node) IN [i \in DOMAIN formal |-> params[formal[i].name]]

-----------------------------------------------------------------------------
(* What a server does with a predicate: the driver binds the k-th value to *)
(* the k-th question mark of the text, and the row is tested with the      *)
(* logic of SQL, in which a comparison with null is neither true (2) nor   *)
(* false (0).                                                              *)

RECURSIVE Questions(_)
Questions(text) ==
  LET asked == {i \in DOMAIN text.args : text.args[i] = Placeholder}
      kids == [i \in DOMAIN text.kids |-> Questions(text.kids[i])]
      Add(x, y) == x + y
  IN  FoldLeft(Add, Cardinality(asked), kids)

RECURSIVE Bind(_, _)
Bind(text, values) ==
  LET asked(n) == Cardinality({i \in 1..n : text.args[i] = Placeholder})
      RECURSIVE before(_)
      before(n) == IF n = 0 THEN asked(Len(text.args))
                   ELSE before(n - 1) + Questions(text.kids[n])
  IN  [text EXCEPT
         !.args = [i \in DOMAIN @ |-> IF @[i] = Placeholder THEN Literal(values[asked(i)]) ELSE @[i]],
         !.kids = [i \in DOMAIN @ |-> Bind(@[i], SubSeq(values, before(i - 1) + 1, Len(values)))]]

Compare(op, x, v) ==
  CASE op = "eq" -> x = v[1]
    [] op = "ne" -> x # v[1]
    [] op = "lt" -> x < v[1]
    [] op = "le" -> x <= v[1]
    [] op = "gt" -> x > v[1]
    [] op = "ge" -> x >= v[1]
    [] op = "between" -> v[1] <= x /\ x <= v[2]

RECURSIVE Truth(_, _, _)
Truth(node, row, params) ==
  LET kids == {Truth(node.kids[i], row, params) : i \in DOMAIN node.kids}
      x == row[node.col]
      Of(b) == IF b THEN 2 ELSE 0
  IN  CASE node.op = "and" -> CHOOSE t \in kids : \A u \in kids : t <= u
        [] node.op = "or" -> CHOOSE t \in kids : \A u \in kids : t >= u
        [] node.op = "not" -> 2 - (CHOOSE t \in kids : TRUE)
        [] node.op = "isNull" -> Of(x = Null)
        [] node.op = "notNull" -> Of(x # Null)
        [] OTHER -> IF x = Null THEN 1 ELSE Of(Compare(node.op, x, ValuesOf(node, params)))

Matches(node, row, params) == Truth(node, row, params) = 2
=============================================================================
