--------------------------- MODULE MCObjectStore ---------------------------
(***************************************************************************)
(* A small instance of ObjectStore: a table with a key, a column a, a      *)
(* column b that is never null, and a column s, which holds text or JSON   *)
(* and may be the container of sparse fields.                              *)
(***************************************************************************)
EXTENDS ObjectStore

CONSTANTS v, s1, s2

T(columns, sparse, json) ==
  [columns |-> columns, key |-> "id", autoIncrement |-> "id",
   sparse |-> sparse, json |-> json, notNull |-> {"b"}]
Counted == T(<<"id", "b">>, None, {})
MCTable == {T(<<"id", "a", "b", "s">>, None, {}), T(<<"id", "a", "b", "s">>, "s", {"s"}), Counted}

F(name, column, toMany, converter, shared) ==
  [name |-> name, column |-> column, toMany |-> toMany, converter |-> converter,
   shared |-> shared, persistent |-> TRUE]
Fields == <<
  DefaultField("id"),
  F("x", "a", <<>>, TRUE, FALSE),
  F("x", None, <<"b", "a">>, FALSE, FALSE), F("y", None, <<"a", "s">>, TRUE, FALSE),
  F("x", "s", <<>>, FALSE, TRUE), F("b", "s", <<>>, TRUE, TRUE),
  F("y", "s", <<>>, FALSE, FALSE), F("z", None, <<>>, FALSE, FALSE),
  [F("y", None, <<>>, FALSE, FALSE) EXCEPT !.persistent = FALSE] >>

\* Calls are made in the order of this list, after those for converters and the
\* sparse container; fields are excluded only if there is such a container.
MCFieldChoices(t, m) ==
  IF t = Counted THEN {}
  ELSE {Fields[i] : i \in {k \in DOMAIN Fields : \A f \in ToSet(m.fields) : f \in ToSet(SubSeq(Fields, 1, k))}}
Bare(t, m) == t # Counted /\ ToSet(m.fields) \subseteq {DefaultField("id")}
MCSparseChoices(t, m) == IF Bare(t, m) THEN {"s"} ELSE {}
MCConverterChoices(t, m) == IF Bare(t, m) THEN {"a", "s"} \ m.converters ELSE {}
MCExcludeChoices(t, m) == IF t # Counted /\ SparseColumn(t, m) # None THEN {<<"x">>, <<"y", "x">>} ELSE {}

MCNames == {"a", "b", "s", "x", "y"}

MCAllLists == {<<[b |-> Null], <<>>>>, <<<<>>, <<>>>>}

\* An object gives values to at most two fields, one of them a or x, or null to
\* one; the other may be y, which a mapping need not keep; a field with many columns has a value for each.
Given ==
  {f :> Null : f \in MCNames} \cup {<<>>} \cup
  UNION {[{f, g} -> {v}] : f \in MCNames, g \in {"a", "x"}}
PartialFields(sh) == {f \in DOMAIN sh.initial : sh.initial[f] \notin {Null, Dflt}}
MCObject(sh) ==
  LET given == {o \in Given : DOMAIN o \subseteq (sh.fields \ {"id"}) \cup {"y"}}
      Fit(o) == [f \in DOMAIN o |-> IF f \in PartialFields(sh) THEN [c \in DOMAIN sh.initial[f] |-> v] ELSE o[f]]
  IN  IF PartialFields(sh) = {} THEN given ELSE {Fit(o) : o \in given}

\* Lists of objects without keys are persisted in the table that has only a key
\* and b; one of them has an object that is not taken.
MCLists(t) == IF t = Counted THEN MCAllLists ELSE {}
=============================================================================
