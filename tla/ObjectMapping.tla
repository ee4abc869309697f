--------------------------- MODULE ObjectMapping ---------------------------
(***************************************************************************)
(* How the fields of objects are laid out in the columns of a table:       *)
(* TableMapping (Adapter/api/TableMapping.js), the DBTableHandler that is  *)
(* made of a mapping and the metadata of a table, and the conversion of    *)
(* objects to rows and back (Adapter/common/DBTableHandler.js).            *)
(*                                                                         *)
(* An object is a function from the names of its own properties to values, *)
(* none of them Undefined.  A table is a record: columns (a sequence of    *)
(* names), key and autoIncrement (a column), sparse (the column that the   *)
(* table has for unmapped fields, or None), json (the columns whose type   *)
(* has a converter), notNull (the columns with a default value).           *)
(***************************************************************************)
EXTENDS Integers, Sequences, SequencesExt, FiniteSets, TLC

CONSTANTS Undefined, Null, Dflt, None

-----------------------------------------------------------------------------
(* TableMapping.                                                           *)

TableMapping(mapAll) ==
  [mapAllColumns |-> mapAll, fields |-> <<>>, excluded |-> {}, sparse |-> None,
   converters |-> {}, error |-> FALSE]

\* A field mapping has a column (None: named like the field) or, in toMany, a
\* list of columns.
FieldNames(m) == {m.fields[i].name : i \in DOMAIN m.fields}

MapField(m, f) ==
  IF f.name \in FieldNames(m) THEN [m EXCEPT !.error = TRUE]
  ELSE [m EXCEPT !.fields = Append(@, f),
                 !.excluded = IF f.persistent THEN @ ELSE @ \cup {f.name}]

FieldIsNotSparse(m, name) == [m EXCEPT !.excluded = @ \cup {name}]
ExcludeFields(m, names) == FoldLeft(FieldIsNotSparse, m, names)
MapSparseFields(m, column) == [m EXCEPT !.sparse = column]
RegisterColumnConverter(m, column) == [m EXCEPT !.converters = @ \cup {column}]

ColumnOf(f) == IF f.column = None THEN f.name ELSE f.column

-----------------------------------------------------------------------------
(* The DBTableHandler: its columns, in an order that all statements and    *)
(* records follow, and its copy of the mapping.                            *)

AddColumnName(t, names, c) ==
  IF c \in ToSet(t.columns) /\ c \notin ToSet(names) THEN Append(names, c) ELSE names

\* All columns of the table, or those that the mapping uses and its sparse container.
ColumnNames(t, m) ==
  LET Used(f) == IF ~f.persistent THEN <<>> ELSE IF f.toMany # <<>> THEN f.toMany ELSE <<ColumnOf(f)>>
      used == FlattenSeq([i \in DOMAIN m.fields |-> Used(m.fields[i])])
  IN  IF m.mapAllColumns THEN t.columns
      ELSE FoldLeft(LAMBDA names, c : AddColumnName(t, names, c), <<>>, Append(used, t.sparse))

DBT_Column(t, m, c) ==
  [name |-> c, kind |-> "1to1", isMapped |-> FALSE, isShared |-> FALSE,
   isFirst |-> FALSE, isLast |-> FALSE, fieldNames |-> <<>>, fieldConverters |-> <<>>,
   typeConverter |-> c \in m.converters \cup t.json]

WithField(col, f) ==
  [col EXCEPT !.fieldNames = Append(@, f.name), !.fieldConverters = Append(@, f.converter)]

\* Several fields may use a column when one of the first two says that it is shared.
AddFieldMapping(h, i, f) ==
  LET col == h.columns[i]
      shared == col.isShared \/ f.shared
      clash == col.fieldNames # <<>> /\ ~shared
  IN  [h EXCEPT !.columns[i] = [WithField(col, f) EXCEPT
                                  !.isShared = shared,
                                  !.kind = IF f.shared THEN "shared" ELSE @,
                                  !.isMapped = @ \/ ~clash],
                !.error = @ \/ clash]

\* One field to many columns, in the order of the handler's columns.
MapPartial(h, f) ==
  LET ids == SelectSeq([i \in DOMAIN h.columns |-> i],
                       LAMBDA i : h.columns[i].name \in ToSet(f.toMany))
      n(i) == CHOOSE k \in DOMAIN ids : ids[k] = i
  IN  [h EXCEPT !.columns = [i \in DOMAIN @ |->
                               IF i \notin ToSet(ids) THEN @[i]
                               ELSE [WithField(@[i], f) EXCEPT
                                       !.kind = "partial", !.isMapped = TRUE,
                                       !.isFirst = n(i) = 1, !.isLast = n(i) = Len(f.toMany)]],
                !.error = @ \/ Len(ids) # Len(f.toMany)]

\* The column for sparse fields is not known yet, so that a field whose column
\* does not exist is an error.
MapFieldToColumns(h, f) ==
  IF f.toMany # <<>> THEN MapPartial(h, f)
  ELSE LET ids == {i \in DOMAIN h.columns : h.columns[i].name = ColumnOf(f)}
       IN  IF ids = {} THEN [h EXCEPT !.error = TRUE]
           ELSE AddFieldMapping(h, CHOOSE i \in ids : TRUE, f)

AddField(h, f) ==
  IF f.name \in h.fields THEN [h EXCEPT !.error = TRUE]
  ELSE MapFieldToColumns([h EXCEPT !.fields = @ \cup {f.name}], f)

DefaultField(c) ==
  [name |-> c, column |-> c, toMany |-> <<>>, converter |-> FALSE, shared |-> FALSE, persistent |-> TRUE]

\* A column that no field uses becomes a field of its name.
MapDefault(h, i) ==
  LET c == h.columns[i].name
      resolved == MapField(h.mapping, DefaultField(c))
      f == resolved.fields[CHOOSE k \in DOMAIN resolved.fields : resolved.fields[k].name = c]
  IN  IF h.columns[i].isMapped THEN h
      ELSE IF c \in h.fields THEN [h EXCEPT !.columns[i].kind = "unmapped"]
      ELSE AddField([h EXCEPT !.mapping = resolved], f)

\* The container of sparse fields takes every field that is not excluded.
SetSparse(t, h, i) ==
  LET col == h.columns[i]
      asked == h.mapping.sparse = col.name
  IN  IF asked \/ (t.sparse = col.name /\ ~col.isMapped)
      THEN [h EXCEPT !.columns[i] = [col EXCEPT !.kind = "sparse", !.isMapped = TRUE,
                                                !.isShared = TRUE, !.typeConverter = TRUE],
                     !.mapping.sparse = col.name, !.sparse = col.name]
      ELSE h

\* Every field that lies in another column is excluded from the sparse ones.
ResolveField(h, f) ==
  LET c == IF ~f.persistent \/ f.toMany # <<>> \/ f.column # None THEN f.column
           ELSE IF \E i \in DOMAIN h.columns : h.columns[i].name = f.name THEN f.name
           ELSE h.sparse
  IN  IF c # h.sparse \/ h.sparse = None THEN [h EXCEPT !.mapping = FieldIsNotSparse(@, f.name)] ELSE h

DBTableHandler(t, m) ==
  LET names == ColumnNames(t, m)
      columns == [i \in DOMAIN names |-> DBT_Column(t, m, names[i])]
      ids == [i \in DOMAIN names |-> i]
      empty == [columns |-> columns, fields |-> {}, mapping |-> [m EXCEPT !.mapAllColumns = FALSE],
                sparse |-> None, error |-> FALSE]
      mapped == FoldLeft(AddField, empty, SelectSeq(m.fields, LAMBDA f : f.persistent))
      full == IF m.mapAllColumns THEN FoldLeft(MapDefault, mapped, ids) ELSE mapped
      sparse == FoldLeft(LAMBDA h, i : SetSparse(t, h, i), full, ids)
  IN  IF m.error THEN [empty EXCEPT !.error = TRUE]
      ELSE FoldLeft(ResolveField, sparse, sparse.mapping.fields)

\* The position of a column; hasColumnsFromTable asks it of the key.
ColumnId(h, c) == CHOOSE i \in DOMAIN h.columns : h.columns[i].name = c

-----------------------------------------------------------------------------
(* Converters.  They are like the JSONConverter: what they make of a value *)
(* is another value, null included, that they take back; undefined stays   *)
(* undefined, and a NULL that was never converted is read as null.         *)

ToDB(converts, v) == IF converts /\ v # Undefined THEN [text |-> v] ELSE v
FromDB(converts, w) == IF converts /\ w \notin {Null, Undefined} THEN w.text ELSE w

\* The converter of a field with many columns takes the object to another, with
\* a member for each column.  (Of a text, as the JSONConverter makes it, no part
\* is taken: all columns are undefined, and the field is not kept.)
WholeToDB(converts, v) == IF converts THEN [c \in DOMAIN v |-> [part |-> v[c]]] ELSE v
WholeFromDB(converts, w) == IF converts THEN [c \in DOMAIN w |-> IF w[c] = Null THEN Null ELSE w[c].part] ELSE w

\* A text has no undefined members.
Members(v) == [f \in {g \in DOMAIN v : v[g] # Undefined} |-> v[f]]

Get(obj, f) == IF f \in DOMAIN obj THEN obj[f] ELSE Undefined
Put(obj, f, v) ==
  IF v = Undefined THEN [g \in DOMAIN obj \ {f} |-> obj[g]] ELSE (f :> v) @@ obj

-----------------------------------------------------------------------------
(* From an object to the columns of a row.                                 *)

ColumnValue_1to1(col, obj) ==
  ToDB(col.typeConverter, ToDB(col.fieldConverters[1], Get(obj, col.fieldNames[1])))

\* The whole is converted at the first column, and taken back at the last.
ColumnValue_Partial(col, obj) ==
  LET whole == Get(obj, col.fieldNames[1])
  IN  IF whole = Undefined THEN Undefined
      ELSE ToDB(col.typeConverter, WholeToDB(col.fieldConverters[1], whole)[col.name])

ColumnValue_Shared(col, obj) ==
  LET Converter(f) == col.fieldConverters[CHOOSE i \in DOMAIN col.fieldNames : col.fieldNames[i] = f]
  IN  ToDB(col.typeConverter, Members([f \in ToSet(col.fieldNames) |-> ToDB(Converter(f), Get(obj, f))]))

ColumnValue_Sparse(h, col, obj) ==
  ToDB(col.typeConverter, Members([f \in DOMAIN obj \ h.mapping.excluded |-> obj[f]]))

GetColumn(h, obj, i) ==
  LET col == h.columns[i] IN
  CASE col.kind = "1to1" -> ColumnValue_1to1(col, obj)
    [] col.kind = "partial" -> ColumnValue_Partial(col, obj)
    [] col.kind = "shared" -> ColumnValue_Shared(col, obj)
    [] col.kind = "sparse" -> ColumnValue_Sparse(h, col, obj)
    [] col.kind = "unmapped" -> Undefined

GetColumns(h, obj) == [i \in DOMAIN h.columns |-> GetColumn(h, obj, i)]

-----------------------------------------------------------------------------
(* From a row to an object.                                                *)

SetFieldValues_1to1(col, obj, w) ==
  Put(obj, col.fieldNames[1], FromDB(col.fieldConverters[1], FromDB(col.typeConverter, w)))

\* The parts are gathered from the first column to the last, then converted.
SetFieldValues_Partial(col, obj, w) ==
  LET f == col.fieldNames[1]
      before == IF col.isFirst THEN <<>> ELSE obj[f]
      parts == (col.name :> FromDB(col.typeConverter, w)) @@ before
  IN  Put(obj, f, IF col.isLast THEN WholeFromDB(col.fieldConverters[1], parts) ELSE parts)

SetFieldValues_Shared(col, obj, w) ==
  LET content == FromDB(col.typeConverter, w) IN
  FoldLeft(LAMBDA o, i : Put(o, col.fieldNames[i],
                             FromDB(col.fieldConverters[i], Get(content, col.fieldNames[i]))),
           obj, [i \in DOMAIN col.fieldNames |-> i])

SetFieldValues_Sparse(col, obj, w) ==
  LET content == FromDB(col.typeConverter, w) IN IF content = Null THEN obj ELSE content @@ obj

SetColumn(h, obj, i, w) ==
  LET col == h.columns[i] IN
  CASE col.kind = "1to1" -> SetFieldValues_1to1(col, obj, w)
    [] col.kind = "partial" -> SetFieldValues_Partial(col, obj, w)
    [] col.kind = "shared" -> SetFieldValues_Shared(col, obj, w)
    [] col.kind = "sparse" -> SetFieldValues_Sparse(col, obj, w)
    [] col.kind = "unmapped" -> obj

\* newResultObject and setFields, buildResultRow: a new object from a row.
SetFields(h, obj, row) ==
  FoldLeft(LAMBDA o, i : SetColumn(h, o, i, row[h.columns[i].name]),
           obj, [i \in DOMAIN h.columns |-> i])
NewResultObject(h, row) == SetFields(h, <<>>, row)
=============================================================================
