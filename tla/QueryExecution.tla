--------------------------- MODULE QueryExecution ---------------------------
(***************************************************************************)
(* Queries and reads by key of a session, over either adapter: where() and *)
(* execute() of Adapter/api/Query.js, executeQuery of UserContext.js, the  *)
(* scans of jones-ndb/impl/ndb/NdbOperation.js and the statements that     *)
(* jones-mysql/impl/MySQLConnection.js sends for them.                     *)
(*                                                                         *)
(* A query object keeps its predicate and the handler made for it, and is  *)
(* executed again and again with other parameters.  What must hold of      *)
(* every execution is that the user is given the rows that match.          *)
(***************************************************************************)
EXTENDS AccessPaths, ScanFilter

CONSTANTS
  Adapter,        \* "ndb", "mysql"
  Table,          \* the tables that the query may be on (see AccessPaths)
  Heap,           \* the rows of the table, in the order in which it is read
  EntriesBy(_),   \* the rows in the order of an index on these columns
  Query,          \* the predicates
  Params(_),      \* the parameters that the query is executed with
  Pages(_),       \* the order, skip and limit of an execution
  Keys,           \* the keys of find()
  BatchSizes,     \* how many rows NDB may send at once
  None,
  MaxExecutions   \* bound: executions of the query

VARIABLES
  adapter, table,
  predicates,   \* the predicate of the query, once where() was called
  handler,      \* its QueryHandler
  first,        \* the parameters of its first execution (see IndexRange)
  call,         \* the parameters and the page of the current call
  scan,         \* NDB: the rows to send, the results gathered, and whether an
                \* error has ended them early (history)
  phase, answer, executions

vars == <<adapter, table, predicates, handler, first, call, scan, phase, answer, executions>>

NoPage == [order |-> None, skip |-> None, limit |-> None]
NoScan == [ranges |-> <<>>, left |-> <<>>, results |-> <<>>, cut |-> FALSE]
NoCall == [params |-> None, page |-> NoPage]
Rows(rows) == [error |-> FALSE, rows |-> rows]
Error == [error |-> TRUE, rows |-> <<>>]

Init ==
  /\ adapter \in Adapter
  /\ table \in Table
  /\ predicates = {}
  /\ handler = QueryHandler(table, {})
  /\ first = None
  /\ call = NoCall
  /\ scan = NoScan
  /\ phase = "ready"
  /\ answer = None
  /\ executions = 0

Predicate == CHOOSE p \in predicates : TRUE
Index == table.indexes[handler.index]
Matching(row) == predicates = {} \/ Matches(Predicate, row, call.params)

-----------------------------------------------------------------------------
(* Where rows come from.                                                   *)

\* A table holds some of the rows of the heap.  A scan reads them in the order
\* of the index, or of the table.
Held(row) == row \in table.rows
TableRows == SelectSeq(Heap, Held)
Entries == IF handler.queryType = IndexScan THEN SelectSeq(EntriesBy(Index.columns), Held) ELSE TableRows

\* prepareScan: the ranges of an index scan (without any, it reads the whole
\* index), and the filter.
Bounds == IF handler.queryType # IndexScan THEN <<>>
          ELSE GetIndexBounds(Predicate, Index.columns, first, call.params)
Ranges ==
  LET bounds == Bounds
  IN  [i \in DOMAIN bounds |-> BoundSpec(bounds[i], Index.columns, table.nullable)]

Filters == {ScanFilterCode(p, call.params, table.space) : p \in predicates}

\* The rows that an NDB scan sends: range by range, or in the order of the
\* index over all ranges when SF_OrderBy was given.  Its filter is taken to
\* compare nulls as SQL does: no comparison holds of a null.
ScannedRows(ranges, filters) ==
  LET Passes(row) == \A f \in filters : Matches(f, row, <<>>)
      passing == SelectSeq(Entries, Passes)
      Within(i) == SelectSeq(passing, LAMBDA row : InRange(row, Index.columns, ranges[i]))
      all == IF ranges = <<>> THEN passing ELSE FlattenSeq([i \in DOMAIN ranges |-> Within(i)])
      Times(row) == Cardinality({i \in DOMAIN all : all[i] = row})
      sorted == FlattenSeq([n \in DOMAIN passing |-> [k \in 1..Times(passing[n]) |-> passing[n]]])
  IN  CASE call.page.order = None -> all
        [] call.page.order = "asc" -> sorted
        [] call.page.order = "desc" -> Reverse(sorted)

-----------------------------------------------------------------------------
(* The calls.                                                              *)

\* where() makes the handler of the query.
Where(p) ==
  /\ phase = "ready" /\ predicates = {} /\ executions = 0
  /\ predicates' = {p}
  /\ handler' = QueryHandler(table, {p})
  /\ UNCHANGED <<adapter, table, first, call, scan, phase, answer, executions>>

\* executeScanQuery refuses a limit or skip out of range, a skip without an
\* order and an order that is neither asc nor desc.
GoodPage(page) ==
  /\ page.limit # None => page.limit >= 0
  /\ page.skip # None => page.skip >= 0 /\ page.order # None
  /\ page.order \in {None, "asc", "desc"}

\* Bound: over NDB, an order only for an index scan.
OrderedOnlyByIndex(page) == adapter = "ndb" /\ page.order # None => handler.queryType = IndexScan

Execute(params, page) ==
  /\ phase = "ready" /\ executions < MaxExecutions
  /\ OrderedOnlyByIndex(page)
  /\ executions' = executions + 1
  /\ first' = IF first = None THEN params ELSE first
  /\ call' = [params |-> params, page |-> page]
  /\ scan' = NoScan
  /\ IF handler.queryType \in {IndexScan, TableScan} /\ ~GoodPage(page)
     THEN phase' = "answered" /\ answer' = Error
     ELSE phase' = "called" /\ answer' = None
  /\ UNCHANGED <<adapter, table, predicates, handler>>

\* A key query reads the row with the key.  Not found is an empty result.
ReadByKey ==
  /\ phase = "called" /\ handler.queryType \in {PrimaryKey, UniqueKey}
  /\ LET key == GetKeys(Index, Predicate, call.params)
         Has(row) == \A i \in DOMAIN key : row[Index.columns[i]] = key[i]
     IN  answer' = Rows(SelectSeq(TableRows, Has))
  /\ phase' = "answered"
  /\ UNCHANGED <<adapter, table, predicates, handler, first, call, scan, executions>>

\* MySQL: the statement of buildScanOperation, with the values of its
\* parameters.  The server reads the rows in an order of its own.
ReadingOrders == {TableRows, Reverse(TableRows)}

\* ORDER BY: by the first column of the index, whatever the others are.
ByFirstColumn(rows) ==
  LET c == Index.columns[1]
      values == SetToSortSeq({row[c] : row \in Range(rows)}, <)
  IN  FlattenSeq([i \in DOMAIN values |-> SelectSeq(rows, LAMBDA row : row[c] = values[i])])

\* An order is heeded for a query that has a predicate, which must then be an
\* index scan.
ScanByStatement ==
  /\ phase = "called" /\ adapter = "mysql" /\ handler.queryType \in {IndexScan, TableScan}
  /\ LET ordered == predicates # {} /\ call.page.order # None
         statement == Bind(SqlText(Predicate), SqlParameters(Predicate, call.params))
         Found(row) == predicates = {} \/ Matches(statement, row, <<>>)
         skip == IF call.page.skip = None THEN 0 ELSE call.page.skip
     IN  \E read \in ReadingOrders :
           LET found == SelectSeq(read, Found)
               sorted == CASE ~ordered -> found
                           [] ordered /\ call.page.order = "asc" -> ByFirstColumn(found)
                           [] ordered /\ call.page.order = "desc" -> Reverse(ByFirstColumn(found))
               limit == IF call.page.limit = None THEN Len(sorted) ELSE call.page.limit
               last == IF skip + limit < Len(sorted) THEN skip + limit ELSE Len(sorted)
           IN  answer' = IF ordered /\ handler.queryType # IndexScan THEN Error
                         ELSE Rows(SubSeq(sorted, skip + 1, last))
  /\ phase' = "answered"
  /\ UNCHANGED <<adapter, table, predicates, handler, first, call, scan, executions>>

\* NDB: prepareScan, then getScanResults asks for the first rows.
PrepareScan ==
  /\ phase = "called" /\ adapter = "ndb" /\ handler.queryType \in {IndexScan, TableScan}
  /\ LET ranges == Ranges IN
     scan' = [NoScan EXCEPT !.ranges = ranges, !.left = ScannedRows(ranges, Filters)]
  /\ phase' = "fetching"
  /\ UNCHANGED <<adapter, table, predicates, handler, first, call, answer, executions>>

Skip == IF call.page.skip # None THEN call.page.skip ELSE 0
MaxRows == IF call.page.limit # None THEN Skip + call.page.limit ELSE 100

\* gather, after fetchResults has received n rows: it takes rows up to the
\* limit; it fetches again when the cache is empty and the limit is not
\* reached; at the end it drops the rows to be skipped.  After the n rows NDB
\* says that its cache is empty, that the scan is finished, or that it failed.
\* An error of the fetch itself (n = 0) is answered as one; after a row the
\* rows so far are the answer, and it is a success.
Gather(n, says) ==
  /\ phase = "fetching"
  /\ n = Len(scan.left) \/ (n \in BatchSizes \cup {0} /\ n < Len(scan.left))
  /\ says = "finished" => n = Len(scan.left)
  /\ says = "empty" => n > 0
  /\ n = 0 /\ Len(scan.left) > 0 => says = "failed"
  /\ LET room == MaxRows - Len(scan.results)
         taken == IF n < room THEN n ELSE room
         results == scan.results \o SubSeq(scan.left, 1, taken)
     IN  IF taken = n /\ says = "empty" /\ Len(results) < MaxRows
         THEN /\ scan' = [scan EXCEPT !.left = SubSeq(@, n + 1, Len(@)), !.results = results]
              /\ UNCHANGED <<phase, answer>>
         ELSE /\ answer' = IF n = 0 /\ says = "failed" THEN Error
                           ELSE Rows(SubSeq(results, Skip + 1, Len(results)))
              /\ scan' = [NoScan EXCEPT !.cut = says = "failed" /\ Len(results) < MaxRows]
              /\ phase' = "answered"
  /\ UNCHANGED <<adapter, table, predicates, handler, first, call, executions>>

\* session.find: the row of the first unique index that the keys determine.
Find(keys) ==
  /\ phase = "ready" /\ executions = 0
  /\ executions' = MaxExecutions
  /\ call' = [params |-> keys, page |-> NoPage]
  /\ phase' = "found"
  /\ LET i == ChooseIndex(table, keys, TRUE, FALSE)
         Has(row) == \A c \in Range(table.indexes[i].columns) : row[c] = KeyColumn(keys, c)
     IN  answer' = IF i = 0 THEN Error ELSE Rows(SelectSeq(TableRows, Has))
  /\ UNCHANGED <<adapter, table, predicates, handler, first, scan>>

\* The user has the answer, and may execute the query again.
Answered ==
  /\ phase = "answered"
  /\ phase' = "ready"
  /\ answer' = None /\ call' = NoCall
  /\ UNCHANGED <<adapter, table, predicates, handler, first, scan, executions>>

Next ==
  \/ \E p \in Query : Where(p)
  \/ \E params \in Params(predicates), page \in Pages(predicates) : Execute(params, page)
  \/ ReadByKey
  \/ ScanByStatement
  \/ PrepareScan
  \/ \E n \in 0..Len(Heap), says \in {"empty", "finished", "failed"} : Gather(n, says)
  \/ \E keys \in Keys : Find(keys)
  \/ Answered

Spec == Init /\ [][Next]_vars

-----------------------------------------------------------------------------
(* Properties.                                                             *)

\* The ranges that the nodes of the predicate keep from the first execution
\* are used on a composite index only.
Fresh == first = call.params \/ handler.queryType # IndexScan \/ Len(Index.columns) = 1

\* The columns that some part of a predicate finds null.
RECURSIVE NullTests(_)
NullTests(node) ==
  IF node.op = "isNull" THEN {node.col}
  ELSE UNION {NullTests(node.kids[i]) : i \in DOMAIN node.kids}

\* Every column of a composite index is bounded by one segment, or by points;
\* and no column is found null that cannot be (its bound reads the whole index).
RegularBounds(bounds) ==
  \A c \in DOMAIN bounds \cap Range(Index.columns) :
    Len(bounds[c]) <= 2 \/ \A i \in DOMAIN bounds[c] : bounds[c][i].inclusive /\ IsFinite(bounds[c][i])
Regular ==
  /\ \A p \in predicates : NullTests(p) \subseteq table.nullable
  /\ handler.queryType = IndexScan /\ Len(Index.columns) > 1 => RegularBounds(ColumnBounds(Predicate, first))

\* An exclusive low end that is cut off at the null of a column that has none
\* becomes an exclusive end of the parts before it, and shuts out every row
\* that is equal to them: a = 1 AND b <= 5 finds nothing on an index (a, b).
Cut(end) == PartialSpec(end, Index.columns, table.nullable).key
Shuts(low, part) == Len(part) \in 1..(Len(low.key) - 1) /\ low.key[Len(part) + 1] = Null /\ ~low.inclusive
StartsWith(row, part) == \A k \in DOMAIN part : row[Index.columns[k]] = part[k]
ShutOutBy(low, part) == IF Shuts(low, part) THEN {row \in table.rows : StartsWith(row, part)} ELSE {}
ShutOut(bounds) == UNION {ShutOutBy(bounds[i][1], Cut(bounds[i][1])) : i \in DOMAIN bounds}

\* The matching rows that the page asks for, in the order of the index.
Remaining(shut) == SelectSeq(Entries, LAMBDA row : Matching(row) /\ row \notin shut)
Sorted(all) == IF call.page.order = "desc" THEN Reverse(all) ELSE all
Page(sorted) ==
  SubSeq(sorted, Skip + 1, IF call.page.limit # None /\ MaxRows < Len(sorted) THEN MaxRows ELSE Len(sorted))
Asked == Page(Sorted(Remaining(IF adapter = "ndb" THEN ShutOut(Bounds) ELSE {})))

\* MySQL sorts by the first column of the index, NDB by all.
InOrder(rows, asked) ==
  IF adapter = "ndb" THEN rows = asked
  ELSE \A i \in DOMAIN asked : rows[i][Index.columns[1]] = asked[i][Index.columns[1]]

\* The rows of an answer, for the rows that were asked for.
Exact(rows, asked, regular) ==
  /\ \A row \in Range(rows) : Matching(row)
  /\ call.page.skip = None /\ call.page.limit = None => Range(asked) \subseteq Range(rows)
  /\ regular => Len(rows) = Len(asked) /\ IsInjective(rows)
  /\ regular /\ call.page.order # None /\ handler.queryType = IndexScan => InOrder(rows, asked)

\* Of a scan that an error has cut off some rows are missing.
CutOff(rows, regular) ==
  /\ \A row \in Range(rows) : Matching(row)
  /\ regular => IsInjective(rows)

\* An execution is answered with the rows that match the predicate and no
\* other: none is lost to the filter, to the statement or to the ranges of the
\* index scan but those that a cut end shuts out (see ShutOut), and there are
\* as many as skip and limit ask for, in their order.  No row comes twice,
\* unless an exclusive bound of a column with several segments has opened the
\* ranges after it.  Of a scan that fails after its first row the rows so far
\* are answered, each of them once.
\* (Query.js, IndexBounds.js, NdbScanFilter.js, NdbOperation.js getScanResults,
\* MySQLConnection.js buildScanOperation.)
AnswerIsExact ==
  phase = "answered" /\ ~answer.error /\ Fresh =>
    IF scan.cut THEN CutOff(answer.rows, Regular) ELSE Exact(answer.rows, Asked, Regular)

\* find() reads through a unique index when the keys give a value to all of its
\* columns, and is refused otherwise, also when the columns lie in different
\* words of the masks.  (DBTableHandler.js chooseUniqueIndexForPredicate.)
FindUsesItsKeys ==
  phase = "found" =>
    LET keys == call.params
        given == IF keys.simple THEN {table.indexes[1].columns[1]}
                 ELSE {c \in DOMAIN keys.values : keys.values[c] # Null}
    IN  answer.error = ~\E i \in DOMAIN table.indexes :
          table.indexes[i].unique /\ Range(table.indexes[i].columns) \subseteq given
=============================================================================
