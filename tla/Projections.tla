---------------------------- MODULE Projections ----------------------------
(***************************************************************************)
(* Projections: graphs of classes that a user puts together (Projection.js *)
(* of database-jones/Adapter/api), that find() and createQuery() validate  *)
(* (validateProjection and createSector of UserContext.js), and that       *)
(* jones-mysql reads (ProjectionResults).                                  *)
(*                                                                         *)
(* Validation goes from the root of the graph down, projection by          *)
(* projection.  It waits for the table handlers that are not cached, and   *)
(* other calls of the user run in between; with a handler at hand it runs  *)
(* on.  When it has seen all, it makes the sectors of every projection of  *)
(* the graph.  A projection that changes has to be validated again, and so *)
(* have those that use it.                                                 *)
(***************************************************************************)
EXTENDS ProjectionResults

CONSTANTS
  Contexts,      \* the user contexts: calls that may be in progress
  Projection,    \* the projections
  ClassOf,       \* their classes
  Mapping,       \* [class -> [table, fields, key, relationships]]; a relationship has
                 \* target, toMany, manyTo, foreignKey, targetField and joinTable
  ForeignKeys,   \* [table -> sequence of [name, columns, target, targetColumns]]
  Databases,     \* [table -> set of rows]: what the tables may hold
  Prepared,      \* the relationships that the user has added at first
  NewFields,     \* <<projection, field>>: the fields that the user may add later
  NewRelated,    \* <<projection, relationship, child>>: and the relationships
  Misused,       \* the projections that may be given a bad field
  Roots,         \* the projections that are read
  MayFail,       \* the classes and join tables whose table may be missing
  MaxChanges,    \* bound: changes of projections after that
  MaxReads       \* bound: calls of find, createQuery and execute

VARIABLES
  db,
  proj,       \* the projections: [fields, relationships, usedBy, error, validated, id,
              \* parent, sectors], and built, the graph that sectors were made for
  sql,        \* their statements: [id, sectors]
  queries,    \* the projections that the user has queries on
  handlers,   \* the classes and join tables whose table handlers are cached
  calls,      \* the call that each context validates for
  answer,     \* the answer just given, if any
  changes, reads

vars == <<db, proj, sql, queries, handlers, calls, answer, changes, reads>>

Classes == DOMAIN Mapping
Relationship(p, name) == Mapping[ClassOf[p]].relationships[name]

\* What the user has asked for with a projection.
RECURSIVE Graph(_, _)
Graph(projections, p) ==
  LET rels == projections[p].relationships
      Child(name) == CHOOSE c \in Projection : \E i \in DOMAIN rels : rels[i] = <<name, c>>
  IN  [class |-> ClassOf[p], fields |-> ToSet(projections[p].fields),
       related |-> [name \in {rels[i][1] : i \in DOMAIN rels} |-> Graph(projections, Child(name))]]

NewProjection(relationships, usedBy) ==
  [fields |-> <<>>, relationships |-> relationships, usedBy |-> usedBy, error |-> FALSE,
   validated |-> FALSE, id |-> 0, parent |-> None, sectors |-> <<>>, built |-> None]

Init ==
  /\ db \in Databases
  /\ \E relationships \in Prepared :
       LET Users(c) == {p \in Projection : \E i \in DOMAIN relationships[p] : relationships[p][i][2] = c}
       IN  proj = [p \in Projection |-> NewProjection(relationships[p], SetToSeq(Users(p)))]
  /\ sql = [p \in Projection |-> None]
  /\ queries = {} /\ handlers = {}
  /\ calls = [c \in Contexts |-> None]
  /\ answer = None
  /\ changes = 0 /\ reads = 0

-----------------------------------------------------------------------------
(* Changes.                                                                *)

\* Mutant: the projections that use the changed one stay valid.
InvalidateOne(projections, queue) == [projections EXCEPT ![Head(queue)].validated = FALSE]

\* invalidateAll: the projection and those that use it, until one is in error.
RECURSIVE InvalidateAll(_, _)
InvalidateAll(projections, queue) ==
  IF queue = <<>> \/ projections[Head(queue)].error THEN projections
  ELSE InvalidateAll([projections EXCEPT ![Head(queue)].validated = FALSE],
                     Tail(queue) \o projections[Head(queue)].usedBy)

\* JavaScript runs on while a validation has its table handlers.
Runs(c) == calls[c] # None /\ calls[c].handler # "waiting"
AllWait == \A c \in Contexts : ~Runs(c)
InProgress(p) == \E c \in Contexts : calls[c] # None /\ p \in ToSet(calls[c].list)

Change(p) ==
  /\ AllWait /\ changes < MaxChanges
  /\ ~proj[p].error
  /\ changes' = changes + 1 /\ answer' = None
  /\ UNCHANGED <<db, sql, queries, handlers, calls, reads>>

\* The projections of a graph.
RECURSIVE Reachable(_, _)
Reachable(projections, p) ==
  LET rels == projections[p].relationships
  IN  {p} \cup UNION {Reachable(projections, rels[i][2]) : i \in DOMAIN rels}

\* Bounds: while validations are in progress a field may be added only if it is
\* mapped (it is not looked at again), and if no projection being validated that
\* uses it has a statement (which may not be made again, see Statement).
AddField(p, f) ==
  /\ Change(p)
  /\ f \in Mapping[ClassOf[p]].fields \/ \A q \in Projection : ~InProgress(q)
  /\ \A q \in Projection : InProgress(q) /\ p \in Reachable(proj, q) => sql[q] = None
  /\ f \notin ToSet(proj[p].fields)
  /\ proj' = [InvalidateAll(proj, <<p>>) EXCEPT ![p].fields = Append(@, f)]

\* A field name that is no string puts the projection into error for good.
AddBadField(p) ==
  /\ Change(p)
  /\ proj' = [InvalidateAll(proj, <<p>>) EXCEPT ![p].error = TRUE]

\* Bounds: a projection of the class that the relationship is mapped to (nobody
\* compares them), no cycles, and no validation in progress.
AddRelationship(p, name, child) ==
  /\ Change(p)
  /\ name \in DOMAIN Mapping[ClassOf[p]].relationships => Relationship(p, name).target = ClassOf[child]
  /\ p \notin Reachable(proj, child)
  /\ \A q \in Projection : ~InProgress(q)
  /\ LET rels == proj[p].relationships
         Same(r) == r[1] = name
         known == \E i \in DOMAIN rels : Same(rels[i])
     IN  proj' = [InvalidateAll(proj, <<p>>) EXCEPT
           ![p].relationships = IF known THEN [i \in DOMAIN @ |-> IF Same(@[i]) THEN <<name, child>> ELSE @[i]]
                                ELSE Append(@, <<name, child>>),
           ![child].usedBy = Append(@, p)]

-----------------------------------------------------------------------------
(* Sectors.                                                                *)

ForeignKey(table, name) == CHOOSE k \in ToSet(ForeignKeys[table]) : k.name = name
HasForeignKey(table, name) == \E k \in ToSet(ForeignKeys[table]) : k.name = name

\* The sector of a child, joined to that of its parent: through a join table
\* that either side names, with the last of its foreign keys to each side; or
\* by a foreign key of the parent's table, or one of the child's own.
NoJoin == [this |-> <<>>, other |-> <<>>, through |-> None, error |-> TRUE]
JoinTo(parent, name, child) ==
  LET r == Relationship(parent, name)
      back == IF r.targetField \in DOMAIN Mapping[ClassOf[child]].relationships
              THEN Relationship(child, r.targetField) ELSE [joinTable |-> None, foreignKey |-> None]
      here == Mapping[ClassOf[child]].table
      there == Mapping[ClassOf[parent]].table
      joinTable == IF r.joinTable # None THEN r.joinTable ELSE back.joinTable
      KeysTo(table) == SelectSeq(ForeignKeys[joinTable], LAMBDA k : k.target = table)
      ByColumns(this, other) == [this |-> this, other |-> other, through |-> None, error |-> FALSE]
  IN  CASE r.toMany /\ r.manyTo ->
             IF joinTable = None THEN NoJoin
             ELSE IF KeysTo(here) = <<>> \/ KeysTo(there) = <<>> THEN NoJoin
             ELSE LET k == Last(KeysTo(there)) l == Last(KeysTo(here))
                  IN  [this |-> l.targetColumns, other |-> l.columns, error |-> FALSE,
                       through |-> [table |-> joinTable, this |-> k.columns, other |-> k.targetColumns]]
        [] r.foreignKey # None ->
             LET k == ForeignKey(there, r.foreignKey) IN ByColumns(k.targetColumns, k.columns)
        [] back.foreignKey # None ->
             LET k == ForeignKey(here, back.foreignKey) IN ByColumns(k.columns, k.targetColumns)
        [] OTHER -> NoJoin

\* The fields of a sector: the primary key, and the other fields asked for.
SectorOf(p, parent, name, toMany, join) ==
  LET class == Mapping[ClassOf[p]]
  IN  [projection |-> p, table |-> class.table, key |-> class.key,
       nonKey |-> SelectSeq(proj[p].fields, LAMBDA f : f \notin ToSet(class.key)),
       parent |-> parent, name |-> name, toMany |-> toMany,
       this |-> join.this, other |-> join.other, through |-> join.through, error |-> join.error]

\* createSector: the projections of a graph from its root down, level by level.
RECURSIVE LevelOrder(_)
LevelOrder(queue) ==
  IF queue = <<>> THEN <<>>
  ELSE LET rels == proj[Head(queue)].relationships
       IN  <<Head(queue)>> \o LevelOrder(Tail(queue) \o [i \in DOMAIN rels |-> rels[i][2]])

Sectors(root) ==
  LET order == LevelOrder(<<root>>)
      ParentAt(i) == {j \in 1..i - 1 : order[j] = proj[order[i]].parent[1]}
      Child(i) ==
        LET p == order[i] parent == proj[p].parent[1] name == proj[p].parent[2]
        IN  IF ParentAt(i) = {} THEN SectorOf(p, 1, name, FALSE, NoJoin)
            ELSE SectorOf(p, CHOOSE j \in ParentAt(i) : TRUE, name,
                          Relationship(parent, name).toMany, JoinTo(parent, name, p))
  IN  [i \in DOMAIN order |->
        IF i = 1 THEN SectorOf(root, 1, None, TRUE, [NoJoin EXCEPT !.error = FALSE]) ELSE Child(i)]

-----------------------------------------------------------------------------
(* Reads.  The statement is made again when the projection was validated   *)
(* since (bound: fewer than 26 times, where id wraps).                     *)

Statement(projections, statements, p) ==
  IF statements[p] # None /\ statements[p].id = projections[p].id THEN statements[p]
  ELSE [id |-> projections[p].id, sectors |-> projections[p].sectors]

Answered(kind, roots) == [kind |-> kind, roots |-> roots, asked |-> None, key |-> None]
Refused == Answered("refused", <<>>)

Execute(projections, p, key, asked) ==
  LET statement == Statement(projections, sql, p) IN
  /\ sql' = [sql EXCEPT ![p] = statement]
  /\ IF \E i \in DOMAIN statement.sectors : statement.sectors[i].error
     THEN answer' = Refused
     ELSE answer' = [Answered("read", ReadProjection(db, statement.sectors, key)) EXCEPT !.asked = asked, !.key = key]

\* find(projection, key) reads when the projection is valid; createQuery, with
\* key None, gives the user a query to execute.
OnValidated(projections, p, key) ==
  IF key = None
  THEN queries' = queries \cup {p} /\ answer' = Answered("query", <<>>) /\ UNCHANGED sql
  ELSE Execute(projections, p, key, Graph(projections, p)) /\ UNCHANGED queries

\* A query reads all roots, as the projection was when it was last validated.
ExecuteQuery(p) ==
  /\ AllWait /\ reads < MaxReads
  /\ p \in queries
  /\ reads' = reads + 1
  /\ Execute(proj, p, None, proj[p].built)
  /\ UNCHANGED <<db, proj, queries, handlers, calls, changes>>

-----------------------------------------------------------------------------
(* Validation.                                                             *)

\* The table handler that a validation needs next, if any.
Needs(call) ==
  IF call.joins # <<>> THEN {Head(call.joins)}
  ELSE IF call.index > Len(call.list) THEN {}
  ELSE IF call.index > 1 /\ proj[call.list[call.index]].error THEN {}
  ELSE {ClassOf[call.list[call.index]]}
Continue(call) == [call EXCEPT !.handler = IF Needs(call) \subseteq handlers THEN "ready" ELSE "waiting"]

\* A call has a user context of its own.
FreeContexts == {c \in Contexts : calls[c] = None}

Read(c, p, key) ==
  /\ AllWait /\ reads < MaxReads
  /\ c \in FreeContexts /\ c = CHOOSE d \in FreeContexts : TRUE
  /\ reads' = reads + 1
  /\ IF proj[p].validated
     THEN OnValidated(proj, p, key) /\ UNCHANGED calls
     ELSE /\ calls' = [calls EXCEPT ![c] = Continue(
               [root |-> p, key |-> key, list |-> <<p>>, index |-> 1, errors |-> proj[p].error,
                seen |-> {}, joins |-> <<>>, handler |-> "ready"])]
          /\ answer' = None
          /\ UNCHANGED <<sql, queries>>
  /\ UNCHANGED <<db, proj, handlers, changes>>

\* getTableHandler has called back.
HandlerArrives(c, ok) ==
  /\ AllWait /\ calls[c] # None
  /\ ok \/ Needs(calls[c]) \subseteq MayFail
  /\ handlers' = IF ok THEN handlers \cup Needs(calls[c]) ELSE handlers
  /\ calls' = [calls EXCEPT ![c].handler = IF ok THEN "ready" ELSE "failed"]
  /\ answer' = None
  /\ UNCHANGED <<db, proj, sql, queries, changes, reads>>

\* validateProjectionOnTableHandler: the fields must be mapped, and to columns;
\* the foreign keys must exist; every projection related must be nobody else's,
\* and is claimed and looked at in its turn.  A class may come only once.
Visit(c) ==
  LET call == calls[c]
      p == call.list[call.index]
      class == Mapping[ClassOf[p]]
      mapped == DOMAIN class.relationships
      again == ClassOf[p] \in call.seen
      looks == call.handler = "ready" /\ ~again
      rels == proj[p].relationships
      Claimable(r) == r[1] \in mapped /\ proj[r[2]].parent \in {None} \cup ({p} \X mapped)
      claimed == IF looks THEN SelectSeq(rels, Claimable) ELSE <<>>
      tables == SelectSeq(SetToSeq({class.relationships[n].joinTable : n \in mapped}), LAMBDA t : t # None)
      bad ==
        \/ ~looks
        \/ ~ToSet(proj[p].fields) \subseteq class.fields
        \/ Len(claimed) < Len(rels)
        \/ \E n \in mapped : class.relationships[n].foreignKey # None
                             /\ ~HasForeignKey(class.table, class.relationships[n].foreignKey)
      NameOf(q) == claimed[SelectLastInSeq(claimed, LAMBDA r : r[2] = q)][1]
      children == {claimed[i][2] : i \in DOMAIN claimed}
  IN
  /\ Runs(c) /\ call.joins = <<>> /\ call.index <= Len(call.list)
  /\ call.index > 1 => ~proj[p].error
  /\ proj' = [q \in Projection |->
                IF q = p THEN [proj[q] EXCEPT !.id = @ + 1]
                ELSE IF q \in children THEN [proj[q] EXCEPT !.parent = <<p, NameOf(q)>>]
                ELSE proj[q]]
  /\ calls' = [calls EXCEPT ![c] = Continue(
                [call EXCEPT !.index = @ + 1, !.errors = @ \/ bad,
                             !.seen = IF call.handler = "ready" THEN @ \cup {ClassOf[p]} ELSE @,
                             !.list = @ \o [i \in DOMAIN claimed |-> claimed[i][2]],
                             !.joins = IF looks THEN tables ELSE <<>>])]
  /\ UNCHANGED <<db, sql, queries, handlers, answer, changes, reads>>

\* validateJoinTableOnTableHandler.
JoinTable(c) ==
  /\ Runs(c) /\ calls[c].joins # <<>>
  /\ calls' = [calls EXCEPT ![c] = Continue(
                [@ EXCEPT !.joins = Tail(@), !.errors = @ \/ calls[c].handler = "failed"])]
  /\ UNCHANGED <<db, proj, sql, queries, handlers, answer, changes, reads>>

\* continueValidation does not look at a projection in error.
SkipBroken(c) ==
  /\ Runs(c) /\ calls[c].joins = <<>>
  /\ calls[c].index \in 2..Len(calls[c].list)
  /\ proj[calls[c].list[calls[c].index]].error
  /\ calls' = [calls EXCEPT ![c] = Continue([@ EXCEPT !.index = @ + 1, !.errors = TRUE])]
  /\ UNCHANGED <<db, proj, sql, queries, handlers, answer, changes, reads>>

\* At the end: another call may have validated the projection meanwhile.  If
\* not, and without errors, all projections of the graph are given sectors, and
\* are valid unless a relationship has no join: that puts a projection in error.
WithSectors(root) ==
  [p \in Projection |->
    IF p \notin Reachable(proj, root) THEN proj[p]
    ELSE [proj[p] EXCEPT !.sectors = Sectors(p), !.built = Graph(proj, p),
            !.error = @ \/ \E q \in Reachable(proj, root) : \E i \in DOMAIN Sectors(q) :
                             Sectors(q)[i].projection = p /\ Sectors(q)[i].error]]
MarkValidated(projections, root) ==
  [p \in Projection |->
    IF p \in Reachable(projections, root) THEN [projections[p] EXCEPT !.validated = TRUE] ELSE projections[p]]

Finish(c) ==
  LET call == calls[c]
      made == WithSectors(call.root)
      broken == \E p \in Reachable(proj, call.root) : made[p].error
  IN
  /\ Runs(c) /\ call.joins = <<>> /\ call.index > Len(call.list)
  /\ calls' = [calls EXCEPT ![c] = None]
  /\ CASE proj[call.root].validated -> OnValidated(proj, call.root, call.key) /\ UNCHANGED proj
       [] ~proj[call.root].validated /\ call.errors -> answer' = Refused /\ UNCHANGED <<proj, sql, queries>>
       [] ~proj[call.root].validated /\ ~call.errors ->
            IF broken THEN proj' = made /\ answer' = Refused /\ UNCHANGED <<sql, queries>>
            ELSE LET valid == MarkValidated(made, call.root)
                 IN  proj' = valid /\ OnValidated(valid, call.root, call.key)
  /\ UNCHANGED <<db, handlers, changes, reads>>

-----------------------------------------------------------------------------
ReadKeys(p) == {[i \in DOMAIN Mapping[ClassOf[p]].key |-> 1]}

Next ==
  \/ \E new \in NewFields : AddField(new[1], new[2])
  \/ \E p \in Misused : AddBadField(p)
  \/ \E new \in NewRelated : AddRelationship(new[1], new[2], new[3])
  \/ \E p \in Projection : ExecuteQuery(p)
  \/ \E c \in Contexts, p \in Roots : \E key \in ReadKeys(p) \cup {None} : Read(c, p, key)
  \/ \E c \in Contexts, ok \in BOOLEAN : HandlerArrives(c, ok)
  \/ \E c \in Contexts : Visit(c) \/ JoinTable(c) \/ SkipBroken(c) \/ Finish(c)

Spec == Init /\ [][Next]_vars

-----------------------------------------------------------------------------
(* Properties.                                                             *)

\* The rows that a relationship relates to a row, by the foreign keys alone.
RelatedRows(class, name, row) ==
  LET r == Mapping[class].relationships[name]
      here == Mapping[class].table
      there == Mapping[r.target].table
      Refers(a, k, b) == \A j \in DOMAIN k.columns : a[k.columns[j]] # Null /\ a[k.columns[j]] = b[k.targetColumns[j]]
      ByKey(k) == {other \in db[there] : Refers(row, k, other)}
      ToKey(k) == {other \in db[there] : Refers(other, k, row)}
      back == Mapping[r.target].relationships[r.targetField]
      joinTable == IF r.joinTable # None THEN r.joinTable ELSE back.joinTable
      Joins(link, other) ==
        /\ \E k \in ToSet(ForeignKeys[joinTable]) : k.target = here /\ Refers(link, k, row)
        /\ \E k \in ToSet(ForeignKeys[joinTable]) : k.target = there /\ Refers(link, k, other)
  IN  IF r.toMany /\ r.manyTo THEN {other \in db[there] : \E link \in db[joinTable] : Joins(link, other)}
      ELSE IF r.foreignKey # None THEN ByKey(ForeignKey(here, r.foreignKey))
      ELSE ToKey(ForeignKey(there, back.foreignKey))

\* The object that a graph asks for, from a row of its root.
RECURSIVE Expected(_, _)
Expected(graph, row) ==
  LET class == Mapping[graph.class]
      Related(name) ==
        LET rows == RelatedRows(graph.class, name, row)
            sorted == SortedBy([r \in rows |-> Cells(r, Mapping[graph.related[name].class].key)])
        IN  IF class.relationships[name].toMany
            THEN [n \in DOMAIN sorted |-> Expected(graph.related[name], sorted[n])]
            ELSE IF rows = {} THEN Null ELSE Expected(graph.related[name], CHOOSE r \in rows : TRUE)
  IN  [fields |-> [f \in ToSet(class.key) \cup graph.fields |-> row[f]],
       related |-> [name \in DOMAIN graph.related |-> Related(name)]]

\* find() with a projection, and a query on one, give the user exactly the
\* objects of the graph that was asked for: every object of every relationship
\* once, in the order of its key, under the object that it belongs to, an empty
\* list or null where there is none; whatever other calls have validated and
\* whatever the user has changed since the statement was last made.
\* (MySQLConnection.js ReadProjectionOperation, UserContext.js createSector.)
AnswerIsTheGraph ==
  answer # None /\ answer.kind = "read" =>
    LET class == Mapping[answer.asked.class]
        rows == {row \in db[class.table] : answer.key = None \/ Cells(row, class.key) = answer.key}
        sorted == SortedBy([r \in rows |-> Cells(r, class.key)])
    IN  answer.roots = [n \in DOMAIN sorted |-> Expected(answer.asked, sorted[n])]

\* While a projection is valid its sectors are those of its graph as it is now,
\* and everything that it is made of is valid and was claimed for it, though
\* its parts are changed and validated for themselves and by other calls.  A
\* change does not get past a projection in error that uses the same part.
\* (Projection.js invalidateAll, UserContext.js validateProjection.)
ValidIsCurrent ==
  \A p \in Projection :
    /\ proj[p].validated
    /\ \A q \in Projection : proj[q].error => Reachable(proj, q) \cap Reachable(proj, p) = {}
    => /\ proj[p].built = Graph(proj, p)
       /\ \A q \in Reachable(proj, p) :
            /\ proj[q].validated
            /\ \A i \in DOMAIN proj[q].relationships :
                 proj[proj[q].relationships[i][2]].parent = <<q, proj[q].relationships[i][1]>>
=============================================================================
