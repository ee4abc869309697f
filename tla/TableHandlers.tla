---------------------------- MODULE TableHandlers ----------------------------
(***************************************************************************)
(* getTableHandler of SessionFactory.js over the dictionary calls of the   *)
(* connection pool (DictionaryCall.js and getTableMetadata): calls for one *)
(* table, by its name, by a constructor that is mapped to it, or by a      *)
(* TableMapping; the caches of handlers and of metadata; the creation of a *)
(* table that does not exist; and the invalidation when a factory closes.  *)
(*                                                                         *)
(* The callers who wait for a read of the dictionary are told one by one,  *)
(* within one turn, and each may make new calls.  An action answers one.   *)
(***************************************************************************)
EXTENDS Integers, Sequences, FiniteSets

CONSTANTS
  Call,      \* the calls of getTableHandler, numbered in the order they are made
  Session,   \* sessions of the factory
  MaxReads,  \* bound on the reads of the dictionary
  Caches,    \* where a handler made by a call is cached: "none", "session" or "factory"
  Worlds,    \* the initial values of world
  None

Kinds == {"string", "ctor", "mapping"}

HandlerConstants ==
  /\ Call \subseteq Nat \ {0} /\ MaxReads \in Nat /\ None \notin Session
  /\ None \notin [meta : Nat, by : {"default", "user", "mapping", "ctor"}, of : Call]
  /\ None \notin [i : Nat, err : {None, "missing"}, meta : Nat]
  /\ None \notin Kinds \cup {"missing", "create", "invalid"}

VARIABLES
  world,   \* is there such a table; may it be created; which mappings do not fit the
           \* table (bad), and is the one of the class ill-formed (refused); is udebug at
           \* detail; the mapping of mapTable for this table
  cache,   \* what is cached where: see Init
  watch,   \* invalidate callbacks: a metadata object and what it clears
  list,    \* callbacks[key] of DictionaryCall: who waits for the read
  reading, \* native reads of the table in progress
  told,    \* the group callback that is being made, or None
  metas,   \* the metadata objects made, which are numbered
  closes,  \* how often a factory was closed
  call     \* the calls

vars == <<world, cache, watch, list, reading, told, metas, closes, call>>

\* A handler: the metadata and the mapping it was made by, and the call that made it.
Handler(d, m, by) == [meta |-> m, by |-> by, of |-> d]

Init ==
  /\ world \in Worlds
  /\ cache = [meta |-> 0, factory |-> None, session |-> [s \in Session |-> None], ctor |-> None,
              null |-> FALSE, mapping |-> IF world.mapped = "user" THEN "user" ELSE None]
  /\ watch = {} /\ list = <<>> /\ reading = 0 /\ told = None /\ metas = 0 /\ closes = 0
  /\ call = [d \in Call |-> [kind |-> None, session |-> None, in |-> "none", by |-> "default",
                             step |-> "new", at |-> 0, err |-> None, handler |-> None, answers |-> 0]]

-----------------------------------------------------------------------------
(* The handler for metadata m, for call c: what is cached, what is         *)
(* registered, and the answer.                                             *)

Answer(c, err, h) ==
  [c EXCEPT !.step = "done", !.err = err, !.handler = h, !.answers = @ + 1]

Valid(by) == by \notin world.bad

\* The cached handler for the name of the table; null if there is none.
Known(s) == IF cache.session[s] # None THEN cache.session[s] ELSE cache.factory

\* onExistingTableMetadata, the part about the name of the table.
ForTheName(d, c, m) ==
  LET fresh == c.kind = "mapping" \/ Known(c.session) = None
      h == IF fresh THEN Handler(d, m, c.by) ELSE Known(c.session)
      keep == IF fresh /\ Valid(c.by) THEN c.in ELSE "none"
      w == (IF cache.meta = 0 THEN {<<m, "meta", None>>} ELSE {})
           \cup (IF keep # "none" THEN {<<m, keep, c.session>>} ELSE {})
  IN [handler |-> h, err |-> IF fresh /\ ~Valid(c.by) THEN "invalid" ELSE None, watch |-> w,
      cache |-> [cache EXCEPT !.meta = IF @ = 0 THEN m ELSE @,
                              !.factory = IF keep = "factory" THEN h ELSE @,
                              !.session[c.session] = IF keep = "session" THEN h ELSE @]]

\* Mutant: every caller makes a handler of its own.
ForTheCtor_Anew(d, m, n) ==
  [handler |-> Handler(d, m, "ctor"), err |-> None, watch |-> {},
   cache |-> [n.cache EXCEPT !.ctor = Handler(d, m, "ctor")]]

\* The part about the constructor: a handler that is null is not undefined.
ForTheCtor(d, m, n) ==
  IF cache.null THEN [n EXCEPT !.handler = None]
  ELSE IF cache.ctor # None THEN [n EXCEPT !.handler = cache.ctor]
  ELSE IF Valid("ctor")
       THEN [n EXCEPT !.handler = Handler(d, m, "ctor"), !.cache.ctor = Handler(d, m, "ctor"),
                      !.watch = @ \cup {<<m, "ctor", None>>}]
       ELSE [n EXCEPT !.handler = Handler(d, m, "ctor"), !.err = "invalid"]

\* onExistingTableMetadata
Existing(d, err, m) ==
  IF err # None
  THEN /\ call' = [call EXCEPT ![d] = Answer(@, err, None)]
       /\ UNCHANGED <<cache, watch>>
  ELSE LET n == ForTheName(d, call[d], m)
           r == IF call[d].kind = "ctor" THEN ForTheCtor(d, m, n) ELSE n
       IN /\ call' = [call EXCEPT ![d] = Answer(@, r.err, r.handler)]
          /\ cache' = r.cache /\ watch' = watch \cup r.watch

-----------------------------------------------------------------------------
(* The dictionary.                                                         *)

\* Mutant: everybody reads.
Add_Reads(d) == list' = Append(list, d) /\ reading' = reading + 1

\* DictionaryCall.add, and queueExecCall for the first of the list.
Add(d) ==
  /\ list' = Append(list, d)
  /\ reading' = IF list = <<>> THEN reading + 1 ELSE reading

\* The native read has ended; makeMasterCallback.
ReadEnds(ok) ==
  /\ reading > 0 /\ told = None
  /\ reading' = reading - 1
  /\ metas' = IF ok /\ world.exists THEN metas + 1 ELSE metas
  /\ told' = [i |-> 1, err |-> IF ok /\ world.exists THEN None ELSE "missing", meta |-> metas + 1]
  /\ UNCHANGED <<world, cache, watch, list, closes, call>>

\* onTableMetadata: a table that is missing is made, from its mapping, or from the
\* default mapping if the session allows it.
Missing(d) ==
  LET by == IF call[d].kind = "mapping" THEN "mapping"
            ELSE IF cache.mapping # None THEN cache.mapping
            ELSE IF world.allow THEN "default" ELSE None
  IN IF by = None THEN Existing(d, "missing", 0)
     ELSE /\ call' = [call EXCEPT ![d].step = "creating", ![d].by = by]
          /\ cache' = [cache EXCEPT !.mapping = IF by = "mapping" THEN @ ELSE by]
          /\ UNCHANGED watch

\* One step of the group callback: callers who joined meanwhile are told too.
Tell ==
  /\ told # None /\ told.i <= Len(list)
  /\ LET d == list[told.i] IN
     IF told.err # None /\ call[d].step = "reading" THEN Missing(d)
     ELSE Existing(d, told.err, told.meta)
  /\ told' = [told EXCEPT !.i = @ + 1]
  /\ UNCHANGED <<world, list, reading, metas, closes>>

\* Mutant: only the first caller is let go of.
Clear_First == Tail(list)

Clear == <<>>

Told ==
  /\ told # None /\ told.i > Len(list)
  /\ list' = Clear /\ told' = None
  /\ UNCHANGED <<world, cache, watch, reading, metas, closes, call>>

-----------------------------------------------------------------------------
(* The calls.                                                              *)

CreateTableHandler(d, c) ==
  IF cache.meta # 0
  THEN LET n == ForTheName(d, c, cache.meta)
           r == IF c.kind = "ctor" THEN ForTheCtor(d, cache.meta, n) ELSE n
       IN /\ call' = [call EXCEPT ![d] = Answer(c, r.err, r.handler)]
          /\ cache' = r.cache /\ watch' = watch \cup r.watch
          /\ UNCHANGED <<list, reading>>
  ELSE /\ Add(d)
       /\ call' = [call EXCEPT ![d] = [c EXCEPT !.step = "reading"]]
       /\ UNCHANGED <<cache, watch>>

\* getTableHandler(userContext, domainObjectTableNameOrConstructor, session, ...).
\* A constructor with an ill-formed mapping (isValid) is refused at once.
GetTableHandler(d, kind, s, in) ==
  /\ call[d].step = "new" /\ \A e \in Call : e < d => call[e].step # "new"
  /\ metas + reading < MaxReads
  /\ LET c == [call[d] EXCEPT !.kind = kind, !.session = s, !.in = in, !.at = closes,
                              !.by = IF kind = "mapping" THEN "mapping" ELSE "default"]
         cached == CASE kind = "string" -> Known(s) # None
                     [] kind = "ctor" -> cache.null \/ cache.ctor # None
                     [] kind = "mapping" -> FALSE
     IN IF cached
        THEN /\ call' = [call EXCEPT ![d] =
                           Answer(c, None, IF kind = "string" THEN Known(s) ELSE cache.ctor)]
             /\ UNCHANGED <<cache, watch, list, reading>>
        ELSE IF kind = "ctor" /\ world.refused
        THEN /\ call' = [call EXCEPT ![d] = Answer(c, "invalid", None)]
             /\ UNCHANGED <<cache, watch, list, reading>>
        ELSE CreateTableHandler(d, c)
  /\ UNCHANGED <<world, told, metas, closes>>

\* onCreateTable.  CREATE TABLE fails if somebody else has made it.
Created(d, ok) ==
  /\ call[d].step = "creating" /\ told = None
  /\ IF ok /\ ~world.exists
     THEN /\ world' = [world EXCEPT !.exists = TRUE]
          /\ Add(d)
          /\ call' = [call EXCEPT ![d].step = "again"]
          /\ UNCHANGED <<cache, watch>>
     ELSE /\ Existing(d, "create", 0)
          /\ UNCHANGED <<world, list, reading>>
  /\ UNCHANGED <<told, metas, closes>>

-----------------------------------------------------------------------------
(* Closing the factory.                                                    *)

\* tableMetadata.invalidate(): the callbacks that were registered with m.
Invalidate(m) ==
  LET on(what, s) == <<m, what, s>> \in watch IN
  [cache EXCEPT !.meta = IF on("meta", None) THEN 0 ELSE @,
                !.factory = IF \E s \in Session : on("factory", s) THEN None ELSE @,
                !.session = [s \in Session |-> IF on("session", s) THEN None ELSE @[s]],
                !.null = @ \/ (world.detail /\ on("ctor", None)),
                !.ctor = IF world.detail /\ on("ctor", None) THEN None ELSE @]

\* SessionFactory.close, and a new factory with nothing in its caches; the
\* constructor keeps what it has.
CloseFactory ==
  /\ closes = 0 /\ cache.meta # 0
  /\ \A d \in Call : call[d].step \in {"new", "done"}
  /\ LET c == Invalidate(cache.meta) IN
     cache' = [c EXCEPT !.meta = 0, !.factory = None, !.session = [s \in Session |-> None],
                        !.mapping = None]
  /\ watch' = {w \in watch : w[1] # cache.meta}
  /\ closes' = 1
  /\ UNCHANGED <<world, list, reading, told, metas, call>>

-----------------------------------------------------------------------------
System ==
  \/ Tell
  \/ Told
  \/ \E ok \in BOOLEAN : ReadEnds(ok) \/ \E d \in Call : Created(d, ok)
Users ==
  \/ \E d \in Call, kind \in Kinds, s \in Session, in \in Caches : GetTableHandler(d, kind, s, in)
  \/ CloseFactory

Next == System \/ Users

\* The dictionary and the SQL connection answer.
Spec == Init /\ [][Next]_vars /\ WF_vars(System)

-----------------------------------------------------------------------------
Waiting == {d \in Call : call[d].step \in {"reading", "again"}}

\* Callers share reads, and none is forgotten: a table is read by one native call at a
\* time, while somebody waits for it, everyone who waits is in the list, once, and is
\* answered once (DictionaryCall.js:40 to :75).
ReadsAreShared ==
  /\ reading + (IF told = None THEN 0 ELSE 1) <= 1
  /\ reading > 0 => list # <<>>
  /\ list # <<>> => reading > 0 \/ told # None
  /\ \A d \in Waiting :
       Cardinality({i \in 1..Len(list) : list[i] = d /\ (told # None => i >= told.i)}) = 1
  /\ \A d \in Call : call[d].answers <= 1

\* Whoever asks by the same constructor is given the same handler, made by its mapping,
\* and whoever asks with a TableMapping gets one made by that.  After a factory was
\* closed a constructor still has the handler of the old one (SessionFactory.js:412):
\* of that nothing is claimed.
HandlersAgree ==
  \A d \in Call :
    LET c == call[d] IN
    c.step = "done" /\ c.err = None =>
      /\ c.kind = "mapping" => c.handler.by = "mapping"
      /\ c.kind = "ctor" /\ c.at = 0 =>
           /\ c.handler.by = "ctor"
           /\ \A e \in Call : call[e].kind = "ctor" /\ call[e].at = 0 /\ call[e].step = "done"
                              /\ call[e].err = None => call[e].handler = c.handler
      /\ c.kind = "string" => c.handler # None

\* Every call is answered (onTableHandler): as each call is made once, again and again
\* nobody waits.
EveryCallIsAnswered == []<>(\A d \in Call : call[d].step \in {"new", "done"})
=============================================================================
