-------------------------- MODULE MCSessionFactory --------------------------
(***************************************************************************)
(* Small instances of what a session factory does: of SessionFactory, in   *)
(* which two users connect, to the same or to different databases, and     *)
(* then open and close sessions and factories; and of TableHandlers.  They *)
(* share no state, and a behaviour shows either the one or the other.      *)
(***************************************************************************)
EXTENDS SessionFactory

CONSTANTS HandlerCall, Session, MaxReads, Caches

VARIABLES world, cache, watch, list, reading, told, metas, closes, handlerCall
handlerVars == <<world, cache, watch, list, reading, told, metas, closes, handlerCall>>

MCKindsOf(c) ==
  CASE c = 1 -> {"connect"}
    [] c = 2 -> Asks
    [] c = 3 -> {"open", "close", "closeSession"}
    [] c = 4 -> {"openSession", "closeSession", "close"}

World(exists, allow, bad, detail, mapped) ==
  [exists |-> exists, allow |-> allow, bad |-> bad, refused |-> FALSE, detail |-> detail,
   mapped |-> mapped]

\* A table that exists, with udebug at detail, with mappings that do not fit it, and with a
\* class whose mapping is ill-formed; one that does not and is made, from either mapping.
MCWorlds ==
  {World(TRUE, FALSE, {}, TRUE, "default"),
   World(TRUE, FALSE, {"ctor", "mapping"}, FALSE, "default"),
   [World(TRUE, FALSE, {}, FALSE, "user") EXCEPT !.refused = TRUE],
   World(FALSE, TRUE, {}, FALSE, "default"),
   World(FALSE, FALSE, {}, FALSE, "user")}

H == INSTANCE TableHandlers WITH Call <- HandlerCall, call <- handlerCall, Worlds <- MCWorlds

ASSUME HandlersAssumption == H!HandlerConstants

-----------------------------------------------------------------------------
Registry ==
  /\ world = CHOOSE w \in MCWorlds : TRUE
  /\ \A d \in HandlerCall : handlerCall[d].step = "new"
  /\ Next /\ UNCHANGED handlerVars

Handlers ==
  /\ \A c \in Call : call[c].kind = None
  /\ H!Next /\ UNCHANGED vars

RegistryInit == Init /\ H!Init

FactorySpec ==
  /\ RegistryInit /\ [][Registry \/ Handlers]_<<vars, handlerVars>>
  /\ WF_vars(System) /\ WF_handlerVars(H!System)

\* Callers who wait for a table share one read of the dictionary, and none is forgotten
\* (DictionaryCall.js; see TableHandlers).
ReadsAreShared == H!ReadsAreShared

\* Callers who ask by the same constructor get the same handler, and those who ask with
\* a TableMapping one that was made by it (getTableHandler; see TableHandlers).
HandlersAgree == H!HandlersAgree

\* Every call of connect, open and close is answered, and every call of getTableHandler.
AllCallsAreAnswered == EveryCallIsAnswered /\ H!EveryCallIsAnswered
=============================================================================
