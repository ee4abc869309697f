---------------------------- MODULE MCNdbSession ----------------------------
(***************************************************************************)
(* Small instances of NdbSession.                                          *)
(***************************************************************************)
EXTENDS NdbSession, TLC

CONSTANTS h1, h2, h3, r1, r2, r3, r4, c1, c2

Handlers == {h1, h2, h3}
TwoHandlers == {h1, h2}
ThreeRequests == {r1, r2, r3}
Requests == {r1, r2, r3, r4}
OneContext == {c1}
TwoContexts == {c1, c2}

ScanKinds == {"autoInc", "scan"}
QueryKinds == {"key", "query"}
KeyOnly == {"key"}

NoFaults == {}
TimeoutFaults == {"exec", "timeout"}
AllFaults == {"start", "exec", "scan", "fetch", "timeout"}

\* Handlers, requests and contexts are interchangeable.
Symmetry == Permutations(Handler) \cup Permutations(Request) \cup Permutations(Context)
=============================================================================
