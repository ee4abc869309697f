------------------------- MODULE UserSessionProofs -------------------------
(***************************************************************************)
(* The public API answers each call once, executes a batch whole or not at *)
(* all, says Idle only when the transaction has ended, and commits no      *)
(* transaction in which something failed: for any calls of any kinds.      *)
(*                                                                         *)
(* That a cleared call is not executed rests on the batch: when Batch.clear*)
(* stops half way, some call on the list has ended without an operation,   *)
(* and a batch with such a call is never given to the adapter.  That the   *)
(* callback of a batch comes last rests on what is still to be answered of *)
(* it.  That Idle is true, on the one end that is in flight.               *)
(***************************************************************************)
EXTENDS UserSession, SequenceTheorems, FiniteSetTheorems, TLAPS

Phases == {"new", "table", "defined", "handed", "asked", "askedAgain", "over"}
Answers == {"ok", "error", "cleared"}
Context ==
  [kind : Kinds \cup {None}, inBatch : BOOLEAN, phase : Phases, clear : BOOLEAN,
   definedCallback : Call \cup {None}, ops : Seq(Call), ran : Nat \cup {None},
   answers : {<<>>} \cup {<<a>> : a \in Answers}]
Entry == [what : {"operations", "commit", "rollback"}, ops : Seq(Call), for : Call, tx : Nat]

TypeOK ==
  /\ state \in {"idle", "active", "rollbackOnly"}
  /\ ctx \in [Call -> Context]
  /\ batchList \in Seq(Call)
  /\ wire \in Seq(Entry)
  /\ turn \in Call \cup {None}
  /\ nTx \in Nat /\ ended \subseteq 0..nTx /\ failed \subseteq 1..nTx
  /\ overlap \in BOOLEAN

On(c, s) == \E j \in 1..Len(s) : s[j] = c

Cleared(r) == r.answers = <<"cleared">>
Over(r) == r.phase = "over"

\* What is true of each context by itself.
ContextOK(r) ==
  /\ r.phase = "new" <=> r.kind = None
  /\ r.kind = None => r.answers = <<>> /\ r.ops = <<>> /\ ~r.inBatch /\ r.definedCallback = None
  /\ r.phase = "handed" => r.ran \in Nat /\ r.ran <= nTx
  /\ r.phase # "handed" => r.ran = None
  /\ r.phase = "table" => r.kind \in Operations \cup {"getMapping"}
  /\ r.phase \in {"asked", "askedAgain"} => r.kind \in Delegates
  /\ r.inBatch => r.kind \in Finds \cup Writes
  /\ r.kind = "execute" => r.phase = "over"
  /\ r.kind # "execute" => r.ops = <<>>
  /\ Cleared(r) => r.phase # "handed" /\ r.inBatch

\* A call on the list of the batch.
Collected(r) ==
  /\ r.inBatch /\ r.phase \in {"table", "defined", "over"} /\ r.definedCallback = None
  /\ r.answers # <<>> => Over(r) \/ Cleared(r)

\* With a call that was cleared a list has one that has ended with no operation.
Spoilt(s) == (\E j \in 1..Len(s) : Cleared(ctx[s[j]])) => \E j \in 1..Len(s) : Over(ctx[s[j]])

BatchOK ==
  /\ \A j \in 1..Len(batchList) : Collected(ctx[batchList[j]])
  /\ Spoilt(batchList)
  /\ \A x \in Call :
       /\ \A j \in 1..Len(ctx[x].ops) :
            ctx[ctx[x].ops[j]].inBatch /\ ~On(ctx[x].ops[j], batchList)
       /\ Spoilt(ctx[x].ops)

\* What the adapter was given, and what of it is not answered.
EntryOK(w) ==
  /\ w.tx <= nTx
  /\ w.what = "operations" =>
       /\ ctx[w.for].kind \in Operations \cup {"execute"}
       /\ \A j \in 1..Len(w.ops) :
            /\ ctx[w.ops[j]].phase = "handed" /\ ctx[w.ops[j]].kind \in Operations
            /\ ctx[w.for].kind = "execute" => ctx[w.ops[j]].inBatch
       /\ ctx[w.for].kind = "execute" =>
            \A i \in 1..Len(ctx[w.for].ops) : Answered(ctx[w.for].ops[i]) \/ On(ctx[w.for].ops[i], w.ops)
  /\ w.what # "operations" => ctx[w.for].kind \in {"commit", "rollback"}

AnswerOK ==
  \A x \in Call : ctx[x].kind = "execute" /\ Answered(x) =>
    \A j \in 1..Len(ctx[x].ops) : Answered(ctx[x].ops[j])

\* Operations wait for an execute call.
CallbackOK ==
  \A c \in Call : ctx[c].definedCallback # None => ctx[ctx[c].definedCallback].kind = "execute"

FailOK == state = "active" => nTx \notin failed

\* At most one end is in flight, of the transaction that was begun last.
IsEnd(w) == w.what \in {"commit", "rollback"}
EndsOK ==
  ~overlap => \A j \in 1..Len(wire) : IsEnd(wire[j]) =>
    /\ wire[j].tx = nTx /\ state # "idle"
    /\ \A i \in 1..Len(wire) : IsEnd(wire[i]) => i = j

ContextsOK == \A c \in Call : ContextOK(ctx[c])
TurnOK == turn # None => ctx[turn].phase = "table"
WireOK == \A j \in 1..Len(wire) : EntryOK(wire[j])

IInv ==
  /\ TypeOK
  /\ ContextsOK /\ CallbackOK /\ TurnOK
  /\ BatchOK /\ AnswerOK
  /\ WireOK
  /\ FailOK /\ IdleMeansEnded /\ EndsOK

-----------------------------------------------------------------------------
(* What a step may make of a context, and what then holds still.           *)

Goes(o, r) ==
  /\ o.kind # None => r.kind = o.kind /\ r.inBatch = o.inBatch /\ r.ops = o.ops
  /\ o.answers # <<>> => r.answers = o.answers
  /\ Over(o) => Over(r)
  /\ o.phase = "handed" => r.phase = "handed"

AllGo == \A c \in Call : Goes(ctx[c], ctx'[c])

LEMMA NoneIsNoKind ==
  /\ None \notin Operations \cup Delegates \cup {"getMapping", "execute", "commit", "rollback"}
  /\ None \notin Nat /\ None \notin Call
<1> QED BY ConstantsAssumption DEF Kinds

LEMMA EntryKeeps ==
  ASSUME TypeOK, ctx' \in [Call -> Context], nTx' \in Nat, nTx <= nTx', AllGo,
         NEW w \in Entry, EntryOK(w)
  PROVE EntryOK(w)'
<1>1. w.for \in Call /\ w.ops \in Seq(Call) /\ w.tx \in Nat BY DEF Entry
<1>2. w.tx <= nTx' BY <1>1 DEF EntryOK, TypeOK
<1>3. \A c \in Call : ctx[c].kind # None => ctx'[c].kind = ctx[c].kind
        /\ ctx'[c].inBatch = ctx[c].inBatch /\ ctx'[c].ops = ctx[c].ops
  BY DEF AllGo, Goes
<1>4. \A c \in Call : ctx[c].phase = "handed" => ctx'[c].phase = "handed" BY DEF AllGo, Goes
<1>5. \A c \in Call : Answered(c) => Answered(c)' BY DEF AllGo, Goes, Answered
<1>6. None \notin Operations \cup {"execute", "commit", "rollback"} BY NoneIsNoKind
<1>7. w.what = "operations" => ctx'[w.for].kind \in Operations \cup {"execute"}
  BY <1>1, <1>3, <1>6 DEF EntryOK
<1>8. w.what = "operations" => \A j \in 1..Len(w.ops) :
        /\ ctx'[w.ops[j]].phase = "handed" /\ ctx'[w.ops[j]].kind \in Operations
        /\ ctx'[w.for].kind = "execute" => ctx'[w.ops[j]].inBatch
  <2> SUFFICES ASSUME w.what = "operations", NEW j \in 1..Len(w.ops)
               PROVE /\ ctx'[w.ops[j]].phase = "handed" /\ ctx'[w.ops[j]].kind \in Operations
                     /\ ctx'[w.for].kind = "execute" => ctx'[w.ops[j]].inBatch
    OBVIOUS
  <2>1. PICK c \in Call : c = w.ops[j] BY <1>1
  <2>2. ctx[c].phase = "handed" /\ ctx[c].kind \in Operations
        /\ (ctx[w.for].kind = "execute" => ctx[c].inBatch)
        /\ ctx[w.for].kind \in Operations \cup {"execute"}
    BY <2>1 DEF EntryOK
  <2>3. ctx[c].kind # None /\ ctx[w.for].kind # None BY <1>6, <2>2
  <2> QED BY <1>1, <1>3, <1>4, <2>1, <2>2, <2>3
<1>9. w.what = "operations" /\ ctx'[w.for].kind = "execute" =>
        \A i \in 1..Len(ctx'[w.for].ops) : Answered(ctx[w.for].ops[i])' \/ On(ctx'[w.for].ops[i], w.ops)
  <2> SUFFICES ASSUME w.what = "operations", ctx'[w.for].kind = "execute",
                      NEW i \in 1..Len(ctx'[w.for].ops)
               PROVE Answered(ctx[w.for].ops[i])' \/ On(ctx'[w.for].ops[i], w.ops)
    OBVIOUS
  <2>1. ctx[w.for].kind # None BY <1>6 DEF EntryOK
  <2>2. ctx[w.for].kind = "execute" /\ ctx'[w.for].ops = ctx[w.for].ops BY <1>1, <1>3, <2>1
  <2>3. ctx[w.for].ops \in Seq(Call) BY <1>1 DEF TypeOK, Context
  <2>4. PICK c \in Call : c = ctx[w.for].ops[i] BY <2>2, <2>3
  <2>5. Answered(c) \/ On(c, w.ops) BY <2>2, <2>4 DEF EntryOK
  <2>6. Answered(c)' \/ On(c, w.ops) BY <1>5, <2>5
  <2> QED BY <2>2, <2>4, <2>6 DEF Answered
<1>10. w.what # "operations" => ctx'[w.for].kind \in {"commit", "rollback"}
  BY <1>1, <1>3, <1>6 DEF EntryOK
<1> QED BY <1>2, <1>7, <1>8, <1>9, <1>10 DEF EntryOK

LEMMA SpoiltKeeps ==
  ASSUME ctx' \in [Call -> Context], AllGo, NEW s \in Seq(Call), Spoilt(s),
         \A c \in Call : Cleared(ctx'[c]) => Cleared(ctx[c])
  PROVE Spoilt(s)'
<1>1. \A j \in 1..Len(s) : s[j] \in Call OBVIOUS
<1>2. \A c \in Call : Over(ctx[c]) => Over(ctx'[c]) BY DEF AllGo, Goes
<1> QED BY <1>1, <1>2 DEF Spoilt

\* The batch and the lists of execute calls, in a step that leaves the list as it is.
LEMMA BatchKeeps ==
  ASSUME TypeOK, ContextsOK, ctx' \in [Call -> Context], AllGo, BatchOK, batchList' = batchList,
         \A c \in Call : ctx'[c].ops = ctx[c].ops,
         \A c \in Call : Cleared(ctx'[c]) => Cleared(ctx[c]),
         \A c \in Call : On(c, batchList) => Collected(ctx'[c])
  PROVE BatchOK'
<1>1. \A j \in 1..Len(batchList) : batchList[j] \in Call BY DEF TypeOK
<1>2. \A j \in 1..Len(batchList) : Collected(ctx'[batchList[j]]) BY <1>1 DEF On
<1>3. Spoilt(batchList)'
  <2>1. PICK s \in Seq(Call) : s = batchList BY DEF TypeOK
  <2>2. Spoilt(s)' BY <2>1, SpoiltKeeps DEF BatchOK
  <2> QED BY <2>1, <2>2 DEF Spoilt
<1>4. ASSUME NEW x \in Call
      PROVE /\ \A j \in 1..Len(ctx'[x].ops) :
                 ctx'[ctx'[x].ops[j]].inBatch /\ ~On(ctx'[x].ops[j], batchList)
            /\ Spoilt(ctx[x].ops)'
  <2>1. PICK s \in Seq(Call) : s = ctx[x].ops BY DEF TypeOK, Context
  <2>2. s = ctx'[x].ops BY <2>1
  <2>3. Spoilt(s)' BY <2>1, SpoiltKeeps DEF BatchOK
  <2>4. ASSUME NEW j \in 1..Len(s) PROVE ctx'[s[j]].inBatch /\ ~On(s[j], batchList)
    <3>1. PICK c \in Call : c = s[j] OBVIOUS
    <3>2. ctx[c].inBatch /\ ~On(c, batchList) BY <2>1, <3>1 DEF BatchOK
    <3>3. ctx[c].kind # None BY <3>2 DEF ContextsOK, ContextOK
    <3>4. ctx'[c].inBatch BY <3>2, <3>3 DEF AllGo, Goes
    <3> QED BY <3>1, <3>2, <3>4
  <2> QED BY <2>1, <2>2, <2>3, <2>4 DEF Spoilt
<1>5. \A c \in Call : On(c, batchList)' <=> On(c, batchList) BY DEF On
<1> QED BY <1>2, <1>3, <1>4 DEF BatchOK, On

LEMMA AnswersKeep ==
  ASSUME TypeOK, ContextsOK, ctx' \in [Call -> Context], AllGo, AnswerOK,
         \A x \in Call : ctx'[x].kind = "execute" /\ Answered(x)' =>
           \/ ctx[x].kind = "execute" /\ Answered(x)
           \/ \A j \in 1..Len(ctx'[x].ops) : Answered(ctx[x].ops[j])'
  PROVE AnswerOK'
<1> SUFFICES ASSUME NEW x \in Call, ctx'[x].kind = "execute", Answered(x)',
                    ctx[x].kind = "execute", Answered(x), NEW j \in 1..Len(ctx'[x].ops)
             PROVE Answered(ctx[x].ops[j])'
  BY DEF AnswerOK, Answered
<1>1. ctx'[x].ops = ctx[x].ops BY NoneIsNoKind DEF AllGo, Goes
<1>2. PICK c \in Call : c = ctx[x].ops[j] BY <1>1 DEF TypeOK, Context
<1>3. Answered(c) BY <1>1, <1>2 DEF AnswerOK
<1>4. Answered(c)' BY <1>3 DEF Answered, AllGo, Goes
<1> QED BY <1>1, <1>2, <1>4 DEF Answered

LEMMA CallbacksKeep ==
  ASSUME TypeOK, ctx' \in [Call -> Context], AllGo, CallbackOK,
         \A c \in Call : ctx'[c].definedCallback = ctx[c].definedCallback
  PROVE CallbackOK'
<1> SUFFICES ASSUME NEW c \in Call, ctx'[c].definedCallback # None
             PROVE ctx'[ctx'[c].definedCallback].kind = "execute"
  BY DEF CallbackOK
<1>1. PICK x \in Call : x = ctx[c].definedCallback BY DEF TypeOK, Context
<1>2. ctx[x].kind = "execute" BY <1>1, NoneIsNoKind DEF CallbackOK
<1> QED BY <1>1, <1>2, NoneIsNoKind DEF AllGo, Goes

\* One context changes.
Changed(c, r) ==
  /\ r \in Context /\ ContextOK(r) /\ Goes(ctx[c], r)
  /\ r.definedCallback = ctx[c].definedCallback /\ r.ops = ctx[c].ops
  /\ Cleared(r) => Cleared(ctx[c])

LEMMA OneChange ==
  ASSUME IInv, NEW c \in Call, NEW r, Changed(c, r), ctx' = [ctx EXCEPT ![c] = r], nTx' = nTx,
         r.kind = "execute" /\ r.answers # <<>> => \A j \in 1..Len(ctx[c].ops) : Answered(ctx[c].ops[j])
  PROVE /\ ctx' \in [Call -> Context] /\ AllGo /\ ContextsOK' /\ CallbackOK' /\ AnswerOK'
        /\ batchList' = batchList /\ (On(c, batchList) => Collected(r)) => BatchOK'
<1>1. TypeOK /\ ContextsOK /\ CallbackOK /\ AnswerOK /\ BatchOK BY DEF IInv
<1>2. ctx' \in [Call -> Context] BY <1>1 DEF TypeOK, Changed
<1>3. \A d \in Call : ctx'[d] = IF d = c THEN r ELSE ctx[d] BY <1>1 DEF TypeOK
<1>4. AllGo BY <1>3 DEF AllGo, Goes, Changed
<1>5. \A d \in Call : ContextOK(ctx'[d]) BY <1>1, <1>3 DEF ContextsOK, Changed
<1>6. ContextsOK' BY <1>5 DEF ContextsOK, ContextOK
<1>7. \A d \in Call : ctx'[d].definedCallback = ctx[d].definedCallback /\ ctx'[d].ops = ctx[d].ops
        /\ (Cleared(ctx'[d]) => Cleared(ctx[d]))
  BY <1>3 DEF Changed
<1>8. CallbackOK' BY <1>1, <1>2, <1>4, <1>7, CallbacksKeep
<1>9. AnswerOK'
  <2>1. ASSUME NEW x \in Call, ctx'[x].kind = "execute", Answered(x)'
        PROVE \/ ctx[x].kind = "execute" /\ Answered(x)
              \/ \A j \in 1..Len(ctx'[x].ops) : Answered(ctx[x].ops[j])'
    <3>1. CASE x # c BY <1>3, <2>1, <3>1 DEF Answered
    <3>2. CASE x = c
      <4>1. \A j \in 1..Len(ctx[c].ops) : Answered(ctx[c].ops[j]) BY <1>3, <2>1, <3>2 DEF Answered
      <4>2. \A d \in Call : Answered(d) => Answered(d)' BY <1>4 DEF AllGo, Goes, Answered
      <4>3. \A j \in 1..Len(ctx[c].ops) : ctx[c].ops[j] \in Call BY <1>1 DEF TypeOK, Context
      <4>4. ASSUME NEW j \in 1..Len(ctx'[x].ops) PROVE Answered(ctx[x].ops[j])'
        <5>1. PICK d \in Call : d = ctx[c].ops[j] BY <1>7, <3>2, <4>3
        <5>2. Answered(d)' BY <1>7, <3>2, <4>1, <4>2, <5>1
        <5> QED BY <1>7, <3>2, <5>1, <5>2 DEF Answered
      <4> QED BY <4>4
    <3> QED BY <3>1, <3>2
  <2> QED BY <1>1, <1>2, <1>4, <2>1, AnswersKeep
<1>10. batchList' = batchList /\ (On(c, batchList) => Collected(r)) => BatchOK'
  <2> SUFFICES ASSUME batchList' = batchList, On(c, batchList) => Collected(r) PROVE BatchOK'
    OBVIOUS
  <2>1. ASSUME NEW d \in Call, On(d, batchList) PROVE Collected(ctx'[d])
    <3>1. Collected(ctx[d]) BY <1>1, <2>1 DEF BatchOK, On
    <3> QED BY <1>3, <2>1, <3>1
  <2>2. \A d \in Call : ctx'[d].ops = ctx[d].ops BY <1>7
  <2>3. \A d \in Call : Cleared(ctx'[d]) => Cleared(ctx[d]) BY <1>7
  <2> QED BY <1>1, <1>2, <1>4, <2>1, <2>2, <2>3, BatchKeeps
<1> QED BY <1>2, <1>4, <1>6, <1>8, <1>9, <1>10

\* What applyCallback makes of a context.
ToldOf(o, r) ==
  /\ r \in Context
  /\ r.kind = o.kind /\ r.inBatch = o.inBatch /\ r.phase = o.phase /\ r.ran = o.ran
  /\ r.definedCallback = o.definedCallback /\ r.ops = o.ops
  /\ r.answers # <<>> /\ (o.answers # <<>> => r.answers = o.answers)
  /\ Cleared(r) => Cleared(o)

LEMMA ApplyDoes ==
  ASSUME NEW c \in Call, NEW cs \in [Call -> Context], NEW answer \in {"ok", "error"},
         Apply(c, cs, answer)
  PROVE \E r : ctx' = [cs EXCEPT ![c] = r] /\ ToldOf(cs[c], r)
<1>1. PICK o \in Context : o = cs[c] OBVIOUS
<1>2. CASE o.answers = <<>>
  <2>1. PICK r : r = [o EXCEPT !.answers = <<answer>>] OBVIOUS
  <2>2. <<answer>> \in {<<a>> : a \in Answers} BY DEF Answers
  <2>3. r \in Context BY <2>1, <2>2 DEF Context
  <2>4. /\ r.kind = o.kind /\ r.inBatch = o.inBatch /\ r.phase = o.phase /\ r.ran = o.ran
        /\ r.definedCallback = o.definedCallback /\ r.ops = o.ops /\ r.answers = <<answer>>
    BY <2>1 DEF Context
  <2>5. <<answer>> # <<>> /\ <<answer>> # <<"cleared">> OBVIOUS
  <2>6. ToldOf(o, r) BY <1>2, <2>3, <2>4, <2>5 DEF ToldOf, Cleared
  <2>7. ctx' = [cs EXCEPT ![c] = r] BY <1>1, <1>2, <2>1 DEF Apply
  <2> QED BY <1>1, <2>6, <2>7
<1>3. CASE o.answers # <<>>
  <2>1. ctx' = [cs EXCEPT ![c] = o] BY <1>1, <1>3 DEF Apply
  <2>2. ToldOf(o, o) BY <1>3 DEF ToldOf
  <2> QED BY <1>1, <2>1, <2>2
<1> QED BY <1>2, <1>3

-----------------------------------------------------------------------------
(* What the adapter was given: more is given, or one of it goes.           *)

LEMMA WireSame ==
  ASSUME IInv, ctx' \in [Call -> Context], nTx' \in Nat, nTx <= nTx', AllGo, wire' = wire
  PROVE WireOK'
<1>1. TypeOK /\ WireOK BY DEF IInv
<1>2. ASSUME NEW j \in 1..Len(wire) PROVE EntryOK(wire[j])'
  <2>1. PICK w \in Entry : w = wire[j] BY <1>1 DEF TypeOK
  <2>2. EntryOK(w) BY <1>1, <2>1 DEF WireOK
  <2>3. EntryOK(w)' BY <1>1, <2>2, EntryKeeps
  <2>4. w = wire'[j] BY <2>1
  <2> QED BY <2>3, <2>4 DEF EntryOK
<1> QED BY <1>2 DEF WireOK, EntryOK

LEMMA WireAdds ==
  ASSUME IInv, ctx' \in [Call -> Context], nTx' = nTx, AllGo,
         NEW w \in Entry, EntryOK(w)', wire' = Append(wire, w)
  PROVE WireOK' /\ wire' \in Seq(Entry)
<1>1. TypeOK /\ WireOK BY DEF IInv
<1>2. PICK n \in Nat : n = Len(wire) BY <1>1 DEF TypeOK
<1>3. wire' \in Seq(Entry) /\ Len(wire') = n + 1 /\ wire'[n + 1] = w
      /\ \A j \in 1..n : wire'[j] = wire[j] /\ wire[j] \in Entry
  BY <1>1, <1>2 DEF TypeOK
<1>4. ASSUME NEW j \in 1..(n + 1) PROVE EntryOK(wire[j])'
  <2>1. CASE j = n + 1
    <3>1. w = wire'[j] BY <1>3, <2>1
    <3> QED BY <3>1 DEF EntryOK
  <2>2. CASE j # n + 1
    <3>1. j \in 1..n BY <2>2
    <3>2. PICK v \in Entry : v = wire[j] BY <1>3, <3>1
    <3>3. EntryOK(v) BY <1>1, <1>2, <3>1, <3>2 DEF WireOK
    <3>4. nTx' \in Nat /\ nTx <= nTx' BY <1>1 DEF TypeOK
    <3>5. EntryOK(v)' BY <1>1, <3>3, <3>4, EntryKeeps
    <3>6. v = wire'[j] BY <1>3, <3>1, <3>2
    <3> QED BY <3>5, <3>6 DEF EntryOK
  <2> QED BY <2>1, <2>2
<1> QED BY <1>3, <1>4 DEF WireOK, EntryOK

LEMMA WithoutIs ==
  ASSUME wire \in Seq(Entry), NEW j \in 1..Len(wire)
  PROVE /\ Without(j) \in Seq(Entry) /\ Len(Without(j)) = Len(wire) - 1
        /\ \A i \in 1..(Len(wire) - 1) : Without(j)[i] = wire[IF i < j THEN i ELSE i + 1]
<1>1. PICK n \in Nat : n = Len(wire) OBVIOUS
<1>2. PICK a \in Seq(Entry) : a = SubSeq(wire, 1, j - 1)
  <2>1. SubSeq(wire, 1, j - 1) \in Seq(Entry) BY <1>1, SubSeqProperties
  <2> QED BY <2>1
<1>3. PICK b \in Seq(Entry) : b = SubSeq(wire, j + 1, n)
  <2>1. SubSeq(wire, j + 1, n) \in Seq(Entry) BY <1>1, SubSeqProperties
  <2> QED BY <2>1
<1>4. Len(a) = j - 1 /\ \A i \in 1..(j - 1) : a[i] = wire[i] BY <1>1, <1>2
<1>5. Len(b) = n - j /\ \A i \in 1..(n - j) : b[i] = wire[i + j] BY <1>1, <1>3
<1>6. Without(j) = a \o b BY <1>1, <1>2, <1>3 DEF Without
<1>7. Without(j) \in Seq(Entry) /\ Len(Without(j)) = n - 1 BY <1>1, <1>4, <1>5, <1>6
<1>8. ASSUME NEW i \in 1..(n - 1) PROVE Without(j)[i] = wire[IF i < j THEN i ELSE i + 1]
  <2>1. CASE i < j BY <1>1, <1>4, <1>5, <1>6, <2>1
  <2>2. CASE i >= j
    <3>1. PICK k \in 1..(n - j) : k = i - (j - 1) BY <1>1, <2>2
    <3>2. (a \o b)[i] = b[k] BY <1>1, <1>4, <1>5, <2>2, <3>1
    <3>3. b[k] = wire[k + j] BY <1>5
    <3>4. k + j = i + 1 BY <3>1
    <3>5. ~(i < j) BY <1>1, <2>2
    <3> QED BY <1>6, <3>2, <3>3, <3>4, <3>5
  <2> QED BY <1>1, <2>1, <2>2
<1> QED BY <1>1, <1>7, <1>8

LEMMA WireLoses ==
  ASSUME IInv, ctx' \in [Call -> Context], nTx' = nTx, AllGo,
         NEW j \in 1..Len(wire), wire' = Without(j)
  PROVE /\ WireOK' /\ wire' \in Seq(Entry)
        /\ \A i \in 1..Len(wire') : \E k \in 1..Len(wire) : k # j /\ wire'[i] = wire[k]
        /\ \A i1, i2 \in 1..Len(wire') : i1 # i2 => \E k1, k2 \in 1..Len(wire) :
             k1 # k2 /\ wire'[i1] = wire[k1] /\ wire'[i2] = wire[k2]
<1>1. TypeOK /\ WireOK BY DEF IInv
<1>2. PICK n \in Nat : n = Len(wire) BY <1>1 DEF TypeOK
<1>3. wire' \in Seq(Entry) /\ Len(wire') = n - 1
      /\ \A i \in 1..(n - 1) : wire'[i] = wire[IF i < j THEN i ELSE i + 1]
  BY <1>1, <1>2, WithoutIs DEF TypeOK
<1>4. \A i \in 1..(n - 1) : (IF i < j THEN i ELSE i + 1) \in 1..n /\ (IF i < j THEN i ELSE i + 1) # j
  BY <1>2
<1>5. ASSUME NEW i \in 1..Len(wire') PROVE EntryOK(wire[i])'
  <2>1. i \in 1..(n - 1) BY <1>3
  <2>2. PICK k \in 1..n : wire'[i] = wire[k] BY <1>3, <1>4, <2>1
  <2>3. PICK v \in Entry : v = wire[k] BY <1>1, <1>2 DEF TypeOK
  <2>4. EntryOK(v) BY <1>1, <1>2, <2>3 DEF WireOK
  <2>5. nTx' \in Nat /\ nTx <= nTx' BY <1>1 DEF TypeOK
  <2>6. EntryOK(v)' BY <1>1, <2>4, <2>5, EntryKeeps
  <2>7. v = wire'[i] BY <2>2, <2>3
  <2> QED BY <2>6, <2>7 DEF EntryOK
<1>6. WireOK' BY <1>5 DEF WireOK, EntryOK
<1>7. \A i1, i2 \in 1..(n - 1) : i1 # i2 =>
        (IF i1 < j THEN i1 ELSE i1 + 1) # (IF i2 < j THEN i2 ELSE i2 + 1)
  BY <1>2
<1>8. 1..Len(wire') = 1..(n - 1) BY <1>3
<1>9. \A i \in 1..Len(wire') : \E k \in 1..Len(wire) : k # j /\ wire'[i] = wire[k]
  BY <1>2, <1>3, <1>4, <1>8
<1>10. \A i1, i2 \in 1..Len(wire') : i1 # i2 => \E k1, k2 \in 1..Len(wire) :
             k1 # k2 /\ wire'[i1] = wire[k1] /\ wire'[i2] = wire[k2]
  BY <1>2, <1>3, <1>4, <1>7, <1>8
<1> QED BY <1>3, <1>6, <1>9, <1>10

-----------------------------------------------------------------------------
(* The steps.                                                              *)

\* No commit is given to the adapter of a transaction in which something failed.
CommitsOK ==
  \A c \in Call : ctx[c].kind = None /\ ctx'[c].kind = "commit" /\ ctx'[c].phase = "handed"
       /\ ctx'[c].ran # 0 => ctx'[c].ran \notin failed

LEMMA TxKeeps ==
  ASSUME IInv, UNCHANGED <<state, history>>
  PROVE /\ FailOK' /\ IdleMeansEnded' /\ nTx' = nTx
        /\ wire' = wire => EndsOK'
        /\ \A w \in Entry : wire' = Append(wire, w) /\ ~IsEnd(w) => EndsOK'
<1>1. UNCHANGED <<state, nTx, ended, failed, overlap>> BY DEF history
<1>2. FailOK' /\ IdleMeansEnded' BY <1>1 DEF IInv, FailOK, IdleMeansEnded
<1>3. wire' = wire => EndsOK' BY <1>1 DEF IInv, EndsOK
<1>4. ASSUME NEW w \in Entry, wire' = Append(wire, w), ~IsEnd(w) PROVE EndsOK'
  <2>1. PICK n \in Nat : n = Len(wire) BY DEF IInv, TypeOK
  <2>2. Len(wire') = n + 1 /\ wire'[n + 1] = w /\ \A j \in 1..n : wire'[j] = wire[j]
    BY <1>4, <2>1 DEF IInv, TypeOK
  <2>3. \A j \in 1..(n + 1) : IsEnd(wire'[j]) => j \in 1..n BY <1>4, <2>2
  <2>4. EndsOK BY DEF IInv
  <2>5. ASSUME ~overlap, NEW j \in 1..(n + 1), IsEnd(wire'[j])
        PROVE /\ wire'[j].tx = nTx /\ state # "idle"
              /\ \A i \in 1..(n + 1) : IsEnd(wire'[i]) => i = j
    <3>1. j \in 1..n /\ IsEnd(wire[j]) BY <2>2, <2>3, <2>5
    <3>2. wire[j].tx = nTx /\ state # "idle" /\ \A i \in 1..n : IsEnd(wire[i]) => i = j
      BY <2>1, <2>4, <2>5, <3>1 DEF EndsOK
    <3> QED BY <2>2, <2>3, <3>1, <3>2
  <2> QED BY <1>1, <2>2, <2>5 DEF EndsOK, IsEnd
<1> QED BY <1>1, <1>2, <1>3, <1>4

\* A context that changes but for its kind, or gets one that is no commit.
LEMMA NoCommit ==
  ASSUME IInv, NEW c \in Call, NEW r, ctx' = [ctx EXCEPT ![c] = r],
         r.kind = ctx[c].kind \/ r.kind # "commit"
  PROVE CommitsOK
<1>1. \A d \in Call : ctx'[d] = IF d = c THEN r ELSE ctx[d] BY DEF IInv, TypeOK
<1> QED BY <1>1, NoneIsNoKind DEF CommitsOK

\* A call of the user gets its context.
Fresh(r, kind) ==
  /\ r \in Context /\ ContextOK(r) /\ r.kind = kind
  /\ r.definedCallback = None /\ r.ops = <<>> /\ ~Cleared(r)

LEMMA NewCall ==
  ASSUME IInv, NEW c \in Call, ctx[c].kind = None, NEW r, NEW kind, Fresh(r, kind),
         ctx' = [ctx EXCEPT ![c] = r], nTx' = nTx, kind # "execute"
  PROVE /\ ctx' \in [Call -> Context] /\ AllGo /\ ContextsOK' /\ CallbackOK' /\ AnswerOK'
        /\ batchList' = batchList => BatchOK'
        /\ ~On(c, batchList)
        /\ kind # "commit" => CommitsOK
<1>1. ContextOK(ctx[c]) /\ ctx[c] \in Context BY DEF IInv, ContextsOK, TypeOK
<1>2. ctx[c].answers = <<>> /\ ctx[c].ops = <<>> /\ ctx[c].phase = "new" /\ ~ctx[c].inBatch
      /\ ctx[c].definedCallback = None
  BY <1>1 DEF ContextOK
<1>3. Goes(ctx[c], r) BY <1>2 DEF Goes, Over
<1>4. Changed(c, r) BY <1>2, <1>3 DEF Changed, Fresh
<1>5. ~On(c, batchList)
  <2>1. BatchOK BY DEF IInv
  <2> QED BY <1>2, <2>1 DEF On, BatchOK, Collected
<1>6. ~(r.kind = "execute") BY DEF Fresh
<1>7. /\ ctx' \in [Call -> Context] /\ AllGo /\ ContextsOK' /\ CallbackOK' /\ AnswerOK'
      /\ batchList' = batchList /\ (On(c, batchList) => Collected(r)) => BatchOK'
  BY <1>4, <1>6, OneChange, Zenon
<1>8. kind # "commit" => CommitsOK
  <2>1. kind # "commit" => r.kind # "commit" BY DEF Fresh
  <2> QED BY <2>1, NoCommit, Zenon
<1> QED BY <1>5, <1>7, <1>8

LEMMA UserCallKeeps ==
  ASSUME IInv, NEW c \in Call, NEW kind, NEW inBatch \in BOOLEAN, UserCall(c, kind, inBatch)
  PROVE IInv' /\ CommitsOK
<1>1. /\ turn = None /\ ctx[c].kind = None /\ kind \in Operations \cup {"getMapping"}
      /\ inBatch => kind \in Finds \cup Writes
      /\ UNCHANGED <<state, known, wire, thrown, history>>
      /\ batchList' = IF inBatch THEN Append(batchList, c) ELSE batchList
  BY DEF UserCall, NextCall
<1>2. PICK o \in Context : o = ctx[c] BY DEF IInv, TypeOK
<1>3. ContextOK(o) BY <1>2 DEF IInv, ContextsOK
<1>4. o.answers = <<>> /\ o.ops = <<>> /\ o.phase = "new" /\ o.definedCallback = None /\ o.ran = None
  BY <1>1, <1>2, <1>3 DEF ContextOK
<1>5. kind \in Kinds /\ kind # None /\ kind \notin Delegates /\ kind \notin {"execute", "commit", "rollback"}
  BY <1>1, NoneIsNoKind DEF Kinds, Operations, Finds, Writes, Queries, Delegates
<1>6. PICK r : /\ ctx' = [ctx EXCEPT ![c] = r] /\ r \in Context /\ r.kind = kind /\ r.inBatch = inBatch
               /\ r.definedCallback = None /\ r.ops = <<>> /\ r.ran = None /\ r.phase \in {"table", "over"}
               /\ r.answers \in {<<>>, <<"error">>} /\ (r.answers = <<>> \/ r.phase = "over")
               /\ turn' \in {None, c} /\ (turn' = c => r.phase = "table")
  <2>1. PICK m \in Context : m = [o EXCEPT !.kind = kind, !.inBatch = inBatch]
    BY <1>5 DEF Context
  <2>2. /\ m.kind = kind /\ m.inBatch = inBatch /\ m.definedCallback = None /\ m.ops = <<>>
        /\ m.ran = None /\ m.answers = <<>>
    BY <1>4, <2>1 DEF Context
  <2>3. CASE /\ ctx' = [ctx EXCEPT ![c] = [m EXCEPT !.phase = "table"]]
             /\ turn' = IF known \/ kind \in Queries THEN c ELSE None
    <3>1. PICK r : r = [m EXCEPT !.phase = "table"] OBVIOUS
    <3>2. r \in Context /\ r.phase = "table" BY <3>1 DEF Context, Phases
    <3>3. /\ r.kind = m.kind /\ r.inBatch = m.inBatch /\ r.definedCallback = m.definedCallback
          /\ r.ops = m.ops /\ r.ran = m.ran /\ r.answers = m.answers
      BY <3>1 DEF Context
    <3>4. ctx' = [ctx EXCEPT ![c] = r] BY <2>3, <3>1
    <3> QED BY <2>2, <2>3, <3>2, <3>3, <3>4
  <2>4. CASE /\ ctx' = [ctx EXCEPT ![c] = [m EXCEPT !.phase = "over", !.answers = <<"error">>]]
             /\ UNCHANGED turn
    <3>1. PICK r : r = [m EXCEPT !.phase = "over", !.answers = <<"error">>] OBVIOUS
    <3>2. <<"error">> \in {<<a>> : a \in Answers} BY DEF Answers
    <3>3. r \in Context /\ r.phase = "over" /\ r.answers = <<"error">> BY <3>1, <3>2 DEF Context, Phases
    <3>4. /\ r.kind = m.kind /\ r.inBatch = m.inBatch /\ r.definedCallback = m.definedCallback
          /\ r.ops = m.ops /\ r.ran = m.ran
      BY <3>1 DEF Context
    <3>5. ctx' = [ctx EXCEPT ![c] = r] BY <2>4, <3>1
    <3>6. turn' = None /\ None # c BY <1>1, <2>4, NoneIsNoKind
    <3> QED BY <2>2, <3>3, <3>4, <3>5, <3>6
  <2> QED BY <1>2, <2>1, <2>3, <2>4 DEF UserCall
<1>7. <<"error">> # <<"cleared">> /\ <<>> # <<"cleared">> OBVIOUS
<1>8. ~Cleared(r) BY <1>6, <1>7 DEF Cleared
<1>9. ContextOK(r) BY <1>1, <1>5, <1>6, <1>8 DEF ContextOK
<1>10. Fresh(r, kind) BY <1>6, <1>8, <1>9 DEF Fresh
<1>11. FailOK' /\ IdleMeansEnded' /\ nTx' = nTx /\ EndsOK' BY <1>1, TxKeeps
<1>12. kind # "execute" /\ kind # "commit" BY <1>5
<1>13. /\ ctx' \in [Call -> Context] /\ AllGo /\ ContextsOK' /\ CallbackOK' /\ AnswerOK'
       /\ batchList' = batchList => BatchOK'
       /\ ~On(c, batchList)
       /\ kind # "commit" => CommitsOK
  BY <1>1, <1>6, <1>10, <1>11, <1>12, NewCall, Zenon
<1>14. \A d \in Call : ctx'[d] = IF d = c THEN r ELSE ctx[d] BY <1>6 DEF IInv, TypeOK
<1>15. batchList \in Seq(Call) BY DEF IInv, TypeOK
<1>16. BatchOK'
  <2>1. CASE ~inBatch BY <1>1, <1>13, <2>1
  <2>2. CASE inBatch
    <3>1. BatchOK BY DEF IInv
    <3>2. PICK n \in Nat : n = Len(batchList) BY <1>15
    <3>3. /\ batchList' \in Seq(Call) /\ Len(batchList') = n + 1 /\ batchList'[n + 1] = c
          /\ \A j \in 1..n : batchList'[j] = batchList[j] /\ batchList[j] \in Call /\ batchList[j] # c
      BY <1>1, <1>13, <1>15, <2>2, <3>2 DEF On
    <3>4. Collected(r) BY <1>6, <1>7, <2>2 DEF Collected, Over
    <3>5. \A j \in 1..(n + 1) : Collected(ctx'[batchList'[j]])
      BY <1>14, <3>1, <3>2, <3>3, <3>4 DEF BatchOK
    <3>6. (\E j \in 1..(n + 1) : Cleared(ctx'[batchList'[j]])) => \E j \in 1..(n + 1) : Over(ctx'[batchList'[j]])
      <4> SUFFICES ASSUME NEW j \in 1..(n + 1), Cleared(ctx'[batchList'[j]])
                   PROVE \E i \in 1..(n + 1) : Over(ctx'[batchList'[i]])
        OBVIOUS
      <4>1. j # n + 1 BY <1>8, <1>14, <3>3
      <4>2. j \in 1..n /\ Cleared(ctx[batchList[j]]) BY <1>14, <3>3, <4>1
      <4>3. PICK i \in 1..n : Over(ctx[batchList[i]]) BY <3>1, <3>2, <4>2 DEF BatchOK, Spoilt
      <4>4. i \in 1..(n + 1) /\ Over(ctx'[batchList'[i]]) BY <1>14, <3>3, <4>3
      <4> QED BY <4>4
    <3>7. ASSUME NEW x \in Call
          PROVE /\ \A j \in 1..Len(ctx'[x].ops) :
                     ctx'[ctx'[x].ops[j]].inBatch /\ ~On(ctx'[x].ops[j], batchList')
                /\ (\E j \in 1..Len(ctx'[x].ops) : Cleared(ctx'[ctx'[x].ops[j]])) =>
                      \E j \in 1..Len(ctx'[x].ops) : Over(ctx'[ctx'[x].ops[j]])
      <4>1. CASE x = c
        <5>1. ctx'[x].ops = <<>> BY <1>6, <1>14, <4>1
        <5>2. Len(ctx'[x].ops) = 0 BY <5>1
        <5> QED BY <5>2
      <4>2. CASE x # c
        <5>1. PICK s \in Seq(Call) : s = ctx[x].ops BY DEF IInv, TypeOK, Context
        <5>2. ctx'[x].ops = s BY <1>14, <4>2, <5>1
        <5>3. \A j \in 1..Len(s) : s[j] \in Call /\ ctx[s[j]].inBatch /\ ~On(s[j], batchList)
          BY <3>1, <5>1 DEF BatchOK
        <5>4. ~o.inBatch BY <1>1, <1>2, <1>3 DEF ContextOK
        <5>5. \A j \in 1..Len(s) : s[j] # c BY <1>2, <5>3, <5>4
        <5>6. \A j \in 1..Len(s) : ctx'[s[j]] = ctx[s[j]] BY <1>14, <5>3, <5>5
        <5>7. \A j \in 1..Len(s) : ~On(s[j], batchList')
          BY <3>2, <3>3, <5>3, <5>5 DEF On
        <5>8. Spoilt(s) BY <3>1, <5>1 DEF BatchOK
        <5> QED BY <5>2, <5>3, <5>6, <5>7, <5>8 DEF Spoilt
      <4> QED BY <4>1, <4>2
    <3> QED BY <3>3, <3>5, <3>6, <3>7 DEF BatchOK, Spoilt, On
  <2> QED BY <2>1, <2>2
<1>17. wire' = wire /\ nTx' \in Nat /\ nTx <= nTx' BY <1>1, <1>11 DEF IInv, TypeOK
<1>18. WireOK' BY <1>13, <1>17, WireSame
<1>19. TypeOK'
  <2>1. batchList' \in Seq(Call) BY <1>1, <1>15
  <2>2. turn' \in Call \cup {None} BY <1>6
  <2> QED BY <1>1, <1>13, <2>1, <2>2 DEF IInv, TypeOK, history
<1>20. TurnOK'
  <2>1. turn' # None => turn' = c /\ ctx'[c].phase = "table" BY <1>6, <1>14
  <2> QED BY <2>1 DEF TurnOK
<1> QED BY <1>11, <1>12, <1>13, <1>16, <1>18, <1>19, <1>20 DEF IInv

\* A step that changes contexts only.
LEMMA QuietStep ==
  ASSUME IInv, ctx' \in [Call -> Context], AllGo, ContextsOK', CallbackOK', AnswerOK', BatchOK',
         UNCHANGED <<state, batchList, wire, history>>, turn' = None
  PROVE IInv'
<1>1. FailOK' /\ IdleMeansEnded' /\ nTx' = nTx /\ EndsOK' BY TxKeeps
<1>2. wire' = wire /\ nTx' \in Nat /\ nTx <= nTx' BY <1>1 DEF IInv, TypeOK
<1>3. WireOK' BY <1>2, WireSame
<1>4. TypeOK' BY DEF IInv, TypeOK, history
<1>5. TurnOK' BY DEF TurnOK
<1> QED BY <1>1, <1>3, <1>4, <1>5 DEF IInv

\* The contexts after a step of one call that was made before.
Contexts(c) ==
  /\ ctx' \in [Call -> Context] /\ AllGo /\ ContextsOK' /\ CallbackOK' /\ AnswerOK' /\ CommitsOK
  /\ batchList' = batchList => BatchOK'

LEMMA OverIs ==
  ASSUME NEW o \in Context, NEW m, m = [o EXCEPT !.phase = "over"]
  PROVE /\ m \in Context /\ m.phase = "over" /\ m.kind = o.kind /\ m.inBatch = o.inBatch
        /\ m.definedCallback = o.definedCallback /\ m.ops = o.ops /\ m.ran = o.ran
        /\ m.answers = o.answers
<1> QED BY DEF Context, Phases

LEMMA OverApplied ==
  ASSUME IInv, NEW c \in Call, ctx[c].phase \in {"table", "asked", "askedAgain"}, nTx' = nTx,
         NEW over, over = [ctx EXCEPT ![c].phase = "over"],
         ctx' = over \/ \E answer \in {"ok", "error"} : Apply(c, over, answer)
  PROVE Contexts(c)
<1>1. PICK o \in Context : o = ctx[c] BY DEF IInv, TypeOK
<1>2. ContextOK(o) BY <1>1 DEF IInv, ContextsOK
<1>3. PICK m : m = [o EXCEPT !.phase = "over"] OBVIOUS
<1>4. /\ m \in Context /\ m.phase = "over" /\ m.kind = o.kind /\ m.inBatch = o.inBatch
      /\ m.definedCallback = o.definedCallback /\ m.ops = o.ops /\ m.ran = o.ran
      /\ m.answers = o.answers
  BY <1>3, OverIs
<1>5. over = [ctx EXCEPT ![c] = m] BY <1>1, <1>3
<1>6. over \in [Call -> Context] /\ over[c] = m BY <1>4, <1>5 DEF IInv, TypeOK
<1>7. PICK r : /\ ctx' = [ctx EXCEPT ![c] = r] /\ r \in Context
               /\ r.kind = o.kind /\ r.inBatch = o.inBatch /\ r.phase = "over" /\ r.ran = o.ran
               /\ r.definedCallback = o.definedCallback /\ r.ops = o.ops
               /\ (o.answers # <<>> => r.answers = o.answers)
               /\ (Cleared(r) => Cleared(o))
  <2>1. CASE ctx' = over BY <1>4, <1>5, <2>1 DEF Cleared
  <2>2. ASSUME NEW answer \in {"ok", "error"}, Apply(c, over, answer)
        PROVE \E r : /\ ctx' = [ctx EXCEPT ![c] = r] /\ r \in Context
               /\ r.kind = o.kind /\ r.inBatch = o.inBatch /\ r.phase = "over" /\ r.ran = o.ran
               /\ r.definedCallback = o.definedCallback /\ r.ops = o.ops
               /\ (o.answers # <<>> => r.answers = o.answers)
               /\ (Cleared(r) => Cleared(o))
    <3>1. PICK r : ctx' = [over EXCEPT ![c] = r] /\ ToldOf(over[c], r)
      BY <1>6, <2>2, ApplyDoes, Zenon
    <3>2. ctx' = [ctx EXCEPT ![c] = r] BY <1>5, <3>1 DEF IInv, TypeOK
    <3>3. ToldOf(m, r) BY <1>6, <3>1
    <3> QED BY <1>4, <3>2, <3>3 DEF ToldOf, Cleared
  <2> QED BY <2>1, <2>2
<1>8. o.kind # "execute" /\ o.kind # None /\ o.ran = None BY <1>1, <1>2 DEF ContextOK
<1>9. ContextOK(r) BY <1>1, <1>2, <1>7, <1>8 DEF ContextOK, Cleared
<1>10. Goes(o, r) BY <1>1, <1>7 DEF Goes, Over
<1>11. Changed(c, r) BY <1>1, <1>7, <1>9, <1>10 DEF Changed
<1>12. ~(r.kind = "execute") BY <1>7, <1>8
<1>13. On(c, batchList) => Collected(r)
  <2> SUFFICES ASSUME On(c, batchList) PROVE Collected(r) OBVIOUS
  <2>1. Collected(o) BY <1>1 DEF IInv, BatchOK, On
  <2> QED BY <1>7, <2>1 DEF Collected, Over
<1>14. /\ ctx' \in [Call -> Context] /\ AllGo /\ ContextsOK' /\ CallbackOK' /\ AnswerOK'
       /\ batchList' = batchList /\ (On(c, batchList) => Collected(r)) => BatchOK'
  BY <1>7, <1>11, <1>12, OneChange, Zenon
<1>15. CommitsOK BY <1>1, <1>7, NoCommit
<1> QED BY <1>13, <1>14, <1>15 DEF Contexts

LEMMA DelegateKeeps ==
  ASSUME IInv, NEW c \in Call, NEW kind, Delegate(c, kind)
  PROVE IInv' /\ CommitsOK
<1>1. /\ turn = None /\ ctx[c].kind = None /\ kind \in Delegates
      /\ UNCHANGED <<state, batchList, known, turn, wire, thrown, history>>
  BY DEF Delegate, NextCall
<1>2. PICK o \in Context : o = ctx[c] BY DEF IInv, TypeOK
<1>3. ContextOK(o) BY <1>2 DEF IInv, ContextsOK
<1>4. o.answers = <<>> /\ o.ops = <<>> /\ o.phase = "new" /\ o.definedCallback = None /\ o.ran = None
      /\ ~o.inBatch
  BY <1>1, <1>2, <1>3 DEF ContextOK
<1>5. kind \in Kinds /\ kind # None /\ kind \notin Operations \cup {"getMapping"}
      /\ kind \notin {"execute", "commit", "rollback"}
  BY <1>1, NoneIsNoKind DEF Kinds, Operations, Finds, Writes, Queries, Delegates
<1>6. PICK r : /\ ctx' = [ctx EXCEPT ![c] = r] /\ r \in Context /\ r.kind = kind /\ ~r.inBatch
               /\ r.definedCallback = None /\ r.ops = <<>> /\ r.ran = None /\ r.phase \in {"asked", "over"}
               /\ r.answers \in {<<>>, <<"error">>}
  <2>1. PICK m \in Context : m = [o EXCEPT !.kind = kind, !.phase = "asked"]
    BY <1>5 DEF Context, Phases
  <2>2. /\ m.kind = kind /\ ~m.inBatch /\ m.definedCallback = None /\ m.ops = <<>>
        /\ m.ran = None /\ m.answers = <<>> /\ m.phase = "asked"
    BY <1>4, <2>1 DEF Context
  <2>3. PICK made : made = [ctx EXCEPT ![c].kind = kind, ![c].phase = "asked"] OBVIOUS
  <2>4. made = [ctx EXCEPT ![c] = m] /\ made[c] = m BY <1>2, <2>1, <2>3 DEF IInv, TypeOK
  <2>5. CASE ctx' = made BY <2>2, <2>4, <2>5
  <2>6. CASE ctx' = [made EXCEPT ![c].answers = <<"error">>,
                               ![c].phase = IF kind = "dropTable" THEN "asked" ELSE "over"]
    <3>1. PICK p \in {"asked", "over"} : p = IF kind = "dropTable" THEN "asked" ELSE "over" OBVIOUS
    <3>2. PICK r : r = [m EXCEPT !.answers = <<"error">>, !.phase = p] OBVIOUS
    <3>3. <<"error">> \in {<<a>> : a \in Answers} BY DEF Answers
    <3>4. r \in Context /\ r.phase = p /\ r.answers = <<"error">> BY <3>2, <3>3 DEF Context, Phases
    <3>5. /\ r.kind = m.kind /\ r.inBatch = m.inBatch /\ r.definedCallback = m.definedCallback
          /\ r.ops = m.ops /\ r.ran = m.ran
      BY <3>2 DEF Context
    <3>6. made \in [Call -> Context] BY <2>4 DEF IInv, TypeOK
    <3>7. ctx' = [made EXCEPT ![c] = r] BY <2>4, <2>6, <3>1, <3>2, <3>6
    <3>8. ctx' = [ctx EXCEPT ![c] = r] BY <2>4, <3>7 DEF IInv, TypeOK
    <3> QED BY <2>2, <3>4, <3>5, <3>8
  <2> QED BY <2>3, <2>5, <2>6 DEF Delegate
<1>7. <<"error">> # <<"cleared">> /\ <<>> # <<"cleared">> OBVIOUS
<1>8. ~Cleared(r) BY <1>6, <1>7 DEF Cleared
<1>9. ContextOK(r) BY <1>1, <1>5, <1>6, <1>8 DEF ContextOK
<1>10. Fresh(r, kind) BY <1>6, <1>8, <1>9 DEF Fresh
<1>11. nTx' = nTx BY <1>1 DEF history
<1>12. kind # "execute" /\ kind # "commit" BY <1>5
<1>13. /\ ctx' \in [Call -> Context] /\ AllGo /\ ContextsOK' /\ CallbackOK' /\ AnswerOK'
       /\ batchList' = batchList => BatchOK'
       /\ ~On(c, batchList)
       /\ kind # "commit" => CommitsOK
  BY <1>1, <1>6, <1>10, <1>11, <1>12, NewCall, Zenon
<1>14. UNCHANGED <<state, batchList, wire, history>> /\ turn' = None BY <1>1
<1>15. IInv' BY <1>13, <1>14, QuietStep
<1> QED BY <1>12, <1>13, <1>15

LEMMA DelegateAnsweredKeeps ==
  ASSUME IInv, NEW c \in Call, DelegateAnswered(c)
  PROVE IInv' /\ CommitsOK
<1>1. /\ turn = None /\ ctx[c].phase \in {"asked", "askedAgain"}
      /\ UNCHANGED <<state, batchList, known, turn, wire, history>>
  BY DEF DelegateAnswered
<1>2. nTx' = nTx BY <1>1 DEF history
<1>3. PICK over : over = [ctx EXCEPT ![c].phase = "over"] OBVIOUS
<1>4. \/ ctx' = [ctx EXCEPT ![c].phase = "askedAgain"]
      \/ ctx' = over \/ \E answer \in {"ok", "error"} : Apply(c, over, answer)
  BY <1>3 DEF DelegateAnswered
<1>5. Contexts(c)
  <2>1. CASE ctx' = over \/ \E answer \in {"ok", "error"} : Apply(c, over, answer)
    <3>1. ctx[c].phase \in {"table", "asked", "askedAgain"} BY <1>1
    <3> QED BY <1>2, <1>3, <2>1, <3>1, OverApplied, Zenon
  <2>2. CASE ctx' = [ctx EXCEPT ![c].phase = "askedAgain"]
    <3>1. PICK o \in Context : o = ctx[c] BY DEF IInv, TypeOK
    <3>2. ContextOK(o) BY <3>1 DEF IInv, ContextsOK
    <3>3. PICK r : r = [o EXCEPT !.phase = "askedAgain"] OBVIOUS
    <3>4. r \in Context /\ r.phase = "askedAgain" BY <3>3 DEF Context, Phases
    <3>5. /\ r.kind = o.kind /\ r.inBatch = o.inBatch /\ r.definedCallback = o.definedCallback
          /\ r.ops = o.ops /\ r.ran = o.ran /\ r.answers = o.answers
      BY <3>3 DEF Context
    <3>6. ctx' = [ctx EXCEPT ![c] = r] BY <2>2, <3>1, <3>3
    <3>7. o.phase \in {"asked", "askedAgain"} BY <1>1, <3>1
    <3>8. o.kind \in Delegates BY <3>2, <3>7 DEF ContextOK
    <3>9. o.kind # "execute" /\ o.kind # None /\ ~o.inBatch
      <4>1. o.kind \notin Finds \cup Writes BY <3>8 DEF Finds, Writes, Delegates
      <4>2. o.kind # None BY <3>8, NoneIsNoKind
      <4> QED BY <3>2, <3>8, <4>1, <4>2 DEF ContextOK, Delegates
    <3>10. ContextOK(r) BY <3>2, <3>4, <3>5, <3>7, <3>8, <3>9 DEF ContextOK, Cleared
    <3>11. Goes(o, r) BY <3>4, <3>5, <3>7 DEF Goes, Over
    <3>12. Changed(c, r) BY <3>1, <3>4, <3>5, <3>10, <3>11 DEF Changed, Cleared
    <3>13. ~(r.kind = "execute") BY <3>5, <3>9
    <3>14. ~On(c, batchList) BY <3>1, <3>9 DEF IInv, BatchOK, On, Collected
    <3>15. /\ ctx' \in [Call -> Context] /\ AllGo /\ ContextsOK' /\ CallbackOK' /\ AnswerOK'
           /\ batchList' = batchList /\ (On(c, batchList) => Collected(r)) => BatchOK'
      BY <1>2, <3>6, <3>12, <3>13, OneChange, Zenon
    <3>16. CommitsOK BY <3>1, <3>5, <3>6, NoCommit
    <3> QED BY <3>14, <3>15, <3>16 DEF Contexts
  <2> QED BY <1>4, <2>1, <2>2
<1>6. UNCHANGED <<state, batchList, wire, history>> /\ turn' = None BY <1>1
<1>7. /\ ctx' \in [Call -> Context] /\ AllGo /\ ContextsOK' /\ CallbackOK' /\ AnswerOK' /\ BatchOK'
      /\ CommitsOK
  BY <1>1, <1>5 DEF Contexts
<1> QED BY <1>6, <1>7, QuietStep

LEMMA BeginKeeps ==
  ASSUME IInv, Begin
  PROVE IInv' /\ CommitsOK
<1>1. /\ turn = None /\ state = "idle" /\ state' = "active" /\ nTx' = nTx + 1
      /\ UNCHANGED <<ctx, batchList, known, turn, wire, ended, failed, overlap, thrown>>
  BY DEF Begin
<1>2. TypeOK BY DEF IInv
<1>3. nTx \in Nat /\ nTx' \in Nat /\ nTx <= nTx' BY <1>1, <1>2 DEF TypeOK
<1>4. TypeOK'
  <2>1. 0..nTx \subseteq 0..nTx' /\ 1..nTx \subseteq 1..nTx' BY <1>1, <1>3
  <2> QED BY <1>1, <1>2, <1>3, <2>1 DEF TypeOK
<1>5. AllGo /\ ctx' \in [Call -> Context] BY <1>1, <1>2 DEF AllGo, Goes, TypeOK
<1>6. ContextsOK'
  <2>1. \A c \in Call : ContextOK(ctx[c]) /\ ctx[c] \in Context BY <1>2 DEF IInv, ContextsOK, TypeOK
  <2>2. \A c \in Call : ctx[c].phase = "handed" => ctx[c].ran \in Nat /\ ctx[c].ran <= nTx'
    BY <1>1, <1>3, <2>1 DEF ContextOK
  <2> QED BY <1>1, <2>1, <2>2 DEF ContextsOK, ContextOK
<1>7. CallbackOK' /\ TurnOK' /\ AnswerOK' /\ BatchOK'
  BY <1>1 DEF IInv, CallbackOK, TurnOK, AnswerOK, BatchOK, Answered, Spoilt
<1>8. WireOK' BY <1>1, <1>3, <1>5, WireSame
<1>9. nTx' \notin failed /\ nTx' \notin ended \cup {0} BY <1>1, <1>2, <1>3 DEF TypeOK
<1>10. FailOK' BY <1>1, <1>9 DEF FailOK
<1>11. IdleMeansEnded' BY <1>1, <1>9 DEF IdleMeansEnded
<1>12. EndsOK'
  <2>1. ~overlap => \A j \in 1..Len(wire) : ~IsEnd(wire[j]) BY <1>1 DEF IInv, EndsOK
  <2> QED BY <1>1, <2>1 DEF EndsOK
<1>13. CommitsOK BY <1>1, NoneIsNoKind DEF CommitsOK
<1> QED BY <1>4, <1>6, <1>7, <1>8, <1>10, <1>11, <1>12, <1>13 DEF IInv

LEMMA SetRollbackOnlyKeeps ==
  ASSUME IInv, SetRollbackOnly
  PROVE IInv' /\ CommitsOK
<1>1. /\ state = "active" /\ state' = "rollbackOnly"
      /\ UNCHANGED <<ctx, batchList, known, turn, wire, history, thrown>>
  BY DEF SetRollbackOnly
<1>2. UNCHANGED <<ctx, batchList, turn, wire, nTx, ended, failed, overlap>> BY <1>1 DEF history
<1>3. TypeOK' BY <1>1, <1>2 DEF IInv, TypeOK
<1>4. ContextsOK' BY <1>2 DEF IInv, ContextsOK, ContextOK
<1>5. CallbackOK' /\ TurnOK' /\ AnswerOK' /\ BatchOK'
  BY <1>2 DEF IInv, CallbackOK, TurnOK, AnswerOK, BatchOK, Answered, Spoilt
<1>6. ctx' \in [Call -> Context] /\ nTx' \in Nat /\ nTx <= nTx' /\ wire' = wire /\ AllGo
  BY <1>2 DEF IInv, TypeOK, AllGo, Goes
<1>7. WireOK' BY <1>6, WireSame
<1>8. FailOK' BY <1>1 DEF FailOK
<1>9. IdleMeansEnded' /\ EndsOK' BY <1>1, <1>2 DEF IInv, IdleMeansEnded, EndsOK
<1>10. CommitsOK BY <1>2, NoneIsNoKind DEF CommitsOK
<1> QED BY <1>3, <1>4, <1>5, <1>7, <1>8, <1>9, <1>10 DEF IInv

LEMMA EndKeeps ==
  ASSUME IInv, NEW c \in Call, NEW how \in {"commit", "rollback"}, End(c, how)
  PROVE IInv' /\ CommitsOK
<1>1. /\ turn = None /\ ctx[c].kind = None
      /\ UNCHANGED <<state, batchList, known, turn, nTx, ended, failed>>
  BY DEF End, NextCall
<1>2. PICK o \in Context : o = ctx[c] BY DEF IInv, TypeOK
<1>3. ContextOK(o) BY <1>2 DEF IInv, ContextsOK
<1>4. o.answers = <<>> /\ o.ops = <<>> /\ o.phase = "new" /\ o.definedCallback = None /\ o.ran = None
      /\ ~o.inBatch
  BY <1>1, <1>2, <1>3 DEF ContextOK
<1>5. how \in Kinds /\ how # None /\ how \notin Operations \cup Delegates \cup {"getMapping", "execute"}
  BY NoneIsNoKind DEF Kinds, Operations, Finds, Writes, Queries, Delegates
<1>6. RunsIn \in Nat /\ RunsIn <= nTx BY DEF IInv, TypeOK, RunsIn
<1>7. TypeOK /\ FailOK /\ IdleMeansEnded /\ EndsOK BY DEF IInv
<1>8. CASE /\ Allows(how)
           /\ ctx' = [ctx EXCEPT ![c].kind = how, ![c].phase = "handed", ![c].ran = RunsIn]
           /\ Hand(how, <<>>, c) /\ overlap' = (overlap \/ Ending)
  <2>1. PICK r : r = [o EXCEPT !.kind = how, !.phase = "handed", !.ran = RunsIn] OBVIOUS
  <2>2. r \in Context /\ r.kind = how /\ r.phase = "handed" /\ r.ran = RunsIn
    BY <1>5, <1>6, <2>1 DEF Context, Phases
  <2>3. r.inBatch = o.inBatch /\ r.definedCallback = o.definedCallback /\ r.ops = o.ops /\ r.answers = o.answers
    BY <2>1 DEF Context
  <2>4. ctx' = [ctx EXCEPT ![c] = r] BY <1>2, <1>8, <2>1 DEF IInv, TypeOK
  <2>5. ~Cleared(r) BY <1>4, <2>3 DEF Cleared
  <2>6. ContextOK(r) BY <1>4, <1>5, <1>6, <2>2, <2>3, <2>5 DEF ContextOK
  <2>7. Fresh(r, how) BY <1>4, <2>2, <2>3, <2>5, <2>6 DEF Fresh
  <2>8. how # "execute" /\ nTx' = nTx BY <1>1
  <2>9. /\ ctx' \in [Call -> Context] /\ AllGo /\ ContextsOK' /\ CallbackOK' /\ AnswerOK'
        /\ batchList' = batchList => BatchOK'
        /\ ~On(c, batchList)
        /\ how # "commit" => CommitsOK
    BY <1>1, <2>4, <2>7, <2>8, NewCall, Zenon
  <2>10. \A d \in Call : ctx'[d] = IF d = c THEN r ELSE ctx[d] BY <1>7, <2>4 DEF TypeOK
  <2>11. PICK w \in Entry : w = [what |-> how, ops |-> <<>>, for |-> c, tx |-> RunsIn]
    <3>1. <<>> \in Seq(Call) OBVIOUS
    <3>2. [what |-> how, ops |-> <<>>, for |-> c, tx |-> RunsIn] \in Entry BY <1>6, <3>1 DEF Entry
    <3> QED BY <3>2
  <2>12. w.what = how /\ w.for = c /\ w.tx = RunsIn BY <2>11
  <2>13. wire' = Append(wire, w) BY <1>8, <2>11 DEF Hand
  <2>14. EntryOK(w)'
    <3>1. ctx'[c].kind = how BY <2>2, <2>10
    <3> QED BY <1>1, <1>6, <2>12, <3>1 DEF EntryOK
  <2>15. WireOK' /\ wire' \in Seq(Entry) BY <2>8, <2>9, <2>13, <2>14, WireAdds
  <2>16. overlap' \in BOOLEAN BY <1>7, <1>8 DEF TypeOK
  <2>17. TypeOK' BY <1>1, <1>7, <2>9, <2>15, <2>16 DEF TypeOK
  <2>18. TurnOK' BY <1>1 DEF TurnOK
  <2>19. FailOK' /\ IdleMeansEnded' BY <1>1, <1>7, <1>8 DEF FailOK, IdleMeansEnded
  <2>20. state # "idle" BY <1>8 DEF Allows
  <2>21. EndsOK'
    <3> SUFFICES ASSUME ~overlap'
                 PROVE \A j \in 1..Len(wire') : IsEnd(wire'[j]) =>
                         /\ wire'[j].tx = nTx /\ state # "idle"
                         /\ \A i \in 1..Len(wire') : IsEnd(wire'[i]) => i = j
      BY <1>1 DEF EndsOK, IsEnd
    <3>1. ~Ending BY <1>8
    <3>2. RunsIn = nTx BY <2>20, <3>1 DEF RunsIn
    <3>3. PICK n \in Nat : n = Len(wire) BY <1>7 DEF TypeOK
    <3>4. Len(wire') = n + 1 /\ wire'[n + 1] = w /\ \A j \in 1..n : wire'[j] = wire[j]
      BY <1>7, <2>13, <3>3 DEF TypeOK
    <3>5. \A j \in 1..n : ~IsEnd(wire'[j]) BY <3>1, <3>3, <3>4 DEF Ending, IsEnd
    <3>6. \A j \in 1..(n + 1) : IsEnd(wire'[j]) => j = n + 1 BY <3>5
    <3> QED BY <2>12, <2>20, <3>2, <3>4, <3>6
  <2>22. CommitsOK
    <3> SUFFICES ASSUME NEW d \in Call, ctx[d].kind = None, ctx'[d].kind = "commit", ctx'[d].ran # 0
                 PROVE ctx'[d].ran \notin failed
      BY DEF CommitsOK
    <3>1. d = c /\ how = "commit" BY <2>2, <2>10, NoneIsNoKind
    <3>2. ctx'[d].ran = RunsIn BY <2>2, <2>10, <3>1
    <3>3. RunsIn = nTx BY <3>2 DEF RunsIn
    <3>4. state = "active" BY <1>8, <3>1 DEF Allows
    <3> QED BY <1>7, <3>2, <3>3, <3>4 DEF FailOK
  <2> QED BY <1>1, <2>9, <2>15, <2>17, <2>18, <2>19, <2>21, <2>22 DEF IInv
<1>9. CASE /\ \/ ctx' = [ctx EXCEPT ![c].kind = how, ![c].phase = "over"]
              \/ ctx' = [ctx EXCEPT ![c].kind = how, ![c].phase = "over", ![c].answers = <<"error">>]
           /\ UNCHANGED <<wire, overlap>>
  <2>1. PICK r : /\ ctx' = [ctx EXCEPT ![c] = r] /\ r \in Context /\ r.kind = how /\ ~r.inBatch
                 /\ r.definedCallback = None /\ r.ops = <<>> /\ r.ran = None /\ r.phase = "over"
                 /\ r.answers \in {<<>>, <<"error">>}
    <3>1. PICK m : m = [o EXCEPT !.kind = how, !.phase = "over"] OBVIOUS
    <3>2. /\ m \in Context /\ m.kind = how /\ ~m.inBatch /\ m.phase = "over"
          /\ m.definedCallback = None /\ m.ops = <<>> /\ m.ran = None /\ m.answers = <<>>
      BY <1>4, <1>5, <3>1 DEF Context, Phases
    <3>3. CASE ctx' = [ctx EXCEPT ![c].kind = how, ![c].phase = "over"]
      <4>1. ctx' = [ctx EXCEPT ![c] = m] BY <1>2, <1>7, <3>1, <3>3 DEF TypeOK
      <4> QED BY <3>2, <4>1
    <3>4. CASE ctx' = [ctx EXCEPT ![c].kind = how, ![c].phase = "over", ![c].answers = <<"error">>]
      <4>1. PICK r : r = [m EXCEPT !.answers = <<"error">>] OBVIOUS
      <4>2. <<"error">> \in {<<a>> : a \in Answers} BY DEF Answers
      <4>3. /\ r \in Context /\ r.kind = m.kind /\ r.inBatch = m.inBatch /\ r.phase = m.phase
            /\ r.definedCallback = m.definedCallback /\ r.ops = m.ops /\ r.ran = m.ran
            /\ r.answers = <<"error">>
        BY <3>2, <4>1, <4>2 DEF Context
      <4>4. ctx' = [ctx EXCEPT ![c] = r] BY <1>2, <1>7, <3>1, <3>4, <4>1 DEF TypeOK
      <4> QED BY <3>2, <4>3, <4>4
    <3> QED BY <1>9, <3>3, <3>4
  <2>2. <<"error">> # <<"cleared">> /\ <<>> # <<"cleared">> OBVIOUS
  <2>3. ~Cleared(r) BY <2>1, <2>2 DEF Cleared
  <2>4. ContextOK(r) BY <1>5, <2>1, <2>3 DEF ContextOK
  <2>5. Fresh(r, how) BY <2>1, <2>3, <2>4 DEF Fresh
  <2>6. how # "execute" /\ nTx' = nTx BY <1>1
  <2>7. /\ ctx' \in [Call -> Context] /\ AllGo /\ ContextsOK' /\ CallbackOK' /\ AnswerOK'
        /\ batchList' = batchList => BatchOK'
        /\ ~On(c, batchList)
        /\ how # "commit" => CommitsOK
    BY <1>1, <2>1, <2>5, <2>6, NewCall, Zenon
  <2>8. UNCHANGED <<state, batchList, wire, history>> /\ turn' = None BY <1>1, <1>9 DEF history
  <2>9. IInv' BY <1>1, <2>7, <2>8, QuietStep
  <2>10. \A d \in Call : ctx'[d] = IF d = c THEN r ELSE ctx[d] BY <1>7, <2>1 DEF TypeOK
  <2>11. CommitsOK BY <2>1, <2>10, NoneIsNoKind DEF CommitsOK
  <2> QED BY <2>9, <2>11
<1> QED BY <1>8, <1>9, Zenon DEF End

\* What is given to the adapter changes its phase only.
Like(cs) ==
  \A d \in Call : /\ ctx'[d].kind = cs[d].kind /\ ctx'[d].inBatch = cs[d].inBatch
                  /\ ctx'[d].definedCallback = cs[d].definedCallback
                  /\ ctx'[d].ops = cs[d].ops /\ ctx'[d].answers = cs[d].answers

HandedOver(cs, s) ==
  /\ ctx' \in [Call -> Context] /\ AllGo /\ ContextsOK' /\ Like(cs)
  /\ \A d \in Call : IF On(d, s) THEN ctx'[d].phase = "handed" ELSE ctx'[d] = cs[d]

\* Contexts that may be after a step.
MayBecome(cs) == \A d \in Call : Goes(ctx[d], cs[d]) /\ ContextOK(cs[d])

LEMMA RunsInIs == ASSUME IInv PROVE RunsIn \in Nat /\ RunsIn <= nTx
<1> QED BY DEF IInv, TypeOK, RunsIn

LEMMA HandedKeeps ==
  ASSUME IInv, NEW cs \in [Call -> Context], NEW s \in Seq(Call), MayBecome(cs), nTx' = nTx,
         \A j \in 1..Len(s) : HasOperation(cs, s[j]) /\ ~Cleared(cs[s[j]]) /\ cs[s[j]].kind \in Operations,
         ctx' = Handed(cs, s)
  PROVE HandedOver(cs, s)
<1>1. PICK n \in Nat : n = RunsIn /\ n <= nTx BY RunsInIs
<1>2. \A d \in Call : ctx'[d] = IF On(d, s) THEN [cs[d] EXCEPT !.phase = "handed", !.ran = n] ELSE cs[d]
  BY <1>1 DEF Handed, On
<1>3. ASSUME NEW d \in Call
      PROVE /\ ctx'[d] \in Context /\ Goes(ctx[d], ctx'[d]) /\ ContextOK(ctx'[d])
            /\ ctx'[d].kind = cs[d].kind /\ ctx'[d].inBatch = cs[d].inBatch
            /\ ctx'[d].definedCallback = cs[d].definedCallback
            /\ ctx'[d].ops = cs[d].ops /\ ctx'[d].answers = cs[d].answers
            /\ On(d, s) => ctx'[d].phase = "handed"
  <2>1. PICK o \in Context : o = cs[d] OBVIOUS
  <2>2. Goes(ctx[d], o) /\ ContextOK(o) BY <2>1 DEF MayBecome
  <2>3. CASE ~On(d, s) BY <1>2, <2>1, <2>2, <2>3
  <2>4. CASE On(d, s)
    <3>1. PICK r : r = [o EXCEPT !.phase = "handed", !.ran = n] OBVIOUS
    <3>2. r \in Context /\ r.phase = "handed" /\ r.ran = n BY <3>1 DEF Context, Phases
    <3>3. /\ r.kind = o.kind /\ r.inBatch = o.inBatch /\ r.definedCallback = o.definedCallback
          /\ r.ops = o.ops /\ r.answers = o.answers
      BY <3>1 DEF Context
    <3>4. ctx'[d] = r BY <1>2, <2>1, <2>4, <3>1
    <3>5. o.phase \in {"defined", "handed"} /\ ~Cleared(o) /\ o.kind \in Operations
      BY <2>1, <2>4 DEF On, HasOperation
    <3>6. o.kind # None /\ o.kind # "execute"
      BY <3>5, NoneIsNoKind DEF Operations, Finds, Writes, Queries
    <3>7. ContextOK(r) BY <1>1, <2>2, <3>2, <3>3, <3>5, <3>6 DEF ContextOK, Cleared
    <3>8. Goes(ctx[d], r) BY <2>2, <3>2, <3>3, <3>5 DEF Goes, Over
    <3> QED BY <2>1, <3>2, <3>3, <3>4, <3>7, <3>8
  <2> QED BY <2>3, <2>4
<1>4. ctx' \in [Call -> Context]
  <2>1. ctx' = [d \in Call |-> ctx'[d]] BY DEF Handed
  <2> QED BY <1>3, <2>1
<1>5. AllGo BY <1>3 DEF AllGo
<1>6. ContextsOK' BY <1>3 DEF ContextsOK, ContextOK
<1>7. Like(cs) BY <1>3 DEF Like
<1> QED BY <1>2, <1>3, <1>4, <1>5, <1>6, <1>7 DEF HandedOver

\* A step in which contexts change their phase only, and are not answered.
LEMMA PhasesKeep ==
  ASSUME IInv, ctx' \in [Call -> Context], AllGo, ContextsOK', Like(ctx), batchList' = batchList,
         \A d \in Call : On(d, batchList) => Collected(ctx'[d])
  PROVE CallbackOK' /\ AnswerOK' /\ BatchOK' /\ CommitsOK
<1>1. TypeOK /\ ContextsOK /\ CallbackOK /\ AnswerOK /\ BatchOK BY DEF IInv
<1>2. CallbackOK'
  <2>1. \A c \in Call : ctx'[c].definedCallback = ctx[c].definedCallback BY DEF Like
  <2> QED BY <1>1, <2>1, CallbacksKeep
<1>3. AnswerOK'
  <2>1. \A x \in Call : ctx'[x].kind = "execute" /\ Answered(x)' =>
           \/ ctx[x].kind = "execute" /\ Answered(x)
           \/ \A j \in 1..Len(ctx'[x].ops) : Answered(ctx[x].ops[j])'
    BY DEF Like, Answered
  <2> QED BY <1>1, <2>1, AnswersKeep
<1>4. BatchOK'
  <2>1. \A c \in Call : ctx'[c].ops = ctx[c].ops BY DEF Like
  <2>2. \A c \in Call : Cleared(ctx'[c]) => Cleared(ctx[c]) BY DEF Like, Cleared
  <2> QED BY <1>1, <2>1, <2>2, BatchKeeps
<1>5. CommitsOK BY NoneIsNoKind DEF Like, CommitsOK
<1> QED BY <1>2, <1>3, <1>4, <1>5

\* Operations are given to the adapter.
LEMMA HandKeeps ==
  ASSUME IInv, ctx' \in [Call -> Context], AllGo, UNCHANGED <<state, history>>,
         NEW s \in Seq(Call), NEW x \in Call, Hand("operations", s, x),
         ctx'[x].kind \in Operations \cup {"execute"},
         \A j \in 1..Len(s) : /\ ctx'[s[j]].phase = "handed" /\ ctx'[s[j]].kind \in Operations
                              /\ ctx'[x].kind = "execute" => ctx'[s[j]].inBatch,
         ctx'[x].kind = "execute" => ctx'[x].ops = s
  PROVE FailOK' /\ IdleMeansEnded' /\ WireOK' /\ EndsOK' /\ wire' \in Seq(Entry)
<1>1. RunsIn \in Nat /\ RunsIn <= nTx BY RunsInIs
<1>2. PICK w \in Entry : w = [what |-> "operations", ops |-> s, for |-> x, tx |-> RunsIn]
  BY <1>1 DEF Entry
<1>3. w.what = "operations" /\ w.ops = s /\ w.for = x /\ w.tx = RunsIn BY <1>2
<1>4. wire' = Append(wire, w) BY <1>2 DEF Hand
<1>5. FailOK' /\ IdleMeansEnded' /\ nTx' = nTx /\ EndsOK'
  <2>1. ~IsEnd(w) BY <1>3 DEF IsEnd
  <2> QED BY <1>4, <2>1, TxKeeps
<1>6. EntryOK(w)'
  <2>1. ctx'[x].kind = "execute" => \A i \in 1..Len(ctx'[x].ops) : On(ctx'[x].ops[i], s)
    BY DEF On
  <2>2. w.tx <= nTx' BY <1>1, <1>3, <1>5
  <2> QED BY <1>3, <2>1, <2>2 DEF EntryOK
<1>7. WireOK' /\ wire' \in Seq(Entry) BY <1>4, <1>5, <1>6, WireAdds
<1> QED BY <1>5, <1>7
\* The operation of a call is defined.
LEMMA DefineKeeps ==
  ASSUME IInv, NEW c \in Call, ctx[c].phase = "table", ctx[c].kind \in Operations, Define(c),
         UNCHANGED <<state, batchList, history>>, turn' = None
  PROVE IInv' /\ CommitsOK
<1>1. TypeOK /\ ContextsOK /\ CallbackOK /\ BatchOK BY DEF IInv
<1>2. PICK o \in Context : o = ctx[c] BY <1>1 DEF TypeOK
<1>3. ContextOK(o) /\ o.phase = "table" /\ o.kind \in Operations BY <1>1, <1>2 DEF ContextsOK
<1>4. o.kind # None /\ o.kind # "execute" BY <1>3, NoneIsNoKind DEF Operations, Finds, Writes, Queries
<1>5. PICK m : m = [o EXCEPT !.phase = "defined"] OBVIOUS
<1>6. /\ m \in Context /\ m.phase = "defined" /\ m.kind = o.kind /\ m.inBatch = o.inBatch
      /\ m.definedCallback = o.definedCallback /\ m.ops = o.ops /\ m.ran = o.ran
      /\ m.answers = o.answers
  BY <1>5 DEF Context, Phases
<1>7. PICK cs \in [Call -> Context] : cs = [ctx EXCEPT ![c].phase = "defined"] /\ cs = [ctx EXCEPT ![c] = m]
  BY <1>1, <1>2, <1>5, <1>6 DEF TypeOK
<1>8. \A d \in Call : cs[d] = IF d = c THEN m ELSE ctx[d] BY <1>1, <1>7 DEF TypeOK
<1>9. ContextOK(m) BY <1>3, <1>4, <1>6 DEF ContextOK, Cleared
<1>10. MayBecome(cs)
  <2>1. Goes(o, m) BY <1>3, <1>6 DEF Goes, Over
  <2>2. \A d \in Call : Goes(ctx[d], ctx[d]) /\ ContextOK(ctx[d]) BY <1>1 DEF Goes, ContextsOK
  <2> QED BY <1>2, <1>8, <1>9, <2>1, <2>2 DEF MayBecome
<1>11. \A d \in Call : /\ cs[d].kind = ctx[d].kind /\ cs[d].inBatch = ctx[d].inBatch
                       /\ cs[d].definedCallback = ctx[d].definedCallback
                       /\ cs[d].ops = ctx[d].ops /\ cs[d].answers = ctx[d].answers
  BY <1>2, <1>6, <1>8
<1>12. On(c, batchList) => Collected(m)
  <2> SUFFICES ASSUME On(c, batchList) PROVE Collected(m) OBVIOUS
  <2>1. Collected(o) BY <1>1, <1>2 DEF BatchOK, On
  <2> QED BY <1>3, <1>6, <2>1 DEF Collected, Over, Cleared
<1>13. \A d \in Call : On(d, batchList) => Collected(cs[d])
  <2>1. \A d \in Call : On(d, batchList) => Collected(ctx[d]) BY <1>1 DEF BatchOK, On
  <2> QED BY <1>8, <1>12, <2>1
<1>14. nTx' = nTx BY DEF history
<1>15. ASSUME NEW s \in Seq(Call), HandedOver(cs, s), \A d \in Call : On(d, s) => ~On(d, batchList)
       PROVE CallbackOK' /\ AnswerOK' /\ BatchOK' /\ CommitsOK
  <2>1. ctx' \in [Call -> Context] /\ AllGo /\ ContextsOK' BY <1>15 DEF HandedOver
  <2>2. Like(ctx) BY <1>11, <1>15 DEF HandedOver, Like
  <2>3. \A d \in Call : On(d, batchList) => Collected(ctx'[d]) BY <1>13, <1>15 DEF HandedOver
  <2> QED BY <2>1, <2>2, <2>3, PhasesKeep
<1>16. ASSUME NEW s \in Seq(Call), NEW x \in Call, HandedOver(cs, s), Hand("operations", s, x),
              \A d \in Call : On(d, s) => ~On(d, batchList),
              cs[x].kind \in Operations \cup {"execute"},
              \A j \in 1..Len(s) : cs[s[j]].kind \in Operations /\ (cs[x].kind = "execute" => cs[s[j]].inBatch),
              cs[x].kind = "execute" => cs[x].ops = s
       PROVE IInv' /\ CommitsOK
  <2>1. ctx' \in [Call -> Context] /\ AllGo /\ ContextsOK' /\ Like(cs) BY <1>16 DEF HandedOver
  <2>2. CallbackOK' /\ AnswerOK' /\ BatchOK' /\ CommitsOK BY <1>15, <1>16
  <2>3. ctx'[x].kind = cs[x].kind /\ ctx'[x].ops = cs[x].ops BY <2>1 DEF Like
  <2>4. \A j \in 1..Len(s) : /\ ctx'[s[j]].phase = "handed" /\ ctx'[s[j]].kind \in Operations
                             /\ ctx'[x].kind = "execute" => ctx'[s[j]].inBatch
    <3> SUFFICES ASSUME NEW j \in 1..Len(s)
                 PROVE /\ ctx'[s[j]].phase = "handed" /\ ctx'[s[j]].kind \in Operations
                       /\ ctx'[x].kind = "execute" => ctx'[s[j]].inBatch
      OBVIOUS
    <3>1. s[j] \in Call /\ On(s[j], s) BY DEF On
    <3>2. ctx'[s[j]].phase = "handed" BY <1>16, <3>1 DEF HandedOver
    <3>3. ctx'[s[j]].kind = cs[s[j]].kind /\ ctx'[s[j]].inBatch = cs[s[j]].inBatch BY <2>1, <3>1 DEF Like
    <3> QED BY <1>16, <2>3, <3>2, <3>3
  <2>5. FailOK' /\ IdleMeansEnded' /\ WireOK' /\ EndsOK' /\ wire' \in Seq(Entry)
    BY <1>16, <2>1, <2>3, <2>4, HandKeeps, Zenon
  <2>6. TypeOK' BY <1>1, <2>1, <2>5 DEF TypeOK, history
  <2>7. TurnOK' BY DEF TurnOK
  <2> QED BY <2>1, <2>2, <2>5, <2>6, <2>7 DEF IInv
<1>17. CASE ~o.inBatch
  <2>1. ctx' = Handed(cs, <<c>>) /\ Hand("operations", <<c>>, c) BY <1>2, <1>7, <1>17 DEF Define
  <2>2. PICK s \in Seq(Call) : s = <<c>>
    <3>1. <<c>> \in Seq(Call) OBVIOUS
    <3> QED BY <3>1
  <2>3. Len(s) = 1 /\ s[1] = c BY <2>2
  <2>4. cs[c] = m BY <1>8
  <2>5. \A j \in 1..Len(s) : s[j] = c BY <2>3
  <2>6. ~Cleared(m) BY <1>6, <1>9, <1>17 DEF ContextOK
  <2>7. \A j \in 1..Len(s) : HasOperation(cs, s[j]) /\ ~Cleared(cs[s[j]]) /\ cs[s[j]].kind \in Operations
    BY <1>3, <1>6, <2>4, <2>5, <2>6 DEF HasOperation
  <2>8. HandedOver(cs, s) BY <1>10, <1>14, <2>1, <2>2, <2>7, HandedKeeps
  <2>9. ~On(c, batchList)
    <3>1. \A d \in Call : On(d, batchList) => ctx[d].inBatch BY <1>1 DEF BatchOK, On, Collected
    <3> QED BY <1>2, <1>17, <3>1
  <2>10. \A d \in Call : On(d, s) => ~On(d, batchList) BY <2>5, <2>9 DEF On
  <2>11. cs[c].kind \in Operations /\ cs[c].kind # "execute" BY <1>3, <1>4, <1>6, <2>4
  <2> QED BY <1>16, <2>1, <2>2, <2>5, <2>8, <2>10, <2>11
<1>18. CASE o.inBatch /\ ctx[c].definedCallback # None /\ AllDefined(cs, ctx[c].definedCallback)
  <2>1. PICK x \in Call : x = ctx[c].definedCallback BY <1>1, <1>18 DEF TypeOK, Context
  <2>2. ctx[x].kind = "execute" BY <1>1, <1>18, <2>1 DEF CallbackOK
  <2>3. PICK s \in Seq(Call) : s = ctx[x].ops BY <1>1 DEF TypeOK, Context
  <2>4. cs[x].kind = "execute" /\ cs[x].ops = s BY <1>11, <2>2, <2>3
  <2>5. ctx' = Handed(cs, s) /\ Hand("operations", s, x)
    BY <1>2, <1>7, <1>18, <2>1, <2>4 DEF Define
  <2>6. \A j \in 1..Len(s) : HasOperation(cs, s[j]) BY <1>18, <2>1, <2>4 DEF AllDefined
  <2>7. \A j \in 1..Len(s) : s[j] \in Call /\ ctx[s[j]].inBatch /\ ~On(s[j], batchList)
    BY <1>1, <2>3 DEF BatchOK
  <2>8. \A j \in 1..Len(s) : ~Over(ctx[s[j]])
    <3> SUFFICES ASSUME NEW j \in 1..Len(s), Over(ctx[s[j]]) PROVE FALSE OBVIOUS
    <3>1. s[j] \in Call BY <2>7
    <3>2. s[j] # c BY <1>2, <1>3 DEF Over
    <3>3. cs[s[j]] = ctx[s[j]] BY <1>8, <3>1, <3>2
    <3>4. ctx[s[j]].phase \in {"defined", "handed"} BY <2>6, <3>3 DEF HasOperation
    <3> QED BY <3>4 DEF Over
  <2>9. Spoilt(s) BY <1>1, <2>3 DEF BatchOK
  <2>10. \A j \in 1..Len(s) : ~Cleared(ctx[s[j]]) BY <2>8, <2>9 DEF Spoilt
  <2>11. \A j \in 1..Len(s) : ~Cleared(cs[s[j]]) BY <1>11, <2>7, <2>10 DEF Cleared
  <2>12. \A j \in 1..Len(s) : cs[s[j]].kind \in Operations /\ cs[s[j]].inBatch
    <3> SUFFICES ASSUME NEW j \in 1..Len(s) PROVE cs[s[j]].kind \in Operations /\ cs[s[j]].inBatch OBVIOUS
    <3>1. PICK d \in Call : d = s[j] /\ ctx[d].inBatch BY <2>7
    <3>2. ctx[d].kind \in Finds \cup Writes BY <1>1, <3>1 DEF ContextsOK, ContextOK
    <3> QED BY <1>11, <3>1, <3>2 DEF Operations
  <2>13. HandedOver(cs, s) BY <1>10, <1>14, <2>5, <2>6, <2>11, <2>12, HandedKeeps
  <2>14. \A d \in Call : On(d, s) => ~On(d, batchList) BY <2>7 DEF On
  <2> QED BY <1>16, <2>4, <2>5, <2>12, <2>13, <2>14
<1>19. CASE o.inBatch /\ ~(ctx[c].definedCallback # None /\ AllDefined(cs, ctx[c].definedCallback))
  <2>1. ctx' = cs /\ wire' = wire BY <1>2, <1>7, <1>19 DEF Define
  <2>2. AllGo BY <1>10, <2>1 DEF MayBecome, AllGo
  <2>3. ContextsOK' BY <1>10, <1>14, <2>1 DEF MayBecome, ContextsOK, ContextOK
  <2>4. Like(ctx) BY <1>11, <2>1 DEF Like
  <2>5. ctx' \in [Call -> Context] BY <2>1
  <2>6. CallbackOK' /\ AnswerOK' /\ BatchOK' /\ CommitsOK BY <1>13, <2>1, <2>2, <2>3, <2>4, <2>5, PhasesKeep
  <2> QED BY <2>1, <2>2, <2>3, <2>5, <2>6, QuietStep
<1> QED BY <1>17, <1>18, <1>19

LEMMA Outcomes ==
  ASSUME NEW kind \in Operations \cup {"getMapping"}
  PROVE OnTableHandler(kind) \subseteq {"built", "noIndex", "answered", "throws"}
<1> QED
  BY DEF Operations, Finds, Writes, Queries, OnTableHandler, FindOnTableHandler, LoadOnTableHandler,
    RemoveOnTableHandler, PersistOnTableHandler, SaveOnTableHandler, UpdateOnTableHandler,
    FindOnValidatedProjection, ExecuteKeyQuery, ExecuteScanQuery, GetMappingOnTableHandler

LEMMA TableHandlerKeeps ==
  ASSUME IInv, NEW c \in Call, TableHandler(c)
  PROVE IInv' /\ CommitsOK
<1>1. turn' = None /\ UNCHANGED <<state, batchList, history>> BY DEF TableHandler
<1>2. nTx' = nTx BY <1>1 DEF history
<1>3. ctx[c].phase = "table"
  <2>1. c # None BY NoneIsNoKind
  <2> QED BY <2>1 DEF TableHandler, IInv, TurnOK
<1>4. PICK over : over = [ctx EXCEPT ![c].phase = "over"] OBVIOUS
<1>5. ctx[c].kind \in Operations \cup {"getMapping"} BY <1>3 DEF IInv, ContextsOK, ContextOK
<1>6. \/ (ctx' = over \/ \E answer \in {"ok", "error"} : Apply(c, over, answer)) /\ wire' = wire
      \/ Define(c) /\ "built" \in OnTableHandler(ctx[c].kind)
  <2>1. \/ (ctx' = over \/ Apply(c, over, "error")) /\ wire' = wire
        \/ ctx' = over /\ wire' = wire
        \/ \E outcome \in OnTableHandler(ctx[c].kind) :
             CASE outcome = "built" -> Define(c) /\ UNCHANGED thrown
               [] outcome = "noIndex" -> Apply(c, over, "error") /\ UNCHANGED wire
               [] outcome = "answered" -> Apply(c, over, "ok") /\ UNCHANGED wire
               [] outcome = "throws" -> /\ ctx' = over
                                        /\ thrown' = thrown \cup {c}
                                        /\ UNCHANGED wire
    BY <1>4, Zenon DEF TableHandler
  <2>2. ASSUME NEW outcome \in OnTableHandler(ctx[c].kind),
               CASE outcome = "built" -> Define(c) /\ UNCHANGED thrown
                 [] outcome = "noIndex" -> Apply(c, over, "error") /\ UNCHANGED wire
                 [] outcome = "answered" -> Apply(c, over, "ok") /\ UNCHANGED wire
                 [] outcome = "throws" -> /\ ctx' = over
                                          /\ thrown' = thrown \cup {c}
                                          /\ UNCHANGED wire
        PROVE \/ (ctx' = over \/ \E answer \in {"ok", "error"} : Apply(c, over, answer)) /\ wire' = wire
              \/ Define(c) /\ "built" \in OnTableHandler(ctx[c].kind)
    <3>1. outcome \in {"built", "noIndex", "answered", "throws"} BY <1>5, Outcomes
    <3> QED BY <2>2, <3>1
  <2> QED BY <2>1, <2>2
<1>7. CASE (ctx' = over \/ \E answer \in {"ok", "error"} : Apply(c, over, answer)) /\ wire' = wire
  <2>1. ctx[c].phase \in {"table", "asked", "askedAgain"} BY <1>3
  <2>2. Contexts(c) BY <1>2, <1>4, <1>7, <2>1, OverApplied, Zenon
  <2>3. /\ ctx' \in [Call -> Context] /\ AllGo /\ ContextsOK' /\ CallbackOK' /\ AnswerOK' /\ BatchOK'
        /\ CommitsOK
    BY <1>1, <2>2 DEF Contexts
  <2> QED BY <1>1, <1>7, <2>3, QuietStep
<1>8. CASE Define(c) /\ "built" \in OnTableHandler(ctx[c].kind)
  <2>1. ctx[c].kind # "getMapping"
    <3>1. OnTableHandler("getMapping") = {"answered"}
      BY DEF OnTableHandler, GetMappingOnTableHandler
    <3> QED BY <1>8, <3>1
  <2>2. ctx[c].kind \in Operations BY <1>5, <2>1
  <2> QED BY <1>1, <1>3, <1>8, <2>2, DefineKeeps
<1> QED BY <1>6, <1>7, <1>8
\* What Batch.execute makes of the contexts before it gives them to the adapter.
Made(x) ==
  [c \in Call |->
     IF c = x THEN [ctx[c] EXCEPT !.kind = "execute", !.phase = "over", !.ops = batchList]
     ELSE IF c \in {batchList[j] : j \in 1..Len(batchList)} /\ ~HasOperation(ctx, c)
     THEN [ctx[c] EXCEPT !.definedCallback = x] ELSE ctx[c]]

MadeOK(x, made) ==
  /\ made \in [Call -> Context] /\ MayBecome(made)
  /\ \A d \in Call \ {x} :
       /\ made[d].kind = ctx[d].kind /\ made[d].inBatch = ctx[d].inBatch /\ made[d].ops = ctx[d].ops
       /\ made[d].phase = ctx[d].phase /\ made[d].answers = ctx[d].answers
       /\ made[d].definedCallback \in {ctx[d].definedCallback, x}
  /\ made[x].kind = "execute" /\ made[x].ops = batchList /\ made[x].answers = <<>>
  /\ made[x].definedCallback = None

LEMMA MadeIs ==
  ASSUME IInv, NEW x \in Call, ctx[x].kind = None
  PROVE MadeOK(x, Made(x))
<1>1. TypeOK /\ ContextsOK /\ BatchOK BY DEF IInv
<1>2. PICK made : made = Made(x) OBVIOUS
<1>3. PICK o \in Context : o = ctx[x] BY <1>1 DEF TypeOK
<1>4. ContextOK(o) /\ o.kind = None BY <1>1, <1>3 DEF ContextsOK
<1>5. PICK m : m = [o EXCEPT !.kind = "execute", !.phase = "over", !.ops = batchList] OBVIOUS
<1>6. m \in Context /\ m.kind = "execute" /\ m.phase = "over" /\ m.ops = batchList
  BY <1>1, <1>5 DEF TypeOK, Context, Phases, Kinds
<1>7. /\ m.inBatch = o.inBatch /\ m.definedCallback = o.definedCallback /\ m.ran = o.ran
      /\ m.answers = o.answers
  BY <1>5 DEF Context
<1>8. o.answers = <<>> /\ o.definedCallback = None /\ ~o.inBatch /\ o.ran = None /\ o.phase = "new"
  BY <1>4 DEF ContextOK
<1>9. made[x] = m BY <1>2, <1>3, <1>5 DEF Made
<1>10. <<>> # <<"cleared">> OBVIOUS
<1>11. ContextOK(m) BY <1>6, <1>7, <1>8, <1>10, NoneIsNoKind DEF ContextOK, Cleared, Delegates
<1>12. Goes(o, m) BY <1>4, <1>6, <1>8 DEF Goes, Over
<1>13. ASSUME NEW d \in Call \ {x}
       PROVE /\ made[d] \in Context /\ Goes(ctx[d], made[d]) /\ ContextOK(made[d])
             /\ made[d].kind = ctx[d].kind /\ made[d].inBatch = ctx[d].inBatch /\ made[d].ops = ctx[d].ops
             /\ made[d].phase = ctx[d].phase /\ made[d].answers = ctx[d].answers
             /\ made[d].definedCallback \in {ctx[d].definedCallback, x}
  <2>1. PICK e \in Context : e = ctx[d] BY <1>1 DEF TypeOK
  <2>2. ContextOK(e) BY <1>1, <2>1 DEF ContextsOK
  <2>3. CASE made[d] = ctx[d] BY <2>1, <2>2, <2>3 DEF Goes
  <2>4. CASE made[d] # ctx[d]
    <3>1. On(d, batchList) /\ made[d] = [e EXCEPT !.definedCallback = x]
      BY <1>2, <2>1, <2>4 DEF Made, On
    <3>2. PICK r : r = [e EXCEPT !.definedCallback = x] OBVIOUS
    <3>3. r \in Context /\ r.definedCallback = x BY <3>2 DEF Context
    <3>4. /\ r.kind = e.kind /\ r.inBatch = e.inBatch /\ r.ops = e.ops /\ r.phase = e.phase
          /\ r.ran = e.ran /\ r.answers = e.answers
      BY <3>2 DEF Context
    <3>5. e.inBatch BY <1>1, <2>1, <3>1 DEF BatchOK, On, Collected
    <3>6. e.kind # None BY <2>2, <3>5 DEF ContextOK
    <3>7. ContextOK(r) BY <2>2, <3>4, <3>6 DEF ContextOK, Cleared
    <3>8. Goes(e, r) BY <3>4 DEF Goes, Over
    <3> QED BY <2>1, <3>1, <3>2, <3>3, <3>4, <3>7, <3>8
  <2> QED BY <2>3, <2>4
<1>14. made \in [Call -> Context]
  <2>1. \A d \in Call : made[d] \in Context BY <1>6, <1>9, <1>13
  <2>2. made = [d \in Call |-> made[d]] BY <1>2 DEF Made
  <2> QED BY <2>1, <2>2
<1>15. MayBecome(made) BY <1>3, <1>9, <1>11, <1>12, <1>13 DEF MayBecome
<1> QED BY <1>2, <1>6, <1>7, <1>8, <1>9, <1>13, <1>14, <1>15 DEF MadeOK

\* After Batch.execute, whether the operations were given to the adapter or not.
LEMMA Executed ==
  ASSUME IInv, NEW x \in Call, ctx[x].kind = None, NEW made, MadeOK(x, made),
         ctx' \in [Call -> Context], AllGo, batchList' = <<>>,
         \A d \in Call :
           /\ ctx'[d].kind = made[d].kind /\ ctx'[d].inBatch = made[d].inBatch
           /\ ctx'[d].definedCallback = made[d].definedCallback /\ ctx'[d].ops = made[d].ops
           /\ d # x => ctx'[d].answers = made[d].answers,
         ~Cleared(ctx'[x]), ctx'[x].answers # <<>> => batchList = <<>>
  PROVE CallbackOK' /\ AnswerOK' /\ BatchOK' /\ CommitsOK
<1>1. TypeOK /\ ContextsOK /\ CallbackOK /\ AnswerOK /\ BatchOK BY DEF IInv
<1>2. CallbackOK'
  <2> SUFFICES ASSUME NEW c \in Call, ctx'[c].definedCallback # None
               PROVE ctx'[ctx'[c].definedCallback].kind = "execute"
    BY DEF CallbackOK
  <2>1. PICK y \in Call : y = ctx'[c].definedCallback BY DEF Context
  <2>2. CASE y = x BY <2>1, <2>2 DEF MadeOK
  <2>3. CASE y # x
    <3>1. c # x BY <2>1, NoneIsNoKind DEF MadeOK
    <3>2. ctx[c].definedCallback = y BY <2>1, <2>3, <3>1 DEF MadeOK
    <3>3. ctx[y].kind = "execute" BY <1>1, <3>2, NoneIsNoKind DEF CallbackOK
    <3> QED BY <2>1, <3>3, NoneIsNoKind DEF AllGo, Goes
  <2> QED BY <2>2, <2>3
<1>3. AnswerOK'
  <2>1. ASSUME NEW y \in Call, ctx'[y].kind = "execute", Answered(y)'
        PROVE \/ ctx[y].kind = "execute" /\ Answered(y)
              \/ \A j \in 1..Len(ctx'[y].ops) : Answered(ctx[y].ops[j])'
    <3>1. CASE y = x
      <4>1. ctx'[x].answers # <<>> BY <2>1, <3>1 DEF Answered
      <4>2. ctx'[x].ops = batchList BY DEF MadeOK
      <4>3. ctx'[y].ops = <<>> BY <3>1, <4>1, <4>2
      <4>4. Len(ctx'[y].ops) = 0 BY <4>3
      <4> QED BY <4>4
    <3>2. CASE y # x BY <2>1, <3>2 DEF MadeOK, Answered
    <3> QED BY <3>1, <3>2
  <2> QED BY <1>1, <2>1, AnswersKeep
<1>4. \A d \in Call : Cleared(ctx'[d]) => Cleared(ctx[d]) BY DEF MadeOK, Cleared
<1>5. ASSUME NEW y \in Call
      PROVE /\ \A j \in 1..Len(ctx'[y].ops) : ctx'[ctx'[y].ops[j]].inBatch
            /\ (\E j \in 1..Len(ctx'[y].ops) : Cleared(ctx'[ctx'[y].ops[j]])) =>
                  \E j \in 1..Len(ctx'[y].ops) : Over(ctx'[ctx'[y].ops[j]])
  <2>1. PICK s \in Seq(Call) : s = ctx'[y].ops BY DEF Context
  <2>2. /\ \A j \in 1..Len(s) : s[j] \in Call /\ ctx[s[j]].inBatch
        /\ Spoilt(s)
    <3>1. CASE y = x
      <4>1. s = batchList BY <2>1, <3>1 DEF MadeOK
      <4> QED BY <1>1, <4>1 DEF BatchOK, Collected
    <3>2. CASE y # x
      <4>1. s = ctx[y].ops BY <2>1, <3>2 DEF MadeOK
      <4> QED BY <1>1, <4>1 DEF BatchOK
    <3> QED BY <3>1, <3>2
  <2>3. Spoilt(s)' BY <1>4, <2>2, SpoiltKeeps
  <2>4. ASSUME NEW j \in 1..Len(s) PROVE ctx'[s[j]].inBatch
    <3>1. PICK c \in Call : c = s[j] OBVIOUS
    <3>2. ctx[c].inBatch BY <2>2, <3>1
    <3>3. ctx[c].kind # None BY <1>1, <3>2 DEF ContextsOK, ContextOK
    <3> QED BY <3>1, <3>2, <3>3 DEF AllGo, Goes
  <2> QED BY <2>1, <2>3, <2>4 DEF Spoilt
<1>6. Len(batchList') = 0 OBVIOUS
<1>7. BatchOK' BY <1>5, <1>6 DEF BatchOK, Spoilt, On
<1>8. CommitsOK
  <2>1. \A c \in Call : ctx'[c].kind = "commit" => ctx[c].kind = "commit" BY DEF MadeOK
  <2> QED BY <2>1, NoneIsNoKind DEF CommitsOK
<1> QED BY <1>2, <1>3, <1>7, <1>8
LEMMA BatchExecuteKeeps ==
  ASSUME IInv, NEW x \in Call, BatchExecute(x)
  PROVE IInv' /\ CommitsOK
<1>1. /\ turn = None /\ ctx[x].kind = None /\ batchList' = <<>>
      /\ UNCHANGED <<state, known, turn, history>>
  BY DEF BatchExecute, NextCall
<1>2. PICK made : made = Made(x) OBVIOUS
<1>3. MadeOK(x, made) BY <1>1, <1>2, MadeIs
<1>4. \/ batchList = <<>> /\ Apply(x, made, "ok") /\ UNCHANGED wire
      \/ AllDefined(made, x) /\ ctx' = Handed(made, batchList) /\ Hand("operations", batchList, x)
      \/ ctx' = made /\ UNCHANGED wire
  BY <1>2, Zenon DEF BatchExecute, Made
<1>5. made \in [Call -> Context] /\ MayBecome(made) /\ made[x].answers = <<>> /\ made[x].kind = "execute"
      /\ made[x].ops = batchList
  BY <1>3 DEF MadeOK
<1>6. TypeOK /\ BatchOK /\ ContextsOK BY DEF IInv
<1>7. ASSUME ctx' \in [Call -> Context], AllGo, ContextsOK', FailOK', IdleMeansEnded', WireOK', EndsOK',
             wire' \in Seq(Entry), CallbackOK', AnswerOK', BatchOK', CommitsOK
      PROVE IInv' /\ CommitsOK
  <2>1. batchList' \in Seq(Call) BY <1>1
  <2>2. TypeOK' BY <1>1, <1>6, <1>7, <2>1 DEF TypeOK, history
  <2>3. TurnOK' BY <1>1 DEF TurnOK
  <2> QED BY <1>7, <2>2, <2>3 DEF IInv
<1>8. <<>> # <<"cleared">> OBVIOUS
<1>9. nTx' = nTx /\ UNCHANGED <<state, history>> BY <1>1 DEF history
<1>10. CASE \/ batchList = <<>> /\ Apply(x, made, "ok") /\ UNCHANGED wire
            \/ ctx' = made /\ UNCHANGED wire
  <2>1. PICK r : /\ ctx' = [made EXCEPT ![x] = r] /\ r \in Context /\ wire' = wire
                 /\ r.kind = made[x].kind /\ r.inBatch = made[x].inBatch /\ r.phase = made[x].phase
                 /\ r.ran = made[x].ran /\ r.definedCallback = made[x].definedCallback
                 /\ r.ops = made[x].ops /\ ~Cleared(r) /\ (r.answers # <<>> => batchList = <<>>)
    <3>1. CASE batchList = <<>> /\ Apply(x, made, "ok") /\ UNCHANGED wire
      <4>1. PICK r : ctx' = [made EXCEPT ![x] = r] /\ ToldOf(made[x], r)
        <5>1. "ok" \in {"ok", "error"} OBVIOUS
        <5> QED BY <1>5, <3>1, <5>1, ApplyDoes, Zenon
      <4>2. ~Cleared(r) BY <1>5, <1>8, <4>1 DEF ToldOf, Cleared
      <4> QED BY <3>1, <4>1, <4>2 DEF ToldOf
    <3>2. CASE ctx' = made /\ UNCHANGED wire
      <4>1. PICK r : r = made[x] OBVIOUS
      <4>2. ctx' = [made EXCEPT ![x] = r] BY <1>5, <3>2, <4>1
      <4>3. ~Cleared(r) BY <1>5, <1>8, <4>1 DEF Cleared
      <4> QED BY <1>5, <3>2, <4>1, <4>2, <4>3
    <3> QED BY <1>10, <3>1, <3>2
  <2>2. \A d \in Call : ctx'[d] = IF d = x THEN r ELSE made[d] BY <1>5, <2>1
  <2>3. ctx' \in [Call -> Context] BY <1>5, <2>1
  <2>4. Goes(ctx[x], r) /\ ContextOK(r)
    <3>1. Goes(ctx[x], made[x]) /\ ContextOK(made[x]) BY <1>5 DEF MayBecome
    <3>2. ctx[x].answers = <<>> BY <1>1, <1>6 DEF ContextsOK, ContextOK
    <3>3. Goes(ctx[x], r) BY <1>1, <2>1, <3>1, <3>2 DEF Goes, Over
    <3>4. r.kind # None BY <1>5, <2>1, NoneIsNoKind
    <3>5. ContextOK(r) BY <2>1, <3>1, <3>4 DEF ContextOK
    <3> QED BY <3>3, <3>5
  <2>5. \A d \in Call : Goes(ctx[d], ctx'[d]) /\ ContextOK(ctx'[d]) BY <1>5, <2>2, <2>4 DEF MayBecome
  <2>6. AllGo BY <2>5 DEF AllGo
  <2>7. ContextsOK' BY <1>9, <2>5 DEF ContextsOK, ContextOK
  <2>8. \A d \in Call :
           /\ ctx'[d].kind = made[d].kind /\ ctx'[d].inBatch = made[d].inBatch
           /\ ctx'[d].definedCallback = made[d].definedCallback /\ ctx'[d].ops = made[d].ops
           /\ d # x => ctx'[d].answers = made[d].answers
    BY <2>1, <2>2
  <2>9. ~Cleared(ctx'[x]) /\ (ctx'[x].answers # <<>> => batchList = <<>>) BY <2>1, <2>2
  <2>10. CallbackOK' /\ AnswerOK' /\ BatchOK' /\ CommitsOK
    BY <1>1, <1>3, <2>3, <2>6, <2>8, <2>9, Executed, Zenon
  <2>11. FailOK' /\ IdleMeansEnded' /\ EndsOK' BY <1>9, <2>1, TxKeeps
  <2>12. nTx' \in Nat /\ nTx <= nTx' BY <1>6, <1>9 DEF TypeOK
  <2>13. WireOK' BY <2>1, <2>3, <2>6, <2>12, WireSame
  <2>14. wire' \in Seq(Entry) BY <1>6, <2>1 DEF TypeOK
  <2> QED BY <1>7, <2>3, <2>6, <2>7, <2>10, <2>11, <2>13, <2>14
<1>11. CASE AllDefined(made, x) /\ ctx' = Handed(made, batchList) /\ Hand("operations", batchList, x)
  <2>1. PICK s \in Seq(Call) : s = batchList BY <1>6 DEF TypeOK
  <2>2. \A j \in 1..Len(s) : s[j] \in Call /\ ctx[s[j]].inBatch /\ s[j] # x
    <3>1. ~ctx[x].inBatch BY <1>1, <1>6 DEF ContextsOK, ContextOK
    <3> QED BY <1>6, <2>1, <3>1 DEF BatchOK, Collected
  <2>3. \A j \in 1..Len(s) : HasOperation(made, s[j]) BY <1>5, <1>11, <2>1 DEF AllDefined
  <2>4. \A j \in 1..Len(s) : ~Over(ctx[s[j]]) BY <1>3, <2>2, <2>3 DEF MadeOK, HasOperation, Over
  <2>5. \A j \in 1..Len(s) : ~Cleared(ctx[s[j]]) BY <1>6, <2>1, <2>4 DEF BatchOK, Spoilt
  <2>6. \A j \in 1..Len(s) : ~Cleared(made[s[j]]) BY <1>3, <2>2, <2>5 DEF MadeOK, Cleared
  <2>7. \A j \in 1..Len(s) : made[s[j]].kind \in Operations /\ made[s[j]].inBatch
    <3> SUFFICES ASSUME NEW j \in 1..Len(s) PROVE made[s[j]].kind \in Operations /\ made[s[j]].inBatch OBVIOUS
    <3>1. PICK d \in Call : d = s[j] /\ ctx[d].inBatch /\ d # x BY <2>2
    <3>2. ctx[d].kind \in Finds \cup Writes BY <1>6, <3>1 DEF ContextsOK, ContextOK
    <3> QED BY <1>3, <3>1, <3>2 DEF MadeOK, Operations
  <2>8. ctx' = Handed(made, s) /\ Hand("operations", s, x) BY <1>11, <2>1
  <2>9. HandedOver(made, s) BY <1>5, <1>9, <2>3, <2>6, <2>7, <2>8, HandedKeeps
  <2>10. ctx' \in [Call -> Context] /\ AllGo /\ ContextsOK' /\ Like(made) BY <2>9 DEF HandedOver
  <2>11. ctx'[x].answers = <<>> BY <1>5, <2>10 DEF Like
  <2>12. ~Cleared(ctx'[x]) /\ (ctx'[x].answers # <<>> => batchList = <<>>) BY <1>8, <2>11 DEF Cleared
  <2>13. \A d \in Call :
           /\ ctx'[d].kind = made[d].kind /\ ctx'[d].inBatch = made[d].inBatch
           /\ ctx'[d].definedCallback = made[d].definedCallback /\ ctx'[d].ops = made[d].ops
           /\ d # x => ctx'[d].answers = made[d].answers
    BY <2>10 DEF Like
  <2>14. CallbackOK' /\ AnswerOK' /\ BatchOK' /\ CommitsOK
    BY <1>1, <1>3, <2>10, <2>12, <2>13, Executed, Zenon
  <2>15. ctx'[x].kind = "execute" /\ ctx'[x].ops = s BY <1>5, <2>1, <2>13
  <2>16. \A j \in 1..Len(s) : /\ ctx'[s[j]].phase = "handed" /\ ctx'[s[j]].kind \in Operations
                              /\ ctx'[x].kind = "execute" => ctx'[s[j]].inBatch
    <3> SUFFICES ASSUME NEW j \in 1..Len(s)
                 PROVE /\ ctx'[s[j]].phase = "handed" /\ ctx'[s[j]].kind \in Operations
                       /\ ctx'[s[j]].inBatch
      OBVIOUS
    <3>1. s[j] \in Call /\ On(s[j], s) BY DEF On
    <3>2. ctx'[s[j]].phase = "handed" BY <2>9, <3>1 DEF HandedOver
    <3> QED BY <2>7, <2>13, <3>1, <3>2
  <2>17. ctx'[x].kind \in Operations \cup {"execute"} BY <2>15
  <2>18. FailOK' /\ IdleMeansEnded' /\ WireOK' /\ EndsOK' /\ wire' \in Seq(Entry)
    BY <1>9, <2>8, <2>10, <2>15, <2>16, <2>17, HandKeeps, Zenon
  <2> QED BY <1>7, <2>10, <2>14, <2>18
<1> QED BY <1>4, <1>10, <1>11

\* When nobody on the list was answered, all of it is cleared.
LEMMA ClearsAll ==
  ASSUME IInv, \A j \in 1..Len(batchList) : ~Answered(batchList[j])
  PROVE ~(Cardinality(Clearable) + 1 <= Len(batchList))
<1>1. PICK n \in Nat : n = Len(batchList) BY DEF IInv, TypeOK
<1>2. Clearable = 1..n BY <1>1 DEF Clearable
<1>3. Cardinality(1..n) = n BY FS_Interval
<1> QED BY <1>1, <1>2, <1>3

LEMMA BatchClearKeeps ==
  ASSUME IInv, BatchClear
  PROVE IInv' /\ CommitsOK
<1>1. turn' = None /\ turn = None /\ UNCHANGED <<state, known, wire, history>> BY DEF BatchClear
<1>2. TypeOK /\ ContextsOK /\ CallbackOK /\ AnswerOK /\ BatchOK BY DEF IInv
<1>3. PICK stop : stop = Cardinality(Clearable) + 1 OBVIOUS
<1>4. PICK told : told = {batchList[j] : j \in Clearable} OBVIOUS
<1>5. /\ ctx' = [c \in Call |->
          IF c \in told THEN [ctx[c] EXCEPT !.clear = TRUE, !.answers = <<"cleared">>]
          ELSE IF stop <= Len(batchList) /\ c = batchList[stop]
          THEN [ctx[c] EXCEPT !.clear = TRUE] ELSE ctx[c]]
      /\ IF stop <= Len(batchList) THEN batchList' = batchList ELSE batchList' = <<>>
  BY <1>3, <1>4 DEF BatchClear
<1>6. \A c \in told : On(c, batchList) /\ c \in Call /\ ctx[c].answers = <<>> /\ Collected(ctx[c])
  <2>1. \A j \in Clearable : j \in 1..Len(batchList) /\ ~Answered(batchList[j]) BY DEF Clearable
  <2> QED BY <1>2, <1>4, <2>1 DEF On, TypeOK, BatchOK, Answered
<1>7. ASSUME NEW c \in Call
      PROVE /\ ctx'[c] \in Context
            /\ ctx'[c].kind = ctx[c].kind /\ ctx'[c].inBatch = ctx[c].inBatch /\ ctx'[c].phase = ctx[c].phase
            /\ ctx'[c].definedCallback = ctx[c].definedCallback /\ ctx'[c].ops = ctx[c].ops
            /\ ctx'[c].ran = ctx[c].ran
            /\ IF c \in told THEN ctx'[c].answers = <<"cleared">> ELSE ctx'[c].answers = ctx[c].answers
  <2>1. PICK o \in Context : o = ctx[c] BY <1>2 DEF TypeOK
  <2>2. CASE c \in told
    <3>1. PICK r : r = [o EXCEPT !.clear = TRUE, !.answers = <<"cleared">>] OBVIOUS
    <3>2. <<"cleared">> \in {<<a>> : a \in Answers} BY DEF Answers
    <3>3. r \in Context /\ r.answers = <<"cleared">> BY <3>1, <3>2 DEF Context
    <3>4. /\ r.kind = o.kind /\ r.inBatch = o.inBatch /\ r.phase = o.phase
          /\ r.definedCallback = o.definedCallback /\ r.ops = o.ops /\ r.ran = o.ran
      BY <3>1 DEF Context
    <3>5. ctx'[c] = r BY <1>5, <2>1, <2>2, <3>1
    <3> QED BY <2>1, <2>2, <3>3, <3>4, <3>5
  <2>3. CASE c \notin told
    <3>1. PICK r : r = [o EXCEPT !.clear = TRUE] OBVIOUS
    <3>2. r \in Context BY <3>1 DEF Context
    <3>3. /\ r.kind = o.kind /\ r.inBatch = o.inBatch /\ r.phase = o.phase
          /\ r.definedCallback = o.definedCallback /\ r.ops = o.ops /\ r.ran = o.ran
          /\ r.answers = o.answers
      BY <3>1 DEF Context
    <3>4. ctx'[c] = r \/ ctx'[c] = o BY <1>5, <2>1, <2>3, <3>1
    <3> QED BY <2>1, <2>3, <3>2, <3>3, <3>4
  <2> QED BY <2>2, <2>3
<1>8. ctx' \in [Call -> Context]
  <2>1. ctx' = [c \in Call |-> ctx'[c]] BY <1>5
  <2> QED BY <1>7, <2>1
<1>9. AllGo BY <1>6, <1>7 DEF AllGo, Goes, Over
<1>10. ContextsOK'
  <2> SUFFICES ASSUME NEW c \in Call PROVE ContextOK(ctx'[c])
    BY <1>1 DEF ContextsOK, ContextOK, history
  <2>1. ContextOK(ctx[c]) BY <1>2 DEF ContextsOK
  <2>2. CASE c \notin told BY <1>7, <2>1, <2>2 DEF ContextOK, Cleared
  <2>3. CASE c \in told
    <3>1. ctx[c].inBatch /\ ctx[c].phase # "handed" BY <1>6, <2>3 DEF Collected
    <3>2. ctx[c].kind # None BY <2>1, <3>1 DEF ContextOK
    <3> QED BY <1>7, <2>1, <3>1, <3>2 DEF ContextOK
  <2> QED BY <2>2, <2>3
<1>11. CallbackOK'
  <2>1. \A c \in Call : ctx'[c].definedCallback = ctx[c].definedCallback BY <1>7
  <2> QED BY <1>2, <1>8, <1>9, <2>1, CallbacksKeep
<1>12. AnswerOK'
  <2>1. ASSUME NEW y \in Call, ctx'[y].kind = "execute", Answered(y)'
        PROVE ctx[y].kind = "execute" /\ Answered(y)
    <3>1. ctx[y].kind = "execute" BY <1>7, <2>1
    <3>2. ~ctx[y].inBatch
      <4>1. "execute" \notin Finds \cup Writes BY DEF Finds, Writes
      <4> QED BY <1>2, <3>1, <4>1 DEF ContextsOK, ContextOK
    <3>3. y \notin told BY <1>6, <3>2 DEF Collected
    <3> QED BY <1>7, <2>1, <3>1, <3>3 DEF Answered
  <2> QED BY <1>2, <1>8, <1>9, <2>1, AnswersKeep
<1>13. ASSUME NEW y \in Call, NEW j \in 1..Len(ctx'[y].ops)
       PROVE /\ ctx'[y].ops[j] = ctx[y].ops[j] /\ ctx[y].ops[j] \in Call \ told
             /\ ctx'[ctx[y].ops[j]].inBatch /\ ~On(ctx[y].ops[j], batchList)
  <2>1. PICK s \in Seq(Call) : s = ctx[y].ops BY <1>2 DEF TypeOK, Context
  <2>2. ctx'[y].ops = s BY <1>7, <2>1
  <2>3. s[j] \in Call /\ ctx[s[j]].inBatch /\ ~On(s[j], batchList) BY <1>2, <2>1, <2>2 DEF BatchOK
  <2> QED BY <1>6, <1>7, <2>1, <2>2, <2>3
<1>14. BatchOK'
  <2>1. ASSUME NEW y \in Call
        PROVE /\ \A j \in 1..Len(ctx'[y].ops) :
                   ctx'[ctx'[y].ops[j]].inBatch /\ ~On(ctx'[y].ops[j], batchList')
              /\ (\E j \in 1..Len(ctx'[y].ops) : Cleared(ctx'[ctx'[y].ops[j]])) =>
                    \E j \in 1..Len(ctx'[y].ops) : Over(ctx'[ctx'[y].ops[j]])
    <3>1. PICK s \in Seq(Call) : s = ctx[y].ops BY <1>2 DEF TypeOK, Context
    <3>2. ctx'[y].ops = s BY <1>7, <3>1
    <3>3. \A j \in 1..Len(s) : s[j] \in Call \ told /\ ctx'[s[j]].inBatch /\ ~On(s[j], batchList)
      BY <1>13, <3>1, <3>2
    <3>4. \A d \in Call : ~On(d, batchList) => ~On(d, batchList')
      <4>1. CASE batchList' = batchList BY <4>1 DEF On
      <4>2. CASE batchList' # batchList
        <5>1. Len(batchList') = 0
          <6>1. batchList' = <<>> BY <1>5, <4>2
          <6> QED BY <6>1
        <5> QED BY <5>1 DEF On
      <4> QED BY <4>1, <4>2
    <3>5. \A j \in 1..Len(s) : (Cleared(ctx'[s[j]]) <=> Cleared(ctx[s[j]])) /\ (Over(ctx'[s[j]]) <=> Over(ctx[s[j]]))
      BY <1>7, <3>3 DEF Cleared, Over
    <3>6. Spoilt(s) BY <1>2, <3>1 DEF BatchOK
    <3>7. \A j \in 1..Len(s) : ~On(s[j], batchList') BY <3>3, <3>4
    <3> QED BY <3>2, <3>3, <3>5, <3>6, <3>7 DEF Spoilt
  <2>2. CASE stop <= Len(batchList)
    <3>1. batchList' = batchList BY <1>5, <2>2
    <3>2. PICK i \in 1..Len(batchList) : Answered(batchList[i]) BY <1>3, <2>2, ClearsAll
    <3>3. PICK d \in Call : d = batchList[i] BY <1>2 DEF TypeOK
    <3>4. Collected(ctx[d]) /\ ctx[d].answers # <<>> BY <1>2, <3>2, <3>3 DEF BatchOK, Answered
    <3>5. PICK k \in 1..Len(batchList) : Over(ctx[batchList[k]])
      <4>1. CASE Over(ctx[d]) BY <3>3, <4>1
      <4>2. CASE Cleared(ctx[d]) BY <1>2, <3>3, <4>2 DEF BatchOK, Spoilt
      <4> QED BY <3>4, <4>1, <4>2 DEF Collected
    <3>6. \A j \in 1..Len(batchList) : batchList[j] \in Call BY <1>2 DEF TypeOK
    <3>7. Over(ctx'[batchList[k]]) BY <1>7, <3>5, <3>6 DEF Over
    <3>8. ASSUME NEW j \in 1..Len(batchList) PROVE Collected(ctx'[batchList[j]])
      <4>1. PICK e \in Call : e = batchList[j] BY <3>6
      <4>2. Collected(ctx[e]) BY <1>2, <4>1 DEF BatchOK
      <4>3. Collected(ctx'[e]) BY <1>7, <4>2 DEF Collected, Over, Cleared
      <4> QED BY <4>1, <4>3
    <3> QED BY <2>1, <3>1, <3>7, <3>8 DEF BatchOK, Spoilt, On
  <2>3. CASE ~(stop <= Len(batchList))
    <3>1. batchList' = <<>> BY <1>5, <2>3
    <3>2. Len(batchList') = 0 BY <3>1
    <3> QED BY <2>1, <3>2 DEF BatchOK, Spoilt, On
  <2> QED BY <2>2, <2>3
<1>15. CommitsOK BY <1>7, NoneIsNoKind DEF CommitsOK
<1>16. FailOK' /\ IdleMeansEnded' /\ nTx' = nTx /\ EndsOK' BY <1>1, TxKeeps
<1>17. wire' = wire /\ nTx' \in Nat /\ nTx <= nTx' BY <1>1, <1>2, <1>16 DEF TypeOK
<1>18. WireOK' BY <1>8, <1>9, <1>17, WireSame
<1>19. TypeOK'
  <2>1. batchList' \in Seq(Call)
    <3>1. CASE batchList' = batchList BY <1>2, <3>1 DEF TypeOK
    <3>2. CASE batchList' # batchList
      <4>1. batchList' = <<>> BY <1>5, <3>2
      <4> QED BY <4>1
    <3> QED BY <3>1, <3>2
  <2> QED BY <1>1, <1>2, <1>8, <2>1 DEF TypeOK, history
<1>20. TurnOK' BY <1>1 DEF TurnOK
<1> QED BY <1>9, <1>10, <1>11, <1>12, <1>14, <1>15, <1>16, <1>18, <1>19, <1>20 DEF IInv
-----------------------------------------------------------------------------
(* The adapter answers.                                                    *)

\* The user of one call is called back.
LEMMA ApplyKeeps ==
  ASSUME IInv, NEW c \in Call, ctx[c].kind # None, ~On(c, batchList), nTx' = nTx,
         ctx[c].kind = "execute" => \A j \in 1..Len(ctx[c].ops) : Answered(ctx[c].ops[j]),
         NEW answer \in {"ok", "error"}, Apply(c, ctx, answer)
  PROVE Contexts(c) /\ Answered(c)'
<1>1. TypeOK BY DEF IInv
<1>2. PICK o \in Context : o = ctx[c] BY <1>1 DEF TypeOK
<1>3. ContextOK(o) BY <1>2 DEF IInv, ContextsOK
<1>4. PICK r : ctx' = [ctx EXCEPT ![c] = r] /\ ToldOf(o, r)
  <2>1. ctx \in [Call -> Context] BY <1>1 DEF TypeOK
  <2> QED BY <1>2, <2>1, ApplyDoes, Zenon
<1>5. ContextOK(r) BY <1>2, <1>3, <1>4 DEF ToldOf, ContextOK
<1>6. Goes(o, r) BY <1>4 DEF ToldOf, Goes, Over
<1>7. Changed(c, r) BY <1>2, <1>4, <1>5, <1>6 DEF Changed, ToldOf
<1>8. r.kind = "execute" /\ r.answers # <<>> => \A j \in 1..Len(ctx[c].ops) : Answered(ctx[c].ops[j])
  <2>1. r.kind = ctx[c].kind BY <1>2, <1>4 DEF ToldOf
  <2> QED BY <2>1
<1>9. /\ ctx' \in [Call -> Context] /\ AllGo /\ ContextsOK' /\ CallbackOK' /\ AnswerOK'
      /\ batchList' = batchList /\ (On(c, batchList) => Collected(r)) => BatchOK'
  BY <1>4, <1>7, <1>8, OneChange, Zenon
<1>10. CommitsOK
  <2>1. r.kind = ctx[c].kind BY <1>2, <1>4 DEF ToldOf
  <2> QED BY <1>4, <2>1, NoCommit
<1>11. Answered(c)' BY <1>1, <1>4 DEF TypeOK, ToldOf, Answered
<1> QED BY <1>9, <1>10, <1>11 DEF Contexts

LEMMA Unchanged ==
  ASSUME IInv, NEW c \in Call, ctx' = ctx, nTx' = nTx
  PROVE Contexts(c)
<1>1. ctx' \in [Call -> Context] /\ AllGo BY DEF IInv, TypeOK, AllGo, Goes
<1>2. ContextsOK' /\ CallbackOK' /\ AnswerOK'
  BY DEF IInv, ContextsOK, ContextOK, CallbackOK, AnswerOK, Answered
<1>3. CommitsOK BY NoneIsNoKind DEF CommitsOK
<1>4. batchList' = batchList => BatchOK' BY DEF IInv, BatchOK, Spoilt
<1> QED BY <1>1, <1>2, <1>3, <1>4 DEF Contexts

\* What an operation makes of its result: a failure takes the transaction with it.
LEMMA SaysIs ==
  ASSUME NEW kind \in Operations, NEW r \in Results(kind)
  PROVE /\ OnResult(kind, r).told \in {"ok", "error", "nothing", "throws"}
        /\ OnResult(kind, r).rollback \in BOOLEAN
        /\ kind \in Finds \cup Writes => OnResult(kind, r).told \in {"ok", "error"}
        /\ Fails(kind, r) => OnResult(kind, r).rollback
<1>1. r \in [err : BOOLEAN, success : BOOLEAN, notFound : BOOLEAN, value : BOOLEAN]
  <2>1. {Done, Error, NotBuilt} \subseteq [err : BOOLEAN, success : BOOLEAN, notFound : BOOLEAN, value : BOOLEAN]
    BY DEF Done, Error, NotBuilt, Result
  <2>2. Missing \subseteq [err : BOOLEAN, success : BOOLEAN, notFound : BOOLEAN, value : BOOLEAN]
    BY DEF Missing, Result
  <2>3. r \in {Done, Error, NotBuilt} \cup Missing BY DEF Results
  <2> QED BY <2>1, <2>2, <2>3
<1>2. checkOperation(r) \in BOOLEAN /\ (~r.success => checkOperation(r)) BY <1>1 DEF checkOperation
<1>3. CASE kind \in {"find", "findProjection"}
  <2>1. OnResult(kind, r) = FindOnResult(r) BY <1>3 DEF OnResult, FindWithProjectionOnResult
  <2> QED BY <1>1, <1>2, <1>3, <2>1 DEF FindOnResult, Says, If, Fails
<1>4. CASE kind = "load"
  <2>1. OnResult(kind, r) = LoadOnResult(r) BY <1>4 DEF OnResult
  <2>2. LoadOnResult(r) = IF checkOperation(r) THEN Says(If(r.err), TRUE) ELSE Says("ok", FALSE)
    BY DEF LoadOnResult
  <2>3. CASE checkOperation(r) BY <2>1, <2>2, <2>3 DEF Says, If
  <2>4. CASE ~checkOperation(r) BY <1>2, <2>1, <2>2, <2>4 DEF Says, Fails
  <2> QED BY <2>3, <2>4
<1>5. CASE kind \in Writes
  <2>1. OnResult(kind, r) = PersistOnResult(r)
    BY <1>5 DEF Writes, OnResult, PersistOnResult, SaveOnResult, UpdateOnResult, RemoveOnResult
  <2> QED BY <1>1, <1>2, <1>5, <2>1 DEF PersistOnResult, Says, If, Fails
<1>6. CASE kind \in Queries
  <2>1. kind \notin Finds \cup Writes /\ ~Fails(kind, r) BY <1>6 DEF Queries, Finds, Writes, Fails
  <2>2. OnResult(kind, r) \in {QueryKeyOnResult(r), QueryKeyProjectionOnResult(r), QueryScanOnResult(r)}
    BY <1>6 DEF Queries, OnResult
  <2>3. QueryKeyOnResult(r) \in [told : {"ok", "error"}, rollback : BOOLEAN]
    BY DEF QueryKeyOnResult, Says, If
  <2>4. QueryKeyProjectionOnResult(r) \in [told : {"ok", "error", "nothing"}, rollback : BOOLEAN]
    <3>1. CASE r.err BY <3>1 DEF QueryKeyProjectionOnResult, Says, If
    <3>2. CASE ~r.err BY <3>2 DEF QueryKeyProjectionOnResult, Says
    <3> QED BY <3>1, <3>2
  <2>5. QueryScanOnResult(r) \in [told : {"ok", "error", "throws"}, rollback : BOOLEAN]
    <3>1. CASE checkOperation(r) /\ ~r.err BY <3>1 DEF QueryScanOnResult, Says
    <3>2. CASE ~(checkOperation(r) /\ ~r.err) BY <3>2 DEF QueryScanOnResult, Says, If
    <3> QED BY <3>1, <3>2
  <2> QED BY <2>1, <2>2, <2>3, <2>4, <2>5
<1> QED BY <1>3, <1>4, <1>5, <1>6 DEF Operations, Finds
LEMMA OperationAnsweredKeeps ==
  ASSUME IInv, NEW j \in 1..Len(wire), OperationAnswered(j)
  PROVE IInv' /\ CommitsOK
<1>1. /\ turn = None /\ wire[j].what = "operations" /\ wire[j].ops # <<>>
      /\ wire' = [wire EXCEPT ![j].ops = Tail(@)]
      /\ UNCHANGED <<batchList, known, turn, nTx, ended, overlap>>
  BY DEF OperationAnswered, CanAnswer
<1>2. TypeOK /\ ContextsOK /\ BatchOK /\ WireOK /\ FailOK /\ IdleMeansEnded /\ EndsOK BY DEF IInv
<1>3. PICK w \in Entry : w = wire[j] BY <1>2 DEF TypeOK
<1>4. w.what = "operations" /\ w.ops \in Seq(Call) /\ w.ops # <<>> /\ w.for \in Call /\ EntryOK(w)
  BY <1>1, <1>2, <1>3 DEF Entry, WireOK
<1>5. PICK s \in Seq(Call) : s = w.ops /\ s # <<>> BY <1>4
<1>6. Len(s) \in Nat /\ Len(s) >= 1 /\ Head(s) = s[1] /\ Head(s) \in Call /\ 1 \in 1..Len(s) BY <1>5
<1>7. PICK c \in Call : c = Head(wire[j].ops) /\ c = s[1] BY <1>3, <1>5, <1>6
<1>8. ctx[c].phase = "handed" /\ ctx[c].kind \in Operations BY <1>4, <1>5, <1>6, <1>7 DEF EntryOK
<1>9. PICK r \in Results(ctx[c].kind) :
       /\ state' = IF OnResult(ctx[c].kind, r).rollback /\ state = "active" THEN "rollbackOnly" ELSE state
       /\ failed' = IF Fails(ctx[c].kind, r) /\ ctx[c].ran # 0 THEN failed \cup {ctx[c].ran} ELSE failed
       /\ CASE OnResult(ctx[c].kind, r).told \in {"ok", "error"} -> Apply(c, ctx, OnResult(ctx[c].kind, r).told)
            [] OnResult(ctx[c].kind, r).told = "nothing" -> UNCHANGED <<ctx, thrown>>
            [] OnResult(ctx[c].kind, r).told = "throws" -> UNCHANGED ctx /\ thrown' = thrown \cup {c}
  BY <1>7, Zenon DEF OperationAnswered
<1>10. PICK told, rollback : told = OnResult(ctx[c].kind, r).told /\ rollback = OnResult(ctx[c].kind, r).rollback
  OBVIOUS
<1>11. /\ told \in {"ok", "error", "nothing", "throws"} /\ rollback \in BOOLEAN
       /\ ctx[c].kind \in Finds \cup Writes => told \in {"ok", "error"}
       /\ Fails(ctx[c].kind, r) => rollback
  BY <1>8, <1>10, SaysIs
<1>12. \/ told \in {"ok", "error"} /\ Apply(c, ctx, told)
       \/ told \notin {"ok", "error"} /\ ctx' = ctx
  BY <1>9, <1>10, <1>11
<1>13. ctx[c].kind # None /\ ctx[c].kind # "execute"
  BY <1>8, NoneIsNoKind DEF Operations, Finds, Writes, Queries
<1>14. ~On(c, batchList) BY <1>2, <1>8 DEF BatchOK, On, Collected
<1>15. Contexts(c) /\ (told \in {"ok", "error"} => Answered(c)')
  <2>1. CASE told \in {"ok", "error"} /\ Apply(c, ctx, told)
    BY <1>1, <1>13, <1>14, <2>1, ApplyKeeps
  <2>2. CASE told \notin {"ok", "error"} /\ ctx' = ctx
    BY <1>1, <2>2, Unchanged
  <2> QED BY <1>12, <2>1, <2>2
<1>16. /\ ctx' \in [Call -> Context] /\ AllGo /\ ContextsOK' /\ CallbackOK' /\ AnswerOK' /\ CommitsOK
       /\ BatchOK'
  BY <1>1, <1>15 DEF Contexts
<1>17. PICK v : v = [w EXCEPT !.ops = Tail(@)] OBVIOUS
<1>18. PICK t \in Seq(Call) : t = Tail(s)
  <2>1. Tail(s) \in Seq(Call) BY <1>5
  <2> QED BY <2>1
<1>19. v.what = "operations" /\ v.ops = t /\ v.for = w.for /\ v.tx = w.tx /\ v \in Entry
  BY <1>4, <1>5, <1>17, <1>18 DEF Entry
<1>20. Len(t) = Len(s) - 1 /\ \A i \in 1..(Len(s) - 1) : t[i] = s[i + 1] BY <1>5, <1>6, <1>18
<1>21. EntryOK(w)' BY <1>1, <1>2, <1>4, <1>16, EntryKeeps DEF TypeOK
<1>22. EntryOK(v)'
  <2>1. v.tx <= nTx' /\ ctx'[v.for].kind \in Operations \cup {"execute"}
    BY <1>4, <1>19, <1>21 DEF EntryOK
  <2>2. \A i \in 1..Len(s) :
            /\ ctx'[s[i]].phase = "handed" /\ ctx'[s[i]].kind \in Operations
            /\ ctx'[w.for].kind = "execute" => ctx'[s[i]].inBatch
    BY <1>4, <1>5, <1>21 DEF EntryOK
  <2>3. \A i \in 1..Len(t) : i + 1 \in 1..Len(s) /\ t[i] = s[i + 1] BY <1>6, <1>20
  <2>4. \A i \in 1..Len(t) :
            /\ ctx'[t[i]].phase = "handed" /\ ctx'[t[i]].kind \in Operations
            /\ ctx'[v.for].kind = "execute" => ctx'[t[i]].inBatch
    BY <1>19, <2>2, <2>3
  <2>5. ASSUME ctx'[v.for].kind = "execute", NEW i \in 1..Len(ctx'[v.for].ops)
        PROVE Answered(ctx[v.for].ops[i])' \/ On(ctx'[v.for].ops[i], t)
    <3>1. PICK d : d = ctx'[v.for].ops[i] OBVIOUS
    <3>2. Answered(d)' \/ On(d, s) BY <1>4, <1>5, <1>19, <1>21, <2>5, <3>1 DEF EntryOK, Answered
    <3>3. CASE Answered(d)' BY <3>1, <3>3 DEF Answered
    <3>4. ASSUME NEW k \in 1..Len(s), s[k] = d PROVE Answered(d)' \/ On(d, t)
      <4>1. CASE k = 1
        <5>1. d = c BY <1>7, <3>4, <4>1
        <5>2. ctx'[c].inBatch /\ ctx'[c].kind = ctx[c].kind
          BY <1>13, <1>16, <1>19, <2>2, <2>5, <3>4, <5>1 DEF AllGo, Goes
        <5>3. ctx[c].kind \in Finds \cup Writes BY <1>16, <5>2 DEF ContextsOK, ContextOK
        <5> QED BY <1>11, <1>15, <5>1, <5>3
      <4>2. CASE k # 1
        <5>1. k - 1 \in 1..Len(t) /\ t[k - 1] = d BY <1>6, <1>20, <3>4, <4>2
        <5> QED BY <5>1 DEF On
      <4> QED BY <4>1, <4>2
    <3>5. Answered(d)' \/ On(d, t) BY <3>2, <3>4 DEF On
    <3> QED BY <3>1, <3>5 DEF Answered
  <2> QED BY <1>19, <2>1, <2>4, <2>5 DEF EntryOK
<1>23. PICK n \in Nat : n = Len(wire) BY <1>2 DEF TypeOK
<1>24. /\ wire' \in Seq(Entry) /\ Len(wire') = n /\ wire'[j] = v
       /\ \A i \in 1..n : i # j => wire'[i] = wire[i] /\ wire[i] \in Entry
  <2>1. wire' = [wire EXCEPT ![j] = v] BY <1>1, <1>3, <1>17
  <2> QED BY <1>2, <1>19, <1>23, <2>1 DEF TypeOK
<1>25. WireOK'
  <2>1. ASSUME NEW i \in 1..n PROVE EntryOK(wire[i])'
    <3>1. CASE i = j
      <4>1. v = wire'[i] BY <1>24, <3>1
      <4> QED BY <1>22, <4>1 DEF EntryOK
    <3>2. CASE i # j
      <4>1. PICK u \in Entry : u = wire[i] BY <1>24, <3>2
      <4>2. EntryOK(u) BY <1>2, <1>23, <4>1 DEF WireOK
      <4>3. EntryOK(u)' BY <1>1, <1>2, <1>16, <4>2, EntryKeeps DEF TypeOK
      <4>4. u = wire'[i] BY <1>24, <3>2, <4>1
      <4> QED BY <4>3, <4>4 DEF EntryOK
    <3> QED BY <3>1, <3>2
  <2> QED BY <1>24, <2>1 DEF WireOK, EntryOK
<1>26. \A i \in 1..n : (IsEnd(wire'[i]) <=> IsEnd(wire[i])) /\ wire'[i].tx = wire[i].tx
  BY <1>3, <1>4, <1>19, <1>24 DEF IsEnd
<1>27. (state' = "idle" <=> state = "idle") /\ (state' = "active" => state = "active" /\ ~rollback)
       /\ state' \in {"idle", "active", "rollbackOnly"}
  BY <1>2, <1>9, <1>10 DEF TypeOK
<1>28. EndsOK' BY <1>1, <1>2, <1>23, <1>24, <1>26, <1>27 DEF EndsOK, IsEnd
<1>29. IdleMeansEnded' BY <1>1, <1>2, <1>27 DEF IdleMeansEnded
<1>30. FailOK' BY <1>1, <1>2, <1>9, <1>11, <1>27 DEF FailOK
<1>31. failed' \subseteq 1..nTx
  <2>1. ctx[c].ran \in Nat /\ ctx[c].ran <= nTx BY <1>2, <1>8 DEF ContextsOK, ContextOK
  <2> QED BY <1>2, <1>9, <2>1 DEF TypeOK
<1>32. TypeOK' BY <1>1, <1>2, <1>16, <1>24, <1>27, <1>31 DEF TypeOK
<1>33. TurnOK' BY <1>1 DEF TurnOK
<1> QED BY <1>16, <1>25, <1>28, <1>29, <1>30, <1>32, <1>33 DEF IInv

LEMMA ListAnsweredKeeps ==
  ASSUME IInv, NEW j \in 1..Len(wire), ListAnswered(j)
  PROVE IInv' /\ CommitsOK
<1>1. /\ turn = None /\ wire[j].what = "operations" /\ wire[j].ops = <<>> /\ wire' = Without(j)
      /\ UNCHANGED <<state, batchList, known, turn, history>>
  BY DEF ListAnswered, CanAnswer
<1>2. TypeOK /\ ContextsOK /\ BatchOK /\ WireOK BY DEF IInv
<1>3. PICK w \in Entry : w = wire[j] BY <1>2 DEF TypeOK
<1>4. w.what = "operations" /\ w.ops = <<>> /\ EntryOK(w) BY <1>1, <1>2, <1>3 DEF WireOK
<1>5. PICK c \in Call : c = w.for BY DEF Entry
<1>6. \/ ctx[c].kind = "execute" /\ \E answer \in {"ok", "error"} : Apply(c, ctx, answer)
      \/ ctx' = ctx
  BY <1>3, <1>5 DEF ListAnswered
<1>7. nTx' = nTx BY <1>1 DEF history
<1>8. Contexts(c)
  <2>1. ASSUME ctx[c].kind = "execute", NEW answer \in {"ok", "error"}, Apply(c, ctx, answer)
        PROVE Contexts(c)
    <3>1. Len(w.ops) = 0 BY <1>4
    <3>2. \A d : ~On(d, w.ops) BY <3>1 DEF On
    <3>3. \A i \in 1..Len(ctx[c].ops) : Answered(ctx[c].ops[i]) BY <1>4, <1>5, <2>1, <3>2 DEF EntryOK
    <3>4. ~On(c, batchList)
      <4>1. "execute" \notin Finds \cup Writes BY DEF Finds, Writes
      <4>2. ~ctx[c].inBatch BY <1>2, <2>1, <4>1 DEF ContextsOK, ContextOK
      <4> QED BY <1>2, <4>2 DEF BatchOK, On, Collected
    <3>5. ctx[c].kind # None BY <2>1, NoneIsNoKind
    <3> QED BY <1>7, <2>1, <3>3, <3>4, <3>5, ApplyKeeps
  <2>2. CASE ctx' = ctx BY <1>7, <2>2, Unchanged
  <2> QED BY <1>6, <2>1, <2>2
<1>9. /\ ctx' \in [Call -> Context] /\ AllGo /\ ContextsOK' /\ CallbackOK' /\ AnswerOK' /\ CommitsOK
      /\ BatchOK'
  BY <1>1, <1>8 DEF Contexts
<1>10. /\ WireOK' /\ wire' \in Seq(Entry)
       /\ \A i \in 1..Len(wire') : \E k \in 1..Len(wire) : k # j /\ wire'[i] = wire[k]
       /\ \A i1, i2 \in 1..Len(wire') : i1 # i2 => \E k1, k2 \in 1..Len(wire) :
            k1 # k2 /\ wire'[i1] = wire[k1] /\ wire'[i2] = wire[k2]
  BY <1>1, <1>7, <1>9, WireLoses
<1>11. FailOK' /\ IdleMeansEnded' BY <1>1, TxKeeps
<1>12. EndsOK'
  <2>1. EndsOK BY DEF IInv
  <2>2. UNCHANGED <<state, nTx, overlap>> BY <1>1 DEF history
  <2>3. ASSUME ~overlap, NEW i \in 1..Len(wire'), IsEnd(wire'[i])
        PROVE /\ wire'[i].tx = nTx /\ state # "idle"
              /\ \A k \in 1..Len(wire') : IsEnd(wire'[k]) => k = i
    <3>1. wire'[i].tx = nTx /\ state # "idle"
      <4>1. PICK k \in 1..Len(wire) : wire'[i] = wire[k] BY <1>10
      <4>2. IsEnd(wire[k]) BY <2>3, <4>1
      <4> QED BY <2>1, <2>3, <4>1, <4>2 DEF EndsOK
    <3>2. ASSUME NEW k \in 1..Len(wire'), IsEnd(wire'[k]), k # i PROVE FALSE
      <4>1. PICK k1, k2 \in 1..Len(wire) : k1 # k2 /\ wire'[i] = wire[k1] /\ wire'[k] = wire[k2]
        BY <1>10, <3>2
      <4>2. IsEnd(wire[k1]) /\ IsEnd(wire[k2]) BY <2>3, <3>2, <4>1
      <4> QED BY <2>1, <2>3, <4>1, <4>2 DEF EndsOK
    <3> QED BY <3>1, <3>2
  <2> QED BY <2>2, <2>3 DEF EndsOK, IsEnd
<1>13. TypeOK' BY <1>1, <1>2, <1>9, <1>10 DEF TypeOK, history
<1>14. TurnOK' BY <1>1 DEF TurnOK
<1> QED BY <1>9, <1>10, <1>11, <1>12, <1>13, <1>14 DEF IInv

LEMMA EndAnsweredKeeps ==
  ASSUME IInv, NEW j \in 1..Len(wire), EndAnswered(j)
  PROVE IInv' /\ CommitsOK
<1>1. /\ turn = None /\ IsEnd(wire[j]) /\ state' = "idle" /\ ended' = ended \cup {wire[j].tx}
      /\ wire' = Without(j)
      /\ UNCHANGED <<batchList, known, turn, nTx, failed, overlap>>
  BY DEF EndAnswered, CanAnswer, IsEnd
<1>2. TypeOK /\ ContextsOK /\ BatchOK /\ WireOK /\ EndsOK BY DEF IInv
<1>3. PICK w \in Entry : w = wire[j] BY <1>2 DEF TypeOK
<1>4. w.what # "operations" /\ EntryOK(w) BY <1>1, <1>2, <1>3 DEF WireOK, IsEnd
<1>5. PICK c \in Call : c = w.for BY DEF Entry
<1>6. ctx[c].kind \in {"commit", "rollback"} BY <1>4, <1>5 DEF EntryOK
<1>7. PICK answer \in {"ok", "error"} : Apply(c, ctx, answer) BY <1>3, <1>5 DEF EndAnswered
<1>8. Contexts(c)
  <2>1. ctx[c].kind # None /\ ctx[c].kind # "execute" BY <1>6, NoneIsNoKind
  <2>2. ~On(c, batchList)
    <3>1. ctx[c].kind \notin Finds \cup Writes BY <1>6 DEF Finds, Writes
    <3>2. ~ctx[c].inBatch BY <1>2, <3>1 DEF ContextsOK, ContextOK
    <3> QED BY <1>2, <3>2 DEF BatchOK, On, Collected
  <2> QED BY <1>1, <1>7, <2>1, <2>2, ApplyKeeps
<1>9. /\ ctx' \in [Call -> Context] /\ AllGo /\ ContextsOK' /\ CallbackOK' /\ AnswerOK' /\ CommitsOK
      /\ BatchOK'
  BY <1>1, <1>8 DEF Contexts
<1>10. /\ WireOK' /\ wire' \in Seq(Entry)
       /\ \A i \in 1..Len(wire') : \E k \in 1..Len(wire) : k # j /\ wire'[i] = wire[k]
  BY <1>1, <1>9, WireLoses
<1>11. FailOK' BY <1>1 DEF FailOK
<1>12. IdleMeansEnded' BY <1>1, <1>2 DEF IdleMeansEnded, EndsOK
<1>13. EndsOK'
  <2>1. ASSUME ~overlap, NEW i \in 1..Len(wire'), IsEnd(wire'[i]) PROVE FALSE
    <3>1. PICK k \in 1..Len(wire) : k # j /\ wire'[i] = wire[k] BY <1>10
    <3>2. IsEnd(wire[k]) BY <2>1, <3>1
    <3> QED BY <1>1, <1>2, <2>1, <3>1, <3>2 DEF EndsOK
  <2> QED BY <1>1, <2>1 DEF EndsOK, IsEnd
<1>14. ended' \subseteq 0..nTx
  <2>1. w.tx \in Nat /\ w.tx <= nTx BY <1>4 DEF EntryOK, Entry
  <2>2. nTx \in Nat /\ ended \subseteq 0..nTx BY <1>2 DEF TypeOK
  <2>3. w.tx \in 0..nTx BY <2>1, <2>2
  <2> QED BY <1>1, <1>3, <2>2, <2>3
<1>15. TypeOK' BY <1>1, <1>2, <1>9, <1>10, <1>14 DEF TypeOK
<1>16. TurnOK' BY <1>1 DEF TurnOK
<1> QED BY <1>9, <1>10, <1>11, <1>12, <1>13, <1>15, <1>16 DEF IInv
-----------------------------------------------------------------------------
LEMMA InitHolds == Init => IInv
<1> SUFFICES ASSUME Init PROVE IInv OBVIOUS
<1>1. PICK e : e = [kind |-> None, inBatch |-> FALSE, phase |-> "new", clear |-> FALSE,
                    definedCallback |-> None, ops |-> <<>>, ran |-> None, answers |-> <<>>]
  OBVIOUS
<1>2. e \in Context
  <2>1. <<>> \in Seq(Call) OBVIOUS
  <2> QED BY <1>1, <2>1 DEF Context, Phases
<1>3. /\ e.kind = None /\ ~e.inBatch /\ e.phase = "new" /\ e.definedCallback = None /\ e.ops = <<>>
      /\ e.ran = None /\ e.answers = <<>>
  BY <1>1
<1>4. \A c \in Call : ctx[c] = e BY <1>1 DEF Init
<1>5. <<>> # <<"cleared">> OBVIOUS
<1>6. ContextOK(e) BY <1>3, <1>5, NoneIsNoKind DEF ContextOK, Cleared
<1>7. batchList = <<>> /\ wire = <<>> /\ turn = None /\ state = "idle" /\ nTx = 0 /\ ended = {} /\ failed = {}
      /\ overlap = FALSE
  BY DEF Init
<1>8. Len(batchList) = 0 /\ Len(wire) = 0 /\ batchList \in Seq(Call) /\ wire \in Seq(Entry) BY <1>7
<1>9. TypeOK
  <2>1. ctx \in [Call -> Context] BY <1>1, <1>2 DEF Init
  <2> QED BY <1>7, <1>8, <2>1 DEF TypeOK
<1>10. ContextsOK BY <1>4, <1>6 DEF ContextsOK
<1>11. CallbackOK /\ TurnOK BY <1>3, <1>4, <1>7 DEF CallbackOK, TurnOK
<1>12. \A x \in Call : Len(ctx[x].ops) = 0
  <2>1. \A x \in Call : ctx[x].ops = <<>> BY <1>3, <1>4
  <2> QED BY <2>1
<1>13. BatchOK BY <1>8, <1>12 DEF BatchOK, Spoilt
<1>14. AnswerOK BY <1>12 DEF AnswerOK
<1>15. WireOK /\ EndsOK BY <1>8 DEF WireOK, EndsOK
<1>16. FailOK /\ IdleMeansEnded BY <1>7 DEF FailOK, IdleMeansEnded
<1> QED BY <1>9, <1>10, <1>11, <1>13, <1>14, <1>15, <1>16 DEF IInv

LEMMA NextKeeps ==
  ASSUME IInv, Next
  PROVE IInv' /\ CommitsOK
<1>1. CASE User
  <2>1. CASE Begin BY <2>1, BeginKeeps
  <2>2. CASE SetRollbackOnly BY <2>2, SetRollbackOnlyKeeps
  <2>3. CASE BatchClear BY <2>3, BatchClearKeeps
  <2>4. ASSUME NEW c \in Call, BatchExecute(c) PROVE IInv' /\ CommitsOK BY <2>4, BatchExecuteKeeps
  <2>5. ASSUME NEW c \in Call, NEW kind \in KindsOf(c), Delegate(c, kind) PROVE IInv' /\ CommitsOK
    BY <2>5, DelegateKeeps
  <2>6. ASSUME NEW c \in Call, NEW kind \in KindsOf(c), NEW inBatch \in BOOLEAN, UserCall(c, kind, inBatch)
        PROVE IInv' /\ CommitsOK
    BY <2>6, UserCallKeeps
  <2>7. ASSUME NEW c \in Call, NEW how \in {"commit", "rollback"}, End(c, how) PROVE IInv' /\ CommitsOK
    BY <2>7, EndKeeps
  <2> QED BY <1>1, <2>1, <2>2, <2>3, <2>4, <2>5, <2>6, <2>7, Zenon DEF User
<1>2. ASSUME NEW c \in Call, Adapter(c) PROVE IInv' /\ CommitsOK
  <2>1. CASE TableHandler(c) BY <2>1, TableHandlerKeeps
  <2>2. CASE DelegateAnswered(c) BY <2>2, DelegateAnsweredKeeps
  <2>3. ASSUME NEW j \in 1..Len(wire), OperationAnswered(j) PROVE IInv' /\ CommitsOK
    BY <2>3, OperationAnsweredKeeps
  <2>4. ASSUME NEW j \in 1..Len(wire), ListAnswered(j) PROVE IInv' /\ CommitsOK
    BY <2>4, ListAnsweredKeeps
  <2>5. ASSUME NEW j \in 1..Len(wire), EndAnswered(j) PROVE IInv' /\ CommitsOK
    BY <2>5, EndAnsweredKeeps
  <2> QED BY <1>2, <2>1, <2>2, <2>3, <2>4, <2>5, Zenon DEF Adapter
<1> QED BY <1>1, <1>2, Zenon DEF Next

LEMMA StutterKeeps ==
  ASSUME IInv, UNCHANGED vars
  PROVE IInv' /\ CommitsOK
<1>1. UNCHANGED <<state, ctx, batchList, turn, wire, nTx, ended, failed, overlap>> BY DEF vars
<1>2. TypeOK' /\ ContextsOK' /\ CallbackOK' /\ TurnOK'
  BY <1>1 DEF IInv, TypeOK, ContextsOK, ContextOK, CallbackOK, TurnOK
<1>3. BatchOK' /\ AnswerOK'
  BY <1>1 DEF IInv, BatchOK, Spoilt, AnswerOK, Answered
<1>4. WireOK' BY <1>1 DEF IInv, WireOK, EntryOK, Answered
<1>5. FailOK' /\ IdleMeansEnded' /\ EndsOK' BY <1>1 DEF IInv, FailOK, IdleMeansEnded, EndsOK
<1>6. CommitsOK BY <1>1, NoneIsNoKind DEF CommitsOK
<1> QED BY <1>2, <1>3, <1>4, <1>5, <1>6 DEF IInv

\* The inductive invariant holds in every reachable state, for any calls, kinds of
\* calls and number of transactions (Session, Batch, Transaction, UserContext).
THEOREM Invariance == Spec => []IInv
<1>1. Init => IInv BY InitHolds
<1>2. IInv /\ [Next]_vars => IInv' BY NextKeeps, StutterKeeps
<1> QED BY <1>1, <1>2, PTL DEF Spec

\* The user is called back at most once for a call, whatever becomes of its batch
\* (applyCallback, Promise, Batch.clear).
THEOREM OneAnswer == Spec => []AnsweredOnce
<1>1. IInv => AnsweredOnce
  <2> SUFFICES ASSUME IInv, NEW c \in Call PROVE Len(ctx[c].answers) <= 1 BY DEF AnsweredOnce
  <2>1. PICK s : s = ctx[c].answers /\ s \in {<<>>} \cup {<<a>> : a \in Answers}
    BY DEF IInv, TypeOK, Context
  <2>2. CASE s = <<>>
    <3>1. Len(s) = 0 BY <2>2
    <3> QED BY <2>1, <3>1
  <2>3. CASE s # <<>>
    <3>1. PICK a \in Answers : s = <<a>> BY <2>1, <2>3
    <3>2. Len(s) = 1 BY <3>1
    <3> QED BY <2>1, <3>2
  <2> QED BY <2>2, <2>3
<1> QED BY <1>1, Invariance, PTL

\* What was cleared is not executed, and the callback of Batch.execute comes after
\* those of all its operations (Batch.clear, Batch.execute, executeBatch).
THEOREM BatchWhole == Spec => []BatchIsExecutedWhole
<1>1. IInv => BatchIsExecutedWhole
  <2> SUFFICES ASSUME IInv PROVE BatchIsExecutedWhole OBVIOUS
  <2>1. \A c \in Call : ctx[c].answers = <<"cleared">> => ctx[c].ran = None
    BY DEF IInv, ContextsOK, ContextOK, Cleared
  <2>2. AnswerOK BY DEF IInv
  <2> QED BY <2>1, <2>2 DEF BatchIsExecutedWhole, AnswerOK
<1> QED BY <1>1, Invariance, PTL

\* The API says Idle exactly when the last transaction begun was ended and its end
\* answered, unless two ends were called at once (commitOnCommit, rollbackOnRollback).
THEOREM IdleIsTrue == Spec => []IdleMeansEnded
<1>1. IInv => IdleMeansEnded BY DEF IInv
<1> QED BY <1>1, Invariance, PTL

\* A transaction in which an operation has failed is not given to the adapter to be
\* committed (the onResult callbacks, RollbackOnly.commit).
THEOREM NoBadCommit == Spec => FailureForbidsCommit
<1>1. IInv /\ [Next]_vars => CommitsOK BY NextKeeps, StutterKeeps
<1>2. CommitsOK =>
        \A c \in Call : ctx[c].kind = None /\ ctx'[c].kind = "commit" /\ ctx'[c].phase = "handed"
          /\ ctx'[c].ran # 0 => ctx'[c].ran \notin failed
  BY DEF CommitsOK
<1> QED BY <1>1, <1>2, Invariance, PTL DEF Spec, FailureForbidsCommit
=============================================================================
