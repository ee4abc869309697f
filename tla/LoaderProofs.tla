---------------------------- MODULE LoaderProofs ----------------------------
(***************************************************************************)
(* The jobs of the loader are sound, for every set of jobs, every lead and *)
(* every set of faults.                                                    *)
(*                                                                         *)
(* What is claimed at the end of a job is not inductive.  That no row is   *)
(* outstanding when the final callback comes needs that the rows           *)
(* outstanding are exactly those in the batch, on their way, being called  *)
(* back or lost (Count), each of them once, because rows are numbered in   *)
(* the order they are read and answered in the order they were sent        *)
(* (Flow).  That the end comes once needs the stage it is in: asked for,   *)
(* queued behind the records of the bad file, closing, called back         *)
(* (Phase), and that no row and no read is left to start it again (Quiet,  *)
(* Source).  That the bad file is whole needs that its queue runs for its  *)
(* head and nothing else (Log).  That a job in one transaction is all or   *)
(* nothing needs that no row has failed while it can still be committed    *)
(* (Whole).                                                                *)
(*                                                                         *)
(* The calls are operators on the state of a job, so the lemmas are about  *)
(* a state s and what an operator makes of it; each action is a lemma, and *)
(* they are put together at the end.                                       *)
(***************************************************************************)
EXTENDS Loader, FiniteSetTheorems, SequenceTheorems, TLAPS

\* Rows are numbered from 1; 0 is CLOSE in the queue of the logger.
Row == Nat \ {0}

-----------------------------------------------------------------------------
\* What a call leaves alone: the source, the counts, the writer, the end of the job.
SameSource(s, t) ==
  /\ t.running = s.running /\ t.shutdown = s.shutdown /\ t.skipping = s.skipping
  /\ t.looping = s.looping /\ t.opening = s.opening /\ t.reads = s.reads
  /\ t.atBuffer = s.atBuffer /\ t.lines = s.lines
SameCounts(s, t) ==
  /\ t.processed = s.processed /\ t.skipped = s.skipped /\ t.complete = s.complete /\ t.loaded = s.loaded
SameWriter(s, t) ==
  /\ t.batch = s.batch /\ t.flights = s.flights /\ t.answering = s.answering /\ t.lost = s.lost
  /\ t.aborted = s.aborted /\ t.tx = s.tx /\ t.outcome = s.outcome
SameEnd(s, t) == t.ended = s.ended /\ t.finals = s.finals /\ t.ends = s.ends
Work(s, t) == SameSource(s, t) /\ SameCounts(s, t) /\ SameWriter(s, t)
Frame(s, t) == Work(s, t) /\ SameEnd(s, t)
Same(s, t) == Frame(s, t) /\ t.rash = s.rash

LEMMA WorkTrans ==
  ASSUME NEW s, NEW t, NEW u, Work(s, t), Work(t, u)
  PROVE Work(s, u)
<1>1. SameSource(s, u) BY DEF Work, SameSource
<1>2. SameCounts(s, u) BY DEF Work, SameCounts
<1>3. SameWriter(s, u) BY DEF Work, SameWriter
<1> QED BY <1>1, <1>2, <1>3 DEF Work

LEMMA FrameTrans ==
  ASSUME NEW s, NEW t, NEW u, Frame(s, t), Frame(t, u)
  PROVE Frame(s, u)
<1>1. Work(s, u) BY WorkTrans DEF Frame
<1>2. SameEnd(s, u) BY DEF Frame, SameEnd
<1> QED BY <1>1, <1>2 DEF Frame

\* The logger starts to write or to close the head of its queue, if there is one.
LEMMA RunQueueIs ==
  ASSUME NEW s, NEW t, t = RunQueue(s)
  PROVE /\ Same(s, t) /\ t.fd = s.fd /\ t.opens = s.opens /\ t.queue = s.queue /\ t.rejected = s.rejected
        /\ s.queue = <<>> => t.closing = s.closing /\ t.writes = s.writes /\ t.logged = s.logged
        /\ s.queue # <<>> /\ Head(s.queue) = 0 =>
             t.closing = s.closing + 1 /\ t.writes = s.writes /\ t.logged = s.logged /\ t.dead = s.dead
        /\ s.queue # <<>> /\ Head(s.queue) # 0 =>
             /\ t.closing = s.closing /\ t.dead = s.dead
             /\ t.writes = s.writes \cup {Head(s.queue)} /\ t.logged = s.logged \cup {Head(s.queue)}
<1>1. CASE s.queue = <<>>
  BY <1>1 DEF RunQueue, Dies, Same, Frame, Work, SameSource, SameCounts, SameWriter, SameEnd
<1>2. CASE s.queue # <<>> /\ Head(s.queue) = 0
  BY <1>2 DEF RunQueue, Same, Frame, Work, SameSource, SameCounts, SameWriter, SameEnd
<1>3. CASE s.queue # <<>> /\ Head(s.queue) # 0
  BY <1>3 DEF RunQueue, Same, Frame, Work, SameSource, SameCounts, SameWriter, SameEnd
<1> QED BY <1>1, <1>2, <1>3

LEMMA RunIfFirstIs ==
  ASSUME NEW s, NEW t, t = RunIfFirst(s)
  PROVE /\ Same(s, t) /\ t.fd = s.fd /\ t.opens = s.opens /\ t.queue = s.queue /\ t.rejected = s.rejected
        /\ Len(s.queue) # 1 =>
             t.closing = s.closing /\ t.writes = s.writes /\ t.logged = s.logged /\ t.dead = s.dead
        /\ Len(s.queue) = 1 => t = RunQueue(s)
<1>1. CASE Len(s.queue) = 1
  <2>1. t = RunQueue(s) BY <1>1 DEF RunIfFirst
  <2> QED BY <1>1, <2>1, RunQueueIs
<1>2. CASE Len(s.queue) # 1
  BY <1>2 DEF RunIfFirst, Same, Frame, Work, SameSource, SameCounts, SameWriter, SameEnd
<1> QED BY <1>1, <1>2

\* Sequences of rows: one more at the end, one less at the head.
LEMMA RowsAppend ==
  ASSUME NEW S, NEW q \in Seq(S), NEW e \in S
  PROVE /\ Append(q, e) \in Seq(S) /\ Append(q, e) # <<>> /\ Rows(Append(q, e)) = Rows(q) \cup {e}
        /\ Len(Append(q, e)) = Len(q) + 1
        /\ Head(Append(q, e)) = IF q = <<>> THEN e ELSE Head(q)
        /\ \A i \in 1..Len(q) : Append(q, e)[i] = q[i]
        /\ Append(q, e)[Len(q) + 1] = e
<1>1. Len(q) \in Nat BY LenProperties
<1>2. /\ Append(q, e) \in Seq(S) /\ Append(q, e) # <<>> /\ Len(Append(q, e)) = Len(q) + 1
      /\ \A i \in 1..Len(q) : Append(q, e)[i] = q[i]
      /\ Append(q, e)[Len(q) + 1] = e
  BY AppendProperties
<1>3. Head(Append(q, e)) = IF q = <<>> THEN e ELSE Head(q) BY HeadTailAppend
<1>4. 1..Len(Append(q, e)) = 1..Len(q) \cup {Len(q) + 1} BY <1>1, <1>2
<1>5. Rows(Append(q, e)) = Rows(q) \cup {e} BY <1>2, <1>4 DEF Rows
<1> QED BY <1>2, <1>3, <1>5

LEMMA RowsTail ==
  ASSUME NEW S, NEW q \in Seq(S), q # <<>>
  PROVE /\ Head(q) \in S /\ Tail(q) \in Seq(S) /\ Rows(q) = {Head(q)} \cup Rows(Tail(q))
        /\ Len(q) \in Nat /\ Len(q) >= 1 /\ Len(Tail(q)) = Len(q) - 1 /\ Head(q) = q[1]
        /\ \A i \in 1..Len(Tail(q)) : Tail(q)[i] = q[i + 1] /\ i + 1 \in 1..Len(q)
<1>1. Len(q) \in Nat /\ Len(q) >= 1 BY LenProperties, EmptySeq
<1>2. /\ Head(q) \in S /\ Tail(q) \in Seq(S) /\ Len(Tail(q)) = Len(q) - 1
      /\ \A i \in 1..Len(Tail(q)) : Tail(q)[i] = q[i + 1]
  BY HeadTailProperties
<1>3. Head(q) = q[1] BY <1>1
<1>4. \A i \in 1..Len(Tail(q)) : i + 1 \in 1..Len(q) BY <1>1, <1>2
<1>5. \A i \in 1..Len(q) : i = 1 \/ (i - 1 \in 1..Len(Tail(q)) /\ q[i] = Tail(q)[i - 1])
  <2> SUFFICES ASSUME NEW i \in 1..Len(q), i # 1
               PROVE i - 1 \in 1..Len(Tail(q)) /\ q[i] = Tail(q)[i - 1]
    OBVIOUS
  <2>1. i - 1 \in 1..Len(Tail(q)) BY <1>1, <1>2
  <2>2. Tail(q)[i - 1] = q[(i - 1) + 1] BY <1>2, <2>1
  <2>3. (i - 1) + 1 = i OBVIOUS
  <2> QED BY <2>1, <2>2, <2>3
<1>6. Rows(q) \subseteq {Head(q)} \cup Rows(Tail(q)) BY <1>3, <1>5 DEF Rows
<1>7. {Head(q)} \cup Rows(Tail(q)) \subseteq Rows(q)
  <2>1. Head(q) \in Rows(q)
    <3>1. 1 \in 1..Len(q) BY <1>1
    <3> QED BY <1>3, <3>1 DEF Rows
  <2>2. Rows(Tail(q)) \subseteq Rows(q) BY <1>2, <1>4 DEF Rows
  <2> QED BY <2>1, <2>2
<1> QED BY <1>1, <1>2, <1>3, <1>4, <1>6, <1>7

LEMMA RowsAre ==
  ASSUME NEW S, NEW q \in Seq(S)
  PROVE Rows(q) \subseteq S /\ (Rows(q) = {} <=> q = <<>>) /\ Rows(<<>>) = {}
<1>1. Rows(q) \subseteq S BY ElementOfSeq DEF Rows
<1>2. Rows(<<>>) = {} BY DEF Rows
<1>3. ASSUME q # <<>> PROVE Rows(q) # {}
  <2>1. Rows(q) = {Head(q)} \cup Rows(Tail(q)) BY <1>3, RowsTail
  <2> QED BY <2>1
<1> QED BY <1>1, <1>2, <1>3

-----------------------------------------------------------------------------
\* A row that failed is in the queue of the logger or was written; nothing is written
\* before the file is open; the head of the queue of an open file is being written.
Kept(s) ==
  /\ s.rejected \subseteq s.logged \cup Rows(s.queue)
  /\ s.writes # {} => s.fd # "none"
  /\ s.fd # "none" /\ s.queue # <<>> => Head(s.queue) \in s.logged \cup {0}
\* Without a second record during the open (rash): one open at a time, and one write,
\* that of the head of the queue, where only rows that failed are.
Log(s) ==
  /\ s.opens <= 1 /\ (s.opens > 0 => s.fd = "none" /\ job.badfile)
  /\ s.fd = "none" => (s.opens > 0 <=> s.queue # <<>>)
  /\ s.writes = IF s.fd # "none" /\ s.queue # <<>> /\ Head(s.queue) # 0 THEN {Head(s.queue)} ELSE {}
  /\ Rows(s.queue) \subseteq s.rejected \cup {0} /\ s.logged \subseteq s.rejected

\* Starting the head keeps the records.
LEMMA RunQueueKeeps ==
  ASSUME NEW s, NEW t, t = RunQueue(s), s.closing \in Nat, s.opens \in Nat,
         s.queue \in Seq(Nat), s.rejected \subseteq Row, s.fd # "none",
         s.rejected \subseteq s.logged \cup Rows(s.queue)
  PROVE /\ Kept(t) /\ t.closing \in Nat
        /\ (~s.rash => s.opens = 0 /\ s.queue # <<>> /\ s.writes = {} /\ s.logged \subseteq s.rejected
                         /\ Rows(s.queue) \subseteq s.rejected \cup {0}) =>
             (~t.rash => Log(t) /\ t.dead = s.dead)
<1>1. /\ t.rash = s.rash /\ t.fd = s.fd /\ t.opens = s.opens /\ t.queue = s.queue /\ t.rejected = s.rejected
  BY RunQueueIs DEF Same
<1>2. CASE s.queue = <<>>
  <2>1. t.closing = s.closing /\ t.writes = s.writes /\ t.logged = s.logged BY <1>2, RunQueueIs
  <2> QED BY <1>1, <1>2, <2>1 DEF Kept
<1>3. CASE s.queue # <<>> /\ Head(s.queue) = 0
  <2>1. /\ t.closing = s.closing + 1 /\ t.writes = s.writes /\ t.logged = s.logged /\ t.dead = s.dead
    BY <1>3, RunQueueIs
  <2>2. Kept(t) BY <1>1, <1>3, <2>1 DEF Kept
  <2>3. ASSUME s.opens = 0, s.writes = {}, s.logged \subseteq s.rejected,
               Rows(s.queue) \subseteq s.rejected \cup {0}
        PROVE Log(t)
    BY <1>1, <1>3, <2>1, <2>3 DEF Log
  <2> QED BY <1>1, <1>3, <2>1, <2>2, <2>3
<1>4. CASE s.queue # <<>> /\ Head(s.queue) # 0
  <2>1. /\ t.closing = s.closing /\ t.dead = s.dead
        /\ t.writes = s.writes \cup {Head(s.queue)} /\ t.logged = s.logged \cup {Head(s.queue)}
    BY <1>4, RunQueueIs
  <2>2. Head(s.queue) \in Rows(s.queue) BY <1>4, RowsTail
  <2> QED BY <1>1, <1>4, <2>1, <2>2 DEF Kept, Log
<1> QED BY <1>2, <1>3, <1>4

LEMMA Queued ==
  ASSUME NEW q \in Seq(Nat), NEW r \in Nat
  PROVE /\ Append(q, r) \in Seq(Nat) /\ Append(q, r) # <<>> /\ Rows(Append(q, r)) = Rows(q) \cup {r}
        /\ Head(Append(q, r)) = IF q = <<>> THEN r ELSE Head(q)
        /\ q = <<>> <=> Len(Append(q, r)) = 1
<1>1. Len(q) \in Nat /\ (q = <<>> <=> Len(q) = 0) BY EmptySeq, LenProperties
<1>2. /\ Append(q, r) \in Seq(Nat) /\ Append(q, r) # <<>> /\ Rows(Append(q, r)) = Rows(q) \cup {r}
      /\ Head(Append(q, r)) = IF q = <<>> THEN r ELSE Head(q)
      /\ Len(Append(q, r)) = Len(q) + 1
  BY RowsAppend
<1> QED BY <1>1, <1>2

\* The state in which logRecord is called for the row r, which has just failed.
Rejecting(s, r) ==
  /\ s.closing \in Nat /\ s.opens \in Nat /\ s.queue \in Seq(Nat) /\ s.rejected \subseteq Row
  /\ r \in s.rejected /\ s.rejected \subseteq s.logged \cup Rows(s.queue) \cup {r}
  /\ s.writes # {} => s.fd # "none"
  /\ s.fd # "none" /\ s.queue # <<>> => Head(s.queue) \in s.logged \cup {0}
  /\ ~s.rash => Log(s)

\* A row that fails is kept (logRecord).
LEMMA LogRecordKeeps ==
  ASSUME NEW s, NEW r \in Row, NEW t, t = LogRecord(s, r), Rejecting(s, r)
  PROVE /\ Frame(s, t) /\ t.rejected = s.rejected
        /\ Kept(t) /\ t.queue \in Seq(Nat) /\ t.closing \in Nat /\ t.opens \in Nat /\ (s.rash => t.rash)
        /\ ~t.rash => /\ Log(t) /\ t.dead = s.dead /\ t.closing = s.closing
                      /\ 0 \in Rows(t.queue) <=> 0 \in Rows(s.queue)
<1> DEFINE b == s.rash \/ s.opens > 0
           u == [s EXCEPT !.queue = Append(@, r), !.rash = b]
<1>1. r \in Nat /\ r # 0 BY DEF Row
<1>2. PICK q \in Seq(Nat) : q = s.queue BY DEF Rejecting
<1>3. PICK p \in Seq(Nat) :
        /\ p = Append(q, r) /\ p # <<>> /\ Rows(p) = Rows(q) \cup {r}
        /\ Head(p) = IF q = <<>> THEN r ELSE Head(q)
        /\ q = <<>> <=> Len(p) = 1
  BY <1>1, Queued
<1>4. /\ Frame(s, u) /\ u.rash = b /\ u.queue = p /\ u.fd = s.fd /\ u.opens = s.opens
      /\ u.rejected = s.rejected /\ u.logged = s.logged /\ u.writes = s.writes
      /\ u.closing = s.closing /\ u.dead = s.dead
  <2>1. u = [s EXCEPT !.queue = p, !.rash = b] BY <1>2, <1>3
  <2> HIDE DEF u, b
  <2> QED BY <2>1 DEF Frame, Work, SameSource, SameCounts, SameWriter, SameEnd
<1>5. t = IF s.fd # "none" THEN RunIfFirst(u)
          ELSE IF ~job.badfile THEN RunQueue([u EXCEPT !.fd = "stderr"])
          ELSE [u EXCEPT !.opens = @ + 1]
  BY DEF LogRecord
<1> HIDE DEF u
<1>6. u.rash <=> s.rash \/ s.opens > 0 BY <1>4
<1> HIDE DEF b
<1>7. /\ u.closing \in Nat /\ u.opens \in Nat /\ u.rejected \subseteq Row
      /\ u.rejected \subseteq u.logged \cup Rows(u.queue) /\ r \in u.rejected
  BY <1>2, <1>3, <1>4 DEF Rejecting
<1>8. ~u.rash => Log(s) /\ s.opens = 0 BY <1>4, <1>6, <1>7 DEF Rejecting
<1>9. 0 \in Rows(u.queue) <=> 0 \in Rows(s.queue) BY <1>1, <1>2, <1>3, <1>4
<1>10. CASE s.fd # "none" /\ q # <<>>
  <2>1. t = RunIfFirst(u) BY <1>5, <1>10
  <2>2. Len(u.queue) # 1 BY <1>3, <1>4, <1>10
  <2>3. /\ Frame(u, t) /\ t.rash = u.rash /\ t.fd = u.fd /\ t.opens = u.opens /\ t.queue = u.queue
        /\ t.rejected = u.rejected
        /\ t.closing = u.closing /\ t.writes = u.writes /\ t.logged = u.logged /\ t.dead = u.dead
    BY <2>1, <2>2, RunIfFirstIs DEF Same
  <2>4. Kept(t) BY <1>2, <1>3, <1>4, <1>7, <1>10, <2>3 DEF Kept, Rejecting
  <2>5. ASSUME Log(s), s.opens = 0 PROVE Log(t)
    <3>1. Rows(t.queue) \subseteq t.rejected \cup {0} /\ t.logged \subseteq t.rejected
      BY <1>2, <1>3, <1>4, <1>7, <2>3, <2>5 DEF Log
    <3>2. t.writes = IF t.fd # "none" /\ t.queue # <<>> /\ Head(t.queue) # 0 THEN {Head(t.queue)} ELSE {}
      <4>1. s.writes = IF Head(q) # 0 THEN {Head(q)} ELSE {} BY <1>2, <1>10, <2>5 DEF Log
      <4>2. t.queue = p /\ t.fd # "none" /\ t.writes = s.writes /\ Head(p) = Head(q) /\ p # <<>>
        BY <1>3, <1>4, <1>10, <2>3
      <4> QED BY <4>1, <4>2
    <3>3. t.opens = 0 /\ t.fd # "none" BY <1>4, <1>10, <2>3, <2>5
    <3> QED BY <3>1, <3>2, <3>3 DEF Log
  <2>6. Frame(s, t) BY <1>4, <2>3, FrameTrans
  <2> QED BY <1>3, <1>4, <1>6, <1>7, <1>8, <1>9, <2>3, <2>4, <2>5, <2>6
<1>11. CASE s.fd # "none" /\ q = <<>>
  <2>1. t = RunIfFirst(u) BY <1>5, <1>11
  <2>2. t = RunQueue(u) BY <1>3, <1>4, <1>11, <2>1, RunIfFirstIs
  <2>3. u.queue # <<>> /\ Head(u.queue) # 0 BY <1>1, <1>3, <1>4, <1>11
  <2>4. /\ Frame(u, t) /\ t.rash = u.rash /\ t.queue = u.queue /\ t.opens = u.opens
        /\ t.rejected = u.rejected /\ t.closing = u.closing /\ t.dead = u.dead
    BY <2>2, <2>3, RunQueueIs DEF Same
  <2>5. ~u.rash => /\ u.opens = 0 /\ u.queue # <<>> /\ u.writes = {} /\ u.logged \subseteq u.rejected
                   /\ Rows(u.queue) \subseteq u.rejected \cup {0}
    <3> SUFFICES ASSUME Log(s), s.opens = 0
                 PROVE /\ u.opens = 0 /\ u.queue # <<>> /\ u.writes = {} /\ u.logged \subseteq u.rejected
                       /\ Rows(u.queue) \subseteq u.rejected \cup {0}
      BY <1>8
    <3> QED BY <1>2, <1>3, <1>4, <1>7, <1>11 DEF Log
  <2>6. Kept(t) /\ (~t.rash => Log(t))
    BY <1>3, <1>4, <1>7, <1>11, <2>2, <2>4, <2>5, RunQueueKeeps
  <2>7. Frame(s, t) BY <1>4, <2>4, FrameTrans
  <2> QED BY <1>3, <1>4, <1>6, <1>7, <1>9, <2>4, <2>6, <2>7
<1>12. CASE s.fd = "none" /\ ~job.badfile
  <2>1. PICK v : v = [u EXCEPT !.fd = "stderr"] OBVIOUS
  <2>2. t = RunQueue(v) BY <1>5, <1>12, <2>1
  <2>3. /\ Frame(u, v) /\ v.rash = u.rash /\ v.fd = "stderr" /\ v.opens = u.opens /\ v.queue = u.queue
        /\ v.rejected = u.rejected /\ v.writes = u.writes /\ v.logged = u.logged /\ v.closing = u.closing
        /\ v.dead = u.dead
    BY <2>1 DEF Frame, Work, SameSource, SameCounts, SameWriter, SameEnd
  <2>4. /\ Frame(v, t) /\ t.rash = v.rash /\ t.queue = v.queue /\ t.opens = v.opens
        /\ t.rejected = v.rejected
    BY <2>2, RunQueueIs DEF Same
  <2>5. ASSUME ~v.rash
        PROVE /\ v.opens = 0 /\ v.queue # <<>> /\ v.writes = {} /\ v.logged \subseteq v.rejected
              /\ Rows(v.queue) \subseteq v.rejected \cup {0} /\ Head(v.queue) # 0
    <3>1. Log(s) /\ s.opens = 0 BY <1>8, <2>3, <2>5
    <3>2. q = <<>> BY <1>2, <1>12, <3>1 DEF Log
    <3> QED BY <1>1, <1>2, <1>3, <1>4, <1>7, <1>12, <2>3, <3>1, <3>2 DEF Log
  <2>6. Kept(t) /\ t.closing \in Nat /\ (~t.rash => Log(t) /\ t.dead = v.dead)
    <3>1. v.closing \in Nat /\ v.opens \in Nat /\ v.queue \in Seq(Nat) /\ v.rejected \subseteq Row
          /\ v.fd # "none" /\ v.rejected \subseteq v.logged \cup Rows(v.queue)
      BY <1>3, <1>4, <1>7, <2>3
    <3> QED BY <2>2, <2>5, <3>1, RunQueueKeeps
  <2>7. ~t.rash => t.closing = v.closing BY <2>2, <2>4, <2>5, RunQueueIs
  <2>8. Frame(s, t) BY <1>4, <2>3, <2>4, FrameTrans
  <2> QED BY <1>3, <1>4, <1>6, <1>7, <1>9, <2>3, <2>4, <2>6, <2>7, <2>8
<1>13. CASE s.fd = "none" /\ job.badfile
  <2>1. t = [u EXCEPT !.opens = @ + 1] BY <1>5, <1>13
  <2>2. /\ Frame(u, t) /\ t.rash = u.rash /\ t.fd = u.fd /\ t.opens = u.opens + 1 /\ t.queue = u.queue
        /\ t.rejected = u.rejected /\ t.writes = u.writes /\ t.logged = u.logged /\ t.closing = u.closing
        /\ t.dead = u.dead
    BY <2>1 DEF Frame, Work, SameSource, SameCounts, SameWriter, SameEnd
  <2>3. Kept(t) BY <1>3, <1>4, <1>7, <1>13, <2>2 DEF Kept, Rejecting
  <2>4. ASSUME Log(s), s.opens = 0 PROVE Log(t)
    <3>1. Rows(t.queue) \subseteq t.rejected \cup {0} /\ t.logged \subseteq t.rejected
      BY <1>2, <1>3, <1>4, <1>7, <2>2, <2>4 DEF Log
    <3>2. t.writes = {} BY <1>4, <1>13, <2>2, <2>4 DEF Log
    <3>3. t.opens = 1 /\ t.fd = "none" /\ t.queue # <<>> BY <1>3, <1>4, <1>13, <2>2, <2>4
    <3> QED BY <1>13, <3>1, <3>2, <3>3 DEF Log
  <2>5. Frame(s, t) BY <1>4, <2>2, FrameTrans
  <2> QED BY <1>3, <1>4, <1>6, <1>7, <1>8, <1>9, <2>2, <2>3, <2>4, <2>5
<1> QED BY <1>10, <1>11, <1>12, <1>13

-----------------------------------------------------------------------------
\* The end of the job has begun: endAtomic was called.
Over(s) == s.finals > 0 \/ s.closing > 0 \/ s.ends # <<>> \/ 0 \in Rows(s.queue)
\* Its stages, each at most once: commit or rollback called, CLOSE queued behind records,
\* the file being closed, the final callback made.
Phase(s) ==
  \/ s.finals = 0 /\ s.closing = 0 /\ 0 \notin Rows(s.queue) /\ Len(s.ends) <= 1
  \/ /\ s.finals = 0 /\ s.closing = 0 /\ s.ends = <<>> /\ s.fd = "file"
     /\ Len(s.queue) > 1 /\ \A i \in 1..Len(s.queue) : s.queue[i] = 0 <=> i = Len(s.queue)
  \/ s.finals + s.closing = 1 /\ s.ends = <<>> /\ s.fd = "file" /\ s.queue = <<0>>
  \/ s.finals = 1 /\ s.closing = 0 /\ s.ends = <<>> /\ 0 \notin Rows(s.queue)
\* The logger, and the types of what ends the job.
Logger(s) ==
  /\ s.finals \in Nat /\ s.closing \in Nat /\ s.opens \in Nat
  /\ s.queue \in Seq(Nat) /\ s.ends \in Seq({"commit", "rollback"}) /\ s.rejected \subseteq Row
  /\ Kept(s) /\ (~s.rash => Log(s))

\* The end of the logger is the last stage of the end of the job.
LEMMA LoggerEndKeeps ==
  ASSUME NEW s, NEW t, t = LoggerEnd(s), Logger(s), ~s.rash => ~Over(s)
  PROVE /\ Work(s, t) /\ t.rash = s.rash /\ t.ended = s.ended /\ t.ends = s.ends /\ t.rejected = s.rejected
        /\ Logger(t) /\ (~t.rash => Phase(t) /\ t.dead = s.dead)
<1>1. PICK q \in Seq(Nat) : q = s.queue BY DEF Logger
<1>2. Len(q) \in Nat /\ (q = <<>> <=> Len(q) = 0) BY EmptySeq, LenProperties
<1>3. s.finals \in Nat /\ s.closing \in Nat /\ s.opens \in Nat /\ s.rejected \subseteq Row BY DEF Logger
<1>4. ~s.rash => s.finals = 0 /\ s.closing = 0 /\ 0 \notin Rows(q) /\ s.ends = <<>>
  BY <1>1, <1>3 DEF Over
<1>5. CASE s.fd = "file"
  <2>1. PICK p \in Seq(Nat) : p = Append(q, 0) BY Queued
  <2>2. /\ p # <<>> /\ Rows(p) = Rows(q) \cup {0} /\ Head(p) = IF q = <<>> THEN 0 ELSE Head(q)
        /\ q = <<>> <=> Len(p) = 1
    BY <2>1, Queued
  <2>3. Len(p) = Len(q) + 1 /\ p[Len(q) + 1] = 0 /\ \A i \in 1..Len(q) : p[i] = q[i]
    BY <2>1, AppendProperties
  <2>4. PICK u : u = [s EXCEPT !.queue = p] OBVIOUS
  <2>5. t = RunIfFirst(u) BY <1>1, <1>5, <2>1, <2>4 DEF LoggerEnd
  <2>6. /\ Frame(s, u) /\ u.rash = s.rash /\ u.queue = p /\ u.fd = s.fd /\ u.opens = s.opens
        /\ u.rejected = s.rejected /\ u.logged = s.logged /\ u.writes = s.writes
        /\ u.closing = s.closing /\ u.dead = s.dead
    BY <2>4 DEF Frame, Work, SameSource, SameCounts, SameWriter, SameEnd
  <2>7. /\ Same(u, t) /\ t.fd = u.fd /\ t.opens = u.opens /\ t.queue = u.queue /\ t.rejected = u.rejected
    BY <2>5, RunIfFirstIs
  <2>8. /\ Work(s, t) /\ t.rash = s.rash /\ t.ended = s.ended /\ t.ends = s.ends /\ t.finals = s.finals
    BY <2>6, <2>7, WorkTrans DEF Same, Frame, SameEnd
  <2>9. u.rejected \subseteq u.logged \cup Rows(u.queue) BY <1>1, <2>2, <2>6 DEF Logger, Kept
  <2>10. CASE q = <<>>
    <3>1. t = RunQueue(u) BY <2>2, <2>5, <2>6, <2>10, RunIfFirstIs
    <3>2. Head(u.queue) = 0 /\ u.queue # <<>> BY <2>2, <2>6, <2>10
    <3>3. t.closing = s.closing + 1 /\ t.dead = s.dead BY <2>6, <3>1, <3>2, RunQueueIs
    <3>4. ~u.rash => /\ u.opens = 0 /\ u.queue # <<>> /\ u.writes = {} /\ u.logged \subseteq u.rejected
                     /\ Rows(u.queue) \subseteq u.rejected \cup {0}
      <4> SUFFICES ASSUME Log(s)
                   PROVE /\ u.opens = 0 /\ u.writes = {} /\ u.logged \subseteq u.rejected
                         /\ Rows(u.queue) \subseteq u.rejected \cup {0}
        BY <2>6, <3>2 DEF Logger
      <4> QED BY <1>1, <1>3, <1>5, <2>2, <2>6, <2>10 DEF Log
    <3>5. Kept(t) /\ t.closing \in Nat /\ (~t.rash => Log(t))
      BY <1>3, <1>5, <2>6, <2>9, <2>8, <3>1, <3>4, RunQueueKeeps
    <3>6. p = <<0>> BY <2>1, <2>10
    <3>7. ~t.rash => Phase(t) BY <1>4, <1>5, <2>6, <2>7, <2>8, <3>3, <3>6 DEF Phase
    <3> QED BY <1>3, <2>6, <2>7, <2>8, <3>3, <3>5, <3>7 DEF Logger
  <2>11. CASE q # <<>>
    <3>1. t.closing = s.closing /\ t.writes = s.writes /\ t.logged = s.logged /\ t.dead = s.dead
      BY <2>2, <2>5, <2>6, <2>11, RunIfFirstIs
    <3>2. Kept(t) BY <1>1, <2>2, <2>6, <2>7, <2>9, <2>11, <3>1 DEF Logger, Kept
    <3>3. ASSUME Log(s) PROVE Log(t)
      <4>1. Rows(t.queue) \subseteq t.rejected \cup {0} /\ t.logged \subseteq t.rejected
        BY <1>1, <2>2, <2>6, <2>7, <3>1, <3>3 DEF Log
      <4>2. s.writes = IF Head(q) # 0 THEN {Head(q)} ELSE {} BY <1>1, <1>5, <2>11, <3>3 DEF Log
      <4>3. t.queue = p /\ t.fd = "file" /\ t.writes = s.writes /\ Head(p) = Head(q) /\ p # <<>>
        BY <1>5, <2>2, <2>6, <2>7, <2>11, <3>1
      <4>4. t.writes = IF t.fd # "none" /\ t.queue # <<>> /\ Head(t.queue) # 0 THEN {Head(t.queue)} ELSE {}
        BY <4>2, <4>3
      <4>5. t.opens = 0 BY <1>3, <1>5, <2>6, <2>7, <3>3 DEF Log
      <4> QED BY <4>1, <4>3, <4>4, <4>5 DEF Log
    <3>4. ASSUME 0 \notin Rows(q)
          PROVE Len(p) > 1 /\ \A i \in 1..Len(p) : p[i] = 0 <=> i = Len(p)
      <4>1. Len(p) > 1 BY <1>2, <2>3, <2>11
      <4>2. \A i \in 1..Len(q) : q[i] # 0 BY <3>4 DEF Rows
      <4> QED BY <1>2, <2>3, <4>1, <4>2
    <3>5. ~t.rash => Phase(t) BY <1>4, <1>5, <2>6, <2>7, <2>8, <3>1, <3>4 DEF Phase
    <3> QED BY <1>3, <2>6, <2>7, <2>8, <3>1, <3>2, <3>3, <3>5 DEF Logger
  <2> QED BY <2>10, <2>11
<1>6. CASE s.fd # "file"
  <2>1. t = [s EXCEPT !.ticker = FALSE, !.finals = @ + 1] BY <1>6 DEF LoggerEnd, LoggerFinished
  <2>2. /\ Work(s, t) /\ t.ended = s.ended /\ t.ends = s.ends /\ t.finals = s.finals + 1
        /\ t.rash = s.rash /\ t.queue = q /\ t.fd = s.fd /\ t.opens = s.opens
        /\ t.rejected = s.rejected /\ t.logged = s.logged /\ t.writes = s.writes
        /\ t.closing = s.closing /\ t.dead = s.dead
    BY <1>1, <2>1 DEF Work, SameSource, SameCounts, SameWriter
  <2>3. Kept(t) BY <1>1, <2>2 DEF Logger, Kept
  <2>4. ~t.rash => Log(t) BY <1>1, <2>2 DEF Logger, Log
  <2>5. ~t.rash => Phase(t) BY <1>3, <1>4, <2>2 DEF Phase
  <2> QED BY <1>3, <2>2, <2>3, <2>4, <2>5 DEF Logger
<1> QED BY <1>5, <1>6

-----------------------------------------------------------------------------
\* The source has finished and no row is outstanding.
Quiet(s) ==
  s.ended /\ Left(s) = 0 /\ s.batch = <<>> /\ s.flights = <<>> /\ s.answering = <<>> /\ s.lost = {}
\* The end has not begun with anything outstanding, and follows its stages.
Stage(s) ==
  /\ Over(s) => Quiet(s)
  /\ Phase(s)
  /\ job.atomic /\ (s.finals > 0 \/ s.closing > 0 \/ 0 \in Rows(s.queue)) => s.outcome # "none"
\* One transaction: while it may be committed no row has failed.
Whole(s) ==
  /\ s.tx \in {"idle", "active", "rollbackOnly"}
  /\ s.tx = "active" => s.rejected = {} /\ s.lost = {} /\ ~s.aborted
  /\ ~job.atomic => s.tx = "idle" /\ s.ends = <<>> /\ s.outcome = "none"
  /\ ~s.rash /\ s.outcome = "committed" => Quiet(s) /\ s.rejected = {}
  /\ ~s.rash /\ "commit" \in Rows(s.ends) => s.rejected = {}

LEMMA QuietFrame ==
  ASSUME NEW s, NEW t, Work(s, t), t.ended = s.ended, Quiet(s)
  PROVE Quiet(t)
BY DEF Quiet, Left, Work, SameCounts, SameWriter

LEMMA WholeFrame ==
  ASSUME NEW s, NEW t, Work(s, t), t.ended = s.ended, t.ends = s.ends, t.rash = s.rash,
         t.rejected = s.rejected, Whole(s)
  PROVE Whole(t)
<1>1. t.tx = s.tx /\ t.outcome = s.outcome /\ t.lost = s.lost /\ t.aborted = s.aborted
  BY DEF Work, SameWriter
<1>2. Quiet(s) => Quiet(t) BY QuietFrame
<1> QED BY <1>1, <1>2 DEF Whole

LEMMA Ended ==
  ASSUME NEW w \in {"commit", "rollback"}
  PROVE /\ <<w>> \in Seq({"commit", "rollback"}) /\ <<w>> # <<>> /\ Len(<<w>>) = 1 /\ Rows(<<w>>) = {w}
        /\ Append(<<>>, w) = <<w>>
BY DEF Rows

\* commit or rollback is called.
Asked(s, w) == [s EXCEPT !.ends = Append(@, w)]

LEMMA AskedToEnd ==
  ASSUME NEW s, NEW w \in {"commit", "rollback"}, NEW t, t = Asked(s, w),
         Logger(s), Whole(s), ~s.rash => ~Over(s) /\ Quiet(s),
         job.atomic, w = "commit" => s.tx = "active"
  PROVE /\ Work(s, t) /\ t.rash = s.rash /\ t.ended = s.ended /\ t.rejected = s.rejected
        /\ Logger(t) /\ Whole(t) /\ (~t.rash => Stage(t))
<1>1. PICK e \in Seq({"commit", "rollback"}) : e = s.ends BY DEF Logger
<1>2. PICK f : f = Append(s.ends, w) OBVIOUS
<1>3. f \in Seq({"commit", "rollback"}) BY <1>1, <1>2, AppendProperties
<1>4. /\ Work(s, t) /\ t.ended = s.ended /\ t.ends = f /\ t.finals = s.finals
      /\ t.rash = s.rash /\ t.queue = s.queue /\ t.fd = s.fd /\ t.opens = s.opens
      /\ t.rejected = s.rejected /\ t.logged = s.logged /\ t.writes = s.writes
      /\ t.closing = s.closing
  <2>1. t = [s EXCEPT !.ends = f] BY <1>2 DEF Asked
  <2> QED BY <2>1 DEF Work, SameSource, SameCounts, SameWriter
<1>5. Logger(t)
  <2>1. Kept(t) BY <1>4 DEF Logger, Kept
  <2>2. ~t.rash => Log(t) BY <1>4 DEF Logger, Log
  <2> QED BY <1>3, <1>4, <2>1, <2>2 DEF Logger
<1>6. ~s.rash => e = <<>> /\ s.finals = 0 /\ s.closing = 0 /\ 0 \notin Rows(s.queue)
  BY <1>1 DEF Over, Logger
<1>7. ~s.rash => f = <<w>> /\ Len(f) = 1 /\ Rows(f) = {w} BY <1>1, <1>2, <1>6, Ended
<1>8. Whole(t)
  <2>1. t.tx = s.tx /\ t.outcome = s.outcome /\ t.lost = s.lost /\ t.aborted = s.aborted
    BY <1>4 DEF Work, SameWriter
  <2>2. Quiet(s) => Quiet(t) BY <1>4, QuietFrame
  <2> QED BY <1>4, <1>7, <2>1, <2>2 DEF Whole
<1>9. ~t.rash => Stage(t)
  <2>1. ~s.rash => Quiet(t) BY <1>4, QuietFrame
  <2>2. ASSUME ~s.rash PROVE Phase(t)
    <3>1. t.finals = 0 /\ t.closing = 0 /\ 0 \notin Rows(t.queue) /\ Len(t.ends) = 1
      BY <1>4, <1>6, <1>7, <2>2
    <3> QED BY <3>1 DEF Phase
  <2> QED BY <1>4, <1>6, <2>1, <2>2 DEF Stage
<1> QED BY <1>4, <1>5, <1>8, <1>9

\* The end of the job begins, in one transaction or not.
LEMMA EndAtomicKeeps ==
  ASSUME NEW s, NEW t, t = EndAtomic(s), Logger(s), Whole(s), ~s.rash => ~Over(s) /\ Quiet(s)
  PROVE /\ Work(s, t) /\ t.rash = s.rash /\ t.ended = s.ended /\ t.rejected = s.rejected
        /\ Logger(t) /\ Whole(t) /\ (~t.rash => Stage(t))
<1>1. CASE ~job.atomic
  <2>1. t = LoggerEnd(s) BY <1>1 DEF EndAtomic
  <2>2. /\ Work(s, t) /\ t.rash = s.rash /\ t.ended = s.ended /\ t.ends = s.ends
        /\ t.rejected = s.rejected /\ Logger(t) /\ (~t.rash => Phase(t))
    BY <2>1, LoggerEndKeeps
  <2>3. Whole(t) BY <2>2, WholeFrame
  <2>4. Quiet(s) => Quiet(t) BY <2>2, QuietFrame
  <2> QED BY <1>1, <2>2, <2>3, <2>4 DEF Stage
<1>2. CASE job.atomic /\ s.tx = "active"
  <2>1. t = Asked(s, "commit") BY <1>2 DEF EndAtomic, Asked
  <2> QED BY <1>2, <2>1, AskedToEnd
<1>3. CASE job.atomic /\ s.tx = "rollbackOnly"
  <2>1. t = Asked(s, "rollback") BY <1>3 DEF EndAtomic, Asked
  <2> QED BY <1>3, <2>1, AskedToEnd
<1>4. CASE job.atomic /\ s.tx = "idle"
  <2>1. t = [s EXCEPT !.dead = TRUE] BY <1>4 DEF EndAtomic, Dies
  <2>2. /\ Work(s, t) /\ t.ended = s.ended /\ t.ends = s.ends /\ t.finals = s.finals
        /\ t.rash = s.rash /\ t.queue = s.queue /\ t.fd = s.fd /\ t.opens = s.opens
        /\ t.rejected = s.rejected /\ t.logged = s.logged /\ t.writes = s.writes
        /\ t.closing = s.closing
    BY <2>1 DEF Work, SameSource, SameCounts, SameWriter
  <2>3. Whole(t) BY <2>2, WholeFrame
  <2>4. Kept(t) /\ (~t.rash => Log(t)) BY <2>2 DEF Logger, Kept, Log
  <2>5. Logger(t) BY <2>2, <2>4 DEF Logger
  <2>6. ~s.rash => s.finals = 0 /\ s.closing = 0 /\ s.ends = <<>> /\ 0 \notin Rows(s.queue)
    BY DEF Over, Logger
  <2>7. Len(<<>>) = 0 OBVIOUS
  <2>8. ~t.rash => Stage(t) BY <2>2, <2>6, <2>7 DEF Stage, Phase, Over
  <2> QED BY <2>2, <2>3, <2>5, <2>8
<1> QED BY <1>1, <1>2, <1>3, <1>4 DEF Whole

-----------------------------------------------------------------------------
\* Rows are sent and answered in the order they were read.
Before(p, q) == \A a \in Rows(p), b \in Rows(q) : a < b
Rising(q) == \A i, j \in 1..Len(q) : i < j => q[i] < q[j]
\* The rows whose batches were sent, those that wait for an answer, those outstanding.
SentBy(s) == UNION {Rows(s.flights[i]) : i \in 1..Len(s.flights)}
Waiting(s) == Rows(s.batch) \cup SentBy(s) \cup Rows(s.answering)
Out(s) == Waiting(s) \cup s.lost
\* The rows that wait, in their order, each in one place.
Flow(s) ==
  /\ s.processed \in Nat /\ s.skipped \in Nat /\ s.complete \in Nat
  /\ s.batch \in Seq(Row) /\ s.flights \in Seq(Seq(Row)) /\ s.answering \in Seq(Row)
  /\ Out(s) \subseteq 1..s.processed
  /\ Rising(s.batch) /\ Rising(s.answering)
  /\ \A i \in 1..Len(s.flights) :
       /\ s.flights[i] # <<>> /\ Rising(s.flights[i])
       /\ Before(s.answering, s.flights[i]) /\ Before(s.flights[i], s.batch)
       /\ \A j \in 1..Len(s.flights) : i < j => Before(s.flights[i], s.flights[j])
  /\ Before(s.answering, s.batch)
  /\ \A r \in s.lost, o \in Waiting(s) : r < o
\* Left counts the rows outstanding (Controller.js:174).
Count(s) == Left(s) = Cardinality(Out(s))
\* A call that leaves the logger alone.
SameLog(s, t) ==
  /\ t.fd = s.fd /\ t.opens = s.opens /\ t.queue = s.queue /\ t.rejected = s.rejected
  /\ t.logged = s.logged /\ t.writes = s.writes /\ t.closing = s.closing
\* What holds of the writer, the controller and the logger.
Core(s) == Flow(s) /\ Logger(s) /\ Whole(s) /\ (~s.rash => Stage(s))

LEMMA FlowFrame ==
  ASSUME NEW s, NEW t, Work(s, t)
  PROVE Out(t) = Out(s) /\ Left(t) = Left(s) /\ (Flow(s) => Flow(t)) /\ (Count(s) => Count(t))
<1>1. /\ t.batch = s.batch /\ t.flights = s.flights /\ t.answering = s.answering /\ t.lost = s.lost
      /\ t.processed = s.processed /\ t.skipped = s.skipped /\ t.complete = s.complete
  BY DEF Work, SameCounts, SameWriter
<1>2. Waiting(t) = Waiting(s) /\ Out(t) = Out(s) BY <1>1 DEF Waiting, Out, SentBy
<1>3. Left(t) = Left(s) BY <1>1 DEF Left
<1>4. Flow(s) => Flow(t) BY <1>1, <1>2 DEF Flow
<1> QED BY <1>2, <1>3, <1>4 DEF Count

LEMMA LoggerFrame ==
  ASSUME NEW s, NEW t, SameLog(s, t), Logger(s), t.finals = s.finals, t.ends = s.ends, s.rash => t.rash
  PROVE Logger(t) /\ (Over(t) <=> Over(s)) /\ (Phase(t) <=> Phase(s))
<1>1. Kept(t) BY DEF Logger, Kept, SameLog
<1>2. ~t.rash => Log(t) BY DEF Logger, Log, SameLog
<1>3. Over(t) <=> Over(s) BY DEF Over, SameLog
<1>4. Phase(t) <=> Phase(s) BY DEF Phase, SameLog
<1>5. Logger(t) BY <1>1, <1>2 DEF Logger, SameLog
<1> QED BY <1>3, <1>4, <1>5

LEMMA OutIsFinite ==
  ASSUME NEW s, Flow(s)
  PROVE IsFiniteSet(Out(s)) /\ Cardinality(Out(s)) \in Nat /\ (Cardinality(Out(s)) = 0 <=> Out(s) = {})
<1>1. s.processed \in Nat /\ Out(s) \subseteq 1..s.processed BY DEF Flow
<1>2. IsFiniteSet(1..s.processed) BY <1>1, FS_Interval
<1>3. IsFiniteSet(Out(s)) BY <1>1, <1>2, FS_Subset
<1> QED BY <1>3, FS_CardinalityType, FS_EmptySet

LEMMA NothingLeft ==
  ASSUME NEW s, Flow(s), Out(s) = {}
  PROVE s.batch = <<>> /\ s.flights = <<>> /\ s.answering = <<>> /\ s.lost = {}
<1>1. Rows(s.batch) = {} /\ Rows(s.answering) = {} /\ s.lost = {} /\ SentBy(s) = {}
  BY DEF Out, Waiting
<1>2. s.batch = <<>> /\ s.answering = <<>> BY <1>1, RowsAre DEF Flow
<1>3. s.flights = <<>>
  <2> SUFFICES ASSUME s.flights # <<>> PROVE FALSE
    OBVIOUS
  <2>1. s.flights \in Seq(Seq(Row)) /\ Len(s.flights) \in Nat \ {0} BY EmptySeq DEF Flow
  <2>2. 1 \in 1..Len(s.flights) BY <2>1
  <2>3. s.flights[1] \in Seq(Row) BY <2>1, <2>2, ElementOfSeq
  <2>4. s.flights[1] # <<>> BY <2>2 DEF Flow
  <2>5. Rows(s.flights[1]) # {} BY <2>3, <2>4, RowsAre
  <2>6. Rows(s.flights[1]) \subseteq SentBy(s) BY <2>2 DEF SentBy
  <2> QED BY <1>1, <2>5, <2>6
<1> QED BY <1>1, <1>2, <1>3

\* It begins only when no row is outstanding.
LEMMA CommitIfCompleteKeeps ==
  ASSUME NEW s, NEW t, t = CommitIfComplete(s), Flow(s), Count(s), Logger(s), Whole(s),
         ~s.rash => s.ended /\ ~Over(s)
  PROVE /\ Work(s, t) /\ t.rash = s.rash /\ t.ended = s.ended /\ t.rejected = s.rejected
        /\ Core(t) /\ Count(t)
<1>1. CASE Left(s) = 0
  <2>1. t = EndAtomic(s) BY <1>1 DEF CommitIfComplete
  <2>2. Out(s) = {} BY <1>1, OutIsFinite DEF Count
  <2>3. ~s.rash => Quiet(s) BY <1>1, <2>2, NothingLeft DEF Quiet
  <2>4. /\ Work(s, t) /\ t.rash = s.rash /\ t.ended = s.ended /\ t.rejected = s.rejected
        /\ Logger(t) /\ Whole(t) /\ (~t.rash => Stage(t))
    BY <2>1, <2>3, EndAtomicKeeps
  <2> QED BY <2>4, FlowFrame DEF Core
<1>2. CASE Left(s) # 0
  <2>1. t = s BY <1>2 DEF CommitIfComplete
  <2>2. Work(s, s) BY DEF Work, SameSource, SameCounts, SameWriter
  <2>3. ~s.rash => s.finals = 0 /\ s.closing = 0 /\ s.ends = <<>> /\ 0 \notin Rows(s.queue)
    BY DEF Over, Logger
  <2>4. Len(<<>>) = 0 OBVIOUS
  <2>5. ~s.rash => Stage(s) BY <2>3, <2>4 DEF Stage, Phase
  <2> QED BY <2>1, <2>2, <2>5 DEF Core
<1> QED BY <1>1, <1>2

\* Everything but the batch and the batches sent.
Steady(s, t) ==
  /\ SameSource(s, t) /\ SameCounts(s, t) /\ SameEnd(s, t) /\ SameLog(s, t)
  /\ t.rash = s.rash /\ t.dead = s.dead
  /\ t.answering = s.answering /\ t.lost = s.lost /\ t.aborted = s.aborted
  /\ t.tx = s.tx /\ t.outcome = s.outcome

\* The batch is sent: its rows wait as before.
LEMMA ExecuteBatchKeeps ==
  ASSUME NEW s, NEW t, t = ExecuteBatch(s), Flow(s)
  PROVE /\ Steady(s, t) /\ t.batch = <<>> /\ Waiting(t) = Waiting(s) /\ Out(t) = Out(s)
        /\ Flow(t) /\ (s.batch = <<>> => t = s)
<1>1. CASE s.batch = <<>>
  <2>1. t = s BY <1>1 DEF ExecuteBatch
  <2> QED BY <1>1, <2>1 DEF Steady, SameSource, SameCounts, SameEnd, SameLog
<1>2. CASE s.batch # <<>>
  <2>1. PICK b \in Seq(Row) : b = s.batch BY DEF Flow
  <2>2. PICK f \in Seq(Seq(Row)) : f = s.flights BY DEF Flow
  <2>3. PICK g : g = Append(f, b) OBVIOUS
  <2>4. t = [s EXCEPT !.flights = g, !.batch = <<>>] BY <1>2, <2>1, <2>2, <2>3 DEF ExecuteBatch
  <2>5. Steady(s, t) /\ t.batch = <<>> /\ t.flights = g
    BY <2>4 DEF Steady, SameSource, SameCounts, SameEnd, SameLog
  <2>6. /\ g \in Seq(Seq(Row)) /\ Len(f) \in Nat /\ Len(g) = Len(f) + 1 /\ g[Len(f) + 1] = b
        /\ \A i \in 1..Len(f) : g[i] = f[i]
    BY <2>3, AppendProperties, LenProperties
  <2>7. \A i \in 1..Len(g) : i \in 1..Len(f) \/ i = Len(f) + 1 BY <2>6
  <2>8. SentBy(t) = SentBy(s) \cup Rows(b)
    <3>1. ASSUME NEW r \in SentBy(t) PROVE r \in SentBy(s) \cup Rows(b)
      <4>1. PICK i \in 1..Len(g) : r \in Rows(g[i]) BY <2>5, <3>1 DEF SentBy
      <4> QED BY <2>2, <2>6, <2>7, <4>1 DEF SentBy
    <3>2. ASSUME NEW r \in SentBy(s) PROVE r \in SentBy(t)
      <4>1. PICK i \in 1..Len(f) : r \in Rows(f[i]) BY <2>2, <3>2 DEF SentBy
      <4>2. i \in 1..Len(g) /\ g[i] = f[i] BY <2>6, <4>1
      <4> QED BY <2>5, <4>1, <4>2 DEF SentBy
    <3>3. Rows(b) \subseteq SentBy(t)
      <4>1. Len(f) + 1 \in 1..Len(g) BY <2>6
      <4> QED BY <2>5, <2>6, <4>1 DEF SentBy
    <3> QED BY <3>1, <3>2, <3>3
  <2>9. Rows(<<>>) = {} BY DEF Rows
  <2>10. Waiting(t) = Waiting(s) /\ Out(t) = Out(s) BY <2>1, <2>5, <2>8, <2>9 DEF Waiting, Out, Steady
  <2>11. <<>> \in Seq(Row) /\ Rising(<<>>) /\ \A q : Before(q, <<>>) BY <2>9 DEF Rising, Before
  <2>12. ASSUME NEW i \in 1..Len(g)
         PROVE /\ g[i] # <<>> /\ Rising(g[i]) /\ Before(t.answering, g[i]) /\ Before(g[i], <<>>)
               /\ \A j \in 1..Len(g) : i < j => Before(g[i], g[j])
    <3>1. CASE i \in 1..Len(f)
      <4>1. /\ f[i] # <<>> /\ Rising(f[i]) /\ Before(s.answering, f[i]) /\ Before(f[i], b)
            /\ \A j \in 1..Len(f) : i < j => Before(f[i], f[j])
        BY <2>1, <2>2, <3>1 DEF Flow
      <4>2. g[i] = f[i] /\ t.answering = s.answering BY <2>5, <2>6, <3>1 DEF Steady
      <4>3. ASSUME NEW j \in 1..Len(g), i < j PROVE Before(g[i], g[j])
        <5>1. CASE j \in 1..Len(f)
          <6>1. g[j] = f[j] BY <2>6, <5>1
          <6> QED BY <4>1, <4>2, <4>3, <5>1, <6>1
        <5>2. CASE j = Len(f) + 1 BY <2>6, <4>1, <4>2, <5>2
        <5> QED BY <2>7, <5>1, <5>2
      <4> QED BY <2>11, <4>1, <4>2, <4>3
    <3>2. CASE i = Len(f) + 1
      <4>1. g[i] = b /\ t.answering = s.answering BY <2>5, <2>6, <3>2 DEF Steady
      <4>2. \A j \in 1..Len(g) : ~(i < j) BY <2>6, <3>2
      <4>3. b # <<>> /\ Rising(b) /\ Before(s.answering, b) BY <1>2, <2>1 DEF Flow
      <4> QED BY <2>11, <4>1, <4>2, <4>3
    <3> QED BY <2>7, <3>1, <3>2
  <2>13. Flow(t)
    <3>1. t.processed = s.processed /\ t.skipped = s.skipped /\ t.complete = s.complete
          /\ t.answering = s.answering /\ t.lost = s.lost
      BY <2>5 DEF Steady, SameCounts
    <3>2. /\ s.processed \in Nat /\ s.skipped \in Nat /\ s.complete \in Nat /\ s.answering \in Seq(Row)
          /\ Out(s) \subseteq 1..s.processed /\ Rising(s.answering)
          /\ \A r \in s.lost, o \in Waiting(s) : r < o
      BY DEF Flow
    <3> QED BY <2>5, <2>6, <2>10, <2>11, <2>12, <3>1, <3>2 DEF Flow
  <2> QED BY <1>2, <2>5, <2>10, <2>13
<1> QED BY <1>1, <1>2

LEMMA SteadyKeeps ==
  ASSUME NEW s, NEW t, Steady(s, t)
  PROVE /\ Left(t) = Left(s) /\ (Logger(s) => Logger(t)) /\ (Over(t) <=> Over(s)) /\ (Phase(s) => Phase(t))
        /\ Whole(s) /\ (s.batch = <<>> => t = s) => Whole(t)
<1>1. /\ t.finals = s.finals /\ t.ends = s.ends /\ t.rash = s.rash /\ SameLog(s, t)
      /\ t.rejected = s.rejected /\ t.tx = s.tx /\ t.outcome = s.outcome /\ t.lost = s.lost
      /\ t.aborted = s.aborted
  BY DEF Steady, SameEnd, SameLog
<1>2. Left(t) = Left(s) BY DEF Left, Steady, SameCounts
<1>3. Logger(s) => Logger(t) BY <1>1, LoggerFrame
<1>4. Over(t) <=> Over(s) BY <1>1 DEF Over, SameLog
<1>5. Phase(s) => Phase(t) BY <1>1 DEF Phase, SameLog
<1>6. ASSUME Whole(s), s.batch = <<>> => t = s PROVE Whole(t)
  <2>1. Quiet(s) => Quiet(t) BY <1>6 DEF Quiet
  <2> QED BY <1>1, <1>6, <2>1 DEF Whole
<1> QED BY <1>2, <1>3, <1>4, <1>5, <1>6

\* What the end of the source leaves alone.
Leaves(s, t) ==
  /\ t.skipping = s.skipping /\ t.looping = s.looping /\ t.opening = s.opening /\ t.reads = s.reads
  /\ t.atBuffer = s.atBuffer /\ t.lines = s.lines
  /\ SameCounts(s, t) /\ t.answering = s.answering /\ t.lost = s.lost
  /\ t.rejected = s.rejected /\ t.aborted = s.aborted /\ t.tx = s.tx /\ t.outcome = s.outcome

LEMMA WorkLeaves ==
  ASSUME NEW s, NEW t, Work(s, t), t.rejected = s.rejected
  PROVE Leaves(s, t) /\ t.running = s.running /\ t.shutdown = s.shutdown
BY DEF Work, Leaves, SameSource, SameWriter

LEMMA SteadyLeaves ==
  ASSUME NEW s, NEW t, Steady(s, t)
  PROVE Leaves(s, t) /\ t.running = s.running /\ t.shutdown = s.shutdown /\ t.ended = s.ended
BY DEF Steady, Leaves, SameSource, SameLog, SameEnd

LEMMA LeavesTrans ==
  ASSUME NEW s, NEW t, NEW u, Leaves(s, t), Leaves(t, u)
  PROVE Leaves(s, u)
BY DEF Leaves, SameCounts

\* The source finishes, by itself or because it is told to.
LEMMA DsFinishedKeeps ==
  ASSUME NEW s, NEW err \in BOOLEAN, NEW t, t = DsFinished(s, err), Core(s), Count(s)
  PROVE /\ Leaves(s, t) /\ t.running = s.running /\ t.shutdown = s.shutdown
        /\ t.ended /\ (t.rash <=> s.rash \/ s.ended)
        /\ Core(t) /\ Count(t)
<1> DEFINE f == s.fatal \/ err
           b == s.rash \/ s.ended
<1>1. PICK u : u = [s EXCEPT !.fatal = f, !.rash = b, !.ended = TRUE] OBVIOUS
<1>2. PICK v : v = ExecuteBatch(u) OBVIOUS
<1>3. t = CommitIfComplete(v)
  BY <1>1, <1>2 DEF DsFinished
<1>4. /\ Work(s, u) /\ SameLog(s, u) /\ u.finals = s.finals /\ u.ends = s.ends /\ u.ended = TRUE
      /\ u.rash = b
  <2> HIDE DEF f, b
  <2> QED BY <1>1 DEF Work, SameSource, SameCounts, SameWriter, SameLog
<1>5. u.rash <=> s.rash \/ s.ended BY <1>4
<1> HIDE DEF f, b
<1>6. Flow(u) /\ Count(u) BY <1>4, FlowFrame DEF Core
<1>7. Logger(u) /\ (Over(u) <=> Over(s)) BY <1>4, <1>5, LoggerFrame DEF Core
<1>8. ~u.rash => ~Over(u) BY <1>5, <1>7 DEF Core, Stage, Quiet
<1>9. Whole(u)
  <2>1. /\ u.tx = s.tx /\ u.outcome = s.outcome /\ u.lost = s.lost /\ u.aborted = s.aborted
        /\ u.rejected = s.rejected /\ u.ends = s.ends
    BY <1>4 DEF Work, SameWriter, SameLog
  <2>2. Quiet(s) => s.ended BY DEF Quiet
  <2> QED BY <1>5, <2>1, <2>2 DEF Core, Whole
<1>10. Leaves(s, u) /\ u.running = s.running /\ u.shutdown = s.shutdown
  BY <1>4, WorkLeaves DEF SameLog
<1>11. /\ Steady(u, v) /\ Out(v) = Out(u) /\ Flow(v) /\ (u.batch = <<>> => v = u)
  BY <1>2, <1>6, ExecuteBatchKeeps
<1>12. Logger(v) /\ Whole(v) /\ (Over(v) <=> Over(u)) /\ Left(v) = Left(u)
  BY <1>7, <1>9, <1>11, SteadyKeeps
<1>13. v.rash = u.rash /\ v.ended = u.ended BY <1>11 DEF Steady, SameEnd
<1>14. Count(v) BY <1>6, <1>11, <1>12 DEF Count
<1>15. /\ Work(v, t) /\ t.rash = v.rash /\ t.ended = v.ended /\ t.rejected = v.rejected
       /\ Core(t) /\ Count(t)
  BY <1>3, <1>4, <1>8, <1>11, <1>12, <1>13, <1>14, CommitIfCompleteKeeps
<1>16. Leaves(u, v) /\ v.running = u.running /\ v.shutdown = u.shutdown BY <1>11, SteadyLeaves
<1>17. Leaves(v, t) /\ t.running = v.running /\ t.shutdown = v.shutdown BY <1>15, WorkLeaves
<1>18. Leaves(s, t) BY <1>10, <1>16, <1>17, LeavesTrans
<1> QED BY <1>4, <1>5, <1>10, <1>13, <1>15, <1>16, <1>17, <1>18

LEMMA CoreFrame ==
  ASSUME NEW s, NEW t, SameCounts(s, t), SameWriter(s, t), SameLog(s, t), SameEnd(s, t), t.rash = s.rash, Core(s)
  PROVE Core(t) /\ (Count(s) => Count(t)) /\ (Over(t) <=> Over(s))
<1>1. /\ t.batch = s.batch /\ t.flights = s.flights /\ t.answering = s.answering /\ t.lost = s.lost
      /\ t.processed = s.processed /\ t.skipped = s.skipped /\ t.complete = s.complete
      /\ t.ended = s.ended /\ t.finals = s.finals /\ t.ends = s.ends
      /\ t.aborted = s.aborted /\ t.tx = s.tx /\ t.outcome = s.outcome /\ t.rejected = s.rejected
  BY DEF SameCounts, SameWriter, SameEnd, SameLog
<1>2. Waiting(t) = Waiting(s) /\ Out(t) = Out(s) /\ Left(t) = Left(s)
  BY <1>1 DEF Waiting, Out, SentBy, Left
<1>3. Flow(t) BY <1>1, <1>2 DEF Core, Flow
<1>4. Logger(t) /\ (Over(t) <=> Over(s)) /\ (Phase(t) <=> Phase(s))
  BY <1>1, LoggerFrame DEF Core
<1>5. Quiet(t) <=> Quiet(s) BY <1>1, <1>2 DEF Quiet
<1>6. Whole(t) BY <1>1, <1>5 DEF Core, Whole
<1>7. ~t.rash => Stage(t) BY <1>1, <1>4, <1>5 DEF Core, Stage, SameLog
<1> QED BY <1>2, <1>3, <1>4, <1>6, <1>7 DEF Core, Count

\* The source is told to end.
LEMMA EndSourceKeeps ==
  ASSUME NEW s, NEW t, t = EndSource(s), Core(s), Count(s)
  PROVE /\ Leaves(s, t) /\ t.running = FALSE /\ t.shutdown = TRUE
        /\ s.running => t.ended = s.ended /\ t.rash = s.rash /\ (Over(t) <=> Over(s)) /\ t.dead = s.dead
        /\ ~s.running => t.ended /\ (t.rash <=> s.rash \/ s.ended)
        /\ Core(t) /\ Count(t)
<1>1. PICK u : u = [s EXCEPT !.shutdown = TRUE, !.running = FALSE] OBVIOUS
<1>2. /\ SameCounts(s, u) /\ SameWriter(s, u) /\ SameLog(s, u) /\ SameEnd(s, u) /\ u.rash = s.rash
      /\ u.running = FALSE /\ u.shutdown = TRUE /\ Leaves(s, u) /\ u.dead = s.dead
  BY <1>1 DEF SameCounts, SameWriter, SameLog, SameEnd, Leaves
<1>3. Core(u) /\ Count(u) /\ (Over(u) <=> Over(s)) BY <1>2, CoreFrame
<1>4. CASE s.running
  <2>1. t = u BY <1>1, <1>4 DEF EndSource
  <2> QED BY <1>2, <1>3, <1>4, <2>1 DEF SameEnd
<1>5. CASE ~s.running
  <2>1. t = DsFinished(u, FALSE) BY <1>1, <1>5 DEF EndSource
  <2>2. /\ Leaves(u, t) /\ t.running = u.running /\ t.shutdown = u.shutdown
        /\ t.ended /\ (t.rash <=> u.rash \/ u.ended) /\ Core(t) /\ Count(t)
    BY <1>3, <2>1, DsFinishedKeeps
  <2> QED BY <1>2, <1>5, <2>2, LeavesTrans DEF SameEnd
<1> QED BY <1>4, <1>5

-----------------------------------------------------------------------------
\* The source: its buffers, and that a source that has finished is not in its loop and
\* starts no read, so that it finishes once.
Source(s) ==
  /\ s.reads \in Nat /\ s.atBuffer \in 0..Len(job.buffers) /\ s.lines \in Seq(Lines)
  /\ s.shutdown => ~s.running
  /\ s.opening => s.running /\ ~s.looping /\ s.reads = 0 /\ s.processed = 0 /\ ~s.ended /\ ~s.rash
  /\ ~s.rash => s.reads <= 1
  /\ ~s.rash /\ s.ended => ~s.looping /\ (s.shutdown \/ s.running) /\ (s.reads > 0 => ~s.running)

\* The rows this worker loads, and how far it is with them.
Mine(r) == r > job.skipRows /\ (r - 1) % job.workers = job.worker
Shared(s) ==
  /\ Limit > 0 => s.processed <= Limit /\ (s.processed = Limit => s.shutdown)
  /\ s.skipped <= s.processed
  /\ s.processed <= job.skipRows => s.skipped = s.processed
  /\ s.processed >= job.skipRows => s.skipped >= job.skipRows
  /\ s.skipping <=> ~Mine(s.processed + 1)
  /\ s.loaded = {r \in 1..s.processed : Mine(r)}

\* The invariant of a job.
Good(s) == Core(s) /\ Source(s) /\ Shared(s) /\ (~s.dead => Count(s))

LEMMA SharedFrame ==
  ASSUME NEW s, NEW t, t.processed = s.processed, t.skipped = s.skipped, t.loaded = s.loaded,
         t.skipping = s.skipping, s.shutdown => t.shutdown, Shared(s)
  PROVE Shared(t)
BY DEF Shared

LEMMA SourceFrame ==
  ASSUME NEW s, NEW t, SameSource(s, t), t.processed = s.processed, t.ended = s.ended,
         s.rash => t.rash, ~s.opening \/ t.rash = s.rash, Source(s)
  PROVE Source(t)
BY DEF Source, SameSource

\* The end of loaderRecordComplete.
LEMMA RecordTailKeeps ==
  ASSUME NEW s, NEW t, t = RecordTail(s), Core(s), Count(s), ~s.rash => ~Over(s)
  PROVE /\ Work(s, t) /\ t.rash = s.rash /\ t.ended = s.ended /\ t.rejected = s.rejected
        /\ Core(t) /\ Count(t)
<1>1. CASE s.ended
  <2>1. t = CommitIfComplete(s) BY <1>1 DEF RecordTail
  <2> QED BY <1>1, <2>1, CommitIfCompleteKeeps DEF Core
<1>2. CASE ~s.ended
  <2>1. t = [s EXCEPT !.ticker = TRUE] BY <1>2 DEF RecordTail
  <2>2. /\ Work(s, t) /\ SameEnd(s, t) /\ SameLog(s, t) /\ t.rash = s.rash
    BY <2>1 DEF Work, SameSource, SameCounts, SameWriter, SameEnd, SameLog
  <2>3. Core(t) /\ Count(t) BY <2>2, CoreFrame DEF Work
  <2> QED BY <2>2, <2>3 DEF SameEnd, SameLog
<1> QED BY <1>1, <1>2

\* The first of the rows to be called back is the smallest that waits.
LEMMA TakeRow ==
  ASSUME NEW s, NEW r, NEW t, Flow(s), s.answering # <<>>, r = Head(s.answering),
         SameCounts(s, t), t.batch = s.batch, t.flights = s.flights, t.lost = s.lost,
         t.answering = Tail(s.answering)
  PROVE /\ Flow(t) /\ r \in Row /\ r <= s.processed
        /\ Out(s) = Out(t) \cup {r} /\ r \notin Out(t)
        /\ \A o \in Waiting(t) : r < o
        /\ Left(t) = Left(s)
<1>1. PICK a \in Seq(Row) : a = s.answering BY DEF Flow
<1>2. PICK c \in Seq(Row) : c = Tail(a) BY <1>1, RowsTail
<1>3. /\ r \in Row /\ Rows(a) = {r} \cup Rows(c) /\ r = a[1] /\ Len(a) \in Nat /\ Len(a) >= 1
      /\ Len(c) = Len(a) - 1 /\ \A i \in 1..Len(c) : c[i] = a[i + 1] /\ i + 1 \in 1..Len(a)
  BY <1>1, <1>2, RowsTail
<1>4. Rising(a) /\ t.answering = c BY <1>1, <1>2 DEF Flow
<1>5. SentBy(t) = SentBy(s) BY DEF SentBy
<1>6. \A o \in Rows(c) : r < o
  <2> SUFFICES ASSUME NEW i \in 1..Len(c) PROVE r < c[i]
    BY DEF Rows
  <2>1. c[i] = a[i + 1] /\ i + 1 \in 1..Len(a) /\ 1 \in 1..Len(a) /\ 1 < i + 1 BY <1>3
  <2> QED BY <1>3, <1>4, <2>1 DEF Rising
<1>7. Rising(c)
  <2> SUFFICES ASSUME NEW i \in 1..Len(c), NEW j \in 1..Len(c), i < j PROVE c[i] < c[j]
    BY DEF Rising
  <2>1. c[i] = a[i + 1] /\ c[j] = a[j + 1] /\ i + 1 \in 1..Len(a) /\ j + 1 \in 1..Len(a) /\ i + 1 < j + 1
    BY <1>3
  <2> QED BY <1>4, <2>1 DEF Rising
<1>8. r \in Rows(a) BY <1>3
<1>9. \A o \in Rows(s.batch) \cup SentBy(s) : r < o
  <2>1. ASSUME NEW o \in Rows(s.batch) PROVE r < o BY <1>1, <1>8 DEF Flow, Before
  <2>2. ASSUME NEW o \in SentBy(s) PROVE r < o
    <3>1. PICK i \in 1..Len(s.flights) : o \in Rows(s.flights[i]) BY <2>2 DEF SentBy
    <3> QED BY <1>1, <1>8, <3>1 DEF Flow, Before
  <2> QED BY <2>1, <2>2
<1>10. \A o \in Waiting(t) : r < o BY <1>4, <1>5, <1>6, <1>9 DEF Waiting
<1>11. Waiting(s) = Waiting(t) \cup {r} /\ Waiting(t) \subseteq Waiting(s) /\ r \in Waiting(s)
  BY <1>1, <1>3, <1>4, <1>5 DEF Waiting
<1>12. Out(s) = Out(t) \cup {r} BY <1>11 DEF Out
<1>13. Out(s) \subseteq 1..s.processed /\ s.processed \in Nat BY DEF Flow
<1>14. r \notin Waiting(t) BY <1>3, <1>10 DEF Row
<1>15. r \notin s.lost
  <2>1. \A l \in s.lost : l < r BY <1>11 DEF Flow
  <2> QED BY <1>3, <2>1 DEF Row
<1>16. Flow(t)
  <2>1. t.processed = s.processed /\ t.skipped = s.skipped /\ t.complete = s.complete BY DEF SameCounts
  <2>2. \A q : Before(a, q) => Before(c, q) BY <1>3 DEF Before
  <2>3. /\ s.processed \in Nat /\ s.skipped \in Nat /\ s.complete \in Nat
        /\ s.batch \in Seq(Row) /\ s.flights \in Seq(Seq(Row)) /\ Rising(s.batch)
        /\ Before(a, s.batch) /\ \A l \in s.lost, o \in Waiting(s) : l < o
    BY <1>1 DEF Flow
  <2>4. \A i \in 1..Len(s.flights) :
          /\ s.flights[i] # <<>> /\ Rising(s.flights[i])
          /\ Before(a, s.flights[i]) /\ Before(s.flights[i], s.batch)
          /\ \A j \in 1..Len(s.flights) : i < j => Before(s.flights[i], s.flights[j])
    BY <1>1 DEF Flow
  <2>5. Out(t) \subseteq 1..s.processed BY <1>12, <1>13
  <2> QED BY <1>4, <1>7, <1>11, <2>1, <2>2, <2>3, <2>4, <2>5 DEF Flow
<1>17. r \in 1..s.processed BY <1>12, <1>13
<1>18. Left(t) = Left(s) BY DEF Left, SameCounts
<1>19. r \notin Out(t) BY <1>14, <1>15 DEF Out
<1> QED BY <1>3, <1>10, <1>12, <1>13, <1>16, <1>17, <1>18, <1>19

-----------------------------------------------------------------------------
\* A state with rows outstanding is followed by one in which the end has not begun.
LEMMA CoreMoves ==
  ASSUME NEW s, NEW t, Core(s), Flow(t), SameLog(s, t), SameEnd(s, t), t.rash = s.rash,
         t.outcome = s.outcome, t.tx \in {"idle", "active", "rollbackOnly"}, ~job.atomic => t.tx = "idle",
         t.tx = "active" => s.tx = "active" /\ t.lost = {} /\ ~t.aborted,
         ~s.rash => ~Quiet(s)
  PROVE Core(t) /\ (~t.rash => ~Over(t))
<1>1. Logger(t) /\ (Over(t) <=> Over(s)) /\ (Phase(t) <=> Phase(s))
  BY LoggerFrame DEF Core, SameEnd
<1>2. ~t.rash => ~Over(t) BY <1>1 DEF Core, Stage
<1>3. ~t.rash => s.outcome # "committed" BY DEF Core, Whole
<1>4. t.rejected = s.rejected /\ t.ends = s.ends BY DEF SameLog, SameEnd
<1>5. Whole(t) BY <1>3, <1>4 DEF Core, Whole
<1>6. ~t.rash => Stage(t) BY <1>1, <1>2 DEF Core, Stage, Over
<1> QED BY <1>1, <1>2, <1>5, <1>6 DEF Core

LEMMA EndSourceGood ==
  ASSUME NEW s, NEW t, t = EndSource(s), Core(s), Count(s), Source(s), Shared(s), ~s.opening,
         s.looping => s.running
  PROVE Good(t)
<1>1. /\ Leaves(s, t) /\ t.running = FALSE /\ t.shutdown = TRUE
      /\ s.running => t.ended = s.ended /\ t.rash = s.rash
      /\ ~s.running => t.ended /\ (t.rash <=> s.rash \/ s.ended)
      /\ Core(t) /\ Count(t)
  BY EndSourceKeeps
<1>2. Source(t) BY <1>1 DEF Source, Leaves
<1>3. Shared(t) BY <1>1, SharedFrame DEF Leaves, SameCounts
<1> QED BY <1>1, <1>2, <1>3 DEF Good

LEMMA DsFinishedGood ==
  ASSUME NEW s, NEW err \in BOOLEAN, NEW t, t = DsFinished(s, err), Core(s), Count(s), Source(s), Shared(s),
         ~s.opening, ~s.looping, ~s.rash => (s.shutdown \/ s.running) /\ (s.reads > 0 => ~s.running)
  PROVE Good(t) /\ Leaves(s, t)
<1>1. /\ Leaves(s, t) /\ t.running = s.running /\ t.shutdown = s.shutdown
      /\ t.ended /\ (t.rash <=> s.rash \/ s.ended)
      /\ Core(t) /\ Count(t)
  BY DsFinishedKeeps
<1>2. Source(t) BY <1>1 DEF Source, Leaves
<1>3. Shared(t) BY <1>1, SharedFrame DEF Leaves, SameCounts
<1> QED BY <1>1, <1>2, <1>3 DEF Good

LEMMA RecordTailGood ==
  ASSUME NEW s, NEW t, t = RecordTail(s), Core(s), Count(s), Source(s), Shared(s), ~s.rash => ~Over(s)
  PROVE Good(t)
<1>1. /\ Work(s, t) /\ t.rash = s.rash /\ t.ended = s.ended /\ Core(t) /\ Count(t)
  BY RecordTailKeeps
<1>2. Source(t) BY <1>1, SourceFrame DEF Work, SameCounts
<1>3. Shared(t) BY <1>1, SharedFrame DEF Work, SameCounts, SameSource
<1> QED BY <1>1, <1>2, <1>3 DEF Good

-----------------------------------------------------------------------------
(* The callbacks of rows.                                                  *)

\* A row was answered, and is no longer outstanding.
LEMMA Answered ==
  ASSUME NEW s, NEW t, Flow(s), Count(s), s.answering # <<>>,
         t.processed = s.processed, t.skipped = s.skipped, t.complete = s.complete + 1,
         t.batch = s.batch, t.flights = s.flights, t.lost = s.lost, t.answering = Tail(s.answering)
  PROVE Flow(t) /\ Count(t) /\ Head(s.answering) \in Row
<1>1. PICK a \in Seq(Row) : a = s.answering BY DEF Flow
<1>2. PICK c : c = Tail(a) OBVIOUS
<1>3. PICK u : u = [processed |-> s.processed, skipped |-> s.skipped, complete |-> s.complete,
                    loaded |-> s.loaded, batch |-> s.batch, flights |-> s.flights,
                    answering |-> c, lost |-> s.lost]
  OBVIOUS
<1>4. /\ SameCounts(s, u) /\ u.batch = s.batch /\ u.flights = s.flights /\ u.lost = s.lost
      /\ u.answering = Tail(s.answering)
  BY <1>1, <1>2, <1>3 DEF SameCounts
<1>5. PICK r : r = Head(s.answering) OBVIOUS
<1>6. Flow(u) /\ r \in Row /\ Out(s) = Out(u) \cup {r} /\ r \notin Out(u)
  BY <1>4, <1>5, TakeRow
<1>7. Waiting(t) = Waiting(u) /\ Out(t) = Out(u) BY <1>4 DEF Waiting, Out, SentBy
<1>8. /\ t.processed = u.processed /\ t.skipped = u.skipped /\ t.complete = u.complete + 1
      /\ t.batch = u.batch /\ t.flights = u.flights /\ t.lost = u.lost /\ t.answering = u.answering
  BY <1>4 DEF SameCounts
<1>9. Flow(t)
  <2>1. u.processed \in Nat /\ u.skipped \in Nat /\ u.complete \in Nat BY <1>6 DEF Flow
  <2>2. t.processed \in Nat /\ t.skipped \in Nat /\ t.complete \in Nat BY ONLY <1>8, <2>1
  <2> QED BY ONLY <1>6, <1>7, <1>8, <2>2, ZenonT(60) DEF Flow
<1>10. Count(t)
  <2>1. IsFiniteSet(Out(u)) /\ Cardinality(Out(u)) \in Nat BY <1>6, OutIsFinite
  <2>2. Cardinality(Out(s)) = Cardinality(Out(u)) + 1 BY <1>6, <2>1, FS_AddElement
  <2>3. Left(t) = Left(s) - 1
    <3>1. s.processed \in Nat /\ s.skipped \in Nat /\ s.complete \in Nat BY DEF Flow
    <3>2. t.processed = s.processed /\ t.skipped = s.skipped /\ t.complete = s.complete + 1
      BY <1>4 DEF SameCounts
    <3> QED BY ONLY <3>1, <3>2 DEF Left
  <2> QED BY <1>7, <2>1, <2>2, <2>3 DEF Count
<1> QED BY <1>5, <1>6, <1>9, <1>10

\* The row is complete, and a paused source may be resumed.
LEMMA RecordEndsGood ==
  ASSUME NEW s, NEW t, Core(s), Count(s), Source(s), Shared(s), ~s.opening, ~s.rash => ~Over(s),
         t = IF ~(IsPaused(s) /\ Lead(s) < MinLead) THEN RecordTail(s)
             ELSE IF Ready(s) THEN [s EXCEPT !.running = TRUE, !.looping = TRUE, !.nested = TRUE]
             ELSE RecordTail([s EXCEPT !.running = TRUE])
  PROVE Good(t)
<1>1. CASE ~(IsPaused(s) /\ Lead(s) < MinLead)
  <2>1. t = RecordTail(s) BY <1>1
  <2> QED BY <2>1, RecordTailGood
<1>2. CASE IsPaused(s) /\ Lead(s) < MinLead
  <2>1. ~s.running /\ ~s.shutdown /\ (~s.rash => ~s.ended) BY <1>2 DEF IsPaused, Source
  <2>2. CASE Ready(s)
    <3>1. t = [s EXCEPT !.running = TRUE, !.looping = TRUE, !.nested = TRUE] BY <1>2, <2>2
    <3>2. /\ SameCounts(s, t) /\ SameWriter(s, t) /\ SameLog(s, t) /\ SameEnd(s, t) /\ t.rash = s.rash
          /\ t.shutdown = s.shutdown /\ t.skipping = s.skipping /\ t.opening = s.opening
          /\ t.reads = s.reads /\ t.atBuffer = s.atBuffer /\ t.lines = s.lines
      <4>1. PICK v : v = [s EXCEPT !.running = TRUE, !.looping = TRUE, !.nested = TRUE] OBVIOUS
      <4>2. SameCounts(s, v) /\ SameEnd(s, v) /\ v.rash = s.rash BY <4>1 DEF SameCounts, SameEnd
      <4>3. SameWriter(s, v) BY <4>1 DEF SameWriter
      <4>4. SameLog(s, v) BY <4>1 DEF SameLog
      <4>5. /\ v.shutdown = s.shutdown /\ v.skipping = s.skipping /\ v.opening = s.opening
            /\ v.reads = s.reads /\ v.atBuffer = s.atBuffer /\ v.lines = s.lines
        BY <4>1
      <4> QED BY <3>1, <4>1, <4>2, <4>3, <4>4, <4>5
    <3>3. Core(t) /\ Count(t) BY <3>2, CoreFrame
    <3>4. Source(t) BY <2>1, <3>2 DEF Source, SameEnd
    <3>5. Shared(t) BY <3>2, SharedFrame DEF SameCounts
    <3> QED BY <3>3, <3>4, <3>5 DEF Good
  <2>3. CASE ~Ready(s)
    <3>1. PICK u : u = [s EXCEPT !.running = TRUE] OBVIOUS
    <3>2. t = RecordTail(u) BY <1>2, <2>3, <3>1
    <3>3. /\ SameCounts(s, u) /\ SameWriter(s, u) /\ SameLog(s, u) /\ SameEnd(s, u) /\ u.rash = s.rash
          /\ u.shutdown = s.shutdown /\ u.skipping = s.skipping /\ u.opening = s.opening
          /\ u.reads = s.reads /\ u.atBuffer = s.atBuffer /\ u.lines = s.lines /\ u.looping = s.looping
      BY <3>1 DEF SameCounts, SameWriter, SameLog, SameEnd
    <3>4. Core(u) /\ Count(u) /\ (Over(u) <=> Over(s)) BY <3>3, CoreFrame
    <3>5. Source(u) BY <2>1, <3>3 DEF Source, SameEnd, SameCounts
    <3>6. Shared(u) BY <3>3, SharedFrame DEF SameCounts
    <3> QED BY <3>2, <3>3, <3>4, <3>5, <3>6, RecordTailGood
  <2> QED BY <2>2, <2>3
<1> QED BY <1>1, <1>2

\* A row that was stored, one that failed, one for which the table is full.
LEMMA StoredGood ==
  ASSUME NEW s, NEW u, NEW r, NEW t, Good(s), ~s.dead, s.answering # <<>>,
         u = [s EXCEPT !.answering = Tail(@), !.ops = @ + 1], t = RecordComplete(u, r, FALSE)
  PROVE Good(t)
<1>1. PICK v : v = [u EXCEPT !.complete = @ + 1] OBVIOUS
<1>2. /\ SameSource(s, v) /\ SameLog(s, v) /\ SameEnd(s, v) /\ v.rash = s.rash
      /\ v.processed = s.processed /\ v.skipped = s.skipped /\ v.complete = s.complete + 1
      /\ v.loaded = s.loaded /\ v.batch = s.batch /\ v.flights = s.flights /\ v.lost = s.lost
      /\ v.answering = Tail(s.answering)
      /\ v.outcome = s.outcome /\ v.tx = s.tx /\ v.aborted = s.aborted
  BY <1>1 DEF SameSource, SameLog, SameEnd
<1>3. Core(s) /\ Count(s) /\ Source(s) /\ Shared(s) BY DEF Good
<1>4. Flow(v) /\ Count(v) /\ Head(s.answering) \in Row BY <1>2, <1>3, Answered DEF Core
<1>5. ~Quiet(s) BY DEF Quiet
<1>6. Core(v) /\ (~v.rash => ~Over(v)) BY <1>2, <1>3, <1>4, <1>5, CoreMoves DEF Core, Whole
<1>7. Source(v) BY <1>2, <1>3, SourceFrame DEF SameEnd
<1>8. Shared(v) BY <1>2, <1>3, SharedFrame DEF SameSource
<1>9. ~v.opening
  <2>1. s.processed # 0
    <3>1. PICK a \in Seq(Row) : a = s.answering BY <1>3 DEF Core, Flow
    <3>2. Head(a) \in Out(s) BY <3>1, RowsTail DEF Out, Waiting
    <3> QED BY <1>3, <3>2 DEF Core, Flow
  <2> QED BY <1>2, <1>3, <2>1 DEF Source, SameSource
<1>10. t = IF ~(IsPaused(v) /\ Lead(v) < MinLead) THEN RecordTail(v)
           ELSE IF Ready(v) THEN [v EXCEPT !.running = TRUE, !.looping = TRUE, !.nested = TRUE]
           ELSE RecordTail([v EXCEPT !.running = TRUE])
  BY <1>1 DEF RecordComplete
<1> QED BY <1>4, <1>6, <1>7, <1>8, <1>9, <1>10, RecordEndsGood

LEMMA NotOpening ==
  ASSUME NEW s, Flow(s), Source(s), s.answering # <<>>
  PROVE ~s.opening /\ Head(s.answering) \in Out(s)
<1>1. PICK a \in Seq(Row) : a = s.answering BY DEF Flow
<1>2. Head(a) \in Out(s) BY <1>1, RowsTail DEF Out, Waiting
<1>3. s.processed # 0 BY <1>2 DEF Flow
<1> QED BY <1>1, <1>2, <1>3 DEF Source

LEMMA HardGood ==
  ASSUME NEW s, NEW u, NEW x, NEW r, NEW t, Good(s), ~s.dead, s.answering # <<>>, r = Head(s.answering),
         u = [s EXCEPT !.answering = Tail(@), !.ops = @ + 1],
         job.atomic => x = SetRollbackOnly(u), ~job.atomic => x = u, t = RecordComplete(x, r, TRUE)
  PROVE Good(t)
<1>1. Core(s) /\ Count(s) /\ Source(s) /\ Shared(s) BY DEF Good
<1>2. PICK q : q = s.rejected \cup {r} OBVIOUS
<1>3. /\ SameSource(s, x) /\ SameLog(s, x) /\ SameEnd(s, x) /\ x.rash = s.rash
      /\ x.processed = s.processed /\ x.skipped = s.skipped /\ x.complete = s.complete
      /\ x.loaded = s.loaded /\ x.batch = s.batch /\ x.flights = s.flights /\ x.lost = s.lost
      /\ x.answering = Tail(s.answering) /\ x.outcome = s.outcome /\ x.aborted = s.aborted
      /\ x.tx = IF job.atomic /\ s.tx = "active" THEN "rollbackOnly" ELSE s.tx
  <2>1. CASE job.atomic
    <3>1. PICK w : w = IF s.tx = "active" THEN "rollbackOnly" ELSE s.tx OBVIOUS
    <3>2. x = [u EXCEPT !.tx = w] BY <2>1, <3>1 DEF SetRollbackOnly
    <3>3. /\ SameSource(s, u) /\ SameLog(s, u) /\ SameEnd(s, u) /\ u.rash = s.rash
          /\ u.processed = s.processed /\ u.skipped = s.skipped /\ u.complete = s.complete
          /\ u.loaded = s.loaded /\ u.batch = s.batch /\ u.flights = s.flights /\ u.lost = s.lost
          /\ u.answering = Tail(s.answering) /\ u.outcome = s.outcome /\ u.aborted = s.aborted
      BY DEF SameSource, SameLog, SameEnd
    <3>4. PICK y : y = [u EXCEPT !.tx = w] OBVIOUS
    <3>5. SameSource(u, y) /\ SameLog(u, y) /\ SameEnd(u, y) /\ y.rash = u.rash
      BY <3>4 DEF SameSource, SameLog, SameEnd
    <3>6. /\ y.processed = u.processed /\ y.skipped = u.skipped /\ y.complete = u.complete
          /\ y.loaded = u.loaded /\ y.batch = u.batch /\ y.flights = u.flights /\ y.lost = u.lost
          /\ y.answering = u.answering /\ y.outcome = u.outcome /\ y.aborted = u.aborted /\ y.tx = w
      BY <3>4
    <3>7. x = y BY <3>2, <3>4
    <3>8. SameSource(s, y) /\ SameLog(s, y) /\ SameEnd(s, y) BY <3>3, <3>5 DEF SameSource, SameLog, SameEnd
    <3> QED BY <2>1, <3>1, <3>3, <3>5, <3>6, <3>7, <3>8
  <2>2. CASE ~job.atomic
    <3>1. x = u BY <2>2
    <3> QED BY <2>2, <3>1 DEF SameSource, SameLog, SameEnd
  <2> QED BY <2>1, <2>2
<1>4. PICK y : y = [[x EXCEPT !.complete = @ + 1] EXCEPT !.errors = @ + 1, !.rejected = @ \cup {r}] OBVIOUS
<1>5. PICK v : v = LogRecord(y, r) OBVIOUS
<1>6. t = IF ~(IsPaused(v) /\ Lead(v) < MinLead) THEN RecordTail(v)
          ELSE IF Ready(v) THEN [v EXCEPT !.running = TRUE, !.looping = TRUE, !.nested = TRUE]
          ELSE RecordTail([v EXCEPT !.running = TRUE])
  BY <1>4, <1>5 DEF RecordComplete
<1>7. /\ SameSource(s, y) /\ SameEnd(s, y) /\ y.rash = s.rash
      /\ y.processed = s.processed /\ y.skipped = s.skipped /\ y.complete = s.complete + 1
      /\ y.loaded = s.loaded /\ y.batch = s.batch /\ y.flights = s.flights /\ y.lost = s.lost
      /\ y.answering = Tail(s.answering) /\ y.outcome = s.outcome /\ y.aborted = s.aborted
      /\ y.tx = IF job.atomic /\ s.tx = "active" THEN "rollbackOnly" ELSE s.tx
      /\ y.fd = s.fd /\ y.opens = s.opens /\ y.queue = s.queue /\ y.rejected = q
      /\ y.logged = s.logged /\ y.writes = s.writes /\ y.closing = s.closing /\ y.dead = x.dead
  <2>1. /\ SameSource(x, y) /\ SameEnd(x, y) /\ y.rash = x.rash
        /\ y.processed = x.processed /\ y.skipped = x.skipped /\ y.complete = x.complete + 1
        /\ y.loaded = x.loaded /\ y.batch = x.batch /\ y.flights = x.flights /\ y.lost = x.lost
    BY <1>4 DEF SameSource, SameEnd
  <2>2. /\ y.answering = x.answering /\ y.outcome = x.outcome /\ y.aborted = x.aborted /\ y.tx = x.tx
        /\ y.fd = x.fd /\ y.opens = x.opens /\ y.queue = x.queue /\ y.rejected = x.rejected \cup {r}
        /\ y.logged = x.logged /\ y.writes = x.writes /\ y.closing = x.closing /\ y.dead = x.dead
    BY <1>4
  <2>3. SameSource(s, y) /\ SameEnd(s, y) BY <1>3, <2>1 DEF SameSource, SameEnd
  <2>4. /\ y.fd = s.fd /\ y.opens = s.opens /\ y.queue = s.queue /\ y.rejected = q
        /\ y.logged = s.logged /\ y.writes = s.writes /\ y.closing = s.closing
    BY <1>2, <1>3, <2>2 DEF SameLog
  <2> QED BY <1>3, <2>1, <2>2, <2>3, <2>4
<1>8. Flow(y) /\ Count(y) /\ r \in Row BY <1>1, <1>7, Answered DEF Core
<1>9. ~Quiet(s) BY DEF Quiet
<1>10. ~s.rash => ~Over(s) /\ s.outcome # "committed" BY <1>1, <1>9 DEF Core, Stage, Whole
<1>11. Rejecting(y, r)
  <2>1. q \subseteq Row /\ r \in q /\ s.rejected \subseteq q BY <1>1, <1>2, <1>8 DEF Core, Logger
  <2>2. /\ y.closing \in Nat /\ y.opens \in Nat /\ y.queue \in Seq(Nat)
        /\ q \subseteq y.logged \cup Rows(y.queue) \cup {r}
        /\ y.writes # {} => y.fd # "none"
        /\ y.fd # "none" /\ y.queue # <<>> => Head(y.queue) \in y.logged \cup {0}
    BY <1>1, <1>2, <1>7 DEF Core, Logger, Kept
  <2>3. ASSUME Log(s) PROVE Log(y) BY <1>7, <2>1, <2>3 DEF Log
  <2> QED BY <1>1, <1>7, <2>1, <2>2, <2>3 DEF Rejecting, Core, Logger
<1>12. /\ Frame(y, v) /\ v.rejected = q
       /\ Kept(v) /\ v.queue \in Seq(Nat) /\ v.closing \in Nat /\ v.opens \in Nat /\ (s.rash => v.rash)
       /\ ~v.rash => /\ Log(v) /\ v.closing = y.closing
                     /\ 0 \in Rows(v.queue) <=> 0 \in Rows(y.queue)
  BY <1>5, <1>7, <1>8, <1>11, LogRecordKeeps
<1>13. Work(y, v) /\ v.ended = y.ended /\ v.finals = y.finals /\ v.ends = y.ends
  BY <1>12 DEF Frame, SameEnd
<1>14. Flow(v) /\ Count(v) BY <1>8, <1>13, FlowFrame
<1>15. v.finals = s.finals /\ v.ends = s.ends /\ v.ended = s.ended BY <1>7, <1>13 DEF SameEnd
<1>16. Logger(v)
  <2>1. q \subseteq Row BY <1>1, <1>2, <1>8 DEF Core, Logger
  <2> QED BY <1>1, <1>12, <1>15, <2>1 DEF Core, Logger
<1>17. ~v.rash => ~Over(v) BY <1>7, <1>10, <1>12, <1>15 DEF Over
<1>18. Whole(v)
  <2>1. /\ v.tx = IF job.atomic /\ s.tx = "active" THEN "rollbackOnly" ELSE s.tx
        /\ v.outcome = s.outcome /\ v.lost = s.lost /\ v.aborted = s.aborted
    BY <1>7, <1>13 DEF Work, SameWriter
  <2>2. v.tx # "active" BY <1>1, <2>1 DEF Core, Whole
  <2>3. ~v.rash => v.ends = <<>> BY <1>17 DEF Over
  <2>4. Rows(<<>>) = {} BY DEF Rows
  <2>5. ~v.rash => "commit" \notin Rows(v.ends) BY <2>3, <2>4
  <2> QED BY <1>1, <1>10, <1>12, <1>15, <2>1, <2>2, <2>5 DEF Core, Whole
<1>19. ~v.rash => Stage(v)
  <2>1. s.finals \in Nat /\ s.closing \in Nat /\ s.ends \in Seq({"commit", "rollback"})
    BY <1>1 DEF Core, Logger
  <2>2. ~v.rash => /\ v.finals = 0 /\ v.closing = 0 /\ 0 \notin Rows(v.queue) /\ v.ends = <<>>
    BY <1>7, <1>12, <1>15, <1>17, <2>1 DEF Over
  <2>3. Len(<<>>) = 0 OBVIOUS
  <2> QED BY <1>17, <2>2, <2>3 DEF Stage, Phase
<1>20. Core(v) BY <1>14, <1>16, <1>18, <1>19 DEF Core
<1>21. SameSource(s, v) /\ v.processed = s.processed /\ v.skipped = s.skipped /\ v.loaded = s.loaded
  BY <1>7, <1>13 DEF Work, SameSource, SameCounts
<1>22. ~s.opening BY <1>1, NotOpening DEF Core
<1>23. Source(v) BY <1>1, <1>12, <1>15, <1>21, <1>22, SourceFrame
<1>24. Shared(v) BY <1>1, <1>21, SharedFrame DEF SameSource
<1>25. ~v.opening BY <1>21, <1>22 DEF SameSource
<1> QED BY <1>6, <1>14, <1>17, <1>20, <1>23, <1>24, <1>25, RecordEndsGood

LEMMA FullGood ==
  ASSUME NEW s, NEW x, NEW r, NEW t, Good(s), ~s.dead, ~s.looping, s.answering # <<>>, r = Head(s.answering),
         x = [s EXCEPT !.answering = Tail(@), !.ops = @ + 1, !.lost = @ \cup {r}], t = Abort(x)
  PROVE Good(t)
<1>1. Core(s) /\ Count(s) /\ Source(s) /\ Shared(s) BY DEF Good
<1>2. PICK a \in Seq(Row) : a = s.answering BY <1>1 DEF Core, Flow
<1>3. PICK c : c = Tail(a) OBVIOUS
<1>4. PICK l : l = s.lost \cup {r} OBVIOUS
<1>5. PICK u : u = [processed |-> s.processed, skipped |-> s.skipped, complete |-> s.complete,
                    loaded |-> s.loaded, batch |-> s.batch, flights |-> s.flights,
                    answering |-> c, lost |-> s.lost]
  OBVIOUS
<1>6. /\ SameCounts(s, u) /\ u.batch = s.batch /\ u.flights = s.flights /\ u.lost = s.lost
      /\ u.answering = Tail(s.answering)
  BY <1>2, <1>3, <1>5 DEF SameCounts
<1>7. /\ Flow(u) /\ r \in Row /\ Out(s) = Out(u) \cup {r} /\ \A o \in Waiting(u) : r < o
      /\ r <= s.processed
  BY <1>1, <1>6, TakeRow DEF Core
<1>8. ~Quiet(s) BY DEF Quiet
<1>9. ~s.opening BY <1>1, NotOpening DEF Core
<1> DEFINE Lost(v) ==
      /\ SameSource(s, v) /\ SameLog(s, v) /\ SameEnd(s, v) /\ v.rash = s.rash
      /\ SameCounts(u, v) /\ v.batch = u.batch /\ v.flights = u.flights /\ v.answering = u.answering
      /\ v.lost = l /\ v.outcome = s.outcome
      /\ v.tx \in {"idle", "active", "rollbackOnly"} /\ (~job.atomic => v.tx = "idle") /\ v.tx # "active"
<1>10. ASSUME NEW v, Lost(v)
       PROVE Core(v) /\ Count(v) /\ Source(v) /\ Shared(v) /\ ~v.opening
  <2>1. Waiting(v) = Waiting(u) BY <1>10 DEF Waiting, SentBy
  <2>2. Out(v) = Out(s) BY <1>4, <1>6, <1>7, <1>10, <2>1 DEF Out
  <2>3. v.processed = s.processed /\ v.skipped = s.skipped /\ v.complete = s.complete /\ v.loaded = s.loaded
    BY <1>6, <1>10 DEF SameCounts
  <2>4. Flow(v)
    <3>1. /\ s.processed \in Nat /\ s.skipped \in Nat /\ s.complete \in Nat
          /\ u.batch \in Seq(Row) /\ u.flights \in Seq(Seq(Row)) /\ u.answering \in Seq(Row)
          /\ Rising(u.batch) /\ Rising(u.answering) /\ Before(u.answering, u.batch)
          /\ \A i \in 1..Len(u.flights) :
               /\ u.flights[i] # <<>> /\ Rising(u.flights[i])
               /\ Before(u.answering, u.flights[i]) /\ Before(u.flights[i], u.batch)
               /\ \A j \in 1..Len(u.flights) : i < j => Before(u.flights[i], u.flights[j])
      BY <1>6, <1>7 DEF Flow, SameCounts
    <3>2. Out(v) \subseteq 1..v.processed BY <1>1, <2>2, <2>3 DEF Core, Flow
    <3>3. \A k \in v.lost, o \in Waiting(v) : k < o
      BY <1>4, <1>6, <1>7, <1>10, <2>1 DEF Flow
    <3> QED BY <1>10, <2>3, <3>1, <3>2, <3>3 DEF Flow
  <2>5. Count(v)
    <3>1. Left(v) = Left(s) BY <2>3 DEF Left
    <3> QED BY <1>1, <2>2, <3>1 DEF Count
  <2>6. Core(v) BY <1>1, <1>8, <1>10, <2>4, CoreMoves
  <2>7. Source(v) BY <1>1, <1>10, <2>3, SourceFrame DEF SameEnd
  <2>8. Shared(v) BY <1>1, <1>10, <2>3, SharedFrame DEF SameSource
  <2>9. ~v.opening BY <1>9, <1>10 DEF SameSource
  <2> QED BY <2>5, <2>6, <2>7, <2>8, <2>9
<1>11. PICK w : w = IF s.tx = "active" THEN "rollbackOnly" ELSE s.tx OBVIOUS
<1>12. /\ s.tx \in {"idle", "active", "rollbackOnly"} /\ (~job.atomic => s.tx = "idle")
       /\ s.aborted => s.tx # "active"
  BY <1>1 DEF Core, Whole
<1>13. CASE s.aborted
  <2>1. /\ SameSource(s, x) /\ SameLog(s, x) /\ SameEnd(s, x) /\ x.rash = s.rash
    BY DEF SameSource, SameLog, SameEnd
  <2>2. /\ x.processed = s.processed /\ x.skipped = s.skipped /\ x.complete = s.complete
        /\ x.loaded = s.loaded /\ x.batch = s.batch /\ x.flights = s.flights /\ x.lost = l
        /\ x.answering = Tail(s.answering) /\ x.outcome = s.outcome /\ x.tx = s.tx
        /\ x.aborted = s.aborted
    BY <1>4
  <2>3. Lost(x) BY <1>6, <1>12, <1>13, <2>1, <2>2 DEF SameCounts
  <2>4. Core(x) /\ Count(x) /\ Source(x) /\ Shared(x) BY <1>10, <2>3
  <2>5. t = x BY <1>13, <2>2 DEF Abort
  <2> QED BY <2>4, <2>5 DEF Good
<1>14. CASE ~s.aborted
  <2>1. PICK z : z = [SetRollbackOnly(x) EXCEPT !.aborted = TRUE, !.fatal = TRUE] OBVIOUS
  <2>2. x.aborted = s.aborted /\ x.tx = s.tx OBVIOUS
  <2>3. t = EndSource(z) BY <1>14, <2>1, <2>2 DEF Abort
  <2>4. PICK y : y = [x EXCEPT !.tx = w] OBVIOUS
  <2>5. SetRollbackOnly(x) = y BY <1>11, <2>2, <2>4 DEF SetRollbackOnly
  <2>6. z = [y EXCEPT !.aborted = TRUE, !.fatal = TRUE] BY <2>1, <2>5
  <2>7. SameSource(s, x) /\ SameSource(x, y) /\ SameSource(y, z) BY <2>4, <2>6 DEF SameSource
  <2>8. SameLog(s, x) /\ SameLog(x, y) /\ SameLog(y, z) BY <2>4, <2>6 DEF SameLog
  <2>9. /\ SameEnd(s, x) /\ SameEnd(x, y) /\ SameEnd(y, z)
        /\ x.rash = s.rash /\ y.rash = x.rash /\ z.rash = y.rash
    BY <2>4, <2>6 DEF SameEnd
  <2>10. /\ x.processed = s.processed /\ x.skipped = s.skipped /\ x.complete = s.complete
        /\ x.loaded = s.loaded /\ x.batch = s.batch /\ x.flights = s.flights /\ x.lost = l
        /\ x.answering = Tail(s.answering) /\ x.outcome = s.outcome
    BY <1>4
  <2>11. /\ z.processed = x.processed /\ z.skipped = x.skipped /\ z.complete = x.complete
        /\ z.loaded = x.loaded /\ z.batch = x.batch /\ z.flights = x.flights /\ z.lost = x.lost
        /\ z.answering = x.answering /\ z.outcome = x.outcome /\ z.tx = w
    BY <2>4, <2>6
  <2>12. SameSource(s, z) /\ SameLog(s, z) /\ SameEnd(s, z) /\ z.rash = s.rash
    BY <2>7, <2>8, <2>9 DEF SameSource, SameLog, SameEnd
  <2>13. Lost(z) BY <1>6, <1>11, <1>12, <2>10, <2>11, <2>12 DEF SameCounts
  <2>14. Core(z) /\ Count(z) /\ Source(z) /\ Shared(z) /\ ~z.opening BY <1>10, <2>13
  <2>15. ~z.looping BY <2>12 DEF SameSource
  <2> QED BY <2>3, <2>14, <2>15, EndSourceGood
<1> QED BY <1>13, <1>14

\* rowCallback keeps the invariant, whatever the session says.
LEMMA RowCallbackGood ==
  ASSUME NEW said \in RowFaults \cup {"stored"}, NEW t, t = ld', RowCallback(said), Good(ld), ~ld.dead, ~ld.looping
  PROVE Good(t)
<1>1. PICK s : s = ld OBVIOUS
<1>2. PICK r : r = Head(s.answering) OBVIOUS
<1>3. PICK u : u = [s EXCEPT !.answering = Tail(@), !.ops = @ + 1] OBVIOUS
<1>4. s.answering # <<>> /\ Good(s) /\ ~s.dead /\ ~s.looping BY <1>1 DEF RowCallback
<1>5. t = CASE said = "stored" -> RecordComplete(u, r, FALSE)
            [] said = "hard" -> RecordComplete(IF job.atomic THEN SetRollbackOnly(u) ELSE u, r, TRUE)
            [] said = "full" -> Abort([u EXCEPT !.lost = @ \cup {r}])
            [] said = "temporary" -> Dies(u)
  BY <1>1, <1>2, <1>3 DEF RowCallback
<1>6. CASE said = "stored"
  <2>1. t = RecordComplete(u, r, FALSE) BY <1>5, <1>6
  <2> QED BY <1>3, <1>4, <2>1, StoredGood
<1>7. CASE said = "hard"
  <2>1. PICK x : x = IF job.atomic THEN SetRollbackOnly(u) ELSE u OBVIOUS
  <2>2. t = RecordComplete(x, r, TRUE) BY <1>5, <1>7, <2>1
  <2>3. (job.atomic => x = SetRollbackOnly(u)) /\ (~job.atomic => x = u) BY <2>1
  <2> QED BY <1>2, <1>3, <1>4, <2>2, <2>3, HardGood
<1>8. CASE said = "full"
  <2>1. PICK x : x = [u EXCEPT !.lost = @ \cup {r}] OBVIOUS
  <2>2. x = [s EXCEPT !.answering = Tail(@), !.ops = @ + 1, !.lost = @ \cup {r}] BY <1>3, <2>1
  <2>3. t = Abort(x) BY <1>5, <1>8, <2>1
  <2> QED BY <1>2, <1>4, <2>2, <2>3, FullGood
<1>9. CASE said = "temporary"
  <2>1. t = [u EXCEPT !.dead = TRUE] BY <1>5, <1>9 DEF Dies
  <2>2. /\ SameSource(s, u) /\ SameLog(s, u) /\ SameEnd(s, u) /\ SameCounts(s, u) /\ u.rash = s.rash
        /\ u.batch = s.batch /\ u.flights = s.flights /\ u.lost = s.lost
        /\ u.answering = Tail(s.answering) /\ u.outcome = s.outcome /\ u.tx = s.tx /\ u.aborted = s.aborted
    BY <1>3 DEF SameSource, SameLog, SameEnd, SameCounts
  <2>3. /\ SameSource(u, t) /\ SameLog(u, t) /\ SameEnd(u, t) /\ SameCounts(u, t) /\ t.rash = u.rash
        /\ t.batch = u.batch /\ t.flights = u.flights /\ t.lost = u.lost
        /\ t.answering = u.answering /\ t.outcome = u.outcome /\ t.tx = u.tx /\ t.aborted = u.aborted
        /\ t.dead = TRUE
    BY <2>1 DEF SameSource, SameLog, SameEnd, SameCounts
  <2>4. SameSource(s, t) /\ SameLog(s, t) /\ SameEnd(s, t) /\ SameCounts(s, t)
    BY <2>2, <2>3 DEF SameSource, SameLog, SameEnd, SameCounts
  <2>5. Core(s) /\ Source(s) /\ Shared(s) BY <1>4 DEF Good
  <2>6. Flow(t) BY <1>2, <1>4, <2>2, <2>3, <2>4, <2>5, TakeRow DEF Core
  <2>7. ~Quiet(s) BY <1>4 DEF Quiet
  <2>8. Core(t) BY <2>2, <2>3, <2>4, <2>5, <2>6, <2>7, CoreMoves DEF Core, Whole
  <2>9. Source(t) BY <2>2, <2>3, <2>4, <2>5, SourceFrame DEF SameEnd, SameCounts
  <2>10. Shared(t) BY <2>4, <2>5, SharedFrame DEF SameSource, SameCounts
  <2> QED BY <2>3, <2>8, <2>9, <2>10 DEF Good
<1> QED BY <1>6, <1>7, <1>8, <1>9 DEF RowFaults

-----------------------------------------------------------------------------
(* The run loop.                                                           *)

\* Consecutive numbers differ modulo more than one.
LEMMA Turns ==
  ASSUME NEW a \in Nat, NEW w \in Nat \ {0}, a % w = (a + 1) % w
  PROVE w = 1
<1>1. /\ a \div w \in Int /\ a = w * (a \div w) + (a % w)
      /\ (a + 1) \div w \in Int /\ a + 1 = w * ((a + 1) \div w) + ((a + 1) % w)
  OBVIOUS
<1>2. PICK p \in Int : p = a \div w BY <1>1
<1>3. PICK q \in Int : q = (a + 1) \div w BY <1>1
<1>4. PICK m \in Int : m = a % w OBVIOUS
<1>5. a = w * p + m /\ a + 1 = w * q + m BY <1>1, <1>2, <1>3, <1>4
<1>6. PICK d \in Int : d = q - p OBVIOUS
<1>7. w * d = w * q - w * p BY <1>6
<1>8. w * d = 1 BY <1>5, <1>7
<1>9. d >= 1 BY <1>8
<1>10. w * (d - 1) >= 0 BY <1>9
<1>11. w * d = w * (d - 1) + w BY <1>9
<1> QED BY <1>8, <1>10, <1>11

LEMMA RemainderOfOne ==
  ASSUME NEW a \in Nat
  PROVE a % 1 = 0
OBVIOUS

\* A row more, which is loaded.
LEMMA NextRowIsShared ==
  ASSUME NEW s, NEW t, NEW b \in {0, 1}, job \in JobType, job.worker < job.workers, Shared(s), ~s.skipping,
         s.processed \in Nat, s.skipped \in Nat,
         t.processed = s.processed + 1, t.skipped = s.skipped + b,
         t.loaded = s.loaded \cup {s.processed + 1},
         t.skipping <=> job.workers > 1,
         Limit > 0 => t.processed <= Limit /\ (t.processed = Limit => t.shutdown)
  PROVE Shared(t)
<1>1. job.workers \in Nat \ {0} /\ job.worker \in Nat /\ job.skipRows \in Nat BY DEF JobType
<1>2. Mine(s.processed + 1) BY DEF Shared
<1>3. s.processed >= job.skipRows /\ s.processed % job.workers = job.worker
  BY <1>1, <1>2 DEF Mine
<1>4. Mine(t.processed + 1) <=> job.workers = 1
  <2>1. Mine(t.processed + 1) <=> (s.processed + 1) % job.workers = job.worker BY <1>1, <1>3 DEF Mine
  <2>2. CASE job.workers = 1
    <3>1. (s.processed + 1) % 1 = 0 BY RemainderOfOne
    <3>2. job.worker = 0 BY <1>1, <2>2
    <3> QED BY <2>1, <2>2, <3>1, <3>2
  <2>3. CASE job.workers # 1
    <3>1. (s.processed + 1) % job.workers # s.processed % job.workers BY <1>1, <2>3, Turns
    <3> QED BY <1>3, <2>1, <2>3, <3>1
  <2> QED BY <2>2, <2>3
<1>5. t.loaded = {r \in 1..t.processed : Mine(r)}
  <2>1. 1..t.processed = (1..s.processed) \cup {s.processed + 1} OBVIOUS
  <2>2. s.loaded = {r \in 1..s.processed : Mine(r)} BY DEF Shared
  <2> QED BY <1>2, <2>1, <2>2
<1>6. /\ t.skipped <= t.processed
      /\ t.processed <= job.skipRows => t.skipped = t.processed
      /\ t.processed >= job.skipRows => t.skipped >= job.skipRows
  BY <1>1, <1>3 DEF Shared
<1> QED BY <1>1, <1>4, <1>5, <1>6 DEF Shared

\* A row more, which is skipped.
LEMMA NextRowIsSkipped ==
  ASSUME NEW s, NEW t, job \in JobType, Shared(s), s.skipping, s.processed \in Nat, s.skipped \in Nat,
         t.processed = s.processed + 1, t.skipped = s.skipped + 1, t.loaded = s.loaded,
         t.skipping <=> ~(t.skipped >= job.skipRows /\ t.processed % job.workers = job.worker),
         Limit > 0 => t.processed <= Limit /\ (t.processed = Limit => t.shutdown)
  PROVE Shared(t)
<1>1. job.workers \in Nat \ {0} /\ job.worker \in Nat /\ job.skipRows \in Nat BY DEF JobType
<1>2. ~Mine(s.processed + 1) BY DEF Shared
<1>3. t.skipped >= job.skipRows <=> t.processed >= job.skipRows BY <1>1 DEF Shared
<1>4. Mine(t.processed + 1) <=> t.processed >= job.skipRows /\ t.processed % job.workers = job.worker
  BY <1>1 DEF Mine
<1>5. t.loaded = {r \in 1..t.processed : Mine(r)}
  <2>1. 1..t.processed = (1..s.processed) \cup {s.processed + 1} OBVIOUS
  <2>2. s.loaded = {r \in 1..s.processed : Mine(r)} BY DEF Shared
  <2> QED BY <1>2, <2>1, <2>2
<1>6. /\ t.skipped <= t.processed
      /\ t.processed <= job.skipRows => t.skipped = t.processed
      /\ t.processed >= job.skipRows => t.skipped >= job.skipRows
  BY <1>1, <1>3 DEF Shared
<1> QED BY <1>3, <1>4, <1>5, <1>6 DEF Shared

LEMMA AtLimitIs ==
  ASSUME NEW s, NEW t, t = AtLimit(s), s.running, ~s.shutdown
  PROVE /\ SameCounts(s, t) /\ SameWriter(s, t) /\ SameLog(s, t) /\ SameEnd(s, t) /\ t.rash = s.rash
        /\ t.skipping = s.skipping /\ t.looping = s.looping /\ t.opening = s.opening
        /\ t.reads = s.reads /\ t.atBuffer = s.atBuffer /\ t.lines = s.lines
        /\ s.processed = Limit => t.shutdown
        /\ t.shutdown => ~t.running
<1>1. CASE s.processed = Limit
  <2>1. t = [s EXCEPT !.shutdown = TRUE, !.running = FALSE] BY <1>1 DEF AtLimit, EndSource
  <2> QED BY <2>1 DEF SameCounts, SameWriter, SameLog, SameEnd
<1>2. CASE s.processed # Limit
  <2>1. t = s BY <1>2 DEF AtLimit
  <2> QED BY <1>2, <2>1 DEF SameCounts, SameWriter, SameLog, SameEnd
<1> QED BY <1>1, <1>2

LEMMA ExecuteBatchCore ==
  ASSUME NEW s, NEW t, t = ExecuteBatch(s), Core(s), Count(s)
  PROVE Steady(s, t) /\ Core(t) /\ Count(t)
<1>1. /\ Steady(s, t) /\ Out(t) = Out(s) /\ Flow(t) /\ (s.batch = <<>> => t = s)
  BY ExecuteBatchKeeps DEF Core
<1>2. /\ Left(t) = Left(s) /\ Logger(t) /\ Whole(t) /\ (Over(t) <=> Over(s)) /\ (Phase(s) => Phase(t))
  BY <1>1, SteadyKeeps DEF Core
<1>3. ~t.rash => Stage(t)
  <2>1. /\ t.rash = s.rash /\ t.finals = s.finals /\ t.closing = s.closing /\ t.queue = s.queue
        /\ t.outcome = s.outcome
    BY <1>1 DEF Steady, SameEnd, SameLog
  <2>2. Quiet(s) => t = s BY <1>1 DEF Quiet
  <2> QED BY <1>2, <2>1, <2>2 DEF Core, Stage
<1> QED BY <1>1, <1>2, <1>3 DEF Core, Count

\* A row more goes to the batch.
LEMMA RowIsBatched ==
  ASSUME NEW s, NEW r, r = s.processed + 1, NEW t, Flow(s), Count(s),
         t.processed = r, t.skipped = s.skipped, t.complete = s.complete,
         t.batch = Append(s.batch, r), t.flights = s.flights, t.answering = s.answering, t.lost = s.lost
  PROVE Flow(t) /\ Count(t)
<1>1. /\ s.processed \in Nat /\ s.skipped \in Nat /\ s.complete \in Nat /\ Out(s) \subseteq 1..s.processed
  BY DEF Flow
<1>2. PICK b \in Seq(Row) : b = s.batch BY DEF Flow
<1>3. r \in Row BY <1>1 DEF Row
<1>4. PICK c : c = Append(b, r) OBVIOUS
<1>5. /\ c \in Seq(Row) /\ Rows(c) = Rows(b) \cup {r} /\ Len(c) = Len(b) + 1
      /\ \A i \in 1..Len(b) : c[i] = b[i]
      /\ c[Len(b) + 1] = r
  BY <1>3, <1>4, RowsAppend
<1>6. Len(b) \in Nat BY LenProperties
<1>7. t.batch = c BY <1>2, <1>4
<1>8. SentBy(t) = SentBy(s) BY DEF SentBy
<1>9. Out(t) = Out(s) \cup {r} /\ Waiting(t) = Waiting(s) \cup {r}
  BY <1>2, <1>5, <1>7, <1>8 DEF Out, Waiting
<1>10. \A o \in Out(s) : o < r BY <1>1
<1>11. Rising(c)
  <2>1. \A i \in 1..Len(b) : b[i] \in Rows(b) BY DEF Rows
  <2>2. Rows(b) \subseteq Out(s) BY <1>2 DEF Out, Waiting
  <2>3. \A i \in 1..Len(b) : c[i] < r BY <1>5, <1>10, <2>1, <2>2
  <2>4. Rising(b) BY <1>2 DEF Flow
  <2> SUFFICES ASSUME NEW i \in 1..Len(c), NEW j \in 1..Len(c), i < j PROVE c[i] < c[j]
    BY DEF Rising
  <2>5. i \in 1..Len(b) BY <1>5, <1>6
  <2>6. CASE j \in 1..Len(b)
    <3>1. b[i] < b[j] BY <2>4, <2>5, <2>6 DEF Rising
    <3> QED BY <1>5, <2>5, <2>6, <3>1
  <2>7. CASE j = Len(b) + 1 BY <1>5, <2>3, <2>5, <2>7
  <2> QED BY <1>5, <1>6, <2>6, <2>7
<1>12. Before(s.answering, c)
  <2>1. Rows(s.answering) \subseteq Out(s) BY DEF Out, Waiting
  <2> QED BY <1>2, <1>5, <1>10, <2>1 DEF Flow, Before
<1>13. \A i \in 1..Len(s.flights) : Before(s.flights[i], c)
  <2> SUFFICES ASSUME NEW i \in 1..Len(s.flights) PROVE Before(s.flights[i], c)
    OBVIOUS
  <2>1. Rows(s.flights[i]) \subseteq Out(s) BY DEF Out, Waiting, SentBy
  <2>2. Before(s.flights[i], b) BY <1>2 DEF Flow
  <2> QED BY <1>5, <1>10, <2>1, <2>2 DEF Before
<1>14. \A l \in t.lost, o \in Waiting(t) : l < o
  <2>1. s.lost \subseteq Out(s) BY DEF Out
  <2> QED BY <1>9, <1>10, <2>1 DEF Flow
<1>15. Flow(t)
  <2>1. Out(t) \subseteq 1..t.processed BY <1>1, <1>9
  <2>2. /\ s.flights \in Seq(Seq(Row)) /\ s.answering \in Seq(Row) /\ Rising(s.answering)
        /\ \A i \in 1..Len(s.flights) :
             /\ s.flights[i] # <<>> /\ Rising(s.flights[i]) /\ Before(s.answering, s.flights[i])
             /\ \A j \in 1..Len(s.flights) : i < j => Before(s.flights[i], s.flights[j])
    BY DEF Flow
  <2>3. PICK f : f = s.flights OBVIOUS
  <2>4. PICK a : a = s.answering OBVIOUS
  <2>5. t.flights = f /\ t.answering = a /\ f \in Seq(Seq(Row)) /\ a \in Seq(Row)
    BY <2>2, <2>3, <2>4
  <2>6. \A i \in 1..Len(f) :
          /\ f[i] # <<>> /\ Rising(f[i]) /\ Before(a, f[i]) /\ Before(f[i], c)
          /\ \A j \in 1..Len(f) : i < j => Before(f[i], f[j])
    BY <1>13, <2>2, <2>3, <2>4
  <2>7. Rising(a) /\ Before(a, c) BY <1>12, <2>2, <2>4
  <2>8. t.processed \in Nat /\ t.skipped \in Nat /\ t.complete \in Nat BY <1>1
  <2> QED BY <1>5, <1>7, <1>11, <1>14, <2>1, <2>5, <2>6, <2>7, <2>8 DEF Flow
<1>16. Count(t)
  <2>1. IsFiniteSet(Out(s)) /\ Cardinality(Out(s)) \in Nat BY OutIsFinite
  <2>2. r \notin Out(s) BY <1>1, <1>10
  <2>3. Cardinality(Out(t)) = Cardinality(Out(s)) + 1
    <3>1. Out(t) = Out(s) \cup {r} BY <1>9
    <3> QED BY ONLY <2>1, <2>2, <3>1, FS_AddElement, ZenonT(60)
  <2>4. Left(t) = Left(s) + 1
    <3>1. /\ s.processed \in Nat /\ s.skipped \in Nat /\ s.complete \in Nat
          /\ t.processed = s.processed + 1 /\ t.skipped = s.skipped /\ t.complete = s.complete
      BY <1>1
    <3> QED BY ONLY <3>1 DEF Left
  <2> QED BY <2>3, <2>4 DEF Count
<1> QED BY <1>15, <1>16

\* A row more is skipped.
LEMMA RowIsSkipped ==
  ASSUME NEW s, NEW t, Flow(s), Count(s),
         t.processed = s.processed + 1, t.skipped = s.skipped + 1, t.complete = s.complete,
         t.batch = s.batch, t.flights = s.flights, t.answering = s.answering, t.lost = s.lost
  PROVE Flow(t) /\ Count(t)
<1>1. /\ s.processed \in Nat /\ s.skipped \in Nat /\ s.complete \in Nat /\ Out(s) \subseteq 1..s.processed
  BY DEF Flow
<1>2. Waiting(t) = Waiting(s) /\ Out(t) = Out(s) BY DEF Waiting, Out, SentBy
<1>3. Left(t) = Left(s) BY <1>1 DEF Left
<1>4. Out(t) \subseteq 1..t.processed BY <1>1, <1>2
<1>5. Flow(t) BY <1>1, <1>2, <1>4 DEF Flow
<1> QED BY <1>2, <1>3, <1>5 DEF Count

\* The loop of the source runs.
Reading(s) == Core(s) /\ Count(s) /\ Source(s) /\ Shared(s) /\ s.looping /\ s.running

LEMMA ReadingIs ==
  ASSUME NEW s, Reading(s), job \in JobType
  PROVE /\ ~s.opening /\ ~s.shutdown /\ (~s.rash => ~s.ended /\ ~Quiet(s) /\ ~Over(s))
        /\ s.processed \in Nat /\ s.skipped \in Nat /\ s.complete \in Nat
        /\ Limit \in Nat /\ (Limit > 0 => s.processed < Limit)
<1>1. ~s.opening /\ ~s.shutdown /\ (~s.rash => ~s.ended) BY DEF Reading, Source
<1>2. s.processed \in Nat /\ s.skipped \in Nat /\ s.complete \in Nat BY DEF Reading, Core, Flow
<1>3. Limit \in Nat BY DEF JobType, Limit
<1>4. Limit > 0 => s.processed < Limit BY <1>1, <1>2, <1>3 DEF Reading, Shared
<1>5. ~s.rash => ~Quiet(s) BY <1>1 DEF Quiet
<1>6. ~s.rash => ~Over(s) BY <1>5 DEF Reading, Core, Stage
<1> QED BY <1>1, <1>2, <1>3, <1>4, <1>5, <1>6

\* The row that the source hands on is counted.
Taken(s, r) == [s EXCEPT !.processed = r, !.loaded = @ \cup {r}]

LEMMA LoadItemKeeps ==
  ASSUME NEW s, NEW t, NEW r, NEW u, Reading(s), job \in JobType, r = s.processed + 1,
         t = Taken(s, r), u = LoadItem(t, r)
  PROVE /\ Core(u) /\ Count(u) /\ SameSource(s, u) /\ SameEnd(s, u) /\ u.rash = s.rash
        /\ u.processed = r /\ u.skipped = s.skipped /\ u.loaded = s.loaded \cup {r}
<1>1. PICK v : v = [t EXCEPT !.batch = Append(@, r)] OBVIOUS
<1>2. u = IF Len(v.batch) >= v.fib[3] THEN ExecuteBatch(v) ELSE v BY <1>1 DEF LoadItem
<1>3. /\ SameSource(s, t) /\ SameLog(s, t) /\ SameEnd(s, t) /\ t.rash = s.rash
      /\ t.processed = r /\ t.skipped = s.skipped /\ t.complete = s.complete
      /\ t.loaded = s.loaded \cup {r}
      /\ t.batch = s.batch /\ t.flights = s.flights /\ t.answering = s.answering /\ t.lost = s.lost
      /\ t.outcome = s.outcome /\ t.tx = s.tx /\ t.aborted = s.aborted
  BY DEF SameSource, SameLog, SameEnd, Taken
<1>4. /\ SameSource(t, v) /\ SameLog(t, v) /\ SameEnd(t, v) /\ v.rash = t.rash
      /\ v.processed = t.processed /\ v.skipped = t.skipped /\ v.complete = t.complete
      /\ v.loaded = t.loaded
      /\ v.batch = Append(t.batch, r) /\ v.flights = t.flights /\ v.answering = t.answering
      /\ v.lost = t.lost /\ v.outcome = t.outcome /\ v.tx = t.tx /\ v.aborted = t.aborted
  BY <1>1 DEF SameSource, SameLog, SameEnd
<1>5. SameSource(s, v) /\ SameLog(s, v) /\ SameEnd(s, v) BY <1>3, <1>4 DEF SameSource, SameLog, SameEnd
<1>6. Flow(v) /\ Count(v) BY <1>3, <1>4, RowIsBatched DEF Reading, Core
<1>7. ~s.rash => ~Quiet(s) BY ReadingIs
<1>8. Core(v) BY <1>3, <1>4, <1>5, <1>6, <1>7, CoreMoves DEF Reading, Core, Whole
<1>9. CASE Len(v.batch) >= v.fib[3]
  <2>1. u = ExecuteBatch(v) BY <1>2, <1>9
  <2>2. Steady(v, u) /\ Core(u) /\ Count(u) BY <1>6, <1>8, <2>1, ExecuteBatchCore
  <2>3. SameSource(s, u) /\ SameEnd(s, u) BY <1>5, <2>2 DEF Steady, SameSource, SameEnd
  <2>4. SameCounts(v, u) /\ u.rash = v.rash BY <2>2 DEF Steady
  <2> QED BY <1>3, <1>4, <2>2, <2>3, <2>4 DEF SameCounts
<1>10. CASE ~(Len(v.batch) >= v.fib[3])
  <2>1. u = v BY <1>2, <1>10
  <2> QED BY <1>3, <1>4, <1>5, <1>6, <1>8, <2>1
<1> QED BY <1>9, <1>10

LEMMA PauseKeeps ==
  ASSUME NEW s, NEW t, t = Pause(s), Core(s), Count(s)
  PROVE /\ Core(t) /\ Count(t) /\ SameCounts(s, t) /\ SameEnd(s, t) /\ t.rash = s.rash
        /\ t.shutdown = s.shutdown /\ t.skipping = s.skipping /\ t.looping = s.looping
        /\ t.opening = s.opening /\ t.reads = s.reads /\ t.atBuffer = s.atBuffer /\ t.lines = s.lines
        /\ t.running => s.running
<1>1. CASE Lead(s) > MaxLead
  <2>1. PICK u : u = [s EXCEPT !.running = FALSE] OBVIOUS
  <2>2. t = ExecuteBatch(u) BY <1>1, <2>1 DEF Pause
  <2>3. /\ SameCounts(s, u) /\ SameWriter(s, u) /\ SameLog(s, u) /\ SameEnd(s, u) /\ u.rash = s.rash
        /\ u.running = FALSE /\ u.shutdown = s.shutdown /\ u.skipping = s.skipping
        /\ u.looping = s.looping /\ u.opening = s.opening
        /\ u.reads = s.reads /\ u.atBuffer = s.atBuffer /\ u.lines = s.lines
    BY <2>1 DEF SameCounts, SameWriter, SameLog, SameEnd
  <2>4. Core(u) /\ Count(u) BY <2>3, CoreFrame
  <2>5. Steady(u, t) /\ Core(t) /\ Count(t) BY <2>2, <2>4, ExecuteBatchCore
  <2>6. SameSource(u, t) /\ SameCounts(u, t) /\ SameEnd(u, t) /\ t.rash = u.rash BY <2>5 DEF Steady
  <2> QED BY <2>3, <2>5, <2>6 DEF SameSource, SameCounts, SameEnd
<1>2. CASE ~(Lead(s) > MaxLead)
  <2>1. t = s BY <1>2 DEF Pause
  <2> QED BY <2>1 DEF SameCounts, SameEnd
<1> QED BY <1>1, <1>2

\* A row is loaded: counted, batched, at the limit the end of the source, then the pause.
LEMMA NewItemGood ==
  ASSUME NEW s, NEW keep \in BOOLEAN, NEW t, t = NewItem(s, keep), Reading(s), ~s.skipping,
         job \in JobType, job.worker < job.workers
  PROVE Good(t)
<1>1. PICK r : r = s.processed + 1 OBVIOUS
<1>2. PICK v : v = Taken(s, r) OBVIOUS
<1>3. PICK p : p = IF keep THEN LoadItem(v, r) ELSE [v EXCEPT !.skipped = @ + 1] OBVIOUS
<1>4. PICK u : u = AtLimit(p) OBVIOUS
<1>5. PICK b : b = (u.skipping \/ job.workers > 1) OBVIOUS
<1>6. PICK w : w = [u EXCEPT !.skipping = b] OBVIOUS
<1>7. t = Pause(w) BY <1>1, <1>2, <1>3, <1>4, <1>5, <1>6 DEF NewItem, Taken
<1>8. /\ ~s.opening /\ ~s.shutdown /\ (~s.rash => ~s.ended /\ ~Quiet(s) /\ ~Over(s))
      /\ s.processed \in Nat /\ s.skipped \in Nat /\ s.complete \in Nat
      /\ Limit \in Nat /\ (Limit > 0 => s.processed < Limit)
  BY ReadingIs
<1>9. /\ Core(p) /\ Count(p) /\ SameSource(s, p) /\ SameEnd(s, p) /\ p.rash = s.rash
      /\ p.processed = r /\ p.loaded = s.loaded \cup {r}
      /\ p.skipped = s.skipped \/ p.skipped = s.skipped + 1
  <2>1. CASE keep
    <3>1. p = LoadItem(v, r) BY <1>3, <2>1
    <3> QED BY <1>1, <1>2, <3>1, LoadItemKeeps
  <2>2. CASE ~keep
    <3>1. p = [v EXCEPT !.skipped = @ + 1] BY <1>3, <2>2
    <3>2. /\ SameSource(s, v) /\ SameLog(s, v) /\ SameEnd(s, v) /\ v.rash = s.rash
          /\ v.processed = r /\ v.skipped = s.skipped /\ v.complete = s.complete
          /\ v.loaded = s.loaded \cup {r}
          /\ v.batch = s.batch /\ v.flights = s.flights /\ v.answering = s.answering /\ v.lost = s.lost
          /\ v.outcome = s.outcome /\ v.tx = s.tx /\ v.aborted = s.aborted
      BY <1>2 DEF SameSource, SameLog, SameEnd, Taken
    <3>3. /\ SameSource(v, p) /\ SameLog(v, p) /\ SameEnd(v, p) /\ p.rash = v.rash
          /\ p.processed = v.processed /\ p.skipped = v.skipped + 1 /\ p.complete = v.complete
          /\ p.loaded = v.loaded
          /\ p.batch = v.batch /\ p.flights = v.flights /\ p.answering = v.answering /\ p.lost = v.lost
          /\ p.outcome = v.outcome /\ p.tx = v.tx /\ p.aborted = v.aborted
      BY <3>1 DEF SameSource, SameLog, SameEnd
    <3>4. SameSource(s, p) /\ SameLog(s, p) /\ SameEnd(s, p)
      BY <3>2, <3>3 DEF SameSource, SameLog, SameEnd
    <3>5. Flow(p) /\ Count(p) BY <1>1, <3>2, <3>3, RowIsSkipped DEF Reading, Core
    <3>6. Core(p) BY <1>8, <3>2, <3>3, <3>4, <3>5, CoreMoves DEF Reading, Core, Whole
    <3> QED BY <3>2, <3>3, <3>4, <3>5, <3>6
  <2> QED BY <2>1, <2>2
<1>10. p.running /\ ~p.shutdown /\ ~p.skipping /\ ~p.opening /\ p.looping
  BY <1>8, <1>9 DEF SameSource, Reading
<1>11. /\ SameCounts(p, u) /\ SameWriter(p, u) /\ SameLog(p, u) /\ SameEnd(p, u) /\ u.rash = p.rash
       /\ u.skipping = p.skipping /\ u.looping = p.looping /\ u.opening = p.opening
       /\ u.reads = p.reads /\ u.atBuffer = p.atBuffer /\ u.lines = p.lines
       /\ p.processed = Limit => u.shutdown
       /\ u.shutdown => ~u.running
  BY <1>4, <1>10, AtLimitIs
<1>12. Core(u) /\ Count(u) BY <1>9, <1>11, CoreFrame
<1>13. /\ SameCounts(u, w) /\ SameWriter(u, w) /\ SameLog(u, w) /\ SameEnd(u, w) /\ w.rash = u.rash
       /\ w.skipping = b /\ w.looping = u.looping /\ w.opening = u.opening
       /\ w.reads = u.reads /\ w.atBuffer = u.atBuffer /\ w.lines = u.lines
       /\ w.shutdown = u.shutdown /\ w.running = u.running
  BY <1>6 DEF SameCounts, SameWriter, SameLog, SameEnd
<1>14. Core(w) /\ Count(w) BY <1>12, <1>13, CoreFrame
<1>15. /\ Core(t) /\ Count(t) /\ SameCounts(w, t) /\ SameEnd(w, t) /\ t.rash = w.rash
       /\ t.shutdown = w.shutdown /\ t.skipping = w.skipping /\ t.looping = w.looping
       /\ t.opening = w.opening /\ t.reads = w.reads /\ t.atBuffer = w.atBuffer /\ t.lines = w.lines
       /\ t.running => w.running
  BY <1>7, <1>14, PauseKeeps
<1>16. Source(t)
  <2>1. t.reads = s.reads /\ t.atBuffer = s.atBuffer /\ t.lines = s.lines /\ ~t.opening
    BY <1>9, <1>10, <1>11, <1>13, <1>15 DEF SameSource
  <2>2. t.shutdown => ~t.running BY <1>11, <1>13, <1>15
  <2>3. t.rash = s.rash /\ t.ended = s.ended BY <1>9, <1>11, <1>13, <1>15 DEF SameEnd
  <2> QED BY <1>8, <2>1, <2>2, <2>3 DEF Source, Reading
<1>17. Shared(t)
  <2>1. t.processed = r /\ t.loaded = s.loaded \cup {r} /\ t.skipped = p.skipped
    BY <1>9, <1>11, <1>13, <1>15 DEF SameCounts
  <2>2. PICK d \in {0, 1} : t.skipped = s.skipped + d
    <3>1. s.skipped + 0 = s.skipped BY <1>8
    <3> QED BY <1>9, <2>1, <3>1
  <2>3. t.skipping <=> job.workers > 1 BY <1>5, <1>10, <1>11, <1>13, <1>15
  <2>4. Limit > 0 => t.processed <= Limit /\ (t.processed = Limit => t.shutdown)
    BY <1>1, <1>8, <1>9, <1>11, <1>13, <1>15, <2>1
  <2> QED BY <1>1, <1>8, <2>1, <2>2, <2>3, <2>4, NextRowIsShared DEF Reading
<1> QED BY <1>15, <1>16, <1>17 DEF Good

\* The row that the source passes over is counted.
Passed(s) == [s EXCEPT !.processed = @ + 1, !.skipped = @ + 1]

LEMMA PassedIs ==
  ASSUME NEW s, NEW p, p = Passed(s)
  PROVE /\ SameSource(s, p) /\ SameLog(s, p) /\ SameEnd(s, p) /\ p.rash = s.rash
        /\ p.processed = s.processed + 1 /\ p.skipped = s.skipped + 1 /\ p.complete = s.complete
        /\ p.loaded = s.loaded /\ SameWriter(s, p)
<1>1. PICK n : n = s.processed + 1 OBVIOUS
<1>2. PICK m : m = s.skipped + 1 OBVIOUS
<1>3. p = [s EXCEPT !.processed = n, !.skipped = m] BY <1>1, <1>2 DEF Passed
<1>4. PICK q : q = [s EXCEPT !.processed = n] OBVIOUS
<1>5. p = [q EXCEPT !.skipped = m] BY <1>3, <1>4
<1>6. SameSource(s, q) /\ SameLog(s, q) /\ SameEnd(s, q) /\ q.rash = s.rash /\ SameWriter(s, q)
  BY <1>4 DEF SameSource, SameLog, SameEnd, SameWriter
<1>7. SameSource(q, p) /\ SameLog(q, p) /\ SameEnd(q, p) /\ p.rash = q.rash /\ SameWriter(q, p)
  BY <1>5 DEF SameSource, SameLog, SameEnd, SameWriter
<1>8. q.processed = n /\ q.skipped = s.skipped /\ q.complete = s.complete /\ q.loaded = s.loaded
  BY <1>4
<1>9. p.processed = q.processed /\ p.skipped = m /\ p.complete = q.complete /\ p.loaded = q.loaded
  BY <1>5
<1>10. SameSource(s, p) BY <1>6, <1>7 DEF SameSource
<1>11. SameLog(s, p) /\ SameEnd(s, p) BY <1>6, <1>7 DEF SameLog, SameEnd
<1>12. SameWriter(s, p) BY <1>6, <1>7 DEF SameWriter
<1> QED BY <1>1, <1>2, <1>6, <1>7, <1>8, <1>9, <1>10, <1>11, <1>12

\* A row is skipped: counted, and the next one may be ours.
LEMMA DiscardedItemGood ==
  ASSUME NEW s, NEW t, t = DiscardedItem(s), Reading(s), s.skipping, job \in JobType
  PROVE Good(t)
<1>1. PICK p : p = Passed(s) OBVIOUS
<1>2. PICK u : u = AtLimit(p) OBVIOUS
<1>3. PICK b : b = (u.skipping /\ ~(u.skipped >= job.skipRows /\ u.processed % job.workers = job.worker))
  OBVIOUS
<1>4. t = [u EXCEPT !.skipping = b] BY <1>1, <1>2, <1>3 DEF DiscardedItem, Passed
<1>5. /\ ~s.opening /\ ~s.shutdown /\ (~s.rash => ~s.ended /\ ~Quiet(s) /\ ~Over(s))
      /\ s.processed \in Nat /\ s.skipped \in Nat /\ s.complete \in Nat
      /\ Limit \in Nat /\ (Limit > 0 => s.processed < Limit)
  BY ReadingIs
<1>6. /\ SameSource(s, p) /\ SameLog(s, p) /\ SameEnd(s, p) /\ p.rash = s.rash
      /\ p.processed = s.processed + 1 /\ p.skipped = s.skipped + 1 /\ p.complete = s.complete
      /\ p.loaded = s.loaded
      /\ p.batch = s.batch /\ p.flights = s.flights /\ p.answering = s.answering /\ p.lost = s.lost
      /\ p.outcome = s.outcome /\ p.tx = s.tx /\ p.aborted = s.aborted
  <2>1. /\ SameSource(s, p) /\ SameLog(s, p) /\ SameEnd(s, p) /\ p.rash = s.rash
        /\ p.processed = s.processed + 1 /\ p.skipped = s.skipped + 1 /\ p.complete = s.complete
        /\ p.loaded = s.loaded /\ SameWriter(s, p)
    BY <1>1, PassedIs
  <2> QED BY <2>1 DEF SameWriter
<1>7. Flow(p) /\ Count(p) BY <1>6, RowIsSkipped DEF Reading, Core
<1>8. Core(p) BY <1>5, <1>6, <1>7, CoreMoves DEF Reading, Core, Whole
<1>9. p.running /\ ~p.shutdown /\ p.skipping /\ ~p.opening
  BY <1>5, <1>6 DEF SameSource, Reading
<1>10. /\ SameCounts(p, u) /\ SameWriter(p, u) /\ SameLog(p, u) /\ SameEnd(p, u) /\ u.rash = p.rash
       /\ u.skipping = p.skipping /\ u.looping = p.looping /\ u.opening = p.opening
       /\ u.reads = p.reads /\ u.atBuffer = p.atBuffer /\ u.lines = p.lines
       /\ p.processed = Limit => u.shutdown
       /\ u.shutdown => ~u.running
  BY <1>2, <1>9, AtLimitIs
<1>11. Core(u) /\ Count(u) BY <1>7, <1>8, <1>10, CoreFrame
<1>12. /\ SameCounts(u, t) /\ SameWriter(u, t) /\ SameLog(u, t) /\ SameEnd(u, t) /\ t.rash = u.rash
       /\ t.skipping = b /\ t.looping = u.looping /\ t.opening = u.opening
       /\ t.reads = u.reads /\ t.atBuffer = u.atBuffer /\ t.lines = u.lines
       /\ t.shutdown = u.shutdown /\ t.running = u.running
  BY <1>4 DEF SameCounts, SameWriter, SameLog, SameEnd
<1>13. Core(t) /\ Count(t) BY <1>11, <1>12, CoreFrame
<1>14. Source(t)
  <2>1. t.reads = s.reads /\ t.atBuffer = s.atBuffer /\ t.lines = s.lines /\ ~t.opening
    BY <1>6, <1>9, <1>10, <1>12 DEF SameSource
  <2>2. t.shutdown => ~t.running BY <1>10, <1>12
  <2>3. t.rash = s.rash /\ t.ended = s.ended BY <1>6, <1>10, <1>12 DEF SameEnd
  <2> QED BY <1>5, <2>1, <2>2, <2>3 DEF Source, Reading
<1>15. Shared(t)
  <2>1. t.processed = s.processed + 1 /\ t.loaded = s.loaded /\ t.skipped = s.skipped + 1
    BY <1>6, <1>10, <1>12 DEF SameCounts
  <2>2. t.skipping <=> ~(t.skipped >= job.skipRows /\ t.processed % job.workers = job.worker)
    <3>1. u.skipped = t.skipped /\ u.processed = t.processed BY <1>12 DEF SameCounts
    <3> QED BY <1>3, <1>9, <1>10, <1>12, <3>1
  <2>3. Limit > 0 => t.processed <= Limit /\ (t.processed = Limit => t.shutdown)
    BY <1>5, <1>6, <1>10, <1>12, <2>1
  <2> QED BY <1>5, <2>1, <2>2, <2>3, NextRowIsSkipped DEF Reading
<1> QED BY <1>13, <1>14, <1>15 DEF Good

\* Steps that change none of the fields of the invariant.
LEMMA GoodFrame ==
  ASSUME NEW s, NEW t, SameSource(s, t), SameCounts(s, t), SameWriter(s, t), SameLog(s, t), SameEnd(s, t),
         t.rash = s.rash, Good(s), ~s.dead
  PROVE Good(t)
<1>1. Core(s) /\ Count(s) /\ Source(s) /\ Shared(s) BY DEF Good
<1>2. Core(t) /\ Count(t) BY <1>1, CoreFrame
<1>3. Source(t) BY <1>1, SourceFrame DEF SameCounts, SameEnd
<1>4. Shared(t) BY <1>1, SharedFrame DEF SameSource, SameCounts
<1> QED BY <1>2, <1>3, <1>4 DEF Good

LEMMA ReadingGood ==
  ASSUME NEW s, Reading(s)
  PROVE Good(s)
BY DEF Reading, Good

LEMMA LineGood ==
  ASSUME NEW s, NEW l \in Lines, NEW keep \in BOOLEAN, NEW t, t = Line(s, l, keep), Reading(s), ~s.dead,
         job \in JobType, job.worker < job.workers
  PROVE Good(t)
<1>1. CASE s.header /\ l = "row"
  <2>1. t = [s EXCEPT !.header = FALSE] BY <1>1 DEF Line
  <2>2. /\ SameSource(s, t) /\ SameCounts(s, t) /\ SameWriter(s, t) /\ SameLog(s, t) /\ SameEnd(s, t)
        /\ t.rash = s.rash
    BY <2>1 DEF SameSource, SameCounts, SameWriter, SameLog, SameEnd
  <2> QED BY <2>2, GoodFrame, ReadingGood
<1>2. CASE s.header /\ l = "bare"
  <2>1. t = s BY <1>2 DEF Line
  <2> QED BY <2>1, ReadingGood
<1>3. CASE ~s.header /\ ~s.skipping /\ l = "bare"
  <2>1. t = s BY <1>3 DEF Line
  <2> QED BY <2>1, ReadingGood
<1>4. CASE l = "partial" /\ (s.header \/ ~s.skipping)
  <2>1. t = [s EXCEPT !.dead = TRUE] BY <1>4 DEF Line, Dies
  <2>2. /\ SameSource(s, t) /\ SameCounts(s, t) /\ SameWriter(s, t) /\ SameLog(s, t) /\ SameEnd(s, t)
        /\ t.rash = s.rash
    BY <2>1 DEF SameSource, SameCounts, SameWriter, SameLog, SameEnd
  <2> QED BY <2>2, GoodFrame, ReadingGood
<1>5. CASE ~s.header /\ s.skipping
  <2>1. t = DiscardedItem(s) BY <1>5 DEF Line
  <2> QED BY <1>5, <2>1, DiscardedItemGood
<1>6. CASE ~s.header /\ ~s.skipping /\ l = "row" /\ (job.parses \/ ~keep)
  <2>1. t = NewItem(s, keep) BY <1>6 DEF Line
  <2> QED BY <1>6, <2>1, NewItemGood
<1>7. CASE ~s.header /\ ~s.skipping /\ l = "row" /\ ~job.parses /\ keep
  <2>1. t = [s EXCEPT !.dead = TRUE] BY <1>7 DEF Line, Dies
  <2>2. /\ SameSource(s, t) /\ SameCounts(s, t) /\ SameWriter(s, t) /\ SameLog(s, t) /\ SameEnd(s, t)
        /\ t.rash = s.rash
    BY <2>1 DEF SameSource, SameCounts, SameWriter, SameLog, SameEnd
  <2> QED BY <2>2, GoodFrame, ReadingGood
<1>8. job.parses \in BOOLEAN BY DEF JobType
<1> QED BY <1>1, <1>2, <1>3, <1>4, <1>5, <1>6, <1>7, <1>8 DEF Lines

\* A turn of the run loop keeps the invariant.
LEMMA LoopStepGood ==
  ASSUME NEW t, t = ld', LoopStep, Good(ld), ~ld.dead, job \in JobType, job.worker < job.workers
  PROVE Good(t)
<1>1. PICK s : s = ld OBVIOUS
<1>2. Good(s) /\ ~s.dead /\ s.looping /\ s.running BY <1>1 DEF LoopStep, LoopGoesOn
<1>3. Reading(s) BY <1>2 DEF Good, Reading
<1>4. PICK keep \in BOOLEAN :
        t = IF job.from = "random"
            THEN IF s.skipping THEN DiscardedItem(s) ELSE NewItem(s, keep)
            ELSE Line([s EXCEPT !.lines = Tail(@)], Head(s.lines), keep)
  BY <1>1 DEF LoopStep
<1>5. CASE job.from = "random" /\ s.skipping
  <2>1. t = DiscardedItem(s) BY <1>4, <1>5
  <2> QED BY <1>3, <1>5, <2>1, DiscardedItemGood
<1>6. CASE job.from = "random" /\ ~s.skipping
  <2>1. t = NewItem(s, keep) BY <1>4, <1>6
  <2> QED BY <1>3, <1>6, <2>1, NewItemGood
<1>7. CASE job.from # "random"
  <2>1. s.lines # <<>> BY <1>1, <1>7 DEF LoopStep, LoopGoesOn
  <2>2. PICK l \in Seq(Lines) : l = s.lines BY <1>3 DEF Reading, Source
  <2>3. Head(l) \in Lines /\ Tail(l) \in Seq(Lines) BY <2>1, <2>2, HeadTailProperties
  <2>4. PICK m \in Seq(Lines) : m = Tail(l) BY <2>3
  <2>5. PICK u : u = [s EXCEPT !.lines = m] OBVIOUS
  <2>6. t = Line(u, Head(l), keep) BY <1>4, <1>7, <2>2, <2>4, <2>5
  <2>7. /\ SameCounts(s, u) /\ SameWriter(s, u) /\ SameLog(s, u) /\ SameEnd(s, u) /\ u.rash = s.rash
        /\ u.running = s.running /\ u.shutdown = s.shutdown /\ u.skipping = s.skipping
        /\ u.looping = s.looping /\ u.opening = s.opening
        /\ u.reads = s.reads /\ u.atBuffer = s.atBuffer /\ u.lines = m /\ u.dead = s.dead
    BY <2>5 DEF SameCounts, SameWriter, SameLog, SameEnd
  <2>8. Core(u) /\ Count(u) BY <1>3, <2>7, CoreFrame DEF Reading
  <2>9. Source(u) BY <1>3, <2>7 DEF Source, SameEnd, SameCounts, Reading
  <2>10. Shared(u) BY <1>3, <2>7, SharedFrame DEF SameCounts, Reading
  <2>11. Reading(u) BY <1>2, <2>7, <2>8, <2>9, <2>10 DEF Reading
  <2> QED BY <1>2, <2>3, <2>6, <2>7, <2>11, LineGood
<1> QED BY <1>5, <1>6, <1>7

\* What is rash excuses the stage of the end.
LEMMA CoreRash ==
  ASSUME NEW s, NEW t, SameCounts(s, t), SameWriter(s, t), SameLog(s, t), SameEnd(s, t),
         s.rash => t.rash, Core(s)
  PROVE Core(t) /\ (Count(s) => Count(t)) /\ (Over(t) <=> Over(s))
<1>1. /\ t.batch = s.batch /\ t.flights = s.flights /\ t.answering = s.answering /\ t.lost = s.lost
      /\ t.processed = s.processed /\ t.skipped = s.skipped /\ t.complete = s.complete
      /\ t.ended = s.ended /\ t.finals = s.finals /\ t.ends = s.ends
      /\ t.aborted = s.aborted /\ t.tx = s.tx /\ t.outcome = s.outcome /\ t.rejected = s.rejected
  BY DEF SameCounts, SameWriter, SameEnd, SameLog
<1>2. Waiting(t) = Waiting(s) /\ Out(t) = Out(s) /\ Left(t) = Left(s)
  BY <1>1 DEF Waiting, Out, SentBy, Left
<1>3. Flow(t) BY <1>1, <1>2 DEF Core, Flow
<1>4. Logger(t) /\ (Over(t) <=> Over(s)) /\ (Phase(t) <=> Phase(s))
  BY <1>1, LoggerFrame DEF Core
<1>5. Quiet(t) <=> Quiet(s) BY <1>1, <1>2 DEF Quiet
<1>6. Whole(t) BY <1>1, <1>5 DEF Core, Whole
<1>7. ~t.rash => Stage(t) BY <1>1, <1>4, <1>5 DEF Core, Stage, SameLog
<1> QED BY <1>2, <1>3, <1>4, <1>6, <1>7 DEF Core, Count

LEMMA ReadIs ==
  ASSUME NEW s, NEW t, t = Read(s)
  PROVE /\ SameCounts(s, t) /\ SameWriter(s, t) /\ SameLog(s, t) /\ SameEnd(s, t)
        /\ (t.rash <=> s.rash \/ s.reads > 0) /\ t.reads = s.reads + 1
        /\ t.running = s.running /\ t.shutdown = s.shutdown /\ t.skipping = s.skipping
        /\ t.looping = s.looping /\ t.opening = s.opening /\ t.atBuffer = s.atBuffer /\ t.lines = s.lines
<1> DEFINE b == s.rash \/ s.reads > 0
<1>1. t = [s EXCEPT !.reads = @ + 1, !.rash = b] BY DEF Read
<1>2. b <=> s.rash \/ s.reads > 0 OBVIOUS
<1> HIDE DEF b
<1>3. SameCounts(s, t) /\ SameEnd(s, t) BY <1>1 DEF SameCounts, SameEnd
<1>4. SameWriter(s, t) BY <1>1 DEF SameWriter
<1>5. SameLog(s, t) BY <1>1 DEF SameLog
<1>6. /\ t.rash = b /\ t.reads = s.reads + 1
      /\ t.running = s.running /\ t.shutdown = s.shutdown /\ t.skipping = s.skipping
      /\ t.looping = s.looping /\ t.opening = s.opening /\ t.atBuffer = s.atBuffer /\ t.lines = s.lines
  BY <1>1
<1> QED BY <1>2, <1>3, <1>4, <1>5, <1>6

\* The loop ends, and no callback waits for it.
LEMMA LoopLeft ==
  ASSUME NEW s, NEW t, Core(s), Count(s), Source(s), Shared(s), ~s.looping, ~s.opening,
         ~s.rash => ~s.ended,
         t = IF s.shutdown THEN DsFinished(s, FALSE)
             ELSE IF job.from # "random" /\ s.lines = <<>> THEN Read(s) ELSE s
  PROVE Good(t) /\ Core(t) /\ Count(t) /\ ~t.opening
<1>1. CASE s.shutdown
  <2>1. t = DsFinished(s, FALSE) BY <1>1
  <2>2. ~s.running BY <1>1 DEF Source
  <2>3. Good(t) /\ Leaves(s, t) BY <1>1, <2>1, <2>2, DsFinishedGood
  <2>4. Core(t) /\ Count(t) BY <2>1, DsFinishedKeeps
  <2> QED BY <2>3, <2>4 DEF Leaves
<1>2. CASE ~s.shutdown /\ job.from # "random" /\ s.lines = <<>>
  <2>1. t = Read(s) BY <1>2
  <2>2. /\ SameCounts(s, t) /\ SameWriter(s, t) /\ SameLog(s, t) /\ SameEnd(s, t)
        /\ (t.rash <=> s.rash \/ s.reads > 0) /\ t.reads = s.reads + 1
        /\ t.running = s.running /\ t.shutdown = s.shutdown /\ t.skipping = s.skipping
        /\ t.looping = s.looping /\ t.opening = s.opening /\ t.atBuffer = s.atBuffer /\ t.lines = s.lines
    BY <2>1, ReadIs
  <2>3. Core(t) /\ Count(t) BY <2>2, CoreRash
  <2>4. Source(t)
    <3>1. PICK n \in Nat : n = s.reads BY DEF Source
    <3>2. PICK m \in Nat : m = n + 1 OBVIOUS
    <3>3. t.reads = m BY <2>2, <3>1, <3>2
    <3>4. n > 0 \/ m <= 1 BY <3>2
    <3>5. ~t.rash => ~s.rash /\ ~(n > 0) BY <2>2, <3>1
    <3>6. ~t.rash => m <= 1 BY <3>4, <3>5
    <3>7. t.ended = s.ended /\ ~t.opening /\ (t.shutdown => ~t.running) BY <1>2, <2>2 DEF SameEnd
    <3>8. ~t.rash => ~t.ended BY <3>5, <3>7
    <3>9. t.atBuffer \in 0..Len(job.buffers) /\ t.lines \in Seq(Lines) BY <2>2 DEF Source
    <3> QED BY <3>3, <3>6, <3>7, <3>8, <3>9 DEF Source
  <2>5. Shared(t) BY <2>2, SharedFrame DEF SameCounts
  <2> QED BY <2>2, <2>3, <2>4, <2>5 DEF Good
<1>3. CASE ~s.shutdown /\ ~(job.from # "random" /\ s.lines = <<>>)
  BY <1>3 DEF Good
<1> QED BY <1>1, <1>2, <1>3

\* So does its end, with the call of the controller that it returns to.
LEMMA LoopEndsGood ==
  ASSUME NEW t, t = ld', LoopEnds, Good(ld), ~ld.dead
  PROVE Good(t)
<1>1. PICK p : p = ld OBVIOUS
<1>2. PICK s : s = [p EXCEPT !.looping = FALSE, !.nested = FALSE] OBVIOUS
<1>3. PICK u : u = IF s.shutdown THEN DsFinished(s, FALSE)
                   ELSE IF job.from # "random" /\ s.lines = <<>> THEN Read(s) ELSE s
  OBVIOUS
<1>4. p.looping /\ Good(p) /\ ~p.dead BY <1>1 DEF LoopEnds
<1>5. /\ SameCounts(p, s) /\ SameWriter(p, s) /\ SameLog(p, s) /\ SameEnd(p, s) /\ s.rash = p.rash
      /\ s.running = p.running /\ s.shutdown = p.shutdown /\ s.skipping = p.skipping
      /\ s.looping = FALSE /\ s.opening = p.opening
      /\ s.reads = p.reads /\ s.atBuffer = p.atBuffer /\ s.lines = p.lines
  <2>1. SameCounts(p, s) /\ SameEnd(p, s) /\ s.rash = p.rash BY <1>2 DEF SameCounts, SameEnd
  <2>2. SameWriter(p, s) BY <1>2 DEF SameWriter
  <2>3. SameLog(p, s) BY <1>2 DEF SameLog
  <2>4. /\ s.running = p.running /\ s.shutdown = p.shutdown /\ s.skipping = p.skipping
        /\ s.looping = FALSE /\ s.opening = p.opening
        /\ s.reads = p.reads /\ s.atBuffer = p.atBuffer /\ s.lines = p.lines
    BY <1>2
  <2> QED BY <2>1, <2>2, <2>3, <2>4
<1>6. Core(s) /\ Count(s) BY <1>4, <1>5, CoreFrame DEF Good
<1>7. Source(s) /\ (~s.rash => ~s.ended) /\ ~s.opening
  BY <1>4, <1>5 DEF Source, SameEnd, SameCounts, Good
<1>8. Shared(s) BY <1>4, <1>5, SharedFrame DEF SameCounts, Good
<1>9. Good(u) /\ Core(u) /\ Count(u) /\ ~u.opening BY <1>3, <1>5, <1>6, <1>7, <1>8, LoopLeft
<1>10. t = IF ~p.nested THEN u ELSE RecordTail([u EXCEPT !.rash = @ \/ (u.ended /\ Left(u) = 0)])
  <2>1. ld.shutdown = s.shutdown /\ ld.lines = s.lines BY <1>1, <1>5
  <2> QED BY <1>1, <1>2, <1>3, <2>1 DEF LoopEnds
<1>11. CASE ~p.nested BY <1>9, <1>10, <1>11
<1>12. CASE p.nested
  <2>1. PICK b : b = (u.rash \/ (u.ended /\ Left(u) = 0)) OBVIOUS
  <2>2. PICK v : v = [u EXCEPT !.rash = b] OBVIOUS
  <2>3. t = RecordTail(v) BY <1>10, <1>12, <2>1, <2>2
  <2>4. SameSource(u, v) BY <2>2 DEF SameSource
  <2>5. SameCounts(u, v) BY <2>2 DEF SameCounts
  <2>6. SameWriter(u, v) BY <2>2 DEF SameWriter
  <2>7. SameLog(u, v) BY <2>2 DEF SameLog
  <2>8. SameEnd(u, v) /\ v.rash = b BY <2>2 DEF SameEnd
  <2>9. Core(v) /\ Count(v) /\ (Over(v) <=> Over(u)) BY <1>9, <2>1, <2>5, <2>6, <2>7, <2>8, CoreRash
  <2>10. ~v.rash => ~Over(v)
    <3>1. ~v.rash => ~u.rash /\ ~(u.ended /\ Left(u) = 0) BY <2>1, <2>8
    <3>2. ~u.rash => (Over(u) => u.ended /\ Left(u) = 0) BY <1>9 DEF Core, Stage, Quiet
    <3> QED BY <2>9, <3>1, <3>2
  <2>11. Source(v) BY <1>9, <2>1, <2>4, <2>5, <2>8, SourceFrame DEF SameEnd, SameCounts, Good
  <2>12. Shared(v) BY <1>9, <2>4, <2>5, SharedFrame DEF SameSource, SameCounts, Good
  <2> QED BY <2>3, <2>9, <2>10, <2>11, <2>12, RecordTailGood
<1> QED BY <1>11, <1>12

-----------------------------------------------------------------------------
(* The file, the session and the bad file.                                 *)

LEMMA FileOpenedGood ==
  ASSUME NEW ok \in BOOLEAN, NEW t, t = ld', FileOpened(ok), Good(ld), ~ld.dead
  PROVE Good(t)
<1>1. PICK p : p = ld OBVIOUS
<1>2. PICK s : s = [p EXCEPT !.opening = FALSE] OBVIOUS
<1>3. p.opening /\ Good(p) /\ ~p.dead /\ t = IF ok THEN Read(s) ELSE DsFinished(s, TRUE)
  BY <1>1, <1>2 DEF FileOpened
<1>4. /\ SameCounts(p, s) /\ SameWriter(p, s) /\ SameLog(p, s) /\ SameEnd(p, s) /\ s.rash = p.rash
      /\ s.running = p.running /\ s.shutdown = p.shutdown /\ s.skipping = p.skipping
      /\ s.looping = p.looping /\ s.opening = FALSE
      /\ s.reads = p.reads /\ s.atBuffer = p.atBuffer /\ s.lines = p.lines
  BY <1>2 DEF SameCounts, SameWriter, SameLog, SameEnd
<1>5. Core(s) /\ Count(s) BY <1>3, <1>4, CoreFrame DEF Good
<1>6. p.running /\ ~p.looping /\ p.reads = 0 /\ ~p.ended /\ ~p.rash BY <1>3 DEF Good, Source
<1>7. Source(s) BY <1>3, <1>4 DEF Source, SameEnd, SameCounts, Good
<1>8. Shared(s) BY <1>3, <1>4, SharedFrame DEF SameCounts, Good
<1>9. CASE ok
  <2>1. t = Read(s) BY <1>3, <1>9
  <2>2. /\ SameCounts(s, t) /\ SameWriter(s, t) /\ SameLog(s, t) /\ SameEnd(s, t)
        /\ (t.rash <=> s.rash \/ s.reads > 0) /\ t.reads = s.reads + 1
        /\ t.running = s.running /\ t.shutdown = s.shutdown /\ t.skipping = s.skipping
        /\ t.looping = s.looping /\ t.opening = s.opening /\ t.atBuffer = s.atBuffer /\ t.lines = s.lines
    BY <2>1, ReadIs
  <2>3. Core(t) /\ Count(t) BY <1>5, <2>2, CoreRash
  <2>4. Source(t)
    <3>1. t.reads = 1 BY <1>4, <1>6, <2>2
    <3>2. ~t.ended /\ ~t.opening BY <1>4, <1>6, <2>2 DEF SameEnd
    <3>3. t.atBuffer \in 0..Len(job.buffers) /\ t.lines \in Seq(Lines) /\ (t.shutdown => ~t.running)
      BY <1>7, <2>2 DEF Source
    <3> QED BY <3>1, <3>2, <3>3 DEF Source
  <2>5. Shared(t) BY <1>8, <2>2, SharedFrame DEF SameCounts
  <2> QED BY <2>3, <2>4, <2>5 DEF Good
<1>10. CASE ~ok
  <2>1. t = DsFinished(s, TRUE) BY <1>3, <1>10
  <2>2. ~s.opening /\ ~s.looping /\ s.running /\ ~(s.reads > 0) BY <1>4, <1>6
  <2> QED BY <1>5, <1>7, <1>8, <2>1, <2>2, DsFinishedGood
<1> QED BY <1>9, <1>10

\* So does a read that returns, with a buffer, at the end of the file or with an error.
LEMMA ReadReturnsGood ==
  ASSUME NEW ok \in BOOLEAN, NEW t, t = ld', ReadReturns(ok), Good(ld), ~ld.dead, ~ld.looping,
         job \in JobType
  PROVE Good(t)
<1>1. PICK p : p = ld OBVIOUS
<1>2. PICK k \in Nat : k = p.reads BY <1>1 DEF Good, Source
<1>3. PICK m : m = k - 1 OBVIOUS
<1>4. PICK s : s = [p EXCEPT !.reads = m] OBVIOUS
<1>5. /\ k > 0 /\ Good(p) /\ ~p.dead /\ ~p.looping
      /\ t = IF ~ok THEN DsFinished([s EXCEPT !.rash = @ \/ IsPaused(s)], TRUE)
             ELSE IF p.atBuffer = Len(job.buffers) THEN EndSource([s EXCEPT !.running = FALSE])
             ELSE [s EXCEPT !.atBuffer = @ + 1, !.lines = job.buffers[p.atBuffer + 1],
                            !.looping = p.running]
  BY <1>1, <1>2, <1>3, <1>4 DEF ReadReturns
<1>6. m \in Nat /\ (k <= 1 => m = 0) BY <1>3, <1>5
<1>7. /\ SameCounts(p, s) /\ SameWriter(p, s) /\ SameLog(p, s) /\ SameEnd(p, s) /\ s.rash = p.rash
      /\ s.running = p.running /\ s.shutdown = p.shutdown /\ s.skipping = p.skipping
      /\ s.looping = p.looping /\ s.opening = p.opening
      /\ s.reads = m /\ s.atBuffer = p.atBuffer /\ s.lines = p.lines
  BY <1>4 DEF SameCounts, SameWriter, SameLog, SameEnd
<1>8. Core(s) /\ Count(s) BY <1>5, <1>7, CoreFrame DEF Good
<1>9. Source(p) /\ Shared(p) BY <1>5 DEF Good
<1>10. Shared(s) BY <1>7, <1>9, SharedFrame DEF SameCounts
<1>11. ~p.opening BY <1>2, <1>5, <1>9 DEF Source
<1>12. ~p.rash => m = 0 /\ (p.ended => ~p.running /\ p.shutdown)
  <2>1. ~p.rash => k <= 1 BY <1>2, <1>9 DEF Source
  <2>2. ~p.rash => (p.ended => ~p.running /\ p.shutdown) BY <1>2, <1>5, <1>9 DEF Source
  <2> QED BY <1>6, <2>1, <2>2
<1>13. p.atBuffer \in 0..Len(job.buffers) /\ p.lines \in Seq(Lines) /\ (p.shutdown => ~p.running)
  BY <1>9 DEF Source
<1>14. /\ s.ended = p.ended /\ s.processed = p.processed BY <1>7 DEF SameEnd, SameCounts
<1>15. 0 <= 1 /\ ~(0 > 0) OBVIOUS
<1>16. CASE ~ok
  <2>1. PICK b : b = (s.rash \/ IsPaused(s)) OBVIOUS
  <2>2. PICK v : v = [s EXCEPT !.rash = b] OBVIOUS
  <2>3. t = DsFinished(v, TRUE) BY <1>5, <1>16, <2>1, <2>2
  <2>4. /\ SameCounts(s, v) /\ SameWriter(s, v) /\ SameLog(s, v) /\ SameEnd(s, v) /\ v.rash = b
        /\ v.running = s.running /\ v.shutdown = s.shutdown /\ v.skipping = s.skipping
        /\ v.looping = s.looping /\ v.opening = s.opening
        /\ v.reads = s.reads /\ v.atBuffer = s.atBuffer /\ v.lines = s.lines
    BY <2>2 DEF SameCounts, SameWriter, SameLog, SameEnd
  <2>5. Core(v) /\ Count(v) BY <1>8, <2>1, <2>4, CoreRash
  <2>6. ~v.rash => ~p.rash /\ (p.shutdown \/ p.running) BY <1>7, <2>1, <2>4 DEF IsPaused
  <2>7. ~v.opening /\ ~v.looping /\ v.reads = m /\ v.ended = p.ended
        /\ v.running = p.running /\ v.shutdown = p.shutdown /\ v.atBuffer = p.atBuffer /\ v.lines = p.lines
    BY <1>5, <1>7, <1>11, <2>4 DEF SameEnd
  <2>8. Source(v)
    <3>1. ~v.rash => v.reads = 0 BY <1>12, <2>6, <2>7
    <3>2. ~v.rash => v.reads <= 1 /\ ~(v.reads > 0) BY <1>15, <3>1
    <3> QED BY <1>6, <1>13, <2>6, <2>7, <3>2 DEF Source
  <2>9. Shared(v) BY <1>10, <2>4, SharedFrame DEF SameCounts
  <2>10. ~v.rash => (v.shutdown \/ v.running) /\ (v.reads > 0 => ~v.running)
    <3>1. ~v.rash => v.reads = 0 BY <1>12, <2>6, <2>7
    <3> QED BY <1>15, <2>6, <2>7, <3>1
  <2> QED BY <2>3, <2>5, <2>7, <2>8, <2>9, <2>10, DsFinishedGood
<1>17. CASE ok /\ p.atBuffer = Len(job.buffers)
  <2>1. PICK v : v = [s EXCEPT !.running = FALSE] OBVIOUS
  <2>2. t = EndSource(v) BY <1>5, <1>17, <2>1
  <2>3. /\ SameCounts(s, v) /\ SameWriter(s, v) /\ SameLog(s, v) /\ SameEnd(s, v) /\ v.rash = s.rash
        /\ v.running = FALSE /\ v.shutdown = s.shutdown /\ v.skipping = s.skipping
        /\ v.looping = s.looping /\ v.opening = s.opening
        /\ v.reads = s.reads /\ v.atBuffer = s.atBuffer /\ v.lines = s.lines
    BY <2>1 DEF SameCounts, SameWriter, SameLog, SameEnd
  <2>4. Core(v) /\ Count(v) BY <1>8, <2>3, CoreFrame
  <2>5. ~v.opening /\ ~v.looping /\ v.reads = m /\ v.ended = p.ended /\ v.rash = p.rash
        /\ v.shutdown = p.shutdown /\ v.atBuffer = p.atBuffer /\ v.lines = p.lines
    BY <1>5, <1>7, <1>11, <2>3 DEF SameEnd
  <2>6. Source(v)
    <3>1. ~v.rash => v.reads = 0 /\ (v.ended => v.shutdown) BY <1>12, <2>5
    <3>2. ~v.rash => v.reads <= 1 BY <1>15, <3>1
    <3> QED BY <1>6, <1>13, <2>3, <2>5, <3>1, <3>2 DEF Source
  <2>7. Shared(v) BY <1>10, <2>3, SharedFrame DEF SameCounts
  <2> QED BY <2>2, <2>4, <2>5, <2>6, <2>7, EndSourceGood
<1>18. CASE ok /\ p.atBuffer # Len(job.buffers)
  <2>1. job.buffers \in Seq(Seq(Lines)) /\ Len(job.buffers) \in Nat BY LenProperties DEF JobType
  <2>2. PICK a \in 1..Len(job.buffers) : a = p.atBuffer + 1
    <3>1. PICK n \in Nat : n = Len(job.buffers) BY <2>1
    <3>2. PICK i \in 0..n : i = p.atBuffer BY <1>13, <3>1
    <3>3. i # n BY <1>18, <3>1, <3>2
    <3>4. i + 1 \in 1..n BY <3>3
    <3> QED BY <3>1, <3>2, <3>4
  <2>3. PICK l \in Seq(Lines) : l = job.buffers[a] BY <2>1, <2>2, ElementOfSeq
  <2>4. t = [s EXCEPT !.atBuffer = a, !.lines = l, !.looping = p.running]
    BY <1>5, <1>7, <1>18, <2>2, <2>3
  <2>5. PICK v : v = [s EXCEPT !.atBuffer = a, !.lines = l, !.looping = p.running] OBVIOUS
  <2>6. SameCounts(s, v) /\ SameEnd(s, v) /\ v.rash = s.rash BY <2>5 DEF SameCounts, SameEnd
  <2>7. SameWriter(s, v) BY <2>5 DEF SameWriter
  <2>8. SameLog(s, v) BY <2>5 DEF SameLog
  <2>9. /\ v.running = s.running /\ v.shutdown = s.shutdown /\ v.skipping = s.skipping
        /\ v.looping = p.running /\ v.opening = s.opening
        /\ v.reads = s.reads /\ v.atBuffer = a /\ v.lines = l
    BY <2>5
  <2>10. Core(v) /\ Count(v) BY <1>8, <2>6, <2>7, <2>8, CoreFrame
  <2>11. Source(v)
    <3>1. v.rash = p.rash /\ v.ended = p.ended /\ v.reads = m BY <1>7, <2>6, <2>9 DEF SameEnd
    <3>2. ~v.rash => v.reads = 0 /\ (v.ended => ~v.running /\ v.shutdown)
      BY <1>7, <1>12, <2>9, <3>1
    <3>3. ~v.rash => v.reads <= 1 BY <1>15, <3>2
    <3>4. v.atBuffer \in 0..Len(job.buffers) BY <2>1, <2>2, <2>9
    <3>5. ~v.opening /\ (v.shutdown => ~v.running) BY <1>7, <1>11, <1>13, <2>9
    <3>6. ~v.rash /\ v.ended => ~v.looping /\ v.shutdown /\ ~v.running BY <1>7, <2>9, <3>2
    <3> QED BY <1>6, <2>9, <3>1, <3>3, <3>4, <3>5, <3>6 DEF Source
  <2>12. Shared(v) BY <1>10, <2>6, <2>9, SharedFrame DEF SameCounts
  <2> QED BY <2>4, <2>5, <2>10, <2>11, <2>12 DEF Good
<1> QED BY <1>16, <1>17, <1>18

\* So does the answer to a batch, which comes in the order of the batches.
LEMMA BatchAnsweredGood ==
  ASSUME NEW t, t = ld', BatchAnswered, Good(ld), ~ld.dead, ld.answering = <<>>
  PROVE Good(t)
<1>1. PICK s : s = ld OBVIOUS
<1>2. Good(s) /\ ~s.dead /\ s.answering = <<>> /\ s.flights # <<>> BY <1>1 DEF BatchAnswered
<1>3. Core(s) /\ Count(s) /\ Source(s) /\ Shared(s) BY <1>2 DEF Good
<1>4. PICK f \in Seq(Seq(Row)) : f = s.flights BY <1>3 DEF Core, Flow
<1>5. PICK a : a = Head(f) OBVIOUS
<1>6. PICK g : g = Tail(f) OBVIOUS
<1>7. t = [s EXCEPT !.answering = a, !.flights = g] BY <1>1, <1>4, <1>5, <1>6 DEF BatchAnswered
<1>8. /\ a \in Seq(Row) /\ g \in Seq(Seq(Row)) /\ Len(f) \in Nat /\ Len(f) >= 1 /\ Len(g) = Len(f) - 1
      /\ a = f[1] /\ \A i \in 1..Len(g) : g[i] = f[i + 1] /\ i + 1 \in 1..Len(f)
  BY <1>2, <1>4, <1>5, <1>6, RowsTail
<1>9. SameSource(s, t) /\ SameCounts(s, t) BY <1>7 DEF SameSource, SameCounts
<1>10. SameLog(s, t) /\ SameEnd(s, t) /\ t.rash = s.rash BY <1>7 DEF SameLog, SameEnd
<1>11. /\ t.batch = s.batch /\ t.flights = g /\ t.answering = a /\ t.lost = s.lost
       /\ t.outcome = s.outcome /\ t.tx = s.tx /\ t.aborted = s.aborted
  BY <1>7
<1>12. SentBy(s) = Rows(a) \cup SentBy(t)
  <2>1. ASSUME NEW r \in SentBy(s) PROVE r \in Rows(a) \cup SentBy(t)
    <3>1. PICK i \in 1..Len(f) : r \in Rows(f[i]) BY <1>4, <2>1 DEF SentBy
    <3>2. CASE i = 1 BY <1>8, <3>1, <3>2
    <3>3. CASE i # 1
      <4>1. i - 1 \in 1..Len(g) /\ (i - 1) + 1 = i BY <1>8, <3>3
      <4>2. g[i - 1] = f[i] BY <1>8, <4>1
      <4> QED BY <1>11, <3>1, <4>1, <4>2 DEF SentBy
    <3> QED BY <3>2, <3>3
  <2>2. Rows(a) \subseteq SentBy(s)
    <3>1. 1 \in 1..Len(f) BY <1>8
    <3> QED BY <1>4, <1>8, <3>1 DEF SentBy
  <2>3. ASSUME NEW r \in SentBy(t) PROVE r \in SentBy(s)
    <3>1. PICK i \in 1..Len(g) : r \in Rows(g[i]) BY <1>11, <2>3 DEF SentBy
    <3>2. g[i] = f[i + 1] /\ i + 1 \in 1..Len(f) BY <1>8
    <3>3. r \in Rows(f[i + 1]) BY <3>1, <3>2
    <3> QED BY <1>4, <3>2, <3>3 DEF SentBy
  <2> QED BY <2>1, <2>2, <2>3
<1>13. Waiting(t) = Waiting(s) /\ Out(t) = Out(s)
  <2>1. Rows(<<>>) = {} BY DEF Rows
  <2> QED BY <1>2, <1>11, <1>12, <2>1 DEF Waiting, Out
<1>14. 1 \in 1..Len(f) /\ \A i \in 1..Len(g) : 1 < i + 1 BY <1>8
<1>15. /\ f[1] # <<>> /\ Rising(f[1]) /\ Before(f[1], s.batch)
       /\ \A j \in 1..Len(f) : 1 < j => Before(f[1], f[j])
  BY <1>3, <1>4, <1>14 DEF Core, Flow
<1>16. ASSUME NEW i \in 1..Len(g)
       PROVE /\ g[i] # <<>> /\ Rising(g[i]) /\ Before(a, g[i]) /\ Before(g[i], s.batch)
             /\ \A j \in 1..Len(g) : i < j => Before(g[i], g[j])
  <2>1. g[i] = f[i + 1] /\ i + 1 \in 1..Len(f) /\ 1 < i + 1 BY <1>8, <1>14
  <2>2. /\ f[i + 1] # <<>> /\ Rising(f[i + 1]) /\ Before(f[i + 1], s.batch)
        /\ \A j \in 1..Len(f) : i + 1 < j => Before(f[i + 1], f[j])
    BY <1>3, <1>4, <2>1 DEF Core, Flow
  <2>3. ASSUME NEW j \in 1..Len(g), i < j PROVE Before(g[i], g[j])
    <3>1. g[j] = f[j + 1] /\ j + 1 \in 1..Len(f) /\ i + 1 < j + 1 BY <1>8, <2>3
    <3> QED BY <2>1, <2>2, <3>1
  <2>4. Before(a, g[i]) BY <1>8, <1>15, <2>1
  <2> QED BY <2>1, <2>2, <2>3, <2>4
<1>17. Flow(t)
  <2>1. t.processed = s.processed /\ t.skipped = s.skipped /\ t.complete = s.complete
    BY <1>9 DEF SameCounts
  <2>2. /\ s.processed \in Nat /\ s.skipped \in Nat /\ s.complete \in Nat /\ s.batch \in Seq(Row)
        /\ Rising(s.batch) /\ Out(s) \subseteq 1..s.processed /\ \A l \in s.lost, o \in Waiting(s) : l < o
    BY <1>3 DEF Core, Flow
  <2>3. Rising(a) /\ Before(a, s.batch) BY <1>8, <1>15
  <2> QED BY <1>8, <1>11, <1>13, <1>16, <2>1, <2>2, <2>3 DEF Flow
<1>18. Count(t)
  <2>1. Left(t) = Left(s) BY <1>9 DEF Left, SameCounts
  <2> QED BY <1>3, <1>13, <2>1 DEF Count
<1>19. ~Quiet(s) BY <1>2 DEF Quiet
<1>20. Core(t) BY <1>3, <1>10, <1>11, <1>17, <1>19, CoreMoves DEF Core, Whole
<1>21. Source(t) BY <1>3, <1>9, <1>10, SourceFrame DEF SameCounts, SameEnd
<1>22. Shared(t) BY <1>3, <1>9, SharedFrame DEF SameSource, SameCounts
<1> QED BY <1>18, <1>20, <1>21, <1>22 DEF Good

LEMMA TickGood ==
  ASSUME NEW t, t = ld', Tick, Good(ld), ~ld.dead
  PROVE Good(t)
<1>1. PICK s : s = ld OBVIOUS
<1>2. PICK up : up = IF s.ops < s.prior THEN ~s.up ELSE s.up OBVIOUS
<1>3. PICK f : f = IF up THEN SizeUp(s.fib) ELSE SizeDown(s.fib) OBVIOUS
<1>4. PICK u : u = [s EXCEPT !.ticks = @ + 1, !.up = up, !.prior = s.ops] OBVIOUS
<1>5. PICK v : v = [u EXCEPT !.ops = 0, !.fib = f] OBVIOUS
<1>6. t = v BY <1>1, <1>2, <1>3, <1>4, <1>5 DEF Tick
<1>7. Good(s) /\ ~s.dead BY <1>1
<1>8. SameSource(s, u) /\ SameCounts(s, u) BY <1>4 DEF SameSource, SameCounts
<1>9. SameLog(s, u) /\ SameEnd(s, u) /\ u.rash = s.rash BY <1>4 DEF SameLog, SameEnd
<1>10. SameWriter(s, u) /\ u.dead = s.dead BY <1>4 DEF SameWriter
<1>11. Good(u) BY <1>7, <1>8, <1>9, <1>10, GoodFrame
<1>12. SameSource(u, v) /\ SameCounts(u, v) BY <1>5 DEF SameSource, SameCounts
<1>13. SameLog(u, v) /\ SameEnd(u, v) /\ v.rash = u.rash BY <1>5 DEF SameLog, SameEnd
<1>14. SameWriter(u, v) BY <1>5 DEF SameWriter
<1>15. Good(v) BY <1>7, <1>10, <1>11, <1>12, <1>13, <1>14, GoodFrame
<1> QED BY <1>6, <1>15

LEMMA FlowSame ==
  ASSUME NEW s, NEW t, SameCounts(s, t), t.batch = s.batch, t.flights = s.flights,
         t.answering = s.answering, t.lost = s.lost
  PROVE (Flow(s) => Flow(t)) /\ (Count(s) => Count(t)) /\ (t.ended = s.ended => (Quiet(s) => Quiet(t)))
<1>1. t.processed = s.processed /\ t.skipped = s.skipped /\ t.complete = s.complete BY DEF SameCounts
<1>2. Waiting(t) = Waiting(s) /\ Out(t) = Out(s) /\ Left(t) = Left(s)
  BY <1>1 DEF Waiting, Out, SentBy, Left
<1>3. Flow(s) => Flow(t) BY <1>1, <1>2 DEF Flow
<1>4. t.ended = s.ended => (Quiet(s) => Quiet(t)) BY <1>2 DEF Quiet
<1> QED BY <1>2, <1>3, <1>4 DEF Count

\* The transaction is over: p is the state before, and w the outcome.
Answer(p, v, w) ==
  /\ SameSource(p, v) /\ SameCounts(p, v) /\ SameLog(p, v)
  /\ v.batch = p.batch /\ v.flights = p.flights /\ v.answering = p.answering /\ v.lost = p.lost
  /\ v.ended = p.ended /\ v.finals = p.finals /\ v.rash = p.rash
  /\ v.ends = Tail(p.ends) /\ v.tx = "idle" /\ v.outcome = w

LEMMA EndAnswered ==
  ASSUME NEW p, NEW v, NEW w, Answer(p, v, w), p.ends # <<>>, w = "committed" => Head(p.ends) = "commit",
         Core(p), Count(p), Source(p), Shared(p)
  PROVE /\ Core(v) /\ Count(v) /\ Source(v) /\ Shared(v) /\ ~v.opening
        /\ ~v.rash => ~Over(v) /\ Quiet(v)
<1>1. PICK e \in Seq({"commit", "rollback"}) : e = p.ends BY DEF Core, Logger
<1>2. PICK g : g = Tail(e) OBVIOUS
<1>3. g \in Seq({"commit", "rollback"}) /\ Head(e) \in Rows(e) /\ Len(e) \in Nat /\ Len(g) = Len(e) - 1
  BY <1>1, <1>2, RowsTail
<1>4. v.ends = g BY <1>1, <1>2 DEF Answer
<1>5. ~p.rash => /\ Quiet(p) /\ p.finals = 0 /\ p.closing = 0 /\ 0 \notin Rows(p.queue) /\ Len(e) <= 1
  <2>1. ~p.rash => Over(p) /\ Quiet(p) /\ Phase(p) BY DEF Core, Stage, Over
  <2> QED BY <1>1, <2>1 DEF Phase
<1>6. ~p.rash => g = <<>>
  <2>1. Len(e) <= 1 => Len(g) <= 0 BY <1>3
  <2>2. Len(g) <= 0 => g = <<>> BY <1>3, EmptySeq, LenProperties
  <2> QED BY <1>5, <2>1, <2>2
<1>7. job.atomic BY DEF Core, Whole
<1>8. Flow(v) /\ Count(v) /\ (Quiet(p) => Quiet(v)) BY FlowSame DEF Answer, Core
<1>9. Logger(v)
  <2>1. Kept(v) BY DEF Core, Logger, Kept, Answer, SameLog
  <2>2. ~v.rash => Log(v) BY DEF Core, Logger, Log, Answer, SameLog
  <2> QED BY <1>3, <1>4, <2>1, <2>2 DEF Core, Logger, Answer, SameLog
<1>10. v.rash = p.rash /\ v.finals = p.finals /\ v.closing = p.closing /\ v.queue = p.queue
       /\ v.rejected = p.rejected /\ v.tx = "idle" /\ v.outcome = w
  BY DEF Answer, SameLog
<1>11. ~v.rash => ~Over(v) BY <1>4, <1>5, <1>6, <1>10 DEF Over
<1>12. ~v.rash => Quiet(v) BY <1>5, <1>8, <1>10
<1>13. Whole(v)
  <2>1. ~v.rash /\ w = "committed" => v.rejected = {}
    BY <1>1, <1>3, <1>10 DEF Core, Whole
  <2>2. Rows(<<>>) = {} BY DEF Rows
  <2>3. ~v.rash => "commit" \notin Rows(v.ends) BY <1>4, <1>6, <1>10, <2>2
  <2> QED BY <1>7, <1>10, <1>12, <2>1, <2>3 DEF Whole
<1>14. ~v.rash => Stage(v)
  <2>1. Len(<<>>) <= 1 OBVIOUS
  <2>2. ~v.rash => /\ v.finals = 0 /\ v.closing = 0 /\ 0 \notin Rows(v.queue) /\ v.ends = <<>>
    BY <1>4, <1>5, <1>6, <1>10
  <2>3. ~v.rash => Phase(v) BY <2>1, <2>2 DEF Phase
  <2> QED BY <1>11, <2>2, <2>3 DEF Stage
<1>15. Core(v) BY <1>8, <1>9, <1>13, <1>14 DEF Core
<1>16. Source(v) BY SourceFrame DEF Answer, SameCounts
<1>17. Shared(v) BY SharedFrame DEF Answer, SameSource, SameCounts
<1>18. ~v.opening
  <2>1. p.opening => ~p.ended /\ ~p.rash BY DEF Source
  <2>2. ~p.opening BY <1>5, <2>1 DEF Quiet
  <2> QED BY <2>2 DEF Answer, SameSource
<1> QED BY <1>8, <1>11, <1>12, <1>15, <1>16, <1>17, <1>18

LEMMA LoggerEndGood ==
  ASSUME NEW v, NEW t, t = LoggerEnd(v), Core(v), Count(v), Source(v), Shared(v),
         ~v.rash => ~Over(v) /\ Quiet(v), v.outcome # "none"
  PROVE Good(t)
<1>1. /\ Work(v, t) /\ t.rash = v.rash /\ t.ended = v.ended /\ t.ends = v.ends /\ t.rejected = v.rejected
      /\ Logger(t) /\ (~t.rash => Phase(t))
  BY LoggerEndKeeps DEF Core
<1>2. Flow(t) /\ Count(t) BY <1>1, FlowFrame DEF Core
<1>3. Whole(t) BY <1>1, WholeFrame DEF Core
<1>4. ~t.rash => Quiet(t) BY <1>1, QuietFrame
<1>5. t.outcome # "none" BY <1>1 DEF Work, SameWriter
<1>6. Core(t) BY <1>1, <1>2, <1>3, <1>4, <1>5 DEF Core, Stage
<1>7. Source(t) BY <1>1, SourceFrame DEF Work, SameCounts
<1>8. Shared(t) BY <1>1, SharedFrame DEF Work, SameSource, SameCounts
<1> QED BY <1>2, <1>6, <1>7, <1>8 DEF Good

\* So do the callbacks of commit and rollback.
LEMMA TransactionEndsGood ==
  ASSUME NEW ok \in BOOLEAN, NEW t, t = ld', TransactionEnds(ok), Good(ld), ~ld.dead, ~ld.looping
  PROVE Good(t)
<1>1. PICK p : p = ld OBVIOUS
<1>2. p.ends # <<>> /\ Good(p) /\ ~p.dead /\ ~p.looping BY <1>1 DEF TransactionEnds
<1>3. Core(p) /\ Count(p) /\ Source(p) /\ Shared(p) BY <1>2 DEF Good
<1>4. PICK e \in Seq({"commit", "rollback"}) : e = p.ends BY <1>3 DEF Core, Logger
<1>5. PICK g : g = Tail(e) OBVIOUS
<1>6. PICK s : s = [p EXCEPT !.ends = g, !.tx = "idle"] OBVIOUS
<1>7. t = CASE Head(e) = "commit" /\ ok -> LoggerEnd([s EXCEPT !.outcome = "committed"])
            [] Head(e) = "commit" /\ ~ok -> EndSource([s EXCEPT !.outcome = "failed", !.fatal = TRUE])
            [] Head(e) = "rollback" -> LoggerEnd([s EXCEPT !.outcome = "rolledBack", !.fatal = TRUE])
  BY <1>1, <1>4, <1>5, <1>6 DEF TransactionEnds
<1>8. Head(e) \in {"commit", "rollback"} BY <1>2, <1>4, RowsTail
<1>9. Answer(p, s, p.outcome)
  <2>1. SameSource(p, s) /\ SameCounts(p, s) BY <1>6 DEF SameSource, SameCounts
  <2>2. SameLog(p, s) BY <1>6 DEF SameLog
  <2>3. /\ s.batch = p.batch /\ s.flights = p.flights /\ s.answering = p.answering /\ s.lost = p.lost
        /\ s.ended = p.ended /\ s.finals = p.finals /\ s.rash = p.rash
        /\ s.ends = g /\ s.tx = "idle" /\ s.outcome = p.outcome
    BY <1>6
  <2> QED BY <1>4, <1>5, <2>1, <2>2, <2>3 DEF Answer
<1>10. CASE Head(e) = "commit" /\ ok
  <2>1. PICK v : v = [s EXCEPT !.outcome = "committed"] OBVIOUS
  <2>2. t = LoggerEnd(v) BY <1>7, <1>10, <2>1
  <2>3. Answer(p, v, "committed") BY <1>9, <2>1 DEF Answer, SameSource, SameCounts, SameLog
  <2>4. v.outcome = "committed" BY <2>3 DEF Answer
  <2>5. /\ Core(v) /\ Count(v) /\ Source(v) /\ Shared(v) /\ ~v.opening
        /\ ~v.rash => ~Over(v) /\ Quiet(v)
    BY <1>2, <1>3, <1>4, <1>10, <2>3, EndAnswered
  <2> QED BY <2>2, <2>4, <2>5, LoggerEndGood
<1>11. CASE Head(e) = "commit" /\ ~ok
  <2>1. PICK v : v = [s EXCEPT !.outcome = "failed", !.fatal = TRUE] OBVIOUS
  <2>2. t = EndSource(v) BY <1>7, <1>11, <2>1
  <2>3. Answer(p, v, "failed") BY <1>9, <2>1 DEF Answer, SameSource, SameCounts, SameLog
  <2>4. /\ Core(v) /\ Count(v) /\ Source(v) /\ Shared(v) /\ ~v.opening
    BY <1>2, <1>3, <2>3, EndAnswered
  <2>5. ~v.looping BY <1>2, <2>3 DEF Answer, SameSource
  <2> QED BY <2>2, <2>4, <2>5, EndSourceGood
<1>12. CASE Head(e) = "rollback"
  <2>1. PICK v : v = [s EXCEPT !.outcome = "rolledBack", !.fatal = TRUE] OBVIOUS
  <2>2. t = LoggerEnd(v) BY <1>7, <1>12, <2>1
  <2>3. Answer(p, v, "rolledBack") BY <1>9, <2>1 DEF Answer, SameSource, SameCounts, SameLog
  <2>4. v.outcome = "rolledBack" BY <2>3 DEF Answer
  <2>5. /\ Core(v) /\ Count(v) /\ Source(v) /\ Shared(v) /\ ~v.opening
        /\ ~v.rash => ~Over(v) /\ Quiet(v)
    BY <1>2, <1>3, <2>3, EndAnswered
  <2> QED BY <2>2, <2>4, <2>5, LoggerEndGood
<1> QED BY <1>8, <1>10, <1>11, <1>12

LEMMA BadFileOpenedGood ==
  ASSUME NEW ok \in BOOLEAN, NEW t, t = ld', BadFileOpened(ok), Good(ld), ~ld.dead
  PROVE Good(t)
<1>1. PICK p : p = ld OBVIOUS
<1>2. Good(p) /\ ~p.dead /\ p.opens > 0 BY <1>1 DEF BadFileOpened
<1>3. Core(p) /\ Count(p) /\ Source(p) /\ Shared(p) BY <1>2 DEF Good
<1>4. PICK k \in Nat : k = p.opens - 1 BY <1>2, <1>3 DEF Core, Logger
<1>5. PICK f : f = IF ok THEN "file" ELSE "stderr" OBVIOUS
<1>6. f # "none" BY <1>5
<1>7. PICK s : s = [p EXCEPT !.opens = k, !.fd = f] OBVIOUS
<1>8. t = RunQueue(s) BY <1>1, <1>4, <1>5, <1>7 DEF BadFileOpened
<1>9. SameSource(p, s) /\ SameCounts(p, s) BY <1>7 DEF SameSource, SameCounts
<1>10. SameWriter(p, s) BY <1>7 DEF SameWriter
<1>11. /\ SameEnd(p, s) /\ s.rash = p.rash /\ s.opens = k /\ s.fd = f /\ s.queue = p.queue
       /\ s.rejected = p.rejected /\ s.logged = p.logged /\ s.writes = p.writes
       /\ s.closing = p.closing
  BY <1>7 DEF SameEnd
<1>12. Work(p, s) BY <1>9, <1>10 DEF Work
<1>13. /\ Work(s, t) /\ SameEnd(s, t) /\ t.rash = s.rash /\ t.opens = s.opens /\ t.queue = s.queue
       /\ t.rejected = s.rejected
       /\ s.queue # <<>> /\ Head(s.queue) # 0 => t.closing = s.closing
  BY <1>8, RunQueueIs DEF Same, Frame
<1>14. Work(p, t) BY <1>12, <1>13, WorkTrans
<1>15. t.ended = p.ended /\ t.finals = p.finals /\ t.ends = p.ends /\ t.rash = p.rash /\ t.rejected = p.rejected
  BY <1>11, <1>13 DEF SameEnd
<1>16. PICK q \in Seq(Nat) : q = p.queue BY <1>3 DEF Core, Logger
<1>17. ~p.rash => Log(p) /\ Phase(p) BY <1>3 DEF Core, Logger, Stage
<1>18. ASSUME ~p.rash
       PROVE /\ q # <<>> /\ Head(q) # 0 /\ 0 \notin Rows(q) /\ k = 0 /\ p.writes = {}
             /\ p.logged \subseteq p.rejected /\ Rows(q) \subseteq p.rejected \cup {0}
  <2>1. p.fd = "none" /\ p.opens <= 1 BY <1>2, <1>17, <1>18 DEF Log
  <2>2. k = 0
    <3>1. PICK n \in Nat : n = p.opens BY <1>3 DEF Core, Logger
    <3> QED BY <1>2, <1>4, <2>1, <3>1
  <2>3. 0 \notin Rows(q) BY <1>16, <1>17, <1>18, <2>1 DEF Phase
  <2>4. /\ q # <<>> /\ p.writes = {} /\ p.logged \subseteq p.rejected
        /\ Rows(q) \subseteq p.rejected \cup {0}
    BY <1>2, <1>16, <1>17, <1>18, <2>1 DEF Log
  <2>5. Head(q) \in Rows(q) BY <2>4, RowsTail
  <2> QED BY <2>2, <2>3, <2>4, <2>5
<1>19. Kept(t) /\ t.closing \in Nat /\ (~t.rash => Log(t))
  <2>1. /\ s.closing \in Nat /\ s.opens \in Nat /\ s.queue \in Seq(Nat) /\ s.rejected \subseteq Row
        /\ s.fd # "none" /\ s.rejected \subseteq s.logged \cup Rows(s.queue)
    BY <1>3, <1>6, <1>11 DEF Core, Logger, Kept
  <2>2. ~s.rash => /\ s.opens = 0 /\ s.queue # <<>> /\ s.writes = {} /\ s.logged \subseteq s.rejected
                   /\ Rows(s.queue) \subseteq s.rejected \cup {0}
    BY <1>11, <1>16, <1>18
  <2> QED BY <1>8, <2>1, <2>2, RunQueueKeeps
<1>20. Logger(t) BY <1>3, <1>11, <1>13, <1>15, <1>19 DEF Core, Logger
<1>21. ~t.rash => t.closing = p.closing BY <1>11, <1>13, <1>15, <1>16, <1>18
<1>22. ~t.rash => Stage(t)
  <2>1. Quiet(p) => Quiet(t) BY <1>14, <1>15, QuietFrame
  <2>2. t.queue = q /\ t.outcome = p.outcome BY <1>11, <1>13, <1>14, <1>16 DEF Work, SameWriter
  <2>3. ~t.rash => 0 \notin Rows(q) BY <1>15, <1>18
  <2>4. ~t.rash => (Over(t) <=> Over(p)) BY <1>15, <1>16, <1>21, <2>2 DEF Over
  <2>5. ~t.rash => Phase(t)
    <3>1. ~t.rash => \/ p.finals = 0 /\ p.closing = 0 /\ Len(p.ends) <= 1
                     \/ p.finals = 1 /\ p.closing = 0 /\ p.ends = <<>>
      <4>1. ~p.rash => p.fd = "none" BY <1>2, <1>17 DEF Log
      <4> QED BY <1>15, <1>17, <4>1 DEF Phase
    <3> QED BY <1>15, <1>21, <2>2, <2>3, <3>1 DEF Phase
  <2> QED BY <1>3, <1>15, <1>16, <1>21, <2>1, <2>2, <2>4, <2>5 DEF Core, Stage
<1>23. Whole(t) BY <1>3, <1>14, <1>15, WholeFrame DEF Core
<1>24. Flow(t) /\ Count(t) BY <1>3, <1>14, FlowFrame DEF Core
<1>25. Source(t) BY <1>3, <1>14, <1>15, SourceFrame DEF Work, SameCounts
<1>26. Shared(t) BY <1>3, <1>14, SharedFrame DEF Work, SameSource, SameCounts
<1> QED BY <1>20, <1>22, <1>23, <1>24, <1>25, <1>26 DEF Good, Core

LEMMA BadFileClosedGood ==
  ASSUME NEW t, t = ld', BadFileClosed, Good(ld), ~ld.dead
  PROVE Good(t)
<1>1. PICK p : p = ld OBVIOUS
<1>2. Good(p) /\ ~p.dead /\ p.closing > 0 BY <1>1 DEF BadFileClosed
<1>3. Core(p) /\ Count(p) /\ Source(p) /\ Shared(p) BY <1>2 DEF Good
<1>4. PICK c \in Nat : c = p.closing BY <1>3 DEF Core, Logger
<1>5. PICK f \in Nat : f = p.finals BY <1>3 DEF Core, Logger
<1>6. PICK k \in Nat : k = c - 1 BY <1>2, <1>4
<1>7. PICK n \in Nat : n = f + 1 OBVIOUS
<1>8. t = [p EXCEPT !.closing = k, !.ticker = FALSE, !.finals = n]
  BY <1>1, <1>4, <1>5, <1>6, <1>7 DEF BadFileClosed, LoggerFinished
<1>9. /\ SameSource(p, t) /\ SameCounts(p, t) BY <1>8 DEF SameSource, SameCounts
<1>10. SameWriter(p, t) BY <1>8 DEF SameWriter
<1>11. /\ t.ended = p.ended /\ t.ends = p.ends /\ t.rash = p.rash /\ t.rejected = p.rejected
       /\ t.closing = k /\ t.finals = n /\ t.opens = p.opens /\ t.fd = p.fd /\ t.queue = p.queue
       /\ t.logged = p.logged /\ t.writes = p.writes
  BY <1>8
<1>12. Work(p, t) BY <1>9, <1>10 DEF Work
<1>13. Logger(t)
  <2>1. Kept(t) BY <1>3, <1>11 DEF Core, Logger, Kept
  <2>2. ~t.rash => Log(t) BY <1>3, <1>11 DEF Core, Logger, Log
  <2> QED BY <1>3, <1>11, <2>1, <2>2 DEF Core, Logger
<1>14. ~t.rash => Stage(t)
  <2>1. Quiet(p) => Quiet(t) BY <1>11, <1>12, QuietFrame
  <2>2. ~p.rash => Quiet(p) /\ Phase(p) /\ (job.atomic => p.outcome # "none")
    BY <1>2, <1>3 DEF Core, Stage, Over
  <2>3. ~p.rash => f + c = 1 /\ p.ends = <<>> /\ p.fd = "file" /\ p.queue = <<0>>
    BY <1>2, <1>4, <1>5, <2>2 DEF Phase
  <2>4. n + k = f + c BY <1>6, <1>7
  <2>5. ~t.rash => Phase(t) BY <1>11, <2>3, <2>4 DEF Phase
  <2>6. t.outcome = p.outcome BY <1>10 DEF SameWriter
  <2> QED BY <1>11, <2>1, <2>2, <2>5, <2>6 DEF Stage
<1>15. Whole(t) BY <1>3, <1>11, <1>12, WholeFrame DEF Core
<1>16. Flow(t) /\ Count(t) BY <1>3, <1>12, FlowFrame DEF Core
<1>17. Source(t) BY <1>3, <1>9, <1>11, SourceFrame DEF SameCounts
<1>18. Shared(t) BY <1>3, <1>9, SharedFrame DEF SameSource, SameCounts
<1> QED BY <1>13, <1>14, <1>15, <1>16, <1>17, <1>18 DEF Good, Core

\* So does a record that is written, and the next that is started.
LEMMA RecordWrittenGood ==
  ASSUME NEW r, NEW t, t = ld', RecordWritten(r), Good(ld), ~ld.dead
  PROVE Good(t)
<1>1. PICK p : p = ld OBVIOUS
<1>2. Good(p) /\ ~p.dead /\ r \in p.writes BY <1>1 DEF RecordWritten
<1>3. Core(p) /\ Count(p) /\ Source(p) /\ Shared(p) BY <1>2 DEF Good
<1>4. PICK q \in Seq(Nat) : q = p.queue BY <1>3 DEF Core, Logger
<1>5. PICK w : w = p.writes \ {r} OBVIOUS
<1>6. PICK c : c = IF q = <<>> THEN q ELSE Tail(q) OBVIOUS
<1>7. PICK s : s = [p EXCEPT !.writes = w, !.queue = c] OBVIOUS
<1>8. t = IF s.queue = <<>> THEN s ELSE RunQueue(s)
  BY <1>1, <1>4, <1>5, <1>6, <1>7 DEF RecordWritten
<1>9. SameSource(p, s) /\ SameCounts(p, s) BY <1>7 DEF SameSource, SameCounts
<1>10. SameWriter(p, s) BY <1>7 DEF SameWriter
<1>11. /\ SameEnd(p, s) /\ s.rash = p.rash /\ s.opens = p.opens /\ s.fd = p.fd /\ s.queue = c
       /\ s.rejected = p.rejected /\ s.logged = p.logged /\ s.writes = w
       /\ s.closing = p.closing
  BY <1>7 DEF SameEnd
<1>12. /\ p.fd # "none" /\ p.rejected \subseteq p.logged \cup Rows(q) /\ p.rejected \subseteq Row
       /\ q # <<>> => Head(q) \in p.logged \cup {0}
  BY <1>2, <1>3, <1>4 DEF Core, Logger, Kept
<1>13. /\ q # <<>> => /\ Rows(q) = {Head(q)} \cup Rows(c) /\ Len(q) \in Nat /\ Len(c) = Len(q) - 1
                      /\ \A i \in 1..Len(c) : c[i] = q[i + 1] /\ i + 1 \in 1..Len(q)
       /\ c \in Seq(Nat)
  BY <1>6, RowsTail
<1>14. p.rejected \subseteq p.logged \cup Rows(c)
  <2>1. CASE q = <<>> BY <1>6, <1>12, <2>1
  <2>2. CASE q # <<>> BY <1>12, <1>13, <2>2 DEF Row
  <2> QED BY <2>1, <2>2
<1>15. ~p.rash => Log(p) /\ Phase(p) BY <1>3 DEF Core, Logger, Stage
<1>16. ASSUME ~p.rash
       PROVE /\ q # <<>> /\ Head(q) # 0 /\ w = {} /\ p.opens = 0
             /\ p.logged \subseteq p.rejected /\ Rows(c) \subseteq p.rejected \cup {0}
  <2>1. /\ p.writes = IF p.fd # "none" /\ q # <<>> /\ Head(q) # 0 THEN {Head(q)} ELSE {}
        /\ Rows(q) \subseteq p.rejected \cup {0} /\ p.logged \subseteq p.rejected
        /\ ~(p.opens > 0)
    BY <1>4, <1>12, <1>15, <1>16 DEF Log
  <2>2. q # <<>> /\ Head(q) # 0 /\ r = Head(q) /\ p.writes = {r} BY <1>2, <2>1
  <2>3. p.opens = 0
    <3>1. p.opens \in Nat BY <1>3 DEF Core, Logger
    <3> QED BY <2>1, <3>1
  <2> QED BY <1>5, <1>13, <2>1, <2>2, <2>3
<1>17. /\ Work(p, t) /\ SameEnd(p, t) /\ t.rash = p.rash /\ t.opens = p.opens /\ t.fd = p.fd /\ t.queue = c
       /\ t.rejected = p.rejected
       /\ c = <<>> \/ Head(c) # 0 => t.closing = p.closing
       /\ c # <<>> /\ Head(c) = 0 => t.closing = p.closing + 1
  <2>1. Work(p, s) BY <1>9, <1>10 DEF Work
  <2>2. CASE c = <<>>
    <3>1. t = s BY <1>8, <1>11, <2>2
    <3> QED BY <1>11, <2>1, <2>2, <3>1
  <2>3. CASE c # <<>>
    <3>1. t = RunQueue(s) BY <1>8, <1>11, <2>3
    <3>2. /\ Work(s, t) /\ SameEnd(s, t) /\ t.rash = s.rash /\ t.opens = s.opens /\ t.fd = s.fd
          /\ t.queue = s.queue /\ t.rejected = s.rejected
          /\ Head(s.queue) = 0 => t.closing = s.closing + 1
          /\ Head(s.queue) # 0 => t.closing = s.closing
      BY <1>11, <2>3, <3>1, RunQueueIs DEF Same, Frame
    <3>3. Work(p, t) BY <2>1, <3>2, WorkTrans
    <3>4. SameEnd(p, t) BY <1>11, <3>2 DEF SameEnd
    <3> QED BY <1>11, <2>3, <3>2, <3>3, <3>4
  <2> QED BY <2>2, <2>3
<1>18. Kept(t) /\ t.closing \in Nat /\ (~t.rash => Log(t))
  <2>1. CASE c = <<>>
    <3>1. t = s BY <1>8, <1>11, <2>1
    <3>2. Kept(s) BY <1>11, <1>12, <1>14, <2>1 DEF Kept
    <3>3. ~s.rash => Log(s)
      <4> SUFFICES ASSUME ~p.rash PROVE Log(s) BY <1>11
      <4>1. ~(0 > 0) /\ 0 <= 1 OBVIOUS
      <4> QED BY <1>11, <1>12, <1>16, <2>1, <4>1 DEF Log
    <3>4. s.closing \in Nat BY <1>3, <1>11 DEF Core, Logger
    <3> QED BY <3>1, <3>2, <3>3, <3>4
  <2>2. CASE c # <<>>
    <3>1. t = RunQueue(s) BY <1>8, <1>11, <2>2
    <3>2. /\ s.closing \in Nat /\ s.opens \in Nat /\ s.queue \in Seq(Nat) /\ s.rejected \subseteq Row
          /\ s.fd # "none" /\ s.rejected \subseteq s.logged \cup Rows(s.queue)
      BY <1>3, <1>11, <1>12, <1>13, <1>14 DEF Core, Logger
    <3>3. ~s.rash => /\ s.opens = 0 /\ s.queue # <<>> /\ s.writes = {} /\ s.logged \subseteq s.rejected
                     /\ Rows(s.queue) \subseteq s.rejected \cup {0}
      BY <1>11, <1>16, <2>2
    <3> QED BY <3>1, <3>2, <3>3, RunQueueKeeps
  <2> QED BY <2>1, <2>2
<1>19. t.ended = p.ended /\ t.finals = p.finals /\ t.ends = p.ends BY <1>17 DEF SameEnd
<1>20. Logger(t) BY <1>3, <1>13, <1>17, <1>18, <1>19 DEF Core, Logger
<1>21. 0 \in Rows(c) => 0 \in Rows(q) BY <1>6, <1>13
<1>22. ~t.rash => Stage(t)
  <2> SUFFICES ASSUME ~p.rash PROVE Stage(t) BY <1>17
  <2>1. Quiet(p) => Quiet(t) BY <1>17, <1>19, QuietFrame
  <2>2. t.outcome = p.outcome BY <1>17 DEF Work, SameWriter
  <2>3. c # <<>> /\ Head(c) = 0 => 0 \in Rows(q) BY <1>13, <1>21, RowsTail
  <2>4. \/ t.closing = p.closing
        \/ t.closing = p.closing + 1 /\ 0 \in Rows(q)
    BY <1>17, <2>3
  <2>5. p.closing \in Nat /\ p.finals \in Nat BY <1>3 DEF Core, Logger
  <2>6. t.closing > 0 => p.closing > 0 \/ 0 \in Rows(q) BY <2>4, <2>5
  <2>7. Over(t) => Over(p) BY <1>4, <1>17, <1>19, <1>21, <2>6 DEF Over
  <2>8. Phase(t)
    <3>1. CASE 0 \notin Rows(q)
      <4>1. t.closing = p.closing /\ 0 \notin Rows(c) BY <1>21, <2>4, <3>1
      <4>2. \/ p.finals = 0 /\ p.closing = 0 /\ Len(p.ends) <= 1
            \/ p.finals = 1 /\ p.closing = 0 /\ p.ends = <<>>
        <5>1. p.queue # <<0>>
          <6>1. Head(<<0>>) = 0 OBVIOUS
          <6> QED BY <1>4, <1>16, <6>1
        <5>2. ASSUME Len(q) > 1, \A i \in 1..Len(q) : q[i] = 0 <=> i = Len(q) PROVE FALSE
          <6>1. Len(q) \in Nat BY LenProperties
          <6>2. Len(q) \in 1..Len(q) BY <5>2, <6>1
          <6>3. q[Len(q)] = 0 BY <5>2, <6>2
          <6> QED BY <3>1, <6>2, <6>3 DEF Rows
        <5> QED BY <1>4, <1>15, <5>1, <5>2 DEF Phase
      <4> QED BY <1>17, <1>19, <4>1, <4>2 DEF Phase
    <3>2. CASE 0 \in Rows(q)
      <4>1. p.queue # <<0>>
        <5>1. Head(<<0>>) = 0 OBVIOUS
        <5> QED BY <1>4, <1>16, <5>1
      <4>2. /\ p.finals = 0 /\ p.closing = 0 /\ p.ends = <<>> /\ p.fd = "file"
            /\ Len(q) > 1 /\ \A i \in 1..Len(q) : q[i] = 0 <=> i = Len(q)
        BY <1>4, <1>15, <3>2, <4>1 DEF Phase
      <4>3. PICK n \in Nat : n = Len(q) BY LenProperties
      <4>4. n > 1 /\ Len(c) = n - 1 /\ n - 1 \in Nat BY <1>13, <1>16, <4>2, <4>3
      <4>5. \A i \in 1..Len(c) : c[i] = 0 <=> i = Len(c)
        <5> SUFFICES ASSUME NEW i \in 1..(n - 1) PROVE c[i] = 0 <=> i = n - 1
          BY <4>4
        <5>1. c[i] = q[i + 1] /\ i + 1 \in 1..n BY <1>13, <1>16, <4>3, <4>4
        <5>2. q[i + 1] = 0 <=> i + 1 = n BY <4>2, <4>3, <5>1
        <5> QED BY <5>1, <5>2
      <4>6. c # <<>> BY <1>13, <4>4, EmptySeq
      <4>7. CASE Len(c) = 1
        <5>1. c[1] = 0 /\ 1 \in 1..Len(c) BY <4>5, <4>7
        <5>2. c = <<0>> /\ Head(c) = 0
          <6>1. \A i \in 1..Len(c) : c[i] = <<0>>[i] BY <4>7, <5>1
          <6>2. Len(<<0>>) = 1 /\ <<0>> \in Seq(Nat) OBVIOUS
          <6>3. c = <<0>> BY <1>13, <4>7, <6>1, <6>2, SeqEqual
          <6> QED BY <6>3
        <5>3. t.closing = 1
          <6>1. t.closing = p.closing + 1 BY <1>17, <4>6, <5>2
          <6> QED BY <4>2, <6>1
        <5>4. t.finals + t.closing = 1 BY <1>19, <4>2, <5>3
        <5> QED BY <1>17, <1>19, <4>2, <5>2, <5>4 DEF Phase
      <4>8. CASE Len(c) # 1
        <5>1. Len(c) > 1 /\ 1 \in 1..Len(c) /\ 1 # Len(c) BY <4>4, <4>8
        <5>2. c[1] # 0 BY <4>5, <5>1
        <5>3. Head(c) = c[1] BY <1>13, <4>6, RowsTail
        <5>4. t.closing = p.closing BY <1>17, <5>2, <5>3
        <5> QED BY <1>17, <1>19, <4>2, <4>5, <5>1, <5>4 DEF Phase
      <4> QED BY <4>7, <4>8
    <3> QED BY <3>1, <3>2
  <2>9. job.atomic /\ (t.finals > 0 \/ t.closing > 0 \/ 0 \in Rows(t.queue)) => t.outcome # "none"
    <3>1. 0 \in Rows(t.queue) => 0 \in Rows(p.queue) BY <1>4, <1>17, <1>21
    <3>2. t.finals = p.finals /\ (t.closing > 0 => p.closing > 0 \/ 0 \in Rows(p.queue))
      BY <1>4, <1>19, <2>6
    <3> QED BY <1>3, <2>2, <3>1, <3>2 DEF Core, Stage
  <2>10. Over(t) => Quiet(t) BY <1>3, <2>1, <2>7 DEF Core, Stage
  <2> QED BY <2>8, <2>9, <2>10 DEF Stage
<1>23. Whole(t) BY <1>3, <1>17, <1>19, WholeFrame DEF Core
<1>24. Flow(t) /\ Count(t) BY <1>3, <1>17, FlowFrame DEF Core
<1>25. Source(t) BY <1>3, <1>17, <1>19, SourceFrame DEF Work, SameCounts
<1>26. Shared(t) BY <1>3, <1>17, SharedFrame DEF Work, SameSource, SameCounts
<1> QED BY <1>20, <1>22, <1>23, <1>24, <1>25, <1>26 DEF Good, Core

-----------------------------------------------------------------------------
(* The theorems.                                                           *)

\* The inductive invariant.
Inv == job \in Jobs /\ Good(ld)

LEMMA JobIs ==
  ASSUME job \in Jobs
  PROVE /\ job \in JobType /\ job.worker < job.workers /\ (job.from = "random" => job.maxRows > 0)
        /\ (job.from = "control" => job.buffers # <<>>)
        /\ MinLead \in Nat /\ Faults \subseteq RowFaults
BY ConstantsAssumption

\* A new job has it.
LEMMA InitGood ==
  ASSUME Init
  PROVE Good(ld)
<1>1. job \in Jobs BY DEF Init
<1>2. /\ job \in JobType /\ job.worker < job.workers /\ (job.from = "random" => job.maxRows > 0)
      /\ (job.from = "control" => job.buffers # <<>>)
  BY <1>1, JobIs
<1>3. PICK s : s = ld OBVIOUS
<1>4. /\ s.running = TRUE /\ s.shutdown = FALSE /\ s.skipping = (job.worker > 0 \/ job.skipRows > 0)
      /\ s.looping = (job.from # "file") /\ s.opening = (job.from = "file")
      /\ s.reads = 0 /\ s.atBuffer = (IF job.from = "control" THEN 1 ELSE 0)
      /\ s.lines = IF job.from = "control" THEN job.buffers[1] ELSE <<>>
  BY <1>3 DEF Init, Join, NewDataSource
<1>5. /\ s.processed = 0 /\ s.skipped = 0 /\ s.complete = 0 /\ s.ended = FALSE /\ s.finals = 0
  BY <1>3 DEF Init, Join, NewDataSource, NewController
<1>6. /\ s.batch = <<>> /\ s.flights = <<>> /\ s.answering = <<>> /\ s.aborted = FALSE
      /\ s.tx = (IF job.atomic THEN "active" ELSE "idle") /\ s.ends = <<>> /\ s.outcome = "none"
  BY <1>3 DEF Init, Join, NewDataSource, NewController, NewWriter
<1>7. s.fd = "none" /\ s.opens = 0 /\ s.queue = <<>> /\ s.writes = {} /\ s.closing = 0
  BY <1>3 DEF Init, Join, NewDataSource, NewController, NewWriter, NewLogger
<1>8. s.loaded = {} /\ s.rejected = {} /\ s.logged = {} /\ s.lost = {} /\ s.dead = FALSE /\ s.rash = FALSE
  BY <1>3 DEF Init, Join, NewDataSource, NewController, NewWriter, NewLogger, History
<1>9. Rows(<<>>) = {} /\ Len(<<>>) = 0 BY DEF Rows
<1>10. SentBy(s) = {} /\ Waiting(s) = {} /\ Out(s) = {} BY <1>6, <1>8, <1>9 DEF SentBy, Waiting, Out
<1>11. <<>> \in Seq(Row) /\ <<>> \in Seq(Seq(Row)) /\ <<>> \in Seq(Nat) /\ <<>> \in Seq({"commit", "rollback"})
  OBVIOUS
<1>12. Flow(s)
  <2>1. Rising(<<>>) /\ Before(<<>>, <<>>) BY <1>9 DEF Rising, Before
  <2>2. 0 \in Nat OBVIOUS
  <2> QED BY <1>5, <1>6, <1>8, <1>9, <1>10, <1>11, <2>1, <2>2 DEF Flow
<1>13. Count(s)
  <2>1. Cardinality({}) = 0 BY FS_EmptySet
  <2>2. Left(s) = 0 BY <1>5 DEF Left
  <2> QED BY <1>10, <2>1, <2>2 DEF Count
<1>14. Logger(s)
  <2>1. Kept(s) BY <1>7, <1>8 DEF Kept
  <2>2. Log(s) BY <1>7, <1>8, <1>9 DEF Log
  <2> QED BY <1>5, <1>6, <1>7, <1>8, <1>11, <2>1, <2>2 DEF Logger
<1>15. Whole(s) BY <1>6, <1>8, <1>9 DEF Whole
<1>16. ~Over(s) BY <1>5, <1>6, <1>7, <1>9 DEF Over
<1>17. Stage(s)
  <2>1. Phase(s) BY <1>5, <1>6, <1>7, <1>9 DEF Phase
  <2> QED BY <1>16, <2>1 DEF Stage, Over
<1>18. Source(s)
  <2>1. job.buffers \in Seq(Seq(Lines)) BY <1>2 DEF JobType
  <2>2. s.lines \in Seq(Lines) /\ s.atBuffer \in 0..Len(job.buffers)
    <3>1. CASE job.from = "control"
      <4>1. Len(job.buffers) \in Nat /\ 1 \in 1..Len(job.buffers)
        BY <1>2, <2>1, <3>1, EmptySeq, LenProperties
      <4>2. job.buffers[1] \in Seq(Lines) BY <2>1, <4>1, ElementOfSeq
      <4> QED BY <1>4, <3>1, <4>1, <4>2
    <3>2. CASE job.from # "control"
      <4>1. Len(job.buffers) \in Nat BY <2>1, LenProperties
      <4>2. <<>> \in Seq(Lines) OBVIOUS
      <4> QED BY <1>4, <3>2, <4>1, <4>2
    <3> QED BY <3>1, <3>2
  <2>3. 0 \in Nat /\ 0 <= 1 /\ ~(0 > 0) OBVIOUS
  <2>4. s.reads \in Nat /\ s.reads <= 1 BY <1>4, <2>3
  <2>5. ~s.shutdown /\ ~s.ended /\ s.running /\ ~s.rash BY <1>4, <1>5, <1>8
  <2>6. s.opening => ~s.looping /\ s.reads = 0 /\ s.processed = 0 BY <1>4, <1>5
  <2> QED BY <2>2, <2>4, <2>5, <2>6 DEF Source
<1>19. Shared(s)
  <2>1. job.workers \in Nat \ {0} /\ job.worker \in Nat /\ job.skipRows \in Nat /\ job.maxRows \in Nat
    BY <1>2 DEF JobType
  <2>2. s.loaded = {r \in 1..s.processed : Mine(r)} BY <1>5, <1>8
  <2>3. s.skipping <=> ~Mine(s.processed + 1)
    <3>1. Mine(1) <=> job.skipRows = 0 /\ job.worker = 0
      <4>1. 0 % job.workers = 0 BY <2>1
      <4>2. (1 - 1) % job.workers = 0 BY <4>1
      <4>3. 1 > job.skipRows <=> job.skipRows = 0 BY <2>1
      <4> QED BY <4>2, <4>3 DEF Mine
    <3>2. s.processed + 1 = 1 BY <1>5
    <3>3. s.skipping <=> job.worker # 0 \/ job.skipRows # 0
      <4>1. job.worker > 0 <=> job.worker # 0 BY <2>1
      <4>2. job.skipRows > 0 <=> job.skipRows # 0 BY <2>1
      <4>3. s.skipping <=> job.worker > 0 \/ job.skipRows > 0 BY <1>4
      <4> QED BY <4>1, <4>2, <4>3
    <3> QED BY <3>1, <3>2, <3>3
  <2>4. Limit \in Nat BY <2>1 DEF Limit
  <2>5. Limit > 0 => s.processed <= Limit /\ s.processed # Limit BY <1>5, <2>4
  <2> QED BY <1>5, <2>1, <2>2, <2>3, <2>5 DEF Shared
<1> QED BY <1>3, <1>12, <1>13, <1>14, <1>15, <1>17, <1>18, <1>19 DEF Good, Core

LEMMA NextGood ==
  ASSUME Inv, Next, NEW t, t = ld'
  PROVE Good(t)
<1>1. job \in JobType /\ job.worker < job.workers /\ Faults \subseteq RowFaults BY JobIs DEF Inv
<1>2. Good(ld) /\ ~ld.dead BY DEF Inv, Next, System, Timer
<1>3. CASE LoopStep BY <1>1, <1>2, <1>3, LoopStepGood
<1>4. CASE LoopEnds BY <1>2, <1>4, LoopEndsGood
<1>5. CASE Callback
  <2>1. ~ld.looping BY <1>5 DEF Callback
  <2>2. PICK said \in RowFaults \cup {"stored"} : RowCallback(said) BY <1>1, <1>5 DEF Callback
  <2> QED BY <1>2, <2>1, <2>2, RowCallbackGood
<1>6. CASE Turn
  <2>1. ~ld.looping /\ ld.answering = <<>> BY <1>6 DEF Turn
  <2>2. CASE BatchAnswered BY <1>2, <2>1, <2>2, BatchAnsweredGood
  <2>3. CASE BadFileClosed BY <1>2, <2>3, BadFileClosedGood
  <2>4. ASSUME NEW ok \in BOOLEAN, FileOpened(ok) PROVE Good(t) BY <1>2, <2>4, FileOpenedGood
  <2>5. ASSUME NEW ok \in BOOLEAN, ReadReturns(ok) PROVE Good(t)
    BY <1>1, <1>2, <2>1, <2>5, ReadReturnsGood
  <2>6. ASSUME NEW ok \in BOOLEAN, TransactionEnds(ok) PROVE Good(t)
    BY <1>2, <2>1, <2>6, TransactionEndsGood
  <2>7. ASSUME NEW ok \in BOOLEAN, BadFileOpened(ok) PROVE Good(t) BY <1>2, <2>7, BadFileOpenedGood
  <2>8. ASSUME NEW r \in ld.writes, RecordWritten(r) PROVE Good(t) BY <1>2, <2>8, RecordWrittenGood
  <2> QED BY <1>6, <2>2, <2>3, <2>4, <2>5, <2>6, <2>7, <2>8 DEF Turn
<1>7. CASE Tick BY <1>2, <1>7, TickGood
<1> QED BY <1>3, <1>4, <1>5, <1>6, <1>7 DEF Next, System, Timer

\* The invariant of a job says nothing but of the job and of the state.
LEMMA GoodPrimed ==
  ASSUME job' = job, NEW t, t = ld', Good(t)
  PROVE Good(ld)'
<1>1. Flow(ld)' BY DEF Good, Core
<1>2. Source(ld)' BY DEF Good, Source
<1>3. Shared(ld)' BY DEF Good, Shared, Limit, Mine
<1>4. Logger(ld)'
  <2>1. Kept(ld)' BY DEF Good, Core, Logger
  <2>2. (~ld.rash => Log(ld))' BY DEF Good, Core, Logger, Log
  <2> QED BY <2>1, <2>2 DEF Good, Core, Logger
<1>5. Whole(ld)' BY DEF Good, Core, Whole
<1>6. (~ld.rash => Stage(ld))' BY DEF Good, Core, Stage
<1>7. (~ld.dead => Count(ld))' BY DEF Good
<1> QED BY <1>1, <1>2, <1>3, <1>4, <1>5, <1>6, <1>7 DEF Good, Core

LEMMA StepKeepsInv ==
  ASSUME Inv, [Next]_vars
  PROVE Inv'
<1>1. CASE Next
  <2>1. job' = job BY <1>1 DEF Next, System, Timer
  <2>2. PICK t : t = ld' OBVIOUS
  <2>3. Good(t) BY <1>1, <2>2, NextGood
  <2>4. Good(ld)' BY <2>1, <2>2, <2>3, GoodPrimed
  <2> QED BY <2>1, <2>4 DEF Inv
<1>2. CASE UNCHANGED vars
  <2>1. job' = job /\ ld' = ld BY <1>2 DEF vars
  <2>2. PICK t : t = ld' OBVIOUS
  <2>3. Good(t) BY <2>1, <2>2 DEF Inv
  <2>4. Good(ld)' BY <2>1, <2>2, <2>3, GoodPrimed
  <2> QED BY <2>1, <2>4 DEF Inv
<1> QED BY <1>1, <1>2

\* The invariant of the jobs is inductive: every turn of the event loop, with all the
\* calls between source, controller, writer and logger it makes, keeps it (DataSource.js,
\* Controller.js, DbWriter.js, BadRecordLogger.js).
THEOREM Invariance == Spec => []Inv
<1>1. Init => Inv BY InitGood DEF Inv, Init
<1>2. Inv /\ [Next]_vars => Inv' BY StepKeepsInv
<1> QED BY <1>1, <1>2, PTL DEF Spec

\* The workers of a job share its rows: a row is loaded if it is this worker's turn,
\* the rows outstanding are those in the batch, on their way, answered or lost, and
\* the limit is kept, for every job and every lead (skip in dsNewItem and
\* dsDiscardedItem, the counts of Controller.js).
THEOREM Sharing == Spec => []RowsAreShared
<1>1. Inv => RowsAreShared
  <2> SUFFICES ASSUME Inv PROVE RowsAreShared
    OBVIOUS
  <2>1. Core(ld) /\ Shared(ld) /\ (~ld.dead => Count(ld)) BY DEF Inv, Good
  <2>2. job.skipRows \in Nat /\ job \in JobType BY JobIs DEF Inv, JobType
  <2>3. ld.loaded = {r \in 1..ld.processed : r > job.skipRows /\ (r - 1) % job.workers = job.worker}
    BY <2>1 DEF Shared, Mine
  <2>4. Out(ld) = Rows(ld.batch) \cup Sent \cup Rows(ld.answering) \cup ld.lost
    BY DEF Out, Waiting, SentBy, Sent
  <2>5. ~ld.dead => Left(ld) = Cardinality(Rows(ld.batch) \cup Sent \cup Rows(ld.answering) \cup ld.lost)
    BY <2>1, <2>4 DEF Count
  <2>6. Limit > 0 => ld.processed <= Limit BY <2>1 DEF Shared
  <2> QED BY <2>3, <2>5, <2>6 DEF RowsAreShared
<1> QED BY <1>1, Invariance, PTL

\* The final callback comes once, when no row is outstanding and the transaction is
\* over, and a bad file that is closed has every row that failed, however many rows
\* and faults there are (the shutdown sequence of Controller.js:134).
THEOREM Ending == Spec => []TheEndIsTheEnd
<1>1. Inv => TheEndIsTheEnd
  <2> SUFFICES ASSUME Inv, ~ld.rash PROVE
         /\ ld.finals + ld.closing + Len(ld.ends) <= 1
         /\ ld.finals > 0 => /\ Left(ld) = 0 /\ ld.batch = <<>> /\ ld.flights = <<>> /\ ld.lost = {}
                             /\ job.atomic => ld.outcome # "none"
         /\ ld.closing > 0 => ld.logged = ld.rejected
    BY DEF TheEndIsTheEnd
  <2>1. Logger(ld) /\ Stage(ld) /\ Log(ld) /\ Kept(ld) BY DEF Inv, Good, Core, Logger
  <2>2. PICK e \in Seq({"commit", "rollback"}) : e = ld.ends BY <2>1 DEF Logger
  <2>3. Len(e) \in Nat /\ (e = <<>> => Len(e) = 0) BY LenProperties
  <2>4. PICK f \in Nat : f = ld.finals BY <2>1 DEF Logger
  <2>5. PICK c \in Nat : c = ld.closing BY <2>1 DEF Logger
  <2>6. \/ f = 0 /\ c = 0 /\ Len(e) <= 1
        \/ f + c = 1 /\ e = <<>> /\ ld.queue = <<0>>
        \/ f = 1 /\ c = 0 /\ e = <<>>
    <3>1. Phase(ld) BY <2>1 DEF Stage
    <3>2. CASE ld.finals = 0 /\ ld.closing = 0 /\ Len(ld.ends) <= 1 BY <2>2, <2>4, <2>5, <3>2
    <3>3. CASE ld.finals = 0 /\ ld.closing = 0 /\ ld.ends = <<>> BY <2>2, <2>3, <2>4, <2>5, <3>3
    <3>4. CASE ld.finals + ld.closing = 1 /\ ld.ends = <<>> /\ ld.queue = <<0>>
      BY <2>2, <2>4, <2>5, <3>4
    <3>5. CASE ld.finals = 1 /\ ld.closing = 0 /\ ld.ends = <<>> BY <2>2, <2>4, <2>5, <3>5
    <3> QED BY <3>1, <3>2, <3>3, <3>4, <3>5 DEF Phase
  <2>7. f + c + Len(e) <= 1 BY <2>3, <2>6
  <2>8. f > 0 => Quiet(ld) /\ (job.atomic => ld.outcome # "none")
    BY <2>1, <2>4 DEF Stage, Over
  <2>9. ASSUME c > 0 PROVE ld.logged = ld.rejected
    <3>1. ld.queue = <<0>> BY <2>6, <2>9
    <3>2. Rows(<<0>>) = {0}
      <4>1. Len(<<0>>) = 1 /\ <<0>>[1] = 0 OBVIOUS
      <4>2. 1..1 = {1} OBVIOUS
      <4> QED BY <4>1, <4>2 DEF Rows
    <3>3. ld.rejected \subseteq ld.logged \cup {0} /\ ld.rejected \subseteq Row
      BY <2>1, <3>1, <3>2 DEF Logger, Kept
    <3>4. ld.logged \subseteq ld.rejected BY <2>1 DEF Log
    <3> QED BY <3>3, <3>4 DEF Row
  <2> QED BY <2>2, <2>4, <2>5, <2>7, <2>8, <2>9 DEF Quiet
<1> QED BY <1>1, Invariance, PTL

\* A job in one transaction is all or nothing, and a row that fails is in the queue of
\* the logger or has been written, for every job (beginAtomic at DbWriter.js:80, and the
\* answers of the operations at DbWriter.js:110).
THEOREM Remembering == Spec => []NoRowIsForgotten
<1>1. Inv => NoRowIsForgotten
  <2> SUFFICES ASSUME Inv PROVE AllOrNothing /\ RejectsAreKept
    BY DEF NoRowIsForgotten
  <2>1. Flow(ld) /\ Whole(ld) /\ Kept(ld) BY DEF Inv, Good, Core, Logger
  <2>2. RejectsAreKept BY <2>1 DEF RejectsAreKept, Kept
  <2>3. ASSUME ~ld.rash, ld.outcome = "committed"
        PROVE ld.rejected = {} /\ ld.lost = {} /\ ld.complete = ld.processed - ld.skipped /\ ld.ended
    <3>1. Quiet(ld) /\ ld.rejected = {} BY <2>1, <2>3 DEF Whole
    <3>2. ld.complete \in Nat /\ ld.processed \in Nat /\ ld.skipped \in Nat BY <2>1 DEF Flow
    <3>3. ld.processed - (ld.complete + ld.skipped) = 0 BY <3>1 DEF Quiet, Left
    <3>4. ld.complete = ld.processed - ld.skipped BY <3>2, <3>3
    <3> QED BY <3>1, <3>4 DEF Quiet
  <2> QED BY <2>2, <2>3 DEF AllOrNothing
<1> QED BY <1>1, Invariance, PTL
=============================================================================
