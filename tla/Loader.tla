------------------------------- MODULE Loader -------------------------------
(***************************************************************************)
(* A job of the bulk loader: the data source (DataSource.js) hands rows to *)
(* the controller (Controller.js), which skips them or gives them to the   *)
(* writer (DbWriter.js), which stores them in batches of a session; rows   *)
(* that fail go to the bad file (BadRecordLogger.js).                      *)
(*                                                                         *)
(* The calls between these four are synchronous, so each is an operator    *)
(* from a state of the job to the next, and an action is a turn of the     *)
(* event loop.  The run loop of the source and the callbacks of a batch    *)
(* are taken a row at a time, with nothing else in between.                *)
(***************************************************************************)
EXTENDS Integers, Sequences, FiniteSets

CONSTANTS
  Jobs,      \* the jobs (LoaderJob.js): see JobType
  MaxLead,   \* maxLead of the controller, 2000 in the code
  MinLead,   \* minLead, 1000 in the code
  MaxTicks,  \* bound on the ticks of the interval timer
  Faults     \* how a stored row may fail: a subset of RowFaults

\* What the session may say of a row: stored, a hard error, a table that is
\* full (InsufficientSpace), a TemporaryError.
RowFaults == {"hard", "full", "temporary"}
\* A line of the file: with fields, without (blank or comment), or the head of a
\* line that continues in the next buffer.
Lines == {"row", "bare", "partial"}

\* LoaderJob: from is the kind of data source, buffers what its reads return; the
\* plugin may refuse rows (picky), and gives the records of a file their rows (parses).
JobType ==
  [from : {"random", "file", "control"}, buffers : Seq(Seq(Lines)), header : BOOLEAN,
   atomic : BOOLEAN, badfile : BOOLEAN, maxRows : Nat, skipRows : Nat,
   workers : Nat \ {0}, worker : Nat, picky : BOOLEAN,
   parses : BOOLEAN]

ASSUME ConstantsAssumption ==
  /\ MaxLead \in Nat /\ MinLead \in Nat /\ MinLead <= MaxLead /\ MaxTicks \in Nat
  /\ Faults \subseteq RowFaults
  /\ \A j \in Jobs : j \in JobType /\ j.worker < j.workers /\ (j.from = "random" => j.maxRows > 0)
                     /\ (j.from = "control" => j.buffers # <<>>)

VARIABLES
  job,   \* the job that is run
  ld     \* its state, a record: see NewDataSource and what follows it

vars == <<job, ld>>

\* The data source: is it running, told to shut down, skipping, in its run loop?  The
\* file is being opened, or the rest of the control file is the first buffer.
NewDataSource(j) == [
  running |-> TRUE, shutdown |-> FALSE, skipping |-> j.worker > 0 \/ j.skipRows > 0,
  looping |-> j.from # "file", nested |-> FALSE, header |-> j.header,
  opening |-> j.from = "file", reads |-> 0, atBuffer |-> IF j.from = "control" THEN 1 ELSE 0,
  lines |-> IF j.from = "control" THEN j.buffers[1] ELSE <<>>]

NewController == [
  processed |-> 0, skipped |-> 0, complete |-> 0, errors |-> 0, ended |-> FALSE,
  fatal |-> FALSE, ticker |-> FALSE, ticks |-> 0, finals |-> 0]

\* The writer: the batch, the batches sent, the rows being called back, Fibonacci.
NewWriter(j) == [
  batch |-> <<>>, flights |-> <<>>, answering |-> <<>>, fib |-> <<0, 0, 1>>, up |-> TRUE,
  ops |-> 0, prior |-> 0, aborted |-> FALSE,
  tx |-> IF j.atomic THEN "active" ELSE "idle", ends |-> <<>>, outcome |-> "none"]

\* The logger of bad records: 0 is CLOSE in its queue.
NewLogger == [fd |-> "none", opens |-> 0, queue |-> <<>>, writes |-> {}, closing |-> 0]

History == [loaded |-> {}, rejected |-> {}, logged |-> {}, lost |-> {}, dead |-> FALSE, rash |-> FALSE]

\* One record with the fields of two.
Join(f, g) == [x \in DOMAIN f \cup DOMAIN g |-> IF x \in DOMAIN f THEN f[x] ELSE g[x]]

\* new Controller(job, session, finalCallback) and run().
Init ==
  /\ job \in Jobs
  /\ ld = Join(NewDataSource(job),
             Join(NewController, Join(NewWriter(job), Join(NewLogger, History))))

Lead(s) == s.processed - s.complete
Left(s) == s.processed - (s.complete + s.skipped)
IsPaused(s) == ~s.running /\ ~s.shutdown
\* maxRows counts the rows that are skipped at the start too.
Limit == IF job.skipRows > 0 /\ job.maxRows > 0 THEN job.maxRows + job.skipRows ELSE job.maxRows

\* An exception in a callback that nobody catches, or a loop without end.
Dies(s) == [s EXCEPT !.dead = TRUE]

-----------------------------------------------------------------------------
(* The logger of bad records.                                              *)

\* The runQueue that starts to write, or to close, the head of the queue.
RunQueue(s) ==
  IF s.queue = <<>> THEN Dies(s)
  ELSE IF Head(s.queue) = 0 THEN [s EXCEPT !.closing = @ + 1]
  ELSE [s EXCEPT !.writes = @ \cup {Head(s.queue)}, !.logged = @ \cup {Head(s.queue)}]

\* prototype.runQueue: only the first in the queue has to be started.
RunIfFirst(s) == IF Len(s.queue) = 1 THEN RunQueue(s) ELSE s

\* Mutant: what fails while the file is being opened
\* is not queued.
LogRecord_WhenOpen(s, r) ==
  IF s.opens > 0 THEN s
  ELSE IF s.fd # "none" THEN RunIfFirst([s EXCEPT !.queue = Append(@, r)])
  ELSE [s EXCEPT !.queue = Append(@, r), !.opens = @ + 1]

\* logRecord.  A second record that fails while the bad file is being opened opens it
\* again.
LogRecord(s, r) ==
  LET t == [s EXCEPT !.queue = Append(@, r), !.rash = @ \/ s.opens > 0] IN
  IF s.fd # "none" THEN RunIfFirst(t)
  ELSE IF ~job.badfile THEN RunQueue([t EXCEPT !.fd = "stderr"])
  ELSE [t EXCEPT !.opens = @ + 1]

\* loggerFinished: the plugin's onFinished calls back, finished() ends the ticks.
LoggerFinished(s) == [s EXCEPT !.ticker = FALSE, !.finals = @ + 1]

LoggerEnd(s) ==
  IF s.fd = "file" THEN RunIfFirst([s EXCEPT !.queue = Append(@, 0)]) ELSE LoggerFinished(s)

-----------------------------------------------------------------------------
(* The writer.                                                             *)

ExecuteBatch(s) ==
  IF s.batch = <<>> THEN s ELSE [s EXCEPT !.flights = Append(@, s.batch), !.batch = <<>>]

LoadItem(s, r) ==
  LET t == [s EXCEPT !.batch = Append(@, r)] IN
  IF Len(t.batch) >= s.fib[3] THEN ExecuteBatch(t) ELSE t

SetRollbackOnly(s) == [s EXCEPT !.tx = IF @ = "active" THEN "rollbackOnly" ELSE @]

\* endAtomic.  With no transaction open commit() fails at once, which aborts the
\* loader, which ends the source again, which comes back here, without end.
EndAtomic(s) ==
  IF ~job.atomic THEN LoggerEnd(s)
  ELSE CASE s.tx = "active" -> [s EXCEPT !.ends = Append(@, "commit")]
         [] s.tx = "rollbackOnly" -> [s EXCEPT !.ends = Append(@, "rollback")]
         [] s.tx = "idle" -> Dies(s)

\* BatchManager: the three Fibonacci numbers go up or down.
SizeUp(f) == <<f[2], f[3], f[2] + f[3]>>
SizeDown(f) == IF f[3] > 1 THEN <<f[2] - f[1], f[1], f[2]>> ELSE f

-----------------------------------------------------------------------------
(* The controller.                                                         *)

CommitIfComplete(s) == IF Left(s) = 0 THEN EndAtomic(s) ELSE s

\* Mutant: the end does not wait for the rows.
DsFinished_AtOnce(s, err) ==
  EndAtomic(ExecuteBatch(
    [s EXCEPT !.fatal = @ \/ err, !.rash = @ \/ s.ended, !.ended = TRUE]))

\* Mutant: the rows of the last batch stay there.
DsFinished_KeepsBatch(s, err) ==
  CommitIfComplete([s EXCEPT !.fatal = @ \/ err, !.rash = @ \/ s.ended, !.ended = TRUE])

\* The source has finished: the last batch is sent.
DsFinished(s, err) ==
  CommitIfComplete(ExecuteBatch(
    [s EXCEPT !.fatal = @ \/ err, !.rash = @ \/ s.ended, !.ended = TRUE]))

\* end() of the source: a loop that runs will see it, or nobody.
EndSource(s) ==
  LET t == [s EXCEPT !.shutdown = TRUE, !.running = FALSE] IN
  IF s.running THEN t ELSE DsFinished(t, FALSE)

AtLimit(s) == IF s.processed = Limit THEN EndSource(s) ELSE s

Pause(s) == IF Lead(s) > MaxLead THEN ExecuteBatch([s EXCEPT !.running = FALSE]) ELSE s

\* dsNewItem: keep is what the plugin says of the row.
NewItem(s, keep) ==
  LET r == s.processed + 1
      t == [s EXCEPT !.processed = r, !.loaded = @ \cup {r}]
      u == AtLimit(IF keep THEN LoadItem(t, r) ELSE [t EXCEPT !.skipped = @ + 1])
  IN Pause([u EXCEPT !.skipping = @ \/ job.workers > 1])

\* Mutant: every worker takes its turn too late.
DiscardedItem_Late(s) ==
  LET t == AtLimit([s EXCEPT !.processed = @ + 1, !.skipped = @ + 1]) IN
  [t EXCEPT !.skipping =
     @ /\ ~(t.skipped > job.skipRows /\ t.processed % job.workers = job.worker)]

\* dsDiscardedItem: the row that follows may be one to load.
DiscardedItem(s) ==
  LET t == AtLimit([s EXCEPT !.processed = @ + 1, !.skipped = @ + 1]) IN
  [t EXCEPT !.skipping =
     @ /\ ~(t.skipped >= job.skipRows /\ t.processed % job.workers = job.worker)]

\* The end of loaderRecordComplete.
RecordTail(s) ==
  IF s.ended THEN CommitIfComplete(s) ELSE [s EXCEPT !.ticker = TRUE]

\* runIfReady
Ready(s) == job.from = "random" \/ s.atBuffer > 0

\* loaderRecordComplete.  A source that is resumed runs before this call goes on.
RecordComplete(s, r, failed) ==
  LET t == [s EXCEPT !.complete = @ + 1]
      u == IF failed THEN LogRecord([t EXCEPT !.errors = @ + 1, !.rejected = @ \cup {r}], r) ELSE t
      resume == IsPaused(u) /\ Lead(u) < MinLead
  IN IF ~resume THEN RecordTail(u)
     ELSE IF Ready(u) THEN [u EXCEPT !.running = TRUE, !.looping = TRUE, !.nested = TRUE]
     ELSE RecordTail([u EXCEPT !.running = TRUE])

\* abort, and loaderAborted
Abort(s) ==
  IF s.aborted THEN s
  ELSE EndSource([SetRollbackOnly(s) EXCEPT !.aborted = TRUE, !.fatal = TRUE])

-----------------------------------------------------------------------------
(* The run loop of the source.                                             *)

\* Two reads at a time happen when a source that paused at the end of a buffer is
\* resumed before its read returns.
Read(s) == [s EXCEPT !.reads = @ + 1, !.rash = @ \/ s.reads > 0]

\* A line of the buffer.  The fields of a partial line are scanned up to an end of
\* line that is not there, for ever.  What is scanned does not come into the record
\* (row is never assigned): to store it throws, unless the plugin has parsed it.
Line(s, l, keep) ==
  CASE s.header -> (CASE l = "row" -> [s EXCEPT !.header = FALSE]
                      [] l = "bare" -> s
                      [] l = "partial" -> Dies(s))
    [] ~s.header /\ s.skipping -> DiscardedItem(s)
    [] ~s.header /\ ~s.skipping /\ l = "row" /\ (job.parses \/ ~keep) -> NewItem(s, keep)
    [] ~s.header /\ ~s.skipping /\ l = "row" /\ ~job.parses /\ keep -> Dies(s)
    [] ~s.header /\ ~s.skipping /\ l = "bare" -> s
    [] ~s.header /\ ~s.skipping /\ l = "partial" -> Dies(s)

LoopGoesOn == ld.running /\ (job.from = "random" \/ ld.lines # <<>>)

LoopStep ==
  /\ ld.looping /\ LoopGoesOn
  /\ \E keep \in IF job.picky THEN BOOLEAN ELSE {TRUE} :
       ld' = IF job.from = "random"
             THEN IF ld.skipping THEN DiscardedItem(ld) ELSE NewItem(ld, keep)
             ELSE Line([ld EXCEPT !.lines = Tail(@)], Head(ld.lines), keep)

\* A loop that paused in the middle of a buffer just stops.  A loop that was resumed
\* by a callback returns to it: if it also finished the source, commitIfComplete has
\* been called already.
LoopEnds ==
  /\ ld.looping /\ ~LoopGoesOn
  /\ LET s == [ld EXCEPT !.looping = FALSE, !.nested = FALSE]
         t == IF ld.shutdown THEN DsFinished(s, FALSE)
              ELSE IF job.from # "random" /\ ld.lines = <<>> THEN Read(s) ELSE s
     IN ld' = IF ~ld.nested THEN t
              ELSE RecordTail([t EXCEPT !.rash = @ \/ (t.ended /\ Left(t) = 0)])

FileOpened(ok) ==
  /\ ld.opening
  /\ LET s == [ld EXCEPT !.opening = FALSE] IN ld' = IF ok THEN Read(s) ELSE DsFinished(s, TRUE)

\* onRead.  After an error the source counts as running, or as paused.
ReadReturns(ok) ==
  /\ ld.reads > 0
  /\ LET s == [ld EXCEPT !.reads = @ - 1] IN
     ld' = IF ~ok THEN DsFinished([s EXCEPT !.rash = @ \/ IsPaused(s)], TRUE)
           ELSE IF ld.atBuffer = Len(job.buffers) THEN EndSource([s EXCEPT !.running = FALSE])
           ELSE [s EXCEPT !.atBuffer = @ + 1, !.lines = job.buffers[ld.atBuffer + 1],
                          !.looping = ld.running]

-----------------------------------------------------------------------------
(* What the session calls back.                                            *)

\* The batches are answered in the order they were sent.
BatchAnswered ==
  /\ ld.flights # <<>>
  /\ ld' = [ld EXCEPT !.answering = Head(ld.flights), !.flights = Tail(@)]

\* rowCallback.  "this" is null in it: the retry after a TemporaryError throws.
RowCallback(said) ==
  /\ ld.answering # <<>>
  /\ LET r == Head(ld.answering)
         s == [ld EXCEPT !.answering = Tail(@), !.ops = @ + 1]
     IN ld' = CASE said = "stored" -> RecordComplete(s, r, FALSE)
                [] said = "hard" -> RecordComplete(IF job.atomic THEN SetRollbackOnly(s) ELSE s, r, TRUE)
                [] said = "full" -> Abort([s EXCEPT !.lost = @ \cup {r}])
                [] said = "temporary" -> Dies(s)

\* The callbacks of commit and rollback.
TransactionEnds(ok) ==
  /\ ld.ends # <<>>
  /\ LET s == [ld EXCEPT !.ends = Tail(@), !.tx = "idle"] IN
     ld' = CASE Head(ld.ends) = "commit" /\ ok -> LoggerEnd([s EXCEPT !.outcome = "committed"])
             [] Head(ld.ends) = "commit" /\ ~ok ->
                  EndSource([s EXCEPT !.outcome = "failed", !.fatal = TRUE])
             [] Head(ld.ends) = "rollback" ->
                  LoggerEnd([s EXCEPT !.outcome = "rolledBack", !.fatal = TRUE])

-----------------------------------------------------------------------------
(* Timer and bad file.                                                     *)

\* onTick of the batch manager; the controller ticks at 50 ms.
Tick ==
  /\ ld.ticker /\ ld.ticks < MaxTicks
  /\ LET up == IF ld.ops < ld.prior THEN ~ld.up ELSE ld.up IN
     ld' = [ld EXCEPT !.ticks = @ + 1, !.up = up, !.prior = ld.ops, !.ops = 0,
                      !.fib = IF up THEN SizeUp(@) ELSE SizeDown(@)]

BadFileOpened(ok) ==
  /\ ld.opens > 0
  /\ ld' = RunQueue([ld EXCEPT !.opens = @ - 1, !.fd = IF ok THEN "file" ELSE "stderr"])

RecordWritten(r) ==
  /\ r \in ld.writes
  /\ LET s == [ld EXCEPT !.writes = @ \ {r}, !.queue = IF @ = <<>> THEN @ ELSE Tail(@)] IN
     ld' = IF s.queue = <<>> THEN s ELSE RunQueue(s)

BadFileClosed ==
  /\ ld.closing > 0
  /\ ld' = LoggerFinished([ld EXCEPT !.closing = @ - 1])

-----------------------------------------------------------------------------
\* The loop of the source is run to its end, then the callbacks of the batch, then
\* the event loop turns to what else is there.
Callback == ~ld.looping /\ \E said \in Faults \cup {"stored"} : RowCallback(said)
Turn ==
  /\ ~ld.looping /\ ld.answering = <<>>
  /\ \/ BatchAnswered
     \/ BadFileClosed
     \/ \E ok \in BOOLEAN : \/ FileOpened(ok)
                            \/ ReadReturns(ok)
                            \/ TransactionEnds(ok)
                            \/ BadFileOpened(ok)
     \/ \E r \in ld.writes : RecordWritten(r)
System == ~ld.dead /\ (LoopStep \/ LoopEnds \/ Callback \/ Turn) /\ UNCHANGED job
Timer == ~ld.dead /\ ~ld.looping /\ ld.answering = <<>> /\ Tick /\ UNCHANGED job

Next == System \/ Timer

\* The event loop runs, the files and the session answer.
Spec == Init /\ [][Next]_vars /\ WF_vars(System)

-----------------------------------------------------------------------------
Rows(q) == {q[i] : i \in 1..Len(q)}
Sent == UNION {Rows(ld.flights[i]) : i \in 1..Len(ld.flights)}

\* A job without lines that only some of the workers count.
Plain == \A i \in 1..Len(job.buffers) : Rows(job.buffers[i]) = {"row"}

\* The workers of a job share its rows: this one loads the rows after the skipped
\* ones whose turn it is, and no other, up to the limit; and each row it loads is
\* in the batch, on its way, answered, or refused by the plugin or a full table
\* (skip in dsNewItem and dsDiscardedItem, the counts of Controller.js).
RowsAreShared ==
  /\ Plain => ld.loaded = {r \in 1..ld.processed :
                             r > job.skipRows /\ (r - 1) % job.workers = job.worker}
  /\ ~ld.dead => Left(ld) = Cardinality(Rows(ld.batch) \cup Sent \cup Rows(ld.answering) \cup ld.lost)
  /\ Limit > 0 => ld.processed <= Limit

\* The final callback comes once, when no row is outstanding and the transaction is
\* over; a bad file that is closed has all the rows that failed (the shutdown
\* sequence of Controller.js:134).
TheEndIsTheEnd ==
  ~ld.rash =>
    /\ ld.finals + ld.closing + Len(ld.ends) <= 1
    /\ ld.finals > 0 => /\ Left(ld) = 0 /\ ld.batch = <<>> /\ ld.flights = <<>> /\ ld.lost = {}
                        /\ job.atomic => ld.outcome # "none"
    /\ ld.closing > 0 => ld.logged = ld.rejected

\* A job in one transaction is all or nothing: what was committed had no row that
\* failed, and every row of the source was stored (beginAtomic, DbWriter.js:80).  Not so
\* when it is rash: a source whose read fails while it is paused has finished, but the
\* rows it waits for resume it, and it may load more after the commit.
AllOrNothing ==
  ~ld.rash /\ ld.outcome = "committed" =>
    ld.rejected = {} /\ ld.lost = {} /\ ld.complete = ld.processed - ld.skipped /\ ld.ended

\* A row that fails is in the queue of the logger or has been written.
RejectsAreKept ==
  ~ld.dead => ld.rejected \subseteq ld.logged \cup Rows(ld.queue)

\* No row is lost without a trace: it fails the job, or it goes to the bad file (the
\* answers of the operations in DbWriter.js:110).
NoRowIsForgotten == AllOrNothing /\ RejectsAreKept

\* What keeps a job from its end: an exception, a table that is full, a commit that
\* fails, skipped rows that count as the lead of the source, or what is rash.
Excused ==
  ld.dead \/ ld.lost # {} \/ ld.outcome = "failed" \/ ld.skipped >= MinLead \/ ld.rash

\* Every other job calls its final callback (Controller.finished).
EveryJobFinishes == <>(ld.finals > 0 \/ Excused)
=============================================================================
