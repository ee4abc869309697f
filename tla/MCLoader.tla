------------------------------ MODULE MCLoader ------------------------------
(***************************************************************************)
(* Jobs with random data and with files of up to three buffers, alone or   *)
(* as one of two workers, in one transaction or not, with and without a    *)
(* bad file; and a file whose plugin parses no row, which dies.            *)
(***************************************************************************)
EXTENDS Loader

Base == [from |-> "random", buffers |-> <<>>, header |-> FALSE, atomic |-> FALSE, badfile |-> FALSE,
         maxRows |-> 5, skipRows |-> 0, workers |-> 1, worker |-> 0, picky |-> FALSE,
         parses |-> TRUE]
File(b) == [Base EXCEPT !.from = "file", !.maxRows = 0, !.buffers = b]
Atomic(j) == [j EXCEPT !.atomic = TRUE, !.badfile = TRUE]

MCJobs ==
  { Base, Atomic([Base EXCEPT !.maxRows = 4]), [Base EXCEPT !.picky = TRUE, !.maxRows = 4],
    [Base EXCEPT !.skipRows = 1, !.maxRows = 4],
    [Base EXCEPT !.workers = 2, !.worker = 1],
    [Base EXCEPT !.workers = 2, !.skipRows = 1, !.maxRows = 4],
    [File(<<<<"row", "row">>, <<"row", "row">>>>) EXCEPT !.badfile = TRUE],
    Atomic(File(<<<<"row">>, <<"row", "row", "row">>>>)),
    [File(<<<<"row", "row", "row", "row">>, <<"row">>>>) EXCEPT !.atomic = TRUE],
    [File(<<<<"bare", "row", "row">>, <<"row", "bare">>, <<"row">>>>) EXCEPT !.header = TRUE],
    [File(<<<<"row", "bare", "row", "row">>>>) EXCEPT !.from = "control", !.maxRows = 2],
    [File(<<<<"row", "row">>, <<"row", "row">>>>) EXCEPT !.workers = 2, !.skipRows = 2, !.badfile = TRUE],
    [File(<<<<"bare", "row">>>>) EXCEPT !.picky = TRUE, !.parses = FALSE],
    File(<<<<"row", "partial">>, <<"row">>>>) }
=============================================================================
