---------------------------- MODULE JsonlEventSink ----------------------------
(***************************************************************************)
(* JsonlEventSink of fusecraft-core/src/events/mod.rs: lines written under  *)
(* a mutex through a BufWriter to a file.                                  *)
(*                                                                         *)
(* A sink is a record: buf, what the BufWriter holds; disk, the file; ok,   *)
(* whether the last write or flush succeeded; failures, how many did not,   *)
(* up to MaxFailures.  Both hold pieces: the number of an event for its     *)
(* JSON text, 0 for a newline.  writeln! writes the two one after the other *)
(* and stops at the first error.  Since the disk may fail at any time, an   *)
(* operation is the set of the sinks it can lead to.                        *)
(***************************************************************************)
EXTENDS Naturals, SequencesExt

CONSTANTS BufCapacity,  \* pieces that fit in the BufWriter
          MaxFailures   \* bound: writes that fail

ASSUME SinkConstants == BufCapacity \in Nat \ {0} /\ MaxFailures \in Nat

Newline == 0

\* File::create: the file exists and is empty, whatever was in it.
create == [buf |-> <<>>, disk |-> <<>>, ok |-> TRUE, failures |-> 0]

\* External: BufWriter::flush_buf.  A write that fails may have written part of
\* the buffer; the rest stays in it.
FlushBuf(s) ==
  {[s EXCEPT !.buf = <<>>, !.disk = @ \o s.buf, !.ok = TRUE]} \cup
  {[s EXCEPT !.buf = SubSeq(@, n + 1, Len(@)), !.disk = @ \o SubSeq(s.buf, 1, n),
             !.ok = FALSE, !.failures = @ + 1]
     : n \in IF s.failures < MaxFailures THEN 0 .. Len(s.buf) - 1 ELSE {}}

\* External: BufWriter::write_all, which makes room first and gives up the piece
\* when it cannot.
WriteAll(s, piece) ==
  {IF f.ok THEN [f EXCEPT !.buf = Append(@, piece)] ELSE f
     : f \in IF Len(s.buf) < BufCapacity THEN {[s EXCEPT !.ok = TRUE]} ELSE FlushBuf(s)}

\* Mutant: the newline is written first.
emit_newline_first(s, event) ==
  UNION {IF w.ok THEN WriteAll(w, event) ELSE {w} : w \in WriteAll(s, Newline)}

emit(s, event) ==
  UNION {IF w.ok THEN WriteAll(w, Newline) ELSE {w} : w \in WriteAll(s, event)}

flush(s) == FlushBuf(s)

\* The file when the events 1 to n are all in it.
Lines(n) == [k \in 1 .. 2 * n |-> IF k % 2 = 1 THEN (k + 1) \div 2 ELSE Newline]
=============================================================================
