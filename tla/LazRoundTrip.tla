----------------------------- MODULE LazRoundTrip -----------------------------
(***************************************************************************)
(* A file written by LASwritePoint, completely or up to a crash, and then  *)
(* read and sought in by LASreadPoint.                                     *)
(***************************************************************************)
EXTENDS LasWritePoint, LasReadPoint

VARIABLE session    \* which of the two has the file open

vars == <<wvars, rvars, session>>

RoundTripInit == WriterInit /\ ReaderInit /\ session = "writing"

Writing == session = "writing" /\ WriterNext /\ UNCHANGED <<rvars, session>>

OpenReader ==
  /\ session = "writing" /\ phase \in {"closed", "crashed"}
  /\ session' = "reading"
  /\ UNCHANGED <<wvars, rvars>>

Reading == session = "reading" /\ ReaderNext /\ UNCHANGED <<wvars, session>>

RoundTripNext == Writing \/ OpenReader \/ Reading

\* The loop in seek() runs on by itself: while points are left to skip, only
\* SkipPoint is enabled, and every turn of it leaves fewer.  The caller may
\* stop anywhere else.
LoopTurns == delta > 0 /\ delta' \in 0 .. delta - 1

RoundTripSpec == RoundTripInit /\ [][RoundTripNext]_vars /\ WF_delta(LoopTurns)

------------------------------------------------------------------------------
(* Refinement *)

\* The points that can be read back: all of a finished file, and of an
\* interrupted one those of the chunks on disk as far as they are intact.
\* Chunks of variable size cannot be told apart without their table.
Readable ==
  IF session = "writing" THEN npoints
  ELSE IF Variable /\ Chunked /\ (phase = "crashed" \/ ~in_seekable) THEN 0
  ELSE IF phase = "closed" THEN npoints
  ELSE IF chunks = <<>> THEN 0
  ELSE chunks[Len(chunks)].first + chunks[Len(chunks)].ok

Store == INSTANCE PointStore WITH
  mode <- session, size <- Readable, index <- p_count, answer <- result

\* Reads and seeks, through chunk boundaries, with the table, without it and
\* with one built while reading, return the points that were written, and
\* nothing else is ever returned (read(), seek(), read_chunk_table()).
ReadsBackWhatWasWritten == Store!Spec

\* A finished file with points in it never refuses a call on a stream that
\* can seek.  (seek() to point 0 of an empty adaptively chunked file fails.)
FinishedFileIsNeverRefused ==
  session = "reading" /\ phase = "closed" /\ in_seekable /\ npoints > 0 => ~failed

\* On a finished file the points that seek() has to skip are all read, in
\* whatever chunks they lie, and it ends at the point that was asked for.
SeekArrives ==
  phase = "closed" /\ delta > 0 ~> delta = 0 /\ p_count = target /\ result.ok
==============================================================================
