------------------------------ MODULE PointStore ------------------------------
(***************************************************************************)
(* What the point block promises its callers: points are appended one by   *)
(* one; once the file is finished, the point with any index can be sought, *)
(* and reading from there yields the points in the order they were written *)
(* in.  If the writer was interrupted, some first points remain, and what  *)
(* is asked beyond them is refused, never answered with something else.    *)
(***************************************************************************)
EXTENDS Integers

VARIABLES
  mode,     \* writing or reading
  size,     \* points in the store
  index,    \* of the point that is read next
  answer    \* to the last call

svars == <<mode, size, index, answer>>

Answer(op, ok, point) == [op |-> op, ok |-> ok, point |-> point]

Init ==
  /\ mode = "writing"
  /\ size = 0
  /\ index = 0
  /\ answer = Answer("open", TRUE, -1)

Append == mode = "writing" /\ size' = size + 1 /\ UNCHANGED <<mode, index, answer>>

Finish(kept) ==
  /\ mode = "writing" /\ kept <= size
  /\ mode' = "reading" /\ size' = kept
  /\ UNCHANGED <<index, answer>>

Read ==
  /\ mode = "reading" /\ index < size
  /\ answer' = Answer("read", TRUE, index)
  /\ index' = index + 1
  /\ UNCHANGED <<mode, size>>

Seek(i) ==
  /\ mode = "reading" /\ i <= size
  /\ answer' = Answer("seek", TRUE, -1)
  /\ index' = i
  /\ UNCHANGED <<mode, size>>

\* Reading past the points that are there, or seeking where it is impossible.
Refuse(op) ==
  /\ mode = "reading"
  /\ op = "read" => index >= size
  /\ answer' = Answer(op, FALSE, -1)
  /\ UNCHANGED <<mode, size, index>>

Next ==
  \/ Append \/ Read
  \/ \E n \in 0 .. size : Finish(n) \/ Seek(n)
  \/ \E op \in {"read", "seek"} : Refuse(op)

Spec == Init /\ [][Next]_svars
==============================================================================
