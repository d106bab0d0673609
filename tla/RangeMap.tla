------------------------------ MODULE RangeMap ------------------------------
(***************************************************************************)
(* RangeMap (sfu/utils/rangemap.go): which offset belongs to which key, as *)
(* closed ranges of keys followed by one open range.  Keys between two     *)
(* ranges are excluded.  The keys are extended (64 bit) sequence numbers,  *)
(* which do not wrap; offsets wrap in the code and are integers here.      *)
(***************************************************************************)
EXTENDS Integers, Sequences, SequencesExt

Found(v) == [err |-> "none", v |-> v]
Missed(e) == [err |-> e, v |-> 0]

(* initRanges                                                               *)
Fresh(start, val) == <<[start |-> start, end |-> 0, value |-> val]>>

(* At most size closed ranges and the open one are kept.                    *)
(* pruneNever is a form without the limit.                                  *)
pruneNever(r, size) == r
prune(r, size) == IF Len(r) > size + 1 THEN SubSeq(r, Len(r) - size, Len(r)) ELSE r

(* The open range closed at end, and a new one from start.                  *)
Closed(r, end, start, val, size) ==
  prune(Append([r EXCEPT ![Len(r)].end = end], [start |-> start, end |-> 0, value |-> val]), size)

DecValue(r, end, dec, size) ==
  LET lr == Last(r)
  IN  IF lr.start > end THEN [r EXCEPT ![Len(r)].value = @ - dec]
                        ELSE Closed(r, end, end + 1, lr.value - dec, size)

CanExclude(r, start, end) == start < end /\ Last(r).start <= start
(* A form of ExcludeRange that counts one key.                              *)
ExcludeOne(r, start, end, size) ==
  IF ~CanExclude(r, start, end) THEN r
  ELSE IF Last(r).start = start THEN [r EXCEPT ![Len(r)] = [start |-> end, end |-> 0, value |-> @.value + 1]]
  ELSE Closed(r, start - 1, end, Last(r).value + 1, size)
(* [start, end) is excluded; r is unchanged where the code returns an error. *)
ExcludeRange(r, start, end, size) ==
  LET lr == Last(r)
      val == lr.value + (end - start)
  IN  CASE ~CanExclude(r, start, end) -> r
        [] CanExclude(r, start, end) /\ lr.start = start ->
             [r EXCEPT ![Len(r)] = [start |-> end, end |-> 0, value |-> val]]
        [] OTHER -> Closed(r, start - 1, end, val, size)

GetValue(r, key) ==
  LET In == {i \in 1..(Len(r) - 1) : r[i].start <= key /\ key <= r[i].end}
  IN  CASE key >= Last(r).start -> Found(Last(r).value)
        [] key < r[1].start -> Missed("too old")
        [] key >= r[1].start /\ key < Last(r).start /\ In # {} -> Found(r[CHOOSE i \in In : TRUE].value)
        [] OTHER -> Missed("excluded")
=============================================================================
