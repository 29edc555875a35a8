--------------------------- MODULE CallbackQueue ----------------------------
(***************************************************************************)
(* What SingleThreadedSchedulerClient promises (scheduler.h, the comments  *)
(* of the class and of AddToProcessQueue): callbacks run one at a time, in *)
(* the order in which they were added, and each of them is run.  Callbacks *)
(* are numbered in the order in which they are added.                      *)
(***************************************************************************)
EXTENDS Integers, Sequences

VARIABLES pending,   \* the callbacks that wait, oldest first
          current,   \* the callback that runs, or 0
          added      \* the number of callbacks added so far

vars == <<pending, current, added>>

Init == pending = <<>> /\ current = 0 /\ added = 0

Add ==
    /\ added' = added + 1
    /\ pending' = Append(pending, added + 1)
    /\ UNCHANGED current

Begin ==
    /\ current = 0 /\ pending # <<>>
    /\ current' = Head(pending)
    /\ pending' = Tail(pending)
    /\ UNCHANGED added

End == current # 0 /\ current' = 0 /\ UNCHANGED <<pending, added>>

Next == Add \/ Begin \/ End

Spec == Init /\ [][Next]_vars /\ WF_vars(Begin) /\ WF_vars(End)
=============================================================================
