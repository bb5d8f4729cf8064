--------------------------- MODULE MCBleSession ---------------------------
(* Instances of BleSession for TLC. *)
EXTENDS BleSession, TLC

\* told and resent are outputs: no step reads them, the invariants do not depend
\* on them, and what is said of a step depends on what it tells itself only.
NoOutputs ==
    <<state, cnt, timer, asker, receiver, answered, addFlag, delFlag, bindStatus,
      bindTick, bindSate, bound, scanState, scanTimes, isCheck, errCnt, pwdEcho,
      linkno, fresh, touchuan, due, linked, calls, age, whole, asked, crossed>>

\* Nor does anything about the keys depend on the clocks of the history ...
NoClocks ==
    <<state, cnt, timer, asker, receiver, answered, addFlag, delFlag, bindStatus,
      bindTick, bindSate, bound, scanState, scanTimes, isCheck, errCnt, pwdEcho,
      linkno, fresh, touchuan, due, linked, calls, asked, crossed>>

\* ... nor what happens, or the fairness assumed, on any of the history: with the
\* same values of these variables the same steps are possible.
NoHistory ==
    <<state, cnt, timer, asker, receiver, answered, addFlag, delFlag, bindStatus,
      bindTick, bindSate, bound, scanState, scanTimes, isCheck, errCnt, pwdEcho,
      linkno, fresh, touchuan, due, linked, calls>>

\* Bound: reports and answers that are waited for at a time.
FewDue == Cardinality(due) <= 3
TwoDue == Cardinality(due) <= 2
=============================================================================
