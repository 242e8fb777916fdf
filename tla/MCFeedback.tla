----------------------------- MODULE MCFeedback -----------------------------
(***************************************************************************)
(* One user's feedback with screenshots, and two publishers.               *)
(***************************************************************************)
EXTENDS Feedback, TLC
CONSTANTS c1, c2, p1, p2, x1, f1, f2

Publishing == [publishers |-> {p1, p2}, feedback |-> {f1}, files |-> {}]
Screenshots == [publishers |-> {}, feedback |-> {f1, f2}, files |-> {x1}]
AllStories == {Publishing, Screenshots}
=============================================================================
