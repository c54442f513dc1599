------------------------------- MODULE Review -------------------------------
(***************************************************************************)
(* What a review promises, whoever keeps it: an open review is decided     *)
(* once, changes may be requested and made as often as the reviewer likes  *)
(* before that, and what is judged changes only when a review is reopened. *)
(* ContentWorkflow (the database) and EditorialLoop (in memory) implement  *)
(* it.                                                                     *)
(***************************************************************************)
CONSTANTS
  Reviews,
  Subjects      \* what a review may judge, and what it judges before it is opened

VARIABLES
  stage,        \* review -> how far it is
  subject       \* review -> what it judges

vars == <<stage, subject>>

Decided == {"approved", "rejected"}

Init ==
  /\ stage \in [Reviews -> {"none"}]
  /\ subject \in [Reviews -> Subjects]

Move(r, from, to) == stage[r] \in from /\ stage' = [stage EXCEPT ![r] = to]

Open(r) ==
  /\ Move(r, {"none"}, "open")
  /\ \E s \in Subjects : subject' = [subject EXCEPT ![r] = s]

RequestChanges(r) == Move(r, {"open", "changes"}, "changes") /\ UNCHANGED subject

Revise(r) == Move(r, {"changes"}, "revising") /\ UNCHANGED subject

Reopen(r) ==
  /\ Move(r, {"changes", "revising"}, "open")
  /\ \E s \in Subjects : subject' = [subject EXCEPT ![r] = s]

Decide(r) ==
  /\ \E verdict \in Decided : Move(r, {"open", "changes"}, verdict)
  /\ UNCHANGED subject

Next ==
  \E r \in Reviews : Open(r) \/ RequestChanges(r) \/ Revise(r) \/ Reopen(r) \/ Decide(r)

Spec == Init /\ [][Next]_vars

=============================================================================
