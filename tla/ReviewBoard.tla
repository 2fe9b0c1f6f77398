----------------------------- MODULE ReviewBoard -----------------------------
(***************************************************************************)
(* What the publication stage promises, as one atomic step: a pull request *)
(* has one review, and each finished run replaces it as if it had read and *)
(* written it at once.                                                     *)
(*                                                                         *)
(*   - Publishing for the same commit only adds reproduced problems.       *)
(*   - Publishing for another commit keeps every problem of the last       *)
(*     review in sight: reproduced again, or listed as carried over.       *)
(*   - The review never goes back to an earlier version of the head.       *)
(***************************************************************************)
EXTENDS Integers

CONSTANTS Shas, Findings, Reviews, NoReview,
          Eras         \* versions of the head, numbered upwards
VARIABLE board

Review == [sha : Shas, era : Eras, reproduced : SUBSET Findings, carried : SUBSET Findings]

SameIssue(f, g) == f.problem = g.problem \/ f.evidence = g.evidence

\* A review of an earlier version may be there.
Init == board = NoReview \/ board \in {b \in Review : b.carried = {}}

FirstReview(sha, era, found) ==
  /\ board = NoReview
  /\ board' = [sha |-> sha, era |-> era, reproduced |-> found, carried |-> {}]

Rerun(era, found) ==
  /\ board # NoReview
  /\ board.era <= era
  /\ board' = [sha |-> board.sha, era |-> era,
               reproduced |-> board.reproduced \cup found, carried |-> {}]

NewCommit(sha, era, found) ==
  /\ board # NoReview
  /\ board.sha # sha /\ board.era <= era
  /\ board' = [sha |-> sha, era |-> era, reproduced |-> found,
               carried |-> {g \in board.reproduced : \A f \in found : ~SameIssue(f, g)}]

(* Somebody takes the review away, or floods the thread until it is out of sight. *)
Lost == board # NoReview /\ board' = NoReview

Publish(era, found) ==
  \/ Rerun(era, found)
  \/ \E sha \in Shas : FirstReview(sha, era, found) \/ NewCommit(sha, era, found)

Next == Lost \/ \E era \in Eras, found \in Reviews : Publish(era, found)
Spec == Init /\ [][Next]_board
=============================================================================
