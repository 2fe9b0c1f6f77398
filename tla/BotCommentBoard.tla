--------------------------- MODULE BotCommentBoard ---------------------------
(***************************************************************************)
(* BotComment implements ReviewBoard: in the installation the README asks  *)
(* for, the requests of a run have the effect of one atomic      *)
(* update of the pull request's only review.  The mapping shows no review  *)
(* once that installation is left (another deployment, a deleted comment,  *)
(* more comments than the lookup scans), and none as long as the comment   *)
(* holds a state that does not decode.                                     *)
(***************************************************************************)
EXTENDS BotComment

TheReview ==
  LET body == (CHOOSE c \in BotComments : c.body.legible).body
  IN [sha |-> body.sha, era |-> body.era,
      reproduced |-> body.reproduced, carried |-> body.carried]

ShownReview ==
  IF Supported /\ deletes = 0 /\ \E c \in BotComments : c.body.legible
  THEN TheReview ELSE NoReview

Board == INSTANCE ReviewBoard WITH Eras <- 0 .. MaxPushes, board <- ShownReview
ASSUME NoReviewAssumption == NoReview \notin Board!Review

(* Every step of the publication stage is one step of ReviewBoard or none
   (comment_command, cli.py:475-486). *)
ImplementsBoard == Board!Spec
=============================================================================
