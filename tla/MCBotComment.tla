---------------------------- MODULE MCBotComment ----------------------------
(***************************************************************************)
(* A small pull request: two commits the head moves between, three runs,   *)
(* findings that differ only in wording, one person who copies the marker. *)
(***************************************************************************)
EXTENDS BotCommentBoard

CONSTANTS s1, s2, alice

Leak     == [problem |-> "leak", evidence |-> "a.py:1"]
Reworded == [problem |-> "leak, reworded", evidence |-> "a.py:1"]
Invented == [problem |-> "invented", evidence |-> "b.py:2"]

Good == [serialized |-> TRUE, readUser |-> TRUE, sha40 |-> TRUE]
MCSites == {Good, [Good EXCEPT !.readUser = FALSE]}

MCSupported == {Good}
MCIgnoresGroup == {[Good EXCEPT !.serialized = FALSE]}

MCFindings == {Leak, Reworded, Invented}
MCReviews == {{}, {Leak}}

Imitation == [sha |-> s1, reproduced |-> {Invented}, fresh |-> {}, carried |-> {}, legible |-> TRUE, era |-> 0]
Earlier(legible) ==
  [sha |-> s1, reproduced |-> {Reworded}, fresh |-> {}, carried |-> {}, legible |-> legible, era |-> 0]
MCOldBodies == {Earlier(TRUE), Earlier(FALSE)}
MCPeopleBodies == {Imitation}
=============================================================================
