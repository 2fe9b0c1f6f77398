----------------------------- MODULE MCFeedback -----------------------------
(***************************************************************************)
(* Four pull requests, two or all of them open when the command starts.    *)
(***************************************************************************)
EXTENDS Feedback

MCPulls == 1 .. 4
MCListed == {<<2, 1>>, <<4, 1, 3, 2>>}
=============================================================================
