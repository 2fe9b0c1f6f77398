------------------------------ MODULE Feedback ------------------------------
(***************************************************************************)
(* The command `feedback`: it lists the most recently updated pull         *)
(* requests page by page, looks the bot's comment of each one up, reads    *)
(* its reactions and writes totals.  Between any two requests pull         *)
(* requests are updated or opened, which moves them to the front of the    *)
(* list, people react, and comments are deleted.                           *)
(*                                                                         *)
(* Here one lookup of a comment is one step; BotComment models its pages.  *)
(***************************************************************************)
EXTENDS Integers, Sequences, FiniteSets, SequencesExt

CONSTANTS
  Pulls,        \* numbers of pull requests that exist or may be opened
  Limit,        \* --limit
  PageSize,     \* pull requests of a page, 50; the server does not cap it lower
  Listed,       \* the list when the command starts, most recent first: possible values
  MaxMoves,     \* bound: updates and openings while the command runs
  MaxMeddling   \* bound: reactions and deletions, together

ASSUME LimitAssumption == Limit \in Nat \ {0} /\ PageSize \in Nat \ {0}
ASSUME BoundsAssumption == MaxMoves \in Nat /\ MaxMeddling \in Nat
ASSUME ListedAssumption ==
  Listed \subseteq {s \in Seq(Pulls) : \A i, j \in DOMAIN s : s[i] = s[j] => i = j}

VARIABLES
  pc,         \* "login", "list", "look", "react", "done", "failed"
  order,      \* the pull requests, most recently updated first
  comment,    \* the bot's comment of each: does it exist, does its state decode, thumbs up
  lost,       \* the comment the command has found was deleted since
  page, numbers,   \* the listing so far
  next,       \* index in `numbers` of the pull request in hand
  reviews,    \* what will be reported
  moved,      \* history: pull requests updated or opened since the command started
  moves, meddling

command == <<pc, page, numbers, next, reviews>>
world == <<order, comment, lost, moved, moves, meddling>>
vars == <<command, world>>

Comment == [there : BOOLEAN, legible : BOOLEAN, up : Nat]
NoComment == [there |-> FALSE, legible |-> TRUE, up |-> 0]

Smaller(a, b) == IF a < b THEN a ELSE b

Init ==
  /\ pc = "login" /\ order \in Listed
  /\ \E reviewed \in SUBSET Range(order), illegible \in SUBSET Range(order) :
       comment = [p \in Pulls |-> [there |-> p \in reviewed, legible |-> p \notin illegible, up |-> 0]]
  /\ page = 1 /\ numbers = <<>> /\ next = 1 /\ reviews = <<>>
  /\ lost = FALSE /\ moved = {} /\ moves = 0 /\ meddling = 0

-----------------------------------------------------------------------------
(* The command. *)

\* get_authenticated_login: None without the scope read:user.
LogIn ==
  /\ pc = "login" /\ pc' \in {"list", "failed"}
  /\ UNCHANGED <<page, numbers, next, reviews, world>>

\* Mutant: pages overlap by one.
PageOverlap(k) == SubSeq(order, (k - 1) * (PageSize - 1) + 1, Smaller((k - 1) * (PageSize - 1) + PageSize, Len(order)))

\* Mutant: a page begins one too far.
PageBeyond(k) == SubSeq(order, (k - 1) * PageSize + 2, Smaller(k * PageSize + 1, Len(order)))

PageOf(k) == SubSeq(order, (k - 1) * PageSize + 1, Smaller(k * PageSize, Len(order)))

\* Mutant: numbers[:limit] is forgotten.
ListPageUncut ==
  /\ pc = "list"
  /\ LET pulls == PageOf(page)
         all == numbers \o pulls
     IN IF Len(pulls) < PageSize \/ Len(all) >= Limit
        THEN /\ numbers' = all /\ pc' = "look"
             /\ UNCHANGED page
        ELSE /\ numbers' = all /\ page' = page + 1 /\ UNCHANGED pc
  /\ UNCHANGED <<next, reviews, world>>

\* Mutant: a short page does not end the list.
ListPageOn ==
  /\ pc = "list"
  /\ LET pulls == PageOf(page)
         all == numbers \o pulls
     IN IF Len(all) >= Limit
        THEN /\ numbers' = SubSeq(all, 1, Smaller(Limit, Len(all))) /\ pc' = "look"
             /\ UNCHANGED page
        ELSE /\ numbers' = all /\ UNCHANGED pc
             /\ page' = IF pulls = <<>> THEN page ELSE page + 1
  /\ UNCHANGED <<next, reviews, world>>

(* list_pull_request_numbers: one request. *)
ListPage ==
  /\ pc = "list"
  /\ LET pulls == PageOf(page)
         all == numbers \o pulls
     IN IF Len(pulls) < PageSize \/ Len(all) >= Limit
        THEN /\ numbers' = SubSeq(all, 1, Smaller(Limit, Len(all))) /\ pc' = "look"
             /\ UNCHANGED page
        ELSE /\ numbers' = all /\ page' = page + 1 /\ UNCHANGED pc
  /\ UNCHANGED <<next, reviews, world>>

InHand == numbers[next]

(* find_review_comment and parse_previous_review. *)
Look ==
  /\ pc = "look" /\ next <= Len(numbers)
  /\ IF comment[InHand].there /\ comment[InHand].legible
     THEN pc' = "react" /\ UNCHANGED next
     ELSE next' = next + 1 /\ UNCHANGED pc
  /\ UNCHANGED <<page, numbers, reviews, world>>

(* get_comment_reactions, by the id of the comment: once that is deleted, 404
   fails the command, whether or not another comment has taken its place. *)
ReadReactions ==
  /\ pc = "react"
  /\ IF ~lost
     THEN /\ reviews' = Append(reviews, [pr |-> InHand, up |-> comment[InHand].up])
          /\ next' = next + 1 /\ pc' = "look"
     ELSE pc' = "failed" /\ UNCHANGED <<reviews, next>>
  /\ UNCHANGED <<page, numbers, world>>

\* Mutant: the last pull request is left out.
WriteEarly ==
  /\ pc = "look" /\ next >= Len(numbers) /\ pc' = "done"
  /\ UNCHANGED <<page, numbers, next, reviews, world>>

Write ==
  /\ pc = "look" /\ next > Len(numbers) /\ pc' = "done"
  /\ UNCHANGED <<page, numbers, next, reviews, world>>

(* Any request may fail or time out: exit 1. *)
Fail ==
  /\ pc \in {"login", "list", "look", "react"} /\ pc' = "failed"
  /\ UNCHANGED <<page, numbers, next, reviews, world>>

Progress == LogIn \/ ListPage \/ Look \/ ReadReactions \/ Write

-----------------------------------------------------------------------------
(* Gitea and people. *)

\* Pull request p is put first; those that were before it are one place further back.
ToFront(p) ==
  \E k \in 1 .. Len(order) + 1 :
    /\ IF k <= Len(order) THEN order[k] = p ELSE p \notin Range(order)
    /\ order' = [i \in 1 .. (IF k <= Len(order) THEN Len(order) ELSE k) |->
                   IF i = 1 THEN p ELSE IF i <= k THEN order[i - 1] ELSE order[i]]

(* An update, or the opening of a pull request: it is first in the list. *)
Move(p) ==
  /\ moves < MaxMoves /\ moves' = moves + 1
  /\ ToFront(p)
  /\ moved' = moved \cup {p}
  /\ UNCHANGED <<comment, lost, meddling, command>>

(* A comment run publishes; that updates the pull request too. *)
Publish(p) ==
  /\ p \in Range(order) /\ moves < MaxMoves /\ moves' = moves + 1
  /\ ToFront(p)
  /\ moved' = moved \cup {p}
  /\ comment' = [comment EXCEPT ![p].there = TRUE, ![p].legible = TRUE]
  /\ UNCHANGED <<lost, meddling, command>>

Meddle(p, becomes) ==
  /\ comment[p].there /\ meddling < MaxMeddling /\ meddling' = meddling + 1
  /\ comment' = [comment EXCEPT ![p] = becomes]
  /\ UNCHANGED <<order, moved, moves, command>>

React(p) == Meddle(p, [comment[p] EXCEPT !.up = @ + 1]) /\ UNCHANGED lost
Delete(p) == Meddle(p, NoComment) /\ lost' = (lost \/ (pc = "react" /\ p = InHand))

World == \E p \in Pulls : Move(p) \/ Publish(p) \/ React(p) \/ Delete(p)

Next == Progress \/ Fail \/ World
Spec == Init /\ [][Next]_vars

(* Every request has a time limit. *)
FairSpec == Spec /\ WF_vars(Progress)

-----------------------------------------------------------------------------
(* Properties *)

(* Type invariant: no more pull requests are inspected than asked for, and a
   report holds at most one entry for each of them. *)
TypeOK ==
  /\ pc \in {"login", "list", "look", "react", "done", "failed"}
  /\ order \in Seq(Pulls) /\ comment \in [Pulls -> Comment] /\ lost \in BOOLEAN
  /\ page \in Nat \ {0} /\ numbers \in Seq(Pulls) /\ next \in 1 .. Len(numbers) + 1
  /\ pc \in {"look", "react", "done"} => Len(numbers) <= Limit
  /\ reviews \in Seq([pr : Pulls, up : Nat]) /\ Len(reviews) < next
  /\ moved \in SUBSET Pulls /\ moves \in Nat /\ meddling \in Nat

IsListed(p) == p \in Range(numbers)

(* The list is read page by page while it changes under the reader
   (list_pull_request_numbers).  Moves push the others back, never forward, so
   that none is skipped: a pull request that stays where it is and is among the
   Limit most recent ones is inspected. *)
RecentIsListed ==
  pc \in {"look", "react", "done"} =>
    \A i \in DOMAIN order : i <= Limit /\ order[i] \notin moved => IsListed(order[i])

(* What the moves cost: each of them lets at most one pull request be listed
   twice, and its reactions count twice. *)
OneRepeatForAMove == Len(numbers) - Cardinality(Range(numbers)) <= moves

(* A written report has an entry for every inspected pull request that shows a
   readable review and was not touched by another comment run; one that was
   listed once has one entry. *)
EveryReviewCounts ==
  pc = "done" =>
    \A i \in DOMAIN numbers :
      LET p == numbers[i]
          entries == {j \in DOMAIN reviews : reviews[j].pr = p}
      IN /\ comment[p].there /\ comment[p].legible /\ p \notin moved => entries # {}
         /\ Cardinality(entries) <= Cardinality({j \in DOMAIN numbers : numbers[j] = p})

(* The command ends, also when there are fewer pull requests than asked for. *)
FeedbackEnds == <>(pc \in {"done", "failed"})
=============================================================================
