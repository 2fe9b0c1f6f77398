-------------------------- MODULE BotCommentProofs --------------------------
(***************************************************************************)
(* For every number of runs, pushes, people and comments, and for every    *)
(* installation: the variables of BotComment keep their types, and what    *)
(* the bot publishes as reproduced was reproduced.  For the installation   *)
(* the README asks for: one comment per pull request, on the head, that    *)
(* keeps what it reported, and every step is one of ReviewBoard or none.   *)
(***************************************************************************)
EXTENDS BotCommentBoard, FiniteSetTheorems, TLAPS

(* What a run holds of an earlier comment was reproduced at that commit, and
   only a run that knows the bot's login holds any. *)
PreviousIsReproduced ==
  \A r \in RunIds :
    /\ run[r].previous # NoReview =>
         run[r].previous.reproduced \subseteq reproducedAt[run[r].previous.sha]
    /\ run[r].pc = "read" => run[r].author = Bot

(* A run past its start has a commit. *)
ActiveHasSha == \A r \in RunIds : run[r].pc \in Active => run[r].sha \in Shas

BotWritesReviews == \A c \in BotComments : c.body \in Body

IInv == TypeOK /\ ActiveHasSha /\ BotWritesReviews /\ PreviousIsReproduced
               /\ PublishedIsReproduced

USE DEF RunIds, Waiting, Active, Ended

(* A run that has not started is a run. *)
LEMMA NewRunType == NewRun \in RunState /\ 1 \in 1 .. Pages
BY BoundsAssumption DEF NewRun, RunState

(* The rendered body of a run that has a commit is a review of that commit. *)
LEMMA RunBodyType ==
  ASSUME TypeOK, NEW r \in RunIds, run[r].sha \in Shas
  PROVE  RunBody(r) \in Body
<1>1. run[r] \in RunState
  BY DEF TypeOK
<1>2. PreserveReproducedFindings(run[r].review, run[r].previous, run[r].sha) \subseteq Findings
  BY <1>1 DEF PreserveReproducedFindings, RunState, PreviousReview
<1>3. QED
  BY <1>1, <1>2 DEF RunBody, RenderMarkdown, Body, RunState, PreviousReview

(* What the body shows was reproduced, by this run or by an earlier one. *)
LEMMA RunBodyIsReproduced ==
  ASSUME IInv, NEW r \in RunIds, run[r].sha \in Shas
  PROVE  /\ RunBody(r).sha = run[r].sha
         /\ RunBody(r).reproduced \subseteq reproducedAt[run[r].sha] \cup run[r].review
         /\ \A f \in RunBody(r).carried :
              \E sha \in Shas \ {run[r].sha} : f \in reproducedAt[sha]
<1>1. run[r] \in RunState
  BY DEF IInv, TypeOK
<1>2. run[r].previous # NoReview =>
        /\ run[r].previous.sha \in Shas
        /\ run[r].previous.reproduced \subseteq reproducedAt[run[r].previous.sha]
  BY <1>1 DEF IInv, PreviousIsReproduced, RunState, PreviousReview
<1>3. QED
  BY <1>2 DEF RunBody, RenderMarkdown, PreserveReproducedFindings

(* The initial states satisfy the inductive invariant. *)
THEOREM InitInv == Init => IInv
<1>. SUFFICES ASSUME Init PROVE IInv
  OBVIOUS
<1>1. run \in [RunIds -> RunState]
  BY NewRunType DEF Init, NewRun, RunState
<1>2. ActiveHasSha /\ PreviousIsReproduced
  BY DEF Init, ActiveHasSha, PreviousIsReproduced, NewRun
<1>3. CASE thread = {} /\ posted = 0 /\ reproducedAt = [s \in Shas |-> {}]
  <2>1. TypeOK
    BY <1>1, <1>3, SitesAssumption DEF Init, TypeOK
  <2>2. BotWritesReviews /\ PublishedIsReproduced
    BY <1>3 DEF BotWritesReviews, PublishedIsReproduced, BotComments
  <2>3. QED
    BY <1>2, <2>1, <2>2 DEF IInv
<1>4. ASSUME NEW b \in OldBodies,
             thread = {[id |-> 1, author |-> Bot, body |-> b]}, posted = 1,
             reproducedAt = [s \in Shas |-> IF s = b.sha THEN b.reproduced ELSE {}]
      PROVE  IInv
  <2>1. b \in Body /\ b.carried = {} /\ b.sha \in Shas /\ b.reproduced \in SUBSET Findings
    BY OldBodiesAssumption DEF Body
  <2>2. TypeOK
    <3>1. thread \subseteq Comment /\ posted \in Nat
      BY <1>4, <2>1 DEF Comment
    <3>2. reproducedAt \in [Shas -> SUBSET Findings]
      BY <1>4, <2>1
    <3>3. QED
      BY <1>1, <3>1, <3>2, SitesAssumption DEF Init, TypeOK
  <2>3. BotWritesReviews /\ PublishedIsReproduced
    BY <1>4, <2>1 DEF BotWritesReviews, PublishedIsReproduced, BotComments
  <2>4. QED
    BY <1>2, <2>2, <2>3 DEF IInv
<1>5. QED
  BY <1>3, <1>4 DEF Init

(* A step that leaves the thread and the history alone, and changes runs only
   in ways that keep the run part of the invariant, keeps the invariant. *)
LEMMA RunOnlyStep ==
  ASSUME IInv, UNCHANGED Thread, TypeOK',
         \A r \in RunIds :
           /\ run'[r].pc \in Active => run'[r].sha \in Shas
           /\ run'[r].pc = "read" => run'[r].author = Bot
           /\ run'[r].previous \in {run[r].previous, NoReview}
  PROVE  IInv'
BY DEF IInv, Thread, ActiveHasSha, BotWritesReviews, PublishedIsReproduced,
       PreviousIsReproduced, BotComments

(* Creating a run, and giving up waiting ones, keeps the invariant. *)
LEMMA TriggerStep ==
  ASSUME IInv, Trigger, UNCHANGED Thread,
         UNCHANGED <<site, merged, peoplePosts, deletes, shifted>>, head' \in Shas, pushes' \in Nat
  PROVE  IInv'
<1>1. \A r \in RunIds : run'[r] \in RunState
  BY DEF IInv, TypeOK, Trigger, RunState
<1>2. TypeOK'
  BY <1>1 DEF IInv, TypeOK, Trigger, Thread
<1>3. \A r \in RunIds : /\ run'[r].pc \in Active => run'[r].sha \in Shas
                        /\ run'[r].pc = "read" => run'[r].author = Bot
                        /\ run'[r].previous \in {run[r].previous, NoReview}
  BY DEF IInv, TypeOK, RunState, Trigger, ActiveHasSha, PreviousIsReproduced
<1>4. QED
  BY <1>2, <1>3, RunOnlyStep

(* A run that ends keeps nothing it could publish. *)
LEMMA EndsStep ==
  ASSUME IInv, NEW r \in RunIds, NEW how \in Ended, Ends(r, how), UNCHANGED <<Outside, Thread>>
  PROVE  IInv'
<1>1. [NewRun EXCEPT !.pc = how] \in RunState
  BY NewRunType DEF RunState
<1>2. TypeOK'
  BY <1>1 DEF IInv, TypeOK, Ends, Outside, Thread
<1>3. \A q \in RunIds : run'[q] = IF q = r THEN [NewRun EXCEPT !.pc = how] ELSE run[q]
  BY DEF IInv, TypeOK, Ends
<1>4. \A q \in RunIds : /\ run'[q].pc \in Active => run'[q].sha \in Shas
                        /\ run'[q].pc = "read" => run'[q].author = Bot
                        /\ run'[q].previous \in {run[q].previous, NoReview}
  BY <1>3 DEF IInv, ActiveHasSha, PreviousIsReproduced, NewRun
<1>5. QED
  BY <1>2, <1>4, RunOnlyStep DEF Thread

(* People write comments of their own; the bot's stay as they are. *)
LEMMA PeoplePostStep ==
  ASSUME IInv, NEW p \in People, NEW body \in PeopleBodies, PeoplePost(p, body)
  PROVE  IInv'
<1>1. BotComments' = BotComments
  BY AccountsAssumption DEF PeoplePost, BotComments
<1>2. [id |-> posted + 1, author |-> p, body |-> body] \in Comment
  BY PeopleBodiesAssumption DEF IInv, TypeOK, Comment
<1>3. TypeOK'
  BY <1>2 DEF IInv, TypeOK, PeoplePost
<1>4. QED
  BY <1>1, <1>3 DEF IInv, PeoplePost, ActiveHasSha, BotWritesReviews, PublishedIsReproduced,
                    PreviousIsReproduced

(* A deleted comment only takes away what has to be justified. *)
LEMMA DeleteStep ==
  ASSUME IInv, NEW c \in thread, Delete(c)
  PROVE  IInv'
<1>1. BotComments' \subseteq BotComments
  BY DEF Delete, BotComments
<1>2. TypeOK'
  BY DEF IInv, TypeOK, Delete
<1>3. QED
  BY <1>1, <1>2 DEF IInv, Delete, ActiveHasSha, BotWritesReviews, PublishedIsReproduced,
                    PreviousIsReproduced

(* The steps of a run before it writes, those that read nothing of a comment. *)
LEMMA LocalStep ==
  ASSUME IInv, NEW r \in RunIds,
         \/ Start(r)
         \/ \E reproduced \in Reviews : CheckHead(r, reproduced)
         \/ WhoAmI(r)
         \/ NextPage(r)
         \/ FindComment(r)
         \/ \E c \in thread : PatchForbidden(r, c)
  PROVE  IInv'
<1>0. run[r] \in RunState /\ UNCHANGED <<Outside, Thread>>
  BY DEF IInv, TypeOK, Start, CheckHead, WhoAmI, NextPage, FindComment, PatchForbidden
<1>1. CASE Start(r)
  <2>1. TypeOK'
    BY <1>0, <1>1 DEF Start, IInv, TypeOK, RunState, Outside, Thread
  <2>2. \A q \in RunIds : /\ run'[q].pc \in Active => run'[q].sha \in Shas
                          /\ run'[q].pc = "read" => run'[q].author = Bot
                          /\ run'[q].previous \in {run[q].previous, NoReview}
    BY <1>0, <1>1 DEF Start, IInv, TypeOK, RunState, ActiveHasSha, PreviousIsReproduced
  <2>3. QED
    BY <1>0, <2>1, <2>2, RunOnlyStep
<1>2. ASSUME NEW reproduced \in Reviews, CheckHead(r, reproduced)
      PROVE  IInv'
  <2>1. CASE head # run[r].sha
    BY <1>0, <1>2, <2>1, EndsStep DEF CheckHead
  <2>2. CASE head = run[r].sha
    <3>1. TypeOK'
      BY <1>0, <1>2, <2>2, ReviewsAssumption
      DEF CheckHead, IInv, TypeOK, RunState, Outside, Thread
    <3>2. \A q \in RunIds : /\ run'[q].pc \in Active => run'[q].sha \in Shas
                            /\ run'[q].pc = "read" => run'[q].author = Bot
                            /\ run'[q].previous \in {run[q].previous, NoReview}
      BY <1>0, <1>2, <2>2
      DEF CheckHead, IInv, TypeOK, RunState, ActiveHasSha, PreviousIsReproduced
    <3>3. QED
      BY <1>0, <3>1, <3>2, RunOnlyStep
  <2>3. QED
    BY <2>1, <2>2
<1>3. CASE WhoAmI(r)
  <2>1. TypeOK'
    BY <1>0, <1>3 DEF WhoAmI, IInv, TypeOK, RunState, Outside, Thread
  <2>2. \A q \in RunIds : /\ run'[q].pc \in Active => run'[q].sha \in Shas
                          /\ run'[q].pc = "read" => run'[q].author = Bot
                          /\ run'[q].previous \in {run[q].previous, NoReview}
    BY <1>0, <1>3 DEF WhoAmI, IInv, TypeOK, RunState, ActiveHasSha, PreviousIsReproduced
  <2>3. QED
    BY <1>0, <2>1, <2>2, RunOnlyStep
<1>4. CASE FindComment(r)
  <2>0. PICK target \in Nat \cup {NoComment}, pc \in {"post", "patch"} :
          run' = [run EXCEPT ![r].target = target, ![r].pc = pc, ![r].page = 1]
    <3>1. CASE NotThere(r) /\ run' = [run EXCEPT ![r].pc = "post", ![r].page = 1]
      <4>1. run' = [run EXCEPT ![r].target = run[r].target, ![r].pc = "post", ![r].page = 1]
        BY <1>0, <3>1 DEF IInv, TypeOK, RunState
      <4>2. QED
        BY <1>0, <4>1 DEF RunState
    <3>2. CASE \E c \in Found(r) :
                 run' = [run EXCEPT ![r].target = c.id, ![r].pc = "patch", ![r].page = 1]
      BY <3>2 DEF Found, Candidates, IInv, TypeOK, Comment
    <3>3. QED
      BY <1>4, <3>1, <3>2 DEF FindComment
  <2>1. TypeOK'
    <3>1. run \in [RunIds -> RunState]
      BY DEF IInv, TypeOK
    <3>2. [run[r] EXCEPT !.target = target, !.pc = pc, !.page = 1] \in RunState
      BY <1>0, NewRunType DEF RunState
    <3>3. run' = [run EXCEPT ![r] = [run[r] EXCEPT !.target = target, !.pc = pc, !.page = 1]]
      BY <2>0, <3>1
    <3>4. run' \in [RunIds -> RunState]
      BY <3>1, <3>2, <3>3
    <3>5. QED
      BY <1>0, <3>4 DEF IInv, TypeOK, Outside, Thread
  <2>2. \A q \in RunIds : /\ run'[q].pc \in Active => run'[q].sha \in Shas
                          /\ run'[q].pc = "read" => run'[q].author = Bot
                          /\ run'[q].previous \in {run[q].previous, NoReview}
    BY <1>0, <1>4, <2>0
    DEF FindComment, IInv, TypeOK, RunState, ActiveHasSha, PreviousIsReproduced
  <2>3. QED
    BY <1>0, <2>1, <2>2, RunOnlyStep
<1>5. ASSUME NEW c \in thread, PatchForbidden(r, c)
      PROVE  IInv'
  <2>1. TypeOK'
    BY <1>0, <1>5 DEF PatchForbidden, IInv, TypeOK, RunState, Outside, Thread
  <2>2. \A q \in RunIds : /\ run'[q].pc \in Active => run'[q].sha \in Shas
                          /\ run'[q].pc = "read" => run'[q].author = Bot
                          /\ run'[q].previous \in {run[q].previous, NoReview}
    BY <1>0, <1>5 DEF PatchForbidden, IInv, TypeOK, RunState, ActiveHasSha, PreviousIsReproduced
  <2>3. QED
    BY <1>0, <2>1, <2>2, RunOnlyStep
<1>6. CASE NextPage(r)
  <2>0. run[r].page + 1 \in 1 .. Pages
    BY <1>0, <1>6, BoundsAssumption DEF NextPage, LastPage, RunState
  <2>1. TypeOK'
    BY <1>0, <1>6, <2>0 DEF NextPage, IInv, TypeOK, RunState, Outside, Thread
  <2>2. \A q \in RunIds : /\ run'[q].pc \in Active => run'[q].sha \in Shas
                          /\ run'[q].pc = "read" => run'[q].author = Bot
                          /\ run'[q].previous \in {run[q].previous, NoReview}
    BY <1>0, <1>6 DEF NextPage, IInv, TypeOK, RunState, ActiveHasSha, PreviousIsReproduced
  <2>3. QED
    BY <1>0, <2>1, <2>2, RunOnlyStep
<1>7. QED
  BY <1>1, <1>2, <1>3, <1>4, <1>5, <1>6

(* Reading the earlier comment: with a known login it is the bot's own. *)
LEMMA ReadPreviousStep ==
  ASSUME IInv, NEW r \in RunIds, ReadPrevious(r)
  PROVE  IInv'
<1>0. /\ run[r] \in RunState /\ run[r].author = Bot /\ run[r].sha \in Shas
      /\ UNCHANGED <<Outside, Thread>>
  BY DEF IInv, TypeOK, ReadPrevious, PreviousIsReproduced, ActiveHasSha
<1>1. PICK previous :
        /\ run' = [run EXCEPT ![r].previous = previous, ![r].pc = "find", ![r].page = 1]
        /\ \/ previous = run[r].previous
           \/ \E c \in BotComments : previous = ParsePreviousReview(c.body)
  <2>1. CASE run' = [run EXCEPT ![r].pc = "find", ![r].page = 1]
    <3>1. run' = [run EXCEPT ![r].previous = run[r].previous, ![r].pc = "find", ![r].page = 1]
      BY <1>0, <2>1 DEF IInv, TypeOK, RunState
    <3>2. QED
      BY <3>1
  <2>2. ASSUME NEW c \in Found(r),
               run' = [run EXCEPT ![r].previous = ParsePreviousReview(c.body), ![r].pc = "find", ![r].page = 1]
        PROVE  \E previous :
                 /\ run' = [run EXCEPT ![r].previous = previous, ![r].pc = "find", ![r].page = 1]
                 /\ \E d \in BotComments : previous = ParsePreviousReview(d.body)
    <3>1. c \in BotComments
      BY <1>0, AccountsAssumption DEF Found, Candidates, BotComments
    <3>2. QED
      BY <2>2, <3>1
  <2>3. QED
    BY <2>1, <2>2 DEF ReadPrevious
<1>2. /\ previous \in PreviousReview \cup {NoReview}
      /\ previous # NoReview => previous.reproduced \subseteq reproducedAt[previous.sha]
  BY <1>0, <1>1 DEF ParsePreviousReview, PreviousReview, IInv, BotWritesReviews, Body,
                    PublishedIsReproduced, PreviousIsReproduced, RunState
<1>3. TypeOK'
  <2>1. run' \in [RunIds -> RunState]
    <3>1. run \in [RunIds -> RunState]
      BY DEF IInv, TypeOK
    <3>2. [run[r] EXCEPT !.previous = previous, !.pc = "find", !.page = 1] \in RunState
      BY <1>0, <1>2, NewRunType DEF RunState
    <3>3. run' = [run EXCEPT ![r] = [run[r] EXCEPT !.previous = previous, !.pc = "find", !.page = 1]]
      BY <1>1, <3>1
    <3>4. QED
      BY <3>1, <3>2, <3>3
  <2>2. QED
    BY <1>0, <2>1 DEF IInv, TypeOK, Outside, Thread
<1>4. \A q \in RunIds : q # r => run'[q] = run[q]
  BY <1>1 DEF IInv, TypeOK
<1>5. /\ run'[r].previous = previous /\ run'[r].pc = "find" /\ run'[r].sha = run[r].sha
  BY <1>0, <1>1 DEF IInv, TypeOK, RunState
<1>6. QED
  BY <1>0, <1>2, <1>3, <1>4, <1>5
  DEF IInv, ActiveHasSha, BotWritesReviews, PublishedIsReproduced, PreviousIsReproduced,
      BotComments, Thread

(* A write adds or replaces one comment of the bot by the rendered body. *)
LEMMA PublishStep ==
  ASSUME IInv, NEW r \in RunIds, run[r].sha \in Shas, Publishes(r),
         NEW c, c \in Comment, c.author = Bot, c.body = RunBody(r),
         thread' \subseteq thread \cup {c}, posted' \in Nat, UNCHANGED Outside
  PROVE  IInv'
<1>0. run[r] \in RunState
  BY DEF IInv, TypeOK
<1>1. PICK end \in RunState :
        /\ run' = [run EXCEPT ![r] = end]
        /\ end.pc \in Ended /\ end.previous = NoReview
  <2>. DEFINE done == [NewRun EXCEPT !.pc = "done", !.review = run[r].review]
              failed == [NewRun EXCEPT !.pc = "failed"]
  <2>1. /\ done \in RunState /\ done.pc \in Ended /\ done.previous = NoReview
        /\ failed \in RunState /\ failed.pc \in Ended /\ failed.previous = NoReview
    BY <1>0, NewRunType DEF NewRun, RunState
  <2>2. \/ run' = [run EXCEPT ![r] = done] \/ run' = [run EXCEPT ![r] = failed]
    BY DEF Publishes, Ends
  <2>. HIDE DEF done, failed
  <2>3. QED
    BY <2>1, <2>2
<1>2. TypeOK'
  <2>1. run' \in [RunIds -> RunState]
    BY <1>1 DEF IInv, TypeOK
  <2>2. reproducedAt' \in [Shas -> SUBSET Findings]
    BY <1>0 DEF IInv, TypeOK, Publishes, RunState
  <2>3. QED
    BY <2>1, <2>2 DEF IInv, TypeOK, Outside
<1>3. /\ \A sha \in Shas : reproducedAt[sha] \subseteq reproducedAt'[sha]
      /\ reproducedAt[run[r].sha] \cup run[r].review \subseteq reproducedAt'[run[r].sha]
  BY DEF IInv, TypeOK, Publishes
<1>4. \A q \in RunIds : run'[q] = IF q = r THEN end ELSE run[q]
  BY <1>1 DEF IInv, TypeOK
<1>5. ActiveHasSha'
  BY <1>1, <1>4 DEF IInv, ActiveHasSha
<1>6. PreviousIsReproduced'
  <2>1. \A q \in RunIds : run[q].previous # NoReview => run[q].previous.sha \in Shas
    BY DEF IInv, TypeOK, RunState, PreviousReview
  <2>2. QED
    BY <1>1, <1>3, <1>4, <2>1 DEF IInv, PreviousIsReproduced
<1>7. BotComments' \subseteq BotComments \cup {c}
  BY DEF BotComments
<1>8. BotWritesReviews'
  BY <1>7, RunBodyType DEF IInv, BotWritesReviews
<1>9. PublishedIsReproduced'
  <2>1. ASSUME NEW d \in BotComments
        PROVE  /\ d.body.reproduced \subseteq reproducedAt'[d.body.sha]
               /\ \A f \in d.body.carried :
                    \E sha \in Shas \ {d.body.sha} : f \in reproducedAt'[sha]
    BY <1>3 DEF IInv, PublishedIsReproduced, BotWritesReviews, Body
  <2>2. /\ c.body.reproduced \subseteq reproducedAt'[c.body.sha]
        /\ \A f \in c.body.carried :
             \E sha \in Shas \ {c.body.sha} : f \in reproducedAt'[sha]
    BY <1>3, RunBodyIsReproduced
  <2>3. QED
    BY <1>7, <2>1, <2>2 DEF PublishedIsReproduced
<1>10. QED
  BY <1>2, <1>5, <1>6, <1>8, <1>9 DEF IInv

(* Editing the bot's own comment keeps the invariant. *)
LEMMA PatchOwnStep ==
  ASSUME IInv, NEW r \in RunIds, NEW c \in thread, PatchOwn(r, c)
  PROVE  IInv'
<1>. DEFINE d == [c EXCEPT !.body = RunBody(r)]
<1>1. run[r].sha \in Shas
  BY DEF IInv, ActiveHasSha, PatchOwn
<1>2. /\ c \in Comment /\ RunBody(r) \in Body
  BY <1>1, RunBodyType DEF IInv, TypeOK
<1>3. /\ d \in Comment /\ d.author = Bot /\ d.body = RunBody(r)
  BY <1>2 DEF PatchOwn, Comment
<1>4. /\ Publishes(r) /\ thread' \subseteq thread \cup {d} /\ posted' \in Nat
      /\ UNCHANGED Outside
  BY DEF PatchOwn, IInv, TypeOK
<1>. HIDE DEF d
<1>5. QED
  BY <1>1, <1>3, <1>4, PublishStep

(* Posting a new comment keeps the invariant. *)
LEMMA PostStep ==
  ASSUME IInv, NEW r \in RunIds, Post(r)
  PROVE  IInv'
<1>. DEFINE d == [id |-> posted + 1, author |-> Bot, body |-> RunBody(r)]
<1>1. run[r].sha \in Shas
  BY DEF IInv, ActiveHasSha, Post
<1>2. RunBody(r) \in Body
  BY <1>1, RunBodyType DEF IInv
<1>3. /\ d \in Comment /\ d.author = Bot /\ d.body = RunBody(r)
  BY <1>2 DEF IInv, TypeOK, Comment
<1>4. /\ Publishes(r) /\ thread' \subseteq thread \cup {d} /\ posted' \in Nat
      /\ UNCHANGED Outside
  BY DEF Post, IInv, TypeOK
<1>. HIDE DEF d
<1>5. QED
  BY <1>1, <1>3, <1>4, PublishStep

(* Every step preserves the inductive invariant. *)
THEOREM NextInv == IInv /\ [Next]_vars => IInv'
<1>. SUFFICES ASSUME IInv, [Next]_vars PROVE IInv'
  OBVIOUS
<1>1. CASE UNCHANGED vars
  BY <1>1 DEF IInv, vars, TypeOK, ActiveHasSha, BotWritesReviews, PreviousIsReproduced,
              PublishedIsReproduced, BotComments
<1>2. CASE PeopleStep
  <2>1. ASSUME NEW s \in Shas, Push(s) PROVE IInv'
    BY <2>1, TriggerStep DEF Push, Thread, IInv, TypeOK
  <2>2. CASE Dispatch
    BY <2>2, TriggerStep DEF Dispatch, Thread, IInv, TypeOK
  <2>3. ASSUME NEW kind \in {"merge", "squash"}, Merge(kind) PROVE IInv'
    <3>1. TypeOK'
      BY <2>3 DEF Merge, IInv, TypeOK
    <3>2. QED
      BY <2>3, <3>1 DEF Merge, IInv, ActiveHasSha, BotWritesReviews, PreviousIsReproduced,
                        PublishedIsReproduced, BotComments
  <2>4. QED
    BY <1>2, <2>1, <2>2, <2>3, PeoplePostStep, DeleteStep DEF PeopleStep
<1>3. ASSUME NEW r \in RunIds, RunStep(r) PROVE IInv'
  <2>1. CASE Fail(r)
    BY <2>1, EndsStep DEF Fail
  <2>2. CASE Cancel(r)
    BY <2>2, EndsStep DEF Cancel
  <2>3. CASE HeadUnknown(r)
    BY <2>3, EndsStep DEF HeadUnknown
  <2>4. CASE PatchMissing(r)
    BY <2>4, EndsStep DEF PatchMissing
  <2>5. QED
    BY <1>3, <2>1, <2>2, <2>3, <2>4, LocalStep, ReadPreviousStep, PatchOwnStep, PostStep
    DEF RunStep, Progress
<1>4. QED
  BY <1>1, <1>2, <1>3 DEF Next

(* Every variable of the publication stage keeps its type. *)
THEOREM TypeCorrect == Spec => []TypeOK
<1>1. IInv => TypeOK
  BY DEF IInv
<1>2. QED
  BY <1>1, InitInv, NextInv, PTL DEF Spec

(* The bot never shows a problem as reproduced at a commit, or as carried over
   from another, unless a run of that commit (of another one) reproduced it. *)
THEOREM PublishedCorrect == Spec => []PublishedIsReproduced
<1>1. IInv => PublishedIsReproduced
  BY DEF IInv
<1>2. QED
  BY <1>1, InitInv, NextInv, PTL DEF Spec
-----------------------------------------------------------------------------
(* What the thread and the runs have to do with each other, and pages and ranks. *)

(* The stages of a lookup, and those that know its result. *)
Looking == {"read", "find"}
Knowing == {"find", "patch", "post"}

(* Comments have one identifier each, and people no more of them than counted. *)
ThreadInv ==
  /\ IsFiniteSet(thread)
  /\ \A c \in thread : c.id \in 1 .. posted
  /\ \A c, d \in thread : c.id = d.id => c = d
  /\ Cardinality({c \in thread : c.author # Bot}) <= peoplePosts
  /\ deletes = 0 => ~shifted

(* What a run knows at each of its stages. *)
StageInv(r) ==
  /\ r > triggered => run[r].pc = "idle"
  /\ run[r].pc \notin Looking => run[r].page = 1
  /\ run[r].pc \notin Knowing => run[r].previous = NoReview
  /\ run[r].pc \in {"whoami"} \cup Looking \cup Knowing => run[r].review \in Reviews
  /\ run[r].pc \in Active => run[r].era <= pushes
  /\ run[r].pc \in Looking \cup Knowing /\ site.readUser => run[r].author = Bot
  /\ run[r].pc = "patch" => run[r].target \in 1 .. posted

RunsInv ==
  /\ triggered \in RunIds /\ pushes <= MaxPushes
  /\ \A r \in RunIds : StageInv(r)
  /\ run[triggered].pc \in Active => run[triggered].sha = head
  /\ run[triggered].pc # "stale"

(* The concurrency group: one run at work, and only the newest one waits. *)
GroupInv ==
  site.serialized =>
    /\ \A r \in RunIds : run[r].pc = "queued" => r = triggered
    /\ \A r, q \in RunIds : run[r].pc \in Active /\ run[q].pc \in Active => r = q
    /\ run[triggered].pc = "done" => \A q \in RunIds : run[q].pc \notin Active

(* Under the group no comment comes from a newer head than a run at work. *)
ErasInv ==
  site.serialized =>
    \A c \in BotComments :
      /\ c.body.era <= pushes
      /\ \A r \in RunIds : run[r].pc \in Active => c.body.era <= run[r].era

(* What the lookups of a run found: the bot's comment is on no page the run has
   left behind, and its state is what the run holds of it. *)
LookupOf(r) ==
  /\ run[r].pc \in Looking =>
       \A c \in BotComments : (run[r].page - 1) * PageSize <= Before(c)
  /\ run[r].pc \in Knowing =>
       /\ \A c \in BotComments : run[r].previous = ParsePreviousReview(c.body)
       /\ deletes = 0 /\ BotComments = {} => run[r].previous = NoReview
  /\ run[r].pc = "patch" =>
       \A c \in thread : c.id = run[r].target => c.author = Bot
  /\ run[r].pc = "post" => BotComments = {}

LookupInv ==
  Supported /\ ~shifted =>
    /\ \A c, d \in BotComments : c = d
    /\ \A r \in RunIds : LookupOf(r)

BoardInv == ThreadInv /\ RunsInv /\ GroupInv /\ ErasInv /\ HeadIsReviewed /\ LookupInv

(* Comments in the order of their identifiers: a nonempty set has a first one. *)
LEMMA FirstComment ==
  ASSUME ThreadInv, NEW C \in SUBSET thread, C # {}
  PROVE  \E c \in C : \A d \in C : c.id <= d.id
<1>. DEFINE UpTo(c) == {d \in C : d.id <= c.id}
            ends == {UpTo(c) : c \in C}
<1>1. IsFiniteSet(C) /\ ends \in SUBSET FiniteSubsetsOf(C) /\ ends # {}
  <2>1. IsFiniteSet(C)
    BY FS_Subset DEF ThreadInv
  <2>2. FiniteSubsetsOf(C) = SUBSET C
    BY <2>1, FS_FiniteSubsetsOfFinite
  <2>3. \A c \in C : UpTo(c) \in FiniteSubsetsOf(C)
    BY <2>2
  <2>4. ends # {}
    OBVIOUS
  <2>. HIDE DEF UpTo
  <2>5. QED
    BY <2>1, <2>3, <2>4
<1>2. PICK e \in ends : \A x \in ends : <<x, e>> \notin StrictSubsetOrdering(C)
  BY <1>1, FS_StrictSubsetOrderingWellFounded, WFMin
<1>3. PICK c \in C : e = UpTo(c)
  OBVIOUS
<1>4. ASSUME NEW d \in C, ~ (c.id <= d.id)
      PROVE  FALSE
  <2>1. c.id \in Nat /\ d.id \in Nat /\ \A x \in C : x.id \in Nat
    BY DEF ThreadInv
  <2>2. UpTo(d) \subseteq UpTo(c) /\ c \in UpTo(c) /\ c \notin UpTo(d)
    BY <1>4, <2>1
  <2>3. <<UpTo(d), UpTo(c)>> \in StrictSubsetOrdering(C)
    BY <2>2 DEF StrictSubsetOrdering
  <2>4. QED
    BY <1>2, <1>3, <2>3
<1>5. QED
  BY <1>4

(* The number of earlier comments grows with the identifier. *)
LEMMA BeforeIsFinite ==
  ASSUME ThreadInv
  PROVE  \A c \in thread : IsFiniteSet({d \in thread : d.id < c.id}) /\ Before(c) \in Nat
<1>. TAKE c \in thread
<1>1. {d \in thread : d.id < c.id} \in SUBSET thread
  OBVIOUS
<1>2. IsFiniteSet({d \in thread : d.id < c.id})
  BY <1>1, FS_Subset DEF ThreadInv
<1>3. QED
  BY <1>2, FS_CardinalityType DEF Before

(* A later comment has more comments before it. *)
LEMMA BeforeGrows ==
  ASSUME ThreadInv, NEW c \in thread, NEW d \in thread, c.id < d.id
  PROVE  Before(c) < Before(d)
<1>. DEFINE C == {x \in thread : x.id < c.id}
            D == {x \in thread : x.id < d.id}
<1>1. IsFiniteSet(C) /\ IsFiniteSet(D) /\ Before(c) = Cardinality(C) /\ Before(d) = Cardinality(D)
      /\ Before(c) \in Nat /\ Before(d) \in Nat
  BY BeforeIsFinite DEF Before
<1>2. c \notin C /\ C \cup {c} \in SUBSET D
  BY DEF ThreadInv
<1>. HIDE DEF C, D
<1>3. Cardinality(C \cup {c}) = Cardinality(C) + 1
  BY <1>1, <1>2, FS_AddElement
<1>4. Cardinality(C \cup {c}) <= Cardinality(D)
  BY <1>1, <1>2, FS_Subset
<1>5. QED
  BY <1>1, <1>3, <1>4

(* No two comments have the same place in the thread. *)
LEMMA BeforeIsInjective ==
  ASSUME ThreadInv, NEW c \in thread, NEW d \in thread, Before(c) = Before(d)
  PROVE  c = d
<1>1. c.id \in Int /\ d.id \in Int
  BY DEF ThreadInv
<1>0. Before(c) \in Nat
  BY BeforeIsFinite
<1>2. ~ (c.id < d.id) /\ ~ (d.id < c.id)
  BY <1>0, <1>1, BeforeGrows
<1>3. QED
  BY <1>1, <1>2 DEF ThreadInv

(* The cardinality of an interval, in the form the counting below needs. *)
LEMMA IntervalSize ==
  ASSUME NEW a \in Nat, NEW b \in Nat, a <= b
  PROVE  IsFiniteSet(a .. b - 1) /\ Cardinality(a .. b - 1) = b - a
<1>1. a \in Int /\ b - 1 \in Int
  OBVIOUS
<1>2. IsFiniteSet(a .. b - 1) /\ Cardinality(a .. b - 1) = IF a > b - 1 THEN 0 ELSE (b - 1) - a + 1
  BY <1>1, FS_Interval, Zenon
<1>3. QED
  BY <1>2

(* Every range of ranks below that of a comment is taken completely. *)
LEMMA RanksAreTaken ==
  ASSUME ThreadInv, NEW c \in thread, NEW a \in Nat, NEW b \in Nat, a <= b, b <= Before(c)
  PROVE  Cardinality({d \in thread : a <= Before(d) /\ Before(d) < b}) = b - a
<1>. DEFINE L == {d \in thread : d.id < c.id}
            n == Before(c)
            rank == [d \in L |-> Before(d)]
            S == {d \in thread : a <= Before(d) /\ Before(d) < b}
            part == [d \in S |-> Before(d)]
<1>1. n \in Nat /\ IsFiniteSet(L) /\ n = Cardinality(L) /\ IsFiniteSet(0 .. n - 1) /\ Cardinality(0 .. n - 1) = n
  <2>1. n \in Nat /\ IsFiniteSet(L) /\ n = Cardinality(L)
    BY BeforeIsFinite DEF Before
  <2>. HIDE DEF n
  <2>2. IsFiniteSet(0 .. n - 1) /\ Cardinality(0 .. n - 1) = n
    BY <2>1, IntervalSize
  <2>3. QED
    BY <2>1, <2>2
<1>2. rank \in Injection(L, 0 .. n - 1)
  <2>1. ASSUME NEW d \in L
        PROVE  Before(d) \in 0 .. n - 1
    <3>1. Before(d) \in Nat /\ n \in Nat
      BY BeforeIsFinite
    <3>2. Before(d) < n
      BY BeforeGrows
    <3>3. QED
      BY <3>1, <3>2
  <2>2. \A d, e \in L : rank[d] = rank[e] => d = e
    BY BeforeIsInjective
  <2>. QED
    BY <2>1, <2>2 DEF Injection, IsInjective
<1>3. rank \in Surjection(L, 0 .. n - 1)
  BY <1>1, <1>2, FS_Injection
<1>4. \A k \in 0 .. n - 1 : \E d \in L : Before(d) = k
  BY <1>3 DEF Surjection
<1>5. part \in Bijection(S, a .. b - 1)
  <2>1. \A d \in S : Before(d) \in a .. b - 1
    <3>1. \A d \in S : Before(d) \in Nat
      BY BeforeIsFinite
    <3>2. QED
      BY <3>1
  <2>2. \A d, e \in S : part[d] = part[e] => d = e
    BY BeforeIsInjective
  <2>3. \A k \in a .. b - 1 : \E d \in S : part[d] = k
    BY <1>1, <1>4
  <2>. QED
    BY <2>1, <2>2, <2>3 DEF Bijection, Injection, Surjection, IsInjective
<1>6. IsFiniteSet(S)
  <2>1. S \in SUBSET thread
    OBVIOUS
  <2>2. QED
    BY <2>1, FS_Subset DEF ThreadInv
<1>7. Cardinality(a .. b - 1) = Cardinality(S)
  BY <1>5, <1>6, FS_Bijection DEF ExistsBijection
<1>8. QED
  BY <1>7, IntervalSize

(* The lookup that comes to its end without the bot's comment is right: there is
   none, as long as no comment was deleted under it and people have not filled
   the pages. *)
LEMMA NotThereIsRight ==
  ASSUME TypeOK, ThreadInv, BotWritesReviews, LookupInv, Supported, ~shifted,
         NEW r \in RunIds, run[r].pc \in Looking, run[r].author = Bot, NotThere(r)
  PROVE  BotComments = {}
<1>. SUFFICES ASSUME NEW c \in BotComments PROVE FALSE
  OBVIOUS
<1>. DEFINE k == run[r].page
            low == (k - 1) * PageSize
            high == k * PageSize
<1>1. /\ k \in Nat /\ k >= 1 /\ k <= Pages /\ PageSize \in Nat /\ PageSize > 0 /\ Pages \in Nat
  BY BoundsAssumption DEF TypeOK, RunState
<1>2. low \in Nat /\ high \in Nat /\ high = low + PageSize /\ low <= high
  BY <1>1
<1>3. c \in thread /\ c.author = Bot /\ Before(c) \in Nat
  BY BeforeIsFinite DEF BotComments
<1>4. c.body.sha # NoSha
  BY SentinelAssumption DEF BotWritesReviews, Body
<1>5. Candidates(Bot, k) = {}
  <2>1. Candidates(Bot, k) \in SUBSET thread
    BY DEF Candidates
  <2>2. QED
    BY <2>1, FirstComment DEF NotThere, Found
<1>6. low <= Before(c)
  BY DEF LookupInv, LookupOf
<1>. HIDE DEF k
<1>7. high <= Before(c)
  <2>1. ~ OnPage(c, k)
    BY <1>3, <1>4, <1>5 DEF Candidates
  <2>. HIDE DEF low, high
  <2>2. low = (k - 1) * PageSize /\ high = k * PageSize
    BY DEF low, high
  <2>3. QED
    BY <1>2, <1>3, <1>6, <2>1, <2>2 DEF OnPage
<1>8. CASE k = Pages
  <2>. DEFINE earlier == {d \in thread : d.id < c.id}
              others == {d \in thread : d.author # Bot}
  <2>1. earlier \in SUBSET others
    BY <1>3 DEF LookupInv, BotComments, ThreadInv
  <2>2. IsFiniteSet(others)
    BY FS_Subset DEF ThreadInv
  <2>3. Cardinality(earlier) <= Cardinality(others)
    BY <2>1, <2>2, FS_Subset
  <2>4. Before(c) = Cardinality(earlier) /\ Cardinality(others) <= peoplePosts
    BY DEF Before, ThreadInv
  <2>5. Cardinality(others) \in Nat /\ peoplePosts \in Nat
    BY <2>2, FS_CardinalityType DEF TypeOK
  <2>6. peoplePosts < high
    BY <1>8 DEF Supported
  <2>. HIDE DEF earlier, others, high
  <2>7. QED
    BY <1>2, <1>3, <1>7, <2>3, <2>4, <2>5, <2>6
<1>9. CASE Cardinality({d \in thread : OnPage(d, k)}) < PageSize
  <2>1. {d \in thread : OnPage(d, k)} = {d \in thread : low <= Before(d) /\ Before(d) < high}
    BY DEF OnPage
  <2>. HIDE DEF low, high
  <2>2. Cardinality({d \in thread : low <= Before(d) /\ Before(d) < high}) = high - low
    BY <1>2, <1>3, <1>7, RanksAreTaken
  <2>3. QED
    BY <1>1, <1>2, <1>9, <2>1, <2>2
<1>10. QED
  BY <1>8, <1>9 DEF NotThere, LastPage, k

(* What the rendered body keeps of a comment whose state the run holds. *)
LEMMA RunBodyKeeps ==
  ASSUME TypeOK, NEW r \in RunIds, site.sha40, NEW body \in Body, body.legible,
         run[r].previous = ParsePreviousReview(body)
  PROVE  /\ body.sha = RunBody(r).sha => body.reproduced \subseteq RunBody(r).reproduced
         /\ \A f \in body.reproduced :
              (\E g \in RunBody(r).reproduced : SameProblem(f, g)) \/ f \in RunBody(r).carried
<1>. DEFINE previous == run[r].previous
            sha == run[r].sha
<1>1. previous = [sha |-> body.sha, reproduced |-> body.reproduced] /\ previous # NoReview
  BY SentinelAssumption DEF ParsePreviousReview, Body
<1>2. previous.sha = body.sha /\ previous.reproduced = body.reproduced /\ RunBody(r).sha = sha
  BY <1>1 DEF RunBody, RenderMarkdown
<1>3. CASE body.sha = sha
  <2>1. RunBody(r).reproduced = body.reproduced \cup run[r].review
    BY <1>1, <1>2, <1>3 DEF RunBody, RenderMarkdown, PreserveReproducedFindings
  <2>2. \A f : SameProblem(f, f)
    BY DEF SameProblem
  <2>3. QED
    BY <2>1, <2>2
<1>4. CASE body.sha # sha
  <2>1. RunBody(r).carried = {g \in body.reproduced : \A f \in RunBody(r).reproduced : ~ SameProblem(g, f)}
    BY <1>1, <1>2, <1>4 DEF RunBody, RenderMarkdown
  <2>2. QED
    BY <1>2, <1>4, <2>1
<1>5. QED
  BY <1>3, <1>4

(* The initial thread is empty, or holds what an earlier version left there. *)
LEMMA InitBoard == Init => BoardInv
<1>. SUFFICES ASSUME Init PROVE BoardInv
  OBVIOUS
<1>1. \A how : /\ [NewRun EXCEPT !.pc = how].pc = how /\ [NewRun EXCEPT !.pc = how].page = 1
               /\ [NewRun EXCEPT !.pc = how].previous = NoReview
  BY DEF NewRun
<1>2. \A r \in RunIds : /\ run[r].pc = IF r = 1 THEN "queued" ELSE "idle"
                        /\ run[r].page = 1 /\ run[r].previous = NoReview
  BY <1>1 DEF Init
<1>3. triggered = 1 /\ triggered \in RunIds /\ pushes = 0 /\ peoplePosts = 0 /\ ~ shifted /\ pushes <= MaxPushes
  BY BoundsAssumption DEF Init
<1>4. RunsInv
  BY <1>2, <1>3 DEF RunsInv, StageInv, Looking, Knowing
<1>5. GroupInv /\ HeadIsReviewed
  BY <1>2, <1>3 DEF GroupInv, HeadIsReviewed
<1>6. \E T : thread \in SUBSET {T} /\ T.id = 1 /\ T.author = Bot /\ T.body.era = 0
  <2>1. CASE thread = {}
    <3>. DEFINE T == [id |-> 1, author |-> Bot, body |-> [era |-> 0]]
    <3>1. thread \in SUBSET {T} /\ T.id = 1 /\ T.author = Bot /\ T.body.era = 0
      BY <2>1
    <3>2. QED
      BY <3>1
  <2>2. ASSUME NEW b \in OldBodies, thread = {[id |-> 1, author |-> Bot, body |-> b]}
        PROVE  \E T : thread \in SUBSET {T} /\ T.id = 1 /\ T.author = Bot /\ T.body.era = 0
    <3>. DEFINE T == [id |-> 1, author |-> Bot, body |-> b]
    <3>1. thread \in SUBSET {T} /\ T.id = 1 /\ T.author = Bot /\ T.body.era = 0
      BY <2>2, OldBodiesAssumption
    <3>2. QED
      BY <3>1
  <2>3. QED
    BY <2>1, <2>2 DEF Init
<1>7. \A c \in thread : c.id = 1 /\ c.author = Bot /\ c.body.era = 0
  BY <1>6
<1>8. \A c, d \in thread : c = d
  BY <1>6
<1>9. ThreadInv
  <2>1. IsFiniteSet(thread)
    BY <1>6, FS_Singleton, FS_Subset
  <2>2. {c \in thread : c.author # Bot} = {}
    BY <1>7
  <2>3. \A c \in thread : c.id \in 1 .. posted
    BY <1>7 DEF Init
  <2>4. QED
    BY <1>3, <1>8, <2>1, <2>2, <2>3, FS_EmptySet DEF ThreadInv
<1>10. ErasInv
  BY <1>2, <1>3, <1>7 DEF ErasInv, BotComments
<1>11. LookupInv
  BY <1>2, <1>8 DEF LookupInv, LookupOf, BotComments, Looking, Knowing
<1>12. QED
  BY <1>4, <1>5, <1>9, <1>10, <1>11 DEF BoardInv
-----------------------------------------------------------------------------
(* The steps of the runs. *)

(* A step of one run that touches nothing outside and starts no work keeps the
   invariant, when it keeps it for that run. *)
LEMMA QuietStep ==
  ASSUME BoardInv, NEW r \in RunIds, UNCHANGED <<Outside, Thread>>,
         \A q \in RunIds \ {r} : run'[q] = run[q],
         run[r].pc \in Active \cup {"queued"},
         run'[r].pc \notin {"idle", "queued", "done"},
         run'[r].pc = "stale" => r # triggered,
         run'[r].pc \in Active =>
           run[r].pc \in Active /\ run'[r].sha = run[r].sha /\ run'[r].era = run[r].era,
         StageInv(r)', Supported /\ ~shifted => LookupOf(r)'
  PROVE  BoardInv'
<1>1. /\ BotComments' = BotComments /\ Supported' = Supported
      /\ \A c : Before(c)' = Before(c)
      /\ \A b : ParsePreviousReview(b)' = ParsePreviousReview(b)
  BY DEF Outside, Thread, BotComments, Supported, Before, ParsePreviousReview
<1>2. /\ UNCHANGED <<site, head, pushes, peoplePosts, deletes, triggered, shifted, thread, posted>>
      /\ triggered \in RunIds
  BY DEF Outside, Thread, BoardInv, RunsInv
<1>3. ThreadInv'
  BY <1>2 DEF BoardInv, ThreadInv
<1>4. RunsInv'
  <2>1. ASSUME NEW q \in RunIds
        PROVE  StageInv(q)'
    <3>1. CASE q # r
      BY <1>2, <3>1 DEF BoardInv, RunsInv, StageInv
    <3>2. QED
      BY <3>1
  <2>2. (run[triggered].pc \in Active => run[triggered].sha = head)'
    BY <1>2 DEF BoardInv, RunsInv
  <2>3. (run[triggered].pc # "stale")'
    BY <1>2 DEF BoardInv, RunsInv
  <2>4. QED
    BY <1>2, <2>1, <2>2, <2>3 DEF BoardInv, RunsInv
<1>5. GroupInv'
  BY <1>2 DEF BoardInv, GroupInv
<1>6. ErasInv'
  BY <1>1, <1>2 DEF BoardInv, ErasInv
<1>7. HeadIsReviewed'
  <2>1. run'[triggered].pc = "done" => run'[triggered] = run[triggered]
    BY <1>2
  <2>2. QED
    BY <1>1, <1>2, <1>4, <2>1 DEF BoardInv, HeadIsReviewed, RunsInv
<1>8. LookupInv'
  <2>1. ASSUME Supported, ~ shifted, NEW q \in RunIds
        PROVE  LookupOf(q)'
    <3>1. CASE q # r
      BY <1>1, <1>2, <2>1, <3>1 DEF BoardInv, LookupInv, LookupOf
    <3>2. QED
      BY <2>1, <3>1
  <2>2. QED
    BY <1>1, <1>2, <2>1 DEF BoardInv, LookupInv
<1>9. QED
  BY <1>3, <1>4, <1>5, <1>6, <1>7, <1>8 DEF BoardInv

(* A run that is given up, or fails, keeps nothing. *)
LEMMA EndsQuietly ==
  ASSUME IInv, BoardInv, NEW r \in RunIds, NEW how \in {"failed", "cancelled", "stale"},
         run[r].pc \in Active \cup {"queued"}, how = "stale" => r # triggered,
         Ends(r, how), UNCHANGED <<Outside, Thread>>
  PROVE  BoardInv'
<1>1. run' = [run EXCEPT ![r] = [NewRun EXCEPT !.pc = how]] /\ run \in [RunIds -> RunState]
  BY DEF Ends, IInv, TypeOK
<1>2. /\ run'[r].pc = how /\ run'[r].page = 1 /\ run'[r].previous = NoReview
      /\ \A q \in RunIds \ {r} : run'[q] = run[q]
  BY <1>1 DEF NewRun
<1>3. r <= triggered
  BY DEF BoardInv, RunsInv, StageInv
<1>4. StageInv(r)'
  BY <1>2, <1>3 DEF StageInv, Outside, Looking, Knowing, BoardInv, RunsInv
<1>5. LookupOf(r)'
  BY <1>2 DEF LookupOf, Looking, Knowing
<1>6. QED
  BY <1>2, <1>4, <1>5, QuietStep

(* The newest run starts on the head of that moment. *)
LEMMA StartBoard ==
  ASSUME IInv, BoardInv, NEW r \in RunIds, Start(r)
  PROVE  BoardInv'
<1>1. run' = [run EXCEPT ![r] = [run[r] EXCEPT !.pc = "review", !.sha = head, !.era = pushes]]
      /\ run \in [RunIds -> RunState] /\ run[r] \in RunState
  BY DEF Start, IInv, TypeOK
<1>2. /\ run'[r].pc = "review" /\ run'[r].sha = head /\ run'[r].era = pushes
      /\ run'[r].page = 1 /\ run'[r].previous = NoReview
      /\ \A q \in RunIds \ {r} : run'[q] = run[q]
  BY <1>1 DEF RunState, Start, BoardInv, RunsInv, StageInv, Looking, Knowing
<1>3. /\ UNCHANGED <<site, head, pushes, peoplePosts, deletes, triggered, shifted, thread, posted>>
      /\ triggered \in RunIds /\ pushes \in Nat
  BY DEF Outside, Thread, BoardInv, RunsInv, Start, IInv, TypeOK
<1>4. /\ BotComments' = BotComments /\ Supported' = Supported
      /\ \A c : Before(c)' = Before(c)
      /\ \A b : ParsePreviousReview(b)' = ParsePreviousReview(b)
  BY <1>3 DEF BotComments, Supported, Before, ParsePreviousReview
<1>5. run[r].pc = "queued" /\ (site.serialized => r = triggered /\ \A q \in RunIds : run[q].pc \notin Active)
  BY DEF Start, BoardInv, GroupInv
<1>6. ThreadInv'
  BY <1>3 DEF BoardInv, ThreadInv
<1>7. RunsInv'
  <2>1. ASSUME NEW q \in RunIds
        PROVE  StageInv(q)'
    <3>1. CASE q # r
      BY <1>2, <1>3, <3>1 DEF BoardInv, RunsInv, StageInv
    <3>2. CASE q = r
      <4>1. r <= triggered
        BY <1>5 DEF BoardInv, RunsInv, StageInv
      <4>2. QED
        BY <1>2, <1>3, <3>2, <4>1 DEF StageInv, Looking, Knowing
    <3>3. QED
      BY <3>1, <3>2
  <2>2. (run[triggered].pc \in Active => run[triggered].sha = head)'
    BY <1>2, <1>3 DEF BoardInv, RunsInv
  <2>3. (run[triggered].pc # "stale")'
    BY <1>2, <1>3 DEF BoardInv, RunsInv
  <2>4. QED
    BY <1>3, <2>1, <2>2, <2>3 DEF BoardInv, RunsInv
<1>8. GroupInv'
  BY <1>2, <1>3, <1>5 DEF BoardInv, GroupInv
<1>9. ErasInv'
  BY <1>2, <1>3, <1>4, <1>5 DEF BoardInv, ErasInv
<1>10. HeadIsReviewed'
  BY <1>2, <1>3, <1>4, <1>7 DEF BoardInv, HeadIsReviewed, RunsInv
<1>11. LookupInv'
  <2>1. ASSUME Supported, ~ shifted, NEW q \in RunIds
        PROVE  LookupOf(q)'
    <3>1. CASE q # r
      BY <1>2, <1>3, <1>4, <2>1, <3>1 DEF BoardInv, LookupInv, LookupOf
    <3>2. CASE q = r
      BY <1>2, <3>2 DEF LookupOf, Looking, Knowing
    <3>3. QED
      BY <3>1, <3>2
  <2>2. QED
    BY <1>3, <1>4, <2>1 DEF BoardInv, LookupInv
<1>12. QED
  BY <1>6, <1>7, <1>8, <1>9, <1>10, <1>11 DEF BoardInv

(* The newest run finds the head it started from; the stale ones are others. *)
LEMMA CheckHeadBoard ==
  ASSUME IInv, BoardInv, NEW r \in RunIds, NEW reproduced \in Reviews, CheckHead(r, reproduced)
  PROVE  BoardInv'
<1>1. run \in [RunIds -> RunState] /\ run[r] \in RunState /\ run[r].pc = "review"
      /\ UNCHANGED <<Outside, Thread>>
  BY DEF CheckHead, IInv, TypeOK
<1>2. CASE head # run[r].sha
  <2>1. r # triggered
    BY <1>1, <1>2 DEF BoardInv, RunsInv
  <2>2. QED
    BY <1>1, <1>2, <2>1, EndsQuietly DEF CheckHead
<1>3. CASE head = run[r].sha
  <2>1. run' = [run EXCEPT ![r] = [run[r] EXCEPT !.review = reproduced, !.pc = "whoami"]]
    BY <1>1, <1>3 DEF CheckHead
  <2>2. /\ run'[r] = [run[r] EXCEPT !.review = reproduced, !.pc = "whoami"]
        /\ \A q \in RunIds \ {r} : run'[q] = run[q]
    BY <1>1, <2>1
  <2>3. /\ run'[r].pc = "whoami" /\ run'[r].review = reproduced /\ run'[r].page = run[r].page
        /\ run'[r].previous = run[r].previous /\ run'[r].sha = run[r].sha /\ run'[r].era = run[r].era
    BY <1>1, <2>2 DEF RunState
  <2>4. StageInv(r)'
    BY <1>1, <2>3 DEF BoardInv, RunsInv, StageInv, Looking, Knowing, Outside
  <2>5. LookupOf(r)'
    BY <2>3 DEF LookupOf, Looking, Knowing
  <2>6. QED
    BY <1>1, <2>2, <2>3, <2>4, <2>5, QuietStep
<1>4. QED
  BY <1>2, <1>3

(* A lookup begins with the first page; only a run that knows its login reads. *)
LEMMA WhoAmIBoard ==
  ASSUME IInv, BoardInv, NEW r \in RunIds, WhoAmI(r)
  PROVE  BoardInv'
<1>. DEFINE author == IF site.readUser THEN Bot ELSE NoAuthor
            pc == IF site.readUser THEN "read" ELSE "find"
<1>1. run \in [RunIds -> RunState] /\ run[r] \in RunState /\ run[r].pc = "whoami"
      /\ UNCHANGED <<Outside, Thread>>
  BY DEF WhoAmI, IInv, TypeOK
<1>2. run' = [run EXCEPT ![r] = [run[r] EXCEPT !.author = author, !.pc = pc]]
  BY <1>1 DEF WhoAmI
<1>3. /\ run'[r] = [run[r] EXCEPT !.author = author, !.pc = pc]
      /\ \A q \in RunIds \ {r} : run'[q] = run[q]
  BY <1>1, <1>2
<1>4. /\ run'[r].pc = pc /\ run'[r].review = run[r].review /\ run'[r].page = run[r].page
      /\ run'[r].previous = run[r].previous /\ run'[r].sha = run[r].sha /\ run'[r].era = run[r].era
      /\ run'[r].author = author
  BY <1>1, <1>3 DEF RunState
<1>5. run[r].page = 1 /\ run[r].previous = NoReview
  BY <1>1 DEF BoardInv, RunsInv, StageInv, Looking, Knowing
<1>6. StageInv(r)'
  BY <1>1, <1>4, <1>5 DEF BoardInv, RunsInv, StageInv, Looking, Knowing, Outside
<1>7. Supported /\ ~ shifted => LookupOf(r)'
  <2>1. ASSUME Supported
        PROVE  run'[r].pc = "read" /\ run'[r].page = 1
    BY <1>4, <1>5, <2>1 DEF Supported
  <2>2. thread' = thread /\ \A c \in BotComments' : (1 - 1) * PageSize <= Before(c)'
    <3>1. thread' = thread
      BY <1>1 DEF Thread
    <3>2. \A c \in BotComments : (1 - 1) * PageSize <= Before(c)
      <4>1. \A c \in BotComments : Before(c) \in Nat
        BY BeforeIsFinite DEF BoardInv, BotComments
      <4>2. (1 - 1) * PageSize = 0
        BY BoundsAssumption
      <4>3. QED
        BY <4>1, <4>2
    <3>3. QED
      BY <3>1, <3>2 DEF BotComments, Before
  <2>3. QED
    BY <2>1, <2>2 DEF LookupOf, Looking, Knowing
<1>8. QED
  BY <1>1, <1>3, <1>4, <1>6, <1>7, QuietStep

(* The next page is asked for when the bot's comment is on none so far. *)
LEMMA NextPageBoard ==
  ASSUME IInv, BoardInv, NEW r \in RunIds, NextPage(r)
  PROVE  BoardInv'
<1>1. run \in [RunIds -> RunState] /\ run[r] \in RunState /\ run[r].pc \in Looking
      /\ UNCHANGED <<Outside, Thread>>
  BY DEF NextPage, IInv, TypeOK, Looking
<1>2. run' = [run EXCEPT ![r] = [run[r] EXCEPT !.page = run[r].page + 1]]
  BY <1>1 DEF NextPage
<1>3. /\ run'[r] = [run[r] EXCEPT !.page = run[r].page + 1]
      /\ \A q \in RunIds \ {r} : run'[q] = run[q]
  BY <1>1, <1>2
<1>4. /\ run'[r].pc = run[r].pc /\ run'[r].review = run[r].review /\ run'[r].page = run[r].page + 1
      /\ run'[r].previous = run[r].previous /\ run'[r].sha = run[r].sha /\ run'[r].era = run[r].era
      /\ run'[r].author = run[r].author /\ run'[r].target = run[r].target
  BY <1>1, <1>3 DEF RunState
<1>5. StageInv(r)'
  BY <1>1, <1>4 DEF BoardInv, RunsInv, StageInv, Looking, Knowing, Outside
<1>6. Supported /\ ~ shifted => LookupOf(r)'
  <2>. SUFFICES ASSUME Supported, ~ shifted PROVE LookupOf(r)'
    OBVIOUS
  <2>1. /\ BotComments' = BotComments /\ \A c : Before(c)' = Before(c)
        /\ \A b : ParsePreviousReview(b)' = ParsePreviousReview(b) /\ deletes' = deletes /\ thread' = thread
    BY <1>1 DEF Outside, Thread, BotComments, Before, ParsePreviousReview
  <2>2. ASSUME NEW c \in BotComments
        PROVE  (run'[r].page - 1) * PageSize <= Before(c)
    <3>. DEFINE k == run[r].page
    <3>1. run[r].author = Bot
      BY <1>1 DEF BoardInv, RunsInv, StageInv, Supported
    <3>2. Candidates(Bot, k) = {}
      <4>1. Candidates(Bot, k) \in SUBSET thread
        BY DEF Candidates
      <4>2. QED
        BY <3>1, <4>1, FirstComment DEF NextPage, Found, BoardInv
    <3>3. c \in thread /\ c.author = Bot /\ c.body.sha # NoSha
      BY SentinelAssumption DEF BotComments, IInv, BotWritesReviews, Body
    <3>4. ~ OnPage(c, k)
      BY <3>2, <3>3 DEF Candidates
    <3>5. (k - 1) * PageSize <= Before(c)
      BY <1>1 DEF BoardInv, LookupInv, LookupOf
    <3>6. Before(c) \in Nat /\ k \in Nat /\ PageSize \in Nat
      <4>1. Before(c) \in Nat
        BY <3>3, BeforeIsFinite DEF BoardInv
      <4>2. QED
        BY <1>1, <4>1, BoundsAssumption DEF RunState
    <3>. HIDE DEF k
    <3>7. k * PageSize <= Before(c)
      BY <3>4, <3>5, <3>6 DEF OnPage
    <3>8. run'[r].page - 1 = k
      BY <1>4, <3>6 DEF k
    <3>9. QED
      BY <3>7, <3>8
  <2>3. LookupOf(r)
    BY DEF BoardInv, LookupInv
  <2>4. \A c \in BotComments' : (run'[r].page - 1) * PageSize <= Before(c)'
    BY <2>1, <2>2
  <2>5. run'[r].pc \notin {"patch", "post"}
    BY <1>1, <1>4 DEF Looking
  <2>6. QED
    BY <1>4, <2>1, <2>3, <2>4, <2>5 DEF LookupOf, Knowing
<1>7. QED
  BY <1>1, <1>3, <1>4, <1>5, <1>6, QuietStep DEF Looking

(* A run that leaves a lookup holds the state of the comment, or there is none. *)
LEMMA ReadPreviousBoard ==
  ASSUME IInv, BoardInv, NEW r \in RunIds, ReadPrevious(r)
  PROVE  BoardInv'
<1>1. run \in [RunIds -> RunState] /\ run[r] \in RunState /\ run[r].pc = "read"
      /\ UNCHANGED <<Outside, Thread>>
  BY DEF ReadPrevious, IInv, TypeOK
<1>2. run[r].previous = NoReview
  BY <1>1 DEF BoardInv, RunsInv, StageInv, Knowing
<1>3. PICK previous :
        /\ run' = [run EXCEPT ![r] = [run[r] EXCEPT !.previous = previous, !.pc = "find", !.page = 1]]
        /\ \/ NotThere(r) /\ previous = NoReview
           \/ \E c \in Found(r) : previous = ParsePreviousReview(c.body)
  <2>1. CASE NotThere(r) /\ run' = [run EXCEPT ![r].pc = "find", ![r].page = 1]
    <3>1. run' = [run EXCEPT ![r] = [run[r] EXCEPT !.previous = NoReview, !.pc = "find", !.page = 1]]
      BY <1>1, <1>2, <2>1 DEF RunState
    <3>2. QED
      BY <2>1, <3>1
  <2>2. ASSUME NEW c \in Found(r),
               run' = [run EXCEPT ![r].previous = ParsePreviousReview(c.body), ![r].pc = "find", ![r].page = 1]
        PROVE  run' = [run EXCEPT ![r] = [run[r] EXCEPT !.previous = ParsePreviousReview(c.body),
                                                        !.pc = "find", !.page = 1]]
    BY <1>1, <2>2
  <2>3. QED
    BY <2>1, <2>2 DEF ReadPrevious
<1>4. /\ run'[r] = [run[r] EXCEPT !.previous = previous, !.pc = "find", !.page = 1]
      /\ \A q \in RunIds \ {r} : run'[q] = run[q]
  BY <1>1, <1>3
<1>5. /\ run'[r].pc = "find" /\ run'[r].review = run[r].review /\ run'[r].page = 1
      /\ run'[r].previous = previous /\ run'[r].sha = run[r].sha /\ run'[r].era = run[r].era
      /\ run'[r].author = run[r].author
  BY <1>1, <1>4 DEF RunState
<1>6. StageInv(r)'
  BY <1>1, <1>5 DEF BoardInv, RunsInv, StageInv, Looking, Knowing, Outside
<1>7. Supported /\ ~ shifted => LookupOf(r)'
  <2>. SUFFICES ASSUME Supported, ~ shifted PROVE LookupOf(r)'
    OBVIOUS
  <2>1. /\ BotComments' = BotComments /\ \A c : Before(c)' = Before(c)
        /\ \A b : ParsePreviousReview(b)' = ParsePreviousReview(b) /\ deletes' = deletes /\ thread' = thread
    BY <1>1 DEF Outside, Thread, BotComments, Before, ParsePreviousReview
  <2>2. run[r].author = Bot
    BY <1>1 DEF BoardInv, RunsInv, StageInv, Supported, Looking
  <2>3. \A c \in BotComments : (1 - 1) * PageSize <= Before(c)
    <3>1. \A c \in BotComments : Before(c) \in Nat
      BY BeforeIsFinite DEF BoardInv, BotComments
    <3>2. (1 - 1) * PageSize = 0
      BY BoundsAssumption
    <3>3. QED
      BY <3>1, <3>2
  <2>4. CASE NotThere(r) /\ previous = NoReview
    <3>1. BotComments = {}
      BY <1>1, <2>2, <2>4, NotThereIsRight DEF IInv, BoardInv, Looking
    <3>2. QED
      BY <1>5, <2>1, <2>4, <3>1 DEF LookupOf
  <2>5. ASSUME NEW c \in Found(r), previous = ParsePreviousReview(c.body)
        PROVE  LookupOf(r)'
    <3>1. c \in BotComments
      BY <2>2, AccountsAssumption DEF Found, Candidates, BotComments
    <3>2. \A d \in BotComments : d = c
      BY <3>1 DEF BoardInv, LookupInv
    <3>3. \A d \in BotComments' : (run'[r].page - 1) * PageSize <= Before(d)'
      BY <1>5, <2>1, <2>3
    <3>4. QED
      BY <1>5, <2>1, <2>5, <3>1, <3>2, <3>3 DEF LookupOf
  <2>6. QED
    BY <1>3, <2>4, <2>5
<1>8. QED
  BY <1>1, <1>4, <1>5, <1>6, <1>7, QuietStep

(* The second lookup finds the bot's comment, or there is none to patch. *)
LEMMA FindCommentBoard ==
  ASSUME IInv, BoardInv, NEW r \in RunIds, FindComment(r)
  PROVE  BoardInv'
<1>1. run \in [RunIds -> RunState] /\ run[r] \in RunState /\ run[r].pc = "find"
      /\ UNCHANGED <<Outside, Thread>>
  BY DEF FindComment, IInv, TypeOK
<1>2. PICK target, pc :
        /\ run' = [run EXCEPT ![r] = [run[r] EXCEPT !.target = target, !.pc = pc, !.page = 1]]
        /\ \/ NotThere(r) /\ pc = "post"
           \/ pc = "patch" /\ \E c \in Found(r) : target = c.id
  <2>1. CASE NotThere(r) /\ run' = [run EXCEPT ![r].pc = "post", ![r].page = 1]
    <3>1. run' = [run EXCEPT ![r] = [run[r] EXCEPT !.target = run[r].target, !.pc = "post", !.page = 1]]
      BY <1>1, <2>1 DEF RunState
    <3>2. QED
      BY <2>1, <3>1
  <2>2. ASSUME NEW c \in Found(r),
               run' = [run EXCEPT ![r].target = c.id, ![r].pc = "patch", ![r].page = 1]
        PROVE  run' = [run EXCEPT ![r] = [run[r] EXCEPT !.target = c.id, !.pc = "patch", !.page = 1]]
    BY <1>1, <2>2
  <2>3. QED
    BY <2>1, <2>2 DEF FindComment
<1>3. /\ run'[r] = [run[r] EXCEPT !.target = target, !.pc = pc, !.page = 1]
      /\ \A q \in RunIds \ {r} : run'[q] = run[q] /\ pc \in {"post", "patch"}
  BY <1>1, <1>2
<1>4. /\ run'[r].pc = pc /\ run'[r].review = run[r].review /\ run'[r].page = 1
      /\ run'[r].previous = run[r].previous /\ run'[r].sha = run[r].sha /\ run'[r].era = run[r].era
      /\ run'[r].author = run[r].author /\ run'[r].target = target
  BY <1>1, <1>3 DEF RunState
<1>5. pc = "patch" => target \in 1 .. posted
  BY <1>2 DEF Found, Candidates, BoardInv, ThreadInv
<1>6. StageInv(r)'
  BY <1>1, <1>2, <1>4, <1>5 DEF BoardInv, RunsInv, StageInv, Looking, Knowing, Outside, Thread
<1>7. Supported /\ ~ shifted => LookupOf(r)'
  <2>. SUFFICES ASSUME Supported, ~ shifted PROVE LookupOf(r)'
    OBVIOUS
  <2>1. /\ BotComments' = BotComments /\ deletes' = deletes /\ thread' = thread
        /\ \A b : ParsePreviousReview(b)' = ParsePreviousReview(b)
    BY <1>1 DEF Outside, Thread, BotComments, ParsePreviousReview
  <2>2. run[r].author = Bot
    BY <1>1 DEF BoardInv, RunsInv, StageInv, Supported, Looking
  <2>3. LookupOf(r)
    BY DEF BoardInv, LookupInv
  <2>4. pc = "post" => BotComments = {}
    BY <1>1, <1>2, <2>2, NotThereIsRight DEF IInv, BoardInv, Looking
  <2>5. pc = "patch" => \A c \in thread : c.id = target => c.author = Bot
    BY <1>2, <2>2, AccountsAssumption DEF Found, Candidates, BoardInv, ThreadInv
  <2>6. pc \in Knowing /\ pc \notin Looking /\ run[r].pc \in Knowing
    BY <1>1, <1>2 DEF Looking, Knowing
  <2>7. QED
    BY <1>4, <2>1, <2>3, <2>4, <2>5, <2>6 DEF LookupOf
<1>8. QED
  BY <1>1, <1>2, <1>3, <1>4, <1>6, <1>7, QuietStep

(* A forbidden edit is posted anew; it does not happen to the bot's comment. *)
LEMMA PatchForbiddenBoard ==
  ASSUME IInv, BoardInv, NEW r \in RunIds, NEW c \in thread, PatchForbidden(r, c)
  PROVE  BoardInv'
<1>1. run \in [RunIds -> RunState] /\ run[r] \in RunState /\ run[r].pc = "patch"
      /\ UNCHANGED <<Outside, Thread>>
  BY DEF PatchForbidden, IInv, TypeOK
<1>2. run' = [run EXCEPT ![r] = [run[r] EXCEPT !.pc = "post"]]
  BY <1>1 DEF PatchForbidden
<1>3. /\ run'[r] = [run[r] EXCEPT !.pc = "post"]
      /\ \A q \in RunIds \ {r} : run'[q] = run[q]
  BY <1>1, <1>2
<1>4. /\ run'[r].pc = "post" /\ run'[r].review = run[r].review /\ run'[r].page = run[r].page
      /\ run'[r].previous = run[r].previous /\ run'[r].sha = run[r].sha /\ run'[r].era = run[r].era
      /\ run'[r].author = run[r].author
  BY <1>1, <1>3 DEF RunState
<1>5. StageInv(r)'
  BY <1>1, <1>4 DEF BoardInv, RunsInv, StageInv, Looking, Knowing, Outside
<1>6. ~ (Supported /\ ~ shifted)
  BY <1>1 DEF PatchForbidden, BoardInv, LookupInv, LookupOf
<1>7. QED
  BY <1>1, <1>3, <1>4, <1>5, <1>6, QuietStep
-----------------------------------------------------------------------------
(* The steps of people. *)

(* A new run waits, and what waited before it in the group is given up. *)
LEMMA TriggerBoard ==
  ASSUME IInv, BoardInv, Trigger, UNCHANGED Thread,
         UNCHANGED <<site, merged, peoplePosts, deletes, shifted>>,
         pushes' \in Nat, pushes' <= MaxPushes, pushes <= pushes'
  PROVE  BoardInv'
<1>. DEFINE new == triggered + 1
<1>1. /\ triggered \in RunIds /\ new \in RunIds /\ triggered' = new /\ new # triggered
      /\ pushes \in Nat
  BY BoundsAssumption DEF Trigger, BoardInv, RunsInv, IInv, TypeOK
<1>. HIDE DEF new
<1>2. \A q \in RunIds :
        /\ q = new => run[q].pc = "idle" /\ run'[q].pc = "queued"
        /\ q # new => run'[q].pc = IF site.serialized /\ run[q].pc = "queued" THEN "cancelled" ELSE run[q].pc
        /\ run'[q].page = run[q].page /\ run'[q].previous = run[q].previous /\ run'[q].sha = run[q].sha
        /\ run'[q].era = run[q].era /\ run'[q].review = run[q].review /\ run'[q].author = run[q].author
        /\ run'[q].target = run[q].target
  BY <1>1 DEF Trigger, BoardInv, RunsInv, StageInv, IInv, TypeOK, RunState, new
<1>3. /\ UNCHANGED <<site, peoplePosts, deletes, shifted, thread, posted>>
      /\ BotComments' = BotComments /\ Supported' = Supported
      /\ \A c : Before(c)' = Before(c)
      /\ \A b : ParsePreviousReview(b)' = ParsePreviousReview(b)
  BY DEF Thread, BotComments, Supported, Before, ParsePreviousReview
<1>4. ThreadInv'
  BY <1>3 DEF BoardInv, ThreadInv
<1>5. ASSUME NEW q \in RunIds
      PROVE  /\ run'[q].pc \in Active => run'[q].pc = run[q].pc
             /\ run'[q].pc = "done" => run[q].pc = "done"
             /\ run'[q].pc = "queued" => q = new \/ (run[q].pc = "queued" /\ ~ site.serialized)
  BY <1>2
<1>6. RunsInv'
  <2>1. ASSUME NEW q \in RunIds
        PROVE  StageInv(q)'
    <3>1. run[q].era \in Nat
      BY DEF IInv, TypeOK, RunState
    <3>2. StageInv(q)
      BY DEF BoardInv, RunsInv
    <3>3. (run[q].pc \in Active => run[q].era <= pushes)'
      BY <1>1, <1>2, <1>5, <3>1, <3>2 DEF StageInv
    <3>4. (q > triggered => run[q].pc = "idle")'
      BY <1>1, <1>2, <3>2 DEF StageInv, new
    <3>5. QED
      BY <1>2, <1>3, <3>2, <3>3, <3>4 DEF StageInv, Looking, Knowing
  <2>2. run'[triggered'].pc = "queued"
    BY <1>1, <1>2
  <2>3. QED
    BY <1>1, <2>1, <2>2 DEF RunsInv
<1>7. GroupInv'
  BY <1>1, <1>2, <1>3, <1>5 DEF BoardInv, GroupInv
<1>8. ErasInv'
  <2>1. \A c \in BotComments : site.serialized => c.body.era <= pushes'
    <3>1. \A c \in BotComments : c.body.era \in Nat
      BY DEF IInv, BotWritesReviews, Body
    <3>2. QED
      BY <1>1, <3>1 DEF BoardInv, ErasInv
  <2>2. QED
    BY <1>2, <1>3, <1>5, <2>1 DEF BoardInv, ErasInv
<1>9. HeadIsReviewed'
  BY <1>1, <1>2 DEF HeadIsReviewed
<1>10. LookupInv'
  <2>1. ASSUME Supported, ~ shifted, NEW q \in RunIds
        PROVE  LookupOf(q)'
    BY <1>2, <1>3, <1>5, <2>1 DEF BoardInv, LookupInv, LookupOf, Looking, Knowing
  <2>2. QED
    BY <1>3, <2>1 DEF BoardInv, LookupInv
<1>11. QED
  BY <1>4, <1>6, <1>7, <1>8, <1>9, <1>10 DEF BoardInv

(* A merge moves nothing that publication looks at. *)
LEMMA MergeBoard ==
  ASSUME BoardInv, NEW kind, Merge(kind)
  PROVE  BoardInv'
<1>1. /\ BotComments' = BotComments /\ Supported' = Supported
      /\ \A c : Before(c)' = Before(c)
      /\ \A b : ParsePreviousReview(b)' = ParsePreviousReview(b)
  BY DEF Merge, BotComments, Supported, Before, ParsePreviousReview
<1>2. ThreadInv' /\ RunsInv' /\ GroupInv' /\ ErasInv' /\ HeadIsReviewed'
  BY <1>1 DEF Merge, BoardInv, ThreadInv, RunsInv, StageInv, GroupInv, ErasInv, HeadIsReviewed
<1>3. LookupInv'
  BY <1>1 DEF Merge, BoardInv, LookupInv, LookupOf
<1>4. QED
  BY <1>2, <1>3 DEF BoardInv

(* What people write comes after every comment of the bot. *)
LEMMA PeoplePostBoard ==
  ASSUME IInv, BoardInv, NEW p \in People, NEW body \in PeopleBodies, PeoplePost(p, body)
  PROVE  BoardInv'
<1>. DEFINE new == [id |-> posted + 1, author |-> p, body |-> body]
<1>1. /\ UNCHANGED <<site, head, pushes, deletes, triggered, run, shifted>>
      /\ thread' = thread \cup {new} /\ posted' = posted + 1 /\ peoplePosts' = peoplePosts + 1
      /\ posted \in Nat /\ peoplePosts \in Nat
  BY DEF PeoplePost, IInv, TypeOK
<1>2. new.id = posted + 1 /\ new.author = p /\ p # Bot
  BY AccountsAssumption
<1>. HIDE DEF new
<1>3. new \notin thread /\ \A c \in thread : c.id < new.id
  BY <1>1, <1>2 DEF BoardInv, ThreadInv
<1>4. BotComments' = BotComments
  BY <1>1, <1>2 DEF BotComments
<1>5. \A c \in BotComments : Before(c)' = Before(c)
  <2>1. ASSUME NEW c \in thread
        PROVE  {d \in thread' : d.id < c.id} = {d \in thread : d.id < c.id}
    <3>1. ~ (new.id < c.id)
      BY <1>1, <1>2 DEF BoardInv, ThreadInv
    <3>2. QED
      BY <1>1, <3>1
  <2>2. QED
    BY <2>1 DEF Before, BotComments
<1>6. Supported' => Supported
  <2>1. Pages * PageSize \in Nat
    BY BoundsAssumption
  <2>2. QED
    BY <1>1, <2>1 DEF Supported
<1>7. \A b : ParsePreviousReview(b)' = ParsePreviousReview(b)
  BY <1>1 DEF ParsePreviousReview
<1>8. ThreadInv'
  <2>. DEFINE others == {c \in thread : c.author # Bot}
  <2>1. others \in SUBSET thread /\ IsFiniteSet(thread) /\ IsFiniteSet(others)
    BY FS_Subset DEF BoardInv, ThreadInv
  <2>2. {c \in thread' : c.author # Bot} = others \cup {new}
    BY <1>1, <1>2
  <2>3. Cardinality(others) \in Nat /\ Cardinality(others) <= peoplePosts
    BY <2>1, FS_CardinalityType DEF BoardInv, ThreadInv
  <2>4. IsFiniteSet(thread')
    BY <1>1, <2>1, FS_AddElement
  <2>5. Cardinality({c \in thread' : c.author # Bot}) <= peoplePosts'
    <3>1. new \notin others
      BY <1>3
    <3>. HIDE DEF others
    <3>2. Cardinality(others \cup {new}) = Cardinality(others) + 1
      BY <2>1, <3>1, FS_AddElement
    <3>3. Cardinality({c \in thread' : c.author # Bot}) = Cardinality(others) + 1
      BY <2>2, <3>2, Zenon
    <3>4. Cardinality(others) + 1 <= peoplePosts'
      BY <1>1, <2>3
    <3>5. QED
      BY <3>3, <3>4, Zenon
  <2>6. (\A c \in thread : c.id \in 1 .. posted)' /\ (\A c, d \in thread : c.id = d.id => c = d)'
    BY <1>1, <1>2, <1>3 DEF BoardInv, ThreadInv
  <2>7. QED
    BY <1>1, <2>4, <2>5, <2>6 DEF BoardInv, ThreadInv
<1>9. RunsInv'
  BY <1>1 DEF BoardInv, RunsInv, StageInv
<1>10. GroupInv' /\ ErasInv' /\ HeadIsReviewed'
  BY <1>1, <1>4 DEF BoardInv, GroupInv, ErasInv, HeadIsReviewed
<1>11. LookupInv'
  <2>1. ASSUME Supported, ~ shifted, NEW q \in RunIds
        PROVE  LookupOf(q)'
    <3>1. LookupOf(q)
      BY <2>1 DEF BoardInv, LookupInv
    <3>2. (run[q].pc = "patch" => \A c \in thread : c.id = run[q].target => c.author = Bot)'
      <4>1. run[q].pc = "patch" => new.id # run[q].target
        BY <1>1, <1>2 DEF BoardInv, RunsInv, StageInv
      <4>2. QED
        BY <1>1, <3>1, <4>1 DEF LookupOf
    <3>3. QED
      BY <1>1, <1>4, <1>5, <1>7, <3>1, <3>2 DEF LookupOf
  <2>2. QED
    BY <1>1, <1>4, <1>6, <2>1 DEF BoardInv, LookupInv
<1>12. QED
  BY <1>8, <1>9, <1>10, <1>11 DEF BoardInv

(* A deletion under a lookup is what `shifted` excludes. *)
LEMMA DeleteBoard ==
  ASSUME IInv, BoardInv, NEW c \in thread, Delete(c)
  PROVE  BoardInv'
<1>1. /\ UNCHANGED <<site, head, pushes, posted, peoplePosts, triggered, run>>
      /\ thread' = thread \ {c} /\ deletes' = deletes + 1 /\ deletes \in Nat
      /\ ~ shifted' => ~ shifted /\ \A q \in RunIds : ~ (run[q].page > 1)
  BY DEF Delete, IInv, TypeOK
<1>2. BotComments' \subseteq BotComments /\ deletes' # 0
  BY <1>1 DEF BotComments
<1>3. ThreadInv'
  <2>1. thread' \in SUBSET thread /\ IsFiniteSet(thread) /\ IsFiniteSet(thread')
    BY <1>1, FS_Subset DEF BoardInv, ThreadInv
  <2>2. {d \in thread' : d.author # Bot} \in SUBSET {d \in thread : d.author # Bot}
        /\ {d \in thread : d.author # Bot} \in SUBSET thread
    BY <2>1
  <2>3. Cardinality({d \in thread' : d.author # Bot}) <= Cardinality({d \in thread : d.author # Bot})
        /\ Cardinality({d \in thread' : d.author # Bot}) \in Nat
        /\ Cardinality({d \in thread : d.author # Bot}) \in Nat
    BY <2>1, <2>2, FS_Subset, FS_CardinalityType
  <2>4. Cardinality({d \in thread' : d.author # Bot}) <= peoplePosts /\ peoplePosts \in Nat
    BY <2>3 DEF BoardInv, ThreadInv, IInv, TypeOK
  <2>5. QED
    BY <1>1, <1>2, <2>1, <2>4 DEF BoardInv, ThreadInv
<1>4. RunsInv'
  BY <1>1 DEF BoardInv, RunsInv, StageInv
<1>5. GroupInv'
  BY <1>1 DEF BoardInv, GroupInv
<1>6. ErasInv'
  BY <1>1, <1>2 DEF BoardInv, ErasInv
<1>7. HeadIsReviewed'
  BY <1>1, <1>2 DEF BoardInv, HeadIsReviewed
<1>8. LookupInv'
  <2>. SUFFICES ASSUME Supported', ~ shifted' PROVE LookupInv'
    BY DEF LookupInv
  <2>1. Supported /\ ~ shifted
    BY <1>1 DEF Supported
  <2>2. ASSUME NEW q \in RunIds
        PROVE  LookupOf(q)'
    <3>1. LookupOf(q)
      BY <2>1 DEF BoardInv, LookupInv
    <3>2. \A d \in BotComments' : (run'[q].page - 1) * PageSize <= Before(d)'
      <4>1. run'[q].page = 1
        BY <1>1 DEF IInv, TypeOK, RunState
      <4>2. (1 - 1) * PageSize = 0
        BY BoundsAssumption
      <4>3. \A d \in BotComments' : Before(d)' \in Nat
        <5>1. ASSUME NEW d \in thread'
              PROVE  Before(d)' \in Nat
          <6>1. {x \in thread' : x.id < d.id} \in SUBSET thread' /\ IsFiniteSet(thread')
            BY <1>3 DEF ThreadInv
          <6>2. QED
            BY <6>1, FS_Subset, FS_CardinalityType DEF Before
        <5>2. QED
          BY <5>1 DEF BotComments
      <4>4. QED
        BY <4>1, <4>2, <4>3
    <3>3. \A b : ParsePreviousReview(b)' = ParsePreviousReview(b)
      BY <1>1 DEF ParsePreviousReview
    <3>4. QED
      BY <1>1, <1>2, <3>1, <3>2, <3>3 DEF LookupOf
  <2>3. QED
    BY <1>2, <2>1, <2>2 DEF BoardInv, LookupInv
<1>9. QED
  BY <1>3, <1>4, <1>5, <1>6, <1>7, <1>8 DEF BoardInv
-----------------------------------------------------------------------------
(* The steps that publish. *)

(* What the rendered body says of its run. *)
LEMMA RunBodySays ==
  ASSUME NEW r \in RunIds
  PROVE  /\ RunBody(r).sha = run[r].sha /\ RunBody(r).era = run[r].era
         /\ run[r].review \subseteq RunBody(r).reproduced /\ RunBody(r).legible
BY DEF RunBody, RenderMarkdown, PreserveReproducedFindings

(* The run that publishes ends with the body in the thread. *)
LEMMA PublishBoard ==
  ASSUME IInv, BoardInv, NEW r \in RunIds, run[r].pc \in {"patch", "post"}, Publishes(r),
         UNCHANGED Outside, ThreadInv', posted' \in Nat, posted <= posted',
         NEW c, c \in BotComments', c.body = RunBody(r), BotComments' \subseteq BotComments \cup {c},
         Supported /\ ~ shifted => BotComments' = {c}
  PROVE  BoardInv'
<1>1. /\ UNCHANGED <<site, head, pushes, peoplePosts, deletes, triggered, shifted>>
      /\ triggered \in RunIds /\ posted \in Nat /\ run \in [RunIds -> RunState]
  BY DEF Outside, BoardInv, RunsInv, IInv, TypeOK
<1>2. /\ run'[r].pc \in {"done", "failed"} /\ run'[r].page = 1 /\ run'[r].previous = NoReview
      /\ run'[r].pc = "done" => run'[r].review = run[r].review
      /\ \A q \in RunIds \ {r} : run'[q] = run[q]
  <2>1. PICK end :
          /\ run' = [run EXCEPT ![r] = end]
          /\ \/ end = [NewRun EXCEPT !.pc = "done", !.review = run[r].review]
             \/ end = [NewRun EXCEPT !.pc = "failed"]
    BY DEF Publishes, Ends
  <2>2. /\ end.pc \in {"done", "failed"} /\ end.page = 1 /\ end.previous = NoReview
        /\ end.pc = "done" => end.review = run[r].review
    BY <2>1 DEF NewRun
  <2>3. QED
    BY <1>1, <2>1, <2>2
<1>3. /\ c.body.sha = run[r].sha /\ c.body.era = run[r].era /\ run[r].era <= pushes
      /\ run[r].review \subseteq c.body.reproduced
  BY RunBodySays DEF BoardInv, RunsInv, StageInv
<1>4. site.serialized => \A q \in RunIds : q # r => run[q].pc \notin Active
  BY DEF BoardInv, GroupInv
<1>5. RunsInv'
  <2>1. ASSUME NEW q \in RunIds
        PROVE  StageInv(q)'
    <3>1. CASE q # r
      BY <1>1, <1>2, <3>1 DEF BoardInv, RunsInv, StageInv
    <3>2. CASE q = r
      <4>1. r <= triggered
        BY DEF BoardInv, RunsInv, StageInv
      <4>2. QED
        BY <1>1, <1>2, <3>2, <4>1 DEF StageInv, Looking, Knowing
    <3>3. QED
      BY <3>1, <3>2
  <2>2. QED
    BY <1>1, <1>2, <2>1 DEF BoardInv, RunsInv
<1>6. GroupInv'
  BY <1>1, <1>2, <1>4 DEF BoardInv, GroupInv
<1>7. ErasInv'
  BY <1>1, <1>2, <1>3, <1>4 DEF BoardInv, ErasInv
<1>8. HeadIsReviewed'
  <2>1. (run[triggered].pc # "stale")'
    BY <1>5 DEF RunsInv
  <2>2. ASSUME site.serialized, run'[triggered].pc = "done"
        PROVE  \E d \in BotComments' : d.body.sha = head /\ run'[triggered].review \subseteq d.body.reproduced
    <3>1. r = triggered
      BY <1>2, <1>1, <2>2 DEF BoardInv, GroupInv
    <3>2. run[r].sha = head
      BY <3>1 DEF BoardInv, RunsInv
    <3>3. QED
      BY <1>2, <1>3, <2>2, <3>1, <3>2
  <2>3. QED
    BY <1>1, <2>1, <2>2 DEF HeadIsReviewed
<1>9. LookupInv'
  <2>1. Supported' => Supported
    BY <1>1 DEF Supported
  <2>2. ASSUME Supported, ~ shifted, NEW q \in RunIds
        PROVE  LookupOf(q)'
    BY <1>2, <1>4, <2>2 DEF LookupOf, Looking, Knowing, Supported
  <2>3. QED
    BY <1>1, <2>1, <2>2 DEF LookupInv
<1>10. QED
  BY <1>5, <1>6, <1>7, <1>8, <1>9 DEF BoardInv

(* Editing the bot's comment leaves it in its place. *)
LEMMA PatchOwnBoard ==
  ASSUME IInv, BoardInv, NEW r \in RunIds, NEW c \in thread, PatchOwn(r, c)
  PROVE  BoardInv'
<1>. DEFINE new == [c EXCEPT !.body = RunBody(r)]
<1>1. /\ thread' = (thread \ {c}) \cup {new} /\ UNCHANGED Outside /\ posted' = posted
      /\ posted \in Nat /\ peoplePosts' = peoplePosts /\ deletes' = deletes /\ shifted' = shifted
      /\ run[r].pc = "patch" /\ Publishes(r)
  BY DEF PatchOwn, Outside, IInv, TypeOK
<1>2. new.id = c.id /\ new.author = Bot /\ c.author = Bot /\ new.body = RunBody(r)
  BY DEF PatchOwn, IInv, TypeOK, Comment
<1>. HIDE DEF new
<1>3. c \in BotComments /\ new \in BotComments' /\ BotComments' = (BotComments \ {c}) \cup {new}
  BY <1>1, <1>2 DEF BotComments
<1>4. ThreadInv'
  <2>1. IsFiniteSet(thread')
    <3>1. IsFiniteSet(thread \ {c})
      BY FS_Subset DEF BoardInv, ThreadInv
    <3>2. QED
      BY <1>1, <3>1, FS_AddElement
  <2>2. {d \in thread' : d.author # Bot} = {d \in thread : d.author # Bot}
    BY <1>1, <1>2
  <2>3. Cardinality({d \in thread' : d.author # Bot}) <= peoplePosts'
    BY <1>1, <2>2 DEF BoardInv, ThreadInv
  <2>4. (\A d \in thread : d.id \in 1 .. posted)' /\ (\A d, e \in thread : d.id = e.id => d = e)'
    BY <1>1, <1>2 DEF BoardInv, ThreadInv
  <2>5. QED
    BY <1>1, <2>1, <2>3, <2>4 DEF BoardInv, ThreadInv
<1>5. Supported /\ ~ shifted => BotComments' = {new}
  BY <1>3 DEF BoardInv, LookupInv
<1>6. QED
  BY <1>1, <1>2, <1>3, <1>4, <1>5, PublishBoard

(* Posting is for a thread without a comment of the bot. *)
LEMMA PostBoard ==
  ASSUME IInv, BoardInv, NEW r \in RunIds, Post(r)
  PROVE  BoardInv'
<1>. DEFINE new == [id |-> posted + 1, author |-> Bot, body |-> RunBody(r)]
<1>1. /\ thread' = thread \cup {new} /\ UNCHANGED Outside /\ posted' = posted + 1
      /\ posted \in Nat /\ peoplePosts' = peoplePosts /\ deletes' = deletes /\ shifted' = shifted
      /\ run[r].pc = "post" /\ Publishes(r)
  BY DEF Post, Outside, IInv, TypeOK
<1>2. new.id = posted + 1 /\ new.author = Bot /\ new.body = RunBody(r)
  OBVIOUS
<1>. HIDE DEF new
<1>3. new \in BotComments' /\ BotComments' = BotComments \cup {new}
  BY <1>1, <1>2 DEF BotComments
<1>4. ThreadInv'
  <2>1. IsFiniteSet(thread')
    BY <1>1, FS_AddElement DEF BoardInv, ThreadInv
  <2>2. {d \in thread' : d.author # Bot} = {d \in thread : d.author # Bot}
    BY <1>1, <1>2
  <2>3. Cardinality({d \in thread' : d.author # Bot}) <= peoplePosts'
    BY <1>1, <2>2 DEF BoardInv, ThreadInv
  <2>4. (\A d \in thread : d.id \in 1 .. posted)' /\ (\A d, e \in thread : d.id = e.id => d = e)'
    BY <1>1, <1>2 DEF BoardInv, ThreadInv
  <2>5. QED
    BY <1>1, <2>1, <2>3, <2>4 DEF BoardInv, ThreadInv
<1>5. Supported /\ ~ shifted => BotComments' = {new}
  BY <1>1, <1>3 DEF BoardInv, LookupInv, LookupOf
<1>6. posted' \in Nat /\ posted <= posted' /\ BotComments' \subseteq BotComments \cup {new}
  BY <1>1, <1>3
<1>7. QED
  BY <1>1, <1>2, <1>3, <1>4, <1>5, <1>6, PublishBoard

(* Every step preserves what the thread and the runs have to do with each other. *)
THEOREM NextBoard == IInv /\ BoardInv /\ [Next]_vars => BoardInv'
<1>. SUFFICES ASSUME IInv, BoardInv, [Next]_vars PROVE BoardInv'
  OBVIOUS
<1>1. CASE UNCHANGED vars
  <2>1. /\ BotComments' = BotComments /\ Supported' = Supported
        /\ \A c : Before(c)' = Before(c)
        /\ \A b : ParsePreviousReview(b)' = ParsePreviousReview(b)
    BY <1>1 DEF vars, BotComments, Supported, Before, ParsePreviousReview
  <2>2. ThreadInv' /\ RunsInv' /\ GroupInv' /\ ErasInv' /\ HeadIsReviewed'
    BY <1>1, <2>1 DEF vars, BoardInv, ThreadInv, RunsInv, StageInv, GroupInv, ErasInv, HeadIsReviewed
  <2>3. LookupInv'
    BY <1>1, <2>1 DEF vars, BoardInv, LookupInv, LookupOf
  <2>4. QED
    BY <2>2, <2>3 DEF BoardInv
<1>2. CASE PeopleStep
  <2>1. ASSUME NEW s \in Shas, Push(s) PROVE BoardInv'
    <3>1. pushes' \in Nat /\ pushes' <= MaxPushes /\ pushes <= pushes'
      BY <2>1, BoundsAssumption DEF Push, IInv, TypeOK
    <3>2. QED
      BY <2>1, <3>1, TriggerBoard DEF Push, Thread
  <2>2. CASE Dispatch
    <3>1. pushes' \in Nat /\ pushes' <= MaxPushes /\ pushes <= pushes'
      BY <2>2 DEF Dispatch, IInv, TypeOK, BoardInv, RunsInv
    <3>2. QED
      BY <2>2, <3>1, TriggerBoard DEF Dispatch, Thread
  <2>3. QED
    BY <1>2, <2>1, <2>2, MergeBoard, PeoplePostBoard, DeleteBoard DEF PeopleStep
<1>3. ASSUME NEW r \in RunIds, RunStep(r) PROVE BoardInv'
  <2>1. CASE Fail(r)
    BY <2>1, EndsQuietly DEF Fail
  <2>2. CASE Cancel(r)
    BY <2>2, EndsQuietly DEF Cancel
  <2>3. CASE HeadUnknown(r)
    BY <2>3, EndsQuietly DEF HeadUnknown
  <2>4. CASE PatchMissing(r)
    BY <2>4, EndsQuietly DEF PatchMissing
  <2>5. QED
    BY <1>3, <2>1, <2>2, <2>3, <2>4, StartBoard, CheckHeadBoard, WhoAmIBoard, NextPageBoard,
       ReadPreviousBoard, FindCommentBoard, PatchForbiddenBoard, PatchOwnBoard, PostBoard
    DEF RunStep, Progress
<1>4. QED
  BY <1>1, <1>2, <1>3 DEF Next
-----------------------------------------------------------------------------
(* The properties. *)

(* The whole invariant holds in every state. *)
LEMMA BoardHolds == Spec => [](IInv /\ BoardInv)
<1>1. Init => IInv /\ BoardInv
  BY InitInv, InitBoard
<1>2. IInv /\ BoardInv /\ [Next]_vars => (IInv /\ BoardInv)'
  BY NextInv, NextBoard
<1>3. QED
  BY <1>1, <1>2, PTL DEF Spec

(* In the deployment the README asks for, and as long as no comment is deleted
   under a lookup, a pull request has at most one comment of the bot. *)
THEOREM OneBotCommentHolds == Spec => []OneBotComment
<1>1. LookupInv => OneBotComment
  <2>1. ASSUME \A c, d \in BotComments : c = d
        PROVE  Cardinality(BotComments) <= 1
    <3>1. CASE BotComments = {}
      BY <3>1, FS_EmptySet
    <3>2. ASSUME NEW c \in BotComments
          PROVE  Cardinality(BotComments) <= 1
      <4>1. BotComments = {c}
        BY <2>1, <3>2
      <4>2. Cardinality({c}) = 1
        BY FS_Singleton
      <4>3. QED
        BY <4>1, <4>2
    <3>3. QED
      BY <3>1, <3>2
  <2>2. QED
    BY <2>1 DEF LookupInv, OneBotComment
<1>2. QED
  BY <1>1, BoardHolds, PTL DEF BoardInv

(* The run triggered last is never turned away as stale, and once it published
   the thread shows a review of the head with all it reproduced. *)
THEOREM HeadIsReviewedHolds == Spec => []HeadIsReviewed
BY BoardHolds, PTL DEF BoardInv

(* Only the PATCH of a run changes what a comment of the bot says. *)
LEMMA OnlyPatchEdits ==
  ASSUME IInv, BoardInv, [Next]_vars, NEW c \in BotComments, NEW d \in thread', c.id = d.id, c # d
  PROVE  \E r \in RunIds : PatchOwn(r, c) /\ c.body \in Body /\ d.body = RunBody(r)
<1>1. c \in thread /\ c \in Comment /\ c.id # posted + 1 /\ c.body \in Body
  BY DEF BoardInv, ThreadInv, IInv, TypeOK, BotComments, BotWritesReviews
<1>2. d \notin thread
  BY <1>1 DEF BoardInv, ThreadInv
<1>3. ASSUME NEW r \in RunIds, NEW e \in thread, PatchOwn(r, e)
      PROVE  PatchOwn(r, c) /\ d.body = RunBody(r)
  <2>1. d = [e EXCEPT !.body = RunBody(r)] /\ e \in Comment
    BY <1>2, <1>3 DEF PatchOwn, IInv, TypeOK
  <2>2. d.id = e.id /\ d.body = RunBody(r)
    BY <2>1 DEF Comment
  <2>3. e = c
    BY <1>1, <2>2 DEF BoardInv, ThreadInv
  <2>4. QED
    BY <1>3, <2>2, <2>3
<1>4. ASSUME thread' \subseteq thread
      PROVE  FALSE
  BY <1>2, <1>4
<1>5. ASSUME NEW p \in People, NEW body \in PeopleBodies, PeoplePost(p, body)
      PROVE  FALSE
  BY <1>1, <1>2, <1>5 DEF PeoplePost
<1>6. ASSUME NEW r \in RunIds, Post(r)
      PROVE  FALSE
  BY <1>1, <1>2, <1>6 DEF Post
<1>7. \/ thread' \subseteq thread
      \/ \E r \in RunIds, e \in thread : PatchOwn(r, e)
      \/ \E p \in People, body \in PeopleBodies : PeoplePost(p, body)
      \/ \E r \in RunIds : Post(r)
  <2>1. CASE UNCHANGED vars
    BY <2>1 DEF vars
  <2>2. CASE PeopleStep
    BY <2>2 DEF PeopleStep, Push, Dispatch, Merge, Delete
  <2>3. ASSUME NEW r \in RunIds, RunStep(r)
        PROVE  \/ thread' \subseteq thread
               \/ \E e \in thread : PatchOwn(r, e)
               \/ Post(r)
    BY <2>3 DEF RunStep, Progress, Start, CheckHead, HeadUnknown, WhoAmI, NextPage, ReadPrevious, FindComment,
                PatchForbidden, PatchMissing, Fail, Cancel, Thread
  <2>4. QED
    BY <2>1, <2>2, <2>3 DEF Next
<1>8. QED
  BY <1>1, <1>3, <1>4, <1>5, <1>6, <1>7

(* What an edit keeps of the comment it replaces. *)
LEMMA EditKeeps ==
  ASSUME IInv, BoardInv, [Next]_vars, Supported, ~ shifted,
         NEW c \in BotComments, NEW d \in thread', c.id = d.id, c # d, c.body.legible
  PROVE  /\ c.body.sha = d.body.sha => c.body.reproduced \subseteq d.body.reproduced
         /\ \A f \in c.body.reproduced :
              (\E g \in d.body.reproduced : SameProblem(f, g)) \/ f \in d.body.carried
<1>1. PICK r \in RunIds : PatchOwn(r, c) /\ c.body \in Body /\ d.body = RunBody(r)
  BY OnlyPatchEdits
<1>2. run[r].previous = ParsePreviousReview(c.body)
  BY <1>1 DEF PatchOwn, BoardInv, LookupInv, LookupOf, Knowing
<1>3. TypeOK /\ site.sha40
  BY DEF IInv, Supported
<1>4. QED
  BY <1>1, <1>2, <1>3, RunBodyKeeps

(* A rerun on the same commit keeps what was reproduced earlier. *)
THEOREM SameShaKeepsHolds == Spec => SameShaKeeps
<1>1. ASSUME IInv, BoardInv, [Next]_vars
      PROVE  Supported /\ ~shifted => Edits(LAMBDA old, new :
               old.legible /\ old.sha = new.sha => old.reproduced \subseteq new.reproduced)
  BY <1>1, EditKeeps DEF Edits
<1>2. QED
  BY <1>1, BoardHolds, PTL DEF Spec, SameShaKeeps

(* A reproduced problem of an earlier review stays in sight. *)
THEOREM NothingVanishesHolds == Spec => NothingVanishes
<1>1. ASSUME IInv, BoardInv, [Next]_vars
      PROVE  Supported /\ ~shifted => Edits(LAMBDA old, new :
               old.legible =>
                 \A f \in old.reproduced :
                   (\E g \in new.reproduced : SameProblem(f, g)) \/ f \in new.carried)
  BY <1>1, EditKeeps DEF Edits
<1>2. QED
  BY <1>1, BoardHolds, PTL DEF Spec, NothingVanishes
-----------------------------------------------------------------------------
(* The publication stage implements ReviewBoard. *)

(* What a reader sees of a comment. *)
ReviewOf(c) == [sha |-> c.body.sha, era |-> c.body.era,
                reproduced |-> c.body.reproduced, carried |-> c.body.carried]

(* The only comment of the bot is the one ReviewBoard speaks of. *)
LEMMA TheOnlyOne ==
  ASSUME NEW B, NEW c \in B, c.body.legible, \A d, e \in B : d = e
  PROVE  (CHOOSE d \in B : d.body.legible) = c
OBVIOUS

(* What publication renders of the review it replaces, as ReviewBoard has it. *)
LEMMA RunBodyReplaces ==
  ASSUME TypeOK, NEW r \in RunIds, site.sha40, NEW body \in Body, body.legible,
         run[r].previous = ParsePreviousReview(body)
  PROVE  /\ body.sha = run[r].sha =>
              /\ RunBody(r).reproduced = body.reproduced \cup run[r].review
              /\ RunBody(r).carried = {}
         /\ body.sha # run[r].sha =>
              /\ RunBody(r).reproduced = run[r].review
              /\ RunBody(r).carried =
                   {g \in body.reproduced : \A f \in run[r].review : ~ Board!SameIssue(f, g)}
<1>. DEFINE previous == run[r].previous
<1>1. previous = [sha |-> body.sha, reproduced |-> body.reproduced] /\ previous # NoReview
  BY SentinelAssumption DEF ParsePreviousReview, Body
<1>2. previous.sha = body.sha /\ previous.reproduced = body.reproduced
  BY <1>1
<1>3. CASE body.sha = run[r].sha
  BY <1>1, <1>2, <1>3 DEF RunBody, RenderMarkdown, PreserveReproducedFindings
<1>4. CASE body.sha # run[r].sha
  <2>1. RunBody(r).reproduced = run[r].review
    BY <1>1, <1>2, <1>4 DEF RunBody, RenderMarkdown, PreserveReproducedFindings
  <2>2. RunBody(r).carried = {g \in body.reproduced : \A f \in RunBody(r).reproduced : ~ SameProblem(g, f)}
    BY <1>1, <1>2, <1>4 DEF RunBody, RenderMarkdown
  <2>3. \A f, g : SameProblem(g, f) <=> Board!SameIssue(f, g)
    BY DEF SameProblem, Board!SameIssue
  <2>4. QED
    BY <1>4, <2>1, <2>2, <2>3
<1>5. QED
  BY <1>3, <1>4

(* Without an earlier review the body is that of a first one. *)
LEMMA RunBodyIsFirst ==
  ASSUME NEW r \in RunIds, run[r].previous = NoReview
  PROVE  RunBody(r).reproduced = run[r].review /\ RunBody(r).carried = {}
BY DEF RunBody, RenderMarkdown, PreserveReproducedFindings

(* An edit in the supported deployment is one step of ReviewBoard. *)
LEMMA PatchOwnRefines ==
  ASSUME IInv, BoardInv, BoardInv', Supported, Supported', deletes = 0, deletes' = 0,
         NEW r \in RunIds, NEW c \in thread, PatchOwn(r, c)
  PROVE  Board!Next
<1>. DEFINE new == [c EXCEPT !.body = RunBody(r)]
<1>0. ~ shifted /\ ~ shifted'
  BY DEF BoardInv, ThreadInv
<1>1. /\ c \in BotComments /\ new \in BotComments' /\ new.body = RunBody(r) /\ c.body \in Body
      /\ c.body.era \in Nat
  BY DEF PatchOwn, IInv, TypeOK, Comment, BotComments, BotWritesReviews, Body
<1>2. /\ run[r].review \in Reviews /\ run[r].era \in 0 .. MaxPushes /\ run[r].sha \in Shas
      /\ c.body.era <= run[r].era
  <2>1. run[r].era \in Nat /\ pushes \in Nat /\ MaxPushes \in Nat
    BY BoundsAssumption DEF IInv, TypeOK, RunState
  <2>2. run[r].pc = "patch"
    BY DEF PatchOwn
  <2>3. run[r].review \in Reviews /\ run[r].era <= pushes /\ pushes <= MaxPushes /\ run[r].sha \in Shas
    BY <2>2 DEF BoardInv, RunsInv, StageInv, Looking, Knowing, IInv, ActiveHasSha
  <2>4. c.body.era <= run[r].era
    BY <1>1, <2>2 DEF BoardInv, ErasInv, Supported
  <2>5. QED
    BY <2>1, <2>3, <2>4
<1>3. run[r].previous = ParsePreviousReview(c.body)
  BY <1>0, <1>1 DEF PatchOwn, BoardInv, LookupInv, LookupOf, Knowing
<1>4. /\ RunBody(r).sha = run[r].sha /\ RunBody(r).era = run[r].era /\ RunBody(r).legible
  BY RunBodySays
<1>. HIDE DEF new
<1>5. ShownReview' = ReviewOf(new)
  <2>1. \A d, e \in BotComments' : d = e
    BY <1>0 DEF BoardInv, LookupInv
  <2>2. (CHOOSE d \in BotComments' : d.body.legible) = new
    BY <1>1, <1>4, <2>1, TheOnlyOne
  <2>3. QED
    BY <1>1, <1>4, <2>2 DEF ShownReview, TheReview, ReviewOf
<1>6. \A d, e \in BotComments : d = e
  BY <1>0 DEF BoardInv, LookupInv
<1>7. CASE c.body.legible
  <2>1. ShownReview = ReviewOf(c)
    <3>1. (CHOOSE d \in BotComments : d.body.legible) = c
      BY <1>1, <1>6, <1>7, TheOnlyOne
    <3>2. QED
      BY <1>1, <1>7, <3>1 DEF ShownReview, TheReview, ReviewOf
  <2>2. ShownReview # NoReview
    <3>1. c.body.era \in 0 .. MaxPushes
      BY <1>1, <1>2, BoundsAssumption
    <3>2. ReviewOf(c) \in Board!Review
      BY <1>1, <3>1 DEF ReviewOf, Body, Board!Review
    <3>3. QED
      BY <2>1, <3>2, NoReviewAssumption
  <2>3. CASE c.body.sha = run[r].sha
    <3>1. RunBody(r).reproduced = c.body.reproduced \cup run[r].review /\ RunBody(r).carried = {}
      BY <1>1, <1>3, <1>7, <2>3, RunBodyReplaces DEF IInv, Supported
    <3>2. Board!Rerun(run[r].era, run[r].review)
      BY <1>1, <1>2, <1>4, <1>5, <2>1, <2>2, <2>3, <3>1 DEF Board!Rerun, ReviewOf
    <3>3. QED
      BY <1>2, <3>2 DEF Board!Next, Board!Publish
  <2>4. CASE c.body.sha # run[r].sha
    <3>1. /\ RunBody(r).reproduced = run[r].review
          /\ RunBody(r).carried =
               {g \in c.body.reproduced : \A f \in run[r].review : ~ Board!SameIssue(f, g)}
      BY <1>1, <1>3, <1>7, <2>4, RunBodyReplaces DEF IInv, Supported
    <3>2. Board!NewCommit(run[r].sha, run[r].era, run[r].review)
      BY <1>1, <1>2, <1>4, <1>5, <2>1, <2>2, <2>4, <3>1 DEF Board!NewCommit, ReviewOf
    <3>3. QED
      BY <1>2, <3>2 DEF Board!Next, Board!Publish
  <2>5. QED
    BY <2>3, <2>4
<1>8. CASE ~ c.body.legible
  <2>1. ShownReview = NoReview
    BY <1>1, <1>6, <1>8 DEF ShownReview
  <2>2. run[r].previous = NoReview
    BY <1>3, <1>8 DEF ParsePreviousReview
  <2>3. Board!FirstReview(run[r].sha, run[r].era, run[r].review)
    BY <1>1, <1>4, <1>5, <2>1, <2>2, RunBodyIsFirst DEF Board!FirstReview, ReviewOf
  <2>4. QED
    BY <1>2, <2>3 DEF Board!Next, Board!Publish
<1>9. QED
  BY <1>7, <1>8

(* A first comment in the supported deployment is a first review. *)
LEMMA PostRefines ==
  ASSUME IInv, BoardInv, BoardInv', Supported, Supported', deletes = 0, deletes' = 0,
         NEW r \in RunIds, Post(r)
  PROVE  Board!Next
<1>. DEFINE new == [id |-> posted + 1, author |-> Bot, body |-> RunBody(r)]
<1>0. ~ shifted /\ ~ shifted'
  BY DEF BoardInv, ThreadInv
<1>1. new \in BotComments' /\ new.body = RunBody(r) /\ BotComments = {}
  BY <1>0 DEF Post, BotComments, BoardInv, LookupInv, LookupOf
<1>2. run[r].review \in Reviews /\ run[r].era \in 0 .. MaxPushes /\ run[r].sha \in Shas
  <2>1. run[r].era \in Nat /\ pushes \in Nat /\ MaxPushes \in Nat
    BY BoundsAssumption DEF IInv, TypeOK, RunState
  <2>2. run[r].pc = "post"
    BY DEF Post
  <2>3. run[r].review \in Reviews /\ run[r].era <= pushes /\ pushes <= MaxPushes /\ run[r].sha \in Shas
    BY <2>2 DEF BoardInv, RunsInv, StageInv, Looking, Knowing, IInv, ActiveHasSha
  <2>4. QED
    BY <2>1, <2>3
<1>3. run[r].previous = NoReview
  BY <1>0, <1>1 DEF Post, BoardInv, LookupInv, LookupOf, Knowing
<1>4. /\ RunBody(r).sha = run[r].sha /\ RunBody(r).era = run[r].era /\ RunBody(r).legible
  BY RunBodySays
<1>. HIDE DEF new
<1>5. ShownReview' = ReviewOf(new)
  <2>1. \A d, e \in BotComments' : d = e
    BY <1>0 DEF BoardInv, LookupInv
  <2>2. (CHOOSE d \in BotComments' : d.body.legible) = new
    BY <1>1, <1>4, <2>1, TheOnlyOne
  <2>3. QED
    BY <1>1, <1>4, <2>2 DEF ShownReview, TheReview, ReviewOf
<1>6. ShownReview = NoReview
  BY <1>1 DEF ShownReview
<1>7. Board!FirstReview(run[r].sha, run[r].era, run[r].review)
  BY <1>1, <1>3, <1>4, <1>5, <1>6, RunBodyIsFirst DEF Board!FirstReview, ReviewOf
<1>8. QED
  BY <1>2, <1>7 DEF Board!Next, Board!Publish

(* Once the thread left the supported deployment it does not come back. *)
LEMMA LeavingIsFinal ==
  ASSUME IInv, [Next]_vars
  PROVE  (Supported' => Supported) /\ (deletes' = 0 => deletes = 0)
<1>1. peoplePosts \in Nat /\ deletes \in Nat /\ Pages * PageSize \in Nat
  BY BoundsAssumption DEF IInv, TypeOK
<1>2. site' = site /\ peoplePosts' \in {peoplePosts, peoplePosts + 1} /\ deletes' \in {deletes, deletes + 1}
  <2>1. CASE UNCHANGED vars
    BY <2>1 DEF vars
  <2>2. CASE PeopleStep
    BY <2>2 DEF PeopleStep, Push, Dispatch, Merge, PeoplePost, Delete
  <2>3. ASSUME NEW r \in RunIds, RunStep(r)
        PROVE  UNCHANGED Outside
    BY <2>3 DEF RunStep, Progress, Start, CheckHead, HeadUnknown, WhoAmI, NextPage, ReadPrevious, FindComment,
                PatchOwn, PatchForbidden, PatchMissing, Post, Fail, Cancel
  <2>4. QED
    BY <2>1, <2>2, <2>3 DEF Next, Outside
<1>3. QED
  BY <1>1, <1>2 DEF Supported

(* Every step is one step of ReviewBoard or none. *)
LEMMA StepRefines ==
  ASSUME IInv, BoardInv, BoardInv', [Next]_vars
  PROVE  [Board!Next]_ShownReview
<1>1. CASE ~ (Supported' /\ deletes' = 0)
  <2>1. ShownReview' = NoReview
    BY <1>1 DEF ShownReview
  <2>2. QED
    BY <2>1 DEF Board!Next, Board!Lost
<1>2. CASE Supported' /\ deletes' = 0
  <2>1. Supported /\ deletes = 0
    BY <1>2, LeavingIsFinal
  <2>2. \/ \E r \in RunIds : Post(r) \/ \E c \in thread : PatchOwn(r, c)
        \/ BotComments' = BotComments
    <3>1. CASE UNCHANGED vars
      BY <3>1 DEF vars, BotComments
    <3>2. CASE PeopleStep
      <4>1. ASSUME NEW c \in thread, Delete(c)
            PROVE  FALSE
        BY <1>2, <2>1, <4>1 DEF Delete
      <4>2. ASSUME NEW p \in People, NEW body \in PeopleBodies, PeoplePost(p, body)
            PROVE  BotComments' = BotComments
        BY <4>2, AccountsAssumption DEF PeoplePost, BotComments
      <4>3. QED
        BY <3>2, <4>1, <4>2 DEF PeopleStep, Push, Dispatch, Merge, BotComments
    <3>3. ASSUME NEW r \in RunIds, RunStep(r)
          PROVE  Post(r) \/ (\E c \in thread : PatchOwn(r, c)) \/ UNCHANGED thread
      BY <3>3 DEF RunStep, Progress, Start, CheckHead, HeadUnknown, WhoAmI, NextPage, ReadPrevious, FindComment,
                  PatchForbidden, PatchMissing, Fail, Cancel, Thread
    <3>4. QED
      BY <3>1, <3>2, <3>3 DEF Next, BotComments
  <2>3. CASE BotComments' = BotComments
    BY <1>2, <2>1, <2>3 DEF ShownReview, TheReview
  <2>4. QED
    BY <1>2, <2>1, <2>2, <2>3, PostRefines, PatchOwnRefines
<1>3. QED
  BY <1>1, <1>2

(* The initial thread shows no review or that of an earlier version of the bot. *)
LEMMA InitRefines == Init => Board!Init
<1>. SUFFICES ASSUME Init PROVE Board!Init
  OBVIOUS
<1>1. CASE thread = {}
  BY <1>1 DEF Board!Init, ShownReview, BotComments
<1>2. ASSUME NEW b \in OldBodies, thread = {[id |-> 1, author |-> Bot, body |-> b]}
      PROVE  Board!Init
  <2>. DEFINE old == [id |-> 1, author |-> Bot, body |-> b]
  <2>1. BotComments = {old} /\ old.body = b
    BY <1>2 DEF BotComments
  <2>2. b \in Body /\ b.carried = {} /\ b.era \in 0 .. MaxPushes
    BY OldBodiesAssumption, BoundsAssumption
  <2>3. ReviewOf(old) \in Board!Review /\ ReviewOf(old).carried = {}
    BY <2>1, <2>2 DEF ReviewOf, Body, Board!Review
  <2>. HIDE DEF old
  <2>4. CASE b.legible
    <3>1. (CHOOSE d \in BotComments : d.body.legible) = old
      BY <2>1, <2>4, TheOnlyOne
    <3>2. ShownReview \in {ReviewOf(old), NoReview}
      BY <3>1 DEF ShownReview, TheReview, ReviewOf
    <3>3. QED
      BY <2>3, <3>2 DEF Board!Init
  <2>5. CASE ~ b.legible
    BY <2>1, <2>5 DEF Board!Init, ShownReview
  <2>6. QED
    BY <2>4, <2>5
<1>3. QED
  BY <1>1, <1>2 DEF Init

(* The publication stage implements ReviewBoard. *)
THEOREM Refinement == Spec => ImplementsBoard
<1>1. IInv /\ BoardInv /\ (IInv /\ BoardInv)' /\ [Next]_vars => [Board!Next]_ShownReview
  BY StepRefines
<1>2. QED
  BY <1>1, InitRefines, BoardHolds, PTL DEF Spec, ImplementsBoard, Board!Spec
=============================================================================
