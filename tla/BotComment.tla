----------------------------- MODULE BotComment -----------------------------
(***************************************************************************)
(* The publication stage: `gitea-auto-reviewer comment` runs of one pull   *)
(* request against the comment thread Gitea keeps for it.                  *)
(*                                                                         *)
(* A workflow run reads the head SHA once when it starts, spends up to two *)
(* hours reviewing that commit and then publishes with five or more HTTP   *)
(* requests, each of which is a step here (the thread is read page by      *)
(* page, twice).  Between any two of them the                              *)
(* author may push, the pull request may be merged, people may write or    *)
(* delete comments (a copy of the bot's hidden marker included), another   *)
(* run may take its own steps, and the run may be cancelled or see a       *)
(* request fail.                                                           *)
(*                                                                         *)
(* Gitea itself (the thread, the permissions, the concurrency group of the *)
(* workflow) is not under src/: it is modelled as far as the client uses   *)
(* it.                                                                     *)
(***************************************************************************)
EXTENDS Integers, FiniteSets

CONSTANTS
  Sites,             \* installations to consider, a subset of Site
  Shas,              \* commits the pull request head may be at
  Findings,          \* reproduced findings, records with problem and evidence
  Reviews,           \* the reproduced findings a finished review may hold
  PeopleBodies,      \* what people write: plain text, copies of the marker
  Bot, People,       \* Gitea accounts
  NoAuthor,          \* get_authenticated_login() returned None
  NoReview,          \* parse_previous_review() returned None, or no comment
  NoComment,         \* _find_comment() returned None
  NoSha,             \* a comment without the marker; a run that has no SHA yet
  MaxRuns,           \* bound: workflow runs
  MaxPushes,         \* bound: pushes to the pull request branch
  MaxMeddling,       \* bound: comments by people and deleted comments, together
  PageSize, Pages,   \* _find_comment looks at 10 pages of 50 comments
  OldBodies          \* what an earlier version of the bot may have left in the thread

ASSUME BoundsAssumption ==
  MaxRuns \in Nat \ {0} /\ MaxPushes \in Nat /\ MaxMeddling \in Nat
  /\ PageSize \in Nat \ {0} /\ Pages \in Nat \ {0}
ASSUME ReviewsAssumption == Reviews \subseteq SUBSET Findings
ASSUME AccountsAssumption == Bot \notin People /\ NoAuthor \notin People \cup {Bot}
ASSUME SentinelAssumption ==
  NoSha \notin Shas /\ NoReview \notin [sha : Shas, reproduced : SUBSET Findings]

VARIABLES
  site,       \* what the installation provides; never changes
  head,       \* head SHA of the pull request
  pushes,     \* pushes so far: the version of `head`
  merged,     \* "open", "merge" (a two-parent merge commit) or "squash"
  thread,     \* the set of comments of the pull request
  posted,     \* comments ever created: the next comment id minus one
  peoplePosts, deletes,
  triggered,  \* workflow runs created so far
  run,        \* state of each workflow run
  reproducedAt, \* history: what the runs that published reproduced, per commit
  shifted       \* history: a comment was deleted while a lookup was past its first page

vars == <<site, head, pushes, merged, thread, posted, peoplePosts, deletes,
          triggered, run, reproducedAt, shifted>>

RunIds == 1 .. MaxRuns

PreviousReview == [sha : Shas, reproduced : SUBSET Findings]

(***************************************************************************)
(* What a published comment says, as far as a later run or a reader can    *)
(* tell: the marker's SHA, the hidden list of reproduced findings, which   *)
(* of them are shown with [new], and the items listed again from the       *)
(* previous commit.  `legible`: the hidden state decodes; one that another  *)
(* version wrote with other fields does not.  `era` is the version of the  *)
(* head the run started from (a history field, not in the text).           *)
(***************************************************************************)
Body == [sha : Shas, reproduced : SUBSET Findings, fresh : SUBSET Findings,
         carried : SUBSET Findings, legible : BOOLEAN, era : Nat]
PlainBody == [sha |-> NoSha, reproduced |-> {}, fresh |-> {}, carried |-> {}, legible |-> FALSE, era |-> 0]
ASSUME PeopleBodiesAssumption == PeopleBodies \subseteq Body \cup {PlainBody}
ASSUME OldBodiesAssumption == \A b \in OldBodies : b \in Body /\ b.carried = {} /\ b.era = 0
Comment == [id : Nat, author : People \cup {Bot}, body : Body \cup {PlainBody}]

Site == [serialized : BOOLEAN,  \* Gitea honours the workflow's concurrency group
         readUser : BOOLEAN,    \* the token has the read:user scope
         sha40 : BOOLEAN]       \* the repository uses 40-digit object names
ASSUME SitesAssumption == Sites \subseteq Site

Waiting == {"idle", "queued"}
Active == {"review", "whoami", "read", "find", "patch", "post"}
Ended == {"done", "stale", "failed", "cancelled"}

RunState ==
  [pc : Waiting \cup Active \cup Ended,
   sha : Shas \cup {NoSha}, era : Nat,
   review : SUBSET Findings,
   author : {Bot, NoAuthor},
   previous : PreviousReview \cup {NoReview},
   target : Nat \cup {NoComment},
   page : 1 .. Pages]

NewRun == [pc |-> "idle", sha |-> NoSha, era |-> 0, review |-> {}, author |-> NoAuthor,
           previous |-> NoReview, target |-> NoComment, page |-> 1]

-----------------------------------------------------------------------------
(* Pure parts of the comment stage. *)

\* Mutant: evidence is not compared.
SameWordingOnly(f, g) == f.problem = g.problem

(* review._same_problem: rewording and moved evidence do not make a new issue. *)
SameProblem(f, g) == f.problem = g.problem \/ f.evidence = g.evidence

(* parse_previous_review: the marker pattern only knows 40-digit SHAs, so in
   a repository with longer names no state is ever decoded. *)
ParsePreviousReview(body) ==
  IF site.sha40 /\ body.sha # NoSha /\ body.legible
  THEN [sha |-> body.sha, reproduced |-> body.reproduced] ELSE NoReview

\* Mutant: the test for the commit is inverted.
PreserveAcrossCommits(reproduced, previous, sha) ==
  IF previous = NoReview \/ (previous # NoReview /\ previous.sha = sha)
  THEN reproduced ELSE previous.reproduced \cup reproduced

\* Mutant: the items of an earlier run on the commit hide those of this one.
PreserveOnlyOld(reproduced, previous, sha) ==
  IF previous = NoReview \/ (previous # NoReview /\ previous.sha # sha)
  THEN reproduced ELSE previous.reproduced

(* preserve_reproduced_findings: dict.fromkeys over both tuples is a union. *)
PreserveReproducedFindings(reproduced, previous, sha) ==
  IF previous = NoReview \/ (previous # NoReview /\ previous.sha # sha)
  THEN reproduced ELSE previous.reproduced \cup reproduced

\* Mutant: the first comment is written without the marker.
RenderUnmarked(reproduced, previous, sha, era) ==
  [sha |-> IF previous = NoReview THEN NoSha ELSE sha, reproduced |-> reproduced,
   fresh |-> {}, carried |-> {}, legible |-> TRUE, era |-> era]

(* The part of render_markdown that compares with the previous comment. *)
RenderMarkdown(reproduced, previous, sha, era) ==
  LET earlier == IF previous # NoReview /\ previous.sha # sha
                 THEN previous.reproduced ELSE {}
      compared == previous # NoReview /\ previous.sha # sha
  IN [sha |-> sha,
      reproduced |-> reproduced,
      fresh |-> {f \in reproduced : compared /\ \A g \in earlier : ~SameProblem(f, g)},
      carried |-> {g \in earlier : \A f \in reproduced : ~SameProblem(g, f)},
      legible |-> TRUE,
      era |-> era]

RunBody(r) ==
  RenderMarkdown(
    PreserveReproducedFindings(run[r].review, run[r].previous, run[r].sha),
    run[r].previous, run[r].sha, run[r].era)

Before(c) == Cardinality({d \in thread : d.id < c.id})

\* Mutant: a page begins after the first comment of its range.
OnPageShort(c, page) == (page - 1) * PageSize < Before(c) /\ Before(c) < page * PageSize

(* The server numbers the pages anew for every request. *)
OnPage(c, page) == (page - 1) * PageSize <= Before(c) /\ Before(c) < page * PageSize

\* Mutant: anyone's comment with the marker is trusted.
CandidatesOfAnyone(author, page) == {c \in thread : OnPage(c, page) /\ c.body.sha # NoSha}

(* _find_comment: the oldest comment of a page that holds the marker and,
   when the bot knows its login, was written by the bot. *)
Candidates(author, page) ==
  {c \in thread : /\ OnPage(c, page)
                  /\ c.body.sha # NoSha
                  /\ author = NoAuthor \/ c.author = author}
Found(r) ==
  LET there == Candidates(run[r].author, run[r].page)
  IN {c \in there : \A d \in there : c.id <= d.id}

LastPage(page) == page = Pages \/ Cardinality({c \in thread : OnPage(c, page)}) < PageSize

-----------------------------------------------------------------------------
Init ==
  /\ site \in Sites
  /\ head \in Shas
  /\ pushes = 0 /\ merged = "open"
  /\ \/ thread = {} /\ posted = 0 /\ reproducedAt = [s \in Shas |-> {}]
     \/ \E b \in OldBodies :
          /\ thread = {[id |-> 1, author |-> Bot, body |-> b]} /\ posted = 1
          /\ reproducedAt = [s \in Shas |-> IF s = b.sha THEN b.reproduced ELSE {}]
  /\ peoplePosts = 0 /\ deletes = 0 /\ shifted = FALSE
  /\ triggered = 1
  /\ run = [r \in RunIds |-> [NewRun EXCEPT !.pc = IF r = 1 THEN "queued" ELSE "idle"]]

(* The workflow is triggered: Gitea creates a run and, when it honours the
   group, gives up the runs of the group that still wait. *)
Trigger ==
  /\ triggered < MaxRuns
  /\ triggered' = triggered + 1
  /\ run' = [r \in RunIds |->
               [run[r] EXCEPT !.pc =
                  IF r = triggered + 1 THEN "queued"
                  ELSE IF site.serialized /\ @ = "queued" THEN "cancelled" ELSE @]]

(* `synchronize`: a push (forced pushes back to an old commit included). *)
Push(s) ==
  /\ merged = "open" /\ pushes < MaxPushes /\ s # head
  /\ head' = s /\ pushes' = pushes + 1
  /\ Trigger
  /\ UNCHANGED <<site, merged, thread, posted, peoplePosts, deletes, reproducedAt, shifted>>

(* `reopened` or a manual workflow_dispatch for the same commit. *)
Dispatch ==
  /\ Trigger
  /\ UNCHANGED <<site, head, pushes, merged, thread, posted, peoplePosts, deletes, reproducedAt,
                 shifted>>

(* After a merge the client reports the merge commit's second parent, which
   is the head at that moment; a squash or fast-forward merge has none. *)
Merge(kind) ==
  /\ merged = "open"
  /\ merged' = kind
  /\ UNCHANGED <<site, head, pushes, thread, posted, peoplePosts, deletes,
                 triggered, run, reproducedAt, shifted>>

(* Someone comments: plain text, or a copy of the bot's hidden marker. *)
PeoplePost(p, body) ==
  /\ peoplePosts + deletes < MaxMeddling
  /\ peoplePosts' = peoplePosts + 1 /\ posted' = posted + 1
  /\ thread' = thread \cup {[id |-> posted + 1, author |-> p, body |-> body]}
  /\ UNCHANGED <<site, head, pushes, merged, deletes, triggered, run, reproducedAt, shifted>>

(* A comment is deleted by its author or a maintainer. *)
Delete(c) ==
  /\ peoplePosts + deletes < MaxMeddling
  /\ deletes' = deletes + 1
  /\ thread' = thread \ {c}
  /\ shifted' = (shifted \/ \E r \in RunIds : run[r].page > 1)
  /\ UNCHANGED <<site, head, pushes, merged, posted, peoplePosts, triggered, run, reproducedAt>>

-----------------------------------------------------------------------------
(* The steps of one workflow run. *)

Outside == <<site, head, pushes, merged, peoplePosts, deletes, triggered, shifted>>
Thread == <<thread, posted, reproducedAt>>

(* The process exits: what it had read is gone. *)
Ends(r, how) == run' = [run EXCEPT ![r] = [NewRun EXCEPT !.pc = how]]

(* The body of run r is in the thread, whether or not the run learns it. *)
Publishes(r) ==
  /\ reproducedAt' = [reproducedAt EXCEPT ![run[r].sha] = @ \cup run[r].review]
  /\ \/ run' = [run EXCEPT ![r] = [NewRun EXCEPT !.pc = "done", !.review = run[r].review]]
     \/ Ends(r, "failed")

(* The metadata job resolves the head the whole run reviews. *)
Start(r) ==
  /\ run[r].pc = "queued"
  /\ site.serialized => \A q \in RunIds : run[q].pc \notin Active
  /\ merged # "squash"
  /\ run' = [run EXCEPT ![r].pc = "review", ![r].sha = head, ![r].era = pushes]
  /\ UNCHANGED <<Outside, Thread>>

(* The comment command loads review.json and reads the pull request again. *)
CheckHead(r, reproduced) ==
  /\ run[r].pc = "review"
  /\ merged # "squash"
  /\ \/ /\ head = run[r].sha
        /\ run' = [run EXCEPT ![r].review = reproduced, ![r].pc = "whoami"]
     \/ head # run[r].sha /\ Ends(r, "stale")
  /\ UNCHANGED <<Outside, Thread>>

\* Mutant: the earlier comment is never read.
WhoAmIForgetful(r) ==
  /\ run[r].pc = "whoami"
  /\ run' = [run EXCEPT ![r].author = IF site.readUser THEN Bot ELSE NoAuthor,
                        ![r].pc = "find"]
  /\ UNCHANGED <<Outside, Thread>>

(* get_authenticated_login: 401 and 403 mean "unknown", and then the earlier
   comment is not read at all. *)
WhoAmI(r) ==
  /\ run[r].pc = "whoami"
  /\ run' = [run EXCEPT ![r].author = IF site.readUser THEN Bot ELSE NoAuthor,
                        ![r].pc = IF site.readUser THEN "read" ELSE "find"]
  /\ UNCHANGED <<Outside, Thread>>

(* A full page without the comment: the next one is asked for. *)
NextPage(r) ==
  /\ run[r].pc \in {"read", "find"} /\ Found(r) = {} /\ ~LastPage(run[r].page)
  /\ run' = [run EXCEPT ![r].page = @ + 1]
  /\ UNCHANGED <<Outside, Thread>>

NotThere(r) == Found(r) = {} /\ LastPage(run[r].page)

(* get_review_comment and parse_previous_review. *)
ReadPrevious(r) ==
  /\ run[r].pc = "read"
  /\ \/ /\ NotThere(r)
        /\ run' = [run EXCEPT ![r].pc = "find", ![r].page = 1]
     \/ \E c \in Found(r) :
          run' = [run EXCEPT ![r].previous = ParsePreviousReview(c.body), ![r].pc = "find", ![r].page = 1]
  /\ UNCHANGED <<Outside, Thread>>

(* upsert_comment looks the comment up a second time. *)
FindComment(r) ==
  /\ run[r].pc = "find"
  /\ \/ /\ NotThere(r)
        /\ run' = [run EXCEPT ![r].pc = "post", ![r].page = 1]
     \/ \E c \in Found(r) :
          run' = [run EXCEPT ![r].target = c.id, ![r].pc = "patch", ![r].page = 1]
  /\ UNCHANGED <<Outside, Thread>>

(* PATCH of the bot's own comment; the answer may be lost on the way back. *)
PatchOwn(r, c) ==
  /\ run[r].pc = "patch"
  /\ c.id = run[r].target /\ c.author = Bot
  /\ thread' = (thread \ {c}) \cup {[c EXCEPT !.body = RunBody(r)]}
  /\ Publishes(r)
  /\ UNCHANGED <<Outside, posted>>

\* Mutant: a forbidden edit starts the lookup again.
PatchForbiddenRetries(r, c) ==
  /\ run[r].pc = "patch"
  /\ c.id = run[r].target /\ c.author # Bot
  /\ run' = [run EXCEPT ![r].pc = "find"]
  /\ UNCHANGED <<Outside, Thread>>

(* PATCH of a comment somebody else wrote: 403, fall through to POST. *)
PatchForbidden(r, c) ==
  /\ run[r].pc = "patch"
  /\ c.id = run[r].target /\ c.author # Bot
  /\ run' = [run EXCEPT ![r].pc = "post"]
  /\ UNCHANGED <<Outside, Thread>>

Post(r) ==
  /\ run[r].pc = "post"
  /\ thread' = thread \cup {[id |-> posted + 1, author |-> Bot, body |-> RunBody(r)]}
  /\ posted' = posted + 1
  /\ Publishes(r)
  /\ UNCHANGED Outside

(* PATCH of a comment deleted since the lookup: 404, the command exits 1. *)
PatchMissing(r) ==
  /\ run[r].pc = "patch"
  /\ \A c \in thread : c.id # run[r].target
  /\ Ends(r, "failed")
  /\ UNCHANGED <<Outside, Thread>>

(* get_pull_request raises for a merge commit without two parents. *)
HeadUnknown(r) ==
  /\ run[r].pc \in {"queued", "review"} /\ merged = "squash"
  /\ Ends(r, "failed")
  /\ UNCHANGED <<Outside, Thread>>

(* Any job or request may fail and a job may time out: exit 1, nothing sent. *)
Fail(r) ==
  /\ run[r].pc \in Active \cup {"queued"}
  /\ Ends(r, "failed")
  /\ UNCHANGED <<Outside, Thread>>

(* cancel-in-progress: a newer run of the group waits. *)
Cancel(r) ==
  /\ site.serialized
  /\ run[r].pc \in Active /\ \E q \in RunIds : run[q].pc = "queued"
  /\ Ends(r, "cancelled")
  /\ UNCHANGED <<Outside, Thread>>

Progress(r) ==
  \/ Start(r)
  \/ \E reproduced \in Reviews : CheckHead(r, reproduced)
  \/ HeadUnknown(r)
  \/ WhoAmI(r)
  \/ NextPage(r)
  \/ ReadPrevious(r)
  \/ FindComment(r)
  \/ \E c \in thread : PatchOwn(r, c) \/ PatchForbidden(r, c)
  \/ PatchMissing(r)
  \/ Post(r)

RunStep(r) == Progress(r) \/ Fail(r) \/ Cancel(r)

PeopleStep ==
  \/ \E s \in Shas : Push(s)
  \/ Dispatch
  \/ \E kind \in {"merge", "squash"} : Merge(kind)
  \/ \E p \in People, body \in PeopleBodies : PeoplePost(p, body)
  \/ \E c \in thread : Delete(c)

Next == PeopleStep \/ \E r \in RunIds : RunStep(r)

(* The runner goes on with a run that can: requests return or time out. *)
Fairness == \A r \in RunIds : WF_vars(Progress(r))
Spec == Init /\ [][Next]_vars
FairSpec == Spec /\ Fairness

-----------------------------------------------------------------------------
(* Properties *)

(* Type invariant of the stage: comments, runs and the history of what was
   reproduced stay in their sets. *)
TypeOK ==
  /\ site \in Site /\ head \in Shas /\ pushes \in Nat
  /\ merged \in {"open", "merge", "squash"}
  /\ thread \subseteq Comment /\ posted \in Nat
  /\ peoplePosts \in Nat /\ deletes \in Nat
  /\ triggered \in Nat
  /\ run \in [RunIds -> RunState]
  /\ reproducedAt \in [Shas -> SUBSET Findings]
  /\ shifted \in BOOLEAN

(* The deployment README asks for: concurrency group, read:user, 40-digit
   names, and fewer comments of people than the lookup scans. *)
Supported == site.serialized /\ site.readUser /\ site.sha40 /\ peoplePosts < Pages * PageSize

BotComments == {c \in thread : c.author = Bot}

(* No comment of the bot shows a problem as reproduced that no run of that
   very commit reproduced, nor lists one from an earlier commit that no run of
   another commit reproduced: whatever people write into the thread and however
   runs interleave (comment_command, cli.py:480). *)
PublishedIsReproduced ==
  \A c \in BotComments :
    /\ c.body.reproduced \subseteq reproducedAt[c.body.sha]
    /\ \A f \in c.body.carried :
         \E sha \in Shas \ {c.body.sha} : f \in reproducedAt[sha]

(* At most one comment of the bot per pull request (upsert_comment).  A
   comment deleted while a lookup is between two pages moves the bot's comment
   to a page already read, and a second one is posted. *)
OneBotComment == Supported /\ ~shifted => Cardinality(BotComments) <= 1

(* The run triggered last is never turned away as stale, and when it has
   published, the thread shows a review of the current head with everything it
   reproduced: no older run takes the comment back. *)
HeadIsReviewed ==
  /\ run[triggered].pc # "stale"
  /\ site.serialized /\ deletes = 0 /\ run[triggered].pc = "done" =>
       \E c \in BotComments : /\ c.body.sha = head
                              /\ run[triggered].review \subseteq c.body.reproduced

Edits(P(_, _)) ==
  \A c \in BotComments, d \in thread' : c.id = d.id /\ c # d => P(c.body, d.body)

(* A rerun on the same commit keeps the items reproduced earlier
   (preserve_reproduced_findings), if the first of the two lookups could see
   the comment that the second one finds. *)
SameShaKeeps ==
  [][Supported /\ ~shifted => Edits(LAMBDA old, new :
       old.legible /\ old.sha = new.sha => old.reproduced \subseteq new.reproduced)]_vars

(* No reproduced problem silently leaves the comment: after a new push it is
   reproduced again (perhaps reworded) or listed as from the previous commit.
   Those of a comment whose state does not decode do: it is taken for none
   (review.py:560). *)
NothingVanishes ==
  [][Supported /\ ~shifted => Edits(LAMBDA old, new :
       old.legible =>
         \A f \in old.reproduced :
           (\E g \in new.reproduced : SameProblem(f, g)) \/ f \in new.carried)]_vars

(* A run never overwrites the review of a newer push.  cli.py:477 says so of
   every run, with or without the concurrency group. *)
NeverOverwritesNewer == [][Edits(LAMBDA old, new : old.era <= new.era)]_vars

(* Every run the workflow creates comes to an end: no step waits for ever on
   the thread, on the head or on another run of the group. *)
EveryRunEnds == <>[](\A r \in RunIds : run[r].pc \in Ended \cup {"idle"})
=============================================================================
