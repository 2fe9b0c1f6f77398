---------------------------- MODULE FeedbackProofs ----------------------------
(***************************************************************************)
(* The command `feedback` over a list that moves, for any number of pull   *)
(* requests, pages of any size, any limit, and any number of updates,      *)
(* reactions and deletions.                                                *)
(***************************************************************************)
EXTENDS Feedback, SequenceTheorems, FiniteSetTheorems, TLAPS

------------------------------------------------------------------------------
(* Sequences *)

(* A function on 1 .. n is a sequence of length n. *)
LEMMA FunctionIsSeq ==
  ASSUME NEW S, NEW n \in Nat, NEW f \in [1 .. n -> S]
  PROVE  f \in Seq(S) /\ Len(f) = n
<1>1. f \in Seq(S)
  BY SeqDef
<1>2. DOMAIN f = 1 .. Len(f) /\ Len(f) \in Nat
  BY <1>1, LenProperties
<1> QED BY <1>2

(* The members of a sequence are not more than its length. *)
LEMMA RangeIsFinite ==
  ASSUME NEW S, NEW s \in Seq(S)
  PROVE  IsFiniteSet(Range(s)) /\ Cardinality(Range(s)) \in Nat /\ Cardinality(Range(s)) <= Len(s)
<1>1. Len(s) \in Nat /\ DOMAIN s = 1 .. Len(s)
  BY LenProperties
<1>2. IsFiniteSet(1 .. Len(s)) /\ Cardinality(1 .. Len(s)) = Len(s)
  <2>1. 1 \in Int /\ Len(s) \in Int
    BY <1>1
  <2>2. /\ IsFiniteSet(1 .. Len(s))
        /\ Cardinality(1 .. Len(s)) = IF 1 > Len(s) THEN 0 ELSE Len(s) - 1 + 1
    BY <2>1, FS_Interval, Zenon
  <2> QED BY <1>1, <2>2
<1>3. s \in Surjection(1 .. Len(s), Range(s))
  BY <1>1 DEF Surjection, Range
<1> QED BY <1>2, <1>3, FS_Surjection, FS_CardinalityType

(* The same of one without repetition. *)
LEMMA DistinctRange ==
  ASSUME NEW S, NEW s \in Seq(S), \A i, j \in DOMAIN s : s[i] = s[j] => i = j
  PROVE  Cardinality(Range(s)) = Len(s)
<1>1. Len(s) \in Nat /\ DOMAIN s = 1 .. Len(s)
  BY LenProperties
<1>2. IsFiniteSet(1 .. Len(s)) /\ Cardinality(1 .. Len(s)) = Len(s)
  <2>1. 1 \in Int /\ Len(s) \in Int
    BY <1>1
  <2>2. /\ IsFiniteSet(1 .. Len(s))
        /\ Cardinality(1 .. Len(s)) = IF 1 > Len(s) THEN 0 ELSE Len(s) - 1 + 1
    BY <2>1, FS_Interval, Zenon
  <2> QED BY <1>1, <2>2
<1>3. s \in Surjection(1 .. Len(s), Range(s)) /\ s \in Injection(1 .. Len(s), Range(s))
  BY <1>1 DEF Surjection, Range, Injection, IsInjective
<1> QED BY <1>2, <1>3, FS_Surjection

(* The members of a concatenation. *)
LEMMA RangeOfConcat ==
  ASSUME NEW S, NEW s \in Seq(S), NEW u \in Seq(S)
  PROVE  /\ s \o u \in Seq(S) /\ Len(s \o u) = Len(s) + Len(u)
         /\ Range(s \o u) = Range(s) \cup Range(u)
<1>1. s \o u \in Seq(S) /\ Len(s \o u) = Len(s) + Len(u)
  BY ConcatProperties
<1>2. \A i \in 1 .. Len(s) : (s \o u)[i] = s[i]
  BY ConcatProperties
<1>3. \A i \in 1 .. Len(u) : (s \o u)[Len(s) + i] = u[i]
  BY ConcatProperties
<1>4. /\ DOMAIN s = 1 .. Len(s) /\ DOMAIN u = 1 .. Len(u) /\ DOMAIN (s \o u) = 1 .. Len(s) + Len(u)
      /\ Len(s) \in Nat /\ Len(u) \in Nat
  BY <1>1, LenProperties
<1>5. Range(s \o u) \subseteq Range(s) \cup Range(u)
  <2> SUFFICES ASSUME NEW i \in 1 .. Len(s) + Len(u) PROVE (s \o u)[i] \in Range(s) \cup Range(u)
    BY <1>4 DEF Range
  <2>1. CASE i <= Len(s)
    BY <1>2, <1>4, <2>1 DEF Range
  <2>2. CASE i > Len(s)
    <3>1. i - Len(s) \in 1 .. Len(u) /\ i = Len(s) + (i - Len(s))
      BY <1>4, <2>2
    <3> QED BY <1>3, <1>4, <3>1 DEF Range
  <2> QED BY <1>4, <2>1, <2>2
<1>6. Range(s) \cup Range(u) \subseteq Range(s \o u)
  <2>1. \A i \in 1 .. Len(s) : s[i] \in Range(s \o u)
    BY <1>2, <1>4 DEF Range
  <2>2. \A i \in 1 .. Len(u) : u[i] \in Range(s \o u)
    BY <1>3, <1>4 DEF Range
  <2> QED BY <1>4, <2>1, <2>2 DEF Range
<1> QED BY <1>1, <1>5, <1>6

(* A part of a sequence. *)
LEMMA PartOfSeq ==
  ASSUME NEW S, NEW s \in Seq(S), NEW a \in Nat, NEW b \in Nat, b <= Len(s), a <= b
  PROVE  /\ SubSeq(s, a + 1, b) \in Seq(S) /\ Len(SubSeq(s, a + 1, b)) = b - a
         /\ \A i \in 1 .. b - a : SubSeq(s, a + 1, b)[i] = s[a + i]
<1>1. Len(s) \in Nat /\ DOMAIN s = 1 .. Len(s)
  BY LenProperties
<1> DEFINE f == [i \in 1 .. b - a |-> s[a + i]]
<1>2. SubSeq(s, a + 1, b) = f
  <2>1. 1 + b - (a + 1) = b - a /\ \A i \in 1 .. b - a : (a + 1) + i - 1 = a + i
    OBVIOUS
  <2> QED BY <2>1 DEF SubSeq
<1>3. b - a \in Nat /\ f \in [1 .. b - a -> S]
  BY <1>1
<1>4. f \in Seq(S) /\ Len(f) = b - a
  <2> HIDE DEF f
  <2> QED BY <1>3, FunctionIsSeq
<1> QED BY <1>2, <1>4

(* A prefix repeats no more members than the whole. *)
LEMMA PrefixRepeats ==
  ASSUME NEW S, NEW s \in Seq(S), NEW b \in Nat, b <= Len(s)
  PROVE  /\ SubSeq(s, 1, b) \in Seq(S) /\ Len(SubSeq(s, 1, b)) = b
         /\ \A i \in 1 .. b : SubSeq(s, 1, b)[i] = s[i]
         /\ b - Cardinality(Range(SubSeq(s, 1, b))) <= Len(s) - Cardinality(Range(s))
<1> DEFINE front == SubSeq(s, 1, b)
           rest == SubSeq(s, b + 1, Len(s))
<1>1. Len(s) \in Nat /\ DOMAIN s = 1 .. Len(s)
  BY LenProperties
<1>2. front \in Seq(S) /\ Len(front) = b /\ \A i \in 1 .. b : front[i] = s[i]
  <2>1. SubSeq(s, 0 + 1, b) \in Seq(S) /\ Len(SubSeq(s, 0 + 1, b)) = b - 0
    BY PartOfSeq
  <2>2. \A i \in 1 .. b - 0 : SubSeq(s, 0 + 1, b)[i] = s[0 + i]
    BY PartOfSeq
  <2>3. 0 + 1 = 1 /\ b - 0 = b /\ \A i \in 1 .. b : 0 + i = i
    OBVIOUS
  <2> QED BY <2>1, <2>2, <2>3
<1>3. rest \in Seq(S) /\ Len(rest) = Len(s) - b
  BY <1>1, PartOfSeq
<1>4. \A i \in 1 .. Len(s) - b : rest[i] = s[b + i]
  BY <1>1, PartOfSeq
<1>5. DOMAIN front = 1 .. b /\ DOMAIN rest = 1 .. Len(s) - b
  BY <1>2, <1>3, LenProperties
<1> HIDE DEF front, rest
<1>6. Range(s) \subseteq Range(front) \cup Range(rest)
  <2> SUFFICES ASSUME NEW i \in 1 .. Len(s) PROVE s[i] \in Range(front) \cup Range(rest)
    BY <1>1 DEF Range
  <2>1. CASE i <= b
    BY <1>2, <1>5, <2>1 DEF Range
  <2>2. CASE i > b
    <3>1. i - b \in 1 .. Len(s) - b /\ b + (i - b) = i
      BY <1>1, <2>2
    <3> QED BY <1>4, <1>5, <3>1 DEF Range
  <2> QED BY <1>1, <2>1, <2>2
<1>7. /\ IsFiniteSet(Range(front)) /\ Cardinality(Range(front)) \in Nat
      /\ IsFiniteSet(Range(rest)) /\ Cardinality(Range(rest)) \in Nat /\ Cardinality(Range(rest)) <= Len(s) - b
  BY <1>2, <1>3, RangeIsFinite
<1>8. Cardinality(Range(s)) <= Cardinality(Range(front)) + Cardinality(Range(rest))
  <2>1. /\ IsFiniteSet(Range(front) \cup Range(rest))
        /\ Cardinality(Range(front) \cup Range(rest)) =
             Cardinality(Range(front)) + Cardinality(Range(rest)) - Cardinality(Range(front) \cap Range(rest))
    BY <1>7, FS_Union
  <2>2. Cardinality(Range(front) \cap Range(rest)) \in Nat
    <3>1. IsFiniteSet(Range(front) \cap Range(rest))
      BY <1>7, FS_Subset
    <3> QED BY <3>1, FS_CardinalityType
  <2>3. Cardinality(Range(s)) <= Cardinality(Range(front) \cup Range(rest))
    BY <1>6, <2>1, FS_Subset
  <2>4. Cardinality(Range(s)) \in Nat
    BY RangeIsFinite
  <2> QED BY <1>7, <2>1, <2>2, <2>3, <2>4
<1>9. Cardinality(Range(s)) \in Nat
  BY RangeIsFinite
<1> QED BY <1>1, <1>2, <1>7, <1>8, <1>9 DEF front

------------------------------------------------------------------------------
(* The list and its pages *)

Distinct(s) == \A i, j \in DOMAIN s : s[i] = s[j] => i = j

(* In u, p is first and the others of s have moved back by at most one place. *)
Pushes(s, u, p) ==
  /\ u \in Seq(Pulls) /\ Distinct(u) /\ Len(s) <= Len(u) /\ 1 <= Len(u) /\ u[1] = p
  /\ \A i \in 1 .. Len(u) : u[i] # p => \E j \in 1 .. Len(s) : j <= i /\ i <= j + 1 /\ s[j] = u[i]

(* Putting a pull request first pushes the others back by at most one place. *)
LEMMA FrontPushes ==
  ASSUME NEW p \in Pulls, order \in Seq(Pulls), Distinct(order), ToFront(p)
  PROVE  Pushes(order, order', p)
<1>1. PICK k \in 1 .. Len(order) + 1 :
        /\ IF k <= Len(order) THEN order[k] = p ELSE p \notin Range(order)
        /\ order' = [i \in 1 .. (IF k <= Len(order) THEN Len(order) ELSE k) |->
                       IF i = 1 THEN p ELSE IF i <= k THEN order[i - 1] ELSE order[i]]
  BY DEF ToFront
<1> DEFINE n == IF k <= Len(order) THEN Len(order) ELSE k
           u == [i \in 1 .. n |-> IF i = 1 THEN p ELSE IF i <= k THEN order[i - 1] ELSE order[i]]
<1>2. Len(order) \in Nat /\ DOMAIN order = 1 .. Len(order) /\ \A i \in 1 .. Len(order) : order[i] \in Pulls
  BY LenProperties
<1>3. n \in Nat /\ Len(order) <= n /\ 1 <= n /\ k \in 1 .. n
  BY <1>2
<1>4. /\ u[1] = p
      /\ \A i \in 2 .. n : i <= k => i - 1 \in 1 .. Len(order) /\ u[i] = order[i - 1]
      /\ \A i \in 2 .. n : i > k => i \in 1 .. Len(order) /\ u[i] = order[i]
  BY <1>2, <1>3
<1>5. u \in [1 .. n -> Pulls]
  BY <1>2
<1>6. \A i \in 1 .. Len(order) : order[i] = p <=> i = k
  <2>1. CASE k <= Len(order)
    BY <1>1, <1>2, <2>1 DEF Distinct
  <2>2. CASE k > Len(order)
    BY <1>1, <1>2, <2>2 DEF Range
  <2> QED BY <1>2, <2>1, <2>2
<1> HIDE DEF u, n
<1>7. u \in Seq(Pulls) /\ Len(u) = n /\ DOMAIN u = 1 .. n
  BY <1>3, <1>5, FunctionIsSeq
<1> DEFINE from == [i \in 2 .. n |-> IF i <= k THEN i - 1 ELSE i]
<1>8. \A i \in 2 .. n : from[i] \in 1 .. Len(order) /\ from[i] # k /\ u[i] = order[from[i]] /\ u[i] # p
                         /\ from[i] <= i /\ i <= from[i] + 1
  BY <1>2, <1>3, <1>4, <1>6
<1>9. \A i, j \in 2 .. n : from[i] = from[j] => i = j
  BY <1>3, <1>8
<1>10. Distinct(u)
  <2> SUFFICES ASSUME NEW i \in 1 .. n, NEW j \in 1 .. n, u[i] = u[j] PROVE i = j
    BY <1>7 DEF Distinct
  <2>1. i = 1 \/ i \in 2 .. n
    BY <1>3
  <2>2. j = 1 \/ j \in 2 .. n
    BY <1>3
  <2>3. CASE i = 1 \/ j = 1
    BY <1>4, <1>8, <2>1, <2>2, <2>3
  <2>4. CASE i \in 2 .. n /\ j \in 2 .. n
    <3>1. order[from[i]] = order[from[j]] /\ from[i] \in DOMAIN order /\ from[j] \in DOMAIN order
      BY <1>2, <1>8, <2>4
    <3>2. from[i] = from[j]
      BY <3>1 DEF Distinct
    <3> QED BY <1>9, <2>4, <3>2
  <2> QED BY <2>1, <2>2, <2>3, <2>4
<1>11. \A i \in 1 .. n : u[i] # p => \E j \in 1 .. Len(order) : j <= i /\ i <= j + 1 /\ order[j] = u[i]
  <2> SUFFICES ASSUME NEW i \in 1 .. n, u[i] # p
               PROVE  \E j \in 1 .. Len(order) : j <= i /\ i <= j + 1 /\ order[j] = u[i]
    OBVIOUS
  <2>1. i \in 2 .. n
    BY <1>3, <1>4
  <2> QED BY <1>8, <2>1
<1>12. Pushes(order, u, p)
  <2> HIDE DEF from
  <2> QED BY <1>3, <1>4, <1>7, <1>10, <1>11 DEF Pushes
<1> QED BY <1>1, <1>12 DEF u, n

(* Where a page that begins after `read` of n ends. *)
LEMMA EndOfPage ==
  ASSUME NEW read \in Nat, NEW n \in Nat, NEW size \in Nat, read <= n
  PROVE  /\ Smaller(read + size, n) \in Nat /\ Smaller(read + size, n) <= n /\ read <= Smaller(read + size, n)
         /\ Smaller(read + size, n) - read = Smaller(size, n - read)
<1>1. CASE read + size < n
  BY <1>1 DEF Smaller
<1>2. CASE ~(read + size < n)
  BY <1>2 DEF Smaller
<1> QED BY <1>1, <1>2

(* A page that begins where the list so far ends. *)
LEMMA PageContents ==
  ASSUME order \in Seq(Pulls), NEW k \in Nat \ {0}, NEW read \in Nat, read = (k - 1) * PageSize, read <= Len(order)
  PROVE  /\ PageOf(k) \in Seq(Pulls)
         /\ Len(PageOf(k)) = Smaller(PageSize, Len(order) - read)
         /\ \A i \in 1 .. Len(PageOf(k)) : PageOf(k)[i] = order[read + i]
<1>1. PageSize \in Nat \ {0} /\ Len(order) \in Nat
  BY LimitAssumption, LenProperties
<1>2. k * PageSize = read + PageSize
  BY <1>1
<1> DEFINE end == Smaller(read + PageSize, Len(order))
<1>3. PageOf(k) = SubSeq(order, read + 1, end)
  BY <1>2 DEF PageOf
<1>4. end \in Nat /\ end <= Len(order) /\ read <= end /\ end - read = Smaller(PageSize, Len(order) - read)
  BY <1>1, EndOfPage
<1> HIDE DEF end
<1>5. /\ SubSeq(order, read + 1, end) \in Seq(Pulls) /\ Len(SubSeq(order, read + 1, end)) = end - read
      /\ \A i \in 1 .. end - read : SubSeq(order, read + 1, end)[i] = order[read + i]
  BY <1>4, PartOfSeq
<1> QED BY <1>3, <1>4, <1>5

------------------------------------------------------------------------------
(* The inductive invariant *)

Listing == pc \in {"login", "list"}

(* The numbers listed so far are whole pages, and as many as there are pull
   requests before the next page. *)
ListInv ==
  /\ Distinct(order)
  /\ Listing => /\ next = 1 /\ reviews = <<>>
                /\ Len(numbers) = (page - 1) * PageSize /\ Len(numbers) <= Len(order)

Reached == IF Listing THEN Len(numbers) ELSE Limit

(* p is one of the first i numbers listed. *)
FoundBefore(p, i) == \E j \in 1 .. Len(numbers) : j <= i /\ numbers[j] = p

(* A pull request that stayed where it was is listed, no later than its place
   in the list says: so it is not what the limit cuts off. *)
FoundInv ==
  pc # "failed" => \A i \in 1 .. Len(order) : i <= Reached /\ order[i] \notin moved => FoundBefore(order[i], i)

Ahead(list, b) == {list[i] : i \in b + 1 .. Len(list)}

\* Pull requests that are listed and will be listed again, unless they move.
ToRepeat == IF Listing THEN Range(numbers) \cap Ahead(order, Len(numbers)) ELSE {}

RepeatInv == Len(numbers) - Cardinality(Range(numbers)) + Cardinality(ToRepeat) <= moves

\* What a report says of one review.
Entry == [pr : Pulls, up : Nat]

Entries(list, p) == {k \in 1 .. Len(list) : list[k].pr = p}
Visits(list, n, p) == {j \in 1 .. n : list[j] = p}

ReadableReview(p) == comment[p].there /\ comment[p].legible

(* What was passed by and can be read, and was not published again since, has
   an entry. *)
SeenInv ==
  \A j \in 1 .. next - 1 :
    ReadableReview(numbers[j]) /\ numbers[j] \notin moved => Entries(reviews, numbers[j]) # {}

CountInv ==
  \A p \in Pulls : Cardinality(Entries(reviews, p)) <= Cardinality(Visits(numbers, next - 1, p))

PlaceInv ==
  /\ pc = "react" => next <= Len(numbers)
  /\ pc = "done" => next > Len(numbers)

FeedbackInv == TypeOK /\ ListInv /\ FoundInv /\ RepeatInv /\ SeenInv /\ CountInv /\ PlaceInv

------------------------------------------------------------------------------
(* The steps of the command and of the world *)

\* The list so far and the next page.
All == numbers \o PageOf(page)

(* While the list is read, the next page goes on where it ends. *)
LEMMA NextPage ==
  ASSUME TypeOK, ListInv, pc = "list"
  PROVE  /\ All \in Seq(Pulls) /\ PageOf(page) \in Seq(Pulls)
         /\ Len(All) = Smaller(Len(numbers) + PageSize, Len(order))
         /\ Len(PageOf(page)) = Len(All) - Len(numbers)
         /\ Range(All) = Range(numbers) \cup Range(PageOf(page))
         /\ \A i \in 1 .. Len(numbers) : All[i] = numbers[i]
         /\ \A i \in Len(numbers) + 1 .. Len(All) : All[i] = order[i]
         /\ \A i \in 1 .. Len(PageOf(page)) : PageOf(page)[i] = order[Len(numbers) + i]
<1> DEFINE pulls == PageOf(page)
           read == Len(numbers)
<1>1. order \in Seq(Pulls) /\ numbers \in Seq(Pulls) /\ page \in Nat \ {0}
  BY DEF TypeOK
<1>2. read \in Nat /\ read = (page - 1) * PageSize /\ read <= Len(order) /\ Len(order) \in Nat /\ PageSize \in Nat
  BY <1>1, LenProperties, LimitAssumption DEF ListInv, Listing
<1>3. /\ pulls \in Seq(Pulls) /\ Len(pulls) = Smaller(PageSize, Len(order) - read)
      /\ \A i \in 1 .. Len(pulls) : pulls[i] = order[read + i]
  <2> HIDE DEF read
  <2> QED BY <1>1, <1>2, PageContents
<1>4. Smaller(read + PageSize, Len(order)) - read = Smaller(PageSize, Len(order) - read)
  <2> HIDE DEF read
  <2> QED BY <1>2, EndOfPage
<1>5. Smaller(read + PageSize, Len(order)) \in Nat
  <2> HIDE DEF read
  <2> QED BY <1>2, EndOfPage
<1> HIDE DEF pulls
<1>6. /\ numbers \o pulls \in Seq(Pulls) /\ Len(numbers \o pulls) = read + Len(pulls)
      /\ Range(numbers \o pulls) = Range(numbers) \cup Range(pulls)
  BY <1>1, <1>3, RangeOfConcat
<1>7. Len(pulls) \in Nat
  BY <1>3, LenProperties
<1>8. \A i \in 1 .. read : (numbers \o pulls)[i] = numbers[i]
  BY <1>1, <1>3, ConcatProperties
<1>9. \A i \in 1 .. Len(pulls) : (numbers \o pulls)[read + i] = pulls[i]
  BY <1>1, <1>3, ConcatProperties
<1>10. \A i \in read + 1 .. read + Len(pulls) : (numbers \o pulls)[i] = order[i]
  <2> SUFFICES ASSUME NEW i \in read + 1 .. read + Len(pulls) PROVE (numbers \o pulls)[i] = order[i]
    OBVIOUS
  <2>1. i - read \in 1 .. Len(pulls) /\ read + (i - read) = i
    BY <1>2, <1>7
  <2> QED BY <1>3, <1>9, <2>1
<1>11. Len(numbers \o pulls) = Smaller(read + PageSize, Len(order))
  BY <1>2, <1>3, <1>4, <1>5, <1>6, <1>7
<1>12. Len(pulls) = Len(numbers \o pulls) - read
  BY <1>2, <1>6, <1>7
<1> QED BY <1>3, <1>6, <1>8, <1>10, <1>11, <1>12 DEF All, pulls

\* The last page is read, and the limit cuts the list.
Cut ==
  /\ pc' = "look" /\ page' = page
  /\ numbers' \in Seq(Pulls) /\ Len(numbers') <= Limit /\ Len(numbers') <= Len(All)
  /\ \A i \in 1 .. Len(numbers') : numbers'[i] = All[i]
  /\ \A i \in 1 .. Len(order) : i <= Limit => i <= Len(numbers')
  /\ Len(numbers') - Cardinality(Range(numbers')) <= Len(All) - Cardinality(Range(All))

\* There is a further page.
GoOn ==
  /\ pc' = "list" /\ page' = page + 1 /\ numbers' = All
  /\ Len(All) = page * PageSize /\ Len(All) <= Len(order)

(* A page that is read ends the listing, or it is a whole one. *)
LEMMA PageIsRead ==
  ASSUME TypeOK, ListInv, ListPage
  PROVE  Cut \/ GoOn
<1>1. pc = "list"
  BY DEF ListPage
<1>2. /\ All \in Seq(Pulls) /\ Len(All) = Smaller(Len(numbers) + PageSize, Len(order))
      /\ Len(PageOf(page)) = Len(All) - Len(numbers)
  BY <1>1, NextPage
<1>3. /\ Len(All) \in Nat /\ Len(numbers) \in Nat /\ Len(order) \in Nat /\ page \in Nat \ {0}
      /\ Limit \in Nat \ {0} /\ PageSize \in Nat \ {0}
  BY <1>2, LenProperties, LimitAssumption DEF TypeOK
<1>4. Len(numbers) = (page - 1) * PageSize /\ Len(numbers) <= Len(order)
  BY <1>1 DEF ListInv, Listing
<1>5. Len(All) <= Len(order)
  BY <1>2, <1>3 DEF Smaller
<1>6. CASE Len(PageOf(page)) < PageSize \/ Len(All) >= Limit
  <2>1. numbers' = SubSeq(All, 1, Smaller(Limit, Len(All))) /\ pc' = "look" /\ page' = page
    BY <1>6 DEF ListPage, All
  <2>2. Smaller(Limit, Len(All)) \in Nat /\ Smaller(Limit, Len(All)) <= Len(All) /\ Smaller(Limit, Len(All)) <= Limit
    BY <1>3 DEF Smaller
  <2> DEFINE b == Smaller(Limit, Len(All))
  <2>3. \A i \in 1 .. Len(order) : i <= Limit => i <= b
    <3>1. CASE Len(All) >= Limit
      BY <1>3, <3>1 DEF Smaller
    <3>2. CASE Len(All) < Limit
      <4>1. Len(All) - Len(numbers) < PageSize
        BY <1>2, <1>6, <1>3, <3>2
      <4>2. Len(All) = Len(order)
        BY <1>2, <1>3, <4>1 DEF Smaller
      <4> QED BY <1>3, <3>2, <4>2 DEF Smaller
    <3> QED BY <1>3, <3>1, <3>2
  <2> HIDE DEF b
  <2>4. /\ SubSeq(All, 1, b) \in Seq(Pulls) /\ Len(SubSeq(All, 1, b)) = b
        /\ \A i \in 1 .. b : SubSeq(All, 1, b)[i] = All[i]
        /\ b - Cardinality(Range(SubSeq(All, 1, b))) <= Len(All) - Cardinality(Range(All))
    BY <1>2, <2>2, PrefixRepeats DEF b
  <2>5. numbers' = SubSeq(All, 1, b) /\ b <= Limit /\ b <= Len(All)
    BY <2>1, <2>2 DEF b
  <2> QED BY <2>1, <2>3, <2>4, <2>5 DEF Cut
<1>7. CASE ~(Len(PageOf(page)) < PageSize \/ Len(All) >= Limit)
  <2>1. numbers' = All /\ pc' = "list" /\ page' = page + 1
    BY <1>1, <1>7 DEF ListPage, All
  <2>2. Len(All) = Len(numbers) + PageSize
    BY <1>2, <1>3, <1>7 DEF Smaller
  <2>3. Len(All) = page * PageSize
    BY <1>3, <1>4, <2>2
  <2> QED BY <1>5, <2>1, <2>3 DEF GoOn
<1> QED BY <1>6, <1>7

(* What the world may do to the list and the comments; the command's own
   variables stay. *)
WorldStep(p) ==
  /\ UNCHANGED command /\ comment' \in [Pulls -> Comment] /\ lost' \in BOOLEAN /\ meddling' \in Nat /\ moves' \in Nat
  /\ \/ /\ Pushes(order, order', p) /\ moved' = moved \cup {p} /\ moves' = moves + 1
     \/ UNCHANGED <<order, moved, moves>>
  /\ \A q \in Pulls : comment'[q].there /\ comment'[q].legible /\ q \notin moved' => ReadableReview(q)

(* What the world does to the list and the comments is one of these. *)
LEMMA WorldSteps ==
  ASSUME NEW p \in Pulls, TypeOK, ListInv, Move(p) \/ Publish(p) \/ React(p) \/ Delete(p)
  PROVE  WorldStep(p)
<1>1. order \in Seq(Pulls) /\ Distinct(order) /\ comment \in [Pulls -> Comment] /\ moves \in Nat /\ meddling \in Nat
  BY DEF TypeOK, ListInv
<1>7. lost' \in BOOLEAN
  <2>1. lost \in BOOLEAN
    BY DEF TypeOK
  <2>2. lost' = lost \/ lost' = (lost \/ (pc = "react" /\ p = InHand))
    BY Zenon DEF Move, Publish, React, Delete
  <2> QED BY <2>1, <2>2
<1>2. \A q \in Pulls : comment[q] \in Comment
  BY <1>1
<1>3. CASE Move(p)
  <2>1. Pushes(order, order', p)
    BY <1>1, <1>3, FrontPushes DEF Move
  <2> QED BY <1>1, <1>7, <1>3, <2>1 DEF Move, WorldStep, ReadableReview
<1>4. CASE Publish(p)
  <2>1. Pushes(order, order', p)
    BY <1>1, <1>4, FrontPushes DEF Publish
  <2>2. comment' = [comment EXCEPT ![p].there = TRUE, ![p].legible = TRUE] /\ moved' = moved \cup {p}
    BY <1>4 DEF Publish
  <2>3. comment' \in [Pulls -> Comment]
    BY <1>1, <2>2 DEF Comment
  <2>4. \A q \in Pulls : q # p => comment'[q] = comment[q]
    BY <1>1, <2>2
  <2>5. \A q \in Pulls : comment'[q].there /\ comment'[q].legible /\ q \notin moved' => ReadableReview(q)
    BY <2>2, <2>4 DEF ReadableReview
  <2> QED BY <1>1, <1>7, <1>4, <2>1, <2>2, <2>3, <2>5 DEF Publish, WorldStep
<1>5. CASE React(p)
  <2> DEFINE becomes == [comment[p] EXCEPT !.up = @ + 1]
  <2>1. comment' = [comment EXCEPT ![p] = becomes] /\ UNCHANGED <<order, moved, moves, command>> /\ meddling' = meddling + 1
    BY <1>5 DEF React, Meddle
  <2>2. becomes \in Comment /\ becomes.there = comment[p].there /\ becomes.legible = comment[p].legible
    BY <1>2 DEF Comment
  <2> HIDE DEF becomes
  <2>3. \A q \in Pulls : comment'[q] = IF q = p THEN becomes ELSE comment[q]
    BY <1>1, <2>1
  <2>4. comment' \in [Pulls -> Comment]
    BY <1>1, <2>1, <2>2
  <2>5. \A q \in Pulls : comment'[q].there /\ comment'[q].legible => ReadableReview(q)
    BY <2>2, <2>3 DEF ReadableReview
  <2> QED BY <1>1, <1>7, <2>1, <2>4, <2>5 DEF WorldStep
<1>6. CASE Delete(p)
  <2>1. comment' = [comment EXCEPT ![p] = NoComment] /\ UNCHANGED <<order, moved, moves, command>> /\ meddling' = meddling + 1
    BY <1>6 DEF Delete, Meddle
  <2>2. NoComment \in Comment /\ ~NoComment.there
    BY DEF Comment, NoComment
  <2>3. \A q \in Pulls : comment'[q] = IF q = p THEN NoComment ELSE comment[q]
    BY <1>1, <2>1
  <2>4. comment' \in [Pulls -> Comment]
    BY <1>1, <2>1, <2>2
  <2>5. \A q \in Pulls : comment'[q].there /\ comment'[q].legible => ReadableReview(q)
    BY <2>2, <2>3 DEF ReadableReview
  <2> QED BY <1>1, <1>7, <2>1, <2>4, <2>5 DEF WorldStep
<1> QED BY <1>3, <1>4, <1>5, <1>6

------------------------------------------------------------------------------
(* Each conjunct is preserved *)

\* The steps, with those of the world as one.
Cases ==
  \/ LogIn \/ ListPage \/ Look \/ ReadReactions \/ Write \/ Fail
  \/ (\E p \in Pulls : WorldStep(p)) \/ UNCHANGED vars

(* A step of the specification is one of these. *)
LEMMA StepCases ==
  ASSUME TypeOK, ListInv, [Next]_vars
  PROVE  Cases
<1>1. CASE World
  <2>1. PICK p \in Pulls : Move(p) \/ Publish(p) \/ React(p) \/ Delete(p)
    BY <1>1 DEF World
  <2>2. WorldStep(p)
    BY <2>1, WorldSteps
  <2> QED BY <2>2 DEF Cases
<1>2. CASE Progress
  BY <1>2 DEF Progress, Cases
<1> QED BY <1>1, <1>2 DEF Next, Cases

(* The types are preserved; no more numbers than the limit are kept. *)
LEMMA TypePreserved ==
  ASSUME TypeOK, ListInv, PlaceInv, Cases
  PROVE  TypeOK'
<1>1. /\ order \in Seq(Pulls) /\ comment \in [Pulls -> Comment] /\ page \in Nat \ {0} /\ numbers \in Seq(Pulls)
      /\ next \in 1 .. Len(numbers) + 1 /\ reviews \in Seq([pr : Pulls, up : Nat]) /\ Len(reviews) < next
      /\ moved \in SUBSET Pulls /\ moves \in Nat /\ meddling \in Nat /\ Len(numbers) \in Nat /\ Len(reviews) \in Nat
  BY LenProperties DEF TypeOK
<1>2. CASE LogIn
  BY <1>1, <1>2 DEF LogIn, world, TypeOK
<1>3. CASE ListPage
  <2>1. next = 1 /\ next' = next /\ reviews' = reviews /\ UNCHANGED world
    BY <1>3 DEF ListPage, ListInv, Listing
  <2>2. page' \in Nat \ {0} /\ numbers' \in Seq(Pulls) /\ pc' \in {"list", "look"} /\ (pc' = "look" => Len(numbers') <= Limit)
    <3>1. CASE Cut
      BY <1>1, <3>1 DEF Cut
    <3>2. CASE GoOn
      <4>1. All \in Seq(Pulls)
        BY <1>3, NextPage DEF ListPage
      <4> QED BY <1>1, <3>2, <4>1 DEF GoOn
    <3> QED BY <1>3, <3>1, <3>2, PageIsRead
  <2>3. Len(numbers') \in Nat
    BY <2>2, LenProperties
  <2> QED BY <1>1, <2>1, <2>2, <2>3 DEF TypeOK, world
<1>4. CASE Look
  <2>1. next' \in 1 .. Len(numbers') + 1 /\ next <= next' /\ pc' \in {"look", "react"} /\ UNCHANGED <<page, numbers, reviews, world>>
    BY <1>1, <1>4 DEF Look
  <2>2. Len(numbers') <= Limit
    BY <1>4, <2>1 DEF Look, TypeOK
  <2> QED BY <1>1, <2>1, <2>2 DEF TypeOK, world
<1>5. CASE ReadReactions
  <2>1. next <= Len(numbers) /\ Len(numbers) <= Limit
    BY <1>5 DEF ReadReactions, PlaceInv, TypeOK
  <2>2. InHand \in Pulls
    BY <1>1, <2>1 DEF InHand
  <2>3. [pr |-> InHand, up |-> comment[InHand].up] \in [pr : Pulls, up : Nat]
    BY <1>1, <2>2 DEF Comment
  <2>4. CASE ~lost
    <3>1. reviews' = Append(reviews, [pr |-> InHand, up |-> comment[InHand].up]) /\ next' = next + 1 /\ pc' = "look"
      BY <1>5, <2>4 DEF ReadReactions
    <3>2. reviews' \in Seq([pr : Pulls, up : Nat]) /\ Len(reviews') = Len(reviews) + 1
      BY <1>1, <2>3, <3>1, AppendProperties
    <3>3. UNCHANGED <<page, numbers, world>>
      BY <1>5 DEF ReadReactions
    <3> QED BY <1>1, <2>1, <3>1, <3>2, <3>3 DEF TypeOK, world
  <2>5. CASE lost
    BY <1>1, <1>5, <2>5 DEF ReadReactions, TypeOK, world
  <2> QED BY <2>4, <2>5
<1>6. CASE Write
  BY <1>1, <1>6 DEF Write, world, TypeOK
<1>7. CASE Fail
  BY <1>1, <1>7 DEF Fail, world, TypeOK
<1>8. ASSUME NEW p \in Pulls, WorldStep(p) PROVE TypeOK'
  <2>1. order' \in Seq(Pulls) /\ moved' \in SUBSET Pulls
    BY <1>1, <1>8 DEF WorldStep, Pushes
  <2> QED BY <1>1, <1>8, <2>1 DEF WorldStep, command, TypeOK
<1>9. CASE UNCHANGED vars
  BY <1>9 DEF vars, command, world, TypeOK
<1> QED BY <1>2, <1>3, <1>4, <1>5, <1>6, <1>7, <1>8, <1>9 DEF Cases

(* The list keeps its members apart, and the listing remains whole pages of it. *)
LEMMA ListPreserved ==
  ASSUME TypeOK, ListInv, Cases
  PROVE  ListInv'
<1>1. Len(numbers) \in Nat /\ Len(order) \in Nat
  BY LenProperties DEF TypeOK
<1>2. CASE LogIn
  BY <1>2 DEF LogIn, world, ListInv, Listing, Distinct
<1>3. CASE ListPage
  <2>1. next = 1 /\ reviews = <<>> /\ next' = next /\ reviews' = reviews /\ UNCHANGED world
    BY <1>3 DEF ListPage, ListInv, Listing
  <2>2. CASE Cut
    BY <2>1, <2>2 DEF Cut, ListInv, Listing, Distinct, world
  <2>3. CASE GoOn
    <3>1. page \in Nat /\ page + 1 - 1 = page
      BY DEF TypeOK
    <3>2. Len(numbers') = (page' - 1) * PageSize /\ Len(numbers') <= Len(order')
      BY <2>1, <2>3, <3>1 DEF GoOn, world
    <3> QED BY <2>1, <3>2 DEF ListInv, Distinct, world
  <2> QED BY <1>3, <2>2, <2>3, PageIsRead
<1>4. CASE Look \/ ReadReactions \/ Write \/ Fail
  <2>1. ~Listing' /\ order' = order
    BY <1>4 DEF Look, ReadReactions, Write, Fail, Listing, world
  <2> QED BY <2>1 DEF ListInv, Distinct
<1>5. ASSUME NEW p \in Pulls, WorldStep(p) PROVE ListInv'
  <2>1. Distinct(order)' /\ Len(order) <= Len(order')
    BY <1>1, <1>5 DEF WorldStep, Pushes, ListInv, Distinct
  <2>2. Len(order') \in Nat
    BY <1>5, LenProperties DEF WorldStep, Pushes, TypeOK
  <2> QED BY <1>1, <1>5, <2>1, <2>2 DEF WorldStep, command, ListInv, Listing
<1>6. CASE UNCHANGED vars
  BY <1>6 DEF vars, command, world, ListInv, Listing, Distinct
<1> QED BY <1>2, <1>3, <1>4, <1>5, <1>6 DEF Cases

(* A move pushes what stays further back, where the next page still finds it. *)
LEMMA FoundPreserved ==
  ASSUME TypeOK, ListInv, FoundInv, Cases
  PROVE  FoundInv'
<1>1. Len(numbers) \in Nat /\ Len(order) \in Nat /\ Limit \in Nat /\ numbers \in Seq(Pulls)
  BY LenProperties, LimitAssumption DEF TypeOK
<1>2. CASE LogIn
  BY <1>2 DEF LogIn, world, FoundInv, Reached, Listing, FoundBefore
<1>3. CASE ListPage
  <2>1. pc = "list" /\ UNCHANGED world
    BY <1>3 DEF ListPage
  <2>2. All \in Seq(Pulls)
    BY <2>1, NextPage
  <2>3. \A i \in 1 .. Len(numbers) : All[i] = numbers[i]
    BY <2>1, NextPage
  <2>4. \A i \in Len(numbers) + 1 .. Len(All) : All[i] = order[i]
    BY <2>1, NextPage
  <2>5. Len(All) \in Nat /\ Len(numbers) <= Len(All)
    <3>1. Len(All) = Smaller(Len(numbers) + PageSize, Len(order)) /\ Len(numbers) <= Len(order)
      BY <2>1, NextPage DEF ListInv, Listing
    <3>2. PageSize \in Nat
      BY LimitAssumption
    <3> QED BY <1>1, <3>1, <3>2, EndOfPage
  <2>6. \A i \in 1 .. Len(order) : i <= Len(All) /\ order[i] \notin moved
           => \E j \in 1 .. Len(All) : j <= i /\ All[j] = order[i]
    <3> SUFFICES ASSUME NEW i \in 1 .. Len(order), i <= Len(All), order[i] \notin moved
                 PROVE  \E j \in 1 .. Len(All) : j <= i /\ All[j] = order[i]
      OBVIOUS
    <3>1. CASE i <= Len(numbers)
      <4>1. PICK j \in 1 .. Len(numbers) : j <= i /\ numbers[j] = order[i]
        BY <2>1, <3>1 DEF FoundInv, Reached, Listing, FoundBefore
      <4> QED BY <1>1, <2>3, <2>5, <4>1
    <3>2. CASE i > Len(numbers)
      BY <1>1, <2>4, <2>5, <3>2
    <3> QED BY <1>1, <3>1, <3>2
  <2>7. CASE Cut
    <3>1. Len(numbers') \in Nat /\ Len(numbers') <= Len(All) /\ Len(numbers') <= Limit
      BY <2>7, LenProperties DEF Cut
    <3>2. SUFFICES ASSUME NEW i \in 1 .. Len(order), i <= Limit, order[i] \notin moved
                   PROVE  \E j \in 1 .. Len(numbers') : j <= i /\ numbers'[j] = order[i]
      BY <2>1, <2>7 DEF Cut, FoundInv, FoundBefore, Reached, Listing, world
    <3>3. i <= Len(numbers')
      BY <2>7, <3>2 DEF Cut
    <3>4. PICK j \in 1 .. Len(All) : j <= i /\ All[j] = order[i]
      BY <1>1, <2>5, <2>6, <3>1, <3>2, <3>3
    <3>5. j \in 1 .. Len(numbers')
      BY <1>1, <2>5, <3>1, <3>3, <3>4
    <3> QED BY <2>7, <3>4, <3>5 DEF Cut
  <2>8. CASE GoOn
    BY <2>1, <2>6, <2>8 DEF GoOn, FoundInv, FoundBefore, Reached, Listing, world
  <2> QED BY <1>3, <2>7, <2>8, PageIsRead
<1>4. CASE Look \/ ReadReactions \/ Write \/ Fail
  <2>1. /\ ~Listing' /\ order' = order /\ numbers' = numbers /\ moved' = moved
        /\ pc' # "failed" => pc # "failed" /\ ~Listing
    BY <1>4 DEF Look, ReadReactions, Write, Fail, Listing, world
  <2> QED BY <2>1 DEF FoundInv, Reached, FoundBefore
<1>5. ASSUME NEW p \in Pulls, WorldStep(p) PROVE FoundInv'
  <2>1. pc' = pc /\ numbers' = numbers /\ Reached' = Reached /\ Reached \in Nat
    BY <1>1, <1>5 DEF WorldStep, command, Reached, Listing
  <2>2. CASE Pushes(order, order', p) /\ moved' = moved \cup {p}
    <3> SUFFICES ASSUME pc # "failed", NEW i \in 1 .. Len(order'), i <= Reached, order'[i] \notin moved'
                 PROVE  \E j \in 1 .. Len(numbers) : j <= i /\ numbers[j] = order'[i]
      BY <2>1 DEF FoundInv, FoundBefore
    <3>1. order'[i] # p /\ order'[i] \notin moved
      BY <2>2
    <3>2. PICK k \in 1 .. Len(order) : k <= i /\ order[k] = order'[i]
      BY <2>2, <3>1 DEF Pushes
    <3>3. Len(order') \in Nat
      BY <2>2, LenProperties DEF Pushes
    <3>4. k <= Reached /\ order[k] \notin moved
      BY <1>1, <2>1, <3>1, <3>2, <3>3
    <3>5. PICK j \in 1 .. Len(numbers) : j <= k /\ numbers[j] = order[k]
      BY <3>2, <3>4 DEF FoundInv, FoundBefore
    <3> QED BY <1>1, <3>2, <3>3, <3>5
  <2>3. CASE UNCHANGED <<order, moved>>
    BY <2>1, <2>3 DEF FoundInv, FoundBefore
  <2> QED BY <1>5, <2>2, <2>3 DEF WorldStep
<1>6. CASE UNCHANGED vars
  BY <1>6 DEF vars, command, world, FoundInv, Reached, Listing, FoundBefore
<1> QED BY <1>2, <1>3, <1>4, <1>5, <1>6 DEF Cases

(* A move brings at most one listed pull request among those still to come: the
   one that was just before them. *)
LEMMA MovedAhead ==
  ASSUME TypeOK, NEW p \in Pulls, NEW u, Pushes(order, u, p), Len(numbers) <= Len(order)
  PROVE  Cardinality(Range(numbers) \cap Ahead(u, Len(numbers)))
           <= Cardinality(Range(numbers) \cap Ahead(order, Len(numbers))) + 1
<1> DEFINE b == Len(numbers)
           before == Range(numbers) \cap Ahead(order, b)
           after == Range(numbers) \cap Ahead(u, b)
<1>1. /\ numbers \in Seq(Pulls) /\ order \in Seq(Pulls) /\ u \in Seq(Pulls) /\ b \in Nat
      /\ Len(order) \in Nat /\ Len(u) \in Nat /\ Len(order) <= Len(u)
  BY LenProperties DEF TypeOK, Pushes
<1>2. IsFiniteSet(Range(numbers))
  BY <1>1, RangeIsFinite
<1>3. /\ IsFiniteSet(before) /\ IsFiniteSet(after) /\ Cardinality(before) \in Nat /\ Cardinality(after) \in Nat
  BY <1>2, FS_Subset, FS_CardinalityType
<1>4. CASE b = 0
  <2>1. DOMAIN numbers = {}
    BY <1>1, <1>4, LenProperties
  <2>2. after = {}
    BY <2>1 DEF Range
  <2>3. Cardinality(after) = 0
    BY <2>2, FS_EmptySet
  <2> QED BY <1>3, <2>3
<1>5. CASE b # 0
  <2>1. b \in 1 .. Len(order)
    BY <1>1, <1>5
  <2>2. after \subseteq before \cup {order[b]}
    <3> SUFFICES ASSUME NEW i \in b + 1 .. Len(u), u[i] \in Range(numbers)
                 PROVE  u[i] \in before \cup {order[b]}
      BY DEF Ahead
    <3>1. i \in 1 .. Len(u) /\ i # 1 /\ DOMAIN u = 1 .. Len(u) /\ 1 \in 1 .. Len(u)
      BY <1>1, <2>1, LenProperties
    <3>2. u[i] # p
      BY <3>1 DEF Pushes, Distinct
    <3>3. PICK j \in 1 .. Len(order) : j <= i /\ i <= j + 1 /\ order[j] = u[i]
      BY <3>1, <3>2 DEF Pushes
    <3>4. j = b \/ j \in b + 1 .. Len(order)
      BY <1>1, <3>3
    <3> QED BY <3>3, <3>4 DEF Ahead
  <2>3. IsFiniteSet(before \cup {order[b]}) /\ Cardinality(before \cup {order[b]}) <= Cardinality(before) + 1
    <3> HIDE DEF before
    <3>1. /\ IsFiniteSet(before \cup {order[b]})
          /\ Cardinality(before \cup {order[b]}) = IF order[b] \in before THEN Cardinality(before) ELSE Cardinality(before) + 1
      BY <1>3, FS_AddElement
    <3> QED BY <1>3, <3>1
  <2>4. Cardinality(after) <= Cardinality(before \cup {order[b]})
    <3> HIDE DEF before, after
    <3> QED BY <2>2, <2>3, FS_Subset
  <2>5. Cardinality(before \cup {order[b]}) \in Nat
    BY <2>3, FS_CardinalityType
  <2> HIDE DEF before, after
  <2>6. Cardinality(after) <= Cardinality(before) + 1
    BY <1>3, <2>3, <2>4, <2>5
  <2> QED BY <2>6 DEF before, after
<1> QED BY <1>4, <1>5

(* Reading a page turns repeats that were to come into repeats that are there. *)
LEMMA PageRepeats ==
  ASSUME TypeOK, ListInv, pc = "list"
  PROVE  Len(All) - Cardinality(Range(All)) + Cardinality(Range(All) \cap Ahead(order, Len(All)))
           = Len(numbers) - Cardinality(Range(numbers)) + Cardinality(Range(numbers) \cap Ahead(order, Len(numbers)))
<1> DEFINE pulls == PageOf(page)
           R == Range(numbers)
           P == Range(pulls)
           ahead == Ahead(order, Len(numbers))
           rest == Ahead(order, Len(All))
<1>1. /\ numbers \in Seq(Pulls) /\ order \in Seq(Pulls) /\ Len(numbers) \in Nat /\ Len(order) \in Nat
      /\ DOMAIN order = 1 .. Len(order) /\ Len(numbers) <= Len(order) /\ Distinct(order)
  BY LenProperties DEF TypeOK, ListInv, Listing
<1>2. /\ pulls \in Seq(Pulls) /\ All \in Seq(Pulls) /\ Len(pulls) = Len(All) - Len(numbers) /\ Range(All) = R \cup P
      /\ Len(All) = Smaller(Len(numbers) + PageSize, Len(order))
  BY NextPage
<1>3. \A i \in 1 .. Len(pulls) : pulls[i] = order[Len(numbers) + i]
  BY NextPage
<1>4. Len(pulls) \in Nat /\ Len(All) \in Nat /\ DOMAIN pulls = 1 .. Len(pulls)
  BY <1>2, LenProperties
<1>5. Len(numbers) <= Len(All) /\ Len(All) <= Len(order)
  <2>1. PageSize \in Nat
    BY LimitAssumption
  <2> QED BY <1>1, <1>2, <2>1, EndOfPage
<1>6. P = {order[i] : i \in Len(numbers) + 1 .. Len(All)}
  <2>1. P = {pulls[i] : i \in 1 .. Len(pulls)}
    BY <1>4 DEF Range
  <2>2. P \subseteq {order[i] : i \in Len(numbers) + 1 .. Len(All)}
    <3> SUFFICES ASSUME NEW i \in 1 .. Len(pulls) PROVE pulls[i] \in {order[k] : k \in Len(numbers) + 1 .. Len(All)}
      BY <2>1
    <3>1. Len(numbers) + i \in Len(numbers) + 1 .. Len(All)
      BY <1>1, <1>2, <1>4
    <3> QED BY <1>3, <3>1
  <2>3. {order[i] : i \in Len(numbers) + 1 .. Len(All)} \subseteq P
    <3> SUFFICES ASSUME NEW i \in Len(numbers) + 1 .. Len(All) PROVE order[i] \in {pulls[k] : k \in 1 .. Len(pulls)}
      BY <2>1
    <3>1. i - Len(numbers) \in 1 .. Len(pulls) /\ Len(numbers) + (i - Len(numbers)) = i
      BY <1>1, <1>2, <1>4
    <3>2. pulls[i - Len(numbers)] = order[i]
      BY <1>3, <3>1
    <3> QED BY <3>1, <3>2
  <2> QED BY <2>2, <2>3
<1>7. P \cap rest = {}
  <2> SUFFICES ASSUME NEW i \in Len(numbers) + 1 .. Len(All), NEW j \in Len(All) + 1 .. Len(order), order[i] = order[j]
               PROVE  FALSE
    BY <1>6 DEF Ahead
  <2>1. i \in DOMAIN order /\ j \in DOMAIN order /\ i # j
    BY <1>1, <1>4, <1>5
  <2> QED BY <1>1, <2>1 DEF Distinct
<1>8. ahead = P \cup rest
  <2>1. Len(numbers) + 1 .. Len(order) = (Len(numbers) + 1 .. Len(All)) \cup (Len(All) + 1 .. Len(order))
    BY <1>1, <1>4, <1>5
  <2> QED BY <1>6, <2>1 DEF Ahead
<1>9. /\ IsFiniteSet(R) /\ IsFiniteSet(P) /\ Cardinality(R) \in Nat /\ Cardinality(P) \in Nat
  BY <1>1, <1>2, RangeIsFinite
<1>10. Cardinality(P) = Len(pulls)
  <2>1. Distinct(pulls)
    <3> SUFFICES ASSUME NEW i \in 1 .. Len(pulls), NEW j \in 1 .. Len(pulls), pulls[i] = pulls[j] PROVE i = j
      BY <1>4 DEF Distinct
    <3>1. order[Len(numbers) + i] = order[Len(numbers) + j]
      BY <1>3
    <3>2. Len(numbers) + i \in DOMAIN order /\ Len(numbers) + j \in DOMAIN order
      BY <1>1, <1>2, <1>4, <1>5
    <3>3. Len(numbers) + i = Len(numbers) + j
      BY <1>1, <3>1, <3>2 DEF Distinct
    <3> QED BY <1>1, <3>3
  <2> HIDE DEF pulls
  <2> QED BY <1>2, <2>1, DistinctRange DEF Distinct
<1> HIDE DEF R, P, ahead, rest, pulls
<1>11. /\ IsFiniteSet(R \cap P) /\ IsFiniteSet(R \cap rest) /\ Cardinality(R \cap P) \in Nat /\ Cardinality(R \cap rest) \in Nat
  BY <1>9, FS_Subset, FS_CardinalityType
<1>12. Cardinality(R \cup P) = Cardinality(R) + Cardinality(P) - Cardinality(R \cap P)
  BY <1>9, FS_Union
<1>13. Cardinality(R \cap ahead) = Cardinality(R \cap P) + Cardinality(R \cap rest)
  <2>1. R \cap ahead = (R \cap P) \cup (R \cap rest) /\ (R \cap P) \cap (R \cap rest) = {}
    BY <1>7, <1>8
  <2>2. Cardinality((R \cap P) \cup (R \cap rest))
          = Cardinality(R \cap P) + Cardinality(R \cap rest) - Cardinality((R \cap P) \cap (R \cap rest))
    BY <1>11, FS_Union
  <2>3. Cardinality((R \cap P) \cap (R \cap rest)) = 0
    BY <2>1, FS_EmptySet, Zenon
  <2>4. Cardinality((R \cap P) \cup (R \cap rest)) = Cardinality(R \cap P) + Cardinality(R \cap rest)
    BY <1>11, <2>2, <2>3
  <2> QED BY <2>1, <2>4, Zenon
<1>14. (R \cup P) \cap rest = R \cap rest
  BY <1>7
<1>15. Len(All) - Cardinality(R \cup P) + Cardinality((R \cup P) \cap rest) = Len(numbers) - Cardinality(R) + Cardinality(R \cap ahead)
  <2>1. Cardinality((R \cup P) \cap rest) = Cardinality(R \cap rest)
    BY <1>14, Zenon
  <2>2. Len(All) - Cardinality(R \cup P) = Len(numbers) - Cardinality(R) + Cardinality(R \cap P)
    BY <1>1, <1>2, <1>4, <1>9, <1>10, <1>11, <1>12
  <2>3. Len(All) - Cardinality(R \cup P) + Cardinality(R \cap rest)
          = Len(numbers) - Cardinality(R) + (Cardinality(R \cap P) + Cardinality(R \cap rest))
    BY <1>1, <1>9, <1>11, <2>2
  <2> QED BY <1>13, <2>1, <2>3, Zenon
<1> QED BY <1>2, <1>15 DEF R, P, ahead, rest, pulls

(* Reading repeats nothing that was not to come; a move pays for one repeat. *)
LEMMA RepeatPreserved ==
  ASSUME TypeOK, ListInv, RepeatInv, Cases
  PROVE  RepeatInv'
<1>1. /\ Len(numbers) \in Nat /\ Len(order) \in Nat /\ numbers \in Seq(Pulls) /\ moves \in Nat
      /\ Cardinality(Range(numbers)) \in Nat /\ IsFiniteSet(Range(numbers))
  BY LenProperties, RangeIsFinite DEF TypeOK
<1>2. ToRepeat \subseteq Range(numbers) /\ IsFiniteSet(ToRepeat) /\ Cardinality(ToRepeat) \in Nat
  <2>1. ToRepeat \subseteq Range(numbers)
    BY DEF ToRepeat
  <2> QED BY <1>1, <2>1, FS_Subset, FS_CardinalityType
<1>3. Cardinality({}) = 0
  BY FS_EmptySet
<1>4. CASE numbers' = numbers /\ moves' = moves /\ order' = order /\ (Listing' => Listing)
  <2>1. CASE Listing'
    BY <1>4, <2>1 DEF RepeatInv, ToRepeat
  <2>2. CASE ~Listing'
    <3>1. ToRepeat' = {}
      BY <2>2 DEF ToRepeat
    <3> QED BY <1>1, <1>2, <1>3, <1>4, <3>1 DEF RepeatInv
  <2> QED BY <2>1, <2>2
<1>5. CASE LogIn \/ Look \/ ReadReactions \/ Write \/ Fail \/ UNCHANGED vars
  <2>1. numbers' = numbers /\ moves' = moves /\ order' = order /\ (Listing' => Listing)
    BY <1>5 DEF LogIn, Look, ReadReactions, Write, Fail, vars, command, world, Listing
  <2> QED BY <1>4, <2>1
<1>6. CASE ListPage
  <2>1. pc = "list" /\ UNCHANGED world
    BY <1>6 DEF ListPage
  <2> DEFINE known == Len(All) - Cardinality(Range(All))
             still == Cardinality(Range(All) \cap Ahead(order, Len(All)))
  <2>2. known + still = Len(numbers) - Cardinality(Range(numbers)) + Cardinality(Range(numbers) \cap Ahead(order, Len(numbers)))
    BY <2>1, PageRepeats
  <2>3. known + still <= moves
    BY <2>1, <2>2 DEF RepeatInv, ToRepeat, Listing
  <2>4. All \in Seq(Pulls)
    BY <2>1, NextPage
  <2>5. Len(All) \in Nat /\ IsFiniteSet(Range(All)) /\ Cardinality(Range(All)) \in Nat
    BY <2>4, LenProperties, RangeIsFinite
  <2>6. still \in Nat /\ known \in Int
    <3>1. IsFiniteSet(Range(All) \cap Ahead(order, Len(All)))
      BY <2>5, FS_Subset
    <3> QED BY <2>5, <3>1, FS_CardinalityType
  <2>7. CASE Cut
    <3>1. ToRepeat' = {}
      BY <2>7 DEF Cut, ToRepeat, Listing
    <3>2. Len(numbers') - Cardinality(Range(numbers')) <= known
      BY <2>7 DEF Cut
    <3>3. Len(numbers') \in Nat /\ Cardinality(Range(numbers')) \in Nat
      BY <2>7, LenProperties, RangeIsFinite DEF Cut
    <3>4. moves' = moves /\ Cardinality(ToRepeat') = 0
      BY <1>3, <2>1, <3>1 DEF world
    <3> HIDE DEF known, still
    <3>5. Len(numbers') - Cardinality(Range(numbers')) + 0 <= moves'
      BY <1>1, <2>3, <2>6, <3>2, <3>3, <3>4
    <3> QED BY <3>4, <3>5 DEF RepeatInv
  <2>8. CASE GoOn
    BY <2>1, <2>3, <2>8 DEF GoOn, RepeatInv, ToRepeat, Listing, world
  <2> QED BY <1>6, <2>7, <2>8, PageIsRead
<1>7. ASSUME NEW p \in Pulls, WorldStep(p) PROVE RepeatInv'
  <2>1. pc' = pc /\ numbers' = numbers /\ Listing' = Listing
    BY <1>7 DEF WorldStep, command, Listing
  <2>2. CASE UNCHANGED <<order, moved, moves>>
    BY <1>4, <2>1, <2>2
  <2>3. CASE Pushes(order, order', p) /\ moves' = moves + 1
    <3>1. CASE Listing
      <4>1. Len(numbers) <= Len(order)
        BY <3>1 DEF ListInv
      <4>2. Cardinality(Range(numbers) \cap Ahead(order', Len(numbers)))
              <= Cardinality(Range(numbers) \cap Ahead(order, Len(numbers))) + 1
        BY <2>3, <4>1, MovedAhead
      <4>3. Cardinality(ToRepeat') <= Cardinality(ToRepeat) + 1
        BY <2>1, <3>1, <4>2 DEF ToRepeat
      <4>4. ToRepeat' \subseteq Range(numbers)
        BY <2>1 DEF ToRepeat
      <4>5. Cardinality(ToRepeat') \in Nat
        BY <1>1, <4>4, FS_Subset, FS_CardinalityType
      <4> QED BY <1>1, <1>2, <2>1, <2>3, <4>3, <4>5 DEF RepeatInv
    <3>2. CASE ~Listing
      <4>1. ToRepeat' = {} /\ ToRepeat = {}
        BY <2>1, <3>2 DEF ToRepeat
      <4> QED BY <1>1, <1>3, <2>1, <2>3, <4>1 DEF RepeatInv
    <3> QED BY <3>1, <3>2
  <2> QED BY <1>7, <2>2, <2>3 DEF WorldStep
<1> QED BY <1>5, <1>6, <1>7 DEF Cases

(* The place in the listing agrees with the program counter. *)
LEMMA PlacePreserved ==
  ASSUME TypeOK, PlaceInv, Cases
  PROVE  PlaceInv'
<1>1. next \in Nat /\ Len(numbers) \in Nat
  BY LenProperties DEF TypeOK
<1>2. CASE LogIn \/ ListPage \/ Fail
  BY <1>2 DEF LogIn, ListPage, Fail, PlaceInv
<1>3. CASE Look
  BY <1>3 DEF Look, PlaceInv
<1>4. CASE ReadReactions
  BY <1>4 DEF ReadReactions, PlaceInv
<1>5. CASE Write
  BY <1>5 DEF Write, PlaceInv
<1>6. CASE (\E p \in Pulls : WorldStep(p)) \/ UNCHANGED vars
  <2>1. UNCHANGED command
    BY <1>6 DEF WorldStep, vars
  <2> QED BY <2>1 DEF command, PlaceInv
<1> QED BY <1>2, <1>3, <1>4, <1>5, <1>6 DEF Cases

(* Before the first lookup nothing is passed by; the steps that look nothing up
   leave what is. *)
LEMMA NothingRead ==
  ASSUME TypeOK, ListInv, LogIn \/ ListPage \/ Write \/ Fail
  PROVE  /\ comment' = comment /\ moved' = moved /\ next' = next /\ reviews' = reviews
         /\ (next = 1 /\ reviews = <<>>) \/ numbers' = numbers
<1>1. CASE ListPage
  BY <1>1 DEF ListPage, ListInv, Listing, world
<1>2. CASE LogIn \/ Write \/ Fail
  BY <1>2 DEF LogIn, Write, Fail, world
<1> QED BY <1>1, <1>2

(* What one entry more adds. *)
LEMMA EntryAdded ==
  ASSUME NEW S, NEW list \in Seq(S), NEW e \in S, NEW p
  PROVE  /\ e.pr = p => Entries(Append(list, e), p) = Entries(list, p) \cup {Len(list) + 1}
         /\ e.pr # p => Entries(Append(list, e), p) = Entries(list, p)
<1> DEFINE longer == Append(list, e)
<1>1. longer \in Seq(S) /\ Len(longer) = Len(list) + 1 /\ longer[Len(list) + 1] = e /\ Len(list) \in Nat
  BY AppendProperties, LenProperties
<1>2. \A k \in 1 .. Len(list) : longer[k] = list[k]
  BY AppendProperties
<1> HIDE DEF longer
<1>3. 1 .. Len(longer) = 1 .. Len(list) \cup {Len(list) + 1}
  BY <1>1
<1> QED BY <1>1, <1>2, <1>3 DEF Entries, longer

(* What one visit more adds. *)
LEMMA VisitAdded ==
  ASSUME NEW S, NEW list \in Seq(S), NEW n \in Nat, NEW p
  PROVE  /\ list[n + 1] = p => Visits(list, n + 1, p) = Visits(list, n, p) \cup {n + 1}
         /\ list[n + 1] # p => Visits(list, n + 1, p) = Visits(list, n, p)
<1>1. 1 .. n + 1 = 1 .. n \cup {n + 1}
  OBVIOUS
<1> QED BY <1>1 DEF Visits

(* Entries and visits are finitely many. *)
LEMMA CountsAreFinite ==
  ASSUME NEW n \in Nat, NEW list, NEW p, NEW S, NEW other \in Seq(S)
  PROVE  /\ IsFiniteSet(Visits(list, n, p)) /\ Cardinality(Visits(list, n, p)) \in Nat
         /\ IsFiniteSet(Entries(other, p)) /\ Cardinality(Entries(other, p)) \in Nat
<1>1. IsFiniteSet(1 .. n)
  <2>1. 1 \in Int /\ n \in Int
    OBVIOUS
  <2> QED BY <2>1, FS_Interval, Zenon
<1>2. IsFiniteSet(1 .. Len(other))
  <2>1. 1 \in Int /\ Len(other) \in Int
    BY LenProperties
  <2> QED BY <2>1, FS_Interval, Zenon
<1>3. Visits(list, n, p) \subseteq 1 .. n /\ Entries(other, p) \subseteq 1 .. Len(other)
  BY DEF Visits, Entries
<1> QED BY <1>1, <1>2, <1>3, FS_Subset, FS_CardinalityType

(* What can be read gets its entry when it is passed by. *)
LEMMA SeenPreserved ==
  ASSUME TypeOK, ListInv, PlaceInv, SeenInv, Cases
  PROVE  SeenInv'
<1>1. /\ next \in 1 .. Len(numbers) + 1 /\ Len(numbers) \in Nat /\ numbers \in Seq(Pulls)
      /\ \A j \in 1 .. Len(numbers) : numbers[j] \in Pulls
  BY LenProperties DEF TypeOK
<1>2. CASE LogIn \/ ListPage \/ Write \/ Fail
  <2>1. comment' = comment /\ moved' = moved /\ next' = next /\ reviews' = reviews
    BY <1>2, NothingRead
  <2>2. CASE numbers' = numbers
    BY <2>1, <2>2 DEF SeenInv, ReadableReview
  <2>3. CASE next = 1
    BY <2>1, <2>3 DEF SeenInv
  <2> QED BY <1>2, <2>2, <2>3, NothingRead
<1>3. CASE Look
  <2>1. /\ next <= Len(numbers) /\ numbers' = numbers /\ reviews' = reviews /\ comment' = comment /\ moved' = moved
        /\ next' = next \/ (next' = next + 1 /\ ~ReadableReview(numbers[next]))
    BY <1>3 DEF Look, world, InHand, ReadableReview
  <2> SUFFICES ASSUME NEW j \in 1 .. next' - 1, ReadableReview(numbers[j]), numbers[j] \notin moved
               PROVE  Entries(reviews, numbers[j]) # {}
    BY <2>1 DEF SeenInv, ReadableReview
  <2>2. j # next
    BY <1>1, <2>1
  <2>3. j \in 1 .. next - 1
    BY <1>1, <2>1, <2>2
  <2> QED BY <2>3 DEF SeenInv
<1>4. CASE ReadReactions
  <2>1. /\ next <= Len(numbers) /\ numbers' = numbers /\ comment' = comment /\ moved' = moved /\ InHand \in Pulls
    BY <1>1, <1>4 DEF ReadReactions, PlaceInv, world, InHand
  <2>2. CASE ~lost
    <3> DEFINE e == [pr |-> InHand, up |-> comment[InHand].up]
    <3>1. reviews' = Append(reviews, e) /\ next' = next + 1
      BY <1>4, <2>2 DEF ReadReactions
    <3>2. e \in Entry /\ e.pr = numbers[next] /\ reviews \in Seq(Entry)
      BY <2>1 DEF TypeOK, Comment, InHand, Entry
    <3> HIDE DEF e
    <3> SUFFICES ASSUME NEW j \in 1 .. next, ReadableReview(numbers[j]), numbers[j] \notin moved
                 PROVE  Entries(Append(reviews, e), numbers[j]) # {}
      BY <1>1, <2>1, <3>1 DEF SeenInv, ReadableReview
    <3>3. CASE e.pr = numbers[j]
      <4>1. Entries(Append(reviews, e), numbers[j]) = Entries(reviews, numbers[j]) \cup {Len(reviews) + 1}
        BY <3>2, <3>3, EntryAdded
      <4> QED BY <4>1
    <3>4. CASE e.pr # numbers[j]
      <4>1. Entries(Append(reviews, e), numbers[j]) = Entries(reviews, numbers[j])
        BY <3>2, <3>4, EntryAdded
      <4>2. j \in 1 .. next - 1
        BY <1>1, <3>2, <3>4
      <4> QED BY <4>1, <4>2 DEF SeenInv
    <3> QED BY <3>3, <3>4
  <2>3. CASE lost
    <3>1. UNCHANGED <<reviews, next>>
      BY <1>4, <2>3 DEF ReadReactions
    <3> QED BY <2>1, <3>1 DEF SeenInv, ReadableReview
  <2> QED BY <2>2, <2>3
<1>5. ASSUME NEW q \in Pulls, WorldStep(q) PROVE SeenInv'
  <2>1. numbers' = numbers /\ next' = next /\ reviews' = reviews
    BY <1>5 DEF WorldStep, command
  <2> SUFFICES ASSUME NEW j \in 1 .. next - 1, ReadableReview(numbers[j])', numbers[j] \notin moved'
               PROVE  Entries(reviews, numbers[j]) # {}
    BY <2>1 DEF SeenInv
  <2>2. numbers[j] \in Pulls
    BY <1>1
  <2>3. ReadableReview(numbers[j])
    BY <1>5, <2>1, <2>2 DEF WorldStep, ReadableReview
  <2>4. numbers[j] \notin moved
    BY <1>5 DEF WorldStep
  <2> QED BY <2>3, <2>4 DEF SeenInv
<1>6. CASE UNCHANGED vars
  BY <1>6 DEF vars, command, world, SeenInv, ReadableReview
<1> QED BY <1>2, <1>3, <1>4, <1>5, <1>6 DEF Cases

(* An entry is made for one visit. *)
LEMMA CountPreserved ==
  ASSUME TypeOK, ListInv, PlaceInv, CountInv, Cases
  PROVE  CountInv'
<1>1. /\ next \in 1 .. Len(numbers) + 1 /\ next \in Nat /\ next - 1 \in Nat /\ Len(numbers) \in Nat /\ numbers \in Seq(Pulls)
      /\ reviews \in Seq(Entry) /\ Len(reviews) \in Nat
  BY LenProperties DEF TypeOK, Entry
<1>2. \A p \in Pulls : /\ IsFiniteSet(Visits(numbers, next - 1, p)) /\ Cardinality(Visits(numbers, next - 1, p)) \in Nat
                       /\ IsFiniteSet(Entries(reviews, p)) /\ Cardinality(Entries(reviews, p)) \in Nat
  BY <1>1, CountsAreFinite
<1>3. next - 1 + 1 = next /\ next + 1 - 1 = next
  BY <1>1
<1>4. CASE numbers' = numbers /\ next' = next /\ reviews' = reviews
  BY <1>4 DEF CountInv
<1>5. CASE LogIn \/ ListPage \/ Write \/ Fail
  <2>1. next' = next /\ reviews' = reviews
    BY <1>5, NothingRead
  <2>2. CASE next = 1 /\ reviews = <<>>
    <3>1. \A p : Entries(reviews, p) = {}
      BY <2>2 DEF Entries
    <3>2. \A p : Visits(numbers', next' - 1, p) = {}
      BY <2>1, <2>2 DEF Visits
    <3>3. Cardinality({}) = 0
      BY FS_EmptySet
    <3> SUFFICES ASSUME NEW p \in Pulls
                 PROVE  Cardinality(Entries(reviews', p)) <= Cardinality(Visits(numbers', next' - 1, p))
      BY DEF CountInv
    <3> QED BY <2>1, <3>1, <3>2, <3>3
  <2> QED BY <1>4, <1>5, <2>1, <2>2, NothingRead
<1>6. CASE Look
  <2>1. numbers' = numbers /\ reviews' = reviews /\ (next' = next \/ next' = next + 1)
    BY <1>6 DEF Look
  <2>2. CASE next' = next + 1
    <3>0. next' - 1 = next
      BY <1>1, <2>2
    <3> SUFFICES ASSUME NEW p \in Pulls
                 PROVE  Cardinality(Entries(reviews, p)) <= Cardinality(Visits(numbers, next, p))
      BY <2>1, <3>0, Zenon DEF CountInv
    <3>1. IsFiniteSet(Visits(numbers, next, p)) /\ Cardinality(Visits(numbers, next, p)) \in Nat
      BY <1>1, CountsAreFinite
    <3>2. Visits(numbers, next - 1, p) \subseteq Visits(numbers, next, p)
      BY <1>1 DEF Visits
    <3>3. Cardinality(Visits(numbers, next - 1, p)) <= Cardinality(Visits(numbers, next, p))
      BY <3>1, <3>2, FS_Subset
    <3> QED BY <1>2, <3>1, <3>3 DEF CountInv
  <2> QED BY <1>4, <2>1, <2>2
<1>7. CASE ReadReactions
  <2>1. next <= Len(numbers) /\ numbers' = numbers /\ InHand \in Pulls
    BY <1>1, <1>7, LenProperties DEF ReadReactions, PlaceInv, InHand
  <2>2. CASE ~lost
    <3> DEFINE e == [pr |-> InHand, up |-> comment[InHand].up]
    <3>1. reviews' = Append(reviews, e) /\ next' = next + 1
      BY <1>7, <2>2 DEF ReadReactions
    <3>2. e \in Entry /\ e.pr = numbers[next]
      BY <2>1 DEF TypeOK, Comment, InHand, Entry
    <3> HIDE DEF e
    <3>0. next' - 1 = next
      BY <1>1, <3>1
    <3> SUFFICES ASSUME NEW p \in Pulls
                 PROVE  Cardinality(Entries(Append(reviews, e), p)) <= Cardinality(Visits(numbers, next, p))
      BY <2>1, <3>0, <3>1, Zenon DEF CountInv
    <3>3. CASE e.pr = p
      <4>1. Entries(Append(reviews, e), p) = Entries(reviews, p) \cup {Len(reviews) + 1}
        <5>1. reviews \in Seq(Entry) /\ e \in Entry
          BY <1>1, <3>2
        <5>2. e.pr = p => Entries(Append(reviews, e), p) = Entries(reviews, p) \cup {Len(reviews) + 1}
          BY <5>1, EntryAdded
        <5> QED BY <3>3, <5>2
      <4>2. Visits(numbers, next, p) = Visits(numbers, next - 1, p) \cup {next}
        <5>1. Visits(numbers, next - 1 + 1, p) = Visits(numbers, next - 1, p) \cup {next - 1 + 1}
          <6>1. numbers[next - 1 + 1] = p
            BY <1>3, <3>2, <3>3
          <6> QED BY <1>1, <6>1, VisitAdded
        <5> QED BY <1>3, <5>1
      <4>3. Len(reviews) + 1 \notin Entries(reviews, p) /\ next \notin Visits(numbers, next - 1, p)
        BY <1>1 DEF Entries, Visits
      <4>4. Cardinality(Entries(reviews, p) \cup {Len(reviews) + 1}) = Cardinality(Entries(reviews, p)) + 1
        BY <1>2, <4>3, FS_AddElement
      <4>5. Cardinality(Visits(numbers, next - 1, p) \cup {next}) = Cardinality(Visits(numbers, next - 1, p)) + 1
        BY <1>2, <4>3, FS_AddElement
      <4>6. Cardinality(Entries(reviews, p)) + 1 <= Cardinality(Visits(numbers, next - 1, p)) + 1
        BY <1>2 DEF CountInv
      <4> QED BY <4>1, <4>2, <4>4, <4>5, <4>6
    <3>4. CASE e.pr # p
      <4>1. Entries(Append(reviews, e), p) = Entries(reviews, p)
        BY <1>1, <3>2, <3>4, EntryAdded
      <4>2. Visits(numbers, next, p) = Visits(numbers, next - 1, p)
        <5>1. Visits(numbers, next - 1 + 1, p) = Visits(numbers, next - 1, p)
          BY <1>1, <1>3, <3>2, <3>4, VisitAdded
        <5> QED BY <1>3, <5>1
      <4> QED BY <4>1, <4>2 DEF CountInv
    <3> QED BY <3>3, <3>4
  <2>3. CASE lost
    BY <1>4, <1>7, <2>1, <2>3 DEF ReadReactions
  <2> QED BY <2>2, <2>3
<1>8. CASE (\E p \in Pulls : WorldStep(p)) \/ UNCHANGED vars
  <2>1. UNCHANGED command
    BY <1>8 DEF WorldStep, vars
  <2> QED BY <1>4, <2>1 DEF command
<1> QED BY <1>5, <1>6, <1>7, <1>8 DEF Cases

------------------------------------------------------------------------------
(* Theorems *)

(* The invariant holds at the beginning, *)
LEMMA FeedbackInit ==
  ASSUME Init
  PROVE  FeedbackInv
<1>1. order \in Seq(Pulls) /\ Distinct(order) /\ Len(order) \in Nat
  BY ListedAssumption, LenProperties DEF Init, Distinct
<1>2. PICK reviewed \in SUBSET Range(order), illegible \in SUBSET Range(order) :
        comment = [p \in Pulls |-> [there |-> p \in reviewed, legible |-> p \notin illegible, up |-> 0]]
  BY DEF Init
<1>3. comment \in [Pulls -> Comment]
  <2>1. \A p \in Pulls : [there |-> p \in reviewed, legible |-> p \notin illegible, up |-> 0] \in Comment
    BY DEF Comment
  <2> QED BY <1>2, <2>1, Zenon
<1>4. /\ pc = "login" /\ page = 1 /\ numbers = <<>> /\ next = 1 /\ reviews = <<>>
      /\ lost = FALSE /\ moved = {} /\ moves = 0 /\ meddling = 0
  BY DEF Init
<1>5. Len(numbers) = 0 /\ Range(numbers) = {} /\ numbers \in Seq(Pulls) /\ reviews \in Seq([pr : Pulls, up : Nat])
      /\ Len(reviews) = 0
  BY <1>4, EmptySeq DEF Range
<1>6. TypeOK
  <2>1. lost \in BOOLEAN
    BY <1>4, Zenon
  <2> QED BY <1>1, <1>3, <1>4, <1>5, <2>1 DEF TypeOK
<1>7. ListInv
  <2>1. (page - 1) * PageSize = 0
    BY <1>4, LimitAssumption
  <2> QED BY <1>1, <1>4, <1>5, <2>1 DEF ListInv
<1>8. FoundInv
  BY <1>4, <1>5 DEF FoundInv, Reached, Listing
<1>9. RepeatInv
  <2>1. ToRepeat = {} /\ Cardinality({}) = 0
    BY <1>5, FS_EmptySet DEF ToRepeat
  <2>2. Cardinality(ToRepeat) = 0 /\ Cardinality(Range(numbers)) = 0
    BY <1>5, <2>1, Zenon
  <2> QED BY <1>4, <1>5, <2>2 DEF RepeatInv
<1>10. SeenInv
  BY <1>4 DEF SeenInv
<1>11. CountInv
  <2>1. \A p : Entries(reviews, p) = {} /\ Visits(numbers, next - 1, p) = {}
    BY <1>4, <1>5 DEF Entries, Visits
  <2>2. Cardinality({}) = 0
    BY FS_EmptySet
  <2> QED BY <2>1, <2>2 DEF CountInv
<1>12. PlaceInv
  BY <1>4 DEF PlaceInv
<1> QED BY <1>6, <1>7, <1>8, <1>9, <1>10, <1>11, <1>12 DEF FeedbackInv

(* and every step preserves it. *)
LEMMA FeedbackStep ==
  ASSUME FeedbackInv, [Next]_vars
  PROVE  FeedbackInv'
<1>1. Cases
  BY StepCases DEF FeedbackInv
<1> QED BY <1>1, TypePreserved, ListPreserved, FoundPreserved, RepeatPreserved, SeenPreserved, CountPreserved,
           PlacePreserved DEF FeedbackInv

(* The inductive invariant: the listing so far is the whole pages before `page`,
   what stayed in the list's front is found in it no later than its place, the
   repeats there and to come are paid for by moves, and every lookup left its
   entry. *)
THEOREM FeedbackInvariant == Spec => []FeedbackInv
<1>1. Init => FeedbackInv
  BY FeedbackInit
<1>2. FeedbackInv /\ [Next]_vars => FeedbackInv'
  BY FeedbackStep
<1> QED BY <1>1, <1>2, PTL DEF Spec

(* The type invariant of the command. *)
THEOREM TypeCorrect == Spec => []TypeOK
<1>1. FeedbackInv => TypeOK
  BY DEF FeedbackInv
<1> QED BY <1>1, FeedbackInvariant, PTL

(* list_pull_request_numbers skips none that stays where it is among the Limit
   most recent, however the list moves between two pages. *)
THEOREM RecentIsListedHolds == Spec => []RecentIsListed
<1>1. FeedbackInv => RecentIsListed
  <2> SUFFICES ASSUME FeedbackInv, pc \in {"look", "react", "done"},
                      NEW i \in DOMAIN order, i <= Limit, order[i] \notin moved
               PROVE  IsListed(order[i])
    BY DEF RecentIsListed
  <2>1. order \in Seq(Pulls) /\ numbers \in Seq(Pulls) /\ FoundInv
    BY DEF FeedbackInv, TypeOK
  <2>2. i \in 1 .. Len(order) /\ DOMAIN numbers = 1 .. Len(numbers)
    BY <2>1, LenProperties
  <2>3. FoundBefore(order[i], i)
    BY <2>1, <2>2 DEF FoundInv, Reached, Listing
  <2> QED BY <2>2, <2>3 DEF FoundBefore, IsListed, Range
<1> QED BY <1>1, FeedbackInvariant, PTL

(* Each update or opening while the pages are read lets at most one pull request
   be listed twice. *)
THEOREM OneRepeatForAMoveHolds == Spec => []OneRepeatForAMove
<1>1. FeedbackInv => OneRepeatForAMove
  <2> SUFFICES ASSUME FeedbackInv PROVE OneRepeatForAMove
    OBVIOUS
  <2>1. RepeatInv /\ numbers \in Seq(Pulls) /\ moves \in Nat
    BY DEF FeedbackInv, TypeOK
  <2>2. Len(numbers) \in Nat /\ IsFiniteSet(Range(numbers)) /\ Cardinality(Range(numbers)) \in Nat
    BY <2>1, LenProperties, RangeIsFinite
  <2>3. ToRepeat \subseteq Range(numbers)
    BY DEF ToRepeat
  <2>4. Cardinality(ToRepeat) \in Nat
    BY <2>2, <2>3, FS_Subset, FS_CardinalityType
  <2> QED BY <2>1, <2>2, <2>4 DEF RepeatInv, OneRepeatForAMove
<1> QED BY <1>1, FeedbackInvariant, PTL

(* The report has an entry for every inspected pull request whose readable
   review nobody published again, and none has more entries than places in the
   listing. *)
THEOREM EveryReviewCountsHolds == Spec => []EveryReviewCounts
<1>1. FeedbackInv => EveryReviewCounts
  <2> SUFFICES ASSUME FeedbackInv, pc = "done", NEW i \in DOMAIN numbers
               PROVE  /\ comment[numbers[i]].there /\ comment[numbers[i]].legible /\ numbers[i] \notin moved
                           => {j \in DOMAIN reviews : reviews[j].pr = numbers[i]} # {}
                      /\ Cardinality({j \in DOMAIN reviews : reviews[j].pr = numbers[i]})
                           <= Cardinality({j \in DOMAIN numbers : numbers[j] = numbers[i]})
    BY DEF EveryReviewCounts
  <2>1. /\ numbers \in Seq(Pulls) /\ reviews \in Seq([pr : Pulls, up : Nat]) /\ SeenInv /\ CountInv
        /\ next \in 1 .. Len(numbers) + 1 /\ next > Len(numbers)
    BY DEF FeedbackInv, TypeOK, PlaceInv
  <2>2. /\ DOMAIN numbers = 1 .. Len(numbers) /\ DOMAIN reviews = 1 .. Len(reviews) /\ next - 1 = Len(numbers)
        /\ numbers[i] \in Pulls
    BY <2>1, LenProperties
  <2>3. /\ {j \in DOMAIN reviews : reviews[j].pr = numbers[i]} = Entries(reviews, numbers[i])
        /\ {j \in DOMAIN numbers : numbers[j] = numbers[i]} = Visits(numbers, next - 1, numbers[i])
    BY <2>2 DEF Entries, Visits
  <2>4. ReadableReview(numbers[i]) /\ numbers[i] \notin moved => Entries(reviews, numbers[i]) # {}
    BY <2>1, <2>2 DEF SeenInv
  <2>5. Cardinality(Entries(reviews, numbers[i])) <= Cardinality(Visits(numbers, next - 1, numbers[i]))
    BY <2>1, <2>2 DEF CountInv
  <2> QED BY <2>3, <2>4, <2>5 DEF ReadableReview
<1> QED BY <1>1, FeedbackInvariant, PTL
=============================================================================
