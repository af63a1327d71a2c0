------------------------------ MODULE Reviews ------------------------------
(***************************************************************************)
(* Reviews around one provider-hosted event that ended: travellers review  *)
(* the provider and the provider's owner reviews travellers.  The rating   *)
(* of the provider is a projection that a trigger recomputes whenever one  *)
(* of its reviews changes; its UPDATE may wait for the provider row while  *)
(* others commit, and then writes what it had read before.                 *)
(***************************************************************************)
EXTENDS FiniteSets

CONSTANTS
  Posters,    \* review requests being served at a time
  Moderators, \* decisions being taken at a time: a later phase moderates, no
              \* code of this repository does
  Travellers,
  Attendance  \* attendance_status of the participation rows of each traveller

ASSUME ReviewsAssumption ==
  /\ Posters \cap Moderators = {}
  /\ Attendance \in [Travellers -> SUBSET {"UNKNOWN", "ATTENDED", "NO_SHOW", "CANCELLED"}]

VARIABLES
  reviews,    \* committed rows of reviews: [key, state]
  rating,     \* providers.rating_avg and rating_count, as the reviews counted
  lastAlone,  \* history: the last write of the projection overlapped no other
  post        \* the open transaction of each poster and moderator

reviewsVars == <<reviews, rating, lastAlone, post>>

ReviewWriters == Posters \cup Moderators

\* Who reviews whom: a traveller the provider, or its owner the traveller.
Keys == [by : {"TRAVELLER", "PROVIDER"}, traveller : Travellers]
NoKey == [by |-> "NONE", traveller |-> "NONE"]

\* after: the reviews as they will be; counted: what the trigger read; alone:
\* history: no other transaction that writes the projection overlapped.
NoPost ==
  [at |-> "idle", key |-> NoKey, state |-> "PENDING", counted |-> {}, alone |-> TRUE]

Posting(w) == post[w].at # "idle"
Advance(w, at) == post' = [post EXCEPT ![w].at = at]
Reply(w) == post' = [post EXCEPT ![w] = NoPost]

StartPost(w, at, key, state) ==
  /\ ~Posting(w)
  /\ post' = [v \in ReviewWriters |->
       IF v = w THEN [NoPost EXCEPT !.at = at, !.key = key, !.state = state,
                                    !.alone = \A u \in ReviewWriters : ~Posting(u)]
       ELSE [post[v] EXCEPT !.alone = ~Posting(v)]]
  /\ UNCHANGED <<reviews, rating, lastAlone>>

-----------------------------------------------------------------------------
(* createProviderReview, createCustomerReview.                             *)

\* Only the owner of the hosting provider, and nobody about himself, gets here.
CreateReview(w, key) == StartPost(w, "lock", key, "PENDING")

\* attendanceEvidenceFor.
Evidence(status) == IF status = "ATTENDED" THEN "CONFIRMED" ELSE "NONE"

\* assertReviewEligible reads one of the rows, whichever comes first, cancelled
\* ones among them.
RowsOf(u) == IF Attendance[u] = {} THEN {"NONE"} ELSE Attendance[u]

\* The advisory lock on the key, held until the transaction ends, then the
\* evidence about the traveller.
LockAndCheck(w) ==
  /\ post[w].at = "lock"
  /\ \A v \in ReviewWriters \ {w} : post[v].key = post[w].key => post[v].at \in {"idle", "lock"}
  /\ \E status \in RowsOf(post[w].key.traveller) :
       IF Evidence(status) = "CONFIRMED" THEN Advance(w, "insert") ELSE Reply(w)
  /\ UNCHANGED <<reviews, rating, lastAlone>>

\* Mutant: the unique index does not cover the key.
Vacant_Always(key) == TRUE

Vacant(key) == \A r \in reviews : r.key # key

\* INSERT ... ON CONFLICT DO NOTHING.
InsertReview(w) ==
  /\ post[w].at = "insert"
  /\ IF Vacant(post[w].key) THEN Advance(w, "trigger") ELSE Reply(w)
  /\ UNCHANGED <<reviews, rating, lastAlone>>

\* A moderator decides about a review, or removes it, and waits for whoever
\* holds its row.
ModerateReview(w, r, state) ==
  /\ \A v \in Moderators : Posting(v) => post[v].key # r.key
  /\ StartPost(w, "trigger", r.key, state)

-----------------------------------------------------------------------------
(* tw_sync_provider_rating, and the COMMIT.                                *)

\* The reviews with the change of the transaction in them.
Changed(w) ==
  {r \in reviews : w \in Moderators => r.key # post[w].key} \cup
  (IF post[w].state = "REMOVED" THEN {} ELSE {[key |-> post[w].key, state |-> post[w].state]})

Counts(r) == r.key.by = "TRAVELLER" /\ r.state = "APPROVED"

CountedOf(rows) == {r.key : r \in {s \in rows : Counts(s)}}

\* A review of a traveller leaves the projection alone.
RunTrigger(w) ==
  /\ post[w].at = "trigger"
  /\ post' = [post EXCEPT ![w].at = IF post[w].key.by = "TRAVELLER" THEN "project" ELSE "commit",
                          ![w].counted = CountedOf(Changed(w))]
  /\ UNCHANGED <<reviews, rating, lastAlone>>

CommitReview(w) ==
  /\ post[w].at \in {"project", "commit"}
  /\ reviews' = Changed(w)
  /\ IF post[w].at = "project"
     THEN rating' = post[w].counted /\ lastAlone' = post[w].alone
     ELSE UNCHANGED <<rating, lastAlone>>
  /\ Reply(w)

RollbackReview(w) ==
  /\ Posting(w)
  /\ Reply(w)
  /\ UNCHANGED <<reviews, rating, lastAlone>>

ReviewsInit ==
  /\ reviews = {} /\ rating = {} /\ lastAlone = TRUE
  /\ post = [w \in ReviewWriters |-> NoPost]

ReviewsNext ==
  \/ \E w \in Posters, key \in Keys : CreateReview(w, key)
  \/ \E w \in Moderators, r \in reviews, state \in {"APPROVED", "REJECTED", "REMOVED"} :
       ModerateReview(w, r, state)
  \/ \E w \in ReviewWriters :
       LockAndCheck(w) \/ InsertReview(w) \/ RunTrigger(w) \/ CommitReview(w) \/ RollbackReview(w)

ReviewsSpec == ReviewsInit /\ [][ReviewsNext]_reviewsVars

-----------------------------------------------------------------------------
(* Properties.                                                             *)

\* However often a request is sent, a traveller has one review of the provider
\* and one by it, and only about an event that the traveller attended.
ReviewsAreEarnedOnce ==
  /\ \A r, s \in reviews : r.key = s.key => r = s
  /\ \A r \in reviews : "ATTENDED" \in Attendance[r.key.traveller]

ApprovedReviews == {r.key : r \in {s \in reviews : s.key.by = "TRAVELLER" /\ s.state = "APPROVED"}}

\* The rating is that of the approved reviews, as far as the last transaction
\* that wrote it ran by itself: whatever drifted before, it heals.
RatingHeals == lastAlone => rating = ApprovedReviews

\* The reviews and the rating they add up to.
ReviewsAreSound == ReviewsAreEarnedOnce /\ RatingHeals
=============================================================================
