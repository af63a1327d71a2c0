----------------------------- MODULE Candidates -----------------------------
(***************************************************************************)
(* How a batch of the matching feed is ranked.  PostgreSQL orders who may  *)
(* be shown by an upper bound of the score and returns Cap rows and one    *)
(* more (CandidateRepository); the service scores the Cap exactly          *)
(* (scoring.ts), and tells the client whether the page it returns is       *)
(* proven to come before everyone who was not scored (MatchingService).    *)
(*                                                                         *)
(* Rational scores are whole numbers: One stands for 1, chosen so that no  *)
(* division below has a remainder.  Places lie on a line, distances are    *)
(* whole, and a day is a number.  MatchingFeed has the cache, the cursors  *)
(* of clients and requests at the same time; here one client reads.        *)
(***************************************************************************)
EXTENDS Integers, FiniteSets, Sequences

CONSTANTS
  Candidates,  \* user ids, ordered as the tie-break orders them
  People,      \* sequence of what PostgreSQL may hold of a candidate
  Viewers,     \* sequence of what it may hold of the viewer
  Filters,     \* request filters as the clients send them
  Radius,      \* MATCHING_ANCHOR_RADIUS_KM
  Breadth,     \* MATCHING_BREADTH_BETA, in quarters
  Cap,         \* candidateCap
  Limit,       \* page size
  MaxChanges   \* how often PostgreSQL changes in a behaviour

Unit == 2      \* 1 of a segment pair's component; stays and radii divide it
One == 160     \* 1 of a component of the match
Today == 1     \* the date a request is made on

\* trip_segments_date_order_chk: a stay does not end before it starts.
Segment ==
  {s \in [place : Nat, at : Nat, start : Nat, end : Nat] : s.start <= s.end}
Query == [countries : SUBSET STRING, minAge : Nat, maxAge : Nat]
Traveller == [open : BOOLEAN, segments : {S \in SUBSET Segment : IsFiniteSet(S)}, style : 1 .. 5,
              interests : SUBSET {1, 2}, trust : 0 .. 10, country : STRING,
              age : Nat, ages : SUBSET Nat, minTrust : 0 .. 10, maxDistance : {1, 2}]

ASSUME CandidatesAssumption ==
  /\ Candidates \subseteq Nat \ {0} /\ IsFiniteSet(Candidates)
  /\ {People, Viewers} \subseteq Seq(Traveller) \ {<<>>}
  /\ Filters \subseteq Query
  /\ Breadth \in 0 .. 4 /\ Radius \in {1, 2}
  /\ {Cap, Limit} \subseteq Nat \ {0} /\ MaxChanges \in Nat

VARIABLES
  viewer,    \* PostgreSQL: which of Viewers the viewer's rows are
  person,    \* PostgreSQL: which of People the rows of each candidate are
  swiped,    \* PostgreSQL: who the viewer has swiped
  changes,   \* how often these changed
  stage,     \* "idle", "loaded", "ranked" or "failed"
  context,   \* the rows loadViewerScoringContext answered from, 0 before
  filter,    \* the filter of the request
  cursor,    \* where the coarse query starts
  ranking,   \* CachedMatchingRanking
  examined,  \* the part of it that pages have been through
  page,      \* the last page: who it shows, and rankingExact
  loadedAt, rankedAt, \* history: changes when the two queries ran
  walked,    \* history: who earlier batches of the walk have scored
  moved,     \* history: whose rows changed since its first batch was ranked
  missed     \* history: the best exact score of who is left unscored

db == <<viewer, person, swiped>>
feedVars == <<stage, context, filter, cursor, ranking, examined, page,
             loadedAt, rankedAt, walked, missed>>
candidatesVars == <<db, changes, moved, feedVars>>

Viewer == Viewers[viewer]
Person(c) == People[person[c]]

Least(a, b) == IF a < b THEN a ELSE b
Greatest(a, b) == IF a > b THEN a ELSE b
Largest(S) == CHOOSE x \in S : \A y \in S : y <= x
Magnitude(x) == IF x < 0 THEN -x ELSE x

\* The sum of scores of pairs, none above 10 * Unit: the points below them.
Total(f, S) == Cardinality({point \in S \X (1 .. 10 * Unit) : point[2] <= f[point[1]]})

-----------------------------------------------------------------------------
(* PostgreSQL: who may be shown, and the upper bound.                      *)

AnchorRadius(v) == Least(v.maxDistance, Radius)

Upcoming(p) == {s \in p.segments : s.end >= Today}

Distance(a, b) == Magnitude(a.at - b.at)
Meet(a, b) == a.start <= b.end /\ b.start <= a.end
Overlap(a, b) == Least(a.end, b.end) - Greatest(a.start, b.start) + 1
Stay(s) == s.end - s.start + 1

AnchoredPairs(v, p) ==
  {pair \in Upcoming(v) \X Upcoming(p) :
     Meet(pair[1], pair[2]) /\ Distance(pair[1], pair[2]) <= AnchorRadius(v)}

\* pairWeights: 0.2 for the destination, 0.5 for time, 0.3 for distance.
PairBound(v, a, b) ==
    2 * (IF a.place # 0 /\ a.place = b.place THEN Unit ELSE 0)
  + 5 * ((Overlap(a, b) * Unit) \div Least(Stay(a), Stay(b)))
  + 3 * Greatest(0, Unit - (Distance(a, b) * Unit) \div AnchorRadius(v))

ItineraryBound(v, p) ==
  8 * Largest({PairBound(v, pair[1], pair[2]) : pair \in AnchoredPairs(v, p)} \cup {0})

Jaccard(a, b) ==
  IF a \cup b = {} THEN 0 ELSE (Cardinality(a \cap b) * One) \div Cardinality(a \cup b)

MatchBound(v, p) ==
    4 * ItineraryBound(v, p)
  + 3 * ((p.trust * One) \div 10)
  + 2 * (One - (Magnitude(p.style - v.style) * One) \div 4)
  + Jaccard(v.interests, p.interests)

\* open stands for what every query checks of a user alone, and of a pair's
\* blocks: active, not deleted, discoverable, not in Ghost Mode, both
\* consents current, not restricted, and nobody blocked.
\* Mutant: whether the candidate wants to meet the viewer is not asked.
AgesAgree_OneWay(v, p) == p.age \in v.ages

AgesAgree(v, p) == p.age \in v.ages /\ v.age \in p.ages

\* The CTE "eligible" of CANDIDATE_GENERATION_SQL.
Eligible(v, p) ==
  /\ v.open /\ p.open
  /\ AnchoredPairs(v, p) # {}
  /\ p.trust >= v.minTrust
  /\ AgesAgree(v, p)
  /\ p.country \in filter.countries /\ p.age \in filter.minAge .. filter.maxAge

Ranked == {c \in Candidates \ swiped : Eligible(Viewer, Person(c))}

\* NoRow is a cursor before every row.
NoRow == [bound |-> -1, id |-> 0]
RankedRows == {[bound |-> MatchBound(Viewer, Person(c)), id |-> c] : c \in Ranked}
Precedes(r, s) == r.bound > s.bound \/ (r.bound = s.bound /\ r.id < s.id)
First(n, rows) == {r \in rows : Cardinality({s \in rows : Precedes(s, r)}) < n}

\* PAIR_ELIGIBILITY_SQL: what a swipe asks before it is taken.
PairEligible(v, p) ==
  /\ v.open /\ p.open
  /\ p.trust >= v.minTrust
  /\ p.age \in v.ages /\ v.age \in p.ages
  /\ \E a \in Upcoming(v), b \in Upcoming(p) :
       Meet(a, b) /\ Distance(a, b) <= AnchorRadius(v)

isPairEligible(c) == PairEligible(Viewer, Person(c))

\* VIEWER_ELIGIBILITY_SQL: asked before everything else.
isViewerEligible == Viewer.open

\* CANDIDATE_REVALIDATION_SQL
Revalidated == {c \in Candidates \ swiped : Viewer.open /\ Person(c).open}

-----------------------------------------------------------------------------
(* TypeScript: the exact score.                                            *)

\* loadViewerScoringContext: what scoring knows of the viewer
Context(v) ==
  [segments |-> Upcoming(v), style |-> v.style, interests |-> v.interests,
   radius |-> Least(v.maxDistance, Radius)]
Loaded == Context(Viewers[context])

\* scoreSegmentPair
PairScore(x, a, b) ==
  IF Overlap(a, b) <= 0 \/ Distance(a, b) > x.radius THEN 0
  ELSE   2 * (IF a.place # 0 /\ b.place # 0 /\ a.place = b.place THEN Unit ELSE 0)
       + 5 * ((Overlap(a, b) * Unit) \div Least(Stay(a), Stay(b)))
       + 3 * Greatest(0, Unit - (Distance(a, b) * Unit) \div x.radius)

Best(x, a, segments) == Largest({PairScore(x, a, b) : b \in segments} \cup {0})
BestPair(x, segments) == Largest({Best(x, a, segments) : a \in x.segments} \cup {0})

\* scoreItinerary: a mix of the best pair and the mean over the viewer's stays
ItineraryScore(x, segments) ==
  IF x.segments = {} \/ segments = {} THEN 0
  ELSE LET best == [a \in x.segments |-> Best(x, a, segments)]
       IN    2 * (4 - Breadth) * BestPair(x, segments)
           + (2 * Breadth * Total(best, x.segments)) \div Cardinality(x.segments)

\* scoreTrust, scoreTravelStyle and scoreInterests
Fixed(x, p) ==
    3 * ((p.trust * One) \div 10)
  + 2 * (One - (Magnitude(x.style - p.style) * One) \div 4)
  + Jaccard(x.interests, p.interests)

\* scoreMatch
MatchScore(x, p) == 4 * ItineraryScore(x, Upcoming(p)) + Fixed(x, p)
UpperBound(x, p) == 4 * (8 * BestPair(x, Upcoming(p))) + Fixed(x, p)

\* sortByExactScore
Before(c, d) ==
  LET s == ranking.score IN s[c] > s[d] \/ (s[c] = s[d] /\ c < d)

-----------------------------------------------------------------------------
None == -1
NoFilter == [countries |-> {}, minAge |-> 0, maxAge |-> 0]
NoRanking == [score |-> <<>>, next |-> None, cursor |-> NoRow]
NoPage == [shown |-> {}, exact |-> FALSE]

CandidatesInit ==
  /\ viewer \in DOMAIN Viewers /\ person \in [Candidates -> DOMAIN People]
  /\ swiped = {} /\ changes = 0
  /\ stage = "idle" /\ filter = NoFilter /\ cursor = NoRow
  /\ context = 0 /\ ranking = NoRanking
  /\ examined = {} /\ page = NoPage
  /\ loadedAt = 0 /\ rankedAt = 0
  /\ walked = {} /\ moved = {} /\ missed = None

\* Users edit their trips, settings and profiles; the viewer swipes.
Change ==
  /\ changes < MaxChanges /\ changes' = changes + 1
  /\ \/ /\ viewer' \in DOMAIN Viewers \ {viewer} /\ moved' = Candidates
        /\ UNCHANGED <<person, swiped>>
     \/ /\ \E c \in Candidates, p \in DOMAIN People :
             /\ p # person[c] /\ person' = [person EXCEPT ![c] = p]
             /\ moved' = moved \cup {c}
        /\ UNCHANGED <<viewer, swiped>>
     \/ /\ \E c \in Candidates \ swiped :
             isPairEligible(c) /\ swiped' = swiped \cup {c}
        /\ UNCHANGED <<viewer, person, moved>>
  /\ UNCHANGED feedVars

\* normalizeFilters refuses a range of ages that is none.
normalizeFilters(q) == q.minAge <= q.maxAge

\* The first query of generateRanking; a viewer it does not find is refused.
Load(from) ==
  /\ isViewerEligible
  /\ context' = viewer /\ cursor' = from
  /\ stage' = "loaded" /\ loadedAt' = changes /\ rankedAt' = 0
  /\ ranking' = NoRanking /\ examined' = {} /\ page' = NoPage
  /\ missed' = None
  /\ UNCHANGED <<db, changes, moved>>

\* A first page, also of other filters, or one whose cursor is no longer good.
Start(q) ==
  /\ stage \in {"idle", "failed", "ranked"}
  /\ normalizeFilters(q) /\ filter' = q
  /\ walked' = {}
  /\ Load(NoRow)

\* A page after the last one of a batch: the next batch is ranked.
Continue ==
  /\ stage = "ranked" /\ examined = DOMAIN ranking.score
  /\ ranking.cursor # NoRow
  /\ walked' = walked \cup DOMAIN ranking.score
  /\ Load(ranking.cursor)
  /\ UNCHANGED filter

\* Mutant: the row after the last one is not fetched.
RowLimit_Cap == Cap

\* LIMIT exactScoreLimit + 1
RowLimit == Cap + 1

\* The coarse query, and the exact scores of all but the row after the last;
\* a bound on which SQL and TypeScript differ fails the request.
Score ==
  /\ stage = "loaded"
  /\ LET paged == {r \in RankedRows : cursor = NoRow \/ Precedes(cursor, r)}
         fetched == First(RowLimit, paged)
         scored == First(Cap, fetched)
         next == fetched \ scored
         agrees(r) == UpperBound(Loaded, Person(r.id)) = r.bound
         ids == {r.id : r \in scored}
         \* history: who is left unscored, and who of them is above the cursor
         unscored == {r \in RankedRows : r.id \notin walked \cup ids}
         above == {r \in unscored \ paged : r.id \in moved}
         best(rows) == Largest({MatchScore(Context(Viewer), Person(r.id)) : r \in rows} \cup {None})
     IN  \/ /\ \E r \in scored : ~agrees(r)
            /\ stage' = "failed" /\ UNCHANGED <<ranking, missed>>
         \/ /\ \A r \in scored : agrees(r)
            /\ stage' = "ranked"
            /\ ranking' =
                 [score |-> [c \in ids |-> MatchScore(Loaded, Person(c))],
                  next |-> Largest({r.bound : r \in next} \cup {None}),
                  cursor |-> IF next = {} THEN NoRow
                             ELSE CHOOSE r \in scored : \A s \in scored \ {r} : Precedes(s, r)]
            /\ missed' = best(unscored \ above)
  /\ rankedAt' = changes
  /\ moved' = IF cursor = NoRow THEN {} ELSE moved
  /\ UNCHANGED <<db, changes, context, filter, cursor, examined, page, loadedAt, walked>>

checkTopKExactness(shown) ==
  \/ ranking.next = None
  \/ shown # {} /\ \A c \in shown : ranking.next <= ranking.score[c]

\* pageRanking: batches are revalidated until the page is full.  A batch that
\* nobody is in has one page, without a cursor to go on from.
ReadPage ==
  /\ stage = "ranked"
  /\ examined # DOMAIN ranking.score \/ DOMAIN ranking.score = {}
  /\ LET rest == DOMAIN ranking.score \ examined
         allowed == rest \cap Revalidated
         shown == {c \in allowed : Cardinality({d \in allowed : Before(d, c)}) < Limit}
     IN  /\ page' = [shown |-> shown, exact |-> checkTopKExactness(shown)]
         /\ examined' =
              IF Cardinality(shown) < Limit THEN DOMAIN ranking.score
              ELSE examined \cup {c \in rest : \E d \in shown : c = d \/ Before(c, d)}
  /\ UNCHANGED <<db, changes, moved, stage, context, filter, cursor, ranking,
                 loadedAt, rankedAt, walked, missed>>

CandidatesNext == Change \/ (\E q \in Filters : Start(q)) \/ Continue \/ Score \/ ReadPage

CandidatesSpec == CandidatesInit /\ [][CandidatesNext]_candidatesVars

-----------------------------------------------------------------------------
(* Properties.                                                             *)

\* An exact page leaves out nobody with this exact score who should be on it
\* or on an earlier page; an empty exact page leaves out nobody at all.
ExactDespite(score) ==
  page.exact =>
    /\ page.shown = {} => score = None
    /\ \A c \in page.shown : score <= ranking.score[c]

\* rankingExact is what it says: of all who were eligible when the batch was
\* ranked, nobody whom no page of this walk has been through (shown, or
\* refused by its revalidation) has an exact score above any that the page
\* shows - whether later pages and batches have them or none will.  Left aside
\* is who moved above the cursor of the batch, through a change of the own or
\* the viewer's rows since the walk began: a batch starts below the cursor of
\* the one before and is ranked from the rows of now, so it has not got them,
\* though the page may still say that it is exact.
ExactMeansExact ==
  /\ ExactDespite(missed)
  /\ page.exact =>
       \A c \in page.shown, d \in DOMAIN ranking.score \ examined :
         ranking.score[d] <= ranking.score[c]

\* As long as PostgreSQL has not changed since they were ranked, everyone on
\* a page can be swiped: the feed and the swipe agree about eligibility,
\* which two different queries decide.
ShownCanBeSwiped ==
  rankedAt = changes => \A c \in page.shown : isPairEligible(c)

\* The two computations of the upper bound only differ, and a request only
\* fails for it, when the viewer's rows change between the two queries.
ParityHolds == stage = "failed" => loadedAt < rankedAt

\* The queries that each decide about eligibility and bounds agree.
QueriesAgree == ShownCanBeSwiped /\ ParityHolds
=============================================================================
