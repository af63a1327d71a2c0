---------------------------- MODULE MatchingFeed ----------------------------
(***************************************************************************)
(* The matching feed of one viewer: generation tokens and ranked batches   *)
(* cached in Redis, cursors that walk them, and a PostgreSQL that goes on  *)
(* changing (MatchingService.getFeed, FeedGenerationService).              *)
(*                                                                         *)
(* Every Redis command and every query is a step.  What changes of a score *)
(* is its SQL upper bound, the order of the coarse query; the exact score, *)
(* the order within a batch, is given.  A cursor is opaque to its client,  *)
(* so it is one the service handed out.                                    *)
(***************************************************************************)
EXTENDS Integers, FiniteSets, Sequences

CONSTANTS
  Candidates,  \* user ids, ordered as the query's tie-break orders them
  Clients,     \* devices of the viewer; each has one request at a time
  Filters,     \* request filters, each the set of candidates that pass it
  Limit,       \* page size
  Cap,         \* candidateCap: how many candidates a batch scores exactly
  MaxBound,    \* upper bounds are 1 .. MaxBound, 0 is not anchored
  Score,       \* the exact score of each candidate
  Scenarios    \* what a behaviour starts with and how much of each thing it has

ASSUME FeedAssumption ==
  /\ Candidates \subseteq Nat \ {0} /\ IsFiniteSet(Candidates)
  /\ Filters \subseteq SUBSET Candidates
  /\ {Limit, Cap, MaxBound} \subseteq Nat \ {0}
  /\ Score \in [Candidates -> Nat]
  /\ Scenarios \subseteq
       [open : SUBSET Candidates, bound : [Candidates -> 0 .. MaxBound],
        moving : SUBSET Candidates,
        filters : SUBSET Filters, clients : SUBSET Clients, walkers : SUBSET Clients,
        changes : Nat, tokens : Nat, snapshots : Nat, failures : Nat]

VARIABLES
  scenario,    \* the bounds of this behaviour
  open,        \* PostgreSQL: who passes the checks a page is revalidated by
  bound,       \* PostgreSQL: the upper bound of each candidate's score
  mutation,    \* the viewer's mutation: "none", or committed and about to "bump"
  generation,  \* Redis: the viewer's generation token
  cache,       \* Redis: the cached rankings
  request,     \* the request each client has under way
  walk,        \* the walk each client is on: its cursor, what it was shown
  minted, snapshots, failures,        \* how many tokens, rankings, failed commands
  now, changed, committedAt, bumpedAt \* history: when PostgreSQL changed

db == <<open, bound, now, changed>>
redis == <<generation, cache>>
counters == <<minted, snapshots, failures>>
history == <<committedAt, bumpedAt>>
vars == <<scenario, db, mutation, redis, request, walk, counters, history>>

NoToken == 0
Legacy == -1   \* metadata of an older format, not a token
isToken(value) == value > 0

\* A candidate in a ranking; also where a coarse query goes on.
Entry == [id : Candidates, bound : 1 .. MaxBound]
NoEntry == [id |-> 0, bound |-> 0]

\* next: nextBatchCursor; at: history, the PostgreSQL state it was ranked in.
Ranking == [snapshotId : Nat \ {0}, ranked : Seq(Entry),
            next : Entry \cup {NoEntry}, at : Nat]
NoRanking == [snapshotId |-> 0, ranked |-> <<>>, next |-> NoEntry, at |-> 0]

NoCursor == [generation |-> NoToken, filter |-> {}, batchKey |-> NoEntry,
             snapshotId |-> 0, last |-> NoEntry]
NoWalk == [cursor |-> NoCursor, shown |-> {}, oldest |-> 0]


\* since: the last bump before it began; closed: who was closed ever since.
NoRequest == [stage |-> "idle", filter |-> {}, cursor |-> NoCursor,
              generation |-> NoToken, batchKey |-> NoEntry, ranking |-> NoRanking,
              position |-> 0, selected |-> {}, examined |-> NoEntry,
              since |-> 0, closed |-> {}]

Is(s, stage) == request[s].stage = stage
Step(s, row) == request' = [request EXCEPT ![s] = row]

\* A Redis command that fails is logged and swallowed by CacheService.
Fails == failures < scenario.failures /\ failures' = failures + 1
Works == UNCHANGED failures

-----------------------------------------------------------------------------
(* PostgreSQL.                                                             *)

Tick(c) ==
  /\ now < scenario.changes /\ c \in scenario.moving
  /\ now' = now + 1
  /\ changed' = [changed EXCEPT ![c] = now + 1]

\* A block, a swipe, Ghost Mode, a restriction, a withdrawn consent, or the
\* end of one; a trip, interest or score that moves the upper bound.
Change(c) ==
  \/ /\ open' = open \ {c}
     /\ UNCHANGED <<bound, request>>
  \/ /\ c \notin open
     /\ open' = open \cup {c}
     /\ request' = [s \in Clients |-> [request[s] EXCEPT !.closed = @ \ {c}]]
     /\ UNCHANGED bound
  \/ /\ \E b \in 0 .. MaxBound \ {bound[c]} : bound' = [bound EXCEPT ![c] = b]
     /\ UNCHANGED <<open, request>>

\* Another user changes: the viewer's generation stays.
OtherChanges(c) ==
  /\ Tick(c) /\ Change(c)
  /\ UNCHANGED <<scenario, mutation, redis, walk, counters, history>>

\* The viewer changes something; the bump follows the COMMIT.
ViewerCommits(c) ==
  /\ mutation = "none"
  /\ Tick(c) /\ Change(c)
  /\ mutation' = "bump"
  /\ committedAt' = now'
  /\ UNCHANGED <<scenario, redis, walk, counters, bumpedAt>>

-----------------------------------------------------------------------------
(* The generation token.                                                   *)

\* Mutant: a counter that starts over when its key is lost.
newToken_Counter == IF isToken(generation) THEN generation + 1 ELSE 1

\* 128 random bits: never one that was used before.
newToken == minted + 1

Mint == minted < scenario.tokens /\ minted' = minted + 1

\* A SET of the token that works, or fails with or without having been done.
replace(token) ==
  \/ Works /\ generation' = token
  \/ Fails /\ generation' \in {generation, token}

\* The bump may fail, or the process dies before it.
bump ==
  /\ mutation = "bump" /\ mutation' = "none"
  /\ \/ /\ Mint /\ replace(newToken)
        /\ bumpedAt' = IF failures' = failures THEN committedAt ELSE bumpedAt
        /\ UNCHANGED <<snapshots, cache>>
     \/ UNCHANGED <<redis, counters, bumpedAt>>
  /\ UNCHANGED <<scenario, db, request, walk, committedAt>>

\* Redis evicts or loses the token, or a ranking; a TTL ends.
LoseGeneration ==
  /\ generation # NoToken
  /\ generation' = NoToken
  /\ UNCHANGED <<scenario, db, mutation, cache, request, walk, counters, history>>

Expire(e) ==
  /\ cache' = cache \ {e}
  /\ UNCHANGED <<scenario, db, mutation, generation, request, walk, counters, history>>

-----------------------------------------------------------------------------
(* GET /v1/matching/feed.                                                  *)

\* With the cursor of the last page, or from the start.
Begin(s, f, resume) ==
  /\ Is(s, "idle")
  /\ s \in scenario.clients /\ f \in scenario.filters
  /\ resume => walk[s].cursor # NoCursor
  /\ Step(s, [NoRequest EXCEPT !.stage = "current", !.filter = f, !.since = bumpedAt,
                               !.cursor = IF resume THEN walk[s].cursor ELSE NoCursor,
                               !.closed = Candidates \ open])
  /\ walk' = IF resume THEN walk ELSE [walk EXCEPT ![s] = NoWalk]
  /\ UNCHANGED <<scenario, db, mutation, redis, counters, history>>

\* MatchingCursorStaleError: the client has to start over.
Stale(s) ==
  /\ Step(s, NoRequest)
  /\ walk' = [walk EXCEPT ![s] = NoWalk]

Resumed(s) == request[s].cursor # NoCursor

\* The generation is known; a cursor must be of it, and of these filters.
Resolved(s, token) ==
  IF Resumed(s) /\ (request[s].cursor.generation # token
                    \/ request[s].cursor.filter # request[s].filter)
  THEN Stale(s)
  ELSE /\ Step(s, [request[s] EXCEPT !.stage = "lookup", !.generation = token,
                                     !.batchKey = request[s].cursor.batchKey])
       /\ UNCHANGED walk

Goto(s, stage) == Step(s, [request[s] EXCEPT !.stage = stage]) /\ UNCHANGED walk

\* current(): GET; a failure is a miss.
current(s) ==
  /\ Is(s, "current")
  /\ \/ /\ Works
        /\ CASE isToken(generation)   -> Resolved(s, generation)
             [] generation = NoToken  -> Goto(s, "claim")
             [] OTHER                 -> Goto(s, "replace")
     \/ Fails /\ Goto(s, "claim")
  /\ UNCHANGED <<scenario, db, mutation, redis, minted, snapshots, history>>

\* current(): SET NX.
setIfAbsent(s) ==
  /\ Is(s, "claim")
  /\ Mint
  /\ \/ Works /\ generation = NoToken /\ generation' = newToken /\ Resolved(s, newToken)
     \/ Works /\ generation # NoToken /\ UNCHANGED generation /\ Goto(s, "winner")
     \/ /\ Fails /\ Resolved(s, newToken)
        /\ generation' \in IF generation = NoToken THEN {NoToken, newToken} ELSE {generation}
  /\ UNCHANGED <<scenario, db, mutation, cache, snapshots, history>>

\* current(): GET what the other caller set.
GetWinner(s) ==
  /\ Is(s, "winner")
  /\ \/ Works /\ IF isToken(generation) THEN Resolved(s, generation) ELSE Goto(s, "replace")
     \/ Fails /\ Goto(s, "replace")
  /\ UNCHANGED <<scenario, db, mutation, redis, minted, snapshots, history>>

\* current(): the metadata is corrupt or was lost in between.
Replacement(s) ==
  /\ Is(s, "replace")
  /\ Mint /\ replace(newToken) /\ Resolved(s, newToken)
  /\ UNCHANGED <<scenario, db, mutation, cache, snapshots, history>>

\* The loop of pageRanking goes on, or the page is complete.
Paging(row) ==
  [row EXCEPT !.stage =
     IF Cardinality(row.selected) < Limit /\ row.position < Len(row.ranking.ranked)
     THEN "page" ELSE "reply"]

\* rankingKey: a cached ranking is found under its generation, filters and batch.
Cached(s, batchKey) ==
  {e \in cache : /\ e.generation = request[s].generation
                 /\ e.filter = request[s].filter
                 /\ e.batchKey = batchKey}

\* Mutant: the cursor names a key, whatever snapshot is there now.
SnapshotOf_Any(s, e) == TRUE

\* "A cursor names one immutable cache snapshot."
SnapshotOf(s, e) == Resumed(s) => e.ranking.snapshotId = request[s].cursor.snapshotId

\* Where the cursor stands in its ranking.
cursorPosition(s, ranking) ==
  IF Resumed(s)
  THEN CHOOSE i \in 1 .. Len(ranking.ranked) : ranking.ranked[i] = request[s].cursor.last
  ELSE 0

\* The cursor's last candidate must be in the ranking.
Found(s, ranking) ==
  Resumed(s) => \E i \in 1 .. Len(ranking.ranked) : ranking.ranked[i] = request[s].cursor.last

\* GET of the batch the cursor is in, or of the root.
Lookup(s) ==
  /\ Is(s, "lookup")
  /\ \/ \E e \in Cached(s, request[s].batchKey) :
          /\ Works
          /\ IF SnapshotOf(s, e) /\ Found(s, e.ranking)
             THEN LET at == cursorPosition(s, e.ranking)
                      row == [request[s] EXCEPT !.ranking = e.ranking, !.position = at]
                  IN  /\ Step(s, IF /\ Resumed(s) /\ at = Len(e.ranking.ranked)
                                    /\ e.ranking.next # NoEntry
                                 THEN [row EXCEPT !.stage = "next"]
                                 ELSE Paging(row))
                      /\ UNCHANGED walk
             ELSE Stale(s)
     \/ /\ (Works /\ Cached(s, request[s].batchKey) = {}) \/ Fails
        /\ IF Resumed(s) THEN Stale(s) ELSE Goto(s, "rank")
  /\ UNCHANGED <<scenario, db, mutation, redis, minted, snapshots, history>>

\* The batch is used up: GET the one that continues it.
Continue(s) ==
  LET key == request[s].ranking.next
      row == [request[s] EXCEPT !.batchKey = key, !.position = 0]
  IN  /\ Is(s, "next")
      /\ \/ \E e \in Cached(s, key) :
              Works /\ Step(s, Paging([row EXCEPT !.ranking = e.ranking]))
         \/ /\ (Works /\ Cached(s, key) = {}) \/ Fails
            /\ Step(s, [row EXCEPT !.stage = "rank"])
      /\ UNCHANGED <<scenario, db, mutation, redis, walk, minted, snapshots, history>>

\* ORDER BY match_upper_bound DESC, candidate_id ASC.
Precedes(d, e) == d.bound > e.bound \/ (d.bound = e.bound /\ d.id < e.id)

\* The keyset condition of a continuation.
Beyond(batchKey, e) == batchKey = NoEntry \/ Precedes(batchKey, e)

\* All the coarse query would find without its LIMIT.
Coarse(f, batchKey) ==
  {e \in {[id |-> c, bound |-> bound[c]] : c \in open \cap f} :
     e.bound > 0 /\ Beyond(batchKey, e)}

\* sortByExactScore.
RankedBefore(d, e) == Score[d.id] > Score[e.id] \/ (Score[d.id] = Score[e.id] /\ d.id < e.id)
sortByExactScore(es) ==
  CHOOSE q \in [1 .. Cardinality(es) -> es] :
    \A i, j \in 1 .. Cardinality(es) : i < j => RankedBefore(q[i], q[j])

\* generateRanking: the first Cap rows, in the order of their exact scores.
generateRanking(s) ==
  LET rest == Coarse(request[s].filter, request[s].batchKey)
      top == {e \in rest : Cardinality({d \in rest : Precedes(d, e)}) < Cap}
      last == CHOOSE e \in top : \A d \in top : d = e \/ Precedes(d, e)
  IN  /\ Is(s, "rank")
      /\ snapshots < scenario.snapshots
      /\ snapshots' = snapshots + 1
      /\ Step(s, [request[s] EXCEPT !.stage = "store",
                   !.ranking = [snapshotId |-> snapshots + 1, at |-> now,
                                ranked |-> sortByExactScore(top),
                                next |-> IF top = rest THEN NoEntry ELSE last]])
      /\ UNCHANGED <<scenario, db, mutation, redis, walk, minted, failures, history>>

\* SET replaces what the key held.
put(s) ==
  (cache \ Cached(s, request[s].batchKey)) \cup
    {[generation |-> request[s].generation, filter |-> request[s].filter,
      batchKey |-> request[s].batchKey, ranking |-> request[s].ranking]}

\* SET of the new ranking; the request goes on with its own copy.
Store(s) ==
  /\ Is(s, "store")
  /\ \/ Works /\ cache' = put(s)
     \/ Fails /\ cache' \in {cache, put(s)}
  /\ Step(s, Paging(request[s]))
  /\ UNCHANGED <<scenario, db, mutation, generation, walk, minted, snapshots, history>>

\* Mutant: the ranking is believed.
Allowed_Cached(es) == es

\* revalidateCandidateIds: who may still be shown.
Allowed(es) == {e \in es : e.id \in open}

\* One turn of the loop of pageRanking: the candidates still needed are
\* looked up in PostgreSQL.
pageRanking(s) ==
  LET r == request[s]
      needed == Limit - Cardinality(r.selected)
      size == IF r.position + needed > Len(r.ranking.ranked)
              THEN Len(r.ranking.ranked) - r.position ELSE needed
      batch == {r.ranking.ranked[i] : i \in r.position + 1 .. r.position + size}
  IN  /\ Is(s, "page")
      /\ Step(s, Paging([r EXCEPT !.selected = @ \cup Allowed(batch),
                                  !.examined = r.ranking.ranked[r.position + size],
                                  !.position = @ + size]))
      /\ UNCHANGED <<scenario, db, mutation, redis, walk, counters, history>>

hasMore(s) ==
  request[s].position < Len(request[s].ranking.ranked) \/ request[s].ranking.next # NoEntry

nextCursor(s) ==
  IF hasMore(s) /\ request[s].examined # NoEntry
  THEN [generation |-> request[s].generation, filter |-> request[s].filter,
        batchKey |-> request[s].batchKey, snapshotId |-> request[s].ranking.snapshotId,
        last |-> request[s].examined]
  ELSE NoCursor

\* What the walk has shown with this page, and the age of its oldest ranking.
ShownSoFar(s) == walk[s].shown \cup request[s].selected
Oldest(s) ==
  IF walk[s] # NoWalk /\ walk[s].oldest < request[s].ranking.at
  THEN walk[s].oldest ELSE request[s].ranking.at

\* The page arrives, or it is lost (or ignored, by a client that does not
\* walk) and the client still has its old cursor.
Reply(s) ==
  /\ Is(s, "reply")
  /\ Step(s, NoRequest)
  /\ \/ /\ s \in scenario.walkers
        /\ walk' = [walk EXCEPT ![s] =
                   IF nextCursor(s) = NoCursor THEN NoWalk
                   ELSE [cursor |-> nextCursor(s), shown |-> ShownSoFar(s), oldest |-> Oldest(s)]]
     \/ UNCHANGED walk
  /\ UNCHANGED <<scenario, db, mutation, redis, counters, history>>

\* The viewer is not eligible, PostgreSQL fails, or the process dies.
Abort(s) ==
  /\ ~Is(s, "idle")
  /\ Step(s, NoRequest)
  /\ UNCHANGED <<scenario, db, mutation, redis, walk, counters, history>>

-----------------------------------------------------------------------------
Init ==
  /\ scenario \in Scenarios
  /\ open = scenario.open /\ bound = scenario.bound
  /\ generation \in {NoToken, Legacy}
  /\ mutation = "none" /\ cache = {}
  /\ request = [s \in Clients |-> NoRequest]
  /\ walk = [s \in Clients |-> NoWalk]
  /\ minted = 0 /\ snapshots = 0 /\ failures = 0
  /\ now = 0 /\ committedAt = 0 /\ bumpedAt = 0
  /\ changed = [c \in Candidates |-> 0]

Next ==
  \/ \E c \in Candidates : OtherChanges(c) \/ ViewerCommits(c)
  \/ bump \/ LoseGeneration
  \/ \E e \in cache : Expire(e)
  \/ \E s \in Clients, f \in Filters, resume \in BOOLEAN : Begin(s, f, resume)
  \/ \E s \in Clients :
       \/ current(s) \/ setIfAbsent(s) \/ GetWinner(s) \/ Replacement(s)
       \/ Lookup(s) \/ Continue(s) \/ generateRanking(s) \/ Store(s)
       \/ pageRanking(s) \/ Reply(s) \/ Abort(s)

Spec == Init /\ [][Next]_vars

-----------------------------------------------------------------------------
(* Properties.                                                             *)

Cursor == [generation : 1 .. minted, filter : Filters, snapshotId : 1 .. snapshots,
           batchKey : Entry \cup {NoEntry}, last : Entry]

\* The types, and one value per Redis key.
TypeOK ==
  /\ open \subseteq Candidates
  /\ bound \in [Candidates -> 0 .. MaxBound]
  /\ mutation \in {"none", "bump"}
  /\ generation \in {NoToken, Legacy} \cup 1 .. minted
  /\ \A e \in cache :
       /\ e.generation \in 1 .. minted /\ e.filter \in Filters
       /\ e.batchKey \in Entry \cup {NoEntry} /\ e.ranking \in Ranking
       /\ Len(e.ranking.ranked) <= Cap
       /\ \A d \in cache : e # d => <<e.generation, e.filter, e.batchKey>> #
                                    <<d.generation, d.filter, d.batchKey>>
  /\ \A s \in Clients :
       /\ request[s] = NoRequest \/ request[s].filter \in Filters
       /\ request[s].cursor \in Cursor \cup {NoCursor}
       /\ request[s].ranking \in Ranking \cup {NoRanking}
       /\ request[s].position \in 0 .. Len(request[s].ranking.ranked)
       /\ request[s].selected \subseteq Entry /\ Cardinality(request[s].selected) <= Limit
       /\ walk[s].cursor \in Cursor \cup {NoCursor}
       /\ walk[s].shown \subseteq Entry

\* "Cursor pagination cannot skip or repeat": pages that follow each other show
\* nobody twice who did not move between their rankings, and who was there,
\* unmoved, since the oldest of these rankings was shown when they end.
\* Rankings of different ages may be mixed and other requests may rank anew.
WalksAreExact ==
  \A s \in Clients : Is(s, "reply") =>
    /\ walk[s].shown \cap request[s].selected = {}
    /\ nextCursor(s) = NoCursor =>
         \A e \in Coarse(request[s].filter, NoEntry) :
           changed[e.id] <= Oldest(s) => e \in ShownSoFar(s)

\* The pages hold together, one by one and as a walk.
PagesAreSound == TypeOK /\ WalksAreExact

\* "Cannot revive an old key": a request that begins after a bump succeeded
\* is never served a ranking from before the mutation, whichever tokens were
\* lost, replaced or set by requests that were under way.
FreshAfterBump ==
  \A s \in Clients :
    request[s].stage \in {"next", "store", "page", "reply"} =>
      request[s].ranking.at >= request[s].since

\* "A decided candidate could reappear": nobody who was blocked, hidden or
\* swiped before a request began, and still is, is in its page, even when the
\* bump was lost or the cached ranking is older.
ClosedAreNotShown ==
  \A s \in Clients : Is(s, "reply") =>
    \A e \in request[s].selected : e.id \notin request[s].closed
=============================================================================
