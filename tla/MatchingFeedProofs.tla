------------------------- MODULE MatchingFeedProofs -------------------------
(***************************************************************************)
(* Proofs about MatchingFeed: what a page may be made of, for any number   *)
(* of devices, candidates, filters and tokens, and whatever Redis loses;   *)
(* then what the pages of a walk have in common, whichever rankings they   *)
(* were cut from.                                                          *)
(***************************************************************************)
EXTENDS MatchingFeed, FiniteSetTheorems, SequenceTheorems, TLAPS

-----------------------------------------------------------------------------
(* The inductive invariant.                                                *)

\* A request is a record with these fields; what its cursor, its batch and its
\* ranked candidates are does not matter here.
Fields == {"stage", "filter", "cursor", "generation", "batchKey", "ranking", "position",
           "selected", "examined", "since", "closed"}
IsRequest(row) == row = [f \in Fields |-> row[f]]

\* Its generation is known; it has a ranking; it is about to store one.
HasGeneration(row) == row.stage \in {"lookup", "rank", "next", "store", "page", "reply"}
HasRanking(row) == row.stage \in {"next", "store", "page", "reply"}
Storing(row) == row.stage = "store"

Requests ==
  /\ request = [s \in Clients |-> request[s]]
  /\ \A s \in Clients : IsRequest(request[s])

\* Time only grows, and no token is ahead of the last one minted.
TimesAndTokens ==
  /\ bumpedAt \in Nat /\ committedAt \in Nat /\ now \in Nat /\ minted \in Nat
  /\ bumpedAt <= committedAt /\ committedAt <= now
  /\ generation \in Int /\ generation <= minted
  /\ \A e \in cache : e.generation \in Int /\ e.generation <= minted /\ e.ranking.at \in Nat
  /\ \A s \in Clients :
       /\ request[s].generation \in Int /\ request[s].generation <= minted
       /\ request[s].since \in Nat /\ request[s].since <= bumpedAt
       /\ HasRanking(request[s]) => request[s].ranking.at \in Nat

\* Whatever is, or is about to be, cached under the viewer's token is not older
\* than the last mutation whose bump succeeded.
TokenIsFresh ==
  isToken(generation) =>
    /\ \A e \in cache : e.generation = generation => e.ranking.at >= bumpedAt
    /\ \A t \in Clients :
         Storing(request[t]) /\ request[t].generation = generation =>
           request[t].ranking.at >= bumpedAt

\* So a request that knows its generation finds nothing under it that is older
\* than the last such mutation before it began, however late it looks.
FindsNothingOlder(row) ==
  HasGeneration(row) =>
    /\ \A e \in cache : e.generation = row.generation => e.ranking.at >= row.since
    /\ \A t \in Clients :
         Storing(request[t]) /\ request[t].generation = row.generation =>
           request[t].ranking.at >= row.since

\* Who was closed when a request began, and is, is not open; nor selected.
ClosedStayOut(row) ==
  /\ row.closed \cap open = {}
  /\ \A e \in row.selected : e.id \notin row.closed

FeedInv ==
  /\ Requests /\ TimesAndTokens /\ TokenIsFresh
  /\ \A s \in Clients : FindsNothingOlder(request[s]) /\ ClosedStayOut(request[s])
  /\ FreshAfterBump

LEMMA FeedInit == Init => FeedInv
<1> SUFFICES ASSUME Init PROVE FeedInv
  OBVIOUS
<1>1. \A s \in Clients : request[s] = NoRequest
  BY DEF Init
<1>2. IsRequest(NoRequest) /\ NoRequest.stage = "idle" /\ NoRequest.since = 0
      /\ NoRequest.generation = 0 /\ NoRequest.closed = {} /\ NoRequest.selected = {}
  BY DEF IsRequest, Fields, NoRequest, NoToken
<1>3. Requests
  BY <1>1, <1>2 DEF Init, Requests
<1>4. TimesAndTokens
  BY <1>1, <1>2 DEF Init, TimesAndTokens, HasRanking, NoToken, Legacy
<1>5. TokenIsFresh
  BY DEF Init, TokenIsFresh, isToken, NoToken, Legacy
<1>6. \A s \in Clients : FindsNothingOlder(request[s]) /\ ClosedStayOut(request[s])
  BY <1>1, <1>2 DEF FindsNothingOlder, HasGeneration, ClosedStayOut
<1>7. FreshAfterBump
  BY <1>1, <1>2 DEF FreshAfterBump
<1> QED BY <1>3, <1>4, <1>5, <1>6, <1>7 DEF FeedInv

-----------------------------------------------------------------------------
(* A step of one request.                                                  *)

\* What the new row of a request must be, apart from the caches it may read.
RowIsSound(row, token) ==
  /\ IsRequest(row)
  /\ row.generation \in Int /\ row.generation <= token
  /\ row.since \in Nat /\ row.since <= bumpedAt
  /\ HasRanking(row) => row.ranking.at \in Nat /\ row.ranking.at >= row.since
  /\ Storing(row) => row.ranking.at >= bumpedAt
  /\ FindsNothingOlder(row) /\ ClosedStayOut(row)

\* A command on the token leaves it, or sets one never used before.
TokenStep ==
  \/ minted' = minted /\ generation' = generation
  \/ minted' = minted + 1 /\ generation' \in {generation, minted + 1}

LEMMA RowStep ==
  ASSUME FeedInv, NEW s \in Clients, NEW row, Step(s, row), RowIsSound(row, minted'),
         TokenStep, UNCHANGED <<cache, open, now, committedAt, bumpedAt>>
  PROVE  FeedInv'
<1>0. /\ cache' = cache /\ open' = open /\ now' = now /\ committedAt' = committedAt
      /\ bumpedAt' = bumpedAt
  OBVIOUS
<1>1. /\ request' = [t \in Clients |-> request'[t]]
      /\ request'[s] = row
      /\ \A t \in Clients : t # s => request'[t] = request[t]
  BY DEF FeedInv, Requests, Step
<1>2. Requests'
  BY <1>1 DEF FeedInv, Requests, RowIsSound, IsRequest, Fields
<1>3. minted \in Nat /\ minted' \in Nat /\ minted <= minted'
  BY DEF FeedInv, TimesAndTokens, TokenStep
<1>4. TimesAndTokens'
  BY <1>0, <1>1, <1>3 DEF FeedInv, TimesAndTokens, TokenStep, RowIsSound, HasRanking
<1>5. TokenIsFresh'
  <2>1. CASE generation' = generation
    BY <2>1, <1>0, <1>1 DEF FeedInv, TokenIsFresh, Storing, RowIsSound, isToken
  <2>2. CASE generation' = minted + 1
    BY <2>2, <1>0, <1>1 DEF FeedInv, TokenIsFresh, TimesAndTokens, Storing, RowIsSound
  <2> QED BY <2>1, <2>2 DEF TokenStep
<1>6. ASSUME NEW t \in Clients PROVE FindsNothingOlder(request[t])'
  <2>1. FindsNothingOlder(request'[t]) /\ request'[t].since <= bumpedAt
        /\ request'[t].since \in Nat
    BY <1>1 DEF FeedInv, TimesAndTokens, RowIsSound
  <2>2. Storing(row) => row.ranking.at >= request'[t].since
    BY <2>1 DEF RowIsSound, Storing, HasRanking, FeedInv, TimesAndTokens
  <2> QED BY <1>0, <1>1, <2>1, <2>2 DEF FindsNothingOlder, HasGeneration, Storing
<1>7. \A t \in Clients : ClosedStayOut(request[t])'
  BY <1>0, <1>1 DEF FeedInv, RowIsSound, ClosedStayOut
<1>8. FreshAfterBump'
  BY <1>1 DEF FeedInv, FreshAfterBump, RowIsSound, HasRanking
<1> QED BY <1>2, <1>4, <1>5, <1>6, <1>7, <1>8 DEF FeedInv

\* The end of a request.
LEMMA EndStep ==
  ASSUME FeedInv, NEW s \in Clients, Step(s, NoRequest), TokenStep,
         UNCHANGED <<cache, open, now, committedAt, bumpedAt>>
  PROVE  FeedInv'
<1>1. /\ IsRequest(NoRequest) /\ NoRequest.stage = "idle" /\ NoRequest.since = 0
      /\ NoRequest.generation = 0 /\ NoRequest.closed = {} /\ NoRequest.selected = {}
  BY DEF IsRequest, Fields, NoRequest, NoToken
<1>2. minted' \in Nat /\ bumpedAt \in Nat
  BY DEF FeedInv, TimesAndTokens, TokenStep
<1>3. RowIsSound(NoRequest, minted')
  BY <1>1, <1>2 DEF RowIsSound, HasRanking, Storing, FindsNothingOlder, HasGeneration, ClosedStayOut
<1> QED BY <1>3, RowStep

\* What a request keeps of its row from one stage to the next.
Goes(row, old, stage) ==
  /\ IsRequest(row) /\ row.stage = stage
  /\ row.since = old.since /\ row.closed = old.closed /\ row.cursor = old.cursor
  /\ row.filter = old.filter

\* It goes on under the same generation with the selection it has.
LEMMA SameGeneration ==
  ASSUME FeedInv, NEW s \in Clients, NEW row, NEW stage, Step(s, row), TokenStep,
         Goes(row, request[s], stage), row.generation = request[s].generation,
         \A e \in row.selected : e.id \notin request[s].closed,
         HasGeneration(row) => HasGeneration(request[s]),
         HasRanking(row) => row.ranking.at \in Nat /\ row.ranking.at >= row.since,
         Storing(row) => row.ranking.at >= bumpedAt,
         UNCHANGED <<cache, open, now, committedAt, bumpedAt>>
  PROVE  FeedInv'
<1>1. FindsNothingOlder(row) /\ ClosedStayOut(row)
  BY DEF FeedInv, FindsNothingOlder, ClosedStayOut, Goes
<1>2. minted \in Nat /\ minted' \in Nat /\ minted <= minted'
  BY DEF FeedInv, TimesAndTokens, TokenStep
<1>3. RowIsSound(row, minted')
  BY <1>1, <1>2 DEF RowIsSound, FeedInv, TimesAndTokens, Goes
<1> QED BY <1>3, RowStep

\* The loop of pageRanking changes the stage only.
LEMMA PagingFacts ==
  ASSUME NEW row, IsRequest(row)
  PROVE  /\ \E stage \in {"page", "reply"} : Goes(Paging(row), row, stage)
         /\ Paging(row).generation = row.generation /\ Paging(row).ranking = row.ranking
         /\ Paging(row).selected = row.selected
BY DEF Paging, IsRequest, Fields, Goes


\* A request that goes to another stage and changes nothing else.
LEMMA GotoInv ==
  ASSUME FeedInv, NEW s \in Clients, NEW stage, Goto(s, stage), TokenStep,
         \/ stage \in {"claim", "winner", "replace"}
         \/ stage = "rank" /\ HasGeneration(request[s]),
         UNCHANGED <<cache, open, now, committedAt, bumpedAt>>
  PROVE  FeedInv'
<1> DEFINE row == [request[s] EXCEPT !.stage = stage]
<1>1. Step(s, row) /\ IsRequest(request[s]) /\ ClosedStayOut(request[s])
  BY DEF Goto, FeedInv, Requests
<1>2. /\ Goes(row, request[s], stage) /\ row.generation = request[s].generation
      /\ row.selected = request[s].selected /\ row.stage = stage
  BY <1>1 DEF IsRequest, Fields, Goes
<1> HIDE DEF row
<1>3. /\ ~HasRanking(row) /\ ~Storing(row)
      /\ HasGeneration(row) => HasGeneration(request[s])
  BY <1>2 DEF HasRanking, Storing, HasGeneration
<1>4. \A e \in row.selected : e.id \notin request[s].closed
  BY <1>1, <1>2 DEF ClosedStayOut
<1> QED BY <1>1, <1>2, <1>3, <1>4, SameGeneration

\* A request gets its generation: the viewer's token, or a new one.
LEMMA ResolvedInv ==
  ASSUME FeedInv, NEW s \in Clients, NEW token, Resolved(s, token), TokenStep,
         \/ token = generation /\ isToken(generation)
         \/ token = minted + 1 /\ minted' = minted + 1,
         UNCHANGED <<cache, open, now, committedAt, bumpedAt>>
  PROVE  FeedInv'
<1>1. CASE Stale(s)
  BY <1>1, EndStep DEF Stale
<1>2. CASE Step(s, [request[s] EXCEPT !.stage = "lookup", !.generation = token,
                                      !.batchKey = request[s].cursor.batchKey])
  <2> DEFINE row == [request[s] EXCEPT !.stage = "lookup", !.generation = token,
                                       !.batchKey = request[s].cursor.batchKey]
  <2>1. Step(s, row) /\ IsRequest(request[s]) /\ ClosedStayOut(request[s])
    BY <1>2 DEF FeedInv, Requests
  <2>2. /\ IsRequest(row) /\ row.stage = "lookup" /\ row.generation = token
        /\ row.since = request[s].since /\ row.closed = request[s].closed
        /\ row.selected = request[s].selected
    BY <2>1 DEF IsRequest, Fields
  <2> HIDE DEF row
  <2>3. /\ minted \in Nat /\ minted' \in Nat /\ minted <= minted' /\ generation \in Int
        /\ generation <= minted /\ row.since \in Nat /\ row.since <= bumpedAt /\ bumpedAt \in Nat
    BY <2>2 DEF FeedInv, TimesAndTokens, TokenStep
  <2>4. FindsNothingOlder(row)
    <3>1. CASE token = generation /\ isToken(generation)
      BY <2>2, <2>3, <3>1 DEF FindsNothingOlder, FeedInv, TokenIsFresh, TimesAndTokens,
                              HasRanking, Storing
    <3>2. CASE token = minted + 1
      BY <2>2, <2>3, <3>2 DEF FindsNothingOlder, FeedInv, TimesAndTokens
    <3> QED BY <3>1, <3>2
  <2>5. RowIsSound(row, minted')
    BY <2>1, <2>2, <2>3, <2>4 DEF RowIsSound, HasRanking, Storing, ClosedStayOut
  <2> QED BY <2>1, <2>5, RowStep
<1> QED BY <1>1, <1>2 DEF Resolved

\* The four commands of FeedGenerationService.current.
LEMMA TokenInv ==
  ASSUME FeedInv, NEW s \in Clients,
         current(s) \/ setIfAbsent(s) \/ GetWinner(s) \/ Replacement(s)
  PROVE  FeedInv'
<1>1. UNCHANGED <<cache, open, now, committedAt, bumpedAt>>
  BY DEF current, setIfAbsent, GetWinner, Replacement, db, redis, history
<1>2. CASE current(s) \/ GetWinner(s)
  <2>1. TokenStep
    BY <1>2 DEF current, GetWinner, redis, TokenStep
  <2>2. \/ Resolved(s, generation) /\ isToken(generation)
        \/ Goto(s, "claim") \/ Goto(s, "replace")
    BY <1>2 DEF current, GetWinner
  <2> QED BY <1>1, <2>1, <2>2, ResolvedInv, GotoInv
<1>3. CASE setIfAbsent(s) \/ Replacement(s)
  <2>1. TokenStep /\ minted' = minted + 1
    BY <1>3 DEF setIfAbsent, Replacement, TokenStep, Mint, replace, newToken, NoToken
  <2>2. Resolved(s, minted + 1) \/ Goto(s, "winner")
    BY <1>3 DEF setIfAbsent, Replacement, newToken
  <2> QED BY <1>1, <2>1, <2>2, ResolvedInv, GotoInv
<1> QED BY <1>2, <1>3

-----------------------------------------------------------------------------
(* The other steps of a request.                                           *)

\* A new request sees the last successful bump and who is closed now.
LEMMA BeginInv ==
  ASSUME FeedInv, NEW s \in Clients, NEW f \in Filters, NEW resume \in BOOLEAN,
         Begin(s, f, resume)
  PROVE  FeedInv'
<1> DEFINE row == [NoRequest EXCEPT !.stage = "current", !.filter = f, !.since = bumpedAt,
                     !.cursor = IF resume THEN walk[s].cursor ELSE NoCursor,
                     !.closed = Candidates \ open]
<1>1. /\ Step(s, row) /\ TokenStep
      /\ UNCHANGED <<cache, open, now, committedAt, bumpedAt>>
  BY DEF Begin, TokenStep, db, redis, counters, history
<1>2. /\ IsRequest(row) /\ row.stage = "current" /\ row.generation = 0
      /\ row.since = bumpedAt /\ row.closed = Candidates \ open /\ row.selected = {}
  BY DEF IsRequest, Fields, NoRequest, NoToken
<1> HIDE DEF row
<1>3. bumpedAt \in Nat /\ minted' \in Nat
  BY <1>1 DEF FeedInv, TimesAndTokens, TokenStep
<1>4. RowIsSound(row, minted')
  BY <1>2, <1>3 DEF RowIsSound, HasRanking, Storing, FindsNothingOlder, HasGeneration, ClosedStayOut
<1> QED BY <1>1, <1>4, RowStep

\* A ranking found under the generation of the request.
LEMMA CachedInv ==
  ASSUME FeedInv, NEW s \in Clients, HasGeneration(request[s]), NEW key,
         NEW e \in Cached(s, key), NEW row, NEW stage, Goes(row, request[s], stage),
         stage \in {"next", "page", "reply"},
         row.generation = request[s].generation, row.selected = request[s].selected,
         row.ranking = e.ranking, Step(s, row), TokenStep,
         UNCHANGED <<cache, open, now, committedAt, bumpedAt>>
  PROVE  FeedInv'
<1>1. e \in cache /\ e.generation = request[s].generation
  BY DEF Cached
<1>2. e.ranking.at \in Nat /\ e.ranking.at >= request[s].since
  BY <1>1 DEF FeedInv, TimesAndTokens, FindsNothingOlder
<1>3. \A d \in row.selected : d.id \notin request[s].closed
  BY DEF FeedInv, ClosedStayOut
<1> QED BY <1>2, <1>3, SameGeneration DEF Goes, Storing

LEMMA LookupInv ==
  ASSUME FeedInv, NEW s \in Clients, Lookup(s)
  PROVE  FeedInv'
<1>1. /\ request[s].stage = "lookup" /\ HasGeneration(request[s]) /\ IsRequest(request[s])
      /\ TokenStep /\ UNCHANGED <<cache, open, now, committedAt, bumpedAt>>
  BY DEF Lookup, Is, HasGeneration, TokenStep, db, redis, history, FeedInv, Requests
<1>2. CASE Stale(s)
  BY <1>1, <1>2, EndStep DEF Stale
<1>3. CASE Goto(s, "rank")
  BY <1>1, <1>3, GotoInv
<1>4. ASSUME NEW e \in Cached(s, request[s].batchKey), NEW at,
             LET row == [request[s] EXCEPT !.ranking = e.ranking, !.position = at]
             IN  Step(s, [row EXCEPT !.stage = "next"]) \/ Step(s, Paging(row))
      PROVE  FeedInv'
  <2> DEFINE row == [request[s] EXCEPT !.ranking = e.ranking, !.position = at]
             last == [row EXCEPT !.stage = "next"]
  <2>1. /\ IsRequest(row) /\ row.ranking = e.ranking /\ row.selected = request[s].selected
        /\ row.generation = request[s].generation
        /\ \A new, stage : Goes(new, row, stage) => Goes(new, request[s], stage)
    BY <1>1 DEF IsRequest, Fields, Goes
  <2>2. Step(s, last) \/ Step(s, Paging(row))
    BY <1>4
  <2> HIDE DEF row
  <2>3. /\ Goes(last, row, "next") /\ last.generation = row.generation
        /\ last.ranking = row.ranking /\ last.selected = row.selected
    BY <2>1 DEF IsRequest, Fields, Goes
  <2> HIDE DEF last
  <2>4. CASE Step(s, last)
    BY <1>1, <2>1, <2>3, <2>4, CachedInv
  <2>5. CASE Step(s, Paging(row))
    <3>1. PICK stage \in {"page", "reply"} : Goes(Paging(row), row, stage)
      BY <2>1, PagingFacts
    <3> QED BY <1>1, <2>1, <2>5, <3>1, PagingFacts, CachedInv
  <2> QED BY <2>2, <2>4, <2>5
<1>5. CASE \E e \in Cached(s, request[s].batchKey) :
             LET at == cursorPosition(s, e.ranking)
                 row == [request[s] EXCEPT !.ranking = e.ranking, !.position = at]
             IN  Step(s, [row EXCEPT !.stage = "next"]) \/ Step(s, Paging(row))
  BY <1>4, <1>5
<1> QED BY <1>2, <1>3, <1>5 DEF Lookup

LEMMA ContinueInv ==
  ASSUME FeedInv, NEW s \in Clients, Continue(s)
  PROVE  FeedInv'
<1> DEFINE key == request[s].ranking.next
           row == [request[s] EXCEPT !.batchKey = key, !.position = 0]
           miss == [row EXCEPT !.stage = "rank"]
<1>1. /\ request[s].stage = "next" /\ HasGeneration(request[s]) /\ IsRequest(request[s])
      /\ TokenStep /\ UNCHANGED <<cache, open, now, committedAt, bumpedAt>>
  BY DEF Continue, Is, HasGeneration, TokenStep, db, redis, history, FeedInv, Requests
<1>2. \/ \E e \in Cached(s, key) : Step(s, Paging([row EXCEPT !.ranking = e.ranking]))
      \/ Step(s, miss)
  BY DEF Continue
<1>3. /\ IsRequest(row) /\ row.selected = request[s].selected
      /\ row.generation = request[s].generation
      /\ \A new, stage : Goes(new, row, stage) => Goes(new, request[s], stage)
  BY <1>1 DEF IsRequest, Fields, Goes
<1> HIDE DEF row
<1>4. CASE Step(s, miss)
  <2>1. /\ Goes(miss, row, "rank") /\ miss.generation = row.generation
        /\ miss.selected = row.selected /\ miss.stage = "rank"
    BY <1>3 DEF IsRequest, Fields, Goes
  <2> HIDE DEF miss
  <2>2. \A d \in miss.selected : d.id \notin request[s].closed
    BY <1>3, <2>1 DEF FeedInv, ClosedStayOut
  <2> QED BY <1>1, <1>3, <1>4, <2>1, <2>2, SameGeneration DEF HasRanking, Storing
<1>5. ASSUME NEW e \in Cached(s, key), Step(s, Paging([row EXCEPT !.ranking = e.ranking]))
      PROVE  FeedInv'
  <2> DEFINE found == [row EXCEPT !.ranking = e.ranking]
  <2>1. /\ IsRequest(found) /\ found.ranking = e.ranking /\ found.selected = row.selected
        /\ found.generation = row.generation
        /\ \A new, stage : Goes(new, found, stage) => Goes(new, row, stage)
    BY <1>3 DEF IsRequest, Fields, Goes
  <2>2. Step(s, Paging(found))
    BY <1>5
  <2> HIDE DEF found
  <2>3. PICK stage \in {"page", "reply"} : Goes(Paging(found), found, stage)
    BY <2>1, PagingFacts
  <2> QED BY <1>1, <1>3, <2>1, <2>2, <2>3, PagingFacts, CachedInv
<1> QED BY <1>2, <1>4, <1>5

\* A ranking made now is younger than every bump there was.
LEMMA GenerateInv ==
  ASSUME FeedInv, NEW s \in Clients, generateRanking(s)
  PROVE  FeedInv'
<1>1. /\ request[s].stage = "rank" /\ HasGeneration(request[s]) /\ IsRequest(request[s])
      /\ TokenStep /\ UNCHANGED <<cache, open, now, committedAt, bumpedAt>>
  BY DEF generateRanking, Is, HasGeneration, TokenStep, db, redis, history, FeedInv, Requests
<1>2. PICK ranked, next :
        Step(s, [request[s] EXCEPT !.stage = "store",
                  !.ranking = [snapshotId |-> snapshots + 1, at |-> now,
                               ranked |-> ranked, next |-> next]])
  BY DEF generateRanking
<1> DEFINE ranking == [snapshotId |-> snapshots + 1, at |-> now, ranked |-> ranked, next |-> next]
           row == [request[s] EXCEPT !.stage = "store", !.ranking = ranking]
<1>3. ranking.at = now
  OBVIOUS
<1> HIDE DEF ranking
<1>4. /\ Goes(row, request[s], "store") /\ row.generation = request[s].generation
      /\ row.selected = request[s].selected /\ row.ranking.at = now
  BY <1>1, <1>3 DEF IsRequest, Fields, Goes
<1>5. Step(s, row)
  BY <1>2 DEF ranking
<1> HIDE DEF row
<1>6. now \in Nat /\ now >= bumpedAt /\ now >= row.since
  BY <1>4 DEF FeedInv, TimesAndTokens, Goes
<1>7. \A d \in row.selected : d.id \notin request[s].closed
  BY <1>4 DEF FeedInv, ClosedStayOut
<1> QED BY <1>1, <1>4, <1>5, <1>6, <1>7, SameGeneration

\* What is stored was good for everybody who may find it.
LEMMA StoreInv ==
  ASSUME FeedInv, NEW s \in Clients, Store(s)
  PROVE  FeedInv'
<1> DEFINE new == [generation |-> request[s].generation, filter |-> request[s].filter,
                   batchKey |-> request[s].batchKey, ranking |-> request[s].ranking]
<1>1. /\ request[s].stage = "store" /\ Step(s, Paging(request[s])) /\ IsRequest(request[s])
      /\ generation' = generation /\ minted' = minted
      /\ open' = open /\ now' = now /\ committedAt' = committedAt /\ bumpedAt' = bumpedAt
  BY DEF Store, Is, db, history, FeedInv, Requests
<1>2. cache' \subseteq cache \cup {new}
  BY DEF Store, put
<1>3. new.generation = request[s].generation /\ new.ranking = request[s].ranking
  OBVIOUS
<1> HIDE DEF new
<1>4. PICK stage \in {"page", "reply"} : Goes(Paging(request[s]), request[s], stage)
  BY <1>1, PagingFacts
<1>5. /\ request' = [t \in Clients |-> request'[t]]
      /\ \A t \in Clients : t # s => request'[t] = request[t]
      /\ request'[s] = Paging(request[s])
  BY <1>1 DEF FeedInv, Requests, Step
<1>6. \A t \in Clients :
        /\ IsRequest(request'[t])
        /\ request'[t].generation = request[t].generation
        /\ request'[t].ranking = request[t].ranking /\ request'[t].since = request[t].since
        /\ request'[t].closed = request[t].closed
        /\ request'[t].selected = request[t].selected
        /\ HasGeneration(request'[t]) <=> HasGeneration(request[t])
        /\ HasRanking(request'[t]) <=> HasRanking(request[t])
        /\ Storing(request'[t]) => Storing(request[t])
  BY <1>1, <1>4, <1>5, PagingFacts
     DEF FeedInv, Requests, Goes, HasGeneration, HasRanking, Storing
<1>7. HasGeneration(request[s]) /\ HasRanking(request[s]) /\ Storing(request[s])
  BY <1>1 DEF HasGeneration, HasRanking, Storing
<1>8. Requests'
  BY <1>5, <1>6 DEF Requests
<1>9. TimesAndTokens'
  BY <1>1, <1>2, <1>3, <1>6, <1>7 DEF FeedInv, TimesAndTokens
<1>10. TokenIsFresh'
  BY <1>1, <1>2, <1>3, <1>6, <1>7 DEF FeedInv, TokenIsFresh
<1>11. ASSUME NEW t \in Clients PROVE FindsNothingOlder(request[t])' /\ ClosedStayOut(request[t])'
  BY <1>1, <1>2, <1>3, <1>6, <1>7 DEF FeedInv, FindsNothingOlder, ClosedStayOut
<1>12. FreshAfterBump'
  BY <1>6 DEF FeedInv, FreshAfterBump, HasRanking
<1> QED BY <1>8, <1>9, <1>10, <1>11, <1>12 DEF FeedInv

\* Only who is open is selected, and who was closed is not open.
LEMMA PageInv ==
  ASSUME FeedInv, NEW s \in Clients, pageRanking(s)
  PROVE  FeedInv'
<1>1. /\ request[s].stage = "page" /\ HasGeneration(request[s]) /\ IsRequest(request[s])
      /\ TokenStep /\ UNCHANGED <<cache, open, now, committedAt, bumpedAt>>
  BY DEF pageRanking, Is, HasGeneration, TokenStep, db, redis, counters, history, FeedInv, Requests
<1>2. PICK batch, examined, position :
        Step(s, Paging([request[s] EXCEPT !.selected = @ \cup Allowed(batch),
                          !.examined = examined, !.position = position]))
  BY DEF pageRanking
<1> DEFINE row == [request[s] EXCEPT !.selected = @ \cup Allowed(batch),
                     !.examined = examined, !.position = position]
<1>3. /\ IsRequest(row) /\ row.generation = request[s].generation
      /\ row.ranking = request[s].ranking
      /\ row.selected = request[s].selected \cup Allowed(batch)
      /\ \A new, stage : Goes(new, row, stage) => Goes(new, request[s], stage)
  BY <1>1 DEF IsRequest, Fields, Goes
<1>4. Step(s, Paging(row))
  BY <1>2
<1> HIDE DEF row
<1>5. PICK stage \in {"page", "reply"} : Goes(Paging(row), row, stage)
  BY <1>3, PagingFacts
<1>6. Goes(Paging(row), request[s], stage)
  BY <1>3, <1>5
<1>7. Paging(row).generation = row.generation /\ Paging(row).ranking = row.ranking
      /\ Paging(row).selected = row.selected
  BY <1>3, PagingFacts
<1>8. \A e \in row.selected : e.id \notin request[s].closed
  BY <1>3 DEF FeedInv, ClosedStayOut, Allowed
<1>9. request[s].ranking.at \in Nat /\ request[s].ranking.at >= request[s].since
  BY <1>1 DEF FeedInv, FreshAfterBump, TimesAndTokens, HasRanking
<1> QED BY <1>1, <1>3, <1>4, <1>6, <1>7, <1>8, <1>9, SameGeneration DEF Goes, Storing

-----------------------------------------------------------------------------
(* PostgreSQL, the bump and the losses of Redis.                           *)

\* Somebody closes, or opens and is no longer among the closed.
LEMMA ChangeInv ==
  ASSUME FeedInv, NEW c \in Candidates, OtherChanges(c) \/ ViewerCommits(c)
  PROVE  FeedInv'
<1>1. /\ now' = now + 1 /\ Change(c)
      /\ cache' = cache /\ generation' = generation /\ minted' = minted /\ bumpedAt' = bumpedAt
      /\ committedAt' \in {committedAt, now'}
  BY DEF OtherChanges, ViewerCommits, Tick, redis, counters, history
<1>2. /\ request' = [t \in Clients |-> request'[t]]
      /\ \A t \in Clients : /\ IsRequest(request'[t])
                            /\ request'[t].stage = request[t].stage
                            /\ request'[t].generation = request[t].generation
                            /\ request'[t].ranking = request[t].ranking
                            /\ request'[t].since = request[t].since
                            /\ request'[t].selected = request[t].selected
                            /\ request'[t].closed \cap open' = {}
                            /\ request'[t].closed \subseteq request[t].closed
  BY <1>1 DEF Change, FeedInv, Requests, IsRequest, Fields, ClosedStayOut
<1>3. Requests'
  BY <1>2 DEF Requests
<1>4. TimesAndTokens'
  BY <1>1, <1>2 DEF FeedInv, TimesAndTokens, HasRanking
<1>5. TokenIsFresh'
  BY <1>1, <1>2 DEF FeedInv, TokenIsFresh, Storing
<1>6. ASSUME NEW t \in Clients PROVE FindsNothingOlder(request[t])' /\ ClosedStayOut(request[t])'
  BY <1>1, <1>2 DEF FeedInv, FindsNothingOlder, HasGeneration, Storing, ClosedStayOut
<1>7. FreshAfterBump'
  BY <1>2 DEF FeedInv, FreshAfterBump
<1> QED BY <1>3, <1>4, <1>5, <1>6, <1>7 DEF FeedInv

\* The token, the rankings and the times, with every request as it is.
LEMMA RedisStep ==
  ASSUME FeedInv, request' = request, open' = open, now' = now, committedAt' = committedAt,
         cache' \subseteq cache,
         \/ minted' = minted /\ bumpedAt' = bumpedAt /\ generation' \in {generation, NoToken}
         \/ minted' = minted + 1 /\ bumpedAt' = bumpedAt /\ generation' \in {generation, minted + 1}
         \/ minted' = minted + 1 /\ bumpedAt' = committedAt /\ generation' = minted + 1
  PROVE  FeedInv'
<1>1. Requests'
  BY DEF FeedInv, Requests, IsRequest, Fields
<1>2. TimesAndTokens'
  BY DEF FeedInv, TimesAndTokens, HasRanking, NoToken
<1>3. TokenIsFresh'
  <2>1. CASE generation' = minted + 1
    BY <2>1 DEF FeedInv, TokenIsFresh, TimesAndTokens, Storing
  <2>2. CASE generation' = NoToken
    BY <2>2 DEF TokenIsFresh, isToken, NoToken
  <2>3. CASE generation' = generation /\ bumpedAt' = bumpedAt
    BY <2>3 DEF FeedInv, TokenIsFresh, Storing
  <2> QED BY <2>1, <2>2, <2>3
<1>4. ASSUME NEW t \in Clients PROVE FindsNothingOlder(request[t])' /\ ClosedStayOut(request[t])'
  BY DEF FeedInv, FindsNothingOlder, HasGeneration, Storing, ClosedStayOut
<1>5. FreshAfterBump'
  BY DEF FeedInv, FreshAfterBump
<1> QED BY <1>1, <1>2, <1>3, <1>4, <1>5 DEF FeedInv

\* A bump that succeeds sets a token under which nothing is cached yet.
LEMMA BumpInv ==
  ASSUME FeedInv, failures \in Nat, bump
  PROVE  FeedInv'
<1>1. /\ request' = request /\ open' = open /\ now' = now /\ committedAt' = committedAt
      /\ cache' = cache
  BY DEF bump, db, redis
<1>2. CASE /\ minted' = minted + 1 /\ replace(newToken)
           /\ bumpedAt' = IF failures' = failures THEN committedAt ELSE bumpedAt
  <2>1. \/ bumpedAt' = committedAt /\ generation' = minted + 1
        \/ bumpedAt' = bumpedAt /\ generation' \in {generation, minted + 1}
    BY <1>2 DEF replace, newToken, Works, Fails
  <2> QED BY <1>1, <1>2, <2>1, RedisStep
<1>3. CASE minted' = minted /\ bumpedAt' = bumpedAt /\ generation' = generation
  BY <1>1, <1>3, RedisStep
<1> QED BY <1>2, <1>3 DEF bump, Mint, redis, counters

LEMMA LossInv ==
  ASSUME FeedInv, LoseGeneration \/ \E e \in cache : Expire(e)
  PROVE  FeedInv'
BY RedisStep DEF LoseGeneration, Expire, db, counters, history

-----------------------------------------------------------------------------
(* Theorems.                                                               *)

\* A failure is told from a success by its count, which has to be a number.
LEMMA FailuresAreCounted == Spec => [](failures \in Nat)
<1>1. Init => failures \in Nat
  BY DEF Init
<1>2. failures \in Nat /\ [Next]_vars => (failures \in Nat)'
  <2> SUFFICES ASSUME failures \in Nat, [Next]_vars PROVE failures' \in Nat
    OBVIOUS
  <2>1. ASSUME NEW c \in Candidates, OtherChanges(c) \/ ViewerCommits(c) PROVE failures' \in Nat
    BY <2>1 DEF OtherChanges, ViewerCommits, counters
  <2>2. CASE bump
    BY <2>2 DEF bump, replace, Works, Fails, counters
  <2>3. CASE LoseGeneration \/ \E e \in cache : Expire(e)
    BY <2>3 DEF LoseGeneration, Expire, counters
  <2>4. ASSUME NEW s \in Clients, NEW f \in Filters, NEW resume \in BOOLEAN, Begin(s, f, resume)
        PROVE  failures' \in Nat
    BY <2>4, Zenon DEF Begin, counters
  <2>5. ASSUME NEW s \in Clients,
               current(s) \/ setIfAbsent(s) \/ GetWinner(s) \/ Replacement(s)
        PROVE  failures' \in Nat
    BY <2>5 DEF current, setIfAbsent, GetWinner, Replacement, replace, Works, Fails
  <2>6. ASSUME NEW s \in Clients, Lookup(s) \/ Continue(s) \/ Store(s) PROVE failures' \in Nat
    <3>1. Works \/ Fails
      BY <2>6, Zenon DEF Lookup, Continue, Store
    <3> QED BY <3>1 DEF Works, Fails
  <2>7. ASSUME NEW s \in Clients, generateRanking(s) \/ pageRanking(s) \/ Reply(s) \/ Abort(s)
        PROVE  failures' \in Nat
    BY <2>7 DEF generateRanking, pageRanking, Reply, Abort, counters
  <2>8. CASE UNCHANGED vars
    BY <2>8 DEF vars, counters
  <2> QED BY <2>1, <2>2, <2>3, <2>4, <2>5, <2>6, <2>7, <2>8, Zenon DEF Next
<1> QED BY <1>1, <1>2, PTL DEF Spec

LEMMA FeedNext == failures \in Nat /\ FeedInv /\ [Next]_vars => FeedInv'
<1> SUFFICES ASSUME failures \in Nat, FeedInv, [Next]_vars PROVE FeedInv'
  OBVIOUS
<1>1. CASE UNCHANGED vars
  BY <1>1, RedisStep DEF vars, db, redis, counters, history
<1>2. ASSUME NEW s \in Clients, Reply(s) \/ Abort(s) PROVE FeedInv'
  <2>1. Step(s, NoRequest) /\ TokenStep /\ UNCHANGED <<cache, open, now, committedAt, bumpedAt>>
    BY <1>2 DEF Reply, Abort, TokenStep, db, redis, counters, history
  <2> QED BY <2>1, EndStep
<1> QED BY <1>1, <1>2, ChangeInv, BumpInv, LossInv, BeginInv, TokenInv, LookupInv, ContinueInv,
           GenerateInv, StoreInv, PageInv DEF Next

LEMMA FeedInvariance == Spec => []FeedInv
BY FeedInit, FeedNext, FailuresAreCounted, PTL DEF Spec

\* Tokens lost, replaced, set by late requests or written by a failed command
\* never bring back a ranking from before a mutation whose bump succeeded.
THEOREM BumpsAreRespected == Spec => []FreshAfterBump
<1>1. FeedInv => FreshAfterBump
  BY DEF FeedInv
<1> QED BY FeedInvariance, <1>1, PTL

\* No page shows who was closed before the request began and still is, however
\* old its ranking and whatever became of the bump.
THEOREM ClosedStayHidden == Spec => []ClosedAreNotShown
<1>1. FeedInv => ClosedAreNotShown
  BY DEF FeedInv, ClosedAreNotShown, ClosedStayOut
<1> QED BY FeedInvariance, <1>1, PTL

-----------------------------------------------------------------------------
(* What the pages of a walk rest on.                                       *)

\* The first n candidates of a ranking, and all of them.
Upto(ranking, n) == {ranking.ranked[i] : i \in 1 .. n}
All(ranking) == Upto(ranking, Len(ranking.ranked))

\* The rankings there are: cached, or in the hands of a request.
Of(x) == [filter |-> x.filter, batchKey |-> x.batchKey, ranking |-> x.ranking]
Held ==
  {Of(e) : e \in cache} \cup {Of(request[s]) : s \in {t \in Clients : HasRanking(request[t])}}

\* A ranking has nobody twice, is cut where its next batch begins, and lacks
\* nobody who is still where it was ranked.
IsRanked(h, rankings) ==
  LET R == h.ranking
  IN  /\ h.filter \in Filters /\ h.batchKey \in Entry \cup {NoEntry}
      /\ R \in Ranking /\ Len(R.ranked) <= Cap /\ R.snapshotId <= rankings /\ R.at <= now
      /\ \A e \in All(R) : Beyond(h.batchKey, e)
      /\ \A i, j \in 1 .. Len(R.ranked) : R.ranked[i] = R.ranked[j] => i = j
      /\ R.next # NoEntry => /\ R.next \in All(R)
                             /\ \A e \in All(R) : e = R.next \/ Precedes(e, R.next)
      /\ \A e \in Coarse(h.filter, h.batchKey) :
           changed[e.id] <= R.at =>
             \/ e \in All(R)
             \/ R.next # NoEntry /\ Precedes(R.next, e)

\* A snapshot id names one ranking.
SnapshotsAreUnique ==
  \A g, h \in Held : g.ranking.snapshotId = h.ranking.snapshotId => g = h

\* The turn of a candidate came if it is not beyond the key of a batch, or is
\* among those of the batch that were examined.
TurnCame(e, key, examined) == ~Beyond(key, e) \/ e \in examined

\* Whose turn came has been shown, if it is where it was at t; nobody else has.
Told(shown, f, key, examined, t) ==
  /\ \A e \in shown : TurnCame(e, key, examined)
  /\ \A e \in Coarse(f, NoEntry) :
       changed[e.id] <= t /\ TurnCame(e, key, examined) => e \in shown

\* A walk says so up to its cursor, if the ranking of its cursor still exists.
CursorOf(tokens, rankings) ==
  [generation : 1 .. tokens, filter : Filters, snapshotId : 1 .. rankings,
   batchKey : Entry \cup {NoEntry}, last : Entry]

WalkIsTyped(w, tokens, rankings) ==
  /\ w.cursor \in CursorOf(tokens, rankings) \cup {NoCursor}
  /\ w.shown \subseteq Entry /\ w.oldest \in 0 .. now
  /\ w.cursor = NoCursor => w = NoWalk

WalkIsTold(w) ==
  \A h \in Held : h.ranking.snapshotId = w.cursor.snapshotId =>
    /\ w.oldest <= h.ranking.at
    /\ \A i \in 1 .. Len(h.ranking.ranked) : h.ranking.ranked[i] = w.cursor.last =>
         Told(w.shown, h.filter, h.batchKey, Upto(h.ranking, i), w.oldest)

\* The types of a request, and what goes with its stage.
RowTypes(row, tokens, rankings) ==
  /\ row = NoRequest \/ row.filter \in Filters
  /\ row.stage = "idle" => row = NoRequest
  /\ row.cursor \in CursorOf(tokens, rankings) \cup {NoCursor}
  /\ row.ranking \in Ranking \cup {NoRanking} /\ row.position \in 0 .. Len(row.ranking.ranked)
  /\ row.selected \subseteq Entry /\ IsFiniteSet(row.selected)
  /\ Cardinality(row.selected) <= Limit
  /\ HasGeneration(row) =>
       row.generation \in 1 .. tokens /\ row.batchKey \in Entry \cup {NoEntry}

RowStages(row) ==
  /\ row.stage \notin {"page", "reply"} => row.selected = {} /\ row.examined = NoEntry
  /\ row.stage \notin {"next", "page", "reply"} => row.position = 0
  /\ row.stage = "next" =>
       /\ row.cursor # NoCursor /\ row.ranking.next # NoEntry
       /\ row.position = Len(row.ranking.ranked)
  /\ row.stage = "page" =>
       Cardinality(row.selected) < Limit /\ row.position < Len(row.ranking.ranked)
  /\ row.stage \in {"page", "reply"} =>
       \/ row.examined = NoEntry /\ row.selected = {}
       \/ row.position # 0 /\ row.examined = row.ranking.ranked[row.position]
  /\ row.stage = "reply" /\ row.examined = NoEntry =>
       row.position = Len(row.ranking.ranked) /\ row.ranking.next = NoEntry

\* The age of the oldest ranking of a walk, with the one of this page.
OldestOf(w, ranking) ==
  IF w # NoWalk /\ w.oldest < ranking.at THEN w.oldest ELSE ranking.at

\* A request goes on where its walk stopped: nothing between is left out.
Serves(row, w) ==
  /\ row.stage # "idle" => IF row.cursor = NoCursor THEN w = NoWalk ELSE w.cursor = row.cursor
  /\ HasGeneration(row) /\ row.cursor = NoCursor => row.batchKey = NoEntry
  /\ row.stage \in {"rank", "store"} => Told(w.shown, row.filter, row.batchKey, {}, w.oldest)
  /\ row.stage = "next" =>
       /\ w.oldest <= row.ranking.at
       /\ Told(w.shown, row.filter, row.batchKey, All(row.ranking), w.oldest)
  /\ row.stage \in {"page", "reply"} =>
       /\ w.shown \cap row.selected = {}
       /\ Told(w.shown \cup row.selected, row.filter, row.batchKey,
               Upto(row.ranking, row.position), OldestOf(w, row.ranking))

\* PostgreSQL; a token; the keys of the cache.
DbIsTyped ==
  /\ open \subseteq Candidates /\ bound \in [Candidates -> 0 .. MaxBound]
  /\ changed \in [Candidates -> Nat] /\ now \in Nat

TokensAreTyped ==
  /\ minted \in Nat /\ snapshots \in Nat /\ mutation \in {"none", "bump"}
  /\ generation \in {NoToken, Legacy} \cup 1 .. minted

CacheIsTyped(entries, tokens) ==
  \A e \in entries :
    /\ e.generation \in 1 .. tokens
    /\ \A d \in entries : e # d => <<e.generation, e.filter, e.batchKey>> #
                                   <<d.generation, d.filter, d.batchKey>>

WalkInv ==
  /\ DbIsTyped /\ TokensAreTyped /\ CacheIsTyped(cache, minted)
  /\ \A h \in Held : IsRanked(h, snapshots)
  /\ SnapshotsAreUnique
  /\ walk = [s \in Clients |-> walk[s]]
  /\ \A s \in Clients :
       /\ WalkIsTyped(walk[s], minted, snapshots) /\ WalkIsTold(walk[s])
       /\ RowTypes(request[s], minted, snapshots) /\ RowStages(request[s])
       /\ Serves(request[s], walk[s])

-----------------------------------------------------------------------------
(* Lists.                                                                  *)

\* below[e] is what comes before e in a strict total order of S.
Orders(below, S) ==
  /\ below \in [S -> SUBSET S]
  /\ \A e \in S : e \notin below[e]
  /\ \A d, e \in S : d # e => d \in below[e] \/ e \in below[d]
  /\ \A c, d, e \in S : c \in below[d] /\ d \in below[e] => c \in below[e]

LEMMA BelowCounts ==
  ASSUME NEW S, IsFiniteSet(S), NEW below, Orders(below, S)
  PROVE  /\ \A e \in S : Cardinality(below[e]) \in 0 .. Cardinality(S) - 1
         /\ \A d, e \in S : d \in below[e] => Cardinality(below[d]) < Cardinality(below[e])
         /\ \A d, e \in S : Cardinality(below[d]) = Cardinality(below[e]) => d = e
<1>1. ASSUME NEW e \in S
      PROVE  /\ IsFiniteSet(below[e]) /\ below[e] \in SUBSET S /\ Cardinality(below[e]) \in Nat
             /\ Cardinality(S) \in Nat /\ Cardinality(below[e]) < Cardinality(S)
  <2>1. below[e] \in SUBSET S /\ below[e] # S
    BY DEF Orders
  <2>2. IsFiniteSet(below[e]) /\ Cardinality(below[e]) <= Cardinality(S)
        /\ Cardinality(below[e]) # Cardinality(S)
    BY <2>1, FS_Subset
  <2>3. Cardinality(below[e]) \in Nat /\ Cardinality(S) \in Nat
    BY <2>2, FS_CardinalityType
  <2> QED BY <2>1, <2>2, <2>3
<1>2. ASSUME NEW d \in S, NEW e \in S, d \in below[e]
      PROVE  Cardinality(below[d]) < Cardinality(below[e])
  <2>1. below[d] \in SUBSET below[e]
    BY <1>1, <1>2 DEF Orders
  <2>2. below[d] # below[e]
    BY <1>2 DEF Orders
  <2>3. Cardinality(below[d]) <= Cardinality(below[e]) /\ Cardinality(below[d]) # Cardinality(below[e])
    BY <1>1, <2>1, <2>2, FS_Subset
  <2> QED BY <1>1, <2>3
<1>3. ASSUME NEW d \in S, NEW e \in S, d # e
      PROVE  Cardinality(below[d]) # Cardinality(below[e])
  <2>1. d \in below[e] \/ e \in below[d]
    BY <1>3 DEF Orders
  <2> QED BY <1>1, <1>2, <2>1
<1> QED BY <1>1, <1>2, <1>3

\* A finite set can be listed in such an order.
LEMMA Listing ==
  ASSUME NEW S, IsFiniteSet(S), NEW below, Orders(below, S)
  PROVE  \E q \in [1 .. Cardinality(S) -> S] :
           /\ \A i, j \in 1 .. Cardinality(S) : i < j => q[i] \in below[q[j]]
           /\ \A e \in S : \E i \in 1 .. Cardinality(S) : q[i] = e
<1> DEFINE n == Cardinality(S)
           place == [e \in S |-> Cardinality(below[e]) + 1]
<1>1. n \in Nat
  BY FS_CardinalityType
<1>2. place \in [S -> 1 .. n]
  BY <1>1, BelowCounts
<1>3. \A d, e \in S : place[d] = place[e] => d = e
  BY BelowCounts
<1>4. \A d, e \in S : d \in below[e] => place[d] < place[e]
  BY BelowCounts
<1>5. IsFiniteSet(1 .. n) /\ Cardinality(1 .. n) = n
  BY <1>1, FS_Interval
<1> HIDE DEF place
<1>6. place \in Injection(S, 1 .. n)
  BY <1>2, <1>3 DEF Injection, IsInjective
<1>7. place \in Surjection(S, 1 .. n)
  BY <1>5, <1>6, FS_Injection
<1>8. \A i \in 1 .. n : \E e \in S : place[e] = i
  BY <1>7 DEF Surjection
<1> DEFINE q == [i \in 1 .. n |-> CHOOSE e \in S : place[e] = i]
<1>9. \A i \in 1 .. n : q[i] \in S /\ place[q[i]] = i
  BY <1>8
<1>10. q \in [1 .. n -> S]
  BY <1>8
<1> HIDE DEF q
<1>11. \A e \in S : \E i \in 1 .. n : q[i] = e
  BY <1>2, <1>3, <1>9
<1>12. ASSUME NEW i \in 1 .. n, NEW j \in 1 .. n, i < j PROVE q[i] \in below[q[j]]
  <2>1. q[i] \in S /\ q[j] \in S /\ place[q[i]] = i /\ place[q[j]] = j
    BY <1>9
  <2>2. q[i] # q[j]
    BY <2>1, <1>12
  <2>3. q[j] \notin below[q[i]]
    BY <2>1, <1>4, <1>12
  <2> QED BY <2>1, <2>2, <2>3 DEF Orders
<1> QED BY <1>10, <1>11, <1>12

\* ORDER BY and the exact order are such orders of the rows of a query.
Rows == {es \in SUBSET Entry : IsFiniteSet(es) /\ \A d, e \in es : d.id = e.id => d = e}
Preceding(es) == [e \in es |-> {d \in es : Precedes(d, e)}]
Better(es) == [e \in es |-> {d \in es : RankedBefore(d, e)}]

LEMMA EntryFacts ==
  /\ \A e \in Entry : /\ e.id \in Candidates /\ e.id \in Nat /\ e.id # 0
                       /\ e.bound \in 1 .. MaxBound /\ e.bound \in Nat /\ e.bound > 0
                       /\ Score[e.id] \in Nat
                       /\ e = [id |-> e.id, bound |-> e.bound]
  /\ NoEntry \notin Entry
<1>1. MaxBound \in Nat /\ Candidates \subseteq Nat \ {0} /\ Score \in [Candidates -> Nat]
  BY FeedAssumption
<1>2. ASSUME NEW e \in Entry
      PROVE  e.id \in Candidates /\ e.bound \in 1 .. MaxBound /\ e = [id |-> e.id, bound |-> e.bound]
  BY DEF Entry
<1>3. NoEntry.id = 0
  BY DEF NoEntry
<1> QED BY <1>1, <1>2, <1>3

LEMMA PrecedesOrders ==
  /\ \A e \in Entry : ~Precedes(e, e)
  /\ \A d, e \in Entry : d # e => Precedes(d, e) \/ Precedes(e, d)
  /\ \A c, d, e \in Entry : Precedes(c, d) /\ Precedes(d, e) => Precedes(c, e)
<1>1. \A d, e \in Entry : d.id = e.id /\ d.bound = e.bound => d = e
  BY EntryFacts
<1> QED BY <1>1, EntryFacts DEF Precedes

LEMMA RowsAreOrdered ==
  ASSUME NEW es \in Rows
  PROVE  Orders(Preceding(es), es) /\ Orders(Better(es), es)
<1>1. \A e \in es : e \in Entry
  BY DEF Rows
<1>2. Orders(Preceding(es), es)
  BY <1>1, PrecedesOrders DEF Orders, Preceding
<1>3. /\ \A e \in es : ~RankedBefore(e, e)
      /\ \A d, e \in es : d # e => RankedBefore(d, e) \/ RankedBefore(e, d)
      /\ \A c, d, e \in es : RankedBefore(c, d) /\ RankedBefore(d, e) => RankedBefore(c, e)
  <2>1. \A e \in es : e.id \in Nat /\ Score[e.id] \in Nat
    BY <1>1, EntryFacts
  <2>2. \A d, e \in es : d.id = e.id => d = e
    BY DEF Rows
  <2> QED BY <2>1, <2>2 DEF RankedBefore
<1>4. Orders(Better(es), es)
  BY <1>3 DEF Orders, Better
<1> QED BY <1>2, <1>4

\* sortByExactScore lists its entries, each of them once.
LEMMA SortLists ==
  ASSUME NEW es \in Rows
  PROVE  LET q == sortByExactScore(es)
         IN  /\ q \in Seq(es) /\ Len(q) = Cardinality(es) /\ Cardinality(es) \in Nat
             /\ \A i, j \in 1 .. Len(q) : q[i] = q[j] => i = j
             /\ {q[i] : i \in 1 .. Len(q)} = es
<1> DEFINE n == Cardinality(es)
           q == sortByExactScore(es)
<1>1. IsFiniteSet(es) /\ n \in Nat
  BY FS_CardinalityType DEF Rows
<1>2. Orders(Better(es), es)
  BY RowsAreOrdered
<1>3. \E p \in [1 .. n -> es] : \A i, j \in 1 .. n : i < j => RankedBefore(p[i], p[j])
  <2>1. PICK p \in [1 .. n -> es] : \A i, j \in 1 .. n : i < j => p[i] \in Better(es)[p[j]]
    BY <1>1, <1>2, Listing
  <2> QED BY <2>1 DEF Better
<1>4. q \in [1 .. n -> es] /\ \A i, j \in 1 .. n : i < j => RankedBefore(q[i], q[j])
  BY <1>3 DEF sortByExactScore
<1> HIDE DEF q
<1>5. \A i, j \in 1 .. n : q[i] = q[j] => i = j
  <2>1. \A e \in es : ~RankedBefore(e, e)
    BY <1>2 DEF Orders, Better
  <2>2. \A i \in 1 .. n : q[i] \in es
    BY <1>4
  <2>3. \A i, j \in 1 .. n : i < j \/ j < i \/ i = j
    BY <1>1
  <2> QED BY <1>4, <2>1, <2>2, <2>3
<1>6. q \in Injection(1 .. n, es)
  BY <1>4, <1>5 DEF Injection, IsInjective
<1>7. Cardinality(1 .. n) = n
  BY <1>1, FS_Interval
<1>8. q \in Surjection(1 .. n, es)
  BY <1>1, <1>6, <1>7, FS_Injection
<1>9. {q[i] : i \in 1 .. n} = es
  BY <1>4, <1>8 DEF Surjection
<1>10. q \in Seq(es) /\ Len(q) = n
  <2>1. q \in Seq(es)
    BY <1>1, <1>4, SeqDef
  <2> QED BY <1>1, <1>4, <2>1, LenProperties
<1> QED BY <1>1, <1>5, <1>9, <1>10 DEF q
\* Coarse queries return rows.
LEMMA CoarseRows ==
  ASSUME DbIsTyped, NEW f \in Filters, NEW key
  PROVE  Coarse(f, key) \in Rows
<1> DEFINE es == Coarse(f, key)
           ids == [e \in es |-> e.id]
<1>1. IsFiniteSet(Candidates) /\ MaxBound \in Nat
  BY FeedAssumption
<1>2. ASSUME NEW e \in es PROVE e \in Entry
  <2>1. PICK c \in open \cap f : e = [id |-> c, bound |-> bound[c]]
    BY DEF Coarse
  <2>2. c \in Candidates /\ bound[c] \in 0 .. MaxBound /\ e.bound > 0 /\ e.bound = bound[c]
    BY <2>1 DEF DbIsTyped, Coarse
  <2>3. bound[c] \in 1 .. MaxBound
    BY <1>1, <2>2
  <2> QED BY <2>1, <2>2, <2>3 DEF Entry
<1>3. \A d, e \in es : d.id = e.id => d = e
  BY DEF Coarse
<1> HIDE DEF es
<1>4. ids \in Injection(es, Candidates)
  BY <1>2, <1>3, EntryFacts DEF Injection, IsInjective
<1> HIDE DEF ids
<1>5. IsFiniteSet(es)
  BY <1>1, <1>4, FS_Injection
<1> QED BY <1>2, <1>3, <1>5 DEF Rows, es

\* The first Cap rows: no more than that, and whoever is left follows the last.
Top(rest) == {e \in rest : Cardinality({d \in rest : Precedes(d, e)}) < Cap}
LastOf(top) == CHOOSE e \in top : \A d \in top : d = e \/ Precedes(d, e)

LEMMA TopFacts ==
  ASSUME NEW rest \in Rows
  PROVE  /\ Top(rest) \in Rows /\ Top(rest) \subseteq rest /\ Cardinality(Top(rest)) <= Cap
         /\ Top(rest) # rest =>
              /\ LastOf(Top(rest)) \in Top(rest)
              /\ \A d \in Top(rest) : d = LastOf(Top(rest)) \/ Precedes(d, LastOf(Top(rest)))
              /\ \A e \in rest \ Top(rest) : Precedes(LastOf(Top(rest)), e)
<1> DEFINE top == Top(rest)
           below == Preceding(rest)
           count == [e \in top |-> Cardinality(below[e])]
<1>1. IsFiniteSet(rest) /\ rest \in SUBSET Entry /\ \A d, e \in rest : d.id = e.id => d = e
  BY DEF Rows
<1>2. Cap \in Nat \ {0}
  BY FeedAssumption
<1>3. Orders(below, rest)
  BY RowsAreOrdered
<1>4. top = {e \in rest : Cardinality(below[e]) < Cap}
  BY DEF Top, Preceding
<1>5. \A e \in rest : Cardinality(below[e]) \in 0 .. Cardinality(rest) - 1
  BY <1>1, <1>3, BelowCounts
<1>6. top \in SUBSET rest
  BY <1>4
<1>7. IsFiniteSet(top)
  BY <1>1, <1>6, FS_Subset
<1>8. top \in Rows
  BY <1>1, <1>6, <1>7 DEF Rows
<1>9. Cardinality(top) <= Cap
  <2>1. IsFiniteSet(0 .. Cap - 1) /\ Cardinality(0 .. Cap - 1) = Cap
    BY <1>2, FS_Interval
  <2>2. \A e \in top : e \in rest /\ Cardinality(below[e]) < Cap
    BY <1>4
  <2>3. \A e \in top : count[e] = Cardinality(below[e]) /\ count[e] \in 0 .. Cap - 1
    BY <1>2, <1>5, <2>2
  <2>4. \A d, e \in top : count[d] = count[e] => d = e
    BY <1>1, <1>3, <2>2, <2>3, BelowCounts
  <2>5. count \in [top -> 0 .. Cap - 1]
    BY <2>3
  <2> HIDE DEF count, top
  <2>6. count \in Injection(top, 0 .. Cap - 1)
    BY <2>4, <2>5 DEF Injection, IsInjective
  <2> QED BY <2>1, <2>6, FS_Injection
<1>10. ASSUME top # rest
       PROVE  /\ LastOf(top) \in top
              /\ \A d \in top : d = LastOf(top) \/ Precedes(d, LastOf(top))
              /\ \A e \in rest \ top : Precedes(LastOf(top), e)
  <2>1. PICK e \in rest : e \notin top
    BY <1>6, <1>10
  <2>2. \E e1 \in top : TRUE
    <3>1. PICK q \in [1 .. Cardinality(rest) -> rest] :
            /\ \A i, j \in 1 .. Cardinality(rest) : i < j => q[i] \in below[q[j]]
            /\ \A r \in rest : \E i \in 1 .. Cardinality(rest) : q[i] = r
      BY <1>1, <1>3, Listing
    <3>2. Cardinality(rest) \in Nat
      BY <1>1, FS_CardinalityType
    <3>3. 1 \in 1 .. Cardinality(rest)
      BY <2>1, <3>1, <3>2
    <3>4. q[1] \in rest
      BY <3>1, <3>3
    <3>5. below[q[1]] = {}
      <4> SUFFICES ASSUME NEW r \in below[q[1]] PROVE FALSE
        OBVIOUS
      <4>1. r \in rest /\ q[1] \notin below[q[1]] /\ r # q[1]
        BY <1>3, <3>4 DEF Orders
      <4>2. PICK i \in 1 .. Cardinality(rest) : q[i] = r
        BY <3>1, <4>1
      <4>3. i # 1
        BY <4>1, <4>2
      <4>4. 1 < i
        BY <4>3, <3>2
      <4>5. q[1] \in below[r]
        BY <3>1, <3>3, <4>2, <4>4
      <4> QED BY <1>3, <3>4, <4>1, <4>5 DEF Orders
    <3>6. Cardinality(below[q[1]]) = 0
      BY <3>5, FS_EmptySet
    <3> QED BY <1>2, <1>4, <3>4, <3>6
  <2>3. PICK q \in [1 .. Cardinality(top) -> top] :
          /\ \A i, j \in 1 .. Cardinality(top) : i < j => q[i] \in Preceding(top)[q[j]]
          /\ \A r \in top : \E i \in 1 .. Cardinality(top) : q[i] = r
    <3>1. Orders(Preceding(top), top)
      BY <1>8, RowsAreOrdered
    <3> QED BY <1>7, <3>1, Listing
  <2>4. Cardinality(top) \in Nat
    BY <1>7, FS_CardinalityType
  <2>5. Cardinality(top) \in 1 .. Cardinality(top)
    BY <2>2, <2>3, <2>4
  <2> DEFINE z == q[Cardinality(top)]
  <2>6. z \in top /\ \A d \in top : d = z \/ Precedes(d, z)
    <3>1. z \in top
      BY <2>3, <2>5
    <3>2. ASSUME NEW d \in top PROVE d = z \/ Precedes(d, z)
      <4>1. PICK i \in 1 .. Cardinality(top) : q[i] = d
        BY <2>3
      <4>2. i = Cardinality(top) \/ i < Cardinality(top)
        BY <2>4
      <4>3. CASE i < Cardinality(top)
        <5>1. d \in Preceding(top)[z]
          BY <2>3, <2>5, <4>1, <4>3
        <5> QED BY <3>1, <5>1 DEF Preceding
      <4> QED BY <4>1, <4>2, <4>3
    <3> QED BY <3>1, <3>2
  <2> HIDE DEF z, top
  <2>7. LastOf(top) \in top /\ \A d \in top : d = LastOf(top) \/ Precedes(d, LastOf(top))
    BY <2>6 DEF LastOf
  <2>8. ASSUME NEW r \in rest \ top PROVE Precedes(LastOf(top), r)
    <3>1. LastOf(top) \in rest /\ r # LastOf(top)
      BY <1>6, <2>7
    <3>2. ASSUME Precedes(r, LastOf(top)) PROVE FALSE
      <4>1. r \in below[LastOf(top)]
        BY <3>1, <3>2 DEF Preceding
      <4>2. Cardinality(below[r]) < Cardinality(below[LastOf(top)])
        BY <1>1, <1>3, <3>1, <4>1, BelowCounts
      <4>3. Cardinality(below[LastOf(top)]) < Cap
        BY <1>4, <2>7 DEF top
      <4>4. Cardinality(below[r]) \in Int /\ Cardinality(below[LastOf(top)]) \in Int
        BY <1>5, <3>1
      <4>5. Cardinality(below[r]) < Cap
        BY <1>2, <4>2, <4>3, <4>4
      <4> QED BY <1>4, <4>5 DEF top
    <3> QED BY <1>1, <3>1, <3>2, PrecedesOrders
  <2> QED BY <2>7, <2>8
<1> QED BY <1>6, <1>8, <1>9, <1>10

\* A new ranking is complete: what is beyond its last candidate is left to the
\* batch that continues it.
LEMMA NewRanking ==
  ASSUME DbIsTyped, NEW f \in Filters, NEW key \in Entry \cup {NoEntry}, NEW n \in Nat
  PROVE  LET rest == Coarse(f, key)
         IN  IsRanked([filter |-> f, batchKey |-> key,
                       ranking |-> [snapshotId |-> n + 1, at |-> now,
                                    ranked |-> sortByExactScore(Top(rest)),
                                    next |-> IF Top(rest) = rest THEN NoEntry
                                             ELSE LastOf(Top(rest))]], n + 1)
<1> DEFINE rest == Coarse(f, key)
           top == Top(rest)
           q == sortByExactScore(top)
           next == IF top = rest THEN NoEntry ELSE LastOf(top)
           R == [snapshotId |-> n + 1, at |-> now, ranked |-> q, next |-> next]
           h == [filter |-> f, batchKey |-> key, ranking |-> R]
<1>1. rest \in Rows /\ \A e \in rest : Beyond(key, e)
  BY CoarseRows DEF Coarse
<1> HIDE DEF rest
<1>2. /\ top \in Rows /\ top \subseteq rest /\ Cardinality(top) <= Cap /\ top \subseteq Entry
      /\ top # rest => /\ LastOf(top) \in top
                       /\ \A d \in top : d = LastOf(top) \/ Precedes(d, LastOf(top))
                       /\ \A e \in rest \ top : Precedes(LastOf(top), e)
  BY <1>1, TopFacts DEF Rows
<1> HIDE DEF top
<1>3. /\ q \in Seq(top) /\ Len(q) = Cardinality(top) /\ Cardinality(top) \in Nat
      /\ \A i, j \in 1 .. Len(q) : q[i] = q[j] => i = j
      /\ {q[i] : i \in 1 .. Len(q)} = top
  BY <1>2, SortLists
<1>4. q \in Seq(Entry)
  BY <1>2, <1>3, SeqMonotonic
<1> HIDE DEF q
<1>5. /\ next \in Entry \cup {NoEntry}
      /\ next # NoEntry => next \in top /\ \A e \in top : e = next \/ Precedes(e, next)
      /\ \A e \in rest : e \in top \/ (next # NoEntry /\ Precedes(next, e))
  BY <1>2, EntryFacts
<1> HIDE DEF next
<1>6. /\ R.snapshotId = n + 1 /\ R.at = now /\ R.ranked = q /\ R.next = next
      /\ R \in Ranking
  BY <1>4, <1>5 DEF Ranking, DbIsTyped
<1> HIDE DEF R
<1>7. h.filter = f /\ h.batchKey = key /\ h.ranking = R
  OBVIOUS
<1> HIDE DEF h
<1>8. All(R) = top
  BY <1>3, <1>6 DEF All, Upto
<1>9. Len(q) <= Cap /\ \A e \in top : Beyond(key, e)
  BY <1>1, <1>2, <1>3
<1>10. \A e \in Coarse(h.filter, h.batchKey) : e \in rest
  BY <1>7 DEF rest
<1>11. now <= now /\ n + 1 <= n + 1
  BY DEF DbIsTyped
<1>12. IsRanked(h, n + 1)
  BY <1>3, <1>5, <1>6, <1>7, <1>8, <1>9, <1>10, <1>11 DEF IsRanked
<1> QED BY <1>12 DEF h, R, next, q, top, rest

-----------------------------------------------------------------------------
(* What becomes of these facts when PostgreSQL changes.                    *)

\* Whoever is found, and did not change since some time up to now, was found
\* and had not changed since.
DbGoesOn ==
  /\ DbIsTyped' /\ now <= now'
  /\ \A f, key : \A t \in 0 .. now : \A e \in Coarse(f, key)' :
       changed'[e.id] <= t => e \in Coarse(f, key) /\ changed[e.id] <= t

LEMMA DbStays ==
  ASSUME DbIsTyped, UNCHANGED <<open, bound, changed, now>>
  PROVE  DbGoesOn
BY DEF DbIsTyped, DbGoesOn, Coarse

LEMMA DbTicks ==
  ASSUME DbIsTyped, NEW c \in Candidates, Tick(c), Change(c)
  PROVE  DbGoesOn
<1>1. /\ now \in Nat /\ now' = now + 1
      /\ changed' = [d \in Candidates |-> IF d = c THEN now + 1 ELSE changed[d]]
  BY DEF DbIsTyped, Tick
<1>6. changed' \in [Candidates -> Nat]
  BY <1>1 DEF DbIsTyped
<1>2. /\ open' \subseteq Candidates /\ \A d \in Candidates \ {c} : d \in open' => d \in open
  BY DEF DbIsTyped, Change
<1>3. bound' \in [Candidates -> 0 .. MaxBound] /\ \A d \in Candidates \ {c} : bound'[d] = bound[d]
  BY DEF DbIsTyped, Change
<1>4. DbIsTyped'
  BY <1>1, <1>2, <1>3, <1>6 DEF DbIsTyped
<1>5. ASSUME NEW f, NEW key, NEW t \in 0 .. now, NEW e \in Coarse(f, key)', changed'[e.id] <= t
      PROVE  e \in Coarse(f, key) /\ changed[e.id] <= t
  <2>1. PICK d \in open' \cap f : e = [id |-> d, bound |-> bound'[d]]
    BY <1>5 DEF Coarse
  <2>2. e.id = d /\ d \in Candidates /\ e.bound > 0 /\ Beyond(key, e)
    BY <1>2, <1>5, <2>1 DEF Coarse
  <2>3. d # c
    <3> SUFFICES ASSUME d = c PROVE FALSE
      OBVIOUS
    <3>1. changed'[e.id] = now + 1
      BY <1>1, <2>2
    <3> QED BY <1>1, <1>5, <3>1
  <2>4. changed'[d] = changed[d] /\ bound'[d] = bound[d] /\ d \in open
    BY <1>1, <1>2, <1>3, <2>2, <2>3
  <2> QED BY <1>5, <2>1, <2>2, <2>4 DEF Coarse
<1> QED BY <1>1, <1>4, <1>5 DEF DbGoesOn

LEMMA FactsSurvive ==
  ASSUME DbIsTyped, DbGoesOn
  PROVE  /\ \A h : \A n, m \in Nat : IsRanked(h, n) /\ n <= m => IsRanked(h, m)'
         /\ \A shown, f, key, examined : \A t \in 0 .. now :
              Told(shown, f, key, examined, t) => Told(shown, f, key, examined, t)'
<1>0. now \in Nat /\ now' \in Nat /\ now <= now'
  BY DEF DbIsTyped, DbGoesOn
<1>1. ASSUME NEW h, NEW n \in Nat, NEW m \in Nat, IsRanked(h, n), n <= m
      PROVE  IsRanked(h, m)'
  <2>1. h.ranking.at \in Nat /\ h.ranking.snapshotId \in Nat
    BY <1>1 DEF IsRanked, Ranking
  <2>2. h.ranking.at \in 0 .. now /\ h.ranking.at <= now' /\ h.ranking.snapshotId <= m
    BY <1>0, <1>1, <2>1 DEF IsRanked
  <2>3. ASSUME NEW e \in Coarse(h.filter, h.batchKey)', changed'[e.id] <= h.ranking.at
        PROVE  e \in Coarse(h.filter, h.batchKey) /\ changed[e.id] <= h.ranking.at
    BY <2>2, <2>3 DEF DbGoesOn
  <2> QED BY <1>1, <2>2, <2>3 DEF IsRanked
<1>2. ASSUME NEW shown, NEW f, NEW key, NEW examined, NEW t \in 0 .. now,
             Told(shown, f, key, examined, t)
      PROVE  Told(shown, f, key, examined, t)'
  <2>1. \A e \in Coarse(f, NoEntry)' :
          changed'[e.id] <= t => e \in Coarse(f, NoEntry) /\ changed[e.id] <= t
    BY DEF DbGoesOn
  <2> QED BY <1>2, <2>1 DEF Told, TurnCame
<1> QED BY <1>1, <1>2

-----------------------------------------------------------------------------
(* What a step leaves as it is.                                            *)

\* More tokens and rankings leave the types as they are.
LEMMA TypesGrow ==
  ASSUME NEW t \in Nat, NEW u \in Nat, t <= u, NEW m \in Nat, NEW n \in Nat, m <= n
  PROVE  /\ \A w : WalkIsTyped(w, t, m) => WalkIsTyped(w, u, n)
         /\ \A row : RowTypes(row, t, m) => RowTypes(row, u, n)
         /\ \A entries : CacheIsTyped(entries, t) => CacheIsTyped(entries, u)
<1>1. 1 .. t \subseteq 1 .. u /\ 1 .. m \subseteq 1 .. n
  OBVIOUS
<1>2. CursorOf(t, m) \subseteq CursorOf(u, n)
  BY <1>1 DEF CursorOf
<1> QED BY <1>1, <1>2 DEF WalkIsTyped, RowTypes, CacheIsTyped

\* No ranking is there that was not, except a new one under a new id.
NoOtherRanking(new) ==
  \/ Held' \subseteq Held
  \/ /\ Held' \subseteq Held \cup {new}
     /\ new.ranking.snapshotId = snapshots + 1 /\ IsRanked(new, snapshots)'

LEMMA RankingsStay ==
  ASSUME DbIsTyped, DbGoesOn, snapshots \in Nat, snapshots' \in Nat, snapshots <= snapshots',
         \A h \in Held : IsRanked(h, snapshots), SnapshotsAreUnique, NEW new, NoOtherRanking(new)
  PROVE  /\ \A h \in Held' : IsRanked(h, snapshots)'
         /\ SnapshotsAreUnique'
         /\ \A w : WalkIsTyped(w, minted, snapshots) /\ WalkIsTold(w) => WalkIsTold(w)'
<1>1. \A h \in Held : h.ranking.snapshotId \in Nat /\ h.ranking.snapshotId <= snapshots
                      /\ h.ranking.snapshotId # 0
  BY DEF IsRanked, Ranking
<1>2. \A h \in Held' : \/ h \in Held
                       \/ /\ h = new /\ h.ranking.snapshotId = snapshots + 1
                          /\ IsRanked(new, snapshots)'
  BY DEF NoOtherRanking
<1>3. \A h \in Held' : IsRanked(h, snapshots)'
  <2>1. \A h \in Held : IsRanked(h, snapshots)'
    BY FactsSurvive
  <2> QED BY <1>2, <2>1
<1>4. SnapshotsAreUnique'
  <2> SUFFICES ASSUME NEW g \in Held', NEW h \in Held',
                      g.ranking.snapshotId = h.ranking.snapshotId
               PROVE  g = h
    BY DEF SnapshotsAreUnique
  <2>1. g \in Held <=> h \in Held
    BY <1>1, <1>2
  <2> QED BY <1>2, <2>1 DEF SnapshotsAreUnique
<1>5. ASSUME NEW w, WalkIsTyped(w, minted, snapshots), WalkIsTold(w)
      PROVE  WalkIsTold(w)'
  <2>1. w.cursor.snapshotId \in 0 .. snapshots /\ w.oldest \in 0 .. now
    BY <1>5 DEF WalkIsTyped, CursorOf, NoCursor
  <2> SUFFICES ASSUME NEW h \in Held', h.ranking.snapshotId = w.cursor.snapshotId
               PROVE  /\ w.oldest <= h.ranking.at
                      /\ \A i \in 1 .. Len(h.ranking.ranked) :
                           h.ranking.ranked[i] = w.cursor.last =>
                             Told(w.shown, h.filter, h.batchKey, Upto(h.ranking, i), w.oldest)'
    BY DEF WalkIsTold
  <2>2. h \in Held
    BY <1>2, <2>1
  <2> QED BY <1>5, <2>1, <2>2, FactsSurvive DEF WalkIsTold
<1> QED BY <1>3, <1>4, <1>5

\* A step of one request, with what it made of its walk.
LEMMA RowMoves ==
  ASSUME Requests, WalkInv, NEW s \in Clients, NEW row, NEW w, NEW new, Step(s, row),
         walk' = [walk EXCEPT ![s] = w], NoOtherRanking(new),
         UNCHANGED <<open, bound, changed, now, mutation>>,
         minted' \in Nat, minted <= minted', generation' \in {NoToken, Legacy} \cup 1 .. minted',
         snapshots' \in Nat, snapshots <= snapshots', CacheIsTyped(cache', minted'),
         WalkIsTyped(w, minted', snapshots'), WalkIsTold(w)',
         RowTypes(row, minted', snapshots'), RowStages(row), Serves(row, w)
  PROVE  WalkInv'
<1>0. DbGoesOn /\ DbIsTyped /\ DbIsTyped' /\ now' = now /\ now \in Nat
  BY DbStays DEF WalkInv, DbGoesOn, DbIsTyped
<1>1. TokensAreTyped' /\ minted \in Nat /\ snapshots \in Nat
  BY DEF WalkInv, TokensAreTyped
<1>2. /\ \A h \in Held' : IsRanked(h, snapshots)'
      /\ SnapshotsAreUnique'
      /\ \A v : WalkIsTyped(v, minted, snapshots) /\ WalkIsTold(v) => WalkIsTold(v)'
  BY <1>0, <1>1, RankingsStay DEF WalkInv
<1>3. /\ request'[s] = row /\ walk'[s] = w /\ walk' = [t \in Clients |-> walk'[t]]
      /\ \A t \in Clients : t # s => request'[t] = request[t] /\ walk'[t] = walk[t]
  BY DEF Step, Requests, WalkInv
<1>4. ASSUME NEW v, NEW tokens, NEW rankings
      PROVE  WalkIsTyped(v, tokens, rankings)' <=> WalkIsTyped(v, tokens, rankings)
  BY <1>0 DEF WalkIsTyped
<1>5. ASSUME NEW r, NEW v PROVE Serves(r, v) => Serves(r, v)'
  <2>1. \A shown, f, key, examined, t :
          Told(shown, f, key, examined, t) => Told(shown, f, key, examined, t)'
    BY DEF Told, Coarse
  <2> QED BY <2>1 DEF Serves
<1>6. ASSUME NEW t \in Clients, NEW r, NEW v, r = request'[t], v = walk'[t]
      PROVE  /\ WalkIsTyped(v, minted', snapshots') /\ WalkIsTold(v)'
             /\ RowTypes(r, minted', snapshots') /\ RowStages(r) /\ Serves(r, v)
  <2>1. CASE t = s
    BY <1>3, <1>6, <2>1
  <2>2. CASE t # s
    <3>1. r = request[t] /\ v = walk[t]
      BY <1>3, <1>6, <2>2
    <3> QED BY <1>1, <1>2, <3>1, TypesGrow DEF WalkInv
  <2> QED BY <2>1, <2>2
<1>7. PICK tokens, rankings : tokens = minted' /\ rankings = snapshots'
  OBVIOUS
<1>8. CacheIsTyped(cache', tokens)
  BY <1>7
<1>9. ASSUME NEW t \in Clients, NEW r, NEW v, r = request'[t], v = walk'[t]
      PROVE  /\ WalkIsTyped(v, tokens, rankings)' /\ WalkIsTold(v)'
             /\ RowTypes(r, tokens, rankings) /\ RowStages(r) /\ Serves(r, v)'
  BY <1>4, <1>5, <1>6, <1>7, <1>9
<1> QED BY <1>0, <1>1, <1>2, <1>3, <1>7, <1>8, <1>9 DEF WalkInv

LEMMA OfFacts ==
  \A x : Of(x).filter = x.filter /\ Of(x).batchKey = x.batchKey /\ Of(x).ranking = x.ranking
BY DEF Of

LEMMA HeldFacts ==
  /\ \A e \in cache : Of(e) \in Held
  /\ \A t \in Clients : HasRanking(request[t]) => Of(request[t]) \in Held
  /\ \A h \in Held : \/ \E e \in cache : h = Of(e)
                     \/ \E t \in Clients : HasRanking(request[t]) /\ h = Of(request[t])
BY DEF Held

LEMMA HeldAfter ==
  ASSUME Requests, NEW s \in Clients, NEW row, Step(s, row), NEW H, Held \subseteq H,
         \A e \in cache' : Of(e) \in H, HasRanking(row) => Of(row) \in H
  PROVE  Held' \subseteq H
<1>1. request'[s] = row /\ \A t \in Clients : t # s => request'[t] = request[t]
  BY DEF Step, Requests
<1>2. ASSUME NEW h \in Held' PROVE h \in H
  <2>1. \/ \E e \in cache' : h = Of(e)
        \/ \E t \in Clients : HasRanking(request'[t]) /\ h = Of(request'[t])
    BY DEF Held, Of, HasRanking
  <2>2. ASSUME NEW t \in Clients, HasRanking(request'[t]), h = Of(request'[t]) PROVE h \in H
    BY <1>1, <2>2, HeldFacts
  <2> QED BY <2>1, <2>2
<1> QED BY <1>2

LEMMA TokensAfter ==
  ASSUME TokensAreTyped, TokenStep
  PROVE  /\ minted \in Nat /\ minted' \in Nat /\ minted <= minted'
         /\ generation' \in {NoToken, Legacy} \cup 1 .. minted'
         /\ snapshots \in Nat
BY DEF TokensAreTyped, TokenStep, NoToken, Legacy

\* A request goes on with no other ranking than there were.
LEMMA RowAndWalk ==
  ASSUME Requests, WalkInv, NEW s \in Clients, NEW row, Step(s, row), TokenStep,
         NEW w, walk' = [walk EXCEPT ![s] = w],
         WalkIsTyped(w, minted, snapshots), WalkIsTold(w),
         UNCHANGED <<open, bound, changed, now, mutation, snapshots>>,
         CacheIsTyped(cache', minted'), \A e \in cache' : Of(e) \in Held,
         HasRanking(row) => Of(row) \in Held,
         RowTypes(row, minted', snapshots), RowStages(row), Serves(row, w)
  PROVE  WalkInv'
<1>1. /\ minted \in Nat /\ minted' \in Nat /\ minted <= minted' /\ snapshots \in Nat
      /\ generation' \in {NoToken, Legacy} \cup 1 .. minted'
  BY TokensAfter DEF WalkInv
<1>2. Held' \subseteq Held
  BY HeldAfter
<1>3. \A new : NoOtherRanking(new)
  BY <1>2 DEF NoOtherRanking
<1>4. WalkIsTold(w)'
  <2>1. DbIsTyped /\ DbGoesOn /\ snapshots' \in Nat /\ snapshots <= snapshots'
    BY <1>1, DbStays DEF WalkInv
  <2> QED BY <1>3, <2>1, RankingsStay DEF WalkInv
<1>5. WalkIsTyped(w, minted', snapshots')
  BY <1>1, TypesGrow
<1>6. PICK new : NoOtherRanking(new)
  BY <1>3
<1>7. /\ snapshots' \in Nat /\ snapshots <= snapshots' /\ RowTypes(row, minted', snapshots')
      /\ UNCHANGED <<open, bound, changed, now, mutation>>
  BY <1>1
<1> QED BY <1>1, <1>4, <1>5, <1>6, <1>7, RowMoves

LEMMA CacheStays ==
  ASSUME WalkInv, TokenStep, cache' = cache
  PROVE  CacheIsTyped(cache', minted') /\ \A e \in cache' : Of(e) \in Held
<1>1. minted \in Nat /\ minted' \in Nat /\ minted <= minted'
  BY TokensAfter DEF WalkInv
<1> QED BY <1>1, TypesGrow, HeldFacts DEF WalkInv

\* Its walk and the cache are what they were.
LEMMA RowGoes ==
  ASSUME Requests, WalkInv, NEW s \in Clients, NEW row, Step(s, row), TokenStep,
         UNCHANGED <<walk, cache, open, bound, changed, now, mutation, snapshots>>,
         HasRanking(row) => Of(row) \in Held,
         RowTypes(row, minted', snapshots), RowStages(row), Serves(row, walk[s])
  PROVE  WalkInv'
<1>1. PICK w : w = walk[s]
  OBVIOUS
<1>2. walk' = [walk EXCEPT ![s] = w] /\ WalkIsTyped(w, minted, snapshots) /\ WalkIsTold(w)
  BY <1>1 DEF WalkInv
<1>3. Serves(row, w)
  BY <1>1
<1>4. CacheIsTyped(cache', minted') /\ \A e \in cache' : Of(e) \in Held
  BY CacheStays
<1> QED BY <1>2, <1>3, <1>4, RowAndWalk

LEMMA NoRequestFacts ==
  /\ \A t, n \in Nat : RowTypes(NoRequest, t, n)
  /\ RowStages(NoRequest) /\ ~HasRanking(NoRequest) /\ \A w : Serves(NoRequest, w)
<1>1. /\ NoRequest.stage = "idle" /\ NoRequest.selected = {} /\ NoRequest.position = 0
      /\ NoRequest.ranking = NoRanking /\ NoRequest.cursor = NoCursor
      /\ NoRequest.examined = NoEntry
  BY DEF NoRequest
<1>2. NoRanking.ranked = <<>> /\ Len(<<>>) = 0
  BY DEF NoRanking
<1>3. IsFiniteSet({}) /\ Cardinality({}) = 0 /\ Limit \in Nat
  BY FS_EmptySet, FeedAssumption
<1>4. \A t, n \in Nat : RowTypes(NoRequest, t, n)
  BY <1>1, <1>2, <1>3 DEF RowTypes, HasGeneration
<1> QED BY <1>1, <1>4 DEF RowStages, HasRanking, Serves, HasGeneration

LEMMA NoWalkFacts ==
  ASSUME DbIsTyped, \A h \in Held : IsRanked(h, snapshots)
  PROVE  /\ \A t, n \in Nat : WalkIsTyped(NoWalk, t, n)
         /\ WalkIsTold(NoWalk)
<1>1. NoWalk.cursor = NoCursor /\ NoWalk.shown = {} /\ NoWalk.oldest = 0 /\ NoCursor.snapshotId = 0
  BY DEF NoWalk, NoCursor
<1>2. \A h \in Held : h.ranking.snapshotId # 0
  BY DEF IsRanked, Ranking
<1> QED BY <1>1, <1>2 DEF WalkIsTyped, WalkIsTold, DbIsTyped

\* A request ends, and leaves its walk or ends it as well.
LEMMA RowEnds ==
  ASSUME Requests, WalkInv, NEW s \in Clients, Step(s, NoRequest), TokenStep,
         NEW w, walk' = [walk EXCEPT ![s] = w],
         WalkIsTyped(w, minted, snapshots), WalkIsTold(w),
         UNCHANGED <<cache, open, bound, changed, now, mutation, snapshots>>
  PROVE  WalkInv'
<1>1. minted' \in Nat /\ snapshots \in Nat
  BY TokensAfter DEF WalkInv
<1>2. RowTypes(NoRequest, minted', snapshots) /\ RowStages(NoRequest) /\ Serves(NoRequest, w)
      /\ ~HasRanking(NoRequest)
  BY <1>1, NoRequestFacts
<1>3. CacheIsTyped(cache', minted') /\ \A e \in cache' : Of(e) \in Held
  BY CacheStays
<1> QED BY <1>2, <1>3, RowAndWalk

\* The walk it leaves as it was.
LEMMA RowAborts ==
  ASSUME Requests, WalkInv, NEW s \in Clients, Step(s, NoRequest), TokenStep,
         UNCHANGED <<walk, cache, open, bound, changed, now, mutation, snapshots>>
  PROVE  WalkInv'
<1>1. PICK w : w = walk[s]
  OBVIOUS
<1>2. walk' = [walk EXCEPT ![s] = w] /\ WalkIsTyped(w, minted, snapshots) /\ WalkIsTold(w)
  BY <1>1 DEF WalkInv
<1> QED BY <1>2, RowEnds

LEMMA StaleWalk ==
  ASSUME Requests, WalkInv, NEW s \in Clients, Stale(s), TokenStep,
         UNCHANGED <<cache, open, bound, changed, now, mutation, snapshots>>
  PROVE  WalkInv'
<1>1. WalkIsTyped(NoWalk, minted, snapshots) /\ WalkIsTold(NoWalk)
  BY NoWalkFacts DEF WalkInv, TokensAreTyped
<1> QED BY <1>1, RowEnds DEF Stale

-----------------------------------------------------------------------------
(* A page goes on where the last one stopped.                              *)

LEMMA UptoFacts ==
  \A ranking : Upto(ranking, 0) = {}
BY DEF Upto

\* Nothing was shown and nobody's turn came.
LEMMA FreshTold == \A f, t : Told({}, f, NoEntry, {}, t)
BY DEF Told, TurnCame, Beyond

LEMMA ToldBefore ==
  ASSUME DbIsTyped, NEW shown, NEW f, NEW key, NEW examined, NEW t \in Int, NEW u \in Int,
         u <= t, Told(shown, f, key, examined, t)
  PROVE  Told(shown, f, key, examined, u)
<1>1. \A e \in Coarse(f, NoEntry) : changed[e.id] \in Int
  <2>1. \A e \in Coarse(f, NoEntry) : e.id \in Candidates
    BY DEF Coarse, DbIsTyped
  <2> QED BY <2>1 DEF DbIsTyped
<1>2. \A e \in Coarse(f, NoEntry) : changed[e.id] <= u => changed[e.id] <= t
  BY <1>1
<1> QED BY <1>2 DEF Told

\* The batch is used up: the next one goes on behind its last candidate.
LEMMA NextTold ==
  ASSUME DbIsTyped, NEW h, NEW n, IsRanked(h, n), h.ranking.next # NoEntry, NEW shown \in SUBSET Entry,
         NEW t \in 0 .. now, t <= h.ranking.at,
         Told(shown, h.filter, h.batchKey, All(h.ranking), t)
  PROVE  Told(shown, h.filter, h.ranking.next, {}, t)
<1> DEFINE R == h.ranking
           key == h.batchKey
           next == h.ranking.next
<1>1. /\ key \in Entry \cup {NoEntry} /\ next \in All(R) /\ next \in Entry /\ next # NoEntry
      /\ \A e \in All(R) : e = next \/ Precedes(e, next)
      /\ Beyond(key, next)
  BY DEF IsRanked, Ranking
<1>2. \A e \in Entry : ~Beyond(key, e) => ~Precedes(next, e)
  BY <1>1, PrecedesOrders DEF Beyond
<1>3. All(R) \subseteq Entry
  BY DEF IsRanked, Ranking, All, Upto
<1>4. \A e \in All(R) : ~Precedes(next, e)
  BY <1>1, <1>3, PrecedesOrders
<1>5. \A e : TurnCame(e, next, {}) <=> ~Precedes(next, e)
  BY <1>1 DEF TurnCame, Beyond
<1>6. ASSUME NEW e \in shown PROVE TurnCame(e, next, {})
  BY <1>2, <1>4, <1>5 DEF Told, TurnCame
<1>7. ASSUME NEW e \in Coarse(h.filter, NoEntry), changed[e.id] <= t, TurnCame(e, next, {})
      PROVE  e \in shown
  <2>1. e.id \in Candidates
    BY DEF Coarse, DbIsTyped
  <2>2. changed[e.id] \in Int /\ h.ranking.at \in Int /\ t \in Int
    BY <2>1 DEF DbIsTyped, IsRanked, Ranking
  <2>3. changed[e.id] <= h.ranking.at
    BY <1>7, <2>2
  <2>4. TurnCame(e, key, All(R))
    <3>1. CASE Beyond(key, e)
      <4>1. e \in Coarse(h.filter, key)
        BY <3>1 DEF Coarse
      <4>2. e \in All(R) \/ Precedes(next, e)
        BY <2>3, <4>1 DEF IsRanked
      <4> QED BY <1>5, <1>7, <4>2 DEF TurnCame
    <3> QED BY <3>1 DEF TurnCame
  <2> QED BY <1>7, <2>4 DEF Told
<1> QED BY <1>6, <1>7 DEF Told

\* A request that begins, or goes on, with a ranking and nothing selected yet.
LEMMA PageStarts ==
  ASSUME DbIsTyped, NEW row, IsRequest(row), NEW w, NEW tokens \in Nat, NEW rankings,
         RowTypes(row, tokens, rankings), HasGeneration(row), row.stage # "idle",
         row.selected = {}, row.examined = NoEntry,
         IF row.cursor = NoCursor THEN w = NoWalk ELSE w.cursor = row.cursor,
         row.cursor = NoCursor => row.batchKey = NoEntry,
         row.position = Len(row.ranking.ranked) => row.ranking.next = NoEntry,
         Told(w.shown, row.filter, row.batchKey, Upto(row.ranking, row.position),
              OldestOf(w, row.ranking))
  PROVE  /\ RowTypes(Paging(row), tokens, rankings) /\ RowStages(Paging(row))
         /\ Serves(Paging(row), w) /\ Of(Paging(row)) = Of(row)
<1> DEFINE new == Paging(row)
<1>0. Cardinality(row.selected) = 0 /\ Limit \in Nat \ {0}
  BY FS_EmptySet, FeedAssumption
<1>1. /\ IsRequest(new) /\ new.filter = row.filter /\ new.cursor = row.cursor
      /\ new.generation = row.generation /\ new.batchKey = row.batchKey
      /\ new.ranking = row.ranking /\ new.position = row.position
      /\ new.selected = row.selected /\ new.examined = row.examined
      /\ new.stage = IF row.position < Len(row.ranking.ranked) THEN "page" ELSE "reply"
  BY <1>0 DEF Paging, IsRequest, Fields
<1> HIDE DEF new
<1>2. row.filter \in Filters
  BY DEF RowTypes, NoRequest
<1>3. RowTypes(new, tokens, rankings)
  BY <1>0, <1>1, <1>2 DEF RowTypes, HasGeneration
<1>4. row.position \in 0 .. Len(row.ranking.ranked) /\ Len(row.ranking.ranked) \in Nat
  BY DEF RowTypes, Ranking, NoRanking
<1>5. new.stage = "reply" => new.position = Len(new.ranking.ranked)
  BY <1>1, <1>4
<1>6. RowStages(new)
  BY <1>0, <1>1, <1>5 DEF RowStages
<1>7. Serves(new, w)
  BY <1>1 DEF Serves, HasGeneration
<1>8. Of(new) = Of(row)
  BY <1>1 DEF Of
<1> QED BY <1>3, <1>6, <1>7, <1>8 DEF new

-----------------------------------------------------------------------------
(* The steps of a request.                                                 *)

\* What the invariant says of one request.
LEMMA OneRequest ==
  ASSUME Requests, WalkInv, NEW s \in Clients
  PROVE  /\ IsRequest(request[s]) /\ RowTypes(request[s], minted, snapshots)
         /\ RowStages(request[s]) /\ Serves(request[s], walk[s])
         /\ WalkIsTyped(walk[s], minted, snapshots) /\ WalkIsTold(walk[s])
         /\ DbIsTyped /\ minted \in Nat /\ snapshots \in Nat
         /\ \A h \in Held : IsRanked(h, snapshots)
BY DEF Requests, WalkInv, TokensAreTyped

LEMMA TypesAfter ==
  ASSUME WalkInv, TokenStep, NEW row, RowTypes(row, minted, snapshots)
  PROVE  RowTypes(row, minted', snapshots)
BY TokensAfter, TypesGrow DEF WalkInv

\* Until it knows its generation, a request has nothing but its cursor.
LEMMA GotoWalk ==
  ASSUME Requests, WalkInv, NEW s \in Clients, NEW stage, Goto(s, stage), TokenStep,
         UNCHANGED <<cache, open, bound, changed, now, mutation, snapshots>>,
         \/ /\ stage \in {"claim", "winner", "replace"}
            /\ request[s].stage \in {"current", "claim", "winner"}
         \/ stage = "rank" /\ request[s].stage = "lookup" /\ ~Resumed(s)
  PROVE  WalkInv'
<1> DEFINE old == request[s]
           row == [old EXCEPT !.stage = stage]
<1>1. Step(s, row) /\ walk' = walk
  BY DEF Goto
<1>2. /\ IsRequest(old) /\ RowTypes(old, minted, snapshots) /\ RowStages(old)
      /\ Serves(old, walk[s])
  BY OneRequest
<1>3. /\ row.stage = stage /\ row.filter = old.filter /\ row.cursor = old.cursor
      /\ row.generation = old.generation /\ row.batchKey = old.batchKey
      /\ row.ranking = old.ranking /\ row.position = old.position
      /\ row.selected = old.selected /\ row.examined = old.examined
  BY <1>2 DEF IsRequest, Fields
<1>4. \/ stage \in {"claim", "winner", "replace"} /\ old.stage \in {"current", "claim", "winner"}
      \/ stage = "rank" /\ old.stage = "lookup" /\ old.cursor = NoCursor
  BY DEF Resumed
<1> HIDE DEF row
<1>5. old.filter \in Filters /\ old.stage # "idle"
  BY <1>2, <1>4 DEF RowTypes, NoRequest
<1>6. RowTypes(row, minted, snapshots)
  BY <1>2, <1>3, <1>4, <1>5 DEF RowTypes, HasGeneration
<1>7. RowStages(row) /\ ~HasRanking(row)
  BY <1>2, <1>3, <1>4 DEF RowStages, HasRanking
<1>8. Serves(row, walk[s])
  <2>1. CASE stage # "rank"
    BY <1>2, <1>3, <1>4, <1>5, <2>1 DEF Serves, HasGeneration
  <2>2. CASE stage = "rank"
    <3>1. /\ row.cursor = NoCursor /\ walk[s] = NoWalk /\ row.batchKey = NoEntry
          /\ row.stage = "rank"
      BY <1>2, <1>3, <1>4, <1>5, <2>2 DEF Serves, HasGeneration
    <3>2. Told(walk[s].shown, row.filter, row.batchKey, {}, walk[s].oldest)
      BY <3>1, FreshTold DEF NoWalk
    <3> QED BY <3>1, <3>2 DEF Serves
  <2> QED BY <2>1, <2>2
<1> QED BY <1>1, <1>6, <1>7, <1>8, TypesAfter, RowGoes

\* The generation is known, and the batch of the cursor is next.
LEMMA ResolvedWalk ==
  ASSUME Requests, WalkInv, NEW s \in Clients, NEW token, Resolved(s, token), TokenStep,
         request[s].stage \in {"current", "claim", "winner", "replace"},
         token \in 1 .. minted',
         UNCHANGED <<cache, open, bound, changed, now, mutation, snapshots>>
  PROVE  WalkInv'
<1>1. CASE Stale(s)
  BY <1>1, StaleWalk
<1> DEFINE old == request[s]
           row == [old EXCEPT !.stage = "lookup", !.generation = token,
                              !.batchKey = old.cursor.batchKey]
<1>2. ASSUME Step(s, row), walk' = walk PROVE WalkInv'
  <2>1. /\ IsRequest(old) /\ RowTypes(old, minted, snapshots) /\ RowStages(old)
        /\ Serves(old, walk[s])
    BY OneRequest
  <2>2. /\ row.stage = "lookup" /\ row.filter = old.filter /\ row.cursor = old.cursor
        /\ row.generation = token /\ row.batchKey = old.cursor.batchKey
        /\ row.ranking = old.ranking /\ row.position = old.position
        /\ row.selected = old.selected /\ row.examined = old.examined
    BY <2>1 DEF IsRequest, Fields
  <2> HIDE DEF row
  <2>3. old.filter \in Filters /\ old.stage # "idle"
    BY <2>1 DEF RowTypes, NoRequest
  <2>4. row.batchKey \in Entry \cup {NoEntry} /\ (row.cursor = NoCursor => row.batchKey = NoEntry)
    BY <2>1, <2>2 DEF RowTypes, CursorOf, NoCursor
  <2>5. RowTypes(old, minted', snapshots)
    BY <2>1, TypesAfter
  <2>6. RowTypes(row, minted', snapshots)
    BY <2>2, <2>3, <2>4, <2>5 DEF RowTypes, HasGeneration
  <2>7. RowStages(row) /\ ~HasRanking(row)
    BY <2>1, <2>2 DEF RowStages, HasRanking
  <2>8. Serves(row, walk[s])
    BY <2>1, <2>2, <2>3, <2>4 DEF Serves, HasGeneration
  <2> QED BY <1>2, <2>6, <2>7, <2>8, RowGoes
<1> QED BY <1>1, <1>2 DEF Resolved

LEMMA TokenWalk ==
  ASSUME Requests, WalkInv, NEW s \in Clients,
         current(s) \/ setIfAbsent(s) \/ GetWinner(s) \/ Replacement(s)
  PROVE  WalkInv'
<1>1. /\ UNCHANGED <<cache, open, bound, changed, now, mutation, snapshots>>
      /\ request[s].stage \in {"current", "claim", "winner", "replace"}
  BY DEF current, setIfAbsent, GetWinner, Replacement, db, redis, Is
<1>2. CASE current(s) \/ GetWinner(s)
  <2>1. TokenStep
    BY <1>2 DEF current, GetWinner, redis, TokenStep
  <2>2. /\ request[s].stage \in {"current", "winner"}
        /\ \/ Resolved(s, generation) /\ isToken(generation)
           \/ Goto(s, "claim") \/ Goto(s, "replace")
    BY <1>2 DEF current, GetWinner, Is
  <2>3. isToken(generation) => generation \in 1 .. minted'
    BY <2>1, TokensAfter DEF WalkInv, TokensAreTyped, isToken, NoToken, Legacy, TokenStep
  <2> QED BY <1>1, <2>1, <2>2, <2>3, ResolvedWalk, GotoWalk
<1>3. CASE setIfAbsent(s) \/ Replacement(s)
  <2>1. TokenStep /\ minted' = minted + 1
    BY <1>3 DEF setIfAbsent, Replacement, TokenStep, Mint, replace, newToken, NoToken
  <2>2. \/ Resolved(s, minted + 1)
        \/ Goto(s, "winner") /\ request[s].stage = "claim"
    BY <1>3 DEF setIfAbsent, Replacement, newToken, Is
  <2>3. minted + 1 \in 1 .. minted'
    BY <2>1, TokensAfter DEF WalkInv
  <2> QED BY <1>1, <2>1, <2>2, <2>3, ResolvedWalk, GotoWalk
<1> QED BY <1>2, <1>3

\* A new request has the cursor of its walk, or starts a new one.
LEMMA BeginWalk ==
  ASSUME Requests, WalkInv, NEW s \in Clients, NEW f \in Filters, NEW resume \in BOOLEAN,
         Begin(s, f, resume)
  PROVE  WalkInv'
<1>1. PICK w : w = IF resume THEN walk[s] ELSE NoWalk
  OBVIOUS
<1> DEFINE row == [NoRequest EXCEPT !.stage = "current", !.filter = f, !.since = bumpedAt,
                     !.cursor = IF resume THEN walk[s].cursor ELSE NoCursor,
                     !.closed = Candidates \ open]
<1>2. /\ Step(s, row) /\ TokenStep
      /\ UNCHANGED <<cache, open, bound, changed, now, mutation, snapshots>>
      /\ resume => walk[s].cursor # NoCursor
  BY DEF Begin, TokenStep, db, redis, counters, history
<1>3. walk' = [walk EXCEPT ![s] = w]
  BY <1>1 DEF Begin, WalkInv
<1>4. WalkIsTyped(w, minted, snapshots) /\ WalkIsTold(w)
  BY <1>1, OneRequest, NoWalkFacts
<1>5. /\ row.stage = "current" /\ row.filter = f /\ row.position = 0 /\ row.selected = {}
      /\ row.ranking = NoRanking /\ row.examined = NoEntry
      /\ row.cursor = IF resume THEN walk[s].cursor ELSE NoCursor
  BY DEF NoRequest
<1> HIDE DEF row
<1>6. NoRanking.ranked = <<>> /\ Len(<<>>) = 0 /\ NoWalk.cursor = NoCursor
  BY DEF NoRanking, NoWalk
<1>7. IsFiniteSet({}) /\ Cardinality({}) = 0 /\ Limit \in Nat
  BY FS_EmptySet, FeedAssumption
<1>8. row.cursor = w.cursor /\ (row.cursor = NoCursor => w = NoWalk)
  BY <1>1, <1>2, <1>5, <1>6
<1>9. RowTypes(row, minted, snapshots)
  BY <1>4, <1>5, <1>6, <1>7, <1>8 DEF RowTypes, HasGeneration, WalkIsTyped
<1>10. RowStages(row) /\ ~HasRanking(row) /\ Serves(row, w)
  BY <1>5, <1>8 DEF RowStages, HasRanking, Serves, HasGeneration
<1> QED BY <1>2, <1>3, <1>4, <1>9, <1>10, TypesAfter, CacheStays, RowAndWalk

\* A ranking found under the key of a request is one there is, with its key.
LEMMA CachedIsHeld ==
  ASSUME NEW s \in Clients, NEW key, NEW e \in Cached(s, key)
  PROVE  /\ e \in cache /\ Of(e) \in Held
         /\ e.filter = request[s].filter /\ e.batchKey = key
BY HeldFacts DEF Cached

LEMMA LastBatch ==
  ASSUME NEW h, NEW n, IsRanked(h, n), Len(h.ranking.ranked) = 0
  PROVE  h.ranking.next = NoEntry
<1>1. All(h.ranking) = {}
  BY DEF All, Upto
<1> QED BY <1>1 DEF IsRanked

LEMMA OldestFacts ==
  \A w, ranking : w.oldest \in Nat /\ ranking.at \in Nat =>
    /\ OldestOf(w, ranking) \in Nat /\ OldestOf(w, ranking) <= ranking.at
    /\ w # NoWalk => OldestOf(w, ranking) <= w.oldest
    /\ w = NoWalk => OldestOf(w, ranking) = ranking.at
BY DEF OldestOf

\* A lookup that finds the ranking of its cursor stands where its walk stopped.
LEMMA LookupHit ==
  ASSUME Requests, WalkInv, NEW s \in Clients, Is(s, "lookup"), TokenStep,
         NEW e \in Cached(s, request[s].batchKey), SnapshotOf(s, e), Found(s, e.ranking),
         LET at == cursorPosition(s, e.ranking)
             row == [request[s] EXCEPT !.ranking = e.ranking, !.position = at]
         IN  Step(s, IF /\ Resumed(s) /\ at = Len(e.ranking.ranked)
                        /\ e.ranking.next # NoEntry
                     THEN [row EXCEPT !.stage = "next"]
                     ELSE Paging(row)),
         UNCHANGED <<walk, cache, open, bound, changed, now, mutation, snapshots>>
  PROVE  WalkInv'
<1> DEFINE old == request[s]
           w == walk[s]
           R == e.ranking
           at == cursorPosition(s, R)
           row == [old EXCEPT !.ranking = R, !.position = at]
           next == [row EXCEPT !.stage = "next"]
           used == Resumed(s) /\ at = Len(R.ranked) /\ R.next # NoEntry
<1>1. /\ IsRequest(old) /\ RowTypes(old, minted, snapshots) /\ RowStages(old)
      /\ Serves(old, w) /\ WalkIsTyped(w, minted, snapshots) /\ WalkIsTold(w)
      /\ DbIsTyped /\ minted \in Nat /\ old.stage = "lookup"
  BY OneRequest DEF Is
<1>2. /\ Of(e) \in Held /\ IsRanked(Of(e), snapshots) /\ Of(e).ranking = R
      /\ Of(e).filter = old.filter /\ Of(e).batchKey = old.batchKey
  BY OneRequest, CachedIsHeld, OfFacts
<1>3. R \in Ranking /\ R.at \in Nat /\ Len(R.ranked) \in Nat
  BY <1>2 DEF IsRanked, Ranking
<1>4. /\ at \in 0 .. Len(R.ranked)
      /\ Resumed(s) => at \in 1 .. Len(R.ranked) /\ R.ranked[at] = old.cursor.last
      /\ ~Resumed(s) => at = 0
  BY <1>3 DEF cursorPosition, Found
<1> HIDE DEF at
<1>5. /\ IsRequest(row) /\ row.stage = old.stage /\ row.filter = old.filter
      /\ row.cursor = old.cursor /\ row.generation = old.generation
      /\ row.batchKey = old.batchKey /\ row.ranking = R /\ row.position = at
      /\ row.selected = {} /\ row.examined = NoEntry
  BY <1>1 DEF IsRequest, Fields, RowStages
<1>6. /\ next.stage = "next" /\ next.filter = row.filter /\ next.cursor = row.cursor
      /\ next.generation = row.generation /\ next.batchKey = row.batchKey
      /\ next.ranking = R /\ next.position = at /\ next.selected = {} /\ next.examined = NoEntry
  BY <1>5 DEF IsRequest, Fields
<1>7. Step(s, IF used THEN next ELSE Paging(row))
  BY DEF at
<1> HIDE DEF row, next
<1>8. HasGeneration(old) /\ HasGeneration(row) /\ old.filter \in Filters
  BY <1>1, <1>5 DEF HasGeneration, RowTypes, NoRequest
<1>9. Of(row) = Of(e)
  BY <1>2, <1>5 DEF Of
<1>10. IF old.cursor = NoCursor THEN w = NoWalk /\ old.batchKey = NoEntry
                                ELSE w.cursor = old.cursor
  BY <1>1, <1>8 DEF Serves
<1>11. w.oldest \in 0 .. now /\ w.oldest \in Nat /\ NoWalk.cursor = NoCursor
  BY <1>1 DEF WalkIsTyped, DbIsTyped, NoWalk
<1>12. ASSUME Resumed(s)
       PROVE  /\ w.oldest <= R.at
              /\ Told(w.shown, old.filter, old.batchKey, Upto(R, at), w.oldest)
  <2>1. Of(e).ranking.snapshotId = w.cursor.snapshotId /\ R.ranked[at] = w.cursor.last
    BY <1>2, <1>4, <1>10, <1>12 DEF SnapshotOf, Resumed
  <2> QED BY <1>1, <1>2, <1>4, <1>12, <2>1 DEF WalkIsTold
<1>13. RowTypes(row, minted, snapshots)
  <2>1. IsFiniteSet({}) /\ Cardinality({}) = 0 /\ Limit \in Nat
    BY FS_EmptySet, FeedAssumption
  <2> QED BY <1>1, <1>3, <1>4, <1>5, <1>8, <2>1 DEF RowTypes
<1>14. CASE used
  <2>1. RowTypes(next, minted, snapshots)
    BY <1>1, <1>5, <1>6, <1>8, <1>13 DEF RowTypes, HasGeneration
  <2>2. RowStages(next)
    BY <1>5, <1>6, <1>14 DEF RowStages, Resumed
  <2>3. Upto(R, at) = All(R)
    BY <1>14 DEF All
  <2>4. Serves(next, w)
    BY <1>5, <1>6, <1>10, <1>12, <1>14, <2>3 DEF Serves, Resumed, HasGeneration
  <2>5. Of(next) \in Held
    BY <1>2, <1>5, <1>6, <1>9 DEF Of
  <2> QED BY <1>7, <1>14, <2>1, <2>2, <2>4, <2>5, TypesAfter, RowGoes
<1>15. CASE ~used
  <2>1. at = Len(R.ranked) => R.next = NoEntry
    <3>1. CASE Resumed(s)
      BY <1>15, <3>1
    <3>2. CASE ~Resumed(s)
      BY <1>2, <1>4, <3>2, LastBatch
    <3> QED BY <3>1, <3>2
  <2>2. Told(w.shown, row.filter, row.batchKey, Upto(R, at), OldestOf(w, R))
    <3>1. CASE Resumed(s)
      <4>1. w # NoWalk
        BY <1>10, <1>11, <3>1 DEF Resumed
      <4>2. OldestOf(w, R) \in Nat /\ OldestOf(w, R) <= w.oldest
        BY <1>3, <1>11, <4>1, OldestFacts
      <4> QED BY <1>1, <1>5, <1>11, <1>12, <3>1, <4>2, ToldBefore
    <3>2. CASE ~Resumed(s)
      <4>1. w.shown = {} /\ old.batchKey = NoEntry /\ Upto(R, at) = {}
        BY <1>4, <1>10, <3>2, UptoFacts DEF Resumed, NoWalk
      <4> QED BY <1>5, <4>1, FreshTold
    <3> QED BY <3>1, <3>2
  <2>3. /\ RowTypes(Paging(row), minted, snapshots) /\ RowStages(Paging(row))
        /\ Serves(Paging(row), w) /\ Of(Paging(row)) = Of(row)
    <3>1. row.stage # "idle" /\ (row.cursor = NoCursor => row.batchKey = NoEntry)
      BY <1>1, <1>5, <1>10
    <3>2. IF row.cursor = NoCursor THEN w = NoWalk ELSE w.cursor = row.cursor
      BY <1>5, <1>10
    <3> HIDE DEF w
    <3> QED BY <1>1, <1>5, <1>8, <1>13, <2>1, <2>2, <3>1, <3>2, PageStarts
  <2> QED BY <1>2, <1>7, <1>9, <1>15, <2>3, TypesAfter, RowGoes
<1> QED BY <1>14, <1>15

LEMMA LookupWalk ==
  ASSUME Requests, WalkInv, NEW s \in Clients, Lookup(s)
  PROVE  WalkInv'
<1>1. /\ Is(s, "lookup") /\ request[s].stage = "lookup" /\ TokenStep
      /\ UNCHANGED <<cache, open, bound, changed, now, mutation, snapshots>>
  BY DEF Lookup, Is, TokenStep, db, redis
<1>2. CASE Stale(s)
  BY <1>1, <1>2, StaleWalk
<1>3. CASE ~Resumed(s) /\ Goto(s, "rank")
  BY <1>1, <1>3, GotoWalk
<1>4. CASE ~(Stale(s) \/ (~Resumed(s) /\ Goto(s, "rank")))
  <2>1. PICK e \in Cached(s, request[s].batchKey) :
          /\ SnapshotOf(s, e) /\ Found(s, e.ranking) /\ walk' = walk
          /\ LET at == cursorPosition(s, e.ranking)
                 row == [request[s] EXCEPT !.ranking = e.ranking, !.position = at]
             IN  Step(s, IF /\ Resumed(s) /\ at = Len(e.ranking.ranked)
                            /\ e.ranking.next # NoEntry
                         THEN [row EXCEPT !.stage = "next"]
                         ELSE Paging(row))
    BY <1>4, Zenon DEF Lookup
  <2> QED BY <1>1, <2>1, LookupHit
<1> QED BY <1>2, <1>3, <1>4

\* The batch is used up: GET of the next, or a ranking of it.
LEMMA ContinueWalk ==
  ASSUME Requests, WalkInv, NEW s \in Clients, Continue(s)
  PROVE  WalkInv'
<1> DEFINE old == request[s]
           w == walk[s]
           key == old.ranking.next
           row == [old EXCEPT !.batchKey = key, !.position = 0]
           miss == [row EXCEPT !.stage = "rank"]
<1>1. /\ IsRequest(old) /\ RowTypes(old, minted, snapshots) /\ RowStages(old)
      /\ Serves(old, w) /\ WalkIsTyped(w, minted, snapshots)
      /\ DbIsTyped /\ minted \in Nat
  BY OneRequest
<1>2. old.stage = "next" /\ HasGeneration(old) /\ HasRanking(old) /\ TokenStep
      /\ UNCHANGED <<walk, cache, open, bound, changed, now, mutation, snapshots>>
  BY DEF Continue, Is, HasGeneration, HasRanking, TokenStep, db, redis
<1>3. \/ \E e \in Cached(s, key) : Step(s, Paging([row EXCEPT !.ranking = e.ranking]))
      \/ Step(s, miss)
  BY DEF Continue
<1>4. Of(old) \in Held /\ IsRanked(Of(old), snapshots)
  BY <1>2, HeldFacts, OneRequest
<1>5. old.ranking \in Ranking /\ key \in Entry /\ key # NoEntry /\ old.cursor # NoCursor
  BY <1>1, <1>2, <1>4, OfFacts DEF IsRanked, Ranking, RowStages
<1>6. /\ w.cursor = old.cursor /\ w.oldest <= old.ranking.at /\ w # NoWalk
      /\ Told(w.shown, old.filter, old.batchKey, All(old.ranking), w.oldest)
  BY <1>1, <1>2, <1>5 DEF Serves, NoWalk
<1>7. w.oldest \in 0 .. now /\ w.oldest \in Nat /\ w.shown \in SUBSET Entry
  BY <1>1 DEF WalkIsTyped, DbIsTyped
<1>8. Told(w.shown, old.filter, key, {}, w.oldest)
  <2>1. PICK h : h = Of(old)
    OBVIOUS
  <2>2. h.filter = old.filter /\ h.batchKey = old.batchKey /\ h.ranking = old.ranking
    BY <2>1, OfFacts
  <2>3. PICK shown, t : shown = w.shown /\ t = w.oldest
    OBVIOUS
  <2>4. Told(shown, h.filter, h.ranking.next, {}, t)
    BY <1>1, <1>4, <1>5, <1>6, <1>7, <2>1, <2>2, <2>3, NextTold
  <2> QED BY <2>2, <2>3, <2>4
<1>9. /\ IsRequest(row) /\ row.stage = "next" /\ row.filter = old.filter
      /\ row.cursor = old.cursor /\ row.generation = old.generation
      /\ row.batchKey = key /\ row.ranking = old.ranking /\ row.position = 0
      /\ row.selected = {} /\ row.examined = NoEntry
  BY <1>1, <1>2 DEF IsRequest, Fields, RowStages
<1> HIDE DEF row
<1>10. /\ old.filter \in Filters /\ IsFiniteSet({}) /\ Cardinality({}) = 0 /\ Limit \in Nat
  BY <1>1, <1>2, FS_EmptySet, FeedAssumption DEF RowTypes, NoRequest
<1>11. CASE Step(s, miss)
  <2>1. /\ miss.stage = "rank" /\ miss.filter = old.filter /\ miss.cursor = old.cursor
        /\ miss.generation = old.generation /\ miss.batchKey = key /\ miss.ranking = old.ranking
        /\ miss.position = 0 /\ miss.selected = {} /\ miss.examined = NoEntry
    BY <1>9 DEF IsRequest, Fields
  <2> HIDE DEF miss, key
  <2>2. RowTypes(miss, minted, snapshots)
    BY <1>1, <1>2, <1>5, <1>10, <2>1 DEF RowTypes, Ranking
  <2>3. RowStages(miss) /\ ~HasRanking(miss)
    BY <2>1 DEF RowStages, HasRanking
  <2>4. Serves(miss, w)
    BY <1>5, <1>6, <1>8, <2>1 DEF Serves, HasGeneration
  <2> QED BY <1>2, <1>11, <2>2, <2>3, <2>4, TypesAfter, RowGoes
<1>12. ASSUME NEW e \in Cached(s, key), Step(s, Paging([row EXCEPT !.ranking = e.ranking]))
       PROVE  WalkInv'
  <2> DEFINE found == [row EXCEPT !.ranking = e.ranking]
  <2>1. /\ IsRequest(found) /\ found.stage = "next" /\ found.filter = old.filter
        /\ found.cursor = old.cursor /\ found.generation = old.generation
        /\ found.batchKey = key /\ found.ranking = e.ranking /\ found.position = 0
        /\ found.selected = {} /\ found.examined = NoEntry
    BY <1>9 DEF IsRequest, Fields
  <2>2. Step(s, Paging(found))
    BY <1>12
  <2>3. e.ranking \in Ranking /\ e.ranking.at \in Nat /\ IsRanked(Of(e), snapshots)
        /\ Of(e) \in Held /\ Of(e) = Of(found)
    <3>1. Of(e) \in Held /\ e.filter = old.filter /\ e.batchKey = key
      BY CachedIsHeld
    <3>2. IsRanked(Of(e), snapshots)
      BY <3>1, OneRequest
    <3>3. Of(e) = Of(found)
      BY <2>1, <3>1 DEF Of
    <3> QED BY <3>1, <3>2, <3>3, OfFacts DEF IsRanked, Ranking
  <2> HIDE DEF found, key
  <2>4. RowTypes(found, minted, snapshots)
    BY <1>1, <1>2, <1>5, <1>10, <2>1, <2>3 DEF RowTypes, Ranking, HasGeneration
  <2>5. found.position = Len(found.ranking.ranked) => found.ranking.next = NoEntry
    BY <2>1, <2>3, LastBatch, OfFacts
  <2>6. OldestOf(w, found.ranking) \in Nat /\ OldestOf(w, found.ranking) <= w.oldest
    BY <1>6, <1>7, <2>1, <2>3, OldestFacts
  <2>7. Told(w.shown, found.filter, found.batchKey, Upto(found.ranking, found.position),
             OldestOf(w, found.ranking))
    <3>1. Upto(found.ranking, found.position) = {}
      BY <2>1, UptoFacts
    <3> QED BY <1>1, <1>7, <1>8, <2>1, <2>6, <3>1, ToldBefore
  <2>8. /\ HasGeneration(found) /\ found.stage # "idle"
        /\ IF found.cursor = NoCursor THEN w = NoWalk ELSE w.cursor = found.cursor
        /\ found.cursor = NoCursor => found.batchKey = NoEntry
    BY <1>5, <1>6, <2>1 DEF HasGeneration
  <2>9. /\ RowTypes(Paging(found), minted, snapshots) /\ RowStages(Paging(found))
        /\ Serves(Paging(found), w) /\ Of(Paging(found)) = Of(found)
    <3> HIDE DEF w
    <3> QED BY <1>1, <2>1, <2>4, <2>5, <2>7, <2>8, PageStarts
  <2> QED BY <1>2, <2>2, <2>3, <2>9, TypesAfter, RowGoes
<1> QED BY <1>3, <1>11, <1>12

\* A ranking made now, under an id of its own.
LEMMA GenerateWalk ==
  ASSUME Requests, WalkInv, NEW s \in Clients, generateRanking(s)
  PROVE  WalkInv'
<1> DEFINE old == request[s]
           rest == Coarse(old.filter, old.batchKey)
           ranking == [snapshotId |-> snapshots + 1, at |-> now,
                       ranked |-> sortByExactScore(Top(rest)),
                       next |-> IF Top(rest) = rest THEN NoEntry ELSE LastOf(Top(rest))]
           row == [old EXCEPT !.stage = "store", !.ranking = ranking]
<1>1. /\ IsRequest(old) /\ RowTypes(old, minted, snapshots) /\ RowStages(old)
      /\ Serves(old, walk[s]) /\ WalkIsTyped(walk[s], minted, snapshots) /\ WalkIsTold(walk[s])
      /\ DbIsTyped /\ minted \in Nat /\ snapshots \in Nat
  BY OneRequest
<1>2. /\ old.stage = "rank" /\ HasGeneration(old) /\ snapshots' = snapshots + 1
      /\ walk' = walk /\ cache' = cache /\ minted' = minted /\ generation' = generation
      /\ UNCHANGED <<open, bound, changed, now, mutation>>
  BY DEF generateRanking, Is, HasGeneration, db, redis
<1>3. Step(s, row)
  BY DEF generateRanking, Top, LastOf
<1>4. old.filter \in Filters /\ old.batchKey \in Entry \cup {NoEntry}
  BY <1>1, <1>2 DEF RowTypes, NoRequest
<1>5. IsRanked([filter |-> old.filter, batchKey |-> old.batchKey, ranking |-> ranking],
               snapshots + 1)
  BY <1>1, <1>4, NewRanking
<1>6. ranking.snapshotId = snapshots + 1
  OBVIOUS
<1> HIDE DEF ranking
<1>7. /\ IsRequest(row) /\ row.stage = "store" /\ row.filter = old.filter
      /\ row.cursor = old.cursor /\ row.generation = old.generation
      /\ row.batchKey = old.batchKey /\ row.ranking = ranking /\ row.position = 0
      /\ row.selected = {} /\ row.examined = NoEntry
  BY <1>1, <1>2 DEF IsRequest, Fields, RowStages
<1> HIDE DEF row
<1>8. Of(row) = [filter |-> old.filter, batchKey |-> old.batchKey, ranking |-> ranking]
  BY <1>7 DEF Of
<1>9. PICK new : new = Of(row)
  OBVIOUS
<1>10. PICK w : w = walk[s]
  OBVIOUS
<1>11. DbIsTyped /\ DbGoesOn /\ snapshots' \in Nat /\ snapshots <= snapshots'
  BY <1>1, <1>2, DbStays
<1>12. new.ranking = ranking /\ IsRanked(new, snapshots + 1) /\ IsRanked(new, snapshots)'
  <2>1. new.ranking = ranking /\ IsRanked(new, snapshots + 1)
    BY <1>5, <1>8, <1>9
  <2>2. PICK m \in Nat : m = snapshots + 1
    BY <1>1
  <2>3. IsRanked(new, m)'
    BY <1>11, <2>1, <2>2, FactsSurvive
  <2> QED BY <1>2, <2>1, <2>2, <2>3
<1>13. NoOtherRanking(new)
  <2>1. \A e \in cache' : Of(e) \in Held \cup {new}
    BY <1>2, HeldFacts
  <2>2. Held' \subseteq Held \cup {new}
    BY <1>3, <1>9, <2>1, HeldAfter
  <2> QED BY <1>6, <1>12, <2>2 DEF NoOtherRanking
<1>14. walk' = [walk EXCEPT ![s] = w]
  BY <1>2, <1>10 DEF WalkInv
<1>15. WalkIsTyped(w, minted', snapshots') /\ WalkIsTold(w)'
  <2>1. WalkIsTyped(w, minted, snapshots) /\ WalkIsTold(w)
    BY <1>1, <1>10
  <2>2. WalkIsTold(w)'
    BY <1>1, <1>11, <1>13, <2>1, RankingsStay DEF WalkInv
  <2> QED BY <1>1, <1>2, <1>11, <2>1, <2>2, TypesGrow
<1>16. CacheIsTyped(cache', minted') /\ generation' \in {NoToken, Legacy} \cup 1 .. minted'
  BY <1>2 DEF WalkInv, TokensAreTyped
<1>17. RowTypes(row, minted', snapshots') /\ RowStages(row) /\ Serves(row, w)
  <2>1. RowTypes(old, minted', snapshots')
    BY <1>1, <1>2, <1>11, TypesGrow
  <2>2. ranking \in Ranking /\ Len(ranking.ranked) \in Nat
    BY <1>12 DEF IsRanked, Ranking
  <2>3. IsFiniteSet({}) /\ Cardinality({}) = 0 /\ Limit \in Nat
    BY FS_EmptySet, FeedAssumption
  <2>4. RowTypes(row, minted', snapshots')
    BY <1>2, <1>4, <1>7, <2>1, <2>2, <2>3 DEF RowTypes
  <2>5. RowStages(row)
    BY <1>7 DEF RowStages
  <2>6. Serves(row, w)
    BY <1>1, <1>2, <1>7, <1>10 DEF Serves, HasGeneration
  <2> QED BY <2>4, <2>5, <2>6
<1>18. UNCHANGED <<open, bound, changed, now, mutation>> /\ minted' \in Nat /\ minted <= minted'
  BY <1>1, <1>2
<1> QED BY <1>3, <1>11, <1>13, <1>14, <1>15, <1>16, <1>17, <1>18, RowMoves

\* The key it is stored under holds no other ranking then.
LEMMA PutIsTyped ==
  ASSUME WalkInv, NEW s \in Clients, request[s].generation \in 1 .. minted
  PROVE  CacheIsTyped(put(s), minted)
<1> DEFINE new == [generation |-> request[s].generation, filter |-> request[s].filter,
                   batchKey |-> request[s].batchKey, ranking |-> request[s].ranking]
           key(e) == <<e.generation, e.filter, e.batchKey>>
<1>1. new.generation = request[s].generation /\ new.filter = request[s].filter
      /\ new.batchKey = request[s].batchKey
  OBVIOUS
<1>2. put(s) = (cache \ Cached(s, request[s].batchKey)) \cup {new}
  BY DEF put
<1> HIDE DEF new
<1>3. \A e \in cache : e \notin Cached(s, request[s].batchKey) => key(e) # key(new)
  BY <1>1 DEF Cached
<1> QED BY <1>1, <1>2, <1>3 DEF WalkInv, CacheIsTyped

LEMMA StoreWalk ==
  ASSUME Requests, WalkInv, NEW s \in Clients, Store(s)
  PROVE  WalkInv'
<1> DEFINE old == request[s]
<1>1. /\ IsRequest(old) /\ RowTypes(old, minted, snapshots) /\ RowStages(old)
      /\ Serves(old, walk[s]) /\ WalkIsTyped(walk[s], minted, snapshots) /\ WalkIsTold(walk[s])
      /\ DbIsTyped /\ minted \in Nat
  BY OneRequest
<1>2. /\ old.stage = "store" /\ HasGeneration(old) /\ HasRanking(old) /\ TokenStep
      /\ walk' = walk /\ cache' \in {cache, put(s)} /\ minted' = minted
      /\ UNCHANGED <<open, bound, changed, now, mutation, snapshots>>
      /\ Step(s, Paging(old))
  BY DEF Store, Is, HasGeneration, HasRanking, TokenStep, db
<1>3. Of(old) \in Held /\ IsRanked(Of(old), snapshots)
  BY <1>2, HeldFacts, OneRequest
<1>4. CacheIsTyped(cache', minted')
  BY <1>1, <1>2, PutIsTyped DEF RowTypes, WalkInv
<1>5. ASSUME NEW e \in cache' PROVE Of(e) \in Held
  <2>1. \/ e \in cache
        \/ e = [generation |-> old.generation, filter |-> old.filter,
                batchKey |-> old.batchKey, ranking |-> old.ranking]
    BY <1>2 DEF put
  <2>2. Of([generation |-> old.generation, filter |-> old.filter,
            batchKey |-> old.batchKey, ranking |-> old.ranking]) = Of(old)
    BY DEF Of
  <2> QED BY <1>3, <2>1, <2>2, HeldFacts
<1>6. PICK w : w = walk[s]
  OBVIOUS
<1>7. /\ walk' = [walk EXCEPT ![s] = w] /\ WalkIsTyped(w, minted, snapshots) /\ WalkIsTold(w)
      /\ w.oldest \in Nat /\ NoWalk.cursor = NoCursor
  BY <1>1, <1>2, <1>6 DEF WalkInv, WalkIsTyped, DbIsTyped, NoWalk
<1>8. /\ old.selected = {} /\ old.examined = NoEntry /\ old.position = 0
      /\ old.ranking.at \in Nat
      /\ IF old.cursor = NoCursor THEN w = NoWalk /\ old.batchKey = NoEntry
                                  ELSE w.cursor = old.cursor
      /\ Told(w.shown, old.filter, old.batchKey, {}, w.oldest)
  BY <1>1, <1>2, <1>3, <1>6, OfFacts DEF RowStages, Serves, IsRanked, Ranking
<1>9. Told(w.shown, old.filter, old.batchKey, Upto(old.ranking, old.position),
           OldestOf(w, old.ranking))
  <2>1. Upto(old.ranking, old.position) = {}
    BY <1>8, UptoFacts
  <2>2. CASE w = NoWalk
    <3>1. w.shown = {} /\ old.batchKey = NoEntry
      BY <1>7, <1>8, <2>2 DEF NoWalk
    <3> QED BY <2>1, <3>1, FreshTold
  <2>3. CASE w # NoWalk
    <3>1. OldestOf(w, old.ranking) \in Nat /\ OldestOf(w, old.ranking) <= w.oldest
      BY <1>7, <1>8, <2>3, OldestFacts
    <3> QED BY <1>1, <1>7, <1>8, <2>1, <3>1, ToldBefore
  <2> QED BY <2>2, <2>3
<1>10. old.position = Len(old.ranking.ranked) => old.ranking.next = NoEntry
  BY <1>3, <1>8, LastBatch, OfFacts
<1>11. /\ RowTypes(Paging(old), minted, snapshots) /\ RowStages(Paging(old))
       /\ Serves(Paging(old), w) /\ Of(Paging(old)) = Of(old)
  <2>1. old.stage # "idle"
    BY <1>2
  <2>2. IF old.cursor = NoCursor THEN w = NoWalk ELSE w.cursor = old.cursor
    BY <1>8
  <2>3. old.cursor = NoCursor => old.batchKey = NoEntry
    BY <1>8
  <2> HIDE DEF old
  <2> QED BY <1>1, <1>2, <1>8, <1>9, <1>10, <2>1, <2>2, <2>3, PageStarts
<1> QED BY <1>2, <1>3, <1>4, <1>5, <1>7, <1>11, TypesAfter, RowAndWalk

\* The candidates examined next are the ones behind those examined.
LEMMA BatchFacts ==
  ASSUME NEW ranking \in Ranking, NEW p \in Nat, NEW n \in Nat,
         p + n <= Len(ranking.ranked),
         \A i, j \in 1 .. Len(ranking.ranked) : ranking.ranked[i] = ranking.ranked[j] => i = j
  PROVE  LET batch == {ranking.ranked[i] : i \in p + 1 .. p + n}
         IN  /\ Upto(ranking, p + n) = Upto(ranking, p) \cup batch
             /\ batch \cap Upto(ranking, p) = {} /\ batch \subseteq All(ranking)
             /\ batch \subseteq Entry /\ IsFiniteSet(batch) /\ Cardinality(batch) <= n
<1> DEFINE q == ranking.ranked
           batch == {q[i] : i \in p + 1 .. p + n}
           f == [i \in p + 1 .. p + n |-> q[i]]
<1>1. q \in Seq(Entry) /\ Len(q) \in Nat /\ \A i \in 1 .. Len(q) : q[i] \in Entry
  BY DEF Ranking
<1>2. /\ \A i \in p + 1 .. p + n : i \in 1 .. Len(q) /\ i \in 1 .. p + n /\ i \notin 1 .. p
      /\ \A i \in 1 .. p : i \in 1 .. Len(q) /\ i \in 1 .. p + n
      /\ \A i \in 1 .. p + n : i \in 1 .. p \/ i \in p + 1 .. p + n
  BY <1>1
<1>3. \A b \in batch : \E i \in p + 1 .. p + n : b = q[i]
  OBVIOUS
<1>4. \A i \in p + 1 .. p + n : q[i] \in batch
  OBVIOUS
<1>5. f \in Surjection(p + 1 .. p + n, batch)
  BY <1>3, <1>4 DEF Surjection
<1>6. IsFiniteSet(p + 1 .. p + n) /\ Cardinality(p + 1 .. p + n) = n
  <2>1. p + 1 \in Int /\ p + n \in Int /\ (p + n) - (p + 1) + 1 = n
    OBVIOUS
  <2> QED BY <2>1, FS_Interval
<1>7. IsFiniteSet(batch) /\ Cardinality(batch) <= n
  BY <1>5, <1>6, FS_Surjection
<1> HIDE DEF batch, q
<1>8. Upto(ranking, p + n) = Upto(ranking, p) \cup batch
  BY <1>2, <1>3, <1>4 DEF Upto, q
<1>9. batch \cap Upto(ranking, p) = {}
  <2> SUFFICES ASSUME NEW b \in batch, NEW i \in 1 .. p, b = q[i] PROVE FALSE
    BY DEF Upto, q
  <2>1. PICK j \in p + 1 .. p + n : b = q[j]
    BY <1>3
  <2> QED BY <1>2, <2>1 DEF q
<1>10. batch \subseteq All(ranking) /\ batch \subseteq Entry
  BY <1>1, <1>2, <1>3 DEF All, Upto, q
<1> QED BY <1>7, <1>8, <1>9, <1>10 DEF batch, q

\* Whoever is examined and open is selected, and was not shown before.
ComesNext(batch, key, seen) == \A e \in batch : Beyond(key, e) /\ e \notin seen
Apart(shown, selected) == shown \cap selected = {}

LEMMA PagedTold ==
  ASSUME DbIsTyped, NEW f, NEW key, NEW seen, NEW batch, ComesNext(batch, key, seen),
         NEW shown, NEW selected, Apart(shown, selected), NEW t,
         Told(shown \cup selected, f, key, seen, t)
  PROVE  /\ Apart(shown, selected \cup Allowed(batch))
         /\ Told(shown \cup (selected \cup Allowed(batch)), f, key, seen \cup batch, t)
<1>1. \A e \in batch : e \notin shown
  BY DEF ComesNext, Told, TurnCame
<1>2. \A e \in Coarse(f, NoEntry) : e.id \in open
  BY DEF Coarse
<1> QED BY <1>1, <1>2 DEF Apart, Told, TurnCame, Allowed

\* A turn takes as many as are needed, or as are left.
LEMMA TurnSize ==
  ASSUME NEW p \in Nat, NEW length \in Nat, p < length,
         NEW c \in Nat, NEW limit \in Nat, c < limit
  PROVE  LET n == IF p + (limit - c) > length THEN length - p ELSE limit - c
         IN  n \in Nat /\ n # 0 /\ p + n <= length /\ c + n <= limit /\ p + n \in 1 .. length
OBVIOUS

LEMMA PageWalk ==
  ASSUME Requests, WalkInv, NEW s \in Clients, pageRanking(s)
  PROVE  WalkInv'
<1> DEFINE r == request[s]
           w == walk[s]
           q == r.ranking.ranked
           needed == Limit - Cardinality(r.selected)
           size == IF r.position + needed > Len(q) THEN Len(q) - r.position ELSE needed
           batch == {q[i] : i \in r.position + 1 .. r.position + size}
           row == [r EXCEPT !.selected = @ \cup Allowed(batch),
                            !.examined = q[r.position + size],
                            !.position = @ + size]
           new == Paging(row)
<1>1. /\ IsRequest(r) /\ RowTypes(r, minted, snapshots) /\ RowStages(r) /\ Serves(r, w)
      /\ DbIsTyped /\ minted \in Nat
  BY OneRequest
<1>2. /\ r.stage = "page" /\ HasGeneration(r) /\ HasRanking(r) /\ TokenStep
      /\ UNCHANGED <<walk, cache, open, bound, changed, now, mutation, snapshots>>
      /\ Step(s, new)
  BY DEF pageRanking, Is, HasGeneration, HasRanking, TokenStep, db, redis, counters
<1>3. Of(r) \in Held /\ IsRanked(Of(r), snapshots) /\ r.filter \in Filters
  BY <1>1, <1>2, HeldFacts, OneRequest DEF RowTypes, NoRequest
<1>4. /\ r.ranking \in Ranking /\ q \in Seq(Entry) /\ Len(q) \in Nat
      /\ \A i \in 1 .. Len(q) : q[i] \in Entry
      /\ \A i, j \in 1 .. Len(q) : q[i] = q[j] => i = j
      /\ \A e \in All(r.ranking) : Beyond(r.batchKey, e)
  BY <1>3, OfFacts DEF IsRanked, Ranking
<1>5. /\ r.position \in Nat /\ r.position < Len(q)
      /\ r.selected \subseteq Entry /\ IsFiniteSet(r.selected)
      /\ Cardinality(r.selected) \in Nat /\ Cardinality(r.selected) < Limit /\ Limit \in Nat
  BY <1>1, <1>2, FS_CardinalityType, FeedAssumption DEF RowTypes, RowStages
<1>6. /\ size \in Nat /\ size # 0 /\ r.position + size <= Len(q)
      /\ Cardinality(r.selected) + size <= Limit
      /\ r.position + size \in 1 .. Len(q)
  BY <1>4, <1>5, TurnSize
<1> HIDE DEF size
<1>7. /\ Upto(r.ranking, r.position + size) = Upto(r.ranking, r.position) \cup batch
      /\ batch \cap Upto(r.ranking, r.position) = {} /\ batch \subseteq All(r.ranking)
      /\ batch \subseteq Entry /\ IsFiniteSet(batch) /\ Cardinality(batch) <= size
  BY <1>4, <1>5, <1>6, BatchFacts
<1> HIDE DEF batch
<1>8. /\ Allowed(batch) \in SUBSET batch
      /\ IsFiniteSet(r.selected \cup Allowed(batch))
      /\ Cardinality(r.selected \cup Allowed(batch)) <= Limit
  <2>1. Allowed(batch) \in SUBSET batch
    BY DEF Allowed
  <2>2. IsFiniteSet(Allowed(batch)) /\ Cardinality(Allowed(batch)) <= Cardinality(batch)
    BY <1>7, <2>1, FS_Subset
  <2>3. Cardinality(Allowed(batch)) \in Nat /\ Cardinality(batch) \in Nat
    BY <1>7, <2>2, FS_CardinalityType
  <2>4. r.selected \cap Allowed(batch) \in SUBSET r.selected
    OBVIOUS
  <2>5. IsFiniteSet(r.selected \cap Allowed(batch))
    BY <1>5, <2>4, FS_Subset
  <2>6. Cardinality(r.selected \cap Allowed(batch)) \in Nat
    BY <2>5, FS_CardinalityType
  <2>7. /\ IsFiniteSet(r.selected \cup Allowed(batch))
        /\ Cardinality(r.selected \cup Allowed(batch)) =
             Cardinality(r.selected) + Cardinality(Allowed(batch))
               - Cardinality(r.selected \cap Allowed(batch))
    BY <1>5, <2>2, FS_Union
  <2> QED BY <1>5, <1>6, <1>7, <2>1, <2>2, <2>3, <2>6, <2>7
<1>9. /\ IsRequest(row) /\ row.stage = "page" /\ row.filter = r.filter /\ row.cursor = r.cursor
      /\ row.generation = r.generation /\ row.batchKey = r.batchKey
      /\ row.ranking = r.ranking /\ row.position = r.position + size
      /\ row.selected = r.selected \cup Allowed(batch)
      /\ row.examined = q[r.position + size]
  BY <1>1, <1>2 DEF IsRequest, Fields
<1> HIDE DEF row
<1>10. /\ new.filter = r.filter /\ new.cursor = r.cursor
       /\ new.generation = r.generation /\ new.batchKey = r.batchKey
       /\ new.ranking = r.ranking /\ new.position = r.position + size
       /\ new.selected = r.selected \cup Allowed(batch)
       /\ new.examined = q[r.position + size]
       /\ new.stage = IF /\ Cardinality(r.selected \cup Allowed(batch)) < Limit
                         /\ r.position + size < Len(q)
                      THEN "page" ELSE "reply"
  BY <1>9 DEF Paging, IsRequest, Fields
<1> HIDE DEF new
<1>11. RowTypes(new, minted, snapshots)
  <2>1. r.selected \cup Allowed(batch) \subseteq Entry
    BY <1>5, <1>7, <1>8
  <2>2. r.position + size \in 0 .. Len(q)
    BY <1>6
  <2> QED BY <1>1, <1>2, <1>3, <1>4, <1>8, <1>10, <2>1, <2>2 DEF RowTypes
<1>12. RowStages(new)
  <2>1. new.examined # NoEntry /\ new.position # 0
    <3>1. q[r.position + size] \in Entry
      BY <1>4, <1>6
    <3>2. r.position + size # 0
      BY <1>5, <1>6
    <3> QED BY <1>10, <3>1, <3>2, EntryFacts
  <2> QED BY <1>10, <2>1 DEF RowStages
<1>13. Serves(new, w)
  <2>1. /\ w.shown \cap r.selected = {}
        /\ Told(w.shown \cup r.selected, r.filter, r.batchKey,
                Upto(r.ranking, r.position), OldestOf(w, r.ranking))
        /\ IF r.cursor = NoCursor THEN w = NoWalk ELSE w.cursor = r.cursor
        /\ r.cursor = NoCursor => r.batchKey = NoEntry
    BY <1>1, <1>2 DEF Serves
  <2>2. ComesNext(batch, r.batchKey, Upto(r.ranking, r.position)) /\ Apart(w.shown, r.selected)
    BY <1>4, <1>7, <2>1 DEF ComesNext, Apart
  <2>3. /\ Apart(w.shown, r.selected \cup Allowed(batch))
        /\ Told(w.shown \cup (r.selected \cup Allowed(batch)), r.filter, r.batchKey,
                Upto(r.ranking, r.position) \cup batch, OldestOf(w, r.ranking))
    BY <1>1, <2>1, <2>2, PagedTold
  <2> HIDE DEF w
  <2> QED BY <1>7, <1>10, <2>1, <2>3 DEF Serves, Apart
<1>14. Of(new) \in Held
  <2>1. Of(new) = Of(r)
    BY <1>10 DEF Of
  <2> QED BY <1>3, <2>1
<1> QED BY <1>2, <1>11, <1>12, <1>13, <1>14, TypesAfter, RowGoes

\* The cursor of a page names the last candidate it examined.
LEMMA ReplyTold ==
  ASSUME Requests, WalkInv, NEW s \in Clients, Is(s, "reply"), nextCursor(s) # NoCursor,
         NEW w, w = [cursor |-> nextCursor(s), shown |-> ShownSoFar(s), oldest |-> Oldest(s)]
  PROVE  WalkIsTyped(w, minted, snapshots) /\ WalkIsTold(w)
<1> DEFINE r == request[s]
<1>1. /\ IsRequest(r) /\ RowTypes(r, minted, snapshots) /\ RowStages(r) /\ Serves(r, walk[s])
      /\ WalkIsTyped(walk[s], minted, snapshots)
      /\ DbIsTyped /\ minted \in Nat /\ snapshots \in Nat
  BY OneRequest
<1>2. r.stage = "reply" /\ HasGeneration(r) /\ HasRanking(r)
  BY DEF Is, HasGeneration, HasRanking
<1>3. Of(r) \in Held /\ IsRanked(Of(r), snapshots) /\ r.filter \in Filters
  BY <1>1, <1>2, HeldFacts, OneRequest DEF RowTypes, NoRequest
<1>4. /\ r.ranking \in Ranking /\ r.ranking.at \in 0 .. now
      /\ r.ranking.snapshotId \in 1 .. snapshots
      /\ \A i \in 1 .. Len(r.ranking.ranked) : r.ranking.ranked[i] \in Entry
      /\ \A i, j \in 1 .. Len(r.ranking.ranked) :
           r.ranking.ranked[i] = r.ranking.ranked[j] => i = j
  BY <1>1, <1>3, OfFacts DEF IsRanked, Ranking, DbIsTyped
<1>5. /\ w.cursor = [generation |-> r.generation, filter |-> r.filter, batchKey |-> r.batchKey,
                     snapshotId |-> r.ranking.snapshotId, last |-> r.examined]
      /\ r.examined # NoEntry
      /\ w.shown = walk[s].shown \cup r.selected /\ w.oldest = OldestOf(walk[s], r.ranking)
  BY DEF nextCursor, ShownSoFar, Oldest, OldestOf
<1>6. /\ r.position \in 1 .. Len(r.ranking.ranked)
      /\ r.examined = r.ranking.ranked[r.position] /\ r.examined \in Entry
  BY <1>1, <1>2, <1>4, <1>5 DEF RowTypes, RowStages
<1>7. WalkIsTyped(w, minted, snapshots)
  <2>1. w.cursor \in CursorOf(minted, snapshots) /\ w.cursor # NoCursor
    BY <1>1, <1>2, <1>3, <1>4, <1>5, <1>6 DEF RowTypes, CursorOf, NoCursor
  <2>2. w.shown \subseteq Entry
    BY <1>1, <1>5 DEF WalkIsTyped, RowTypes
  <2>3. walk[s].oldest \in 0 .. now /\ now \in Nat
    BY <1>1 DEF WalkIsTyped, DbIsTyped
  <2>4. w.oldest \in 0 .. now
    BY <1>4, <1>5, <2>3 DEF OldestOf
  <2> QED BY <2>1, <2>2, <2>4 DEF WalkIsTyped
<1>8. WalkIsTold(w)
  <2> SUFFICES ASSUME NEW h \in Held, h.ranking.snapshotId = w.cursor.snapshotId
               PROVE  /\ w.oldest <= h.ranking.at
                      /\ \A i \in 1 .. Len(h.ranking.ranked) :
                           h.ranking.ranked[i] = w.cursor.last =>
                             Told(w.shown, h.filter, h.batchKey, Upto(h.ranking, i), w.oldest)
    BY DEF WalkIsTold
  <2>1. w.cursor.snapshotId = r.ranking.snapshotId /\ w.cursor.last = r.examined
    BY <1>5
  <2>2. h = Of(r)
    BY <1>3, <2>1, OfFacts DEF WalkInv, SnapshotsAreUnique
  <2>3. h.filter = r.filter /\ h.batchKey = r.batchKey /\ h.ranking = r.ranking
    BY <2>2, OfFacts
  <2>4. w.oldest <= h.ranking.at
    <3>1. walk[s].oldest \in Nat /\ r.ranking.at \in Nat
      BY <1>1, <1>4 DEF WalkIsTyped, DbIsTyped
    <3> QED BY <1>5, <2>3, <3>1, OldestFacts
  <2>5. Told(w.shown, r.filter, r.batchKey, Upto(r.ranking, r.position), w.oldest)
    BY <1>1, <1>2, <1>5 DEF Serves
  <2>6. \A i \in 1 .. Len(h.ranking.ranked) :
          h.ranking.ranked[i] = w.cursor.last => i = r.position
    BY <1>4, <1>6, <2>1, <2>3
  <2> QED BY <2>3, <2>4, <2>5, <2>6
<1> QED BY <1>7, <1>8

LEMMA ReplyWalk ==
  ASSUME Requests, WalkInv, NEW s \in Clients, Reply(s)
  PROVE  WalkInv'
<1>1. /\ Is(s, "reply") /\ Step(s, NoRequest) /\ TokenStep
      /\ UNCHANGED <<cache, open, bound, changed, now, mutation, snapshots>>
  BY DEF Reply, TokenStep, db, redis, counters
<1>2. CASE walk' = walk
  BY <1>1, <1>2, RowAborts
<1>3. CASE walk' = [walk EXCEPT ![s] = NoWalk]
  <2>1. WalkIsTyped(NoWalk, minted, snapshots) /\ WalkIsTold(NoWalk)
    BY OneRequest, NoWalkFacts
  <2> QED BY <1>1, <1>3, <2>1, RowEnds
<1>4. ASSUME nextCursor(s) # NoCursor,
             walk' = [walk EXCEPT ![s] = [cursor |-> nextCursor(s), shown |-> ShownSoFar(s),
                                          oldest |-> Oldest(s)]]
      PROVE  WalkInv'
  <2>1. PICK w : w = [cursor |-> nextCursor(s), shown |-> ShownSoFar(s), oldest |-> Oldest(s)]
    OBVIOUS
  <2>2. WalkIsTyped(w, minted, snapshots) /\ WalkIsTold(w)
    BY <1>1, <1>4, <2>1, ReplyTold
  <2>3. walk' = [walk EXCEPT ![s] = w]
    BY <1>4, <2>1
  <2> QED BY <1>1, <2>2, <2>3, RowEnds
<1> QED BY <1>2, <1>3, <1>4 DEF Reply

-----------------------------------------------------------------------------
(* PostgreSQL, the bump and the losses of Redis.                           *)

LEMMA ServesOn ==
  ASSUME DbIsTyped, DbGoesOn, NEW r, NEW w, Serves(r, w), w.oldest \in 0 .. now,
         HasRanking(r) => r.ranking.at \in 0 .. now
  PROVE  Serves(r, w)'
<1>1. HasRanking(r) => OldestOf(w, r.ranking) \in 0 .. now
  BY DEF OldestOf
<1> QED BY <1>1, FactsSurvive DEF Serves, HasRanking

\* Every walk and every request stays, but for who is closed.
SameRow(new, old) ==
  /\ new.stage = old.stage /\ new.filter = old.filter /\ new.cursor = old.cursor
  /\ new.generation = old.generation /\ new.batchKey = old.batchKey
  /\ new.ranking = old.ranking /\ new.position = old.position
  /\ new.selected = old.selected /\ new.examined = old.examined
  /\ old = NoRequest => new = NoRequest

LEMMA WalksStay ==
  ASSUME Requests, WalkInv, DbGoesOn, walk' = walk, cache' \subseteq cache, snapshots' = snapshots,
         minted' \in Nat, minted <= minted', generation' \in {NoToken, Legacy} \cup 1 .. minted',
         mutation' \in {"none", "bump"}, \A t \in Clients : SameRow(request'[t], request[t])
  PROVE  WalkInv'
<1>1. /\ DbIsTyped /\ DbIsTyped' /\ now \in Nat /\ now' \in Nat /\ now <= now'
      /\ minted \in Nat /\ snapshots \in Nat /\ TokensAreTyped'
  BY DEF WalkInv, DbGoesOn, DbIsTyped, TokensAreTyped
<1>2. CacheIsTyped(cache', minted')
  <2>1. CacheIsTyped(cache', minted)
    BY DEF WalkInv, CacheIsTyped
  <2> QED BY <1>1, <2>1, TypesGrow
<1>3. Held' \subseteq Held
  <2> SUFFICES ASSUME NEW h \in Held' PROVE h \in Held
    OBVIOUS
  <2>1. \/ \E e \in cache' : h = Of(e)
        \/ \E t \in Clients : HasRanking(request'[t]) /\ h = Of(request'[t])
    BY DEF Held, Of, HasRanking
  <2>2. \A t \in Clients : /\ HasRanking(request'[t]) => HasRanking(request[t])
                           /\ Of(request'[t]) = Of(request[t])
    BY DEF SameRow, HasRanking, Of
  <2> QED BY <2>1, <2>2, HeldFacts
<1>4. PICK new : NoOtherRanking(new)
  BY <1>3 DEF NoOtherRanking
<1>5. /\ \A h \in Held' : IsRanked(h, snapshots)'
      /\ SnapshotsAreUnique'
      /\ \A v : WalkIsTyped(v, minted, snapshots) /\ WalkIsTold(v) => WalkIsTold(v)'
  <2>1. snapshots' \in Nat /\ snapshots <= snapshots'
    BY <1>1
  <2> QED BY <1>1, <1>4, <2>1, RankingsStay DEF WalkInv
<1>6. PICK tokens, rankings : tokens = minted' /\ rankings = snapshots'
  OBVIOUS
<1>7. ASSUME NEW t \in Clients, NEW r, NEW v, r = request'[t], v = walk'[t]
      PROVE  /\ WalkIsTyped(v, tokens, rankings)' /\ WalkIsTold(v)'
             /\ RowTypes(r, tokens, rankings) /\ RowStages(r) /\ Serves(r, v)'
  <2>1. PICK old : old = request[t]
    OBVIOUS
  <2>2. v = walk[t] /\ SameRow(r, old)
    BY <1>7, <2>1
  <2>3. /\ WalkIsTyped(v, minted, snapshots) /\ WalkIsTold(v)
        /\ RowTypes(old, minted, snapshots) /\ RowStages(old) /\ Serves(old, v)
    BY <2>1, <2>2, OneRequest
  <2>4. WalkIsTyped(v, tokens, rankings)
    BY <1>1, <1>6, <2>3, TypesGrow
  <2>5. WalkIsTyped(v, tokens, rankings)'
    BY <1>1, <2>4 DEF WalkIsTyped
  <2>6. RowTypes(old, tokens, rankings)
    BY <1>1, <1>6, <2>3, TypesGrow
  <2>7. RowTypes(r, tokens, rankings) /\ RowStages(r)
    BY <2>2, <2>3, <2>6 DEF SameRow, RowTypes, RowStages, HasGeneration
  <2>8. HasRanking(old) => old.ranking.at \in 0 .. now
    <3>1. HasRanking(old) => IsRanked(Of(old), snapshots)
      BY <2>1, HeldFacts, OneRequest
    <3> QED BY <1>1, <3>1, OfFacts DEF IsRanked, Ranking
  <2>9. Serves(old, v)'
    BY <1>1, <2>3, <2>8, ServesOn DEF WalkIsTyped
  <2>10. Serves(r, v)'
    BY <2>2, <2>9 DEF SameRow, Serves, HasGeneration
  <2> QED BY <1>5, <2>3, <2>5, <2>7, <2>10
<1>8. CacheIsTyped(cache', tokens)
  BY <1>2, <1>6
<1> QED BY <1>1, <1>5, <1>6, <1>7, <1>8 DEF WalkInv

LEMMA SameRowFacts ==
  ASSUME Requests, NEW t \in Clients
  PROVE  /\ SameRow(request[t], request[t])
         /\ \A c : SameRow([request[t] EXCEPT !.closed = @ \ {c}], request[t])
<1>1. IsRequest(request[t])
  BY DEF Requests
<1>2. IsRequest(NoRequest) /\ NoRequest.closed = {}
  BY DEF IsRequest, Fields, NoRequest
<1>3. ASSUME NEW c PROVE SameRow([request[t] EXCEPT !.closed = @ \ {c}], request[t])
  <2> DEFINE new == [request[t] EXCEPT !.closed = @ \ {c}]
  <2>1. /\ IsRequest(new) /\ new.closed = request[t].closed \ {c}
        /\ \A f \in Fields \ {"closed"} : new[f] = request[t][f]
    BY <1>1 DEF IsRequest, Fields
  <2> HIDE DEF new
  <2>2. /\ new.stage = request[t].stage /\ new.filter = request[t].filter
        /\ new.cursor = request[t].cursor /\ new.generation = request[t].generation
        /\ new.batchKey = request[t].batchKey /\ new.ranking = request[t].ranking
        /\ new.position = request[t].position /\ new.selected = request[t].selected
        /\ new.examined = request[t].examined
    BY <2>1 DEF Fields
  <2>3. ASSUME request[t] = NoRequest PROVE new = NoRequest
    <3>1. new.closed = NoRequest.closed
      BY <1>2, <2>1, <2>3
    <3>2. \A f \in Fields : new[f] = NoRequest[f]
      BY <2>1, <2>3, <3>1
    <3> QED BY <1>2, <2>1, <3>2 DEF IsRequest
  <2> QED BY <2>2, <2>3 DEF SameRow, new
<1> QED BY <1>3 DEF SameRow

LEMMA ChangeWalk ==
  ASSUME Requests, WalkInv, NEW c \in Candidates, OtherChanges(c) \/ ViewerCommits(c)
  PROVE  WalkInv'
<1>1. /\ Tick(c) /\ Change(c) /\ walk' = walk /\ cache' = cache /\ snapshots' = snapshots
      /\ minted' = minted /\ generation' = generation /\ mutation' \in {mutation, "bump"}
  BY DEF OtherChanges, ViewerCommits, redis, counters
<1>2. DbGoesOn
  BY <1>1, DbTicks DEF WalkInv
<1>3. /\ minted' \in Nat /\ minted <= minted' /\ mutation' \in {"none", "bump"}
      /\ generation' \in {NoToken, Legacy} \cup 1 .. minted'
  BY <1>1 DEF WalkInv, TokensAreTyped
<1>4. \A t \in Clients : request'[t] \in {request[t], [request[t] EXCEPT !.closed = @ \ {c}]}
  BY <1>1 DEF Change
<1>5. \A t \in Clients : SameRow(request'[t], request[t])
  BY <1>4, SameRowFacts
<1> QED BY <1>1, <1>2, <1>3, <1>5, WalksStay

LEMMA RedisWalk ==
  ASSUME Requests, WalkInv, request' = request, walk' = walk, cache' \subseteq cache,
         snapshots' = snapshots, mutation' \in {mutation, "none"},
         UNCHANGED <<open, bound, changed, now>>,
         TokenStep \/ (minted' = minted /\ generation' = NoToken)
  PROVE  WalkInv'
<1>1. /\ minted' \in Nat /\ minted <= minted' /\ mutation' \in {"none", "bump"}
      /\ generation' \in {NoToken, Legacy} \cup 1 .. minted'
  BY TokensAfter DEF WalkInv, TokensAreTyped
<1>2. DbGoesOn
  BY DbStays DEF WalkInv
<1> QED BY <1>1, <1>2, SameRowFacts, WalksStay

LEMMA BumpWalk ==
  ASSUME Requests, WalkInv, bump
  PROVE  WalkInv'
<1>1. /\ request' = request /\ walk' = walk /\ cache' = cache /\ snapshots' = snapshots
      /\ mutation' = "none" /\ UNCHANGED <<open, bound, changed, now>>
  BY DEF bump, db, redis, counters
<1>2. TokenStep
  BY DEF bump, Mint, replace, newToken, redis, counters, TokenStep
<1> QED BY <1>1, <1>2, RedisWalk

LEMMA WalkInit == Init => WalkInv
<1> SUFFICES ASSUME Init PROVE WalkInv
  OBVIOUS
<1>1. \A s \in Clients : request[s] = NoRequest /\ walk[s] = NoWalk
  BY DEF Init
<1>2. cache = {} /\ minted = 0 /\ snapshots = 0 /\ now = 0
  BY DEF Init
<1>3. Held = {}
  <2>1. ~HasRanking(NoRequest)
    BY NoRequestFacts
  <2> QED BY <1>1, <1>2, <2>1, HeldFacts
<1>4. DbIsTyped
  BY FeedAssumption DEF Init, DbIsTyped
<1>5. TokensAreTyped /\ CacheIsTyped(cache, minted) /\ walk = [s \in Clients |-> walk[s]]
  BY DEF Init, TokensAreTyped, CacheIsTyped
<1>6. \A h \in Held : IsRanked(h, snapshots)
  BY <1>3
<1>7. WalkIsTyped(NoWalk, minted, snapshots) /\ WalkIsTold(NoWalk)
  BY <1>2, <1>4, <1>6, NoWalkFacts
<1>8. RowTypes(NoRequest, minted, snapshots) /\ RowStages(NoRequest) /\ Serves(NoRequest, NoWalk)
  BY <1>2, NoRequestFacts
<1>9. SnapshotsAreUnique
  BY <1>3 DEF SnapshotsAreUnique
<1> QED BY <1>1, <1>4, <1>5, <1>6, <1>7, <1>8, <1>9 DEF WalkInv

LEMMA WalkNext == FeedInv /\ WalkInv /\ [Next]_vars => WalkInv'
<1> SUFFICES ASSUME Requests, WalkInv, [Next]_vars PROVE WalkInv'
  BY DEF FeedInv
<1>1. CASE UNCHANGED vars
  <2>1. /\ request' = request /\ walk' = walk /\ cache' = cache /\ snapshots' = snapshots
        /\ mutation' = mutation /\ TokenStep /\ UNCHANGED <<open, bound, changed, now>>
    BY <1>1 DEF vars, db, redis, counters, TokenStep
  <2> QED BY <2>1, RedisWalk
<1>2. CASE LoseGeneration \/ \E e \in cache : Expire(e)
  <2>1. /\ request' = request /\ walk' = walk /\ cache' \subseteq cache /\ snapshots' = snapshots
        /\ mutation' = mutation /\ UNCHANGED <<open, bound, changed, now>>
        /\ TokenStep \/ (minted' = minted /\ generation' = NoToken)
    BY <1>2 DEF LoseGeneration, Expire, db, counters, TokenStep
  <2> QED BY <2>1, RedisWalk
<1>3. ASSUME NEW s \in Clients, Abort(s) PROVE WalkInv'
  <2>1. /\ Step(s, NoRequest) /\ TokenStep
        /\ UNCHANGED <<walk, cache, open, bound, changed, now, mutation, snapshots>>
    BY <1>3 DEF Abort, TokenStep, db, redis, counters
  <2> QED BY <2>1, RowAborts
<1> QED BY <1>1, <1>2, <1>3, ChangeWalk, BumpWalk, BeginWalk, TokenWalk, LookupWalk, ContinueWalk,
           GenerateWalk, StoreWalk, PageWalk, ReplyWalk DEF Next

LEMMA WalkInvariance == Spec => []WalkInv
BY WalkInit, WalkNext, FeedInvariance, PTL DEF Spec

-----------------------------------------------------------------------------
\* When the last page arrives, everybody's turn has come.
LEMMA LastPage ==
  ASSUME Requests, WalkInv, NEW s \in Clients, Is(s, "reply"), nextCursor(s) = NoCursor
  PROVE  \A e \in Coarse(request[s].filter, NoEntry) :
           changed[e.id] <= Oldest(s) => e \in ShownSoFar(s)
<1> DEFINE r == request[s]
           w == walk[s]
<1>1. /\ RowTypes(r, minted, snapshots) /\ RowStages(r) /\ Serves(r, w)
      /\ WalkIsTyped(w, minted, snapshots) /\ DbIsTyped
  BY OneRequest
<1>2. r.stage = "reply" /\ HasRanking(r)
  BY DEF Is, HasRanking
<1>3. Of(r) \in Held /\ IsRanked(Of(r), snapshots)
  BY <1>2, HeldFacts, OneRequest
<1>4. r.ranking \in Ranking /\ r.ranking.at \in Nat /\ r.ranking.snapshotId # 0
  BY <1>3, OfFacts DEF IsRanked, Ranking
<1>5. r.examined = NoEntry \/ ~hasMore(s)
  BY <1>4 DEF nextCursor, NoCursor
<1>6. r.position = Len(r.ranking.ranked) /\ r.ranking.next = NoEntry
  <2>1. CASE ~hasMore(s)
    BY <1>1, <1>4, <2>1 DEF hasMore, RowTypes, Ranking
  <2>2. CASE r.examined = NoEntry
    BY <1>1, <1>2, <2>2 DEF RowStages
  <2> QED BY <1>5, <2>1, <2>2
<1>7. Told(ShownSoFar(s), r.filter, r.batchKey, All(r.ranking), Oldest(s))
  BY <1>1, <1>2, <1>6 DEF Serves, ShownSoFar, Oldest, OldestOf, All
<1>8. Oldest(s) \in Nat /\ Oldest(s) <= r.ranking.at
  BY <1>1, <1>4 DEF Oldest, WalkIsTyped, DbIsTyped
<1>9. ASSUME NEW e \in Coarse(r.filter, NoEntry), changed[e.id] <= Oldest(s)
      PROVE  TurnCame(e, r.batchKey, All(r.ranking))
  <2> SUFFICES ASSUME Beyond(r.batchKey, e) PROVE e \in All(r.ranking)
    BY DEF TurnCame
  <2>1. e \in Coarse(r.filter, r.batchKey)
    BY DEF Coarse
  <2>2. changed[e.id] \in Int
    BY <1>1 DEF Coarse, DbIsTyped
  <2>3. changed[e.id] <= r.ranking.at
    BY <1>4, <1>8, <1>9, <2>2
  <2> QED BY <1>3, <1>6, <2>1, <2>3, OfFacts DEF IsRanked
<1> QED BY <1>7, <1>9 DEF Told

\* The pages of a walk follow each other without a repetition and without a
\* gap, whichever rankings expired, were lost or made anew between them, and
\* however candidates and the viewer changed; and there is one ranking per key.
THEOREM PagesHoldTogether == Spec => []PagesAreSound
<1>1. Requests /\ WalkInv => TypeOK
  <2> SUFFICES ASSUME Requests, WalkInv PROVE TypeOK
    OBVIOUS
  <2>1. /\ open \subseteq Candidates /\ bound \in [Candidates -> 0 .. MaxBound]
        /\ mutation \in {"none", "bump"} /\ generation \in {NoToken, Legacy} \cup 1 .. minted
    BY DEF WalkInv, DbIsTyped, TokensAreTyped
  <2>2. ASSUME NEW e \in cache
        PROVE  /\ e.generation \in 1 .. minted /\ e.filter \in Filters
               /\ e.batchKey \in Entry \cup {NoEntry} /\ e.ranking \in Ranking
               /\ Len(e.ranking.ranked) <= Cap
               /\ \A d \in cache : e # d => <<e.generation, e.filter, e.batchKey>> #
                                            <<d.generation, d.filter, d.batchKey>>
    <3>1. IsRanked(Of(e), snapshots)
      BY HeldFacts DEF WalkInv
    <3>2. CacheIsTyped(cache, minted)
      BY DEF WalkInv
    <3> QED BY <3>1, <3>2, OfFacts DEF IsRanked, CacheIsTyped
  <2>3. Cursor = CursorOf(minted, snapshots)
    BY DEF Cursor, CursorOf
  <2>4. ASSUME NEW s \in Clients
        PROVE  /\ request[s] = NoRequest \/ request[s].filter \in Filters
               /\ request[s].cursor \in Cursor \cup {NoCursor}
               /\ request[s].ranking \in Ranking \cup {NoRanking}
               /\ request[s].position \in 0 .. Len(request[s].ranking.ranked)
               /\ request[s].selected \subseteq Entry /\ Cardinality(request[s].selected) <= Limit
               /\ walk[s].cursor \in Cursor \cup {NoCursor}
               /\ walk[s].shown \subseteq Entry
    BY <2>3, OneRequest DEF RowTypes, WalkIsTyped
  <2> QED BY <2>1, <2>2, <2>4 DEF TypeOK
<1>2. Requests /\ WalkInv => WalksAreExact
  <2> SUFFICES ASSUME Requests, WalkInv, NEW s \in Clients, Is(s, "reply")
               PROVE  /\ walk[s].shown \cap request[s].selected = {}
                      /\ nextCursor(s) = NoCursor =>
                           \A e \in Coarse(request[s].filter, NoEntry) :
                             changed[e.id] <= Oldest(s) => e \in ShownSoFar(s)
    BY DEF WalksAreExact
  <2>1. walk[s].shown \cap request[s].selected = {}
    BY OneRequest DEF Serves, Is
  <2> QED BY <2>1, LastPage
<1>3. FeedInv /\ WalkInv => PagesAreSound
  BY <1>1, <1>2 DEF PagesAreSound, FeedInv
<1> QED BY FeedInvariance, WalkInvariance, <1>3, PTL
=============================================================================
