# TLA+ models of the TripWith backend

TripWith is a NestJS service over PostgreSQL and Redis: travellers publish
trips, swipe and match, form groups around Events and chat. This directory
models the parts of `apps/api` whose correctness depends on the order of things
(transactions that compete for rows, messages that are sent again, timers and
processes that die) and the pure algorithms that answer a reader (ranking,
clustering, age). Paths below are relative to `src/apps/api/src/`.

## 1. The system

| Part | State | Operations | How it interacts |
|---|---|---|---|
| **Events** `events/events.service.ts` | a row of `events`: status, columns frozen after DRAFT, capacity, seat counters kept by triggers | create, update, publish, cancel | takes the `events` row `FOR UPDATE` |
| **Join requests** `events/join-requests.service.ts` | `event_join_requests` (decisions), `event_participants` (memberships) | create, cancel, approve/reject, approve with capacity override, leave, remove; lazy expiry after 24 h | same row lock; triggers move the counters; adds and removes chat members in the same transaction |
| **Event detail** `events/event-detail.service.ts` | none | derives relationship, button, group state and the lists of requests | must agree with what the commands accept |
| **Chat** `chat/` | `chat_rooms.last_seq`, `messages`, `chat_members` (left_at, last_read_seq) | send, history, sync, read state, broadcast, inbox, presence snapshot | senders lock the room row; a trigger numbers messages; the broadcast goes through the gateway after commit |
| **Swipes and matches** `swipes/` | `swipes`, `matches`, their rooms and members | one transaction per swipe | advisory lock on the pair; bumps the feed generation after commit |
| **Matching feed** `matching/` | cached rankings, generation tokens, cursors | page, continue, bump; coarse ranking in SQL, exact scores in the process | Redis is best effort, PostgreSQL revalidates each page |
| **Outbox and queue** `outbox/`, `queue/` | `job_outbox`; BullMQ jobs in Redis | enqueue in the caller's transaction, claim, publish, record or clear an error, process, acknowledge | the relay polls PostgreSQL, BullMQ hands jobs to workers, processors acknowledge in PostgreSQL |
| **Worker shutdown** `queue/`, `database/` | flags and timers in memory | stop the relay, drain the workers, close connections | each stage waits for the one before, up to a deadline |
| **Presence** `realtime/` | heartbeat timers and connection count in memory; three Redis keys per user | connect, disconnect, activity, heartbeat | fail-safe: a failed Redis command is logged and forgotten |
| **Readiness** `health/` | the probe in flight | check PostgreSQL and both Redis connections | requests share the probe |
| **Account** `auth/`, `users/` | `users`, `user_profiles`, `user_settings`, `user_consents`; `user_interests` and the array matching reads | provision, resolve, replace interests | unique keys decide races; triggers keep the array |
| **Consent and settings** `consent/`, `settings/` | decisions (append only), one settings row | decide, patch settings with Ghost Mode | enabling discovery needs the consents, a withdrawal disables it; settings bump the feed, consents do not |
| **Trips** `trips/` | a trip and its dense list of segments | create, edit, delete, insert, move | trip row lock |
| **Trust** `trust/` | reviews with a rating projection; traveller feedback | submit once per attended Event | reads memberships and Event times |
| **Explorer** `explorer/` | none | events of an area as pins, clusters or cards | read only |
| **Rest** | – | socket transport, observability, configuration, payments, mobile screens | see section 7 |

What is hard: two commands of one Event on its last seat; a decision that comes
after the expiry or the start; a rejoin on top of old rows; a client that
retries a send while the first attempt still runs; two users who like each
other at the same moment; a relay, a worker or Redis that dies between two
steps; a socket that goes while it authenticates or while its connection is being
recorded; consent withdrawn while discovery is being enabled; a trigger that writes what it read
before it had to wait; a shutdown while everything hangs. `hazards` in
`PROJECT.json` lists them at their lines with the properties that cover them.

What makes each part correct: seats, status, decisions, memberships and room of
an Event tell one story; a message is stored once, numbered without gap, emitted
once and found by every member who pages; mutual likes always make exactly one
match with one room; a committed action is never forgotten nor revived; a user
without a socket becomes OFFLINE and one with a socket is not taken for gone; a
feed that says it is exact is; nobody is discoverable without consent; no edit
of one's own data is lost to another device; a process that must stop does.

## 2. Modules

| Module | Models | Runs |
|---|---|---|
| `EventGroup` | one Event, its requests, memberships, counters and room | `event_group`, `event_stall` |
| `EventDetail` (extends it) | the derived views of the same rows | `event_group` |
| `Delivery` | the promise of the outbox: absent, committed, done or dead | refined by `Outbox` |
| `Outbox` | rows, relays, BullMQ and the worker slots, statement by statement | `outbox`, `outbox_at_most_once`, `outbox_redrive` |
| `Chat` | one room: sends, broadcasts, pages, read state, membership, inbox | `chat`, `chat_live` |
| `MatchingFeed` | tokens, cached rankings, cursors and requests of one viewer | `matching_feed` |
| `Presence` | sockets, timers, count and Redis records of one user | `presence`, `presence_zombie`, `processes` |
| `Shutdown` | the end of a worker process | `processes` |
| `Readiness` | requests and probes of `health/ready` | `processes` |
| `SwipeMatch` | the transactions of `SwipesRepository.persist` | `services` |
| `Candidates` | eligibility, bounds and scores of a batch, and what is exact | `services` |
| `Discovery` | settings, Ghost Mode and consents of one user | `services` |
| `Provisioning` | first requests of identities; the age rule | `services` |
| `Interests` | the selection of one user and its projection | `services` |
| `Trips` | one trip and its segments | `services` |
| `Reviews` | the reviews around one Event, and the rating | `services` |
| `Feedback` | one reviewer's answers about the members of one Event | `services` |
| `Explorer` | area queries, pins, clusters and cards | `services` |
| `EventGroupProofs`, `EventDetailProofs`, `OutboxProofs`, `SwipeMatchProofs`, `ChatProofs`, `MatchingFeedProofs` | theorems about the module of that name | TLAPS |
| `ServicesProofs` | theorems about `Interests`, `Feedback`, `Provisioning`, `Reviews`, `Discovery`, `Candidates`, `Explorer`, `Trips` | TLAPS |
| `ProcessesProofs` | theorems about `Shutdown`, `Presence`, `Readiness` | TLAPS |
| `MC*` | instances for TLC | |

`MCServices` and `MCProcesses` put independent parts side by side: a behaviour
picks a part and only its variables move (`Only`), so the states add up instead
of multiplying. Parts that do interact are one module (`EventGroup` has the chat
membership, `Chat` the broadcast, `Outbox` relay, queue and workers, `Discovery`
consents and settings). `MCExplorer` holds the map and its queries.

`map` in `PROJECT.json` gives the source lines of every definition. Operators
named `X_Something` above an operator `X` are plausible bugs of the code; each
property is broken by the one that `mutants` names.

### How the actions were cut

* **EventGroup.** Every command locks the `events` row first and holds it to
  COMMIT, so one command is one action, including the triggers and the chat
  membership it changes. The clock, the standing of accounts (`ok`), the
  Provider and the time a transaction waited before it got the lock (`TxWait`)
  are outside. CHECKs and unique indexes are *not* guards: that commands never
  run into them is the property `DatabaseBackstopIdle`. `EventDetail` derives the
  detail, a traveller's list of requests, the host's list and the public view.
* **Chat.** Membership changes take no lock on the room, therefore a send is
  cut into its statements; what it wrote appears at COMMIT. A page is a single
  statement that also authorizes, and so are the inbox and the presence
  snapshot. `visible` is a history variable.
* **SwipeMatch.** The same cut. Whether the two users are eligible is an input;
  `told`, the answers that arrived, is a history variable. Different pairs share
  nothing but room ids, so two users are enough. A writer that takes no lock is
  included because the code has a branch for it.
* **Outbox.** A statement of relay or processor is a step. Time is reduced to
  "the lease lapsed" and "became available". BullMQ is external and modelled
  from how the code uses it: job ids that collapse, retries, stalls, retention.
* **Presence.** A Redis command is a step (HSET and EXPIRE are one, the loop of
  HGETs is one). Time is reduced to `Lapse` (45 s without a renewal) and
  `GoAfk` (5 min). A timer that runs renews in time unless Redis failed.
  A client may go at any step, also while `handleConnection` waits for
  `authenticate` or for Redis; `wentAt` is history and remembers when. `client.join`
  is no step of its own: the adapter answers it from memory, so no disconnection
  comes between the user's id and the count.
* **MatchingFeed.** A Redis command or a query is a step. Of a candidate there
  remain whether it passes the checks a page is revalidated by (`open`), its upper
  bound (0: not anchored) and a given exact score. Tokens and snapshot ids are
  numbered as they are made, which is what "random and never used before" comes
  to. `CacheService` makes a failed GET a miss and a failed SET one that may have
  been done. The viewer makes one mutation at a time; that the viewer stays
  eligible while a page is built is assumed. Invalid cached values (other than
  old generation metadata) are not modelled, a miss stands for them. `now`,
  `changed`, `shown`, `oldest`, `since` and `closed` are history.
* **Candidates.** The other half of the feed, read by one client: the SQL of
  the upper bound and of eligibility, the scores of `scoring.ts` in fixed-point
  numbers chosen so that no division has a remainder, with places on a line.
  Eligibility is stated three times, as the code has it (the batch, the
  revalidation of a page, the swipe), and PostgreSQL may change between queries.
  A batch with nobody in it has its page too. `walked`, `moved` and
  `missed` are history: who earlier batches scored, who changed since the walk
  began, and the best exact score of who was left unscored without having moved
  above the cursor.
* **Discovery.** A statement is a step: the advisory locks of the consent types
  in the order the code sorts them, then the settings row. What a transaction wrote is seen at
  COMMIT; each decision is stamped by the clock at the statement. The optional
  consents decide nothing and are left out.
* **Provisioning.** The four inserts with ON CONFLICT are a step each; an insert
  waits for the open transaction that holds its key, and the unique keys decide.
  The several reads of the answer are one. Calendar days are yyyymmdd numbers.
* **Interests.** A replacement locks the profile row first. The statement of a
  trigger sees what was committed when it began, even if it then waits for the
  profile; the editor of the catalogue and the repair of an operator take no
  common lock. Drift is therefore possible, and what is stated is that it heals.
* **Trips.** Lock, then read and write back under the lock. What is asked for is
  chosen when the transaction decides, which nobody can tell apart.
* **Reviews.** The insert waits on the unique key; the trigger that recomputes
  the rating reads first and may write what it read after others committed. The
  moderators, any number of them, stand for the later phase the schema announces;
  a review is one moderator's at a time, as its row is locked.
* **Feedback.** Lock on the reviewer and the Event, then the Event, the members
  and the rows in the order of the code. The group is what join requests make of
  it: it moves before the start and never after.
* **Explorer.** Ninety degrees are `2^Bits` units, so cells of every zoom are
  whole numbers and the arithmetic is exact, as it is in binary floating point.
  The reach of a radius in degrees is an input, and so is how far the edge of
  the coarse filter, a great circle, bends towards the pole (`Edge`).
* **Shutdown.** Ticks, jobs, fetches and connections may hang at every point;
  time is reduced to the deadlines, each of which may pass once its timer runs.
  That `blockingConnection.disconnect`, `worker.close` after the drain and
  `queue.close` return is assumed, as the code gives them no deadline. The order
  in which NestJS destroys modules is external.
* **Readiness.** The queries of a probe are steps; a query may never be
  answered, and nobody cancels it.

## 3. What the runs check

Properties are conjunctions of named parts; the parts are in parentheses.

**`event_group`**: counters equal a recount of the rows, being APPROVED and
having a membership row go together for ever, room and group agree, and hidden,
paid and draft Events have no group (`GroupIsConsistent`: `CountersMatchRows`,
`MembershipFollowsApproval`, `ChatMatchesGroup`, `HiddenEventHasNoGroup`); FULL
means exactly that no seat is left (`StatusTellsOccupancy`); no command runs into
a constraint of the tables (`DatabaseBackstopIdle`); every added seat is explained
by override evidence (`OverridesExplainCapacity`); the view offers what a
command would do and shows what the rows justify (`DetailIsHonest`); decided rows
are never rewritten and nothing moves after the start (`HistoryIsFinal`).

**`outbox`**: claims are counted exactly and nobody holds work whose row was not
dispatched (`RowsAccountForWork`); acknowledged work is skipped when it is
delivered again (`RedeliveryIsSkipped`); the whole implements the safety of
`Delivery` (`DeliverySafety`), and every committed row ends (`EveryRowIsRetired`).

**`chat`**: one message and one emit per client id (`SentOnce`); numbers
1..last_seq in every committed state (`SeqIsGapless`); nothing that was sent after
a membership ended reaches the former member, by socket, page or inbox, until they
are a member again - who joins or rejoins may read what was sent before -, and
strangers get no presence snapshot (`NothingAfterMembership`); no holes
(`PagesHaveNoHoles`); read cursors never go back (`ReadCursorIsSound`). **`chat_live`**:
every request is answered (`SendsAreAnswered`), and a member who pages sees every
message whatever happened to its broadcast (`MembersCatchUp`).

**`presence`**: the connection count is never below the live authenticated
sockets, and above it by exactly those whose client went while it authenticated
(`GatewayIsConsistent`: `CountIsExplained`); a socket that goes, whenever, never
takes the others with it (`OthersKeepUserPresent`).

**`processes`**: after failed Redis commands the session of a client that went is
gone for good and the one of an open socket is found again (`PresenceSettles`).
The client may go at any time; the first half is about those that went once
`handleConnection` was done, as the timer of `presence_zombie` renews the session
of one that went before. Drain comes
before disconnect, and a job that is cut had its grace period
(`ShutdownSparesWork`); the process ends (`ShutdownEnds`); readiness has one
probe at a time, its yes is fresh, and it always answers (`ReadinessIsHonest`).

**`matching_feed`**: pages that follow each other neither repeat nor skip whoever
did not move meanwhile, though they may have been ranked at different times and
for different walks (`PagesAreSound`); after a successful bump no older ranking
is served (`FreshAfterBump`); who was closed before a request began and still is,
is not in its page, bump or no bump (`ClosedAreNotShown`).

**`services`**, one service at a time:

| Property | Says |
|---|---|
| `NoMissedMatch`, `OneMutualMatch`, `MatchesAreWhole` | two LIKEs always make exactly one match, with its room and two members, and one of the two hears of it |
| `ExactMeansExact` | a page that says `rankingExact`, also an empty one, misses nobody with a higher exact score, on it or before it, except who moved above the cursor of its batch since the walk began |
| `QueriesAgree` | whoever is shown can be swiped; the two computations of the bound differ only when rows changed in between |
| `DiscoveryIsHonest`, `OnlyNamedFieldsChange` | nobody is discoverable without consent, the owner is told what others see, and no settings update or Ghost interval is lost |
| `AccountsAreWhole`, `AgeRulesAgree` | one whole account per identity and true answers to racing requests; the check at registration and the constraint of the table agree about the eighteenth birthday on every day |
| `InterestsAgree` | the selection is one client's, never a union, and the array matching reads heals |
| `TripEditsAreSound` | dense order, segments inside the trip, nobody else's edit undone |
| `ReviewsAreSound` | at most one review each way, only after attending, and a rating that heals |
| `FeedbackIsSound` | stored whole and once, retries succeed, only about members, the list offers what a submission accepts |
| `MapTellsAll` | never more than the limit, clusters count every Event once, on both sides of the antimeridian |

Runs that end in a violation, each a disagreement with comments of the code:

* `event_stall`: `joined_at` defaults to the start of the transaction. A rejoin
  that waited for the row lock may be "older" than the cancelled row, and leave
  or remove then act on the wrong one (`join-requests.service.ts:344-349`).
* `outbox_at_most_once`: a retry between effect and acknowledgement applies the
  effect again (`infra-echo.processor.ts:22-23`, `:44`).
* `outbox_redrive`: a job BullMQ gave up stays under its id for 24 h, so every
  re-drive of its row collapses onto it (`queue.constants.ts:9-14`, `:31`).
* `presence_zombie`: a client that goes while `handleConnection` authenticates it is
  counted after its disconnection was handled (`realtime.gateway.ts:90`, `:103`)
  and then gets a heartbeat timer that nothing stops (`:106`), which keeps the user
  present. So neither "one heartbeat timer per currently-connected socket"
  (`realtime.gateway.ts:75`) nor the "count of currently-authenticated live sockets"
  (`connection-tracker.service.ts:4`) is what the code keeps; one trace shows both.

Seen while modelling, without a run of its own:

* a continuation batch is ranked from the rows of now and starts at the cursor of
  the batch before (`matching.service.ts:144`). Who rose above that cursor in
  between, which bumps only their own generation, is on neither batch, and the page
  may still say that it is exact (`:155`), where the design document
  (`2026-08-20-tripwith-phase-1-design.md:401`, `:409`) claims the bound for every
  unscored candidate and every page of a walk. `ExactMeansExact` covers everybody
  else;
* the rating trigger counts, waits for the provider row and writes what it counted,
  without a review that another transaction approved meanwhile. The schema says the
  projection "cannot drift" (`1787184000000-InitialSchema.up.sql:1422`);
  `ReviewsAreSound` says what holds: the next writer that runs alone heals it;
* a member who leaves after the membership check of a send still has the message
  committed; a dead outbox row may have been applied;
* the coarse filter of a wide Explorer viewport has great circles for edges, so
  it cuts Events near the equatorward edge (`explorer.repository.ts:489`), where
  the comments speak of a planar rectangle (`:449`) and of false positives only
  (`:477`): `MapTellsAll` therefore speaks of what the query finds, not of what
  lies in the box;
* the projected interests can drift when two writers without a common lock
  overlap; `InterestsAgree` states what holds, that the next writer that runs alone
  heals them;
* a job claimed while its worker's fetch is being interrupted is cut without a
  grace period (the `racing` case of `ShutdownSparesWork`);
* a hung probe keeps readiness red until PostgreSQL ends it, as it has no
  statement timeout: correct, but only PostgreSQL can end it.

## 4. Bounds

* `event_group`: two travellers, parties of one and two, eight configurations,
  clock 0..2 with a request lifetime of one: expiry before, at and after the
  start. Two requests of any kind, a third only on the Event where one party of
  two fits and another needs an override (`ThreeOnlyOnRejoin`): leave and rejoin
  next to another member. `MaxRequests`, `MaxTime`, `CapacityLimit` (5 instead of
  10 000, reached by overrides) and `TxWait` are the bounds.
* `outbox`: one action (rows share nothing but the size of a batch; the theorem
  covers any number), two relays and two slots, so that every race for the row
  and the job occurs; `MaxAttempts` and `BullAttempts` 2 instead of 10 and 5;
  `MaxEffects` only caps the counter; one Redis loss.
* `chat`: `Workload` explores four kinds of traffic, each with what it needs: two
  senders and a retry at the same time; a reader under a changing membership;
  three messages at page size 1 (middle pages, deletions on either side); two
  read-state updates over two messages. `chat_live` has two handlers, two ids and
  one reader and no constraint.
* `presence`: two sockets, one heartbeat or activity in flight at a time next to
  connects and disconnects, one command that fails while the other socket has
  not come (`FailsAlone`); once a client went while it was being connected, only
  the connections and disconnections of both sockets go on (`EarlyQuiet`).
  `processes`: one socket, which goes at any time, and two failures, so that
  neither the first nor the last record of it may be written. `presence_zombie`
  needs one socket and no failure.
* `processes`, shutdown: two queues with two jobs and a concurrency of two, so
  that one queue hangs while the other drains, and one job while another ends;
  readiness: two requests and three probes, so that a request meets the probe of
  another, and a probe that hangs meets a new request.
* `matching_feed`: three candidates, batches of two, pages of one, so that a walk
  has a middle of a batch, its end and a continuation, with a tie across the end.
  `Scenarios` divides the space: one device with three tokens, three rankings and
  a failed command while any candidate moves; two devices that race for the token
  and rank over each other; one device with two filters and a candidate that comes
  back. One change each is enough: the properties compare a before and an after.
* `services`: two requests of a service at a time (three for swipes, so that a
  retry overlaps both sides, with three rooms and a writer without the lock);
  symmetry permutes requests, users, members and interests. `ServicesLoad` limits
  what a state is about: settings with one of consents, Ghost Mode, ages, policy
  or account, and consents given anew under a new policy; one member that leaves
  or a cancelled Event; two of the four kinds of interest writers; two reviews at
  a time, posted or decided, which may be two decisions.
  Trips have three segments in three days. Accounts: two uids and two addresses
  that clash in either, one born on 29 February, days around the end of February
  2026 to 2028. Candidates: three out of five profiles, three viewers, three
  filters, batches of two, pages of one, one change of PostgreSQL between
  queries or batches. The map: seven Events on both sides of the antimeridian, at the
  poles and in one cell, boxes that wrap, and limits below and above what they hold.

`CHECK_DEADLOCK FALSE` is set where the system may stop: when the Event and the
clock have ended, every action is retired, all sockets are gone, the process has
exited, or a bound is spent. `chat` and `chat_live` are checked for deadlock.

## 5. Fairness

* `Outbox!LiveSpec`: relays poll on a timer that `scheduleNext` always renews,
  leases lapse and backoffs end. Nothing is asked of workers, BullMQ or Redis.
  `FairSpec` (for `outbox_redrive`) adds workers that go on.
* `Chat!LiveSpec`: a handler goes on; the row lock is granted strongly fairly,
  as PostgreSQL queues the waiters of a row; an open client keeps paging.
* `PresenceLiveSpec`: calls in flight and `authenticate` return (they may fail),
  intervals fire, scores age.
* `ShutdownSpec`: the code between two awaits goes on and timers fire. Nothing
  is asked of ticks, jobs, fetches, Redis or the pool: they may hang for ever.
* `ReadinessSpec`: the timers of `withTimeout` fire and a request that knows
  everything is answered. PostgreSQL and Redis owe nothing.

`ProcessesSpec` combines the last three, each for the behaviours of its part.

## 6. Proofs

TLAPS proves, for all values of the constants, 39 theorems in eight modules: every safety
property that a passing run checks is among them.
Each invariant below is inductive, and each of its conjuncts is there because
some step cannot be shown harmless without it. Rows are described as functions
of their fields (`IsRequest`, `IsPost`, `IsCall`, ...): types of single fields
are stated only where an argument needs them.

* `EventGroupProofs`. `TypeCorrect`, `OccupancyCorrect` (`StatusTellsOccupancy`)
  and `NeverOverbooked` (`SeatsWithinCapacity`) rest on `Typed /\ SeatsInv`, where
  `SeatsInv` adds `DraftHoldsHostParty` to them: publish sets a status from a
  capacity that was never compared with the seats, which is right only because a
  draft is a valid configuration whose seats are the host party.
  `GroupCorrect` (`GroupIsConsistent`), `BackstopsIdle` (`DatabaseBackstopIdle`) and
  `CapacityExplained` (`OverridesExplainCapacity`) rest on `CountsInv`.
  `GroupInv` ties rows to rows: approval and membership, members and chat
  members, one pending and one active row per user, and `PendingIsNoMember`, as
  an approval inserts a membership row on the word of a pending request alone.
  `EvidenceFollowsDecision` says that undecided rows carry no override evidence,
  or deciding one would count seats twice. `RecountInv` is the counters: recounts are
  the cardinalities of sets of seats (a seat is a row and a number), so that a
  party that comes or goes is a disjoint block of known size. With every active
  member re-counted the database's own arithmetic never differs from the rows.
  `HistoryKept` (`HistoryIsFinal`) is an action property and follows from `GroupInv`
  step by step.
* `EventDetailProofs`. `DetailCorrect` (`DetailIsHonest`). The view sees only the
  latest request of a user, so `ViewInv` says that rows are inserted in order, that a
  pending one is the latest of its user (`PendingIsLatest`), and that the capacity
  a request was inserted under explains why it was or was not approved at once
  (`SnapshotExplains`); the rest comes from `CountsInv`.
* `OutboxProofs`. `OutboxTypeCorrect`, and `OutboxImplementsDelivery`: every
  behaviour of `Outbox` is, under its mapping, a behaviour of `Delivery`'s safety
  part. The invariant beyond the types is `Grounded`: whoever holds an action (a
  relay's batch, a queue job, a handler) knows it from a committed row; a handler
  about to acknowledge and an acknowledged row have the effect behind them; and a
  row is never both completed and failed. Without the second conjunct an
  acknowledgement could not be mapped to `Delivery`'s acknowledge step.
  `WorkIsAccountedFor` (`RowsAccountForWork`) and `RedeliveryIsHarmless`
  (`RedeliveryIsSkipped`) need nothing else.
* `SwipeMatchProofs`. `SwipeTypeCorrect`, `MutualLikesMatch` (`NoMissedMatch`) and
  `MatchesAreUnique` (`OneMutualMatch`), with and without writers that take no
  lock. The invariant adds to the two properties that transactions past the lock
  have different pairs (`LockIsExclusive`), what a transaction knows by its stage
  (`Knows`: at the commit its swipe is stored or about to be, and either it saw no
  reciprocal LIKE or the pair has a match or gets its only one now), and that a
  match's key is the set of its users. The lock is what `Knows` rests on: without
  it the reciprocal LIKE could be committed after this transaction looked for it.
  `MatchesStayWhole` (`MatchesAreWhole`) rests on `RoomInv`: a room that a
  transaction inserted is its own until it commits (`OwnRoomsDiffer`), rooms and
  matches are one to one, and an answered LIKE is stored, so of two answers to a
  mutual pair the later transaction saw the earlier one's.
* `ChatProofs`. `MessagesAreSentOnce` (`SentOnce`), `NumbersHaveNoGaps`
  (`SeqIsGapless`), `MembersOnly` (`NothingAfterMembership`), `PagesFitTogether`
  (`PagesHaveNoHoles`) and `CursorsMoveForward` (`ReadCursorIsSound`) share
  `ChatInv`. `SendInv`: the room row is locked exactly by the sender inside its transaction,
  which therefore has the next number, and two broadcasts in flight are about
  different messages. `NumbersInv`: committed numbers are `1 .. lastSeq`, each
  with one message. `SightInv`: what reached a user, or is about to, was visible to
  them; `MembersOnly` adds that nothing becomes visible to who is no member
  (`OnlyMembersSeeMore`), so that together they say that what is sent meanwhile
  stays away. `CursorInv`: a snapshot taken for a read cursor is of a committed number.
  `WindowInv`: between the ends of a client's window nothing it could see is
  missing; deletions and missed broadcasts are why it is about visible numbers.
* `MatchingFeedProofs`. `BumpsAreRespected` (`FreshAfterBump`) and
  `ClosedStayHidden` (`ClosedAreNotShown`). The heart of `FeedInv` is that *being
  about to store* counts like being stored: nothing cached under the viewer's
  token, and nothing a request is about to cache under it, is older than the last
  successful bump (`TokenIsFresh`). A request that read its token before a bump
  may still store an old ranking, but under the old token; and what a request can
  find under the token it has is never older than the bump before it began
  (`FindsNothingOlder`). That tokens are minted once closes the argument.
  `PagesHoldTogether` (`PagesAreSound`) rests on `WalkInv`. A ranking, cached or in
  the hands of a request, lists nobody twice, is cut where its next batch begins
  and lacks nobody who has not changed since it was made (`IsRanked`). A snapshot id
  names one ranking (`SnapshotsAreUnique`), so a cursor either finds the ranking it
  was made from or starts its batch again. `Told` is the measure of progress: a
  candidate's turn came if it is not beyond the key of the batch or was examined in
  it; nobody else was shown, and whoever's turn came was shown if it is where it
  was when the oldest ranking of the walk was made. A walk says so up to its cursor
  (`WalkIsTold`), a request up to its position (`Serves`), and on the last page
  everybody's turn has come. That the rows of a batch can be listed in order
  (`Listing`) is shown without induction, by counting what comes before each row.
* `ServicesProofs`, one section for each service:
  * `SelectionAndProjectionAgree` (`InterestsAgree`), for any devices and
    interests: a replacement past the lock holds the profile, so what it deleted
    stays deleted until it inserts (`HoldsLock`); an editor or operator that is
    still alone has no other writer beside it (`AloneIsAlone`); and what it read is
    then still true when it writes (`ReadsHold`).
  * `FeedbackStaysSound` (`FeedbackIsSound`), for any group and submissions:
    one submission at a time is past the lock (`LockInv`), what is judged was sent
    (`BatchInv`), and a submission past the first check, or any stored row, means
    that the Event is over, so the group is settled for good (`GroupInv`).
  * `OneAccountEach` (`AccountsAreWhole`): a transaction that inserted its user
    excludes every other with its uid or address, one that could not has found
    who holds them, and an answer keeps being true (`ProvisionIsSound`,
    `UsersDiffer`). `OneAge` (`AgeRulesAgree`): for every pair of calendar days,
    subtracting eighteen years from today and adding them to the birthday order
    the two days alike, although only one of the two may meet a 29 February that
    is not there. `CalendarAssumption` says what days a calendar has.
  * `ReviewsStaySound` (`ReviewsAreSound`), for any posters and moderators: posters
    past the lock, and moderators, have different keys (`OwnKey`), a row that is written
    but not committed is the only one of its key, and as long as nothing overlapped a
    writer its trigger's count is what it will commit (`NothingOverlaps`, `CountHolds`).
    * `DiscoveryStaysHonest` (`DiscoveryIsHonest`) and `NoUpdateIsLost`
    (`OnlyNamedFieldsChange`). `LocksAreHeld` says for each request which advisory locks
    and which row its stage implies; `CallIsSound` that, holding them, what it read is
    still so: the consents it checked are granted, the settings it read are the stored
    ones but for a Ghost Mode that had expired (which, expired, stays expired), and the
    decision it stamped is later than the last. `LatestIsLast` then ties the row that
    counts to the last decision committed. * `ExactPagesAreExact` (`ExactMeansExact`)
    and `FeedAndSwipeAgree` (`QueriesAgree`), for any candidates, filters, batch and
    page size. That the two bounds are one number (`BoundsAgree`) is two maxima over the
    same pairs: stays that do not meet score nothing. No exact score is above it
    (`ScoreIsBounded`), as a mean is at most the best, so the row after the last one
    scored, which has the largest bound left (`NextRowLeads`), bounds everyone after the
    cursor without a score (`NextBoundsMissed`). And whoever the walk has not scored and
    who did not move is after the cursor (`WalkGoesOn`): the cursor is the last row of
    its batch (`LastRow`), the first rows come before all others (`FirstPrecedes`), and
    a change moves only who is then among the moved (`OthersFollowChange`). And a
    context that was loaded since the last change is the viewer's (`LoadedIsFresh`), so
    a request that fails for parity met a change. * `TheMapTellsAll` (`MapTellsAll`),
    for any events, queries and zoom. The invariant is short (`MapInv`: an answer is
    what `Markers` says of a valid query) and the work is in the operators. That
    clusters fit the limit is an injection: each event of the area has a cell inside the
    extent that is counted (`CellsAreCounted`), also across the antimeridian and at the
    poles, sizes of cells grow with the scale (`CellsGrow`), and at the coarsest there
    is one cell (`CoarsestIsOne`). That clusters lose nobody is a sum: the fold
    `MapThenSumSet` has a recursive equation, the equation has one solution by least
    counterexample (`SumsAgree`), and counting the parts of a set is one (`PartsAddUp`).
    * `TripEditsKeepTheList` (`TripEditsAreSound`), for any number of requests, segments
    and days. Whoever has read the segments holds the trip's row, so what it read is
    what there is (`TripsInv`); the rows are an itinerary, with their ids and sortOrders
    distinct and below their number (`IsItinerary`), hence, sorted, each is where its
    sortOrder says (`ListOfItinerary`). A command changes the list so that the others
    are in it as they were and in their order (`Rearranges`): one lemma for taking out,
    putting in and changing in place, and one for writing the index back
    (`ListKeepsOthers`). * `ProcessesProofs`: * `ShutdownIsOrderly`
    (`ShutdownSparesWork`), for any queues, jobs and concurrency: no tick can start once
    the process was told to stop and no worker pauses before the relay is done
    (`RelayInv`); intake, once off, has no fetch left unless pausing failed or a claim
    was under way (`RowIsSparing`); and what was cut belongs to a closed worker
    (`CutInv`). * `AnOpenSocketIsPresence` (`OthersKeepUserPresent`) and
    `TheCountIsExplained` (`GatewayIsConsistent`), for any finite set of sockets,
    whenever they go. `SocketsInv` says what the stage of `handleConnection`, the
    transport, the timer and the calls in flight of one socket have to do with each
    other: a disconnection in flight is of a socket that is gone for good, and without
    failures a recorded session of an open socket is in the index. The count is a
    recount of the sockets that are up or whose client went while it authenticated,
    which is why the history variable `wentAt` is needed: without it no invariant tells
    which are too many. * `ProbesAreSharedAndFresh`: the safety half of
    `ReadinessIsHonest`. Only the probe in flight runs, and a request never joins one
    that is over, so a "healthy" it knows was heard since it began.

Assumptions are the named ASSUMEs of the modules; TLC evaluates them. Those
that exist for a proof are that the sockets of a user, the candidates and their
segments, the events of the map and the ids of a trip's segments are finitely
many, that a stay does not end before it starts (`trip_segments_date_order_chk`),
that the days of the calendar are not in the gaps of yyyymmdd
(`CalendarAssumption`), that positions are longitudes and latitudes and a disk
spreads over at most 90 degrees of longitude each way, as the arcsine it comes
from (`PositionsAssumption`), and that no moderator is a poster.

What the proofs found: with a disk that reaches exactly as far as the envelope
counted for it, an event at longitude -180 would lie in a disk that ends at 180
and in no cell that is counted. The code cannot meet the case, because it measures
the envelope on a smaller Earth than there is (`CONSERVATIVE_EARTH_RADIUS_METERS`,
`explorer.repository.ts:46`); `withinRadius` therefore stops short of the reach.

Only model-checked: every liveness property (`EveryRowIsRetired`,
`SendsAreAnswered`, `MembersCatchUp`, `PresenceSettles`, `ShutdownEnds`, the last
line of `ReadinessIsHonest`), as fairness is out of the prover's reach. Of the
refinement of `Delivery` its safety is proved and its liveness is checked.

## 7. Not modelled

* The profile patch, one UPDATE of columns that do not depend on each other; the
  text of messages, reviews and Events, media, translations, places' details,
  titles and metadata of trips.
* Floating point and PostGIS distances: positions are grid points or points on a
  line. The order and the fields of cards and of inbox rooms and summaries.
* Reconnect policies of Redis and of the socket transport, which libraries
  carry out; the verification of a Firebase token (its result is an input).
* Observability, configuration and HTTP plumbing: no state that an order of
  steps could spoil.
* Payments, providers and safety reports are tables without a service. Mobile
  is placeholder screens.

`components` in `PROJECT.json` has the full list; `hazards` without a property
say why.

## 8. Plan

1. Done: all modules of section 2 with their runs, and the theorems of section 6.
2. Proofs left: none of the safety properties that a passing run checks. The
   liveness properties stay with TLC, for the reason of section 6.
3. Models left: two hazards have no property, and their notes in `PROJECT.json`
   say why (the order in which two processes broadcast a presence state, and the
   great circles in front of a wide viewport).
