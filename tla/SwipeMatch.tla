----------------------------- MODULE SwipeMatch -----------------------------
(***************************************************************************)
(* Swipes and the matches they lead to (SwipesRepository.persist).         *)
(*                                                                         *)
(* A request is one transaction, modelled statement by statement: it takes *)
(* an advisory lock on the unordered pair, stores or finds its swipe, looks*)
(* for the reciprocal LIKE and finds or creates the match with its chat    *)
(* room and members.  What it wrote is visible to others once it commits.  *)
(* A writer that does not take the lock may create the match of a pair at  *)
(* any moment.  Whether the two users are eligible is an input.            *)
(***************************************************************************)
EXTENDS FiniteSets

CONSTANTS
  Users,       \* accounts
  Handlers,    \* POST swipes requests being served at a time
  Rooms,       \* ids chat_rooms may get
  NoUser, NoRoom,
  Foreign      \* TRUE: writers that do not cooperate exist

ASSUME SwipeAssumption ==
  /\ NoUser \notin Users
  /\ NoRoom \notin Rooms
  /\ Foreign \in BOOLEAN

VARIABLES
  swipes,      \* the committed rows of swipes
  matches,     \* the committed rows of matches
  rooms,       \* the committed rows of chat_rooms, type MATCH
  members,     \* the committed rows of chat_members
  tx,          \* the transaction each handler is in
  told         \* history: the answers that reached a user

vars == <<swipes, matches, rooms, members, tx, told>>

tables == <<swipes, matches, rooms, members>>

Directions == {"LIKE", "PASS"}

Swipe(u, v, d) == [source |-> u, target |-> v, direction |-> d]

\* room: the match's room, this transaction's own one if isNew; spare: rooms
\* it inserted and no longer uses; swiped, matched: it inserted the row.
NoTx == [stage |-> "idle", source |-> NoUser, target |-> NoUser, direction |-> "PASS",
         swiped |-> FALSE, matched |-> FALSE, room |-> NoRoom, spare |-> {}]

Is(s, stage) == tx[s].stage = stage
Step(s, row) == tx' = [tx EXCEPT ![s] = row]
Goto(s, stage) == Step(s, [tx[s] EXCEPT !.stage = stage])

\* Lock key and UNIQUE key are made of LEAST and GREATEST of the two.
canonicalPair(u, v) == {u, v}

Pair(s) == canonicalPair(tx[s].source, tx[s].target)

MatchOf(pair) == {m \in matches : m.pair = pair}

-----------------------------------------------------------------------------
(* POST /v1/swipes.                                                        *)

Request(s, u, v, d) ==
  /\ Is(s, "idle") /\ u # v
  /\ Step(s, [NoTx EXCEPT !.stage = "lock", !.source = u, !.target = v, !.direction = d])
  /\ UNCHANGED <<tables, told>>

\* Mutant: no lock, the constraints are to do it.
LockFree_Always(s) == TRUE

\* Nobody else holds the pair's lock until its transaction ends.
LockFree(s) ==
  \A t \in Handlers \ {s} : tx[t].stage \notin {"idle", "lock"} => Pair(t) # Pair(s)

AcquireLock(s) ==
  /\ Is(s, "lock") /\ LockFree(s)
  /\ Goto(s, "swipe")
  /\ UNCHANGED <<tables, told>>

Stored(s) == {w \in swipes : w.source = tx[s].source /\ w.target = tx[s].target}

\* A refusal (not eligible, or swiped the other way before) rolls back.
Refuse(s) ==
  /\ Is(s, "swipe")
  /\ Step(s, NoTx)
  /\ UNCHANGED <<tables, told>>

\* INSERT ... ON CONFLICT DO NOTHING, which waits for whoever is inserting the
\* same key; then the stored row decides.
insertOrResolveSwipe(s) ==
  /\ Is(s, "swipe")
  /\ \A t \in Handlers \ {s} :
       ~(tx[t].swiped /\ tx[t].source = tx[s].source /\ tx[t].target = tx[s].target)
  /\ \A w \in Stored(s) : w.direction = tx[s].direction
  /\ Step(s, [tx[s] EXCEPT !.stage = "reciprocal", !.swiped = Stored(s) = {}])
  /\ UNCHANGED <<tables, told>>

\* Mutant: any swipe back counts.
Reciprocal_Any(s) ==
  tx[s].direction = "LIKE" /\ \E w \in swipes : w.source = tx[s].target /\ w.target = tx[s].source

Reciprocal(s) ==
  tx[s].direction = "LIKE" /\ Swipe(tx[s].target, tx[s].source, "LIKE") \in swipes

CheckReciprocal(s) ==
  /\ Is(s, "reciprocal")
  /\ IF Reciprocal(s) THEN Goto(s, "find") ELSE Goto(s, "commit")
  /\ UNCHANGED <<tables, told>>

\* An existing match, or a room of this transaction for a new one.
findMatch(s) ==
  /\ Is(s, "find")
  /\ \/ \E m \in MatchOf(Pair(s)) : Step(s, [tx[s] EXCEPT !.stage = "members", !.room = m.room])
     \/ /\ MatchOf(Pair(s)) = {}
        /\ \E r \in Rooms \ rooms :
             /\ \A t \in Handlers : r # tx[t].room /\ r \notin tx[t].spare
             /\ Step(s, [tx[s] EXCEPT !.stage = "match", !.room = r])
  /\ UNCHANGED <<tables, told>>

\* Mutant: the unused room is not deleted.
Unused_Kept(s) == {tx[s].room}

\* DELETE FROM chat_rooms: nothing is left of the transaction's own room.
Unused(s) == {}

\* INSERT ... ON CONFLICT DO NOTHING RETURNING, and the canonical row if
\* somebody else's is there.
insertMatch(s) ==
  /\ Is(s, "match")
  /\ \A t \in Handlers \ {s} : ~(tx[t].matched /\ Pair(t) = Pair(s))
  /\ \/ /\ MatchOf(Pair(s)) = {}
        /\ Step(s, [tx[s] EXCEPT !.stage = "members", !.matched = TRUE])
     \/ \E m \in MatchOf(Pair(s)) :
          Step(s, [tx[s] EXCEPT !.stage = "members", !.room = m.room, !.spare = Unused(s)])
  /\ UNCHANGED <<tables, told>>

\* The rows of chat_members the match's room must have.
ensureMembers(s) == {[room |-> tx[s].room, user |-> u] : u \in {tx[s].source, tx[s].target}}

AddMembers(s) ==
  /\ Is(s, "members")
  /\ Goto(s, "commit")
  /\ UNCHANGED <<tables, told>>

\* COMMIT, then the answer; or the answer is lost.
Commit(s) ==
  /\ Is(s, "commit")
  /\ swipes' = swipes \cup
       IF tx[s].swiped THEN {Swipe(tx[s].source, tx[s].target, tx[s].direction)} ELSE {}
  /\ matches' = matches \cup
       IF tx[s].matched
       THEN {[pair |-> Pair(s), users |-> {tx[s].source, tx[s].target},
              room |-> tx[s].room, foreign |-> FALSE]}
       ELSE {}
  /\ rooms' = rooms \cup tx[s].spare \cup IF tx[s].matched THEN {tx[s].room} ELSE {}
  /\ members' = members \cup IF tx[s].room = NoRoom THEN {} ELSE ensureMembers(s)
  /\ told' \in {told, told \cup {[source |-> tx[s].source, target |-> tx[s].target,
                                 direction |-> tx[s].direction, room |-> tx[s].room]}}
  /\ Step(s, NoTx)

\* A statement fails or the process dies: PostgreSQL rolls back.
Abort(s) ==
  /\ tx[s].stage \notin {"idle", "swipe"}
  /\ Step(s, NoTx)
  /\ UNCHANGED <<tables, told>>

\* A non-cooperating writer commits a match and its room; the members it adds
\* are its own business.
ForeignMatch(u, v, r) ==
  /\ Foreign /\ u # v
  /\ MatchOf(canonicalPair(u, v)) = {}
  /\ \A t \in Handlers : ~(tx[t].matched /\ Pair(t) = canonicalPair(u, v))
  /\ r \notin rooms
  /\ \A t \in Handlers : r # tx[t].room /\ r \notin tx[t].spare
  /\ matches' = matches \cup
       {[pair |-> canonicalPair(u, v), users |-> {u, v}, room |-> r, foreign |-> TRUE]}
  /\ rooms' = rooms \cup {r}
  /\ UNCHANGED <<swipes, members, tx, told>>

-----------------------------------------------------------------------------
Init ==
  /\ swipes = {} /\ matches = {} /\ rooms = {} /\ members = {} /\ told = {}
  /\ tx = [s \in Handlers |-> NoTx]

Next ==
  \/ \E s \in Handlers, u, v \in Users, d \in Directions : Request(s, u, v, d)
  \/ \E s \in Handlers :
       \/ AcquireLock(s) \/ Refuse(s) \/ insertOrResolveSwipe(s) \/ CheckReciprocal(s)
       \/ findMatch(s) \/ insertMatch(s) \/ AddMembers(s) \/ Commit(s) \/ Abort(s)
  \/ \E u, v \in Users, r \in Rooms : ForeignMatch(u, v, r)

Spec == Init /\ [][Next]_vars

-----------------------------------------------------------------------------
(* Properties.                                                             *)

Likes(u, v) == Swipe(u, v, "LIKE") \in swipes

\* The types of the tables and transactions.
TypeOK ==
  /\ swipes \subseteq [source : Users, target : Users, direction : Directions]
  /\ matches \subseteq
       [pair : SUBSET Users, users : SUBSET Users, room : Rooms, foreign : BOOLEAN]
  /\ rooms \subseteq Rooms
  /\ members \subseteq [room : Rooms, user : Users]
  /\ tx \in [Handlers -> {NoTx} \cup
       [stage : {"lock", "swipe", "reciprocal", "find", "match", "members", "commit"},
        source : Users, target : Users, direction : Directions, swiped : BOOLEAN,
        matched : BOOLEAN, room : Rooms \cup {NoRoom}, spare : SUBSET Rooms]]
  /\ told \subseteq
       [source : Users, target : Users, direction : Directions, room : Rooms \cup {NoRoom}]

\* Two users who both like each other are matched from the moment the second
\* LIKE is stored: simultaneous swipes never both miss the other one.
NoMissedMatch ==
  \A u, v \in Users : u # v /\ Likes(u, v) /\ Likes(v, u) =>
    \E m \in matches : m.users = {u, v}

\* "Duplicate matches would be possible under concurrency": the two orders of
\* a pair are one key, and a match this service made had both LIKEs.
OneMutualMatch ==
  /\ \A m, n \in matches : m.users = n.users => m = n
  /\ \A m \in matches : ~m.foreign => \A u, v \in m.users : u # v => Likes(u, v)

\* "No orphan survives": every room is the room of exactly one match, and
\* once the two like each other both are its members, whoever created it.
RoomsFollowMatches ==
  /\ \A r \in rooms : Cardinality({m \in matches : m.room = r}) = 1
  /\ \A m \in matches : m.room \in rooms
  /\ \A m \in matches :
       (\A u, v \in m.users : u # v => Likes(u, v)) =>
         \A u \in m.users : [room |-> m.room, user |-> u] \in members

\* Once both users got an answer to their LIKE, at least one of them was told
\* the match, and every answer names the room the pair really has.
SomeoneIsTold ==
  /\ \A a, b \in told :
       a.source = b.target /\ a.target = b.source /\ {a.direction, b.direction} = {"LIKE"} =>
         \E c \in told : {c.source, c.target} = {a.source, a.target} /\ c.room # NoRoom
  /\ \A a \in told : a.room # NoRoom =>
       \E m \in matches : m.users = {a.source, a.target} /\ m.room = a.room

\* What a match leaves behind is whole: its room, its members, its answers.
MatchesAreWhole == TypeOK /\ RoomsFollowMatches /\ SomeoneIsTold
=============================================================================
