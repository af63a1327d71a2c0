-------------------------- MODULE SwipeMatchProofs --------------------------
(***************************************************************************)
(* Proofs about SwipeMatch for any number of users, requests and rooms,    *)
(* with and without writers that take no lock.                             *)
(***************************************************************************)
EXTENDS SwipeMatch, FiniteSetTheorems, TLAPS

USE SwipeAssumption

-----------------------------------------------------------------------------
(* The inductive invariant.                                                *)

\* The row of a transaction that is under way.
OpenRow ==
  [stage : {"lock", "swipe", "reciprocal", "find", "match", "members", "commit"},
   source : Users, target : Users, direction : Directions, swiped : BOOLEAN,
   matched : BOOLEAN, room : Rooms \cup {NoRoom}, spare : SUBSET Rooms]

\* Pair, Reciprocal and the stored swipe, as operators on a row.
PairOf(row) == canonicalPair(row.source, row.target)
Returned(row) == row.direction = "LIKE" /\ Swipe(row.target, row.source, "LIKE") \in swipes
Own(row) == row.swiped \/ Swipe(row.source, row.target, row.direction) \in swipes

Held(row) == row.stage \notin {"idle", "lock"}

\* Transactions that are past the lock have different pairs.
LockIsExclusive ==
  \A s, t \in Handlers :
    s # t /\ Held(tx[s]) /\ Held(tx[t]) => PairOf(tx[s]) # PairOf(tx[t])

\* What a transaction knows, by its stage: its own swipe is stored or about to
\* be, the reciprocal LIKE is there from the find on, the pair has a match or
\* this transaction makes its only one, and whoever commits has dealt with the
\* reciprocal LIKE there is.
Knows(row) ==
  /\ row.stage # "idle" => row.source # row.target
  /\ row.stage \in {"reciprocal", "find", "match", "members", "commit"} => Own(row)
  /\ row.stage \in {"find", "match", "members"} => Returned(row)
  /\ row.stage \in {"match", "members"} \/ row.matched => row.room # NoRoom
  /\ row.stage = "members" => row.matched \/ MatchOf(PairOf(row)) # {}
  /\ row.stage = "commit" /\ Returned(row) => row.matched \/ MatchOf(PairOf(row)) # {}
  /\ row.matched => /\ row.stage \in {"members", "commit"}
                    /\ Returned(row) /\ MatchOf(PairOf(row)) = {}

\* A match is found under the pair of its users.
MatchesAreKeyed == \A m \in matches : m.pair = m.users

SwipeInv ==
  /\ LockIsExclusive
  /\ \A s \in Handlers : Knows(tx[s])
  /\ MatchesAreKeyed /\ NoMissedMatch /\ OneMutualMatch

LEMMA InvInit == Init => TypeOK /\ SwipeInv
<1> SUFFICES ASSUME Init PROVE TypeOK /\ SwipeInv
  OBVIOUS
<1>1. TypeOK
  BY DEF Init, TypeOK
<1>2. \A s \in Handlers : Knows(tx[s]) /\ ~Held(tx[s])
  BY DEF Init, NoTx, Knows, Held
<1> QED BY <1>1, <1>2 DEF Init, SwipeInv, LockIsExclusive, MatchesAreKeyed,
             NoMissedMatch, OneMutualMatch, Likes

\* Only a transaction that is under way is not idle.
LEMMA OpenRows ==
  ASSUME TypeOK, NEW s \in Handlers, tx[s].stage # "idle"
  PROVE  tx[s] \in OpenRow
BY DEF TypeOK, OpenRow, NoTx

-----------------------------------------------------------------------------
(* Steps that commit nothing.                                              *)

\* A transaction moves on with its users and whatever its next stage needs.
LEMMA QuietStep ==
  ASSUME TypeOK, SwipeInv, NEW s \in Handlers, NEW row \in OpenRow \cup {NoTx},
         Step(s, row), UNCHANGED <<tables, told>>, Knows(row),
         Held(row) => /\ PairOf(row) = PairOf(tx[s])
                      /\ Held(tx[s]) \/ LockFree(s)
  PROVE  TypeOK' /\ SwipeInv'
<1>1. /\ tx' \in [Handlers -> OpenRow \cup {NoTx}]
      /\ tx'[s] = row
      /\ \A t \in Handlers : t # s => tx'[t] = tx[t]
  BY DEF TypeOK, Step, OpenRow
<1>2. /\ swipes' = swipes /\ matches' = matches /\ rooms' = rooms
      /\ members' = members /\ told' = told
  BY DEF tables
<1>3. TypeOK'
  BY <1>1, <1>2 DEF TypeOK, OpenRow
<1>4. \A t \in Handlers : t # s /\ Held(row) /\ Held(tx[t]) => PairOf(tx[t]) # PairOf(row)
  BY DEF SwipeInv, LockIsExclusive, LockFree, Held, Pair, PairOf
<1>5. LockIsExclusive'
  BY <1>1, <1>4 DEF SwipeInv, LockIsExclusive, Held, PairOf, canonicalPair
<1>6. ASSUME NEW t \in Handlers PROVE Knows(tx[t])'
  <2>1. \A r : (Own(r)' <=> Own(r)) /\ (Returned(r)' <=> Returned(r))
    BY <1>2 DEF Own, Returned, Swipe
  <2>2. \A r : MatchOf(PairOf(r))' = MatchOf(PairOf(r))
    BY <1>2 DEF MatchOf, PairOf, canonicalPair
  <2>3. \A r : Knows(r)' <=> Knows(r)
    BY <2>1, <2>2, Zenon DEF Knows
  <2>4. Knows(tx'[t])
    BY <1>1 DEF SwipeInv
  <2> QED BY <2>3, <2>4
<1>7. MatchesAreKeyed' /\ NoMissedMatch' /\ OneMutualMatch'
  BY <1>2 DEF SwipeInv, MatchesAreKeyed, NoMissedMatch, OneMutualMatch, Likes, Swipe
<1> QED BY <1>3, <1>5, <1>6, <1>7 DEF SwipeInv

\* Ending a transaction without a commit leaves nothing behind.
LEMMA EndStep ==
  ASSUME TypeOK, SwipeInv, NEW s \in Handlers, Step(s, NoTx), UNCHANGED <<tables, told>>
  PROVE  TypeOK' /\ SwipeInv'
<1>1. Knows(NoTx) /\ ~Held(NoTx)
  BY DEF NoTx, Knows, Held
<1> QED BY <1>1, QuietStep

LEMMA RequestInv ==
  ASSUME TypeOK, SwipeInv, NEW s \in Handlers, NEW u \in Users, NEW v \in Users,
         NEW d \in Directions, Request(s, u, v, d)
  PROVE  TypeOK' /\ SwipeInv'
<1> DEFINE row == [NoTx EXCEPT !.stage = "lock", !.source = u, !.target = v, !.direction = d]
<1>1. row \in OpenRow /\ row.stage = "lock" /\ ~row.matched /\ row.source = u /\ row.target = v
  BY DEF NoTx, OpenRow
<1>2. Step(s, row) /\ u # v /\ UNCHANGED <<tables, told>>
  BY DEF Request
<1> HIDE DEF row
<1>3. Knows(row) /\ ~Held(row)
  BY <1>1, <1>2 DEF Knows, Held
<1> QED BY <1>1, <1>2, <1>3, QuietStep

LEMMA LockInv ==
  ASSUME TypeOK, SwipeInv, NEW s \in Handlers, AcquireLock(s)
  PROVE  TypeOK' /\ SwipeInv'
<1> DEFINE row == [tx[s] EXCEPT !.stage = "swipe"]
<1>1. Step(s, row) /\ LockFree(s) /\ tx[s].stage = "lock" /\ UNCHANGED <<tables, told>>
  BY DEF AcquireLock, Goto, Is
<1>2. tx[s] \in OpenRow /\ Knows(tx[s])
  BY <1>1, OpenRows DEF SwipeInv
<1>3. /\ row \in OpenRow /\ row.stage = "swipe" /\ row.matched = tx[s].matched
      /\ row.source = tx[s].source /\ row.target = tx[s].target
  BY <1>2 DEF OpenRow
<1> HIDE DEF row
<1>4. Knows(row) /\ PairOf(row) = PairOf(tx[s])
  BY <1>1, <1>2, <1>3 DEF Knows, PairOf
<1> QED BY <1>1, <1>3, <1>4, QuietStep

LEMMA StoreInv ==
  ASSUME TypeOK, SwipeInv, NEW s \in Handlers, insertOrResolveSwipe(s)
  PROVE  TypeOK' /\ SwipeInv'
<1> DEFINE row == [tx[s] EXCEPT !.stage = "reciprocal", !.swiped = Stored(s) = {}]
<1>1. /\ Step(s, row) /\ tx[s].stage = "swipe" /\ UNCHANGED <<tables, told>>
      /\ \A w \in Stored(s) : w.direction = tx[s].direction
  BY DEF insertOrResolveSwipe, Is
<1>2. tx[s] \in OpenRow /\ Knows(tx[s])
  BY <1>1, OpenRows DEF SwipeInv
<1>3. /\ row \in OpenRow /\ row.stage = "reciprocal" /\ row.matched = tx[s].matched
      /\ row.source = tx[s].source /\ row.target = tx[s].target
      /\ row.direction = tx[s].direction /\ (row.swiped <=> Stored(s) = {})
  BY <1>2 DEF OpenRow
<1> HIDE DEF row
<1>4. Own(row)
  <2>1. CASE Stored(s) = {}
    BY <2>1, <1>3 DEF Own
  <2>2. CASE Stored(s) # {}
    <3>1. PICK w \in swipes : w.source = tx[s].source /\ w.target = tx[s].target
                              /\ w.direction = tx[s].direction
      BY <2>2, <1>1 DEF Stored
    <3>2. w \in [source : Users, target : Users, direction : Directions]
      BY DEF TypeOK
    <3>3. w = [source |-> w.source, target |-> w.target, direction |-> w.direction]
      BY <3>2
    <3>4. row.source = w.source /\ row.target = w.target /\ row.direction = w.direction
      BY <3>1, <1>3
    <3>5. Swipe(row.source, row.target, row.direction) = w
      BY <3>3, <3>4, Zenon DEF Swipe
    <3> QED BY <3>1, <3>5, Zenon DEF Own
  <2> QED BY <2>1, <2>2
<1>5. Knows(row) /\ PairOf(row) = PairOf(tx[s]) /\ Held(tx[s])
  BY <1>1, <1>2, <1>3, <1>4 DEF Knows, PairOf, Held
<1> QED BY <1>1, <1>3, <1>5, QuietStep

LEMMA ReciprocalInv ==
  ASSUME TypeOK, SwipeInv, NEW s \in Handlers, CheckReciprocal(s)
  PROVE  TypeOK' /\ SwipeInv'
<1> DEFINE next == IF Reciprocal(s) THEN "find" ELSE "commit"
           row == [tx[s] EXCEPT !.stage = next]
<1>1. Step(s, row) /\ tx[s].stage = "reciprocal" /\ UNCHANGED <<tables, told>>
  BY DEF CheckReciprocal, Goto, Is
<1>2. tx[s] \in OpenRow /\ Knows(tx[s])
  BY <1>1, OpenRows DEF SwipeInv
<1>3. next \in {"find", "commit"} /\ (next = "find" <=> Reciprocal(s))
  OBVIOUS
<1> HIDE DEF next
<1>4. /\ row \in OpenRow /\ row.matched = tx[s].matched /\ row.swiped = tx[s].swiped
      /\ row.source = tx[s].source /\ row.target = tx[s].target
      /\ row.direction = tx[s].direction /\ row.stage = next
  BY <1>2, <1>3 DEF OpenRow
<1> HIDE DEF row
<1>5. Reciprocal(s) <=> Returned(row)
  BY <1>4 DEF Reciprocal, Returned
<1>6. Own(row)
  BY <1>1, <1>2, <1>4 DEF Knows, Own
<1>7. Knows(row) /\ PairOf(row) = PairOf(tx[s]) /\ Held(tx[s])
  BY <1>1, <1>2, <1>3, <1>4, <1>5, <1>6 DEF Knows, PairOf, Held
<1> QED BY <1>1, <1>4, <1>7, QuietStep

\* A transaction that goes on with a room: found, or its own.
LEMMA RoomStep ==
  ASSUME TypeOK, SwipeInv, NEW s \in Handlers, NEW r \in Rooms,
         NEW stage \in {"match", "members"}, tx[s].stage \in {"find", "match"},
         stage = "members" => MatchOf(Pair(s)) # {},
         NEW row, row = [tx[s] EXCEPT !.stage = stage, !.room = r]
                  \/ row = [tx[s] EXCEPT !.stage = stage, !.room = r, !.spare = {}],
         Step(s, row), UNCHANGED <<tables, told>>
  PROVE  TypeOK' /\ SwipeInv'
<1>1. tx[s] \in OpenRow /\ Knows(tx[s])
  BY OpenRows DEF SwipeInv
<1>2. /\ row \in OpenRow /\ row.matched = tx[s].matched /\ row.swiped = tx[s].swiped
      /\ row.source = tx[s].source /\ row.target = tx[s].target
      /\ row.direction = tx[s].direction /\ row.stage = stage /\ row.room = r
  BY <1>1 DEF OpenRow
<1>3. PairOf(row) = Pair(s) /\ PairOf(row) = PairOf(tx[s]) /\ Held(tx[s])
  BY <1>2 DEF PairOf, Pair, Held
<1>4. Own(row) /\ Returned(row) /\ ~row.matched
  BY <1>1, <1>2 DEF Knows, Own, Returned
<1>5. Knows(row)
  BY <1>1, <1>2, <1>3, <1>4 DEF Knows
<1> QED BY <1>2, <1>3, <1>5, QuietStep

LEMMA FindInv ==
  ASSUME TypeOK, SwipeInv, NEW s \in Handlers, findMatch(s)
  PROVE  TypeOK' /\ SwipeInv'
<1>1. tx[s].stage = "find" /\ UNCHANGED <<tables, told>>
  BY DEF findMatch, Is
<1>2. CASE \E m \in MatchOf(Pair(s)) :
             Step(s, [tx[s] EXCEPT !.stage = "members", !.room = m.room])
  <2>1. PICK m \in MatchOf(Pair(s)) :
          Step(s, [tx[s] EXCEPT !.stage = "members", !.room = m.room])
    BY <1>2
  <2>2. m.room \in Rooms
    BY DEF MatchOf, TypeOK
  <2> QED BY <1>1, <2>1, <2>2, RoomStep
<1>3. CASE \E r \in Rooms : Step(s, [tx[s] EXCEPT !.stage = "match", !.room = r])
  BY <1>1, <1>3, RoomStep
<1> QED BY <1>2, <1>3 DEF findMatch

LEMMA InsertInv ==
  ASSUME TypeOK, SwipeInv, NEW s \in Handlers, insertMatch(s)
  PROVE  TypeOK' /\ SwipeInv'
<1>1. tx[s].stage = "match" /\ UNCHANGED <<tables, told>>
  BY DEF insertMatch, Is
<1>2. tx[s] \in OpenRow /\ Knows(tx[s])
  BY <1>1, OpenRows DEF SwipeInv
<1>3. CASE /\ MatchOf(Pair(s)) = {}
           /\ Step(s, [tx[s] EXCEPT !.stage = "members", !.matched = TRUE])
  <2> DEFINE row == [tx[s] EXCEPT !.stage = "members", !.matched = TRUE]
  <2>1. /\ row \in OpenRow /\ row.matched /\ row.swiped = tx[s].swiped
        /\ row.source = tx[s].source /\ row.target = tx[s].target
        /\ row.direction = tx[s].direction /\ row.stage = "members" /\ row.room = tx[s].room
    BY <1>2 DEF OpenRow
  <2>2. Step(s, row)
    BY <1>3
  <2> HIDE DEF row
  <2>3. PairOf(row) = Pair(s) /\ PairOf(row) = PairOf(tx[s]) /\ Held(tx[s])
    BY <2>1, <1>1 DEF PairOf, Pair, Held
  <2>4. Own(row) /\ Returned(row)
    BY <1>1, <1>2, <2>1 DEF Knows, Own, Returned
  <2>5. Knows(row)
    BY <1>1, <1>2, <1>3, <2>1, <2>3, <2>4 DEF Knows
  <2> QED BY <1>1, <2>1, <2>2, <2>3, <2>5, QuietStep
<1>4. CASE \E m \in MatchOf(Pair(s)) :
             Step(s, [tx[s] EXCEPT !.stage = "members", !.room = m.room, !.spare = Unused(s)])
  <2>1. PICK m \in MatchOf(Pair(s)) :
          Step(s, [tx[s] EXCEPT !.stage = "members", !.room = m.room, !.spare = {}])
    BY <1>4 DEF Unused
  <2>2. m.room \in Rooms
    BY DEF MatchOf, TypeOK
  <2> QED BY <1>1, <2>1, <2>2, RoomStep
<1> QED BY <1>3, <1>4 DEF insertMatch

LEMMA MembersInv ==
  ASSUME TypeOK, SwipeInv, NEW s \in Handlers, AddMembers(s)
  PROVE  TypeOK' /\ SwipeInv'
<1> DEFINE row == [tx[s] EXCEPT !.stage = "commit"]
<1>1. Step(s, row) /\ tx[s].stage = "members" /\ UNCHANGED <<tables, told>>
  BY DEF AddMembers, Goto, Is
<1>2. tx[s] \in OpenRow /\ Knows(tx[s])
  BY <1>1, OpenRows DEF SwipeInv
<1>3. /\ row \in OpenRow /\ row.matched = tx[s].matched /\ row.swiped = tx[s].swiped
      /\ row.source = tx[s].source /\ row.target = tx[s].target /\ row.room = tx[s].room
      /\ row.direction = tx[s].direction /\ row.stage = "commit"
  BY <1>2 DEF OpenRow
<1> HIDE DEF row
<1>4. PairOf(row) = PairOf(tx[s]) /\ Held(tx[s]) /\ Own(row) /\ Returned(row)
  BY <1>1, <1>2, <1>3 DEF PairOf, Held, Knows, Own, Returned
<1>5. Knows(row)
  BY <1>1, <1>2, <1>3, <1>4 DEF Knows
<1> QED BY <1>1, <1>3, <1>4, <1>5, QuietStep
-----------------------------------------------------------------------------
(* Commits.                                                                *)

LEMMA CommitInv ==
  ASSUME TypeOK, SwipeInv, NEW s \in Handlers, Commit(s)
  PROVE  TypeOK' /\ SwipeInv'
<1> DEFINE u == tx[s].source  v == tx[s].target  d == tx[s].direction
           new == Swipe(u, v, d)
           match == [pair |-> Pair(s), users |-> {u, v}, room |-> tx[s].room, foreign |-> FALSE]
<1>1. tx[s].stage = "commit"
  BY DEF Commit, Is
<1>2. tx[s] \in OpenRow /\ Knows(tx[s]) /\ u # v
  BY <1>1, OpenRows DEF SwipeInv, Knows
<1>3. /\ u \in Users /\ v \in Users /\ d \in Directions /\ tx[s].spare \subseteq Rooms
      /\ tx[s].room \in Rooms \cup {NoRoom}
  BY <1>2 DEF OpenRow
<1>4. Pair(s) = {u, v} /\ PairOf(tx[s]) = {u, v}
  BY DEF Pair, PairOf, canonicalPair
<1>5. new.source = u /\ new.target = v /\ new.direction = d
  BY DEF Swipe
<1>6. match.pair = {u, v} /\ match.users = {u, v} /\ ~match.foreign
  BY <1>4
<1>7. /\ swipes' = swipes \cup IF tx[s].swiped THEN {new} ELSE {}
      /\ matches' = matches \cup IF tx[s].matched THEN {match} ELSE {}
      /\ rooms' = rooms \cup tx[s].spare \cup IF tx[s].matched THEN {tx[s].room} ELSE {}
      /\ members' = members \cup IF tx[s].room = NoRoom THEN {} ELSE ensureMembers(s)
      /\ told' \in {told, told \cup {[source |-> u, target |-> v, direction |-> d,
                                     room |-> tx[s].room]}}
      /\ Step(s, NoTx)
  BY DEF Commit
<1>8. /\ tx' \in [Handlers -> OpenRow \cup {NoTx}]
      /\ tx'[s] = NoTx
      /\ \A t \in Handlers : t # s => tx'[t] = tx[t]
  BY <1>7 DEF TypeOK, Step, OpenRow
<1>9. TypeOK'
  <2>1. new \in [source : Users, target : Users, direction : Directions]
    BY <1>3 DEF Swipe
  <2>2. tx[s].matched => tx[s].room \in Rooms
    BY <1>2, <1>3 DEF Knows
  <2>3. tx[s].matched =>
          match \in [pair : SUBSET Users, users : SUBSET Users, room : Rooms, foreign : BOOLEAN]
    BY <2>2, <1>3, <1>4
  <2>4. tx[s].room # NoRoom => ensureMembers(s) \subseteq [room : Rooms, user : Users]
    BY <1>3 DEF ensureMembers
  <2>5. told' \subseteq
          [source : Users, target : Users, direction : Directions, room : Rooms \cup {NoRoom}]
    BY <1>3, <1>7 DEF TypeOK
  <2> HIDE DEF new, match
  <2> QED BY <1>3, <1>7, <1>8, <2>1, <2>2, <2>3, <2>4, <2>5 DEF TypeOK, OpenRow
<1> HIDE DEF new, match
<1>10. LockIsExclusive'
  BY <1>8 DEF SwipeInv, LockIsExclusive, Held, PairOf, canonicalPair, NoTx
<1>11. ASSUME NEW t \in Handlers, t # s PROVE Knows(tx[t])'
  <2>1. CASE ~Held(tx[t])
    BY <2>1, <1>8, <1>11 DEF SwipeInv, Knows, Held
  <2>2. CASE Held(tx[t])
    <3>1. PairOf(tx[t]) # {u, v}
      BY <2>2, <1>1, <1>4, <1>11 DEF SwipeInv, LockIsExclusive, Held
    <3>2. Swipe(tx[t].target, tx[t].source, "LIKE") # new
      BY <3>1, <1>5 DEF Swipe, PairOf, canonicalPair
    <3>3. Swipe(tx[t].target, tx[t].source, "LIKE") \in swipes'
            <=> Swipe(tx[t].target, tx[t].source, "LIKE") \in swipes
      BY <3>2, <1>7
    <3>4. Returned(tx[t])' <=> Returned(tx[t])
      BY <3>3, <1>8, <1>11 DEF Returned, Swipe
    <3>5. Own(tx[t]) => Own(tx[t])'
      BY <1>7, <1>8, <1>11 DEF Own, Swipe
    <3>6. {m \in matches' : m.pair = PairOf(tx[t])} = MatchOf(PairOf(tx[t]))
      BY <3>1, <1>6, <1>7 DEF MatchOf
    <3>7. MatchOf(PairOf(tx[t]))' = MatchOf(PairOf(tx[t]))
      BY <3>6, <1>8, <1>11 DEF MatchOf, PairOf, canonicalPair
    <3>8. tx'[t] = tx[t] /\ Knows(tx[t])
      BY <1>8, <1>11 DEF SwipeInv
    <3> QED BY <3>4, <3>5, <3>7, <3>8, Zenon DEF Knows
  <2> QED BY <2>1, <2>2
<1>12. Knows(tx[s])'
  BY <1>8 DEF Knows, NoTx
<1>13. MatchesAreKeyed'
  BY <1>6, <1>7 DEF SwipeInv, MatchesAreKeyed
<1>14. tx[s].matched => MatchOf({u, v}) = {} /\ d = "LIKE" /\ Swipe(v, u, "LIKE") \in swipes
  BY <1>2, <1>4 DEF Knows, Returned
<1>15. NoMissedMatch'
  <2> SUFFICES ASSUME NEW a \in Users, NEW b \in Users, a # b,
                      Swipe(a, b, "LIKE") \in swipes', Swipe(b, a, "LIKE") \in swipes'
               PROVE  \E m \in matches' : m.users = {a, b}
    BY DEF NoMissedMatch, Likes, Swipe
  <2>1. CASE Swipe(a, b, "LIKE") \in swipes /\ Swipe(b, a, "LIKE") \in swipes
    BY <2>1, <1>7 DEF SwipeInv, NoMissedMatch, Likes
  <2>2. CASE ~(Swipe(a, b, "LIKE") \in swipes /\ Swipe(b, a, "LIKE") \in swipes)
    <3>1. Swipe(a, b, "LIKE") = new \/ Swipe(b, a, "LIKE") = new
      BY <2>2, <1>7
    <3>2. d = "LIKE" /\ {a, b} = {u, v}
      <4>1. CASE Swipe(a, b, "LIKE") = new
        <5>1. a = u /\ b = v /\ d = "LIKE"
          BY <4>1, <1>5 DEF Swipe
        <5> QED BY <5>1
      <4>2. CASE Swipe(b, a, "LIKE") = new
        <5>1. b = u /\ a = v /\ d = "LIKE"
          BY <4>2, <1>5 DEF Swipe
        <5> QED BY <5>1
      <4> QED BY <3>1, <4>1, <4>2
    <3>3. Swipe(v, u, "LIKE") # new
      BY <1>2, <1>5 DEF Swipe
    <3>4. Swipe(v, u, "LIKE") \in swipes
      <4>1. Swipe(v, u, "LIKE") \in swipes'
        <5>1. (a = v /\ b = u) \/ (a = u /\ b = v)
          BY <3>2
        <5> QED BY <5>1, Zenon
      <4> QED BY <4>1, <3>3, <1>7
    <3>5. tx[s].matched \/ MatchOf({u, v}) # {}
      BY <1>1, <1>2, <1>4, <3>2, <3>4 DEF Knows, Returned
    <3>6. CASE tx[s].matched
      BY <3>2, <3>6, <1>6, <1>7
    <3>7. CASE MatchOf({u, v}) # {}
      BY <3>2, <3>7, <1>7 DEF MatchOf, SwipeInv, MatchesAreKeyed
    <3> QED BY <3>5, <3>6, <3>7
  <2> QED BY <2>1, <2>2
<1>16. OneMutualMatch'
  <2>1. \A m \in matches : m.users = match.users => ~tx[s].matched
    BY <1>6, <1>14 DEF MatchOf, SwipeInv, MatchesAreKeyed
  <2>2. \A m, n \in matches' : m.users = n.users => m = n
    BY <2>1, <1>7 DEF SwipeInv, OneMutualMatch
  <2>3. tx[s].matched => Swipe(u, v, "LIKE") \in swipes' /\ Swipe(v, u, "LIKE") \in swipes'
    <3>1. Own(tx[s])
      BY <1>1, <1>2 DEF Knows
    <3>2. d = "LIKE" => Swipe(u, v, "LIKE") \in swipes'
      BY <3>1, <1>7 DEF Own, new
    <3> QED BY <3>2, <1>7, <1>14
  <2>4. ASSUME NEW m \in matches', ~m.foreign, NEW a \in m.users, NEW b \in m.users, a # b
        PROVE  Swipe(a, b, "LIKE") \in swipes'
    <3>1. CASE m \in matches
      BY <3>1, <2>4, <1>7 DEF SwipeInv, OneMutualMatch, Likes
    <3>2. CASE m = match /\ tx[s].matched
      BY <3>2, <2>3, <2>4, <1>6
    <3> QED BY <3>1, <3>2, <1>7
  <2> QED BY <2>2, <2>4 DEF OneMutualMatch, Likes, Swipe
<1> QED BY <1>9, <1>10, <1>11, <1>12, <1>13, <1>15, <1>16 DEF SwipeInv

LEMMA ForeignInv ==
  ASSUME TypeOK, SwipeInv, NEW u \in Users, NEW v \in Users, NEW r \in Rooms,
         ForeignMatch(u, v, r)
  PROVE  TypeOK' /\ SwipeInv'
<1> DEFINE match == [pair |-> canonicalPair(u, v), users |-> {u, v}, room |-> r, foreign |-> TRUE]
<1>1. match.pair = {u, v} /\ match.users = {u, v} /\ match.foreign
  BY DEF canonicalPair
<1>2. /\ MatchOf({u, v}) = {}
      /\ \A t \in Handlers : ~(tx[t].matched /\ PairOf(tx[t]) = {u, v})
      /\ matches' = matches \cup {match} /\ rooms' = rooms \cup {r}
      /\ swipes' = swipes /\ members' = members /\ tx' = tx /\ told' = told
  BY DEF ForeignMatch, canonicalPair, Pair, PairOf
<1>3. match \in [pair : SUBSET Users, users : SUBSET Users, room : Rooms, foreign : BOOLEAN]
  BY DEF canonicalPair
<1> HIDE DEF match
<1>4. TypeOK'
  BY <1>2, <1>3 DEF TypeOK
<1>5. LockIsExclusive'
  BY <1>2 DEF SwipeInv, LockIsExclusive, Held, PairOf, canonicalPair
<1>6. ASSUME NEW t \in Handlers PROVE Knows(tx[t])'
  <2>1. (Own(tx[t])' <=> Own(tx[t])) /\ (Returned(tx[t])' <=> Returned(tx[t]))
    BY <1>2 DEF Own, Returned, Swipe
  <2>2. MatchOf(PairOf(tx[t])) # {} => MatchOf(PairOf(tx[t]))' # {}
    BY <1>2 DEF MatchOf, PairOf, canonicalPair
  <2>3. tx[t].matched /\ MatchOf(PairOf(tx[t])) = {} => MatchOf(PairOf(tx[t]))' = {}
    BY <1>1, <1>2 DEF MatchOf, PairOf, canonicalPair
  <2>4. Knows(tx[t]) /\ tx' = tx
    BY <1>2 DEF SwipeInv
  <2> QED BY <2>1, <2>2, <2>3, <2>4, Zenon DEF Knows
<1>7. MatchesAreKeyed' /\ NoMissedMatch'
  BY <1>1, <1>2 DEF SwipeInv, MatchesAreKeyed, NoMissedMatch, Likes, Swipe
<1>8. \A m \in matches : m.users # match.users
  BY <1>1, <1>2 DEF MatchOf, SwipeInv, MatchesAreKeyed
<1>9. OneMutualMatch'
  BY <1>1, <1>2, <1>8 DEF SwipeInv, OneMutualMatch, Likes, Swipe
<1> QED BY <1>4, <1>5, <1>6, <1>7, <1>9 DEF SwipeInv

-----------------------------------------------------------------------------
(* Theorems.                                                               *)

LEMMA InvNext == TypeOK /\ SwipeInv /\ [Next]_vars => TypeOK' /\ SwipeInv'
<1> SUFFICES ASSUME TypeOK, SwipeInv, [Next]_vars PROVE TypeOK' /\ SwipeInv'
  OBVIOUS
<1>1. CASE UNCHANGED vars
  <2>1. /\ swipes' = swipes /\ matches' = matches /\ rooms' = rooms
        /\ members' = members /\ tx' = tx /\ told' = told
    BY <1>1 DEF vars
  <2>2. TypeOK'
    BY <2>1 DEF TypeOK
  <2>3. LockIsExclusive'
    BY <2>1 DEF SwipeInv, LockIsExclusive, Held, PairOf, canonicalPair
  <2>4. ASSUME NEW t \in Handlers PROVE Knows(tx[t])'
    <3>1. (Own(tx[t])' <=> Own(tx[t])) /\ (Returned(tx[t])' <=> Returned(tx[t]))
      BY <2>1 DEF Own, Returned, Swipe
    <3>2. MatchOf(PairOf(tx[t]))' = MatchOf(PairOf(tx[t]))
      BY <2>1 DEF MatchOf, PairOf, canonicalPair
    <3>3. Knows(tx[t]) /\ tx' = tx
      BY <2>1 DEF SwipeInv
    <3> QED BY <3>1, <3>2, <3>3, Zenon DEF Knows
  <2>5. MatchesAreKeyed' /\ NoMissedMatch' /\ OneMutualMatch'
    BY <2>1 DEF SwipeInv, MatchesAreKeyed, NoMissedMatch, OneMutualMatch, Likes, Swipe
  <2> QED BY <2>2, <2>3, <2>4, <2>5 DEF SwipeInv
<1>2. ASSUME NEW s \in Handlers, Refuse(s) \/ Abort(s) PROVE TypeOK' /\ SwipeInv'
  BY <1>2, EndStep DEF Refuse, Abort
<1> QED BY <1>1, <1>2, RequestInv, LockInv, StoreInv, ReciprocalInv, FindInv, InsertInv,
     MembersInv, CommitInv, ForeignInv DEF Next

LEMMA Invariance == Spec => [](TypeOK /\ SwipeInv)
BY InvInit, InvNext, PTL DEF Spec

\* Tables and transactions keep their types.
THEOREM SwipeTypeCorrect == Spec => []TypeOK
BY Invariance, PTL

\* However many users swipe at once, and whatever is retried, fails or is
\* written without the lock: two LIKEs are never stored without a match.
THEOREM MutualLikesMatch == Spec => []NoMissedMatch
<1>1. TypeOK /\ SwipeInv => NoMissedMatch
  BY DEF SwipeInv
<1> QED BY Invariance, <1>1, PTL

\* A pair never gets a second match, and none without both LIKEs.
THEOREM MatchesAreUnique == Spec => []OneMutualMatch
<1>1. TypeOK /\ SwipeInv => OneMutualMatch
  BY DEF SwipeInv
<1> QED BY Invariance, <1>1, PTL


-----------------------------------------------------------------------------
(* What a match leaves behind.                                             *)

\* The room of a transaction is one it inserted itself and nobody sees.
Owns(row) == row.stage = "match" \/ row.matched

\* What a transaction knows of its room: it is its own, or the room of the
\* match that is there; and whoever commits into two LIKEs has one.
KnowsRoom(row) ==
  /\ row.spare = {}
  /\ Owns(row) => row.room \notin rooms
  /\ row.room # NoRoom /\ ~Owns(row) => \E m \in MatchOf(PairOf(row)) : m.room = row.room
  /\ row.stage = "commit" /\ Returned(row) => row.room # NoRoom

\* No id is inserted by two transactions.
OwnRoomsDiffer ==
  \A s, t \in Handlers :
    s # t /\ Owns(tx[s]) /\ Owns(tx[t]) => tx[s].room # tx[t].room

\* Rooms and matches, one to one.
RoomsAreOwned ==
  /\ \A r \in rooms : \E m \in matches : m.room = r
  /\ \A m \in matches : m.room \in rooms
  /\ \A m, n \in matches : m.room = n.room => m = n

LikesAreMembers ==
  \A m \in matches :
    (\A u, v \in m.users : u # v => Likes(u, v)) =>
      \A u \in m.users : [room |-> m.room, user |-> u] \in members

MatchesArePairs == \A m \in matches : \A a, b \in m.users : a # b => m.users = {a, b}

\* A LIKE that was answered is stored.
ToldLikesAreStored ==
  \A a \in told : a.direction = "LIKE" => Likes(a.source, a.target)

\* The two halves of SomeoneIsTold.
LikesAreTold ==
  \A a, b \in told :
    a.source = b.target /\ a.target = b.source /\ {a.direction, b.direction} = {"LIKE"} =>
      \E c \in told : {c.source, c.target} = {a.source, a.target} /\ c.room # NoRoom
ToldRoomsAreMatches ==
  \A a \in told : a.room # NoRoom =>
    \E m \in matches : m.users = {a.source, a.target} /\ m.room = a.room

RoomInv ==
  /\ \A s \in Handlers : KnowsRoom(tx[s])
  /\ OwnRoomsDiffer /\ RoomsAreOwned /\ LikesAreMembers /\ MatchesArePairs
  /\ ToldLikesAreStored /\ LikesAreTold /\ ToldRoomsAreMatches

LEMMA RoomInit == Init => RoomInv
BY DEF Init, NoTx, RoomInv, KnowsRoom, Owns, OwnRoomsDiffer, RoomsAreOwned, LikesAreMembers,
       MatchesArePairs, ToldLikesAreStored, LikesAreTold, ToldRoomsAreMatches

\* Whatever leaves the tables and the answers alone.
LEMMA SameTables ==
  ASSUME RoomInv, swipes' = swipes, matches' = matches, rooms' = rooms,
         members' = members, told' = told
  PROVE  /\ RoomsAreOwned' /\ LikesAreMembers' /\ MatchesArePairs'
         /\ ToldLikesAreStored' /\ LikesAreTold' /\ ToldRoomsAreMatches'
<1>1. RoomsAreOwned'
  BY DEF RoomInv, RoomsAreOwned
<1>2. LikesAreMembers' /\ MatchesArePairs'
  BY DEF RoomInv, LikesAreMembers, MatchesArePairs, Likes, Swipe
<1>3. ToldLikesAreStored'
  BY DEF RoomInv, ToldLikesAreStored, Likes, Swipe
<1>4. LikesAreTold'
  BY DEF RoomInv, LikesAreTold
<1>5. ToldRoomsAreMatches'
  BY DEF RoomInv, ToldRoomsAreMatches
<1> QED BY <1>1, <1>2, <1>3, <1>4, <1>5

\* A step that commits nothing, of a transaction whose new row knows its room.
LEMMA QuietRooms ==
  ASSUME TypeOK, RoomInv, NEW s \in Handlers, NEW row,
         Step(s, row), UNCHANGED <<tables, told>>, KnowsRoom(row),
         Owns(row) => \A t \in Handlers \ {s} : Owns(tx[t]) => tx[t].room # row.room
  PROVE  RoomInv'
<1>1. tx'[s] = row /\ \A t \in Handlers : t # s => tx'[t] = tx[t]
  BY DEF TypeOK, Step
<1>2. /\ swipes' = swipes /\ matches' = matches /\ rooms' = rooms
      /\ members' = members /\ told' = told
  BY DEF tables
<1>3. \A r : KnowsRoom(r)' <=> KnowsRoom(r)
  <2>1. \A r : Returned(r)' <=> Returned(r)
    BY <1>2 DEF Returned, Swipe
  <2>2. \A r : MatchOf(PairOf(r))' = MatchOf(PairOf(r))
    BY <1>2 DEF MatchOf, PairOf, canonicalPair
  <2>3. \A r : (\E m \in MatchOf(PairOf(r))' : m.room = r.room)
                <=> \E m \in MatchOf(PairOf(r)) : m.room = r.room
    BY <2>2, Zenon
  <2> QED BY <1>2, <2>1, <2>3 DEF KnowsRoom, Owns
<1>4. ASSUME NEW t \in Handlers PROVE KnowsRoom(tx[t])'
  <2>1. KnowsRoom(tx'[t])
    BY <1>1 DEF RoomInv
  <2> QED BY <2>1, <1>3
<1>5. OwnRoomsDiffer'
  BY <1>1 DEF RoomInv, OwnRoomsDiffer, Owns
<1>6. /\ RoomsAreOwned' /\ LikesAreMembers' /\ MatchesArePairs'
      /\ ToldLikesAreStored' /\ LikesAreTold' /\ ToldRoomsAreMatches'
  BY <1>2, SameTables DEF RoomInv
<1> QED BY <1>4, <1>5, <1>6 DEF RoomInv

\* A transaction begins, or ends without a commit.
LEMMA FreshRooms ==
  ASSUME TypeOK, RoomInv, NEW s \in Handlers, NEW row, Step(s, row),
         UNCHANGED <<tables, told>>,
         row.stage \in {"idle", "lock"}, ~row.matched, row.room = NoRoom, row.spare = {}
  PROVE  RoomInv'
<1>1. KnowsRoom(row) /\ ~Owns(row)
  BY DEF KnowsRoom, Owns
<1> QED BY <1>1, QuietRooms

\* A transaction goes on with the room it has.
LEMMA SameRoom ==
  ASSUME TypeOK, SwipeInv, RoomInv, NEW s \in Handlers, NEW row, Step(s, row),
         UNCHANGED <<tables, told>>,
         row.source = tx[s].source, row.target = tx[s].target,
         row.direction = tx[s].direction, row.matched = tx[s].matched,
         row.room = tx[s].room, row.spare = tx[s].spare,
         tx[s].stage # "match", row.stage # "match",
         row.stage = "commit" /\ Returned(row) => row.room # NoRoom
  PROVE  RoomInv'
<1>1. KnowsRoom(tx[s]) /\ PairOf(row) = PairOf(tx[s]) /\ (Owns(row) <=> Owns(tx[s]))
  BY DEF RoomInv, PairOf, Owns
<1>2. KnowsRoom(row)
  BY <1>1 DEF KnowsRoom
<1>3. Owns(row) => \A t \in Handlers \ {s} : Owns(tx[t]) => tx[t].room # row.room
  BY <1>1 DEF RoomInv, OwnRoomsDiffer
<1> QED BY <1>2, <1>3, QuietRooms

\* The first half of a request, the moves between stages, and the ends.
LEMMA MoveRooms ==
  ASSUME TypeOK, SwipeInv, RoomInv, NEW s \in Handlers,
         \/ \E u, v \in Users, d \in Directions : Request(s, u, v, d)
         \/ AcquireLock(s) \/ insertOrResolveSwipe(s) \/ CheckReciprocal(s)
         \/ AddMembers(s) \/ Refuse(s) \/ Abort(s)
  PROVE  RoomInv'
<1>0. tx[s].stage # "idle" => tx[s] \in OpenRow /\ Knows(tx[s])
  BY OpenRows DEF SwipeInv
<1>1. ASSUME NEW u \in Users, NEW v \in Users, NEW d \in Directions, Request(s, u, v, d)
      PROVE  RoomInv'
  <2> DEFINE row == [NoTx EXCEPT !.stage = "lock", !.source = u, !.target = v, !.direction = d]
  <2>1. Step(s, row) /\ UNCHANGED <<tables, told>>
    BY <1>1 DEF Request
  <2>2. row.stage = "lock" /\ ~row.matched /\ row.room = NoRoom /\ row.spare = {}
    BY DEF NoTx
  <2> HIDE DEF row
  <2> QED BY <2>1, <2>2, FreshRooms
<1>2. ASSUME NEW stage \in {"swipe", "reciprocal", "find", "commit"}, NEW swiped \in BOOLEAN,
             Step(s, [tx[s] EXCEPT !.stage = stage, !.swiped = swiped]),
             tx[s].stage \notin {"idle", "match"}, UNCHANGED <<tables, told>>,
             stage = "commit" /\ Returned(tx[s]) => tx[s].room # NoRoom
      PROVE  RoomInv'
  <2> DEFINE row == [tx[s] EXCEPT !.stage = stage, !.swiped = swiped]
  <2>1. /\ row.source = tx[s].source /\ row.target = tx[s].target
        /\ row.direction = tx[s].direction /\ row.matched = tx[s].matched
        /\ row.room = tx[s].room /\ row.spare = tx[s].spare /\ row.stage = stage
    BY <1>0, <1>2 DEF OpenRow
  <2>2. Step(s, row)
    BY <1>2
  <2> HIDE DEF row
  <2>3. Returned(row) <=> Returned(tx[s])
    BY <2>1 DEF Returned
  <2> QED BY <1>2, <2>1, <2>2, <2>3, SameRoom
<1>3. CASE AcquireLock(s) \/ CheckReciprocal(s) \/ AddMembers(s)
  <2>1. PICK stage \in {"swipe", "find", "commit"} : Goto(s, stage)
    BY <1>3 DEF AcquireLock, CheckReciprocal, AddMembers
  <2>2. tx[s].stage \in {"lock", "reciprocal", "members"} /\ UNCHANGED <<tables, told>>
    BY <1>3 DEF AcquireLock, CheckReciprocal, AddMembers, Is
  <2>3. stage = "commit" /\ Returned(tx[s]) => tx[s].room # NoRoom
    <3>1. CASE CheckReciprocal(s)
      <4>1. Reciprocal(s) <=> Returned(tx[s])
        BY DEF Reciprocal, Returned
      <4>2. Goto(s, "commit") => ~Goto(s, "find")
        BY <1>0, <2>2 DEF Goto, Step, TypeOK, OpenRow
      <4> QED BY <3>1, <4>1, <4>2, <2>1 DEF CheckReciprocal
    <3>2. CASE AddMembers(s)
      BY <3>2, <1>0 DEF AddMembers, Is, Knows
    <3>3. CASE AcquireLock(s)
      <4>1. Goto(s, "swipe") => ~Goto(s, "commit")
        BY <1>0, <2>2 DEF Goto, Step, TypeOK, OpenRow
      <4> QED BY <3>3, <4>1, <2>1 DEF AcquireLock
    <3> QED BY <1>3, <3>1, <3>2, <3>3
  <2>4. [tx[s] EXCEPT !.stage = stage]
          = [tx[s] EXCEPT !.stage = stage, !.swiped = tx[s].swiped]
    BY <1>0, <2>2 DEF OpenRow
  <2>5. tx[s].swiped \in BOOLEAN
    BY <1>0, <2>2 DEF OpenRow
  <2>6. Step(s, [tx[s] EXCEPT !.stage = stage, !.swiped = tx[s].swiped])
    BY <2>1, <2>4 DEF Goto
  <2> QED BY <2>2, <2>3, <2>5, <2>6, <1>2
<1>4. CASE insertOrResolveSwipe(s)
  <2>1. /\ Step(s, [tx[s] EXCEPT !.stage = "reciprocal", !.swiped = (Stored(s) = {})])
        /\ tx[s].stage = "swipe" /\ UNCHANGED <<tables, told>>
    BY <1>4 DEF insertOrResolveSwipe, Is
  <2> QED BY <2>1, <1>2
<1>5. CASE Refuse(s) \/ Abort(s)
  <2>1. Step(s, NoTx) /\ UNCHANGED <<tables, told>>
    BY <1>5 DEF Refuse, Abort
  <2>2. NoTx.stage = "idle" /\ ~NoTx.matched /\ NoTx.room = NoRoom /\ NoTx.spare = {}
    BY DEF NoTx
  <2> QED BY <2>1, <2>2, FreshRooms
<1> QED BY <1>1, <1>3, <1>4, <1>5

\* Finding or creating the match.
LEMMA FoundRooms ==
  ASSUME TypeOK, SwipeInv, RoomInv, NEW s \in Handlers, findMatch(s) \/ insertMatch(s)
  PROVE  RoomInv'
<1>1. /\ tx[s].stage \in {"find", "match"} /\ UNCHANGED <<tables, told>>
      /\ tx[s] \in OpenRow /\ Knows(tx[s]) /\ KnowsRoom(tx[s])
  BY OpenRows DEF SwipeInv, RoomInv, findMatch, insertMatch, Is
<1>2. ASSUME NEW m \in MatchOf(Pair(s)), NEW row,
             /\ row.stage = "members" /\ row.room = m.room /\ row.spare = {} /\ ~row.matched
             /\ row.source = tx[s].source /\ row.target = tx[s].target,
             Step(s, row)
      PROVE  RoomInv'
  <2>1. PairOf(row) = Pair(s) /\ ~Owns(row)
    BY <1>2 DEF PairOf, Pair, Owns
  <2>2. KnowsRoom(row)
    BY <1>2, <2>1 DEF KnowsRoom
  <2> QED BY <1>1, <1>2, <2>1, <2>2, QuietRooms
<1>3. CASE findMatch(s)
  <2>1. CASE \E m \in MatchOf(Pair(s)) :
               Step(s, [tx[s] EXCEPT !.stage = "members", !.room = m.room])
    <3>1. PICK m \in MatchOf(Pair(s)) :
            Step(s, [tx[s] EXCEPT !.stage = "members", !.room = m.room])
      BY <2>1
    <3> DEFINE row == [tx[s] EXCEPT !.stage = "members", !.room = m.room]
    <3>2. /\ row.stage = "members" /\ row.room = m.room /\ row.spare = {} /\ ~row.matched
          /\ row.source = tx[s].source /\ row.target = tx[s].target
      BY <1>1, <1>3 DEF OpenRow, KnowsRoom, Knows, findMatch, Is
    <3>3. Step(s, row)
      BY <3>1
    <3> HIDE DEF row
    <3> QED BY <3>2, <3>3, <1>2
  <2>2. CASE \E r \in Rooms \ rooms :
               /\ \A t \in Handlers : r # tx[t].room /\ r \notin tx[t].spare
               /\ Step(s, [tx[s] EXCEPT !.stage = "match", !.room = r])
    <3>1. PICK r \in Rooms \ rooms :
               /\ \A t \in Handlers : r # tx[t].room
               /\ Step(s, [tx[s] EXCEPT !.stage = "match", !.room = r])
      BY <2>2
    <3> DEFINE row == [tx[s] EXCEPT !.stage = "match", !.room = r]
    <3>2. row.stage = "match" /\ row.room = r /\ row.spare = {}
      BY <1>1 DEF OpenRow, KnowsRoom
    <3>3. Step(s, row)
      BY <3>1
    <3> HIDE DEF row
    <3>4. KnowsRoom(row)
      BY <3>2 DEF KnowsRoom, Owns
    <3> QED BY <1>1, <3>1, <3>2, <3>3, <3>4, QuietRooms
  <2> QED BY <1>3, <2>1, <2>2 DEF findMatch
<1>4. CASE insertMatch(s)
  <2>0. tx[s].stage = "match"
    BY <1>4 DEF insertMatch, Is
  <2>1. CASE Step(s, [tx[s] EXCEPT !.stage = "members", !.matched = TRUE])
    <3> DEFINE row == [tx[s] EXCEPT !.stage = "members", !.matched = TRUE]
    <3>1. row.stage = "members" /\ row.matched /\ row.room = tx[s].room /\ row.spare = {}
      BY <1>1 DEF OpenRow, KnowsRoom
    <3>2. Step(s, row)
      BY <2>1
    <3> HIDE DEF row
    <3>3. Owns(tx[s]) /\ KnowsRoom(row)
      BY <1>1, <2>0, <3>1 DEF KnowsRoom, Owns
    <3>4. \A t \in Handlers \ {s} : Owns(tx[t]) => tx[t].room # row.room
      BY <3>1, <3>3 DEF RoomInv, OwnRoomsDiffer
    <3> QED BY <1>1, <3>2, <3>3, <3>4, QuietRooms
  <2>2. CASE \E m \in MatchOf(Pair(s)) :
               Step(s, [tx[s] EXCEPT !.stage = "members", !.room = m.room, !.spare = Unused(s)])
    <3>1. PICK m \in MatchOf(Pair(s)) :
            Step(s, [tx[s] EXCEPT !.stage = "members", !.room = m.room, !.spare = {}])
      BY <2>2 DEF Unused
    <3> DEFINE row == [tx[s] EXCEPT !.stage = "members", !.room = m.room, !.spare = {}]
    <3>2. /\ row.stage = "members" /\ row.room = m.room /\ row.spare = {} /\ ~row.matched
          /\ row.source = tx[s].source /\ row.target = tx[s].target
      BY <1>1, <2>0 DEF OpenRow, Knows
    <3>3. Step(s, row)
      BY <3>1
    <3> HIDE DEF row
    <3> QED BY <3>2, <3>3, <1>2
  <2> QED BY <1>4, <2>1, <2>2 DEF insertMatch
<1> QED BY <1>3, <1>4

\* A commit: its match has a room of its own, and both users are in the room
\* of the pair once both LIKEs are stored.
LEMMA CommitRooms ==
  ASSUME TypeOK, SwipeInv, RoomInv, NEW s \in Handlers, Commit(s)
  PROVE  RoomInv'
<1> DEFINE u == tx[s].source  v == tx[s].target  d == tx[s].direction  room == tx[s].room
           new == Swipe(u, v, d)
           match == [pair |-> Pair(s), users |-> {u, v}, room |-> room, foreign |-> FALSE]
           answer == [source |-> u, target |-> v, direction |-> d, room |-> room]
<1>1. tx[s].stage = "commit"
  BY DEF Commit, Is
<1>2. tx[s] \in OpenRow /\ Knows(tx[s]) /\ KnowsRoom(tx[s]) /\ u # v
  BY <1>1, OpenRows DEF SwipeInv, RoomInv, Knows
<1>3. u \in Users /\ v \in Users /\ d \in Directions
  BY <1>2 DEF OpenRow
<1>4. Pair(s) = {u, v} /\ PairOf(tx[s]) = {u, v}
  BY DEF Pair, PairOf, canonicalPair
<1>5. /\ match.pair = {u, v} /\ match.users = {u, v} /\ match.room = room
      /\ new.source = u /\ new.target = v /\ new.direction = d
      /\ answer.source = u /\ answer.target = v /\ answer.direction = d /\ answer.room = room
  BY <1>4 DEF Swipe
<1>6. /\ swipes' = swipes \cup IF tx[s].swiped THEN {new} ELSE {}
      /\ matches' = matches \cup IF tx[s].matched THEN {match} ELSE {}
      /\ rooms' = rooms \cup IF tx[s].matched THEN {room} ELSE {}
      /\ members' = members \cup IF room = NoRoom THEN {} ELSE ensureMembers(s)
      /\ told' \in {told, told \cup {answer}}
      /\ Step(s, NoTx)
  BY <1>2 DEF Commit, KnowsRoom
<1>7. tx'[s] = NoTx /\ \A t \in Handlers : t # s => tx'[t] = tx[t]
  BY <1>6 DEF TypeOK, Step
<1>8. ensureMembers(s) = {[room |-> room, user |-> w] : w \in {u, v}}
  BY DEF ensureMembers
<1>9. d = "LIKE" => Swipe(u, v, "LIKE") \in swipes'
  BY <1>1, <1>2, <1>6 DEF Knows, Own
<1>10. \A a, b : Swipe(a, b, "LIKE") \in swipes' /\ Swipe(a, b, "LIKE") \notin swipes
          => a = u /\ b = v /\ d = "LIKE"
  BY <1>6 DEF Swipe
<1> HIDE DEF new, match, answer
<1>11. tx[s].matched => room # NoRoom /\ room \notin rooms
  BY <1>2 DEF Knows, KnowsRoom, Owns
<1>12. room # NoRoom /\ ~tx[s].matched =>
         \E m \in matches : m.users = {u, v} /\ m.room = room
  BY <1>1, <1>2, <1>4 DEF KnowsRoom, Owns, MatchOf, SwipeInv, MatchesAreKeyed
<1>13. room # NoRoom => \E m \in matches' : m.users = {u, v} /\ m.room = room
  BY <1>5, <1>6, <1>12
<1>14. d = "LIKE" /\ Swipe(v, u, "LIKE") \in swipes => room # NoRoom
  BY <1>1, <1>2 DEF KnowsRoom, Returned
<1>15. ASSUME NEW t \in Handlers PROVE KnowsRoom(tx[t])'
  <2>1. CASE t = s
    BY <2>1, <1>7 DEF KnowsRoom, NoTx, Owns
  <2>2. CASE t # s
    <3>1. tx'[t] = tx[t] /\ KnowsRoom(tx[t]) /\ Knows(tx[t])
      BY <1>7, <2>2 DEF RoomInv, SwipeInv
    <3>2. Owns(tx[t]) => tx[t].room \notin rooms'
      BY <1>6, <2>2, <3>1 DEF KnowsRoom, RoomInv, OwnRoomsDiffer, Owns
    <3>3. \A m \in MatchOf(PairOf(tx[t])) : m \in MatchOf(PairOf(tx[t]))'
      BY <1>6, <3>1 DEF MatchOf, PairOf, canonicalPair
    <3>4. tx[t].stage = "commit" /\ Returned(tx[t])' => Returned(tx[t])
      <4>1. SUFFICES ASSUME tx[t].stage = "commit" PROVE Returned(tx[t])' => Returned(tx[t])
        OBVIOUS
      <4>2. PairOf(tx[t]) # {u, v}
        BY <1>1, <1>4, <2>2, <4>1 DEF SwipeInv, LockIsExclusive, Held
      <4>3. Swipe(tx[t].target, tx[t].source, "LIKE") \in swipes' =>
              Swipe(tx[t].target, tx[t].source, "LIKE") \in swipes
        BY <1>10, <4>2 DEF PairOf, canonicalPair
      <4> QED BY <3>1, <4>3 DEF Returned, Swipe
    <3> QED BY <3>1, <3>2, <3>3, <3>4 DEF KnowsRoom, Owns
  <2> QED BY <2>1, <2>2
<1>16. OwnRoomsDiffer'
  BY <1>7 DEF RoomInv, OwnRoomsDiffer, Owns, NoTx
<1>17. RoomsAreOwned'
  <2>1. /\ \A r \in rooms' : \E m \in matches' : m.room = r
        /\ \A m \in matches' : m.room \in rooms'
    BY <1>5, <1>6 DEF RoomInv, RoomsAreOwned
  <2>2. ASSUME NEW m \in matches', NEW n \in matches', m.room = n.room PROVE m = n
    BY <2>2, <1>5, <1>6, <1>11 DEF RoomInv, RoomsAreOwned
  <2> QED BY <2>1, <2>2 DEF RoomsAreOwned
<1>18. LikesAreMembers'
  <2>1. SUFFICES ASSUME NEW m \in matches',
                        \A a, b \in m.users : a # b => Swipe(a, b, "LIKE") \in swipes',
                        NEW w \in m.users
                 PROVE  [room |-> m.room, user |-> w] \in members'
    BY DEF LikesAreMembers, Likes, Swipe
  <2>2. CASE room # NoRoom /\ m.users = {u, v}
    <3>1. PICK n \in matches' : n.users = {u, v} /\ n.room = room
      BY <1>13, <2>2
    <3>2. OneMutualMatch'
      BY CommitInv DEF SwipeInv
    <3>3. m.room = room
      BY <2>2, <3>1, <3>2 DEF OneMutualMatch
    <3> QED BY <2>2, <3>3, <1>6, <1>8
  <2>3. CASE room = NoRoom \/ m.users # {u, v}
    <3>1. m \in matches
      BY <2>3, <1>5, <1>6, <1>11
    <3>2. \A a, b \in m.users : a # b => Likes(a, b)
      <4>1. SUFFICES ASSUME NEW a \in m.users, NEW b \in m.users, a # b,
                            Swipe(a, b, "LIKE") \notin swipes
                     PROVE  FALSE
        BY DEF Likes
      <4>2. a = u /\ b = v /\ d = "LIKE" /\ Swipe(b, a, "LIKE") \in swipes'
        BY <1>10, <2>1, <4>1
      <4>3. Swipe(v, u, "LIKE") \in swipes
        BY <1>2, <1>10, <4>2
      <4>4. room # NoRoom
        BY <1>14, <4>2, <4>3
      <4>5. m.users = {u, v}
        BY <3>1, <4>1, <4>2 DEF RoomInv, MatchesArePairs
      <4> QED BY <2>3, <4>4, <4>5
    <3> QED BY <3>1, <3>2, <1>6 DEF RoomInv, LikesAreMembers
  <2> QED BY <2>2, <2>3
<1>19. MatchesArePairs'
  BY <1>5, <1>6 DEF RoomInv, MatchesArePairs
<1>20. ToldLikesAreStored'
  BY <1>5, <1>6, <1>9 DEF RoomInv, ToldLikesAreStored, Likes, Swipe
<1>21. LikesAreTold'
  <2>1. SUFFICES ASSUME NEW a \in told', NEW b \in told',
                        a.source = b.target, a.target = b.source,
                        a.direction = "LIKE", b.direction = "LIKE"
                 PROVE  \E c \in told' : {c.source, c.target} = {a.source, a.target}
                                        /\ c.room # NoRoom
    BY DEF LikesAreTold
  <2>2. CASE a \in told /\ b \in told
    BY <2>1, <2>2, <1>6 DEF RoomInv, LikesAreTold
  <2>3. CASE ~(a \in told /\ b \in told)
    <3>1. PICK c \in {a, b} : c \in told' /\ c = answer
      BY <2>3, <1>6
    <3>2. PICK o \in {a, b} : o # c /\ o.source = v /\ o.target = u
      BY <2>1, <3>1, <1>2, <1>5
    <3>3. o \in told /\ o.direction = "LIKE" /\ d = "LIKE"
      BY <2>1, <3>1, <3>2, <1>5, <1>6
    <3>4. Swipe(v, u, "LIKE") \in swipes
      BY <3>2, <3>3 DEF RoomInv, ToldLikesAreStored, Likes
    <3>5. {c.source, c.target} = {a.source, a.target}
      BY <2>1, <3>1
    <3> QED BY <3>1, <3>3, <3>4, <3>5, <1>5, <1>14
  <2> QED BY <2>2, <2>3
<1>22. ToldRoomsAreMatches'
  <2>1. \A a \in told : a.room # NoRoom =>
          \E m \in matches' : m.users = {a.source, a.target} /\ m.room = a.room
    BY <1>6 DEF RoomInv, ToldRoomsAreMatches
  <2> QED BY <2>1, <1>5, <1>6, <1>13 DEF ToldRoomsAreMatches
<1> QED BY <1>15, <1>16, <1>17, <1>18, <1>19, <1>20, <1>21, <1>22 DEF RoomInv

\* A match of a writer without the lock: it has a room of its own, and the pair
\* does not like each other yet, or it would have had a match.
LEMMA ForeignRooms ==
  ASSUME TypeOK, SwipeInv, RoomInv, NEW u \in Users, NEW v \in Users, NEW r \in Rooms,
         ForeignMatch(u, v, r)
  PROVE  RoomInv'
<1> DEFINE match == [pair |-> canonicalPair(u, v), users |-> {u, v}, room |-> r, foreign |-> TRUE]
<1>1. match.pair = {u, v} /\ match.users = {u, v} /\ match.room = r
  BY DEF canonicalPair
<1>2. /\ u # v /\ MatchOf({u, v}) = {} /\ r \notin rooms
      /\ \A t \in Handlers : r # tx[t].room
      /\ matches' = matches \cup {match} /\ rooms' = rooms \cup {r}
      /\ swipes' = swipes /\ members' = members /\ tx' = tx /\ told' = told
  BY DEF ForeignMatch, canonicalPair
<1> HIDE DEF match
<1>3. ASSUME NEW t \in Handlers PROVE KnowsRoom(tx[t])'
  <2>1. \A m \in MatchOf(PairOf(tx[t])) : m \in MatchOf(PairOf(tx[t]))'
    BY <1>2 DEF MatchOf, PairOf, canonicalPair
  <2>2. Returned(tx[t])' <=> Returned(tx[t])
    BY <1>2 DEF Returned, Swipe
  <2>3. KnowsRoom(tx[t]) /\ tx' = tx /\ tx[t].room # r
    BY <1>2 DEF RoomInv
  <2> QED BY <1>2, <2>1, <2>2, <2>3 DEF KnowsRoom, Owns
<1>4. OwnRoomsDiffer' /\ MatchesArePairs'
  BY <1>1, <1>2 DEF RoomInv, OwnRoomsDiffer, Owns, MatchesArePairs
<1>5. ToldLikesAreStored'
  BY <1>2 DEF RoomInv, ToldLikesAreStored, Likes, Swipe
<1>6. LikesAreTold'
  BY <1>2 DEF RoomInv, LikesAreTold
<1>7. ToldRoomsAreMatches'
  BY <1>2 DEF RoomInv, ToldRoomsAreMatches
<1>8. RoomsAreOwned'
  BY <1>1, <1>2 DEF RoomInv, RoomsAreOwned
<1>9. LikesAreMembers'
  <2>1. ~(Likes(u, v) /\ Likes(v, u))
    <3>1. \A m \in matches : m.users # {u, v}
      BY <1>2 DEF MatchOf, SwipeInv, MatchesAreKeyed
    <3> QED BY <1>2, <3>1 DEF SwipeInv, NoMissedMatch
  <2>2. \A a, b : Likes(a, b)' <=> Likes(a, b)
    BY <1>2 DEF Likes, Swipe
  <2>3. ASSUME NEW m \in matches', \A a, b \in m.users : a # b => Likes(a, b)'
        PROVE  m \in matches
    BY <1>1, <1>2, <2>1, <2>2, <2>3
  <2> QED BY <1>2, <2>2, <2>3 DEF RoomInv, LikesAreMembers
<1> QED BY <1>3, <1>4, <1>5, <1>6, <1>7, <1>8, <1>9 DEF RoomInv

LEMMA RoomNext == TypeOK /\ SwipeInv /\ RoomInv /\ [Next]_vars => RoomInv'
<1> SUFFICES ASSUME TypeOK, SwipeInv, RoomInv, [Next]_vars PROVE RoomInv'
  OBVIOUS
<1>1. CASE UNCHANGED vars
  <2>1. /\ UNCHANGED <<tables, told>> /\ tx' = tx
    BY <1>1 DEF vars, tables
  <2>2. /\ swipes' = swipes /\ matches' = matches /\ rooms' = rooms
        /\ members' = members /\ told' = told
    BY <2>1 DEF tables
  <2>3. ASSUME NEW t \in Handlers PROVE KnowsRoom(tx[t])'
    <3>1. Returned(tx[t])' <=> Returned(tx[t])
      BY <2>1, <2>2 DEF Returned, Swipe
    <3>2. MatchOf(PairOf(tx[t]))' = MatchOf(PairOf(tx[t]))
      BY <2>1, <2>2 DEF MatchOf, PairOf, canonicalPair
    <3>3. KnowsRoom(tx[t])
      BY DEF RoomInv
    <3> QED BY <2>1, <2>2, <3>1, <3>2, <3>3 DEF KnowsRoom, Owns
  <2>4. OwnRoomsDiffer'
    BY <2>1 DEF RoomInv, OwnRoomsDiffer, Owns
  <2> QED BY <2>2, <2>3, <2>4, SameTables DEF RoomInv
<1>2. CASE \E s \in Handlers : Commit(s)
  BY <1>2, CommitRooms
<1>3. CASE \E s \in Handlers : findMatch(s) \/ insertMatch(s)
  BY <1>3, FoundRooms
<1>4. CASE \E u, v \in Users, r \in Rooms : ForeignMatch(u, v, r)
  BY <1>4, ForeignRooms
<1>5. CASE \E s \in Handlers :
             \/ \E u, v \in Users, d \in Directions : Request(s, u, v, d)
             \/ AcquireLock(s) \/ insertOrResolveSwipe(s) \/ CheckReciprocal(s)
             \/ AddMembers(s) \/ Refuse(s) \/ Abort(s)
  BY <1>5, MoveRooms
<1> QED BY <1>1, <1>2, <1>3, <1>4, <1>5, Zenon DEF Next

\* A match leaves behind its one room with both users in it once they like each
\* other, no room without a match, and the news for at least one of them,
\* whoever created the match, and whatever failed or was lost on the way.
THEOREM MatchesStayWhole == Spec => []MatchesAreWhole
<1>1. TypeOK /\ RoomInv => MatchesAreWhole
  <2> SUFFICES ASSUME TypeOK, RoomInv PROVE RoomsFollowMatches /\ SomeoneIsTold
    BY DEF MatchesAreWhole
  <2>1. ASSUME NEW r \in rooms PROVE Cardinality({m \in matches : m.room = r}) = 1
    <3>1. PICK n \in matches : n.room = r
      BY DEF RoomInv, RoomsAreOwned
    <3>2. {m \in matches : m.room = r} = {n}
      BY <3>1 DEF RoomInv, RoomsAreOwned
    <3> QED BY <3>2, FS_Singleton
  <2>2. RoomsFollowMatches
    BY <2>1 DEF RoomsFollowMatches, RoomInv, RoomsAreOwned, LikesAreMembers
  <2>3. SomeoneIsTold
    BY DEF SomeoneIsTold, RoomInv, LikesAreTold, ToldRoomsAreMatches
  <2> QED BY <2>2, <2>3
<1>2. TypeOK /\ SwipeInv /\ RoomInv /\ [Next]_vars => TypeOK' /\ SwipeInv' /\ RoomInv'
  BY InvNext, RoomNext
<1>3. Spec => [](TypeOK /\ SwipeInv /\ RoomInv)
  BY InvInit, RoomInit, <1>2, PTL DEF Spec
<1> QED BY <1>1, <1>3, PTL
=============================================================================
