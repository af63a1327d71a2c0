-------------------------- MODULE EventDetailProofs --------------------------
(***************************************************************************)
(* Proofs about the detail view of an Event: what it offers and shows      *)
(* agrees with the commands in every reachable state of EventGroup.        *)
(***************************************************************************)
EXTENDS EventDetail, EventGroupProofs

USE ConstantsAssumption, AccountsAssumption, ConfigsAssumption
USE DEF Requests, IsPending, Overdue, IsActive, ConstantsAssumption, AccountsAssumption,
        ConfigsAssumption

-----------------------------------------------------------------------------
(* The largest number, as the view computes it.                            *)

\* Of two numbers.
LEMMA MaxOfTwo ==
  ASSUME NEW a \in Int, NEW b \in Int
  PROVE  Max({a, b}) = IF a >= b THEN a ELSE b
<1> DEFINE m == IF a >= b THEN a ELSE b
<1>1. m \in {a, b} /\ \A y \in {a, b} : m >= y
  OBVIOUS
<1>2. \A x \in {a, b} : (\A y \in {a, b} : x >= y) => x = m
  OBVIOUS
<1> HIDE DEF m
<1>3. Max({a, b}) = m
  BY <1>1, <1>2 DEF Max
<1> QED BY <1>3 DEF m

\* Of a set that has one.
LEMMA MaxIsTheLargest ==
  ASSUME NEW S \in SUBSET Int, NEW m \in S, \A x \in S : m >= x
  PROVE  Max(S) = m
<1>1. \A x \in S : (\A y \in S : x >= y) => x = m
  OBVIOUS
<1> QED BY <1>1 DEF Max

-----------------------------------------------------------------------------
(* What the view relies on beyond the group invariant.                     *)

\* Rows are filled in their order.
RowsInOrder ==
  \A q, r \in Requests :
    q < r /\ requests[r].status # "NONE" => requests[q].status # "NONE"

\* A request that waits is the newest of its user.
PendingIsLatest ==
  \A q, r \in Requests :
    IsPending(r) /\ requests[q].user = requests[r].user => q <= r

\* The snapshot tells why a request waits or did not have to.
SnapshotExplains ==
  \A r \in Requests :
    LET free == requests[r].capacityMaxAtRequest - requests[r].reservedSeatCountAtRequest
    IN  /\ requests[r].status = "APPROVED" /\ requests[r].decidedByUserId = NoUser =>
             ~config.joinApprovalRequired /\ requestedSeats(r) <= free
        /\ IsPending(r) /\ ~config.joinApprovalRequired => requestedSeats(r) > free

\* The configuration of an Event that exists was validated.
ConfigIsValid == event.status # "NONE" => ValidConfig(config)

ViewInv == RowsInOrder /\ PendingIsLatest /\ SnapshotExplains /\ ConfigIsValid

\* With no Event there is nothing to view.
LEMMA ViewInit == Init => ViewInv
BY DEF Init, ViewInv, RowsInOrder, PendingIsLatest, SnapshotExplains, ConfigIsValid, NoRequest

\* Closing requests keeps what the view relies on.
LEMMA ClosingKeepsView ==
  ASSUME ViewInv, \A q \in Requests : Kept(requests[q], requests'[q]),
         UNCHANGED config \/ \A q \in Requests : requests[q].status = "NONE",
         ConfigIsValid'
  PROVE  ViewInv'
<1> USE DEF ViewInv
<1>1. RowsInOrder'
  BY DEF RowsInOrder, Kept
<1>2. PendingIsLatest'
  BY DEF PendingIsLatest, Kept, SameRequest
<1>3. SnapshotExplains'
  BY DEF SnapshotExplains, requestedSeats, Kept, SameRequest
<1> QED BY <1>1, <1>2, <1>3

\* So does inserting or admitting a waiting request whose own snapshot
\* explains what became of it.
LEMMA WaitingKeepsView ==
  ASSUME Typed, GroupInv, ViewInv, NEW rows, NEW r \in Requests, Awaiting(rows, r),
         requests[r].status = "NONE" => NextRow(r), event.status # "NONE", UNCHANGED config,
         requests'[r].status \in {"PENDING", "APPROVED"}, SameRequest(rows[r], requests'[r]),
         \A q \in Requests \ {r} : requests'[q] = rows[q],
         LET free == rows[r].capacityMaxAtRequest - rows[r].reservedSeatCountAtRequest
         IN  IF requests'[r].status = "PENDING"
             THEN ~config.joinApprovalRequired => 1 + rows[r].guestCount > free
             ELSE requests'[r].decidedByUserId = NoUser =>
                    ~config.joinApprovalRequired /\ 1 + rows[r].guestCount <= free
  PROVE  ViewInv'
<1> USE DEF ViewInv
<1>1. \A q \in Requests \ {r} :
        /\ Kept(requests[q], requests'[q])
        /\ requests'[q].user = requests'[r].user => requests'[q].status # "PENDING"
  BY DEF Awaiting, SameRequest
<1>2. /\ requests[r].status \in {"NONE", "PENDING"} /\ requests'[r].user \in Users
      /\ requests[r].status = "PENDING" => requests'[r].user = requests[r].user
  BY DEF Awaiting, SameRequest
<1>3. RowsInOrder'
  <2> SUFFICES ASSUME NEW p \in Requests, NEW q \in Requests, p < q,
                      requests'[q].status # "NONE"
               PROVE  requests'[p].status # "NONE"
    BY DEF RowsInOrder
  <2>1. \A s \in Requests \ {r} : requests'[s].status = "NONE" <=> requests[s].status = "NONE"
    BY <1>1 DEF Kept
  <2>2. CASE p = r
    BY <2>2
  <2>3. CASE p # r /\ q = r
    BY <1>2, <2>1, <2>3 DEF RowsInOrder, NextRow
  <2>4. CASE p # r /\ q # r
    BY <2>1, <2>4 DEF RowsInOrder
  <2> QED BY <2>2, <2>3, <2>4
<1>4. PendingIsLatest'
  <2> SUFFICES ASSUME NEW q \in Requests, NEW s \in Requests, requests'[s].status = "PENDING",
                      requests'[q].user = requests'[s].user
               PROVE  q <= s
    BY DEF PendingIsLatest
  <2>1. CASE s # r /\ q # r
    BY <1>1, <2>1 DEF PendingIsLatest, Kept, SameRequest
  <2>2. CASE s # r /\ q = r
    BY <1>1, <2>2
  <2>3. CASE s = r
    <3> SUFFICES ASSUME r < q PROVE FALSE
      BY <2>3
    <3>1. requests'[q].user = requests[q].user
      BY <1>1 DEF Kept, SameRequest
    <3>2. CASE requests[r].status = "PENDING"
      BY <1>2, <2>3, <3>1, <3>2 DEF PendingIsLatest
    <3>3. CASE requests[r].status = "NONE"
      <4>1. requests[q].status = "NONE"
        BY <3>3 DEF RowsInOrder
      <4>2. requests[q].user = NoUser
        BY <4>1 DEF GroupInv, EvidenceFollowsDecision, NoRequest
      <4> QED BY <1>2, <2>3, <3>1, <4>2
    <3> QED BY <1>2, <3>2, <3>3
  <2> QED BY <2>1, <2>2, <2>3
<1>5. SnapshotExplains'
  <2>1. ASSUME NEW q \in Requests \ {r}
        PROVE  LET free == requests'[q].capacityMaxAtRequest
                             - requests'[q].reservedSeatCountAtRequest
               IN  /\ requests'[q].status = "APPROVED" /\ requests'[q].decidedByUserId = NoUser =>
                        ~config.joinApprovalRequired /\ 1 + requests'[q].guestCount <= free
                   /\ requests'[q].status = "PENDING" /\ ~config.joinApprovalRequired =>
                        1 + requests'[q].guestCount > free
    BY <1>1, <2>1 DEF SnapshotExplains, requestedSeats, Kept, SameRequest
  <2>2. LET free == requests'[r].capacityMaxAtRequest - requests'[r].reservedSeatCountAtRequest
        IN  /\ requests'[r].status = "APPROVED" /\ requests'[r].decidedByUserId = NoUser =>
                 ~config.joinApprovalRequired /\ 1 + requests'[r].guestCount <= free
            /\ requests'[r].status = "PENDING" /\ ~config.joinApprovalRequired =>
                 1 + requests'[r].guestCount > free
    BY DEF SameRequest
  <2> QED BY <2>1, <2>2 DEF SnapshotExplains, requestedSeats
<1>6. ConfigIsValid'
  BY DEF ConfigIsValid, ValidConfig, assertEventCapacityMin
<1> QED BY <1>3, <1>4, <1>5, <1>6

\* What the view relies on is inductive, given the group invariant.
LEMMA ViewNext == Typed /\ GroupInv /\ ViewInv /\ [Next]_vars => ViewInv'
<1> SUFFICES ASSUME Typed, GroupInv, ViewInv, [Next]_vars PROVE ViewInv'
  OBVIOUS
<1>1. /\ event \in EventRow /\ event.status \in EventStatuses
      /\ event.capacityMax \in Int /\ event.reservedSeatCount \in Int
      /\ \A r \in Requests : requests[r].status # "NONE" => event.status # "NONE"
  BY DEF Typed, TypeOK, EventRow, GroupInv, HiddenEventHasNoGroup
<1>2. ASSUME UNCHANGED config, event.status # "NONE" PROVE ConfigIsValid'
  BY <1>2 DEF ViewInv, ConfigIsValid, ValidConfig, assertEventCapacityMin
<1>3. ASSUME NEW u \in Users, NEW g \in GuestCounts, NEW ok \in BOOLEAN, Create(u, g, ok)
      PROVE  ViewInv'
  <2>1. UNCHANGED config /\ event.status # "NONE"
    BY <1>3 DEF Create, Managed, lockEvent
  <2>2. CASE /\ \A q \in Requests : Kept(requests[q], requests'[q])
             /\ UNCHANGED <<event, participants, room, members>>
    BY <1>2, <2>1, <2>2, ClosingKeepsView
  <2>3. ASSUME NEW r \in Requests, NEW rows, Awaiting(rows, r), NextRow(r),
               rows[r] = NewRequest(u, g),
               \/ /\ config.joinApprovalRequired \/ ~PartyFits(g)
                  /\ requests' = rows
                  /\ UNCHANGED <<event, participants, room, members>>
               \/ /\ ~config.joinApprovalRequired /\ PartyFits(g)
                  /\ \E begin \in BeginTimes(0) :
                       approveAndParticipate(rows, r, event.capacityMax, NoUser, begin)
        PROVE  ViewInv'
    <3>1. /\ rows[r].capacityMaxAtRequest = event.capacityMax
          /\ rows[r].reservedSeatCountAtRequest = event.reservedSeatCount
          /\ rows[r].guestCount = g /\ g \in Int /\ rows[r].status = "PENDING"
      BY <2>3 DEF NewRequest
    <3>2. PartyFits(g) <=> 1 + g <= event.capacityMax - event.reservedSeatCount
      BY DEF PartyFits
    <3>3. CASE requests' = rows /\ (config.joinApprovalRequired \/ ~PartyFits(g))
      <4>1. SameRequest(rows[r], requests'[r]) /\ requests'[r].status = "PENDING"
        BY <3>1, <3>3 DEF SameRequest
      <4>2. ~config.joinApprovalRequired =>
              1 + rows[r].guestCount
                > rows[r].capacityMaxAtRequest - rows[r].reservedSeatCountAtRequest
        BY <1>1, <3>1, <3>2, <3>3
      <4> QED BY <2>1, <2>3, <3>3, <4>1, <4>2, WaitingKeepsView
    <3>4. CASE /\ ~config.joinApprovalRequired /\ PartyFits(g)
               /\ \E begin \in BeginTimes(0) :
                    approveAndParticipate(rows, r, event.capacityMax, NoUser, begin)
      <4>1. /\ SameRequest(rows[r], requests'[r]) /\ requests'[r].status = "APPROVED"
            /\ \A q \in Requests \ {r} : requests'[q] = rows[q]
        BY <2>3, <3>4, AdmissionEffect DEF Awaiting
      <4>2. /\ ~config.joinApprovalRequired
            /\ 1 + rows[r].guestCount
                 <= rows[r].capacityMaxAtRequest - rows[r].reservedSeatCountAtRequest
        BY <3>1, <3>2, <3>4
      <4> QED BY <2>1, <2>3, <4>1, <4>2, WaitingKeepsView
    <3> QED BY <2>3, <3>3, <3>4
  <2> QED BY <1>3, <2>2, <2>3, CreateSteps
<1>4. ASSUME NEW r \in Requests, Cancel(r) \/ Reject(r) \/ ExpireOnTouch(r)
      PROVE  ViewInv'
  <2>1. /\ UNCHANGED <<config, event>> /\ IsPending(r)
        /\ \A q \in Requests : Kept(requests[q], requests'[q])
    BY <1>4, ClosingSteps DEF Cancel, Reject, ExpireOnTouch
  <2> QED BY <1>1, <1>2, <2>1, ClosingKeepsView
<1>5. ASSUME NEW r \in Requests, NEW ok \in BOOLEAN,
             Approve(r, ok) \/ ApproveWithCapacityOverride(r, ok)
      PROVE  ViewInv'
  <2>1. CASE ExpireOnTouch(r)
    BY <1>4, <2>1
  <2>2. CASE ~ExpireOnTouch(r)
    <3>1. PICK rows \in [Requests -> RequestRow], capacity \in Int, begin \in Int :
            /\ Awaiting(rows, r) /\ requests[r].status = "PENDING"
            /\ approveAndParticipate(rows, r, capacity, Host, begin)
      BY <1>5, <2>2, ApprovalAdmits
    <3>2. UNCHANGED config
      BY <1>5, <2>2, ApprovalAdmits
    <3>3. /\ SameRequest(rows[r], requests'[r]) /\ requests'[r].status = "APPROVED"
          /\ requests'[r].decidedByUserId = Host
          /\ \A q \in Requests \ {r} : requests'[q] = rows[q]
      BY <3>1, AdmissionEffect
    <3>4. Host # NoUser
      OBVIOUS
    <3> QED BY <1>1, <3>1, <3>2, <3>3, <3>4, WaitingKeepsView
  <2> QED BY <2>1, <2>2
<1>6. ASSUME NEW u \in Users, Leave(u) \/ Remove(u) PROVE ViewInv'
  <2>1. UNCHANGED <<config, requests>> /\ event.status # "NONE"
    BY <1>6 DEF Leave, Remove, cancelParticipation, assertLeavable, OpenForMembership
  <2> QED BY <1>2, <2>1, ClosingKeepsView DEF Kept
<1>7. CASE \/ \E c \in Configs : CreateEvent(c) \/ SeedSession(c) \/ UpdateEvent(c)
           \/ PublishEvent \/ CancelEvent \/ AdvanceLifecycle
           \/ LoseProvider \/ Tick
  <2>1. /\ UNCHANGED requests
        /\ UNCHANGED config \/ event.status \in {"NONE", "DRAFT"}
    BY <1>7, LifecycleSteps
  <2>2. UNCHANGED config \/ \A q \in Requests : requests[q].status = "NONE"
    BY <2>1 DEF GroupInv, HiddenEventHasNoGroup
  <2>3. ConfigIsValid'
    <3>1. CASE \E c \in Configs : CreateEvent(c) \/ SeedSession(c) \/ UpdateEvent(c)
      <4>1. PICK c \in Configs : config' = c /\ ValidConfig(c)
        BY <3>1 DEF CreateEvent, SeedSession, UpdateEvent, InsertDraft
      <4>2. ValidConfig(config)'
        BY <4>1 DEF ValidConfig, assertEventCapacityMin
      <4> QED BY <4>2 DEF ConfigIsValid
    <3>2. CASE PublishEvent \/ CancelEvent \/ AdvanceLifecycle
      <4>1. UNCHANGED config /\ event.status # "NONE"
        BY <3>2 DEF PublishEvent, CancelEvent, AdvanceLifecycle, requireOwnedEvent, Managed,
                    lockEvent, canTransition, Transitions
      <4> QED BY <1>2, <4>1
    <3>3. CASE LoseProvider \/ Tick
      BY <1>2, <3>3 DEF LoseProvider, Tick, ConfigIsValid
    <3> QED BY <1>7, <3>1, <3>2, <3>3
  <2> QED BY <2>1, <2>2, <2>3, ClosingKeepsView DEF Kept
<1>8. CASE UNCHANGED vars
  <2>1. UNCHANGED <<config, event, requests>>
    BY <1>8 DEF vars
  <2>2. ConfigIsValid'
    BY <1>2, <2>1 DEF ConfigIsValid
  <2> QED BY <2>1, <2>2, ClosingKeepsView DEF Kept
<1> QED BY <1>3, <1>4, <1>5, <1>6, <1>7, <1>8 DEF Next

-----------------------------------------------------------------------------
(* The button.                                                             *)

\* Request numbers are bounded, so every user has a latest one, or 0.
LEMMA LatestExists ==
  ASSUME NEW S \in SUBSET (0 .. MaxRequests), S # {}
  PROVE  \E m \in S : \A x \in S : m >= x
<1> DEFINE Range0 == 0 .. MaxRequests
           Above(x) == x .. MaxRequests
           T == {Above(x) : x \in S}
<1>1. IsFiniteSet(Range0)
  BY FS_Interval
<1>2. T \subseteq FiniteSubsetsOf(Range0)
  <2>1. ASSUME NEW x \in S PROVE Above(x) \in SUBSET Range0
    OBVIOUS
  <2> QED BY <1>1, <2>1, FS_FiniteSubsetsOfFinite
<1>3. T # {}
  OBVIOUS
<1> HIDE DEF T
<1>4. PICK a \in T : \A b \in T : ~(<<b, a>> \in StrictSubsetOrdering(Range0))
  BY <1>2, <1>3, FS_StrictSubsetOrderingWellFounded, WFMin
<1>5. PICK m \in S : a = Above(m)
  BY DEF T
<1>6. ASSUME NEW x \in S, m < x PROVE FALSE
  <2>1. Above(x) \in T
    BY DEF T
  <2>2. Above(x) \subseteq Above(m) /\ Above(m) \subseteq Range0 /\ m \in Above(m) \ Above(x)
    BY <1>6
  <2>3. <<Above(x), a>> \in StrictSubsetOrdering(Range0)
    <3> HIDE DEF Above, Range0
    <3> QED BY <1>5, <2>2 DEF StrictSubsetOrdering
  <2> QED BY <1>4, <2>1, <2>3
<1> QED BY <1>6

\* The view awaits a decision exactly while the commands see a live request.
LEMMA AwaitsLivePending ==
  ASSUME Typed, ViewInv, NEW u \in Users
  PROVE  AwaitsDecision(u) <=> LivePending(u)
<1> DEFINE S == {0} \cup {r \in Requests : requests[r].user = u}
<1>1. S \in SUBSET (0 .. MaxRequests) /\ S # {}
  OBVIOUS
<1>2. PICK m \in S : \A x \in S : m >= x
  BY <1>1, LatestExists
<1>3. latestJoinRequest(u) = m
  <2>1. S \in SUBSET Int
    BY <1>1
  <2>2. Max(S) = m
    <3> HIDE DEF S
    <3> QED BY <1>2, <2>1, MaxIsTheLargest
  <2> QED BY <2>2 DEF latestJoinRequest
<1>4. AwaitsDecision(u) <=> m # 0 /\ requests[m].status = "PENDING" /\ ~Overdue(m)
  BY <1>3 DEF AwaitsDecision, effectiveJoinRequestStatus
<1>5. ASSUME LivePending(u) PROVE m # 0 /\ requests[m].status = "PENDING" /\ ~Overdue(m)
  <2>1. PICK r \in Requests : requests[r].user = u /\ IsPending(r) /\ ~Overdue(r)
    BY <1>5 DEF LivePending
  <2>2. \A q \in S : q <= r
    BY <2>1 DEF ViewInv, PendingIsLatest
  <2>3. m = r
    BY <1>2, <2>1, <2>2
  <2> QED BY <2>1, <2>3
<1>6. ASSUME m # 0, requests[m].status = "PENDING", ~Overdue(m) PROVE LivePending(u)
  BY <1>6 DEF LivePending
<1> QED BY <1>4, <1>5, <1>6

\* The button offers what the commands would do.
LEMMA ButtonHolds ==
  ASSUME Typed, GroupInv, ViewInv
  PROVE  ButtonMatchesCommands
<1> SUFFICES ASSUME NEW u \in Users, canViewEventDetail(u)
             PROVE  LET action == primaryAction(u, TRUE)
                    IN  /\ action = "REQUEST_TO_JOIN" <=>
                             Managed /\ assertVisibleToRequester(u) /\ ~LivePending(u)
                             /\ MayRequest(u)
                        /\ action = "AWAITING_APPROVAL" <=> LivePending(u)
                        /\ action = "OPEN_CHAT" => chatEntry(u) /\ u \in members
                        /\ action # "MANAGE"
  BY DEF ButtonMatchesCommands
<1>1. ~isManager(u)
  BY DEF isManager
<1>2. AwaitsDecision(u) <=> LivePending(u)
  BY AwaitsLivePending
<1>3. LivePending(u) => ~ActiveMember(u)
  BY DEF LivePending, ActiveMember, ActiveRows, GroupInv, PendingIsNoMember
<1>4. canRequestToJoin(u, TRUE) <=>
        /\ ~ActiveMember(u) /\ ~LivePending(u) /\ Managed /\ assertJoinable
  BY <1>1, <1>2 DEF canRequestToJoin, JoinAvailable, assertJoinable
<1>5. primaryAction(u, TRUE) =
        IF ActiveMember(u) THEN "OPEN_CHAT"
        ELSE IF LivePending(u) THEN "AWAITING_APPROVAL"
        ELSE IF canRequestToJoin(u, TRUE) THEN "REQUEST_TO_JOIN" ELSE "NONE"
  BY <1>1, <1>2, <1>4 DEF primaryAction
<1>6. ~ActiveMember(u) /\ ~LivePending(u) /\ OpenForMembership => assertVisibleToRequester(u)
  BY <1>1, <1>2 DEF canViewEventDetail, assertVisibleToRequester, OpenForMembership
<1>7. ActiveMember(u) => room /\ u \in members
  BY DEF ActiveMember, GroupInv, MembersHaveRoom, ChatMatchesGroup
<1>8. CASE ActiveMember(u)
  BY <1>3, <1>5, <1>7, <1>8 DEF chatEntry, MayRequest
<1>9. CASE ~ActiveMember(u)
  BY <1>4, <1>5, <1>6, <1>9 DEF MayRequest, assertJoinable
<1> QED BY <1>8, <1>9

-----------------------------------------------------------------------------
(* What is shown of the group and of its requests.                         *)

\* The capacity only ever grew from the one the host submitted.
LEMMA CapacityGrew ==
  ASSUME CountsInv, event.status # "NONE"
  PROVE  /\ event.capacityMax >= config.capacityMax
         /\ event.reservedSeatCount <= event.capacityMax
         /\ event.reservedSeatCount = HostSeats(config) + Cardinality(MemberSeats)
<1>1. Cardinality(AddedSeats) \in Nat
  BY FS_CardinalityType DEF CountsInv, RecountInv
<1>2. event.capacityMax = config.capacityMax + Cardinality(AddedSeats)
  BY DEF CountsInv, RecountInv, OverridesExplainCapacity
<1>3. config.capacityMax \in Int
  BY DEF CountsInv, Typed, TypeOK, Config
<1> QED BY <1>1, <1>2, <1>3 DEF CountsInv, RecountInv, SeatsInv, SeatsWithinCapacity,
                                CountersMatchRows

\* The group state is earned by the people behind the counter.
LEMMA GroupStateHolds ==
  ASSUME CountsInv, ViewInv
  PROVE  GroupStateIsEarned
<1> DEFINE people == HostSeats(config) + Cardinality(MemberSeats)
           reserved == event.reservedSeatCount
           capacity == event.capacityMax
           minimum == config.capacityMin
<1>1. reserved \in Int /\ capacity \in Int /\ minimum \in Int /\ minimum >= 0
  BY DEF CountsInv, Typed, TypeOK, EventRow, Config
<1>2. /\ toPublicEventDetail.groupState = groupState
      /\ toPublicEventDetail.seatsToConfirm = seatsToConfirm
      /\ toPublicEventDetail.remainingSeats = remainingSeats
  BY DEF toPublicEventDetail
<1>3. CASE event.status = "NONE"
  <2>1. groupState = "NONE"
    BY <1>3 DEF groupState
  <2> QED BY <1>2, <1>3, <2>1 DEF GroupStateIsEarned
<1>4. CASE event.status # "NONE"
  <2>1. people = reserved /\ reserved <= capacity /\ minimum <= capacity
    <3>1. minimum <= config.capacityMax /\ config.capacityMax \in Int
      BY <1>4 DEF ViewInv, ConfigIsValid, ValidConfig, assertEventCapacityMin,
                  CountsInv, Typed, TypeOK, Config
    <3> QED BY <1>1, <1>4, <3>1, CapacityGrew
  <2>2. remainingSeats = capacity - reserved
    BY <1>1, <2>1, MaxOfTwo DEF remainingSeats
  <2>3. seatsToConfirm = IF minimum > reserved THEN minimum - reserved ELSE 0
    <3>1. minimum - reserved \in Int
      BY <1>1
    <3>2. Max({minimum - reserved, 0}) = IF minimum - reserved >= 0 THEN minimum - reserved ELSE 0
      BY <3>1, MaxOfTwo
    <3>3. CASE minimum = 0
      <4>1. reserved >= 0
        <5>1. Cardinality(MemberSeats) \in Nat
          BY FS_CardinalityType DEF CountsInv, RecountInv
        <5>2. HostSeats(config) \in Nat
          BY DEF HostSeats, CountsInv, Typed, TypeOK, Config
        <5> QED BY <2>1, <5>1, <5>2
      <4> QED BY <1>1, <3>3, <4>1 DEF seatsToConfirm
    <3>4. CASE minimum # 0
      BY <1>1, <3>2, <3>4 DEF seatsToConfirm
    <3> QED BY <3>3, <3>4
  <2>4. /\ groupState = "FULL" => event.status = "FULL"
        /\ groupState = "CONFIRMED" => reserved >= minimum
        /\ groupState = "FORMING" => reserved < minimum
    BY <1>1 DEF groupState
  <2>5. event.status = "FULL" => reserved = capacity
    BY DEF CountsInv, SeatsInv, StatusTellsOccupancy
  <2> HIDE DEF people, reserved, capacity, minimum
  <2>6. /\ groupState = "CONFIRMED" => people >= minimum /\ seatsToConfirm = 0
        /\ groupState = "FULL" => people >= minimum /\ people = capacity
        /\ groupState = "FORMING" =>
             /\ people + seatsToConfirm = minimum
             /\ seatsToConfirm > 0
             /\ people + seatsToConfirm <= capacity
        /\ remainingSeats = capacity - people
    BY <1>1, <2>1, <2>2, <2>3, <2>4, <2>5
  <2> QED BY <1>2, <2>6 DEF GroupStateIsEarned, people, capacity, minimum
<1> QED BY <1>3, <1>4

\* The snapshot and the live columns tell the truth about every request.
LEMMA RequestViewsHold ==
  ASSUME CountsInv, ViewInv
  PROVE  RequestViewsAreHonest
<1> SUFFICES ASSUME NEW r \in Requests
             PROVE  /\ requests[r].status = "APPROVED" /\ requests[r].decidedByUserId = NoUser =>
                         ~config.joinApprovalRequired /\ ~exceededCapacityAtRequest(r)
                    /\ IsPending(r) /\ ~config.joinApprovalRequired =>
                         exceededCapacityAtRequest(r)
                    /\ IsPending(r) /\ currentlyFits(r) => event.status # "FULL"
  BY DEF RequestViewsAreHonest, listMine, listForHost
<1> DEFINE free == requests[r].capacityMaxAtRequest - requests[r].reservedSeatCountAtRequest
<1>1. /\ requests[r].guestCount \in Nat /\ free \in Int
      /\ event.capacityMax \in Int /\ event.reservedSeatCount \in Int
  BY DEF CountsInv, Typed, TypeOK, RequestRow, EventRow
<1>2. requestedSeats(r) \in Nat /\ requestedSeats(r) >= 1
  BY <1>1 DEF requestedSeats
<1>3. availableSeatsAtRequest(r) = IF free >= 0 THEN free ELSE 0
  <2>1. Max({0, free}) = IF 0 >= free THEN 0 ELSE free
    BY <1>1, MaxOfTwo
  <2> QED BY <1>1, <2>1 DEF availableSeatsAtRequest
<1>4. exceededCapacityAtRequest(r) <=> requestedSeats(r) > free
  BY <1>1, <1>2, <1>3 DEF exceededCapacityAtRequest
<1>5. IsPending(r) /\ currentlyFits(r) => event.status # "FULL"
  <2> SUFFICES ASSUME event.status = "FULL", currentlyFits(r) PROVE FALSE
    OBVIOUS
  <2>1. event.reservedSeatCount = event.capacityMax
    BY DEF CountsInv, SeatsInv, StatusTellsOccupancy
  <2>2. event.capacityMax - event.reservedSeatCount = 0
    BY <1>1, <2>1
  <2>3. remainingSeats = 0
    BY <2>2, MaxOfTwo DEF remainingSeats
  <2> QED BY <1>2, <2>3 DEF currentlyFits
<1>6. /\ requests[r].status = "APPROVED" /\ requests[r].decidedByUserId = NoUser =>
           ~config.joinApprovalRequired /\ requestedSeats(r) <= free
      /\ IsPending(r) /\ ~config.joinApprovalRequired => requestedSeats(r) > free
  BY DEF ViewInv, SnapshotExplains
<1> HIDE DEF free
<1> QED BY <1>1, <1>2, <1>4, <1>5, <1>6

\* What the detail view offers and shows agrees with the commands in every
\* reachable state: the button, the group state and the view of each request.
THEOREM DetailCorrect == Spec => []DetailIsHonest
<1>1. Init => ViewInv
  BY ViewInit
<1>2. CountsInv /\ ViewInv /\ [Next]_vars => ViewInv'
  BY ViewNext DEF CountsInv
<1>3. CountsInv /\ ViewInv => DetailIsHonest
  BY ButtonHolds, GroupStateHolds, RequestViewsHold DEF DetailIsHonest, CountsInv
<1> QED BY <1>1, <1>2, <1>3, CountsAlways, PTL DEF Spec

=============================================================================
