-------------------------- MODULE EventGroupProofs --------------------------
(***************************************************************************)
(* Proofs about EventGroup for every set of users, every configuration and *)
(* every bound.                                                            *)
(***************************************************************************)
EXTENDS EventGroup, FiniteSetTheorems, TLAPS

USE ConstantsAssumption, AccountsAssumption, ConfigsAssumption
USE DEF Requests, IsPending, Overdue, IsActive, activateEventMember,
        ensureEventRoom, requireOwnedEvent, assertEventCapacityMin, deactivateEventMember, ConstantsAssumption,
        AccountsAssumption, ConfigsAssumption

-----------------------------------------------------------------------------
(* Rows.                                                                   *)

\* Deciding a row, alone or with a decider or override evidence, leaves a
\* request row.
LEMMA StatusRowIsTyped ==
  ASSUME NEW row \in RequestRow, NEW s \in RequestStatuses
  PROVE  [row EXCEPT !.status = s] \in RequestRow
BY DEF RequestRow

\* The same with the decider approve() and reject() record.
LEMMA DecidedRowIsTyped ==
  ASSUME NEW row \in RequestRow, NEW s \in RequestStatuses, NEW d \in {Host, NoUser}
  PROVE  [row EXCEPT !.status = s, !.decidedByUserId = d] \in RequestRow
BY DEF RequestRow

\* The same with the evidence of a capacity override.
LEMMA OverrideRowIsTyped ==
  ASSUME NEW row \in RequestRow, NEW before \in Int, NEW after \in Int
  PROVE  [row EXCEPT !.capacityBeforeOverride = before,
                     !.capacityAfterOverride = after] \in RequestRow
BY DEF RequestRow

\* Marking overdue rows keeps a request table a request table.
LEMMA LapsedIsTyped ==
  ASSUME TypeOK, NEW u \in Users
  PROVE  Lapsed(u) \in [Requests -> RequestRow]
<1>1. \A r \in Requests : requests[r] \in RequestRow
  BY DEF TypeOK
<1>2. \A r \in Requests : [requests[r] EXCEPT !.status = "EXPIRED"] \in RequestRow
  BY <1>1, StatusRowIsTyped DEF RequestStatuses
<1> DEFINE row(r) == IF requests[r].user = u /\ IsPending(r) /\ Overdue(r)
                     THEN [requests[r] EXCEPT !.status = "EXPIRED"]
                     ELSE requests[r]
<1>3. \A r \in Requests : row(r) \in RequestRow
  BY <1>1, <1>2
<1>4. Lapsed(u) = [r \in Requests |-> row(r)]
  BY DEF Lapsed
<1> HIDE DEF row
<1> QED BY <1>3, <1>4

\* The row create() inserts is a request row.
LEMMA NewRequestIsTyped ==
  ASSUME TypeOK, NEW u \in Users, NEW g \in GuestCounts
  PROVE  NewRequest(u, g) \in RequestRow
BY DEF TypeOK, EventRow, NewRequest, RequestRow, RequestStatuses

\* What the shared approval writes has the right types.
LEMMA ApprovalIsTyped ==
  ASSUME TypeOK, NEW rows \in [Requests -> RequestRow], NEW r \in Requests,
         NEW capacity \in Int, NEW decidedBy \in {Host, NoUser}, NEW begin \in Int,
         rows[r].user \in Users,
         approveAndParticipate(rows, r, capacity, decidedBy, begin)
  PROVE  /\ event' \in EventRow
         /\ requests' \in [Requests -> RequestRow]
         /\ participants' \in [Requests -> ParticipantRow]
         /\ room' \in BOOLEAN
         /\ members' \subseteq Users \cup {Host}
<1> USE DEF approveAndParticipate
<1>1. requests' \in [Requests -> RequestRow]
  <2>1. [rows[r] EXCEPT !.status = "APPROVED", !.decidedByUserId = decidedBy]
          \in RequestRow
    BY DecidedRowIsTyped DEF RequestStatuses
  <2> QED BY <2>1
<1>2. rows[r].guestCount \in Nat
  BY DEF RequestRow
<1>3. participants' \in [Requests -> ParticipantRow]
  <2> DEFINE row == [user |-> rows[r].user, guestCount |-> rows[r].guestCount,
                     joinedAt |-> begin, state |-> "ACTIVE", cancelledByUserId |-> NoUser]
  <2>1. row \in ParticipantRow
    BY <1>2 DEF ParticipantRow
  <2> QED BY <2>1 DEF TypeOK
<1>4. event' \in EventRow
  <2>1. /\ event.status \in EventStatuses
        /\ event.reservedSeatCount \in Int /\ event.participantCount \in Int
    BY DEF TypeOK, EventRow
  <2>2. event.reservedSeatCount + (1 + rows[r].guestCount) \in Int
    BY <1>2, <2>1
  <2> QED BY <2>1, <2>2 DEF EventRow, EventStatuses
<1>5. members' \subseteq Users \cup {Host} /\ room' \in BOOLEAN
  BY DEF TypeOK
<1> QED BY <1>1, <1>3, <1>4, <1>5

\* A cancelled membership is still a participant row, and the Event an Event.
LEMMA CancellationIsTyped ==
  ASSUME TypeOK, NEW u \in Users, NEW actor \in Users \cup {Host},
         cancelParticipation(u, actor)
  PROVE  TypeOK'
<1>1. PICK r \in Requests :
        /\ participants' = [participants EXCEPT ![r].state = "CANCELLED",
                                                ![r].cancelledByUserId = actor]
        /\ LET reserved == event.reservedSeatCount - (1 + participants[r].guestCount)
           IN  event' =
                 [status |-> IF event.status = "FULL" /\ reserved < event.capacityMax
                             THEN "ACTIVE" ELSE event.status,
                  capacityMax |-> event.capacityMax, reservedSeatCount |-> reserved,
                  participantCount |-> event.participantCount - 1]
  BY DEF cancelParticipation
<1>2. participants[r] \in ParticipantRow
  BY DEF TypeOK
<1>3. [participants[r] EXCEPT !.state = "CANCELLED", !.cancelledByUserId = actor]
        \in ParticipantRow
  BY <1>2 DEF ParticipantRow
<1>4. participants' \in [Requests -> ParticipantRow]
  BY <1>1, <1>3 DEF TypeOK
<1>5. participants[r].guestCount \in Nat
  BY <1>2 DEF ParticipantRow
<1>6. event' \in EventRow
  BY <1>1, <1>5 DEF TypeOK, EventRow, EventStatuses
<1> QED BY <1>4, <1>6 DEF TypeOK, cancelParticipation

-----------------------------------------------------------------------------
(* Types.                                                                  *)

\* A request that exists was made by one of the users.
RequestersKnown ==
  \A r \in Requests : requests[r].status # "NONE" => requests[r].user \in Users

Typed == TypeOK /\ RequestersKnown

\* The empty tables are typed and every row there is has a requester.
LEMMA TypedInit == Init => Typed
<1> SUFFICES ASSUME Init PROVE Typed
  OBVIOUS
<1>1. config \in Configs
  BY DEF Init
<1>2. NoRequest \in RequestRow /\ NoParticipant \in ParticipantRow
  BY DEF NoRequest, NoParticipant, RequestRow, ParticipantRow, RequestStatuses
<1>3. event \in EventRow
  BY DEF Init, EventRow, EventStatuses
<1>4. TypeOK
  BY <1>1, <1>2, <1>3 DEF Init, TypeOK
<1>5. RequestersKnown
  BY DEF Init, NoRequest, RequestersKnown
<1> QED BY <1>4, <1>5 DEF Typed

\* create() keeps the types, whether it refuses, waits or admits at once.
LEMMA CreateIsTyped ==
  ASSUME Typed, NEW u \in Users, NEW g \in GuestCounts, NEW ok \in BOOLEAN,
         Create(u, g, ok)
  PROVE  Typed'
<1> USE DEF Typed
<1> DEFINE Refused == /\ requests' = Lapsed(u)
                      /\ UNCHANGED <<event, participants, room, members>>
           rows(r) == [Lapsed(u) EXCEPT ![r] = NewRequest(u, g)]
<1>1. /\ UNCHANGED <<now, config, provider>>
      /\ Refused \/ \E r \in Requests :
           \/ \E begin \in BeginTimes(0) :
                approveAndParticipate(rows(r), r, event.capacityMax, NoUser, begin)
           \/ requests' = rows(r) /\ UNCHANGED <<event, participants, room, members>>
  BY DEF Create
<1>2. \A q \in Requests : Lapsed(u)[q].status # "NONE" => Lapsed(u)[q].user \in Users
  BY DEF Lapsed, RequestersKnown, TypeOK, RequestRow
<1>3. Lapsed(u) \in [Requests -> RequestRow]
  BY LapsedIsTyped
<1>4. CASE Refused
  BY <1>1, <1>2, <1>3, <1>4 DEF TypeOK, RequestersKnown
<1>5. ASSUME NEW r \in Requests PROVE
        /\ rows(r) \in [Requests -> RequestRow]
        /\ rows(r)[r].user = u
        /\ \A q \in Requests : rows(r)[q].status # "NONE" => rows(r)[q].user \in Users
  <2>1. NewRequest(u, g) \in RequestRow /\ NewRequest(u, g).user = u
    BY NewRequestIsTyped DEF NewRequest
  <2> QED BY <1>2, <1>3, <2>1
<1>6. ASSUME NEW r \in Requests, requests' = rows(r),
             UNCHANGED <<event, participants, room, members>>
      PROVE  Typed'
  BY <1>1, <1>5, <1>6 DEF TypeOK, RequestersKnown
<1> HIDE DEF rows
<1>7. ASSUME NEW r \in Requests, NEW begin \in BeginTimes(0),
             approveAndParticipate(rows(r), r, event.capacityMax, NoUser, begin)
      PROVE  Typed'
  <2>1. begin \in Int /\ event.capacityMax \in Int
    BY DEF BeginTimes, TypeOK, EventRow
  <2>2. TypeOK'
    <3>1. rows(r) \in [Requests -> RequestRow] /\ rows(r)[r].user \in Users
      BY <1>5
    <3> QED BY <1>1, <1>7, <2>1, <3>1, ApprovalIsTyped DEF TypeOK
  <2>3. requests' = [rows(r) EXCEPT ![r].status = "APPROVED",
                                    ![r].decidedByUserId = NoUser]
    BY <1>7 DEF approveAndParticipate
  <2>4. RequestersKnown'
    <3>1. requests'[r].user = u
      BY <1>5, <2>3 DEF RequestRow
    <3>2. \A q \in Requests : q # r => requests'[q] = rows(r)[q]
      BY <1>5, <2>3
    <3> QED BY <1>5, <3>1, <3>2 DEF RequestersKnown
  <2> QED BY <2>2, <2>4
<1> QED BY <1>1, <1>4, <1>6, <1>7

\* Closing or deciding one row without admitting anybody.
LEMMA RowStepIsTyped ==
  ASSUME Typed, NEW r \in Requests, NEW row \in RequestRow,
         row.user = requests[r].user, requests[r].status # "NONE",
         requests' = [requests EXCEPT ![r] = row],
         UNCHANGED <<now, config, event, participants, room, members, provider>>
  PROVE  Typed'
BY DEF Typed, TypeOK, RequestersKnown

\* cancel() and reject() keep the types.
LEMMA ClosingIsTyped ==
  ASSUME Typed, NEW r \in Requests, Cancel(r) \/ Reject(r) \/ ExpireOnTouch(r)
  PROVE  Typed'
<1>1. requests[r] \in RequestRow
  BY DEF Typed, TypeOK
<1>2. ASSUME NEW s \in {"EXPIRED", "CANCELLED"},
             requests' = [requests EXCEPT ![r].status = s], IsPending(r),
             UNCHANGED <<now, config, event, participants, room, members, provider>>
      PROVE  Typed'
  <2> DEFINE row == [requests[r] EXCEPT !.status = s]
  <2>1. row \in RequestRow
    BY <1>1, StatusRowIsTyped DEF RequestStatuses
  <2>2. row.user = requests[r].user
    BY <1>1 DEF RequestRow
  <2>3. requests' = [requests EXCEPT ![r] = row]
    BY <1>2
  <2> HIDE DEF row
  <2> QED BY <1>2, <2>1, <2>2, <2>3, RowStepIsTyped
<1>3. ASSUME requests' = [requests EXCEPT ![r].status = "REJECTED",
                                          ![r].decidedByUserId = Host], IsPending(r),
             UNCHANGED <<now, config, event, participants, room, members, provider>>
      PROVE  Typed'
  <2> DEFINE row == [requests[r] EXCEPT !.status = "REJECTED", !.decidedByUserId = Host]
  <2>1. row \in RequestRow
    BY <1>1, DecidedRowIsTyped DEF RequestStatuses
  <2>2. row.user = requests[r].user
    BY <1>1 DEF RequestRow
  <2>3. requests' = [requests EXCEPT ![r] = row]
    BY <1>3
  <2> HIDE DEF row
  <2> QED BY <1>3, <2>1, <2>2, <2>3, RowStepIsTyped
<1> QED BY <1>2, <1>3 DEF Cancel, Reject, ExpireOnTouch

\* Every deciding command admits through the shared approval, for a request
\* of a user, with a capacity that is the present one or the override's.
DecidedRows(r, before, after) ==
  [requests EXCEPT ![r].capacityBeforeOverride = before,
                   ![r].capacityAfterOverride = after]

\* Both approvals either expire the row or admit its party, the override with
\* its evidence: the form in which the other lemmas use them.
LEMMA ApprovingSteps ==
  ASSUME Typed, NEW r \in Requests, NEW ok \in BOOLEAN,
         Approve(r, ok) \/ ApproveWithCapacityOverride(r, ok)
  PROVE  \/ ExpireOnTouch(r)
         \/ /\ UNCHANGED <<now, config, provider>>
            /\ Approvable(r, ok)
            /\ \/ /\ PartyFits(requests[r].guestCount)
                  /\ \E begin \in Int :
                       approveAndParticipate(requests, r, event.capacityMax, Host, begin)
               \/ \E required \in Int, begin \in Int :
                    /\ ~PartyFits(requests[r].guestCount)
                    /\ required = event.reservedSeatCount + 1 + requests[r].guestCount
                    /\ required <= CapacityLimit
                    /\ approveAndParticipate(
                         DecidedRows(r, event.capacityMax, required), r, required, Host, begin)
<1>1. requests[r].expiresAt \in Nat /\ requests[r].guestCount \in Nat
      /\ event.reservedSeatCount \in Int
  BY DEF Typed, TypeOK, RequestRow, EventRow
<1>2. \A begin \in DecisionTimes(r) : begin \in Int
  BY <1>1 DEF DecisionTimes, BeginTimes, Typed, TypeOK
<1>3. CASE Approve(r, ok)
  BY <1>2, <1>3 DEF Approve
<1>4. CASE ApproveWithCapacityOverride(r, ok)
  <2> SUFFICES ASSUME ~ExpireOnTouch(r) PROVE
         /\ UNCHANGED <<now, config, provider>>
         /\ Approvable(r, ok)
         /\ \/ /\ PartyFits(requests[r].guestCount)
               /\ \E begin \in Int :
                    approveAndParticipate(requests, r, event.capacityMax, Host, begin)
            \/ \E required \in Int, begin \in Int :
                 /\ ~PartyFits(requests[r].guestCount)
                 /\ required = event.reservedSeatCount + 1 + requests[r].guestCount
                 /\ required <= CapacityLimit
                 /\ approveAndParticipate(
                      DecidedRows(r, event.capacityMax, required), r, required, Host, begin)
    OBVIOUS
  <2> DEFINE required == event.reservedSeatCount + 1 + requests[r].guestCount
  <2>1. required \in Int
    BY <1>1
  <2>2. /\ UNCHANGED <<now, config, provider>>
        /\ Approvable(r, ok)
        /\ \E begin \in DecisionTimes(r) :
             \/ /\ PartyFits(requests[r].guestCount)
                /\ approveAndParticipate(requests, r, event.capacityMax, Host, begin)
             \/ /\ ~PartyFits(requests[r].guestCount)
                /\ required <= CapacityLimit
                /\ approveAndParticipate(
                     DecidedRows(r, event.capacityMax, required), r, required, Host, begin)
    BY <1>4 DEF ApproveWithCapacityOverride, DecidedRows
  <2> QED BY <1>2, <2>1, <2>2
<1> QED BY <1>3, <1>4

\* approve() and approveWithCapacityOverride() keep the types.
LEMMA ApprovingIsTyped ==
  ASSUME Typed, NEW r \in Requests, NEW ok \in BOOLEAN,
         Approve(r, ok) \/ ApproveWithCapacityOverride(r, ok)
  PROVE  Typed'
<1>1. ASSUME NEW rows \in [Requests -> RequestRow], NEW capacity \in Int, NEW begin \in Int,
             rows[r].user = requests[r].user,
             \A q \in Requests : q # r => rows[q] = requests[q],
             approveAndParticipate(rows, r, capacity, Host, begin),
             UNCHANGED <<now, config, provider>>, Approvable(r, ok)
      PROVE  Typed'
  <2>1. rows[r].user \in Users
    BY <1>1 DEF Approvable, Typed, RequestersKnown
  <2>2. TypeOK'
    BY <1>1, <2>1, ApprovalIsTyped DEF Typed, TypeOK
  <2>3. requests' = [rows EXCEPT ![r].status = "APPROVED", ![r].decidedByUserId = Host]
    BY <1>1 DEF approveAndParticipate
  <2>4. requests'[r].user \in Users
    BY <2>1, <2>3, <1>1 DEF RequestRow
  <2>5. \A q \in Requests : q # r => requests'[q] = requests[q]
    BY <1>1, <2>3
  <2> QED BY <2>2, <2>4, <2>5 DEF Typed, RequestersKnown
<1>2. requests \in [Requests -> RequestRow] /\ event.capacityMax \in Int
  BY DEF Typed, TypeOK, EventRow
<1>3. ASSUME NEW before \in Int, NEW after \in Int
      PROVE  /\ DecidedRows(r, before, after) \in [Requests -> RequestRow]
             /\ DecidedRows(r, before, after)[r].user = requests[r].user
             /\ \A q \in Requests : q # r => DecidedRows(r, before, after)[q] = requests[q]
  <2> DEFINE row == [requests[r] EXCEPT !.capacityBeforeOverride = before,
                                        !.capacityAfterOverride = after]
  <2>1. row \in RequestRow /\ row.user = requests[r].user
    BY <1>2, OverrideRowIsTyped DEF RequestRow
  <2>2. DecidedRows(r, before, after) = [requests EXCEPT ![r] = row]
    BY DEF DecidedRows
  <2> HIDE DEF row
  <2> QED BY <1>2, <2>1, <2>2
<1>4. CASE ExpireOnTouch(r)
  BY <1>4, ClosingIsTyped
<1> QED BY <1>1, <1>2, <1>3, <1>4, ApprovingSteps

\* The host's commands on the Event, the lifecycle and the environment leave
\* every row alone.
LEMMA LifecycleIsTyped ==
  ASSUME Typed,
         \/ \E c \in Configs : CreateEvent(c) \/ SeedSession(c) \/ UpdateEvent(c)
         \/ PublishEvent \/ CancelEvent \/ AdvanceLifecycle
         \/ LoseProvider \/ Tick
  PROVE  Typed'
<1>1. event \in EventRow /\ config \in Config
  BY DEF Typed, TypeOK
<1>2. ASSUME NEW c \in Configs
      PROVE  HostSeats(c) \in Int /\ c.capacityMax \in Int /\ HostSeats(config) \in Int
  BY <1>1 DEF Config, HostSeats
<1>3. event' \in EventRow
  <2>1. ASSUME NEW c \in Configs, CreateEvent(c) \/ SeedSession(c) PROVE event' \in EventRow
    BY <1>2, <2>1 DEF CreateEvent, SeedSession, InsertDraft, DraftRow, EventRow, EventStatuses
  <2>2. ASSUME NEW c \in Configs, UpdateEvent(c) PROVE event' \in EventRow
    <3>1. event.reservedSeatCount - HostSeats(config) + HostSeats(c) \in Int
      BY <1>1, <1>2 DEF EventRow
    <3>2. event' = [event EXCEPT !.capacityMax = c.capacityMax,
              !.reservedSeatCount = event.reservedSeatCount - HostSeats(config) + HostSeats(c)]
      BY <2>2 DEF UpdateEvent
    <3> HIDE DEF EventRow
    <3> QED BY <1>1, <1>2, <3>1, <3>2 DEF EventRow
  <2>3. CASE PublishEvent \/ CancelEvent
    BY <1>1, <2>3 DEF PublishEvent, CancelEvent, EventRow, EventStatuses
  <2>4. CASE AdvanceLifecycle
    BY <1>1, <2>4 DEF AdvanceLifecycle, EventRow, EventStatuses
  <2>5. CASE LoseProvider \/ Tick
    BY <1>1, <2>5 DEF LoseProvider, Tick
  <2> QED BY <2>1, <2>2, <2>3, <2>4, <2>5
<1>4. UNCHANGED <<requests, participants, room, members>>
  BY DEF CreateEvent, SeedSession, InsertDraft, UpdateEvent, PublishEvent, CancelEvent,
         AdvanceLifecycle, LoseProvider, Tick
<1>5. config' \in Configs
  BY DEF Typed, TypeOK, CreateEvent, SeedSession, InsertDraft, UpdateEvent, PublishEvent, CancelEvent,
         AdvanceLifecycle, LoseProvider, Tick
<1>6. now' \in Nat
  <2>1. now' = now \/ now' = now + 1
    BY DEF CreateEvent, SeedSession, InsertDraft, UpdateEvent, PublishEvent, CancelEvent,
           AdvanceLifecycle, LoseProvider, Tick
  <2> QED BY <2>1 DEF Typed, TypeOK
<1>7. provider' \in BOOLEAN
  <2>1. provider' = provider \/ provider' = FALSE
    BY Zenon DEF CreateEvent, SeedSession, InsertDraft, UpdateEvent, PublishEvent, CancelEvent,
           AdvanceLifecycle, LoseProvider, Tick
  <2> QED BY <2>1 DEF Typed, TypeOK
<1> QED BY <1>3, <1>4, <1>5, <1>6, <1>7 DEF Typed, TypeOK, RequestersKnown

\* The type invariant is inductive.
LEMMA TypedNext == Typed /\ [Next]_vars => Typed'
<1> SUFFICES ASSUME Typed, [Next]_vars PROVE Typed'
  OBVIOUS
<1>1. ASSUME NEW u \in Users, NEW g \in GuestCounts, NEW ok \in BOOLEAN, Create(u, g, ok)
      PROVE  Typed'
  BY <1>1, CreateIsTyped
<1>2. ASSUME NEW r \in Requests, Cancel(r) \/ Reject(r) PROVE Typed'
  BY <1>2, ClosingIsTyped
<1>3. ASSUME NEW r \in Requests, NEW ok \in BOOLEAN,
             Approve(r, ok) \/ ApproveWithCapacityOverride(r, ok)
      PROVE  Typed'
  BY <1>3, ApprovingIsTyped
<1>4. ASSUME NEW u \in Users, Leave(u) \/ Remove(u) PROVE Typed'
  <2>1. \/ cancelParticipation(u, u) \/ cancelParticipation(u, Host)
    BY <1>4 DEF Leave, Remove
  <2>2. TypeOK'
    BY <2>1, CancellationIsTyped DEF Typed
  <2> QED BY <2>1, <2>2 DEF Typed, RequestersKnown, cancelParticipation
<1>5. CASE \/ \E c \in Configs : CreateEvent(c) \/ SeedSession(c) \/ UpdateEvent(c)
           \/ PublishEvent \/ CancelEvent \/ AdvanceLifecycle
           \/ LoseProvider \/ Tick
  BY <1>5, LifecycleIsTyped
<1>6. CASE UNCHANGED vars
  BY <1>6 DEF vars, Typed, TypeOK, RequestersKnown
<1> QED BY <1>1, <1>2, <1>3, <1>4, <1>5, <1>6 DEF Next

\* Every row and counter keeps its type, whatever the interleaving of
\* commands.
THEOREM TypeCorrect == Spec => []TypeOK
<1>1. Spec => []Typed
  BY TypedInit, TypedNext, PTL DEF Spec
<1>2. Typed => TypeOK
  BY DEF Typed
<1> QED BY <1>1, <1>2, PTL

-----------------------------------------------------------------------------
(* Seats.  The inductive invariant adds to the two properties what holds   *)
(* of a DRAFT: nobody but the host party occupies it.                      *)

DraftHoldsHostParty ==
  event.status = "DRAFT" =>
    /\ ValidConfig(config)
    /\ event.capacityMax = config.capacityMax
    /\ event.reservedSeatCount = HostSeats(config)

SeatsInv == DraftHoldsHostParty /\ SeatsWithinCapacity /\ StatusTellsOccupancy

\* Admitting a party that fits under the capacity keeps the seat invariant;
\* in a FULL Event the party must fit exactly, which only an override does.
LEMMA ApprovalKeepsSeats ==
  ASSUME Typed, SeatsInv, OpenForMembership,
         NEW rows \in [Requests -> RequestRow], NEW r \in Requests,
         NEW capacity \in Int, capacity <= CapacityLimit,
         event.reservedSeatCount + 1 + rows[r].guestCount <= capacity,
         event.status = "FULL" => event.reservedSeatCount + 1 + rows[r].guestCount = capacity,
         NEW decidedBy, NEW begin,
         approveAndParticipate(rows, r, capacity, decidedBy, begin)
  PROVE  SeatsInv'
<1> DEFINE reserved == event.reservedSeatCount + (1 + rows[r].guestCount)
<1>1. rows[r].guestCount \in Nat /\ event.reservedSeatCount \in Int
  BY DEF Typed, TypeOK, EventRow, RequestRow
<1>2. reserved \in Int /\ reserved <= capacity
      /\ (event.status = "FULL" => reserved = capacity)
  BY <1>1
<1>3. /\ event'.capacityMax = capacity
      /\ event'.reservedSeatCount = reserved
      /\ event'.status = IF reserved = capacity /\ canTransition(event.status, "FULL")
                         THEN "FULL" ELSE event.status
  BY DEF approveAndParticipate
<1>4. event.status = "ACTIVE" => canTransition(event.status, "FULL")
  BY DEF canTransition, Transitions
<1>5. event.status \in {"ACTIVE", "FULL"}
  BY DEF OpenForMembership
<1> HIDE DEF reserved
<1>6. event'.status \in {"ACTIVE", "FULL"}
  BY <1>3, <1>5
<1>7. event'.status = "ACTIVE" => reserved < capacity
  BY <1>2, <1>3, <1>4, <1>5
<1>8. event'.status = "FULL" => reserved = capacity
  BY <1>2, <1>3, <1>5
<1> QED BY <1>2, <1>3, <1>6, <1>7, <1>8
        DEF SeatsInv, DraftHoldsHostParty, SeatsWithinCapacity, StatusTellsOccupancy

\* leave and remove keep the seat invariant: they reopen a FULL Event.
LEMMA CancellationKeepsSeats ==
  ASSUME Typed, SeatsInv, OpenForMembership, NEW u \in Users, NEW actor,
         cancelParticipation(u, actor)
  PROVE  SeatsInv'
<1>1. PICK r \in Requests :
        LET reserved == event.reservedSeatCount - (1 + participants[r].guestCount)
        IN  event' =
              [status |-> IF event.status = "FULL" /\ reserved < event.capacityMax
                          THEN "ACTIVE" ELSE event.status,
               capacityMax |-> event.capacityMax, reservedSeatCount |-> reserved,
               participantCount |-> event.participantCount - 1]
  BY DEF cancelParticipation
<1> DEFINE reserved == event.reservedSeatCount - (1 + participants[r].guestCount)
<1>2. participants[r].guestCount \in Nat /\ event.reservedSeatCount \in Int
      /\ event.capacityMax \in Int
  BY DEF Typed, TypeOK, EventRow, ParticipantRow
<1>3. event.status \in {"ACTIVE", "FULL"}
  BY DEF OpenForMembership
<1>4. event.reservedSeatCount <= event.capacityMax /\ event.capacityMax <= CapacityLimit
  BY <1>3 DEF SeatsInv, SeatsWithinCapacity
<1>5. reserved < event.capacityMax /\ reserved \in Int
  BY <1>2, <1>4
<1>6. /\ event'.status = "ACTIVE"
      /\ event'.capacityMax = event.capacityMax
      /\ event'.reservedSeatCount = reserved
  BY <1>1, <1>3, <1>5
<1> HIDE DEF reserved
<1> QED BY <1>2, <1>4, <1>5, <1>6
        DEF SeatsInv, DraftHoldsHostParty, SeatsWithinCapacity, StatusTellsOccupancy

\* The host's commands and the lifecycle keep the seat invariant.
LEMMA LifecycleKeepsSeats ==
  ASSUME Typed, SeatsInv,
         \/ \E c \in Configs : CreateEvent(c) \/ SeedSession(c) \/ UpdateEvent(c)
         \/ PublishEvent \/ CancelEvent \/ AdvanceLifecycle
  PROVE  SeatsInv'
<1> USE DEF SeatsInv, DraftHoldsHostParty, SeatsWithinCapacity, StatusTellsOccupancy
<1>1. /\ event \in EventRow
      /\ event.reservedSeatCount \in Int /\ event.capacityMax \in Int
      /\ config \in Config
  BY DEF Typed, TypeOK, EventRow
<1>2. ASSUME NEW c \in Config, ValidConfig(c)
      PROVE  /\ HostSeats(c) \in Int /\ c.capacityMax \in Int
             /\ HostSeats(c) <= c.capacityMax /\ c.capacityMax <= CapacityLimit
             /\ (HostSeats(c) = c.capacityMax <=>
                   c.hostType = "USER" /\ 1 + c.hostGuestCount = c.capacityMax)
  BY <1>2 DEF Config, HostSeats, ValidConfig, HostTypes
<1>3. ASSUME NEW c \in Configs, CreateEvent(c) \/ SeedSession(c) PROVE SeatsInv'
  BY <1>2, <1>3 DEF CreateEvent, SeedSession, InsertDraft, DraftRow
<1>4. ASSUME NEW c \in Configs, UpdateEvent(c) PROVE SeatsInv'
  <2>1. /\ event.status = "DRAFT" /\ ValidConfig(c) /\ config' = c
        /\ event'.status = "DRAFT" /\ event'.capacityMax = c.capacityMax
        /\ event'.reservedSeatCount =
             event.reservedSeatCount - HostSeats(config) + HostSeats(c)
    BY <1>1, <1>4 DEF UpdateEvent, EventRow
  <2>2. event.reservedSeatCount = HostSeats(config) /\ HostSeats(config) \in Int
    BY <1>1, <1>2, <2>1
  <2>3. event'.reservedSeatCount = HostSeats(c)
    BY <1>2, <2>1, <2>2
  <2> QED BY <1>2, <2>1, <2>3
<1>5. CASE PublishEvent
  <2>1. /\ event.status = "DRAFT"
        /\ UNCHANGED config
        /\ event'.capacityMax = event.capacityMax
        /\ event'.reservedSeatCount = event.reservedSeatCount
        /\ event'.status = IF config.hostType = "USER"
                              /\ 1 + config.hostGuestCount = event.capacityMax
                           THEN "FULL" ELSE "ACTIVE"
    BY <1>1, <1>5 DEF PublishEvent, EventRow
  <2> QED BY <1>1, <1>2, <2>1
<1>6. CASE CancelEvent \/ AdvanceLifecycle
  <2>1. /\ event.status \notin {"NONE"}
        /\ event'.capacityMax = event.capacityMax
        /\ event'.reservedSeatCount = event.reservedSeatCount
        /\ event'.status \in {"CANCELLED", "IN_PROGRESS", "COMPLETED"}
    BY <1>1, <1>6 DEF CancelEvent, AdvanceLifecycle, EventRow, canTransition, Transitions
  <2> QED BY <1>1, <2>1
<1> QED BY <1>3, <1>4, <1>5, <1>6

\* A step that leaves the Event alone leaves the seats alone.
LEMMA OtherStepsKeepSeats ==
  ASSUME SeatsInv, UNCHANGED <<event, config>>
  PROVE  SeatsInv'
BY DEF SeatsInv, DraftHoldsHostParty, SeatsWithinCapacity, StatusTellsOccupancy,
       ValidConfig, HostSeats

\* No Event, no seats.
LEMMA SeatsInit == Init => SeatsInv
BY DEF Init, SeatsInv, DraftHoldsHostParty, SeatsWithinCapacity, StatusTellsOccupancy

\* The seat invariant is inductive, given the types.
LEMMA SeatsNext == Typed /\ SeatsInv /\ [Next]_vars => SeatsInv'
<1> SUFFICES ASSUME Typed, SeatsInv, [Next]_vars PROVE SeatsInv'
  OBVIOUS
<1>1. /\ event.reservedSeatCount \in Int /\ event.capacityMax \in Int
      /\ \A r \in Requests : requests[r] \in RequestRow /\ requests[r].guestCount \in Nat
  BY DEF Typed, TypeOK, EventRow, RequestRow
<1>2. ASSUME NEW u \in Users, NEW g \in GuestCounts, NEW ok \in BOOLEAN, Create(u, g, ok)
      PROVE  SeatsInv'
  <2>1. UNCHANGED config
    BY <1>2 DEF Create
  <2>2. CASE UNCHANGED event
    BY <2>1, <2>2, OtherStepsKeepSeats
  <2>3. CASE ~UNCHANGED event
    <3>1. PICK r \in Requests, begin \in BeginTimes(0) :
            /\ OpenForMembership /\ PartyFits(g)
            /\ approveAndParticipate([Lapsed(u) EXCEPT ![r] = NewRequest(u, g)], r,
                                     event.capacityMax, NoUser, begin)
      BY <1>2, <2>3 DEF Create, MayRequest, assertJoinable
    <3> DEFINE rows == [Lapsed(u) EXCEPT ![r] = NewRequest(u, g)]
    <3>2. rows \in [Requests -> RequestRow] /\ rows[r].guestCount = g
      BY LapsedIsTyped, NewRequestIsTyped DEF Typed, NewRequest
    <3>3. /\ event.status \in {"ACTIVE", "FULL"}
          /\ event.capacityMax <= CapacityLimit
          /\ event.status = "FULL" => event.reservedSeatCount = event.capacityMax
      BY <3>1 DEF OpenForMembership, SeatsInv, SeatsWithinCapacity, StatusTellsOccupancy
    <3>4. g \in Nat /\ event.reservedSeatCount + 1 + g <= event.capacityMax
          /\ event.status # "FULL"
      BY <1>1, <3>1, <3>3 DEF PartyFits
    <3> HIDE DEF rows
    <3> QED BY <1>1, <3>1, <3>2, <3>3, <3>4, ApprovalKeepsSeats DEF rows
  <2> QED BY <2>2, <2>3
<1>3. ASSUME NEW r \in Requests, NEW ok \in BOOLEAN,
             Approve(r, ok) \/ ApproveWithCapacityOverride(r, ok)
      PROVE  SeatsInv'
  <2>1. CASE ExpireOnTouch(r)
    BY <2>1, OtherStepsKeepSeats DEF ExpireOnTouch
  <2>2. CASE /\ Approvable(r, ok) /\ PartyFits(requests[r].guestCount)
             /\ \E begin \in Int :
                  approveAndParticipate(requests, r, event.capacityMax, Host, begin)
    <3>1. /\ OpenForMembership /\ requests \in [Requests -> RequestRow]
          /\ event.capacityMax <= CapacityLimit
          /\ event.status = "FULL" => event.reservedSeatCount = event.capacityMax
      BY <2>2 DEF Approvable, assertJoinable, OpenForMembership, Typed, TypeOK,
                  SeatsInv, SeatsWithinCapacity, StatusTellsOccupancy
    <3>2. /\ event.reservedSeatCount + 1 + requests[r].guestCount <= event.capacityMax
          /\ event.status # "FULL"
      BY <1>1, <2>2, <3>1 DEF PartyFits
    <3> QED BY <1>1, <2>2, <3>1, <3>2, ApprovalKeepsSeats
  <2>3. ASSUME Approvable(r, ok), NEW required \in Int, NEW begin \in Int,
               required = event.reservedSeatCount + 1 + requests[r].guestCount,
               required <= CapacityLimit,
               approveAndParticipate(
                 DecidedRows(r, event.capacityMax, required), r, required, Host, begin)
        PROVE  SeatsInv'
    <3> DEFINE rows == DecidedRows(r, event.capacityMax, required)
    <3>1. OpenForMembership
      BY <2>3 DEF Approvable, assertJoinable
    <3> DEFINE row == [requests[r] EXCEPT !.capacityBeforeOverride = event.capacityMax,
                                          !.capacityAfterOverride = required]
    <3>2. rows = [requests EXCEPT ![r] = row]
      BY DEF DecidedRows
    <3>3. row \in RequestRow /\ row.guestCount = requests[r].guestCount
      BY <1>1, <2>3, OverrideRowIsTyped DEF RequestRow
    <3> HIDE DEF row
    <3>4. rows \in [Requests -> RequestRow] /\ rows[r].guestCount = requests[r].guestCount
      BY <3>2, <3>3 DEF Typed, TypeOK
    <3> HIDE DEF rows
    <3> QED BY <1>1, <2>3, <3>1, <3>4, ApprovalKeepsSeats DEF rows
  <2> QED BY <1>3, <2>1, <2>2, <2>3, ApprovingSteps
<1>4. ASSUME NEW u \in Users, Leave(u) \/ Remove(u) PROVE SeatsInv'
  BY <1>4, CancellationKeepsSeats DEF Leave, Remove, assertLeavable
<1>5. CASE \/ \E c \in Configs : CreateEvent(c) \/ SeedSession(c) \/ UpdateEvent(c)
           \/ PublishEvent \/ CancelEvent \/ AdvanceLifecycle
  BY <1>5, LifecycleKeepsSeats
<1>6. CASE \/ \E r \in Requests : Cancel(r) \/ Reject(r)
           \/ LoseProvider \/ Tick \/ UNCHANGED vars
  <2>1. UNCHANGED <<event, config>>
    BY <1>6 DEF Cancel, Reject, ExpireOnTouch, LoseProvider, Tick, vars
  <2> QED BY <2>1, OtherStepsKeepSeats
<1> QED BY <1>2, <1>3, <1>4, <1>5, <1>6 DEF Next

\* An Event before its start is FULL exactly when every seat is taken.
THEOREM OccupancyCorrect == Spec => []StatusTellsOccupancy
<1>1. Spec => [](Typed /\ SeatsInv)
  BY TypedInit, TypedNext, SeatsInit, SeatsNext, PTL DEF Spec
<1>2. Typed /\ SeatsInv => StatusTellsOccupancy
  BY DEF SeatsInv
<1> QED BY <1>1, <1>2, PTL

\* No interleaving of joins, overrides, leaves and edits overbooks the Event
\* or raises its capacity past the service's limit.
THEOREM NeverOverbooked == Spec => []SeatsWithinCapacity
<1>1. Spec => [](Typed /\ SeatsInv)
  BY TypedInit, TypedNext, SeatsInit, SeatsNext, PTL DEF Spec
<1>2. Typed /\ SeatsInv => SeatsWithinCapacity
  BY DEF SeatsInv
<1> QED BY <1>1, <1>2, PTL

-----------------------------------------------------------------------------
(* The group.  The properties of the tables hold together or not at all:   *)
(* that a row becomes active once rests on who may have a pending request, *)
(* and that on who is a member.                                            *)

\* Nobody waits for a decision while a member.
PendingIsNoMember ==
  \A q, r \in Requests :
    IsPending(q) /\ IsActive(r) => requests[q].user # participants[r].user

\* Whoever is a member has a room.
MembersHaveRoom == ActiveRows # {} => room

\* A row nobody inserted is blank, and only a decision leaves evidence.
EvidenceFollowsDecision ==
  \A r \in Requests :
    /\ requests[r].status = "NONE" => requests[r] = NoRequest
    /\ requests[r].status \in {"NONE", "PENDING"} =>
         requests[r].capacityBeforeOverride = 0 /\ requests[r].capacityAfterOverride = 0

GroupInv ==
  /\ MembershipFollowsApproval /\ HiddenEventHasNoGroup
  /\ ChatMatchesGroup /\ MembersHaveRoom
  /\ OnePendingPerUser /\ OneActivePerUser /\ PendingIsNoMember
  /\ EvidenceFollowsDecision /\ OverridesRaise

\* What deciding a request never changes of it.
SameRequest(old, new) ==
  /\ new.user = old.user /\ new.guestCount = old.guestCount
  /\ new.expiresAt = old.expiresAt
  /\ new.capacityMaxAtRequest = old.capacityMaxAtRequest
  /\ new.reservedSeatCountAtRequest = old.reservedSeatCountAtRequest

\* A request kept as it is, or closed without a decision to admit.
Kept(old, new) ==
  \/ new = old
  \/ /\ old.status = "PENDING"
     /\ new.status \in {"REJECTED", "EXPIRED", "CANCELLED"}
     /\ SameRequest(old, new)
     /\ new.capacityBeforeOverride = old.capacityBeforeOverride
     /\ new.capacityAfterOverride = old.capacityAfterOverride

\* `rows` is the table with r as a pending request of somebody who is no
\* member and has no other, everything else being kept.
Awaiting(rows, r) ==
  /\ rows \in [Requests -> RequestRow]
  /\ rows[r].status = "PENDING" /\ rows[r].user \in Users
  /\ ~ActiveMember(rows[r].user)
  /\ \/ /\ requests[r].status = "NONE"
        /\ rows[r].capacityMaxAtRequest = event.capacityMax
        /\ rows[r].reservedSeatCountAtRequest = event.reservedSeatCount
     \/ requests[r].status = "PENDING" /\ SameRequest(requests[r], rows[r])
  /\ \A q \in Requests \ {r} :
       /\ Kept(requests[q], rows[q])
       /\ rows[q].user = rows[r].user => rows[q].status # "PENDING"

\* The evidence an approval at `capacity` leaves: none, or that of a raise.
Evidence(row, capacity) ==
  \/ /\ row.capacityBeforeOverride = 0 /\ row.capacityAfterOverride = 0
     /\ capacity = event.capacityMax
  \/ /\ row.capacityBeforeOverride = event.capacityMax
     /\ row.capacityAfterOverride = capacity
     /\ event.capacityMax < capacity

\* The tables after an approval, row by row.
LEMMA AdmissionEffect ==
  ASSUME Typed, NEW rows \in [Requests -> RequestRow], NEW r \in Requests,
         NEW capacity, NEW decidedBy, NEW begin,
         approveAndParticipate(rows, r, capacity, decidedBy, begin)
  PROVE  /\ requests'[r].status = "APPROVED"
         /\ requests'[r].decidedByUserId = decidedBy
         /\ SameRequest(rows[r], requests'[r])
         /\ requests'[r].capacityBeforeOverride = rows[r].capacityBeforeOverride
         /\ requests'[r].capacityAfterOverride = rows[r].capacityAfterOverride
         /\ participants'[r].state = "ACTIVE"
         /\ participants'[r].user = rows[r].user
         /\ participants'[r].guestCount = rows[r].guestCount
         /\ \A q \in Requests \ {r} :
              requests'[q] = rows[q] /\ participants'[q] = participants[q]
<1>1. rows[r] \in RequestRow /\ participants \in [Requests -> ParticipantRow]
  BY DEF Typed, TypeOK
<1>2. requests' = [rows EXCEPT ![r] =
        [rows[r] EXCEPT !.status = "APPROVED", !.decidedByUserId = decidedBy]]
  BY DEF approveAndParticipate
<1> DEFINE row == [rows[r] EXCEPT !.status = "APPROVED", !.decidedByUserId = decidedBy]
<1>3. /\ row.status = "APPROVED" /\ row.decidedByUserId = decidedBy
      /\ SameRequest(rows[r], row)
      /\ row.capacityBeforeOverride = rows[r].capacityBeforeOverride
      /\ row.capacityAfterOverride = rows[r].capacityAfterOverride
  BY <1>1 DEF RequestRow, SameRequest
<1>4. requests' = [rows EXCEPT ![r] = row]
  BY <1>2
<1> HIDE DEF row
<1>5. requests'[r] = row /\ \A q \in Requests \ {r} : requests'[q] = rows[q]
  BY <1>4
<1>6. /\ participants'[r].state = "ACTIVE"
      /\ participants'[r].user = rows[r].user
      /\ participants'[r].guestCount = rows[r].guestCount
      /\ \A q \in Requests \ {r} : participants'[q] = participants[q]
  BY <1>1 DEF approveAndParticipate
<1> QED BY <1>3, <1>5, <1>6

\* Admitting a waiting request keeps the group invariant.
LEMMA AdmissionKeepsGroup ==
  ASSUME Typed, GroupInv, OpenForMembership, ~config.paid, config.visibility = "PUBLIC",
         NEW rows, NEW r \in Requests, Awaiting(rows, r),
         NEW capacity \in Int, Evidence(rows[r], capacity), NEW decidedBy, NEW begin,
         approveAndParticipate(rows, r, capacity, decidedBy, begin),
         UNCHANGED config
  PROVE  GroupInv'
<1> USE DEF GroupInv
<1>1. rows \in [Requests -> RequestRow]
  BY DEF Awaiting
<1>2. /\ requests'[r].status = "APPROVED"
      /\ SameRequest(rows[r], requests'[r])
      /\ requests'[r].capacityBeforeOverride = rows[r].capacityBeforeOverride
      /\ requests'[r].capacityAfterOverride = rows[r].capacityAfterOverride
      /\ participants'[r].state = "ACTIVE"
      /\ participants'[r].user = rows[r].user
      /\ participants'[r].guestCount = rows[r].guestCount
      /\ \A q \in Requests \ {r} :
           requests'[q] = rows[q] /\ participants'[q] = participants[q]
  BY <1>1, AdmissionEffect
<1>3. \A q \in Requests \ {r} :
        /\ Kept(requests[q], requests'[q])
        /\ requests'[q].user = rows[r].user => requests'[q].status # "PENDING"
        /\ participants'[q] = participants[q]
        /\ IsActive(q) => participants[q].user # rows[r].user
  BY <1>2 DEF Awaiting, ActiveMember, ActiveRows
<1>4. requests[r].status \in {"NONE", "PENDING"} /\ participants[r].state = "NONE"
  <2>1. requests[r].status \in {"NONE", "PENDING"}
    BY DEF Awaiting
  <2> QED BY <2>1 DEF MembershipFollowsApproval
<1>5. MembershipFollowsApproval'
  BY <1>2, <1>3 DEF MembershipFollowsApproval, Kept, SameRequest
<1>6. HiddenEventHasNoGroup'
  <2>1. event'.status \in {"ACTIVE", "FULL"}
    BY DEF approveAndParticipate, OpenForMembership
  <2> QED BY <2>1 DEF HiddenEventHasNoGroup
<1>7. ActiveRows' = ActiveRows \cup {r}
  BY <1>2, <1>3 DEF ActiveRows
<1>8. ChatMatchesGroup' /\ MembersHaveRoom'
  <2>1. room' = TRUE /\ members' = members \cup {Host, rows[r].user}
    BY DEF approveAndParticipate
  <2>2. r \notin ActiveRows
    BY <1>4 DEF ActiveRows
  <2>3. {participants'[q].user : q \in ActiveRows'}
          = {participants[q].user : q \in ActiveRows} \cup {rows[r].user}
    BY <1>2, <1>3, <1>7, <2>2 DEF ActiveRows
  <2>4. CASE room
    BY <2>1, <2>3, <2>4 DEF ChatMatchesGroup, MembersHaveRoom
  <2>5. CASE ~room
    BY <2>1, <2>3, <2>5 DEF ChatMatchesGroup, MembersHaveRoom
  <2> QED BY <2>4, <2>5 DEF Typed, TypeOK
<1>9. OnePendingPerUser'
  BY <1>2, <1>3 DEF OnePendingPerUser, Kept, SameRequest
<1>10. OneActivePerUser'
  BY <1>2, <1>3 DEF OneActivePerUser
<1>11. PendingIsNoMember'
  BY <1>2, <1>3 DEF PendingIsNoMember, Kept, SameRequest
<1>12. EvidenceFollowsDecision'
  BY <1>2, <1>3 DEF EvidenceFollowsDecision, Kept, SameRequest
<1>13. OverridesRaise'
  <2>1. \/ rows[r].capacityBeforeOverride = 0 /\ rows[r].capacityAfterOverride = 0
        \/ rows[r].capacityBeforeOverride < rows[r].capacityAfterOverride
    BY DEF Evidence
  <2> QED BY <1>2, <1>3, <2>1 DEF OverridesRaise, Kept
<1> QED BY <1>5, <1>6, <1>8, <1>9, <1>10, <1>11, <1>12, <1>13

\* A step that closes requests and leaves the memberships keeps the group.
LEMMA ClosingKeepsGroup ==
  ASSUME Typed, GroupInv, \A q \in Requests : Kept(requests[q], requests'[q]),
         UNCHANGED <<participants, room, members>>, HiddenEventHasNoGroup'
  PROVE  GroupInv'
<1> USE DEF GroupInv
<1>1. MembershipFollowsApproval'
  BY DEF MembershipFollowsApproval, Kept, SameRequest
<1>2. ActiveRows' = ActiveRows
  BY DEF ActiveRows
<1>3. ChatMatchesGroup' /\ MembersHaveRoom'
  BY <1>2 DEF ChatMatchesGroup, MembersHaveRoom
<1>4. OnePendingPerUser'
  BY DEF OnePendingPerUser, Kept, SameRequest
<1>5. OneActivePerUser'
  BY DEF OneActivePerUser
<1>6. PendingIsNoMember'
  BY DEF PendingIsNoMember, Kept, SameRequest
<1>7. EvidenceFollowsDecision' /\ OverridesRaise'
  BY DEF EvidenceFollowsDecision, OverridesRaise, Kept, SameRequest
<1> QED BY <1>1, <1>3, <1>4, <1>5, <1>6, <1>7

\* Without a change of the Event a hidden one stays empty.
LEMMA ClosingKeepsHidden ==
  ASSUME HiddenEventHasNoGroup, \A q \in Requests : Kept(requests[q], requests'[q]),
         UNCHANGED <<config, event, room>>
  PROVE  HiddenEventHasNoGroup'
BY DEF HiddenEventHasNoGroup, Kept

\* Inserting a request of somebody who is no member and has no other.
LEMMA InsertionKeepsGroup ==
  ASSUME Typed, GroupInv, OpenForMembership, ~config.paid, config.visibility = "PUBLIC",
         NEW r \in Requests, Awaiting(requests', r), requests[r].status = "NONE",
         Evidence(requests'[r], event.capacityMax),
         UNCHANGED <<config, event, participants, room, members>>
  PROVE  GroupInv'
<1> USE DEF GroupInv
<1>1. /\ requests'[r].status = "PENDING"
      /\ requests'[r].capacityBeforeOverride = 0 /\ requests'[r].capacityAfterOverride = 0
      /\ \A q \in Requests \ {r} :
           /\ Kept(requests[q], requests'[q])
           /\ requests'[q].user = requests'[r].user => requests'[q].status # "PENDING"
      /\ \A q \in ActiveRows : participants[q].user # requests'[r].user
  <2>1. event.capacityMax \in Int
    BY DEF Typed, TypeOK, EventRow
  <2> QED BY <2>1 DEF Awaiting, ActiveMember, Evidence
<1>2. participants[r].state = "NONE"
  BY DEF MembershipFollowsApproval
<1>3. MembershipFollowsApproval'
  BY <1>1, <1>2 DEF MembershipFollowsApproval, Kept, SameRequest
<1>4. ActiveRows' = ActiveRows
  BY DEF ActiveRows
<1>5. ChatMatchesGroup' /\ MembersHaveRoom'
  BY <1>4 DEF ChatMatchesGroup, MembersHaveRoom
<1>6. HiddenEventHasNoGroup'
  BY DEF HiddenEventHasNoGroup, OpenForMembership
<1>7. OnePendingPerUser'
  BY <1>1 DEF OnePendingPerUser, Kept, SameRequest
<1>8. OneActivePerUser'
  BY DEF OneActivePerUser
<1>9. PendingIsNoMember'
  BY <1>1 DEF PendingIsNoMember, ActiveRows, Kept, SameRequest
<1>10. EvidenceFollowsDecision' /\ OverridesRaise'
  BY <1>1 DEF EvidenceFollowsDecision, OverridesRaise, Kept, SameRequest
<1> QED BY <1>3, <1>5, <1>6, <1>7, <1>8, <1>9, <1>10

\* leave and remove end the one membership of u, and its place in the room.
LEMMA CancellationKeepsGroup ==
  ASSUME Typed, GroupInv, OpenForMembership, NEW u \in Users, NEW actor,
         cancelParticipation(u, actor)
  PROVE  GroupInv'
<1> USE DEF GroupInv
<1>1. PICK r \in Requests :
        /\ participants[r].user = u /\ IsActive(r)
        /\ participants' = [participants EXCEPT ![r].state = "CANCELLED",
                                                ![r].cancelledByUserId = actor]
        /\ LET reserved == event.reservedSeatCount - (1 + participants[r].guestCount)
           IN  event' =
                 [status |-> IF event.status = "FULL" /\ reserved < event.capacityMax
                             THEN "ACTIVE" ELSE event.status,
                  capacityMax |-> event.capacityMax, reservedSeatCount |-> reserved,
                  participantCount |-> event.participantCount - 1]
  BY DEF cancelParticipation
<1>2. UNCHANGED <<config, requests, room>> /\ members' = deactivateEventMember(u)
  BY DEF cancelParticipation
<1>3. /\ participants'[r].state = "CANCELLED"
      /\ participants'[r].user = participants[r].user
      /\ participants'[r].guestCount = participants[r].guestCount
      /\ \A q \in Requests \ {r} : participants'[q] = participants[q]
  <2> DEFINE row == [participants[r] EXCEPT !.state = "CANCELLED",
                                            !.cancelledByUserId = actor]
  <2>1. participants[r] \in ParticipantRow /\ participants \in [Requests -> ParticipantRow]
    BY DEF Typed, TypeOK
  <2>2. /\ row.state = "CANCELLED" /\ row.user = participants[r].user
        /\ row.guestCount = participants[r].guestCount
    BY <2>1 DEF ParticipantRow
  <2>3. participants' = [participants EXCEPT ![r] = row]
    BY <1>1
  <2> HIDE DEF row
  <2> QED BY <2>1, <2>2, <2>3
<1>4. MembershipFollowsApproval'
  BY <1>1, <1>2, <1>3 DEF MembershipFollowsApproval
<1>5. HiddenEventHasNoGroup'
  <2>1. event'.status \in {"ACTIVE", "FULL"}
    BY <1>1 DEF OpenForMembership
  <2> QED BY <1>2, <2>1 DEF HiddenEventHasNoGroup
<1>6. ActiveRows' = ActiveRows \ {r}
  BY <1>3 DEF ActiveRows
<1>7. ChatMatchesGroup' /\ MembersHaveRoom'
  <2>1. r \in ActiveRows /\ room
    BY <1>1 DEF ActiveRows, MembersHaveRoom
  <2>2. \A q \in ActiveRows : q # r => participants[q].user # u
    BY <1>1 DEF OneActivePerUser, ActiveRows
  <2>3. {participants'[q].user : q \in ActiveRows'}
          = {participants[q].user : q \in ActiveRows} \ {u}
    <3>1. \A q \in ActiveRows' : q \in ActiveRows /\ q # r /\ participants'[q] = participants[q]
      BY <1>3, <1>6 DEF ActiveRows
    <3>2. \A q \in ActiveRows : q # r => q \in ActiveRows'
      BY <1>6
    <3> QED BY <1>1, <2>2, <3>1, <3>2
  <2>4. Host # u
    OBVIOUS
  <2>5. members' = ({Host} \cup {participants[q].user : q \in ActiveRows}) \ {u}
    BY <1>2, <2>1 DEF ChatMatchesGroup
  <2>6. members' = {Host} \cup {participants'[q].user : q \in ActiveRows'}
    BY <2>3, <2>4, <2>5
  <2> QED BY <1>2, <2>1, <2>6 DEF ChatMatchesGroup, MembersHaveRoom
<1>8. OnePendingPerUser' /\ EvidenceFollowsDecision' /\ OverridesRaise'
  BY <1>2 DEF OnePendingPerUser, EvidenceFollowsDecision, OverridesRaise
<1>9. OneActivePerUser'
  BY <1>3 DEF OneActivePerUser
<1>10. PendingIsNoMember'
  BY <1>2, <1>3 DEF PendingIsNoMember
<1> QED BY <1>4, <1>5, <1>7, <1>8, <1>9, <1>10

-----------------------------------------------------------------------------
(* The commands in the form the invariants need.                           *)

\* Marking the overdue requests of u leaves it no pending one when none of
\* them is live.
LEMMA LapsedCloses ==
  ASSUME Typed, NEW u \in Users, ~LivePending(u)
  PROVE  \A q \in Requests :
           /\ Kept(requests[q], Lapsed(u)[q])
           /\ Lapsed(u)[q].user = u => Lapsed(u)[q].status # "PENDING"
<1> SUFFICES ASSUME NEW q \in Requests
             PROVE  /\ Kept(requests[q], Lapsed(u)[q])
                    /\ Lapsed(u)[q].user = u => Lapsed(u)[q].status # "PENDING"
  OBVIOUS
<1>1. requests[q] \in RequestRow
  BY DEF Typed, TypeOK
<1>2. CASE requests[q].user = u /\ IsPending(q) /\ Overdue(q)
  <2> DEFINE row == [requests[q] EXCEPT !.status = "EXPIRED"]
  <2>1. /\ row.status = "EXPIRED" /\ SameRequest(requests[q], row)
        /\ row.capacityBeforeOverride = requests[q].capacityBeforeOverride
        /\ row.capacityAfterOverride = requests[q].capacityAfterOverride
    BY <1>1 DEF RequestRow, SameRequest
  <2>2. Lapsed(u)[q] = row
    BY <1>2 DEF Lapsed
  <2> HIDE DEF row
  <2> QED BY <1>2, <2>1, <2>2 DEF Kept
<1>3. CASE ~(requests[q].user = u /\ IsPending(q) /\ Overdue(q))
  <2>1. Lapsed(u)[q] = requests[q]
    BY <1>3 DEF Lapsed
  <2> QED BY <1>3, <2>1 DEF Kept, LivePending
<1> QED BY <1>2, <1>3

\* create() refuses and keeps, or inserts a waiting request and then admits
\* it at once or not.
LEMMA CreateSteps ==
  ASSUME Typed, GroupInv, NEW u \in Users, NEW g \in GuestCounts, NEW ok \in BOOLEAN,
         Create(u, g, ok)
  PROVE  /\ UNCHANGED <<now, config, provider>>
         /\ \/ /\ \A q \in Requests : Kept(requests[q], requests'[q])
               /\ UNCHANGED <<event, participants, room, members>>
            \/ \E r \in Requests :
                 LET rows == [Lapsed(u) EXCEPT ![r] = NewRequest(u, g)]
                 IN  /\ Awaiting(rows, r) /\ requests[r].status = "NONE" /\ NextRow(r)
                     /\ rows[r] = NewRequest(u, g)
                     /\ OpenForMembership /\ ~config.paid /\ config.visibility = "PUBLIC"
                     /\ \/ /\ config.joinApprovalRequired \/ ~PartyFits(g)
                           /\ requests' = rows
                           /\ UNCHANGED <<event, participants, room, members>>
                        \/ /\ ~config.joinApprovalRequired /\ PartyFits(g)
                           /\ \E begin \in BeginTimes(0) :
                                approveAndParticipate(rows, r, event.capacityMax, NoUser, begin)
<1>1. /\ UNCHANGED <<now, config, provider>>
      /\ assertVisibleToRequester(u) /\ ~LivePending(u)
  BY DEF Create
<1>2. \A q \in Requests :
        /\ Kept(requests[q], Lapsed(u)[q])
        /\ Lapsed(u)[q].user = u => Lapsed(u)[q].status # "PENDING"
  BY <1>1, LapsedCloses
<1>3. CASE requests' = Lapsed(u) /\ UNCHANGED <<event, participants, room, members>>
  BY <1>1, <1>2, <1>3
<1>4. ASSUME NEW r \in Requests, MayRequest(u), NextRow(r)
      PROVE  LET rows == [Lapsed(u) EXCEPT ![r] = NewRequest(u, g)]
             IN  /\ Awaiting(rows, r) /\ requests[r].status = "NONE" /\ NextRow(r)
                 /\ rows[r] = NewRequest(u, g)
                 /\ OpenForMembership /\ ~config.paid /\ config.visibility = "PUBLIC"
  <2> DEFINE rows == [Lapsed(u) EXCEPT ![r] = NewRequest(u, g)]
  <2>1. requests[r].status = "NONE" /\ ~ActiveMember(u)
    BY <1>4 DEF NextRow, MayRequest
  <2>2. OpenForMembership /\ ~config.paid /\ config.visibility = "PUBLIC"
    BY <1>1, <1>4 DEF MayRequest, assertJoinable, assertVisibleToRequester
  <2>3. Lapsed(u) \in [Requests -> RequestRow] /\ NewRequest(u, g) \in RequestRow
    BY LapsedIsTyped, NewRequestIsTyped DEF Typed
  <2>4. /\ rows \in [Requests -> RequestRow] /\ rows[r] = NewRequest(u, g)
        /\ \A q \in Requests \ {r} : rows[q] = Lapsed(u)[q]
    BY <2>3
  <2> HIDE DEF rows
  <2>5. /\ rows[r].status = "PENDING" /\ rows[r].user = u
        /\ rows[r].capacityMaxAtRequest = event.capacityMax
        /\ rows[r].reservedSeatCountAtRequest = event.reservedSeatCount
    BY <2>4 DEF NewRequest
  <2>6. Awaiting(rows, r)
    BY <1>2, <2>1, <2>4, <2>5 DEF Awaiting
  <2> QED BY <1>4, <2>1, <2>2, <2>4, <2>6 DEF rows
<1>5. ASSUME MayRequest(u), NEW r \in Requests, NextRow(r),
             LET rows == [Lapsed(u) EXCEPT ![r] = NewRequest(u, g)]
             IN  \/ /\ ~config.joinApprovalRequired /\ PartyFits(g)
                    /\ \E begin \in BeginTimes(0) :
                         approveAndParticipate(rows, r, event.capacityMax, NoUser, begin)
                 \/ /\ config.joinApprovalRequired \/ ~PartyFits(g)
                    /\ requests' = rows
                    /\ UNCHANGED <<event, participants, room, members>>
      PROVE  \E q \in Requests :
                 LET rows == [Lapsed(u) EXCEPT ![q] = NewRequest(u, g)]
                 IN  /\ Awaiting(rows, q) /\ requests[q].status = "NONE" /\ NextRow(q)
                     /\ rows[q] = NewRequest(u, g)
                     /\ OpenForMembership /\ ~config.paid /\ config.visibility = "PUBLIC"
                     /\ \/ /\ config.joinApprovalRequired \/ ~PartyFits(g)
                           /\ requests' = rows
                           /\ UNCHANGED <<event, participants, room, members>>
                        \/ /\ ~config.joinApprovalRequired /\ PartyFits(g)
                           /\ \E begin \in BeginTimes(0) :
                                approveAndParticipate(rows, q, event.capacityMax, NoUser, begin)
  BY <1>4, <1>5
<1>6. \/ requests' = Lapsed(u) /\ UNCHANGED <<event, participants, room, members>>
      \/ /\ MayRequest(u)
         /\ \E r \in Requests :
              /\ NextRow(r)
              /\ LET rows == [Lapsed(u) EXCEPT ![r] = NewRequest(u, g)]
                 IN  \/ /\ ~config.joinApprovalRequired /\ PartyFits(g)
                        /\ \E begin \in BeginTimes(0) :
                             approveAndParticipate(rows, r, event.capacityMax, NoUser, begin)
                     \/ /\ config.joinApprovalRequired \/ ~PartyFits(g)
                        /\ requests' = rows
                        /\ UNCHANGED <<event, participants, room, members>>
  BY DEF Create
<1> QED BY <1>1, <1>3, <1>5, <1>6

\* Closing one request in any of the ways there are.
LEMMA ClosingSteps ==
  ASSUME Typed, NEW r \in Requests, Cancel(r) \/ Reject(r) \/ ExpireOnTouch(r)
  PROVE  /\ UNCHANGED <<now, config, event, participants, room, members, provider>>
         /\ \A q \in Requests : Kept(requests[q], requests'[q])
<1>1. UNCHANGED <<now, config, event, participants, room, members, provider>>
  BY DEF Cancel, Reject, ExpireOnTouch
<1>2. requests[r] \in RequestRow /\ requests \in [Requests -> RequestRow]
  BY DEF Typed, TypeOK
<1>3. ASSUME NEW s \in {"EXPIRED", "CANCELLED"}, IsPending(r),
             requests' = [requests EXCEPT ![r].status = s]
      PROVE  \A q \in Requests : Kept(requests[q], requests'[q])
  <2> DEFINE row == [requests[r] EXCEPT !.status = s]
  <2>1. /\ row.status = s /\ SameRequest(requests[r], row)
        /\ row.capacityBeforeOverride = requests[r].capacityBeforeOverride
        /\ row.capacityAfterOverride = requests[r].capacityAfterOverride
    BY <1>2 DEF RequestRow, SameRequest
  <2>2. requests' = [requests EXCEPT ![r] = row]
    BY <1>3
  <2> HIDE DEF row
  <2>3. Kept(requests[r], row)
    BY <1>3, <2>1 DEF Kept
  <2> QED BY <1>2, <2>2, <2>3 DEF Kept
<1>4. ASSUME IsPending(r), requests' = [requests EXCEPT ![r].status = "REJECTED",
                                                        ![r].decidedByUserId = Host]
      PROVE  \A q \in Requests : Kept(requests[q], requests'[q])
  <2> DEFINE row == [requests[r] EXCEPT !.status = "REJECTED", !.decidedByUserId = Host]
  <2>1. /\ row.status = "REJECTED" /\ SameRequest(requests[r], row)
        /\ row.capacityBeforeOverride = requests[r].capacityBeforeOverride
        /\ row.capacityAfterOverride = requests[r].capacityAfterOverride
    BY <1>2 DEF RequestRow, SameRequest
  <2>2. requests' = [requests EXCEPT ![r] = row]
    BY <1>4
  <2> HIDE DEF row
  <2>3. Kept(requests[r], row)
    BY <1>4, <2>1 DEF Kept
  <2> QED BY <1>2, <2>2, <2>3 DEF Kept
<1> QED BY <1>1, <1>3, <1>4 DEF Cancel, Reject, ExpireOnTouch

\* A request the host may approve waits, alone of its user's.
LEMMA ApprovableWaits ==
  ASSUME Typed, GroupInv, NEW r \in Requests, NEW ok \in BOOLEAN, Approvable(r, ok)
  PROVE  /\ Awaiting(requests, r) /\ Evidence(requests[r], event.capacityMax)
         /\ OpenForMembership /\ ~config.paid /\ config.visibility = "PUBLIC"
         /\ \A required \in Int : event.capacityMax < required =>
              LET rows == DecidedRows(r, event.capacityMax, required)
              IN  /\ Awaiting(rows, r) /\ Evidence(rows[r], required)
                  /\ rows[r].guestCount = requests[r].guestCount
<1> USE DEF GroupInv
<1>1. /\ IsPending(r) /\ OpenForMembership /\ ~config.paid
      /\ requests \in [Requests -> RequestRow] /\ requests[r] \in RequestRow
  BY DEF Approvable, assertJoinable, Typed, TypeOK
<1>2. config.visibility = "PUBLIC"
  BY <1>1 DEF HiddenEventHasNoGroup
<1>3. /\ requests[r].user \in Users /\ ~ActiveMember(requests[r].user)
      /\ \A q \in Requests \ {r} :
           requests[q].user = requests[r].user => requests[q].status # "PENDING"
  BY <1>1 DEF Typed, RequestersKnown, PendingIsNoMember, OnePendingPerUser,
              ActiveMember, ActiveRows
<1>4. Awaiting(requests, r)
  BY <1>1, <1>3 DEF Awaiting, Kept, SameRequest
<1>5. Evidence(requests[r], event.capacityMax)
  BY <1>1 DEF EvidenceFollowsDecision, Evidence
<1>6. ASSUME NEW required \in Int, event.capacityMax < required
      PROVE  LET rows == DecidedRows(r, event.capacityMax, required)
             IN  /\ Awaiting(rows, r) /\ Evidence(rows[r], required)
                 /\ rows[r].guestCount = requests[r].guestCount
  <2> DEFINE rows == DecidedRows(r, event.capacityMax, required)
             row == [requests[r] EXCEPT !.capacityBeforeOverride = event.capacityMax,
                                        !.capacityAfterOverride = required]
  <2>1. rows = [requests EXCEPT ![r] = row]
    BY DEF DecidedRows
  <2>2. event.capacityMax \in Int
    BY DEF Typed, TypeOK, EventRow
  <2>3. row \in RequestRow
    BY <1>1, <2>2, OverrideRowIsTyped
  <2>4. /\ row.status = "PENDING" /\ SameRequest(requests[r], row)
        /\ row.capacityBeforeOverride = event.capacityMax
        /\ row.capacityAfterOverride = required
    BY <1>1 DEF RequestRow, SameRequest
  <2> HIDE DEF row
  <2>5. /\ rows \in [Requests -> RequestRow] /\ rows[r] = row
        /\ \A q \in Requests \ {r} : rows[q] = requests[q]
    BY <1>1, <2>1, <2>3
  <2> HIDE DEF rows
  <2>6. Awaiting(rows, r)
    BY <1>1, <1>3, <2>4, <2>5 DEF Awaiting, Kept, SameRequest
  <2>7. Evidence(rows[r], required) /\ rows[r].guestCount = requests[r].guestCount
    BY <1>6, <2>4, <2>5 DEF Evidence, SameRequest
  <2> QED BY <2>6, <2>7 DEF rows
<1> QED BY <1>1, <1>2, <1>4, <1>5, <1>6

\* Every approval of the host admits a waiting request, with the evidence of
\* a raise when the party does not fit.
LEMMA ApprovalAdmits ==
  ASSUME Typed, GroupInv, NEW r \in Requests, NEW ok \in BOOLEAN,
         Approve(r, ok) \/ ApproveWithCapacityOverride(r, ok)
  PROVE  \/ ExpireOnTouch(r)
         \/ /\ UNCHANGED <<now, config, provider>>
            /\ OpenForMembership /\ ~config.paid /\ config.visibility = "PUBLIC"
            /\ \E rows \in [Requests -> RequestRow], capacity \in Int, begin \in Int :
                 /\ Awaiting(rows, r) /\ requests[r].status = "PENDING"
                 /\ Evidence(rows[r], capacity) /\ capacity >= event.capacityMax
                 /\ approveAndParticipate(rows, r, capacity, Host, begin)
<1>1. /\ event.capacityMax \in Int /\ event.reservedSeatCount \in Int
      /\ requests[r].guestCount \in Nat /\ requests \in [Requests -> RequestRow]
  BY DEF Typed, TypeOK, EventRow, RequestRow
<1>2. CASE ExpireOnTouch(r)
  BY <1>2
<1>3. ASSUME Approvable(r, ok), UNCHANGED <<now, config, provider>>, NEW begin \in Int,
             approveAndParticipate(requests, r, event.capacityMax, Host, begin)
      PROVE  \E rows \in [Requests -> RequestRow], capacity \in Int, t \in Int :
                 /\ Awaiting(rows, r) /\ requests[r].status = "PENDING"
                 /\ Evidence(rows[r], capacity) /\ capacity >= event.capacityMax
                 /\ approveAndParticipate(rows, r, capacity, Host, t)
  <2>1. Awaiting(requests, r) /\ Evidence(requests[r], event.capacityMax)
    BY <1>3, ApprovableWaits
  <2> QED BY <1>1, <1>3, <2>1 DEF Approvable
<1>4. ASSUME Approvable(r, ok), UNCHANGED <<now, config, provider>>,
             NEW required \in Int, NEW begin \in Int, ~PartyFits(requests[r].guestCount),
             required = event.reservedSeatCount + 1 + requests[r].guestCount,
             approveAndParticipate(
               DecidedRows(r, event.capacityMax, required), r, required, Host, begin)
      PROVE  \E rows \in [Requests -> RequestRow], capacity \in Int, t \in Int :
                 /\ Awaiting(rows, r) /\ requests[r].status = "PENDING"
                 /\ Evidence(rows[r], capacity) /\ capacity >= event.capacityMax
                 /\ approveAndParticipate(rows, r, capacity, Host, t)
  <2> DEFINE rows == DecidedRows(r, event.capacityMax, required)
  <2>1. event.capacityMax < required
    BY <1>1, <1>4 DEF PartyFits
  <2>2. Awaiting(rows, r) /\ Evidence(rows[r], required)
    BY <1>4, <2>1, ApprovableWaits
  <2>3. rows \in [Requests -> RequestRow]
    BY <2>2 DEF Awaiting
  <2> HIDE DEF rows
  <2> QED BY <1>1, <1>4, <2>1, <2>2, <2>3 DEF rows, Approvable
<1>5. Approvable(r, ok) => OpenForMembership /\ ~config.paid /\ config.visibility = "PUBLIC"
  BY ApprovableWaits
<1> QED BY <1>2, <1>3, <1>4, <1>5, ApprovingSteps

\* The host's commands, the lifecycle and the clock touch neither requests
\* nor memberships, and leave DRAFT only for good.
LEMMA LifecycleSteps ==
  ASSUME Typed,
         \/ \E c \in Configs : CreateEvent(c) \/ SeedSession(c) \/ UpdateEvent(c)
         \/ PublishEvent \/ CancelEvent \/ AdvanceLifecycle
         \/ LoseProvider \/ Tick
  PROVE  /\ UNCHANGED <<requests, participants, room, members>>
         /\ UNCHANGED config \/ event.status \in {"NONE", "DRAFT"}
         /\ event.status \in {"NONE", "DRAFT"} \/ event'.status \notin {"NONE", "DRAFT"}
<1>1. UNCHANGED <<requests, participants, room, members>>
  BY DEF CreateEvent, SeedSession, InsertDraft, UpdateEvent, PublishEvent, CancelEvent,
         AdvanceLifecycle, LoseProvider, Tick
<1>2. CASE \/ \E c \in Configs : CreateEvent(c) \/ SeedSession(c) \/ UpdateEvent(c)
           \/ PublishEvent
  BY <1>1, <1>2 DEF CreateEvent, SeedSession, InsertDraft, UpdateEvent, PublishEvent
<1>3. CASE LoseProvider \/ Tick
  BY <1>1, <1>3 DEF LoseProvider, Tick
<1>4. CASE CancelEvent \/ AdvanceLifecycle
  <2>1. UNCHANGED config /\ event'.status \in {"IN_PROGRESS", "COMPLETED", "CANCELLED"}
    BY <1>4 DEF CancelEvent, AdvanceLifecycle, Typed, TypeOK, EventRow
  <2> QED BY <1>1, <2>1
<1> QED BY <1>1, <1>2, <1>3, <1>4

\* Empty tables are a consistent group.
LEMMA GroupInit == Init => GroupInv
BY DEF Init, GroupInv, MembershipFollowsApproval, HiddenEventHasNoGroup, ChatMatchesGroup,
       MembersHaveRoom, OnePendingPerUser, OneActivePerUser, PendingIsNoMember,
       EvidenceFollowsDecision, OverridesRaise, NoRequest, NoParticipant, ActiveRows

\* The group invariant is inductive, given the types.
LEMMA GroupNext == Typed /\ GroupInv /\ [Next]_vars => GroupInv'
<1> SUFFICES ASSUME Typed, GroupInv, [Next]_vars PROVE GroupInv'
  OBVIOUS
<1>1. event.capacityMax \in Int
  BY DEF Typed, TypeOK, EventRow
<1>2. ASSUME NEW u \in Users, NEW g \in GuestCounts, NEW ok \in BOOLEAN, Create(u, g, ok)
      PROVE  GroupInv'
  <2>1. UNCHANGED <<now, config, provider>>
    BY <1>2, CreateSteps
  <2>2. CASE /\ \A q \in Requests : Kept(requests[q], requests'[q])
             /\ UNCHANGED <<event, participants, room, members>>
    BY <2>1, <2>2, ClosingKeepsHidden, ClosingKeepsGroup DEF GroupInv
  <2>3. ASSUME NEW r \in Requests, NEW rows, Awaiting(rows, r), requests[r].status = "NONE",
               rows[r] = NewRequest(u, g),
               OpenForMembership, ~config.paid, config.visibility = "PUBLIC",
               \/ requests' = rows /\ UNCHANGED <<event, participants, room, members>>
               \/ \E begin \in BeginTimes(0) :
                    approveAndParticipate(rows, r, event.capacityMax, NoUser, begin)
        PROVE  GroupInv'
    <3>1. Evidence(rows[r], event.capacityMax)
      BY <2>3 DEF Evidence, NewRequest
    <3>2. CASE requests' = rows /\ UNCHANGED <<event, participants, room, members>>
      BY <2>1, <2>3, <3>1, <3>2, InsertionKeepsGroup
    <3>3. CASE \E begin \in BeginTimes(0) :
                 approveAndParticipate(rows, r, event.capacityMax, NoUser, begin)
      BY <1>1, <2>1, <2>3, <3>1, <3>3, AdmissionKeepsGroup
    <3> QED BY <2>3, <3>2, <3>3
  <2> QED BY <1>2, <2>2, <2>3, CreateSteps
<1>3. ASSUME NEW r \in Requests, Cancel(r) \/ Reject(r) \/ ExpireOnTouch(r)
      PROVE  GroupInv'
  BY <1>3, ClosingSteps, ClosingKeepsHidden, ClosingKeepsGroup DEF GroupInv
<1>4. ASSUME NEW r \in Requests, NEW ok \in BOOLEAN,
             Approve(r, ok) \/ ApproveWithCapacityOverride(r, ok)
      PROVE  GroupInv'
  <2>1. CASE ExpireOnTouch(r)
    BY <1>3, <2>1
  <2>2. CASE ~ExpireOnTouch(r)
    <3>1. PICK rows \in [Requests -> RequestRow], capacity \in Int, begin \in Int :
            /\ Awaiting(rows, r) /\ Evidence(rows[r], capacity)
            /\ approveAndParticipate(rows, r, capacity, Host, begin)
      BY <1>4, <2>2, ApprovalAdmits
    <3>2. UNCHANGED config
          /\ OpenForMembership /\ ~config.paid /\ config.visibility = "PUBLIC"
      BY <1>4, <2>2, ApprovalAdmits
    <3> QED BY <3>1, <3>2, AdmissionKeepsGroup
  <2> QED BY <2>1, <2>2
<1>5. ASSUME NEW u \in Users, Leave(u) \/ Remove(u) PROVE GroupInv'
  BY <1>5, CancellationKeepsGroup DEF Leave, Remove, assertLeavable
<1>6. CASE \/ \E c \in Configs : CreateEvent(c) \/ SeedSession(c) \/ UpdateEvent(c)
           \/ PublishEvent \/ CancelEvent \/ AdvanceLifecycle
           \/ LoseProvider \/ Tick
  <2>1. /\ UNCHANGED <<requests, participants, room, members>>
        /\ UNCHANGED config \/ event.status \in {"NONE", "DRAFT"}
        /\ event.status \in {"NONE", "DRAFT"} \/ event'.status \notin {"NONE", "DRAFT"}
    BY <1>6, LifecycleSteps
  <2>2. \A q \in Requests : Kept(requests[q], requests'[q])
    BY <2>1 DEF Kept
  <2>3. HiddenEventHasNoGroup'
    BY <2>1 DEF GroupInv, HiddenEventHasNoGroup
  <2> QED BY <2>1, <2>2, <2>3, ClosingKeepsGroup
<1>7. CASE UNCHANGED vars
  <2>1. UNCHANGED <<config, event, requests, participants, room, members>>
    BY <1>7 DEF vars
  <2>2. \A q \in Requests : Kept(requests[q], requests'[q])
    BY <2>1 DEF Kept
  <2> QED BY <2>1, <2>2, ClosingKeepsHidden, ClosingKeepsGroup DEF GroupInv
<1> QED BY <1>2, <1>3, <1>4, <1>5, <1>6, <1>7 DEF Next

-----------------------------------------------------------------------------
(* Recounts.  The trigger-maintained counters move by what a step adds to  *)
(* or takes from the rows, so the recount is compared set by set.          *)

\* A block of seats of one row.
Block(r, a, b) == {r} \X (a .. b)

\* A block of seats of a row that had none adds as many as it is long.
LEMMA AddBlock ==
  ASSUME NEW S, IsFiniteSet(S), NEW r, NEW a \in Int, NEW b \in Int, a <= b + 1,
         \A s \in S : s[1] # r
  PROVE  /\ IsFiniteSet(S \cup Block(r, a, b))
         /\ Cardinality(S \cup Block(r, a, b)) = Cardinality(S) + (b - a + 1)
<1> DEFINE T == Block(r, a, b)
<1>1. IsFiniteSet(a .. b) /\ Cardinality(a .. b) = b - a + 1
  BY FS_Interval
<1>2. IsFiniteSet({r}) /\ Cardinality({r}) = 1
  BY FS_Singleton
<1>3. IsFiniteSet(T) /\ Cardinality(T) = 1 * Cardinality(a .. b)
  BY <1>1, <1>2, FS_Product DEF Block
<1>4. Cardinality(T) = b - a + 1
  BY <1>1, <1>3
<1>5. S \cap T = {}
  BY DEF Block
<1>6. Cardinality(S \cap T) = 0
  BY <1>5, FS_EmptySet
<1>7. Cardinality(S) \in Int
  BY FS_CardinalityType
<1> HIDE DEF T
<1>8. /\ IsFiniteSet(S \cup T)
      /\ Cardinality(S \cup T) = Cardinality(S) + Cardinality(T) - Cardinality(S \cap T)
  BY <1>3, FS_Union
<1> QED BY <1>4, <1>6, <1>7, <1>8 DEF T

\* Taking the block of a row away again.
LEMMA RemoveBlock ==
  ASSUME NEW S, IsFiniteSet(S), NEW r, NEW a \in Int, NEW b \in Int, a <= b + 1,
         Block(r, a, b) \subseteq S
  PROVE  /\ IsFiniteSet(S \ Block(r, a, b))
         /\ Cardinality(S \ Block(r, a, b)) = Cardinality(S) - (b - a + 1)
<1> DEFINE T == Block(r, a, b)
           R == S \ T
<1>1. IsFiniteSet(R)
  BY FS_Difference
<1>2. IsFiniteSet(R) /\ Cardinality(R) = Cardinality(S) - Cardinality(S \cap T)
  BY FS_Difference
<1>3. S \cap T = T
  OBVIOUS
<1>4. IsFiniteSet(a .. b) /\ Cardinality(a .. b) = b - a + 1
  BY FS_Interval
<1>5. IsFiniteSet({r}) /\ Cardinality({r}) = 1
  BY FS_Singleton
<1>6. Cardinality(T) = 1 * Cardinality(a .. b)
  BY <1>4, <1>5, FS_Product DEF Block
<1>7. Cardinality(T) = b - a + 1
  BY <1>4, <1>6
<1> QED BY <1>1, <1>2, <1>3, <1>7

\* The seats of one row and of the others.
PartySeats(r) == Block(r, 0, participants[r].guestCount)
RaisedSeats(r) ==
  Block(r, requests[r].capacityBeforeOverride + 1, requests[r].capacityAfterOverride)

\* What the recount holds, seat by seat.
LEMMA SeatsByRow ==
  /\ MemberSeats = UNION {PartySeats(r) : r \in ActiveRows}
  /\ AddedSeats = UNION {RaisedSeats(r) : r \in Requests}
  /\ \A s : s \in MemberSeats <=> \E r \in ActiveRows : s \in PartySeats(r)
  /\ \A s : s \in AddedSeats <=> \E r \in Requests : s \in RaisedSeats(r)
  /\ \A r, s : s \in PartySeats(r) \/ s \in RaisedSeats(r) => s[1] = r
<1>1. MemberSeats = UNION {PartySeats(r) : r \in ActiveRows}
  BY DEF MemberSeats, PartySeats, Block
<1>2. AddedSeats = UNION {RaisedSeats(r) : r \in Requests}
  BY DEF AddedSeats, RaisedSeats, Block
<1>3. \A r, s : s \in PartySeats(r) \/ s \in RaisedSeats(r) => s[1] = r
  BY DEF PartySeats, RaisedSeats, Block
<1> HIDE DEF Requests
<1> QED BY <1>1, <1>2, <1>3

\* The recounts are finite, the counters agree with them, and no request
\* saw more capacity or occupancy than there is.
RecountInv ==
  /\ IsFiniteSet(MemberSeats) /\ IsFiniteSet(AddedSeats)
  /\ CountersMatchRows /\ OverridesExplainCapacity

CountsInv == Typed /\ SeatsInv /\ GroupInv /\ RecountInv

\* There are never more active rows than requests.
LEMMA ActiveRowsFinite == IsFiniteSet(ActiveRows)
<1>1. IsFiniteSet(Requests)
  BY FS_Interval
<1>2. ActiveRows \in SUBSET Requests
  BY DEF ActiveRows
<1> QED BY <1>1, <1>2, FS_Subset

\* Before anybody may join there is nothing to count.
LEMMA NothingToCount ==
  ASSUME Typed, GroupInv, event.status \in {"NONE", "DRAFT"}
  PROVE  /\ ActiveRows = {} /\ MemberSeats = {} /\ AddedSeats = {}
         /\ \A r \in Requests : requests[r] = NoRequest
<1>1. \A r \in Requests : requests[r] = NoRequest /\ participants[r].state = "NONE"
  BY DEF GroupInv, HiddenEventHasNoGroup, EvidenceFollowsDecision, MembershipFollowsApproval
<1>2. ActiveRows = {}
  BY <1>1 DEF ActiveRows
<1>3. \A r \in Requests : RaisedSeats(r) = {}
  BY <1>1 DEF RaisedSeats, Block, NoRequest
<1> QED BY <1>1, <1>2, <1>3, SeatsByRow

\* The same after a step.
LEMMA SeatsByRowAfter ==
  /\ \A s : s \in MemberSeats' <=> \E r \in ActiveRows' : s \in PartySeats(r)'
  /\ \A s : s \in AddedSeats' <=> \E r \in Requests : s \in RaisedSeats(r)'
<1>1. MemberSeats' = UNION {PartySeats(r)' : r \in ActiveRows'}
  BY DEF MemberSeats, PartySeats, Block
<1>2. AddedSeats' = UNION {RaisedSeats(r)' : r \in Requests}
  BY DEF AddedSeats, RaisedSeats, Block
<1> HIDE DEF Requests
<1> QED BY <1>1, <1>2

\* With no evidence added or lost the capacity added stays as it is.
LEMMA SameEvidence ==
  ASSUME \A q \in Requests :
           /\ requests'[q].capacityBeforeOverride = requests[q].capacityBeforeOverride
           /\ requests'[q].capacityAfterOverride = requests[q].capacityAfterOverride
  PROVE  AddedSeats' = AddedSeats
<1>1. \A q \in Requests : RaisedSeats(q)' = RaisedSeats(q)
  BY DEF RaisedSeats
<1> HIDE DEF Requests
<1> QED BY <1>1, SeatsByRow, SeatsByRowAfter

\* Requests that are kept keep the snapshot facts and the recount of added
\* seats.
LEMMA ClosingKeepsRecount ==
  ASSUME RecountInv, \A q \in Requests : Kept(requests[q], requests'[q]),
         UNCHANGED <<config, event, participants>>
  PROVE  RecountInv'
<1>1. \A q \in Requests : SameRequest(requests[q], requests'[q])
           /\ requests'[q].capacityBeforeOverride = requests[q].capacityBeforeOverride
           /\ requests'[q].capacityAfterOverride = requests[q].capacityAfterOverride
  BY DEF Kept, SameRequest
<1>2. AddedSeats' = AddedSeats
  BY <1>1, SameEvidence
<1>3. ActiveRows' = ActiveRows /\ MemberSeats' = MemberSeats
  BY DEF ActiveRows, MemberSeats
<1>4. CountersMatchRows'
  BY <1>3 DEF RecountInv, CountersMatchRows, HostSeats
<1>5. OverridesExplainCapacity'
  BY <1>1, <1>2 DEF RecountInv, OverridesExplainCapacity, SameRequest
<1> QED BY <1>2, <1>3, <1>4, <1>5 DEF RecountInv

\* What an approval adds to the recounts.
LEMMA AdmissionAddsSeats ==
  ASSUME Typed, GroupInv, NEW rows, NEW r \in Requests, Awaiting(rows, r),
         IsFiniteSet(MemberSeats), IsFiniteSet(AddedSeats),
         NEW capacity \in Int, Evidence(rows[r], capacity), NEW decidedBy, NEW begin,
         approveAndParticipate(rows, r, capacity, decidedBy, begin)
  PROVE  /\ IsFiniteSet(MemberSeats') /\ IsFiniteSet(AddedSeats')
         /\ Cardinality(MemberSeats') = Cardinality(MemberSeats) + 1 + rows[r].guestCount
         /\ Cardinality(ActiveRows') = Cardinality(ActiveRows) + 1
         /\ Cardinality(AddedSeats') = Cardinality(AddedSeats) + (capacity - event.capacityMax)
<1>1. /\ rows \in [Requests -> RequestRow]
      /\ rows[r].guestCount \in Nat /\ event.capacityMax \in Int
  BY DEF Awaiting, RequestRow, Typed, TypeOK, EventRow
<1>2. /\ requests'[r].capacityBeforeOverride = rows[r].capacityBeforeOverride
      /\ requests'[r].capacityAfterOverride = rows[r].capacityAfterOverride
      /\ participants'[r].state = "ACTIVE"
      /\ participants'[r].guestCount = rows[r].guestCount
      /\ \A q \in Requests \ {r} :
           requests'[q] = rows[q] /\ participants'[q] = participants[q]
  BY <1>1, AdmissionEffect
<1>3. requests[r].status \in {"NONE", "PENDING"} /\ participants[r].state = "NONE"
  BY DEF Awaiting, GroupInv, MembershipFollowsApproval
<1>4. ActiveRows' = ActiveRows \cup {r} /\ r \notin ActiveRows
  BY <1>2, <1>3 DEF ActiveRows
<1>5. Cardinality(ActiveRows') = Cardinality(ActiveRows) + 1
  BY <1>4, ActiveRowsFinite, FS_AddElement
<1>6. MemberSeats' = MemberSeats \cup Block(r, 0, rows[r].guestCount)
  <2>1. \A q \in ActiveRows : PartySeats(q)' = PartySeats(q)
    BY <1>2, <1>3 DEF PartySeats, ActiveRows
  <2>2. PartySeats(r)' = Block(r, 0, rows[r].guestCount)
    BY <1>2 DEF PartySeats
  <2> HIDE DEF Requests
  <2> QED BY <1>4, <2>1, <2>2, SeatsByRow, SeatsByRowAfter
<1>7. \A s \in MemberSeats : s[1] # r
  BY <1>4, SeatsByRow
<1>8. /\ IsFiniteSet(MemberSeats')
      /\ Cardinality(MemberSeats') = Cardinality(MemberSeats) + (rows[r].guestCount - 0 + 1)
  <2>1. rows[r].guestCount \in Int /\ 0 <= rows[r].guestCount + 1
    BY <1>1
  <2>2. /\ IsFiniteSet(MemberSeats \cup Block(r, 0, rows[r].guestCount))
        /\ Cardinality(MemberSeats \cup Block(r, 0, rows[r].guestCount))
             = Cardinality(MemberSeats) + (rows[r].guestCount - 0 + 1)
    BY <1>7, <2>1, AddBlock
  <2> QED BY <1>6, <2>2
<1>9. Cardinality(MemberSeats) \in Int /\ Cardinality(AddedSeats) \in Int
  BY FS_CardinalityType
<1>10. RaisedSeats(r) = {}
  BY <1>3 DEF GroupInv, EvidenceFollowsDecision, RaisedSeats, Block
<1>11. \A q \in Requests \ {r} : RaisedSeats(q)' = RaisedSeats(q)
  BY <1>2 DEF Awaiting, Kept, RaisedSeats
<1>12. /\ IsFiniteSet(AddedSeats')
       /\ Cardinality(AddedSeats') = Cardinality(AddedSeats) + (capacity - event.capacityMax)
  <2>1. CASE /\ rows[r].capacityBeforeOverride = 0 /\ rows[r].capacityAfterOverride = 0
             /\ capacity = event.capacityMax
    <3>1. RaisedSeats(r)' = {}
      BY <1>2, <2>1 DEF RaisedSeats, Block
    <3>2. AddedSeats' = AddedSeats
      <4> HIDE DEF Requests
      <4> QED BY <1>10, <1>11, <3>1, SeatsByRow, SeatsByRowAfter
    <3> QED BY <1>1, <1>9, <2>1, <3>2
  <2>2. CASE /\ rows[r].capacityBeforeOverride = event.capacityMax
             /\ rows[r].capacityAfterOverride = capacity
             /\ event.capacityMax < capacity
    <3>1. RaisedSeats(r)' = Block(r, event.capacityMax + 1, capacity)
      BY <1>2, <2>2 DEF RaisedSeats
    <3>2. AddedSeats' = AddedSeats \cup Block(r, event.capacityMax + 1, capacity)
      <4> HIDE DEF Requests
      <4> QED BY <1>10, <1>11, <3>1, SeatsByRow, SeatsByRowAfter
    <3>3. \A s \in AddedSeats : s[1] # r
      <4> HIDE DEF Requests
      <4> QED BY <1>10, SeatsByRow
    <3>4. event.capacityMax + 1 \in Int /\ event.capacityMax + 1 <= capacity + 1
      BY <1>1, <2>2
    <3>5. /\ IsFiniteSet(AddedSeats')
          /\ Cardinality(AddedSeats')
               = Cardinality(AddedSeats) + (capacity - (event.capacityMax + 1) + 1)
      <4> DEFINE first == event.capacityMax + 1
      <4>1. first \in Int /\ first <= capacity + 1
        BY <3>4
      <4> HIDE DEF first
      <4>2. /\ IsFiniteSet(AddedSeats \cup Block(r, first, capacity))
            /\ Cardinality(AddedSeats \cup Block(r, first, capacity))
                 = Cardinality(AddedSeats) + (capacity - first + 1)
        BY <3>3, <4>1, AddBlock
      <4> QED BY <3>2, <4>2 DEF first
    <3> QED BY <1>1, <1>9, <3>5
  <2> QED BY <2>1, <2>2 DEF Evidence
<1> QED BY <1>1, <1>5, <1>8, <1>9, <1>12

\* An approval keeps the counters equal to the recounts.
LEMMA AdmissionKeepsRecount ==
  ASSUME CountsInv, OpenForMembership, NEW rows, NEW r \in Requests, Awaiting(rows, r),
         NEW capacity \in Int, Evidence(rows[r], capacity), NEW decidedBy, NEW begin,
         approveAndParticipate(rows, r, capacity, decidedBy, begin),
         UNCHANGED config
  PROVE  RecountInv'
<1> USE DEF CountsInv, RecountInv
<1>1. /\ event.status \in {"ACTIVE", "FULL"} /\ event.capacityMax \in Int
      /\ event.reservedSeatCount \in Int /\ rows[r].guestCount \in Nat
      /\ event.participantCount \in Int /\ rows \in [Requests -> RequestRow]
  BY DEF OpenForMembership, Typed, TypeOK, EventRow, Awaiting, RequestRow
<1>2. /\ event'.capacityMax = capacity
      /\ event'.reservedSeatCount = event.reservedSeatCount + (1 + rows[r].guestCount)
      /\ event'.participantCount = event.participantCount + 1
  BY DEF approveAndParticipate
<1>3. /\ IsFiniteSet(MemberSeats') /\ IsFiniteSet(AddedSeats')
      /\ Cardinality(MemberSeats') = Cardinality(MemberSeats) + 1 + rows[r].guestCount
      /\ Cardinality(ActiveRows') = Cardinality(ActiveRows) + 1
      /\ Cardinality(AddedSeats') = Cardinality(AddedSeats) + (capacity - event.capacityMax)
  BY AdmissionAddsSeats
<1>4. Cardinality(MemberSeats) \in Int /\ Cardinality(AddedSeats) \in Int
      /\ config.capacityMax \in Int /\ HostSeats(config) \in Int
  BY FS_CardinalityType DEF Typed, TypeOK, Config, HostSeats
<1>5. CountersMatchRows'
  <2>1. /\ event.participantCount = Cardinality(ActiveRows)
        /\ event.reservedSeatCount = HostSeats(config) + Cardinality(MemberSeats)
    BY <1>1 DEF CountersMatchRows
  <2>2. HostSeats(config)' = HostSeats(config)
    BY DEF HostSeats
  <2>3. event'.participantCount = Cardinality(ActiveRows')
    BY <1>2, <1>3, <2>1
  <2>4. event'.reservedSeatCount = HostSeats(config) + Cardinality(MemberSeats')
    <3> DEFINE m == Cardinality(MemberSeats)
               h == HostSeats(config)
               g == rows[r].guestCount
    <3>1. /\ m \in Int /\ h \in Int /\ g \in Int
          /\ event'.reservedSeatCount = (h + m) + (1 + g)
          /\ Cardinality(MemberSeats') = m + 1 + g
      BY <1>1, <1>2, <1>3, <1>4, <2>1
    <3> HIDE DEF m, h, g
    <3>2. event'.reservedSeatCount = h + Cardinality(MemberSeats')
      BY <3>1
    <3> QED BY <3>2 DEF h
  <2> QED BY <2>2, <2>3, <2>4 DEF CountersMatchRows
<1>6. event'.capacityMax = config.capacityMax + Cardinality(AddedSeats')
  <2>1. event.capacityMax = config.capacityMax + Cardinality(AddedSeats)
    BY <1>1 DEF OverridesExplainCapacity
  <2> QED BY <1>1, <1>2, <1>3, <1>4, <2>1
<1>7. event.capacityMax <= capacity
  BY <1>1 DEF Evidence
<1>8. ASSUME NEW q \in Requests
      PROVE  /\ requests'[q].reservedSeatCountAtRequest <= requests'[q].capacityMaxAtRequest
             /\ requests'[q].capacityMaxAtRequest <= event'.capacityMax
  <2>1. requests[q] \in RequestRow /\ requests[q].capacityMaxAtRequest \in Int
    BY DEF Typed, TypeOK, RequestRow
  <2>2. /\ requests[q].reservedSeatCountAtRequest <= requests[q].capacityMaxAtRequest
        /\ requests[q].capacityMaxAtRequest <= event.capacityMax
    BY <1>1 DEF OverridesExplainCapacity
  <2>3. requests[q].capacityMaxAtRequest <= capacity
    BY <1>1, <1>7, <2>1, <2>2
  <2>4. CASE q # r
    <3>1. SameRequest(requests[q], requests'[q])
      BY <1>1, <2>4, AdmissionEffect DEF Awaiting, Kept, SameRequest
    <3> QED BY <1>2, <2>2, <2>3, <3>1 DEF SameRequest
  <2>5. CASE q = r
    <3>1. SameRequest(rows[r], requests'[r])
      BY <1>1, AdmissionEffect
    <3>2. CASE SameRequest(requests[r], rows[r])
      BY <1>2, <2>2, <2>3, <2>5, <3>1, <3>2 DEF SameRequest
    <3>3. CASE /\ rows[r].capacityMaxAtRequest = event.capacityMax
               /\ rows[r].reservedSeatCountAtRequest = event.reservedSeatCount
      <4>1. event.reservedSeatCount <= event.capacityMax
        BY <1>1 DEF SeatsInv, SeatsWithinCapacity
      <4> QED BY <1>2, <1>7, <2>5, <3>1, <3>3, <4>1 DEF SameRequest
    <3> QED BY <3>2, <3>3 DEF Awaiting
  <2> QED BY <2>4, <2>5
<1>9. OverridesExplainCapacity'
  <2>1. event'.capacityMax = config'.capacityMax + Cardinality(AddedSeats')
    BY <1>6
  <2> QED BY <1>8, <2>1 DEF OverridesExplainCapacity
<1> QED BY <1>3, <1>5, <1>9

\* So does an insertion, whose snapshot is of the seats as they are.
LEMMA InsertionKeepsRecount ==
  ASSUME CountsInv, OpenForMembership, NEW r \in Requests, Awaiting(requests', r),
         requests[r].status = "NONE", Evidence(requests'[r], event.capacityMax),
         UNCHANGED <<config, event, participants>>
  PROVE  RecountInv'
<1> USE DEF CountsInv, RecountInv
<1>1. event.status \in {"ACTIVE", "FULL"} /\ event.capacityMax \in Int
  BY DEF OpenForMembership, Typed, TypeOK, EventRow
<1>2. /\ requests'[r].capacityMaxAtRequest = event.capacityMax
      /\ requests'[r].reservedSeatCountAtRequest = event.reservedSeatCount
      /\ requests'[r].capacityBeforeOverride = 0 /\ requests'[r].capacityAfterOverride = 0
      /\ requests[r].capacityBeforeOverride = 0 /\ requests[r].capacityAfterOverride = 0
  BY <1>1 DEF Awaiting, Evidence, GroupInv, EvidenceFollowsDecision
<1>3. \A q \in Requests \ {r} : SameRequest(requests[q], requests'[q])
           /\ requests'[q].capacityBeforeOverride = requests[q].capacityBeforeOverride
           /\ requests'[q].capacityAfterOverride = requests[q].capacityAfterOverride
  BY DEF Awaiting, Kept, SameRequest
<1>4. AddedSeats' = AddedSeats
  BY <1>2, <1>3, SameEvidence
<1>5. ActiveRows' = ActiveRows /\ MemberSeats' = MemberSeats
  BY DEF ActiveRows, MemberSeats
<1>6. CountersMatchRows'
  BY <1>5 DEF CountersMatchRows, HostSeats
<1>7. event.reservedSeatCount <= event.capacityMax
  BY <1>1 DEF SeatsInv, SeatsWithinCapacity
<1>8. OverridesExplainCapacity'
  BY <1>1, <1>2, <1>3, <1>4, <1>7 DEF OverridesExplainCapacity, SameRequest
<1> QED BY <1>4, <1>5, <1>6, <1>8

\* A cancellation gives back the seats of its row.
LEMMA CancellationKeepsRecount ==
  ASSUME CountsInv, OpenForMembership, NEW u \in Users, NEW actor,
         cancelParticipation(u, actor)
  PROVE  RecountInv'
<1> USE DEF CountsInv, RecountInv
<1>1. PICK r \in Requests :
        /\ participants[r].user = u /\ IsActive(r)
        /\ participants' = [participants EXCEPT ![r].state = "CANCELLED",
                                                ![r].cancelledByUserId = actor]
        /\ LET reserved == event.reservedSeatCount - (1 + participants[r].guestCount)
           IN  event' =
                 [status |-> IF event.status = "FULL" /\ reserved < event.capacityMax
                             THEN "ACTIVE" ELSE event.status,
                  capacityMax |-> event.capacityMax, reservedSeatCount |-> reserved,
                  participantCount |-> event.participantCount - 1]
  BY DEF cancelParticipation
<1>2. UNCHANGED <<config, requests>>
  BY DEF cancelParticipation
<1>3. participants[r] \in ParticipantRow /\ participants \in [Requests -> ParticipantRow]
      /\ participants[r].guestCount \in Nat
  BY DEF Typed, TypeOK, ParticipantRow
<1>4. participants'[r].state = "CANCELLED"
      /\ \A q \in Requests \ {r} : participants'[q] = participants[q]
  <2> DEFINE row == [participants[r] EXCEPT !.state = "CANCELLED",
                                            !.cancelledByUserId = actor]
  <2>1. row.state = "CANCELLED"
    BY <1>3 DEF ParticipantRow
  <2>2. participants' = [participants EXCEPT ![r] = row]
    BY <1>1
  <2> HIDE DEF row
  <2> QED BY <1>3, <2>1, <2>2
<1>5. ActiveRows' = ActiveRows \ {r} /\ r \in ActiveRows
  BY <1>1, <1>4 DEF ActiveRows
<1>6. Cardinality(ActiveRows') = Cardinality(ActiveRows) - 1
  BY <1>5, ActiveRowsFinite, FS_RemoveElement
<1>7. MemberSeats' = MemberSeats \ Block(r, 0, participants[r].guestCount)
  <2>1. \A q \in ActiveRows' : PartySeats(q)' = PartySeats(q)
    BY <1>4, <1>5 DEF PartySeats, ActiveRows
  <2>2. PartySeats(r) = Block(r, 0, participants[r].guestCount)
    BY DEF PartySeats
  <2>3. \A q \in ActiveRows' : \A s \in PartySeats(q) : s \notin PartySeats(r)
    BY <1>5, SeatsByRow
  <2> HIDE DEF Requests
  <2> QED BY <1>5, <2>1, <2>2, <2>3, SeatsByRow, SeatsByRowAfter
<1>8. Block(r, 0, participants[r].guestCount) \subseteq MemberSeats
  BY <1>5, SeatsByRow DEF PartySeats
<1>9. /\ IsFiniteSet(MemberSeats')
      /\ Cardinality(MemberSeats')
           = Cardinality(MemberSeats) - (participants[r].guestCount - 0 + 1)
  <2>1. participants[r].guestCount \in Int /\ 0 <= participants[r].guestCount + 1
    BY <1>3
  <2>2. /\ IsFiniteSet(MemberSeats \ Block(r, 0, participants[r].guestCount))
        /\ Cardinality(MemberSeats \ Block(r, 0, participants[r].guestCount))
             = Cardinality(MemberSeats) - (participants[r].guestCount - 0 + 1)
    BY <1>8, <2>1, RemoveBlock
  <2> QED BY <1>7, <2>2
<1>10. AddedSeats' = AddedSeats
  BY <1>2 DEF AddedSeats
<1>11. /\ event.status \in {"ACTIVE", "FULL"}
       /\ event'.capacityMax = event.capacityMax
       /\ event'.reservedSeatCount = event.reservedSeatCount - (1 + participants[r].guestCount)
       /\ event'.participantCount = event.participantCount - 1
  BY <1>1 DEF OpenForMembership
<1>12. /\ Cardinality(MemberSeats) \in Int /\ HostSeats(config) \in Int
       /\ event.reservedSeatCount \in Int
  BY FS_CardinalityType DEF Typed, TypeOK, Config, HostSeats, EventRow
<1>13. CountersMatchRows'
  BY <1>2, <1>3, <1>6, <1>9, <1>11, <1>12 DEF CountersMatchRows, HostSeats
<1>14. OverridesExplainCapacity'
  BY <1>2, <1>10, <1>11 DEF OverridesExplainCapacity
<1> QED BY <1>9, <1>10, <1>13, <1>14

\* The host's commands and the lifecycle keep the recounts: the host party
\* is reconsidered only before anybody joined.
LEMMA LifecycleKeepsRecount ==
  ASSUME CountsInv,
         \/ \E c \in Configs : CreateEvent(c) \/ SeedSession(c) \/ UpdateEvent(c)
         \/ PublishEvent \/ CancelEvent \/ AdvanceLifecycle
         \/ LoseProvider \/ Tick
  PROVE  RecountInv'
<1> USE DEF CountsInv, RecountInv
<1>1. UNCHANGED <<requests, participants>>
  BY LifecycleSteps
<1>2. ActiveRows' = ActiveRows /\ MemberSeats' = MemberSeats /\ AddedSeats' = AddedSeats
  BY <1>1 DEF ActiveRows, MemberSeats, AddedSeats
<1>3. event \in EventRow /\ config \in Config
  BY DEF Typed, TypeOK
<1>4. CASE \E c \in Configs : CreateEvent(c) \/ SeedSession(c) \/ UpdateEvent(c)
  <2>1. PICK c \in Configs :
          /\ event.status \in {"NONE", "DRAFT"} /\ config' = c
          /\ event'.capacityMax = c.capacityMax /\ event'.participantCount = 0
          /\ event'.reservedSeatCount = HostSeats(c)
    <3>1. ASSUME NEW c \in Configs, CreateEvent(c) \/ SeedSession(c)
          PROVE  /\ event.status \in {"NONE", "DRAFT"} /\ config' = c
                 /\ event'.capacityMax = c.capacityMax /\ event'.participantCount = 0
                 /\ event'.reservedSeatCount = HostSeats(c)
      BY <3>1 DEF CreateEvent, SeedSession, InsertDraft, DraftRow
    <3>2. ASSUME NEW c \in Configs, UpdateEvent(c)
          PROVE  /\ event.status \in {"NONE", "DRAFT"} /\ config' = c
                 /\ event'.capacityMax = c.capacityMax /\ event'.participantCount = 0
                 /\ event'.reservedSeatCount = HostSeats(c)
      <4>1. event.status = "DRAFT" /\ config' = c
        BY <3>2 DEF UpdateEvent
      <4>2. event.reservedSeatCount = HostSeats(config) /\ event.participantCount = 0
        BY <4>1, NothingToCount, FS_EmptySet
           DEF SeatsInv, DraftHoldsHostParty, CountersMatchRows
      <4>3. /\ event'.capacityMax = c.capacityMax
            /\ event'.participantCount = event.participantCount
            /\ event'.reservedSeatCount
                 = event.reservedSeatCount - HostSeats(config) + HostSeats(c)
        BY <1>3, <3>2 DEF UpdateEvent, EventRow
      <4>4. HostSeats(config) \in Int /\ HostSeats(c) \in Int
        BY <1>3 DEF HostSeats, Config
      <4> QED BY <4>1, <4>2, <4>3, <4>4
    <3> QED BY <1>4, <3>1, <3>2
  <2>2. /\ Cardinality(ActiveRows) = 0 /\ Cardinality(MemberSeats) = 0
        /\ Cardinality(AddedSeats) = 0
        /\ \A r \in Requests : requests[r] = NoRequest
    BY <2>1, NothingToCount, FS_EmptySet
  <2>3. HostSeats(c) \in Int /\ c.capacityMax \in Nat
    BY DEF HostSeats, Config
  <2>4. HostSeats(config)' = HostSeats(c)
    BY <2>1
  <2>5. CountersMatchRows'
    BY <1>2, <2>1, <2>2, <2>3, <2>4 DEF CountersMatchRows
  <2>6. OverridesExplainCapacity'
    BY <1>1, <1>2, <2>1, <2>2, <2>3 DEF OverridesExplainCapacity, NoRequest
  <2> QED BY <1>2, <2>5, <2>6
<1>5. CASE PublishEvent \/ CancelEvent \/ AdvanceLifecycle \/ LoseProvider \/ Tick
  <2>1. /\ UNCHANGED config
        /\ event'.capacityMax = event.capacityMax
        /\ event'.participantCount = event.participantCount
        /\ event'.reservedSeatCount = event.reservedSeatCount
        /\ event'.status # "NONE" => event.status # "NONE"
    BY <1>3, <1>5 DEF PublishEvent, CancelEvent, AdvanceLifecycle, LoseProvider, Tick, EventRow,
                      canTransition, Transitions
  <2>2. HostSeats(config)' = HostSeats(config)
    BY <2>1 DEF HostSeats
  <2>3. CountersMatchRows'
    BY <1>2, <2>1, <2>2 DEF CountersMatchRows
  <2>4. OverridesExplainCapacity'
    BY <1>1, <1>2, <2>1 DEF OverridesExplainCapacity
  <2> QED BY <1>2, <2>3, <2>4
<1> QED BY <1>4, <1>5

\* With no Event there is nothing to count.
LEMMA RecountInit == Init => RecountInv
<1> SUFFICES ASSUME Init PROVE RecountInv
  OBVIOUS
<1>1. Typed /\ GroupInv /\ event.status = "NONE"
  BY TypedInit, GroupInit DEF Init
<1>2. MemberSeats = {} /\ AddedSeats = {}
  BY <1>1, NothingToCount
<1>3. IsFiniteSet({})
  BY FS_EmptySet
<1> QED BY <1>1, <1>2, <1>3 DEF RecountInv, CountersMatchRows, OverridesExplainCapacity

\* The recount invariant is inductive together with the others.
LEMMA RecountNext == CountsInv /\ [Next]_vars => RecountInv'
<1> SUFFICES ASSUME CountsInv, [Next]_vars PROVE RecountInv'
  OBVIOUS
<1> USE DEF CountsInv
<1>1. event.capacityMax \in Int
  BY DEF Typed, TypeOK, EventRow
<1>2. ASSUME NEW u \in Users, NEW g \in GuestCounts, NEW ok \in BOOLEAN, Create(u, g, ok)
      PROVE  RecountInv'
  <2>1. UNCHANGED config
    BY <1>2, CreateSteps
  <2>2. CASE /\ \A q \in Requests : Kept(requests[q], requests'[q])
             /\ UNCHANGED <<event, participants, room, members>>
    BY <2>1, <2>2, ClosingKeepsRecount
  <2>3. ASSUME NEW r \in Requests, NEW rows, Awaiting(rows, r), requests[r].status = "NONE",
               rows[r] = NewRequest(u, g), OpenForMembership,
               \/ requests' = rows /\ UNCHANGED <<event, participants, room, members>>
               \/ \E begin \in BeginTimes(0) :
                    approveAndParticipate(rows, r, event.capacityMax, NoUser, begin)
        PROVE  RecountInv'
    <3>1. Evidence(rows[r], event.capacityMax)
      BY <2>3 DEF Evidence, NewRequest
    <3>2. CASE requests' = rows /\ UNCHANGED <<event, participants, room, members>>
      BY <2>1, <2>3, <3>1, <3>2, InsertionKeepsRecount
    <3>3. CASE \E begin \in BeginTimes(0) :
                 approveAndParticipate(rows, r, event.capacityMax, NoUser, begin)
      BY <1>1, <2>1, <2>3, <3>1, <3>3, AdmissionKeepsRecount
    <3> QED BY <2>3, <3>2, <3>3
  <2> QED BY <1>2, <2>2, <2>3, CreateSteps
<1>3. ASSUME NEW r \in Requests, Cancel(r) \/ Reject(r) \/ ExpireOnTouch(r)
      PROVE  RecountInv'
  BY <1>3, ClosingSteps, ClosingKeepsRecount
<1>4. ASSUME NEW r \in Requests, NEW ok \in BOOLEAN,
             Approve(r, ok) \/ ApproveWithCapacityOverride(r, ok)
      PROVE  RecountInv'
  <2>1. CASE ExpireOnTouch(r)
    BY <1>3, <2>1
  <2>2. CASE ~ExpireOnTouch(r)
    <3>1. PICK rows \in [Requests -> RequestRow], capacity \in Int, begin \in Int :
            /\ Awaiting(rows, r) /\ Evidence(rows[r], capacity)
            /\ approveAndParticipate(rows, r, capacity, Host, begin)
      BY <1>4, <2>2, ApprovalAdmits
    <3>2. UNCHANGED config /\ OpenForMembership
      BY <1>4, <2>2, ApprovalAdmits
    <3> QED BY <3>1, <3>2, AdmissionKeepsRecount
  <2> QED BY <2>1, <2>2
<1>5. ASSUME NEW u \in Users, Leave(u) \/ Remove(u) PROVE RecountInv'
  BY <1>5, CancellationKeepsRecount DEF Leave, Remove, assertLeavable
<1>6. CASE \/ \E c \in Configs : CreateEvent(c) \/ SeedSession(c) \/ UpdateEvent(c)
           \/ PublishEvent \/ CancelEvent \/ AdvanceLifecycle
           \/ LoseProvider \/ Tick
  BY <1>6, LifecycleKeepsRecount
<1>7. CASE UNCHANGED vars
  <2>1. UNCHANGED <<config, event, requests, participants>>
    BY <1>7 DEF vars
  <2>2. \A q \in Requests : Kept(requests[q], requests'[q])
    BY <2>1 DEF Kept
  <2> QED BY <2>1, <2>2, ClosingKeepsRecount
<1> QED BY <1>2, <1>3, <1>4, <1>5, <1>6, <1>7 DEF Next

\* Types, seats, group and recounts hold together in every reachable state.
LEMMA CountsAlways == Spec => []CountsInv
<1>1. Init => CountsInv
  BY TypedInit, SeatsInit, GroupInit, RecountInit DEF CountsInv
<1>2. CountsInv /\ [Next]_vars => CountsInv'
  BY TypedNext, SeatsNext, GroupNext, RecountNext DEF CountsInv
<1> QED BY <1>1, <1>2, PTL DEF Spec

\* What the tables say of one group holds together at every moment: the
\* counters equal a recount, a membership is an approved request, the room
\* holds the manager and the members, and a hidden Event has nobody.
THEOREM GroupCorrect == Spec => []GroupIsConsistent
<1>1. CountsInv => GroupIsConsistent
  BY DEF CountsInv, Typed, GroupInv, RecountInv, GroupIsConsistent
<1> QED BY <1>1, CountsAlways, PTL

\* No command ever runs into a CHECK or a unique index of the schema.
THEOREM BackstopsIdle == Spec => []DatabaseBackstopIdle
<1>1. CountsInv => DatabaseBackstopIdle
  BY DEF CountsInv, SeatsInv, GroupInv, DatabaseBackstopIdle
<1> QED BY <1>1, CountsAlways, PTL

\* The override evidence adds up to the capacity the Event gained.
THEOREM CapacityExplained == Spec => []OverridesExplainCapacity
<1>1. CountsInv => OverridesExplainCapacity
  BY DEF CountsInv, RecountInv
<1> QED BY <1>1, CountsAlways, PTL

-----------------------------------------------------------------------------
(* What a step may never do.                                               *)

\* A request that was decided, what a pending one asked for, and the audit
\* of a membership that ended, across one step.
RecordKept(r) ==
  /\ requests[r].status \notin {"NONE", "PENDING"} => requests'[r] = requests[r]
  /\ requests[r].status = "PENDING" =>
       /\ requests'[r].user = requests[r].user
       /\ requests'[r].guestCount = requests[r].guestCount
       /\ requests'[r].expiresAt = requests[r].expiresAt
  /\ participants[r].state = "CANCELLED" => participants'[r] = participants[r]

\* The group of an Event that started or was cancelled, across one step.
GroupSettled ==
  event.status \notin {"NONE", "DRAFT"} /\ ~OpenForMembership =>
    /\ participants' = participants
    /\ members' = members
    /\ event'.reservedSeatCount = event.reservedSeatCount
    /\ event'.capacityMax = event.capacityMax
    /\ ~(event'.status \in {"ACTIVE", "FULL"} /\ event'.status # event.status)

\* Keeping requests and memberships keeps the record.
LEMMA KeptRecord ==
  ASSUME \A q \in Requests : Kept(requests[q], requests'[q]), UNCHANGED participants
  PROVE  \A r \in Requests : RecordKept(r)
BY DEF Kept, SameRequest, RecordKept

\* Admitting a waiting request rewrites that row alone, which was undecided.
LEMMA AdmissionKeepsRecord ==
  ASSUME Typed, GroupInv, NEW rows, NEW r \in Requests, Awaiting(rows, r),
         NEW capacity, NEW decidedBy, NEW begin,
         approveAndParticipate(rows, r, capacity, decidedBy, begin)
  PROVE  \A q \in Requests : RecordKept(q)
<1>1. /\ SameRequest(rows[r], requests'[r])
      /\ \A q \in Requests \ {r} :
           requests'[q] = rows[q] /\ participants'[q] = participants[q]
  BY AdmissionEffect DEF Awaiting
<1>2. /\ requests[r].status \in {"NONE", "PENDING"} /\ participants[r].state = "NONE"
      /\ requests[r].status = "PENDING" => SameRequest(requests[r], rows[r])
  BY DEF Awaiting, GroupInv, MembershipFollowsApproval
<1>3. RecordKept(r)
  BY <1>1, <1>2 DEF RecordKept, SameRequest
<1>4. \A q \in Requests \ {r} : RecordKept(q)
  BY <1>1 DEF Awaiting, Kept, SameRequest, RecordKept
<1> QED BY <1>3, <1>4

\* No step reopens a decision, changes a question or touches an audit.
LEMMA RecordNext == Typed /\ GroupInv /\ [Next]_vars => \A r \in Requests : RecordKept(r)
<1> SUFFICES ASSUME Typed, GroupInv, [Next]_vars PROVE \A r \in Requests : RecordKept(r)
  OBVIOUS
<1>1. ASSUME NEW u \in Users, NEW g \in GuestCounts, NEW ok \in BOOLEAN, Create(u, g, ok)
      PROVE  \A r \in Requests : RecordKept(r)
  <2>1. CASE /\ \A q \in Requests : Kept(requests[q], requests'[q])
             /\ UNCHANGED <<event, participants, room, members>>
    BY <2>1, KeptRecord
  <2>2. ASSUME NEW r \in Requests, NEW rows, Awaiting(rows, r), requests[r].status = "NONE",
               \/ requests' = rows /\ UNCHANGED <<event, participants, room, members>>
               \/ \E begin \in BeginTimes(0) :
                    approveAndParticipate(rows, r, event.capacityMax, NoUser, begin)
        PROVE  \A q \in Requests : RecordKept(q)
    <3>1. CASE requests' = rows /\ UNCHANGED participants
      <4>1. \A q \in Requests \ {r} : Kept(requests[q], requests'[q])
        BY <2>2, <3>1 DEF Awaiting
      <4>2. participants[r].state = "NONE"
        BY <2>2 DEF GroupInv, MembershipFollowsApproval
      <4> QED BY <2>2, <3>1, <4>1, <4>2 DEF Kept, SameRequest, RecordKept
    <3>2. CASE \E begin \in BeginTimes(0) :
                 approveAndParticipate(rows, r, event.capacityMax, NoUser, begin)
      BY <2>2, <3>2, AdmissionKeepsRecord
    <3> QED BY <2>2, <3>1, <3>2
  <2> QED BY <1>1, <2>1, <2>2, CreateSteps
<1>2. ASSUME NEW r \in Requests, Cancel(r) \/ Reject(r) \/ ExpireOnTouch(r)
      PROVE  \A q \in Requests : RecordKept(q)
  BY <1>2, ClosingSteps, KeptRecord
<1>3. ASSUME NEW r \in Requests, NEW ok \in BOOLEAN,
             Approve(r, ok) \/ ApproveWithCapacityOverride(r, ok)
      PROVE  \A q \in Requests : RecordKept(q)
  <2>1. CASE ExpireOnTouch(r)
    BY <1>2, <2>1
  <2>2. CASE ~ExpireOnTouch(r)
    <3>1. PICK rows \in [Requests -> RequestRow], capacity \in Int, begin \in Int :
            /\ Awaiting(rows, r)
            /\ approveAndParticipate(rows, r, capacity, Host, begin)
      BY <1>3, <2>2, ApprovalAdmits
    <3> QED BY <3>1, AdmissionKeepsRecord
  <2> QED BY <2>1, <2>2
<1>4. ASSUME NEW u \in Users, Leave(u) \/ Remove(u)
      PROVE  \A q \in Requests : RecordKept(q)
  <2>1. PICK r \in Requests :
          /\ IsActive(r)
          /\ \E actor : participants' = [participants EXCEPT ![r].state = "CANCELLED",
                                                             ![r].cancelledByUserId = actor]
    BY <1>4 DEF Leave, Remove, cancelParticipation
  <2>2. UNCHANGED requests
    BY <1>4 DEF Leave, Remove, cancelParticipation
  <2>3. \A q \in Requests \ {r} : participants'[q] = participants[q]
    BY <2>1 DEF Typed, TypeOK
  <2> QED BY <2>1, <2>2, <2>3 DEF RecordKept
<1>5. CASE \/ \E c \in Configs : CreateEvent(c) \/ SeedSession(c) \/ UpdateEvent(c)
           \/ PublishEvent \/ CancelEvent \/ AdvanceLifecycle
           \/ LoseProvider \/ Tick
  BY <1>5, LifecycleSteps, KeptRecord DEF Kept
<1>6. CASE UNCHANGED vars
  BY <1>6, KeptRecord DEF Kept, vars
<1> QED BY <1>1, <1>2, <1>3, <1>4, <1>5, <1>6 DEF Next

\* Once membership is closed a step leaves the group as it is.
LEMMA SettledNext == Typed /\ GroupInv /\ [Next]_vars => GroupSettled
<1> SUFFICES ASSUME Typed, GroupInv, [Next]_vars,
                    event.status \notin {"NONE", "DRAFT"}, ~OpenForMembership
             PROVE  GroupSettled
  BY DEF GroupSettled
<1> USE DEF GroupSettled
<1>1. event \in EventRow
  BY DEF Typed, TypeOK
<1>2. ASSUME NEW u \in Users, NEW g \in GuestCounts, NEW ok \in BOOLEAN, Create(u, g, ok)
      PROVE  GroupSettled
  BY <1>2 DEF Create, MayRequest, assertJoinable
<1>3. ASSUME NEW r \in Requests, Cancel(r) \/ Reject(r) \/ ExpireOnTouch(r)
      PROVE  GroupSettled
  BY <1>3, ClosingSteps
<1>4. ASSUME NEW r \in Requests, NEW ok \in BOOLEAN,
             Approve(r, ok) \/ ApproveWithCapacityOverride(r, ok)
      PROVE  GroupSettled
  BY <1>3, <1>4, ApprovalAdmits
<1>5. ASSUME NEW u \in Users, Leave(u) \/ Remove(u) PROVE GroupSettled
  BY <1>5 DEF Leave, Remove, assertLeavable
<1>6. CASE \/ \E c \in Configs : CreateEvent(c) \/ SeedSession(c) \/ UpdateEvent(c)
           \/ PublishEvent \/ CancelEvent \/ AdvanceLifecycle
           \/ LoseProvider \/ Tick
  <2>1. UNCHANGED <<participants, members>>
    BY <1>6, LifecycleSteps
  <2>2. CASE CancelEvent \/ AdvanceLifecycle
    <3>1. PICK to \in {"IN_PROGRESS", "COMPLETED", "CANCELLED"} :
            event' = [event EXCEPT !.status = to]
      BY <2>2 DEF CancelEvent, AdvanceLifecycle
    <3> QED BY <1>1, <2>1, <3>1 DEF EventRow
  <2>3. CASE LoseProvider \/ Tick
    BY <2>1, <2>3 DEF LoseProvider, Tick
  <2> QED BY <1>6, <2>2, <2>3
          DEF CreateEvent, SeedSession, InsertDraft, UpdateEvent, PublishEvent
<1>7. CASE UNCHANGED vars
  BY <1>7 DEF vars
<1> QED BY <1>2, <1>3, <1>4, <1>5, <1>6, <1>7 DEF Next

\* Neither a decision, a question nor an audit is ever rewritten, and the
\* group of an Event that started or was cancelled stays as it is.
THEOREM HistoryKept == Spec => HistoryIsFinal
<1>1. Spec => [](Typed /\ GroupInv) /\ [][Next]_vars
  BY TypedInit, TypedNext, GroupInit, GroupNext, PTL DEF Spec
<1>2. Typed /\ GroupInv /\ [Next]_vars => [\A r \in Requests : RecordKept(r)]_vars
  BY RecordNext
<1>3. Typed /\ GroupInv /\ [Next]_vars => [GroupSettled]_vars
  BY SettledNext
<1>4. DecisionsAreFinal <=> [][\A r \in Requests : RecordKept(r)]_vars
  BY DEF DecisionsAreFinal, RecordKept
<1>5. GroupSettledAfterStart <=> [][GroupSettled]_vars
  BY DEF GroupSettledAfterStart, GroupSettled
<1> QED BY <1>1, <1>2, <1>3, <1>4, <1>5, PTL DEF HistoryIsFinal

=============================================================================
