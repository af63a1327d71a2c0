----------------------------- MODULE EventGroup -----------------------------
(***************************************************************************)
(* One TripWith Event and the group that forms around it: its lifecycle    *)
(* row (events), the join requests (event_join_requests), the memberships  *)
(* (event_participants), the trigger-maintained seat counters and the      *)
(* membership of the EVENT chat room.                                      *)
(*                                                                         *)
(* Every command of EventsService and JoinRequestsService first takes the  *)
(* events row FOR UPDATE and keeps it to COMMIT, so the commands of one    *)
(* Event are serialised by the database and each is one action here.  What *)
(* the row lock does not freeze is modelled outside the commands: the      *)
(* clock, the standing of accounts, the Provider behind a session, and how *)
(* long before it got the lock a transaction began.                        *)
(*                                                                         *)
(* The CHECKs and unique indexes of the schema are not guards of the       *)
(* actions: DatabaseBackstopIdle states that the service's own checks      *)
(* never let a command run into one.                                       *)
(***************************************************************************)
EXTENDS Integers, FiniteSets

CONSTANTS
  Users,          \* accounts other than the one that manages the Event
  Host,           \* the manager: the USER host, or the owner of the Provider
  NoUser,         \* SQL NULL in a user column
  Configs,        \* the Event configurations a host may submit
  GuestCounts,    \* party sizes a traveller may ask for, besides themselves
  MaxRequests,    \* bound: rows of event_join_requests
  MaxTime,        \* bound: the clock
  RequestTtl,     \* 24 h, in clock units: lifetime of a PENDING request
  TxWait,         \* longest time from a transaction's BEGIN to its row lock
  CapacityLimit   \* 10_000: the largest capacityMax the service accepts

Requests == 1 .. MaxRequests

ASSUME ConstantsAssumption ==
  /\ MaxRequests \in Nat
  /\ MaxTime \in Nat
  /\ RequestTtl \in Nat \ {0}
  /\ TxWait \in Nat
  /\ CapacityLimit \in Nat \ {0}
  /\ GuestCounts \subseteq Nat

ASSUME AccountsAssumption ==
  /\ Host \notin Users
  /\ NoUser \notin Users \cup {Host}

HostTypes == {"USER", "PROVIDER"}
Visibilities == {"PUBLIC", "UNLISTED", "PRIVATE"}

\* The columns a host supplies; capacityMin = 0 stands for NULL and paid for
\* depositMinor > 0.
Config == [hostType : HostTypes, visibility : Visibilities, paid : BOOLEAN,
           joinApprovalRequired : BOOLEAN, capacityMin : Nat,
           capacityMax : 1 .. CapacityLimit, hostGuestCount : Nat,
           startsAt : Nat]

ASSUME ConfigsAssumption == Configs \subseteq Config /\ Configs # {}

VARIABLES
  now,           \* the clock every service reads
  config,        \* the host's last submission: columns frozen after DRAFT
  event,         \* the columns that move: status, capacityMax, counters
  requests,      \* event_join_requests, in insertion order
  participants,  \* event_participants, keyed by join_request_id (UNIQUE)
  room,          \* TRUE once the EVENT chat room exists
  members,       \* chat_members of that room with left_at IS NULL
  provider       \* FALSE once the hosting Provider is deleted or unclaimed

vars == <<now, config, event, requests, participants, room, members, provider>>

EventStatuses ==
  {"NONE", "DRAFT", "ACTIVE", "FULL", "IN_PROGRESS", "COMPLETED", "CANCELLED"}
RequestStatuses ==
  {"NONE", "PENDING", "APPROVED", "REJECTED", "EXPIRED", "CANCELLED"}

NoRequest ==
  [user |-> NoUser, guestCount |-> 0, status |-> "NONE", expiresAt |-> 0,
   capacityMaxAtRequest |-> 0, reservedSeatCountAtRequest |-> 0,
   capacityBeforeOverride |-> 0, capacityAfterOverride |-> 0,
   decidedByUserId |-> NoUser]

NoParticipant ==
  [user |-> NoUser, guestCount |-> 0, joinedAt |-> 0, state |-> "NONE",
   cancelledByUserId |-> NoUser]

-----------------------------------------------------------------------------
(* The lifecycle graph and who manages the Event.                          *)

Transitions ==
  [NONE        |-> {},
   DRAFT       |-> {"ACTIVE", "FULL", "CANCELLED"},
   ACTIVE      |-> {"FULL", "IN_PROGRESS", "CANCELLED"},
   FULL        |-> {"ACTIVE", "IN_PROGRESS", "CANCELLED"},
   IN_PROGRESS |-> {"COMPLETED", "CANCELLED"},
   COMPLETED   |-> {},
   CANCELLED   |-> {}]

\* Mutant: the edge into FULL is missing from the graph.
canTransition_NeverFull(from, to) == to \in Transitions[from] \ {"FULL"}

canTransition(from, to) == to \in Transitions[from]

\* There is such an Event; a request that does not find it is refused.
lockEvent == event.status # "NONE"

\* The row exists and Host may manage it: always for a USER host, while the
\* Provider is claimed and not deleted for a session.
Managed == lockEvent /\ (config.hostType = "USER" \/ provider)

\* Every command of the host: to anybody else the Event does not exist.
requireOwnedEvent == Managed

\* The host party takes seats; the owner of a Provider takes none.
HostSeats(c) == IF c.hostType = "USER" THEN 1 + c.hostGuestCount ELSE 0

-----------------------------------------------------------------------------
(* Rows of one user.                                                       *)

IsPending(r) == requests[r].status = "PENDING"
Overdue(r) == requests[r].expiresAt <= now
IsActive(r) == participants[r].state = "ACTIVE"

ActiveRows == {r \in Requests : IsActive(r)}
ActiveMember(u) == \E r \in ActiveRows : participants[r].user = u
LivePending(u) ==
  \E r \in Requests : requests[r].user = u /\ IsPending(r) /\ ~Overdue(r)

\* Rows are inserted in the order of their number.
NextRow(r) ==
  /\ requests[r].status = "NONE"
  /\ \A q \in Requests : q < r => requests[q].status # "NONE"

\* The table after every overdue PENDING row of u is marked EXPIRED.
Lapsed(u) ==
  [r \in Requests |->
     IF requests[r].user = u /\ IsPending(r) /\ Overdue(r)
     THEN [requests[r] EXCEPT !.status = "EXPIRED"]
     ELSE requests[r]]

\* ORDER BY joined_at DESC: the row of its user that leave and remove act on.
\* Two rows in the same clock unit are told apart by the order of insertion.
IsNewest(r) ==
  \A q \in Requests \ {r} : participants[q].user = participants[r].user =>
    \/ participants[q].joinedAt < participants[r].joinedAt
    \/ participants[q].joinedAt = participants[r].joinedAt /\ q < r

-----------------------------------------------------------------------------
(* Gates of JoinRequestsService.                                           *)

assertVisibleToRequester(u) ==
  /\ event.status # "DRAFT"
  /\ config.visibility = "PUBLIC" \/ ActiveMember(u) \/ LivePending(u)

\* Account status, suspensions and trust score belong to other services and
\* change at any time: what the check finds is an input of the command.
requireEligibleUser(eligible) == eligible

OpenForMembership == event.status \in {"ACTIVE", "FULL"} /\ config.startsAt > now
assertJoinable == OpenForMembership /\ ~config.paid

assertLeavable == OpenForMembership

\* Mutant: the requester's own seat is not counted.
PartyFits_GuestsOnly(guestCount) ==
  guestCount <= event.capacityMax - event.reservedSeatCount

PartyFits(guestCount) ==
  1 + guestCount <= event.capacityMax - event.reservedSeatCount

\* When a transaction that now holds the row lock may have begun, not before
\* `earliest`; joined_at DEFAULT now() is that instant.
BeginTimes(earliest) == {t \in earliest .. now : now - t <= TxWait}

-----------------------------------------------------------------------------
(* EventsService: the host's commands on the lifecycle row.                *)

\* A minimum, when there is one, is within the capacity.
assertEventCapacityMin(c) == c.capacityMin <= c.capacityMax

\* The host party alone never exceeds the capacity.
ValidConfig(c) ==
  /\ assertEventCapacityMin(c)
  /\ 1 + c.hostGuestCount <= c.capacityMax
  /\ c.hostType = "PROVIDER" => c.hostGuestCount = 0

\* The events row for configuration c before anybody joined: the INSERT
\* trigger seeds reserved_seat_count with the host party.
DraftRow(c) ==
  [status |-> "DRAFT", capacityMax |-> c.capacityMax,
   reservedSeatCount |-> HostSeats(c), participantCount |-> 0]

InsertDraft(c) ==
  /\ event.status = "NONE"
  /\ ValidConfig(c)
  /\ config' = c
  /\ event' = DraftRow(c)
  /\ UNCHANGED <<now, requests, participants, room, members, provider>>

CreateEvent(c) == c.hostType = "USER" /\ InsertDraft(c)

\* No service creates the session of a Provider yet: the seed script inserts
\* its DRAFT, and the services manage it from there.
SeedSession(c) == c.hostType = "PROVIDER" /\ InsertDraft(c)

\* UpdateEventDto: what a patch may turn the draft into; its host is not a field.
Patched(c) == c.hostType = config.hostType

\* A DRAFT only.  The host_guest_count trigger moves the counter by the
\* difference of the two host parties.
UpdateEvent(c) ==
  /\ requireOwnedEvent
  /\ event.status = "DRAFT"
  /\ Patched(c)
  /\ ValidConfig(c)
  /\ c.capacityMax >= event.participantCount
  /\ config' = c
  /\ event' = [event EXCEPT !.capacityMax = c.capacityMax,
                            !.reservedSeatCount = @ - HostSeats(config) + HostSeats(c)]
  /\ UNCHANGED <<now, requests, participants, room, members, provider>>

PublishEvent ==
  /\ requireOwnedEvent
  /\ event.status = "DRAFT"
  /\ config.startsAt > now
  /\ event' = [event EXCEPT !.status =
       IF config.hostType = "USER" /\ 1 + config.hostGuestCount = event.capacityMax
       THEN "FULL" ELSE "ACTIVE"]
  /\ UNCHANGED <<now, config, requests, participants, room, members, provider>>

CancelEvent ==
  /\ requireOwnedEvent
  /\ canTransition(event.status, "CANCELLED")
  /\ event' = [event EXCEPT !.status = "CANCELLED"]
  /\ UNCHANGED <<now, config, requests, participants, room, members, provider>>

-----------------------------------------------------------------------------
(* JoinRequestsService.                                                    *)

\* Get or create: there is a room afterwards, whoever made it.
ensureEventRoom == TRUE

\* The manager and the new member get (back) into the EVENT room; a member
\* who goes leaves it, when there is one.
activateEventMember(u) == members \cup {Host, u}

\* Mutant: the chat membership outlives the participation.
deactivateEventMember_Kept(u) == members

deactivateEventMember(u) == IF room THEN members \ {u} ELSE members

\* The shared approval: request r of the table `rows` becomes APPROVED and a
\* membership with the request's party, the triggers count it, the room and
\* both chat memberships are ensured, and an Event whose seats are now all
\* taken turns FULL.  `capacity` is capacityMax as the caller left it and
\* `begin` the instant its transaction began.
approveAndParticipate(rows, r, capacity, decidedBy, begin) ==
  LET party    == 1 + rows[r].guestCount
      reserved == event.reservedSeatCount + party
  IN  /\ requests' = [rows EXCEPT ![r].status = "APPROVED",
                                  ![r].decidedByUserId = decidedBy]
      /\ participants' = [participants EXCEPT ![r] =
            [user |-> rows[r].user, guestCount |-> rows[r].guestCount,
             joinedAt |-> begin, state |-> "ACTIVE", cancelledByUserId |-> NoUser]]
      /\ event' =
           [status |-> IF reserved = capacity /\ canTransition(event.status, "FULL")
                       THEN "FULL" ELSE event.status,
            capacityMax |-> capacity, reservedSeatCount |-> reserved,
            participantCount |-> event.participantCount + 1]
      /\ room' = ensureEventRoom
      /\ members' = activateEventMember(rows[r].user)

\* What create() asks besides the account's eligibility.
MayRequest(u) == assertJoinable /\ ~ActiveMember(u)

\* Mutant: the two snapshot columns are swapped.
NewRequest_Swapped(u, guestCount) ==
  [user |-> u, guestCount |-> guestCount, status |-> "PENDING",
   expiresAt |-> now + RequestTtl,
   capacityMaxAtRequest |-> event.reservedSeatCount,
   reservedSeatCountAtRequest |-> event.capacityMax,
   capacityBeforeOverride |-> 0, capacityAfterOverride |-> 0,
   decidedByUserId |-> NoUser]

\* The row create() inserts, with its snapshot of the seats as they are.
NewRequest(u, guestCount) ==
  [user |-> u, guestCount |-> guestCount, status |-> "PENDING",
   expiresAt |-> now + RequestTtl,
   capacityMaxAtRequest |-> event.capacityMax,
   reservedSeatCountAtRequest |-> event.reservedSeatCount,
   capacityBeforeOverride |-> 0, capacityAfterOverride |-> 0,
   decidedByUserId |-> NoUser]

\* create(), after the privacy gate (whose refusal rolls everything back):
\* an overdue request of the same user is expired first, and that expiry is
\* kept whether or not the new request is then refused.
Create(u, guestCount, eligible) ==
  /\ Managed
  /\ assertVisibleToRequester(u)
  /\ ~LivePending(u)
  /\ UNCHANGED <<now, config, provider>>
  /\ \/ /\ ~(requireEligibleUser(eligible) /\ MayRequest(u))
        /\ requests' = Lapsed(u)
        /\ UNCHANGED <<event, participants, room, members>>
     \/ /\ requireEligibleUser(eligible) /\ MayRequest(u)
        /\ \E r \in Requests :
             /\ NextRow(r)
             /\ LET rows == [Lapsed(u) EXCEPT ![r] = NewRequest(u, guestCount)]
                IN  IF ~config.joinApprovalRequired /\ PartyFits(guestCount)
                    THEN \E begin \in BeginTimes(0) :
                           approveAndParticipate(rows, r, event.capacityMax, NoUser, begin)
                    ELSE /\ requests' = rows
                         /\ UNCHANGED <<event, participants, room, members>>

\* pendingFailure() on an overdue row: every command on a request marks it
\* EXPIRED, commits that, and only then reports the failure.
ExpireOnTouch(r) ==
  /\ IsPending(r) /\ Overdue(r)
  /\ requests' = [requests EXCEPT ![r].status = "EXPIRED"]
  /\ UNCHANGED <<now, config, event, participants, room, members, provider>>

\* The requester withdraws; allowed whatever became of the Event.
Cancel(r) ==
  \/ ExpireOnTouch(r)
  \/ /\ IsPending(r) /\ ~Overdue(r)
     /\ requests' = [requests EXCEPT ![r].status = "CANCELLED"]
     /\ UNCHANGED <<now, config, event, participants, room, members, provider>>

Reject(r) ==
  /\ requireOwnedEvent
  /\ \/ ExpireOnTouch(r)
     \/ /\ IsPending(r) /\ ~Overdue(r)
        /\ requests' = [requests EXCEPT ![r].status = "REJECTED",
                                        ![r].decidedByUserId = Host]
        /\ UNCHANGED <<now, config, event, participants, room, members, provider>>

\* Mutant: a decided request can be approved again.
Approvable_Decided(r, eligible) ==
  /\ requests[r].status # "NONE" /\ ~Overdue(r)
  /\ requireEligibleUser(eligible)
  /\ assertJoinable

\* A live request of a user who may still join, decided before the start.
Approvable(r, eligible) ==
  /\ IsPending(r) /\ ~Overdue(r)
  /\ requireEligibleUser(eligible)
  /\ assertJoinable

\* When the transaction deciding request r began: its caller knows the row.
DecisionTimes(r) == BeginTimes(requests[r].expiresAt - RequestTtl)

Approve(r, eligible) ==
  /\ requireOwnedEvent
  /\ \/ ExpireOnTouch(r)
     \/ /\ Approvable(r, eligible)
        /\ PartyFits(requests[r].guestCount)
        /\ \E begin \in DecisionTimes(r) :
             approveAndParticipate(requests, r, event.capacityMax, Host, begin)
        /\ UNCHANGED <<now, config, provider>>

\* Raises capacityMax to exactly what the party needs, with its evidence, or
\* approves without evidence when the party fits after all.
ApproveWithCapacityOverride(r, eligible) ==
  /\ requireOwnedEvent
  /\ \/ ExpireOnTouch(r)
     \/ /\ Approvable(r, eligible)
        /\ UNCHANGED <<now, config, provider>>
        /\ LET required == event.reservedSeatCount + 1 + requests[r].guestCount
           IN  \E begin \in DecisionTimes(r) :
                 \/ /\ PartyFits(requests[r].guestCount)
                    /\ approveAndParticipate(requests, r, event.capacityMax, Host, begin)
                 \/ /\ ~PartyFits(requests[r].guestCount)
                    /\ required <= CapacityLimit
                    /\ approveAndParticipate(
                         [requests EXCEPT ![r].capacityBeforeOverride = event.capacityMax,
                                          ![r].capacityAfterOverride = required],
                         r, required, Host, begin)

\* leave and remove act on the newest row of u.  When that one is already
\* cancelled its first audit is returned and nothing is written: no step.
cancelParticipation(u, actor) ==
  /\ \E r \in Requests :
       /\ participants[r].user = u /\ IsNewest(r) /\ IsActive(r)
       /\ participants' = [participants EXCEPT ![r].state = "CANCELLED",
                                               ![r].cancelledByUserId = actor]
       /\ LET reserved == event.reservedSeatCount - (1 + participants[r].guestCount)
          IN  event' =
                [status |-> IF event.status = "FULL" /\ reserved < event.capacityMax
                            THEN "ACTIVE" ELSE event.status,
                 capacityMax |-> event.capacityMax, reservedSeatCount |-> reserved,
                 participantCount |-> event.participantCount - 1]
  /\ members' = deactivateEventMember(u)
  /\ UNCHANGED <<now, config, requests, room, provider>>

Leave(u) == assertLeavable /\ cancelParticipation(u, u)
Remove(u) == requireOwnedEvent /\ assertLeavable /\ cancelParticipation(u, Host)

-----------------------------------------------------------------------------
(* Outside the services: the clock, the Provider's owner, and the          *)
(* lifecycle steps the schema allows and no service performs yet.          *)

Tick ==
  /\ now < MaxTime
  /\ now' = now + 1
  /\ UNCHANGED <<config, event, requests, participants, room, members, provider>>

LoseProvider ==
  /\ provider
  /\ provider' = FALSE
  /\ UNCHANGED <<now, config, event, requests, participants, room, members>>

\* ACTIVE or FULL to IN_PROGRESS at the start, then to COMPLETED.
AdvanceLifecycle ==
  /\ config.startsAt <= now
  /\ \E to \in {"IN_PROGRESS", "COMPLETED"} :
       /\ canTransition(event.status, to)
       /\ event' = [event EXCEPT !.status = to]
  /\ UNCHANGED <<now, config, requests, participants, room, members, provider>>

-----------------------------------------------------------------------------
Init ==
  /\ now = 0
  /\ config = CHOOSE c \in Configs : TRUE
  /\ event = [status |-> "NONE", capacityMax |-> 0, reservedSeatCount |-> 0,
              participantCount |-> 0]
  /\ requests = [r \in Requests |-> NoRequest]
  /\ participants = [r \in Requests |-> NoParticipant]
  /\ room = FALSE
  /\ members = {}
  /\ provider = TRUE

Next ==
  \/ \E c \in Configs : CreateEvent(c) \/ SeedSession(c) \/ UpdateEvent(c)
  \/ PublishEvent \/ CancelEvent \/ AdvanceLifecycle
  \/ \E u \in Users, g \in GuestCounts, ok \in BOOLEAN : Create(u, g, ok)
  \/ \E r \in Requests : Cancel(r) \/ Reject(r)
  \/ \E r \in Requests, ok \in BOOLEAN :
       Approve(r, ok) \/ ApproveWithCapacityOverride(r, ok)
  \/ \E u \in Users : Leave(u) \/ Remove(u)
  \/ LoseProvider
  \/ Tick

Spec == Init /\ [][Next]_vars

-----------------------------------------------------------------------------
(* Properties.                                                             *)

EventRow == [status : EventStatuses, capacityMax : Int,
             reservedSeatCount : Int, participantCount : Int]

RequestRow ==
  [user : Users \cup {NoUser}, guestCount : Nat, status : RequestStatuses,
   expiresAt : Nat, capacityMaxAtRequest : Int, reservedSeatCountAtRequest : Int,
   capacityBeforeOverride : Int, capacityAfterOverride : Int,
   decidedByUserId : {Host, NoUser}]

ParticipantRow ==
  [user : Users \cup {NoUser}, guestCount : Nat, joinedAt : Int,
   state : {"NONE", "ACTIVE", "CANCELLED"},
   cancelledByUserId : Users \cup {Host, NoUser}]

\* The types of the rows and of the environment.
TypeOK ==
  /\ now \in Nat
  /\ config \in Configs
  /\ event \in EventRow
  /\ requests \in [Requests -> RequestRow]
  /\ participants \in [Requests -> ParticipantRow]
  /\ room \in BOOLEAN
  /\ members \subseteq Users \cup {Host}
  /\ provider \in BOOLEAN

\* A recount of the tables: every active row has a seat for the member and
\* one for each guest, every override one for each seat it added.
MemberSeats == UNION {{r} \X (0 .. participants[r].guestCount) : r \in ActiveRows}
AddedSeats ==
  UNION {{r} \X (requests[r].capacityBeforeOverride + 1
                  .. requests[r].capacityAfterOverride) : r \in Requests}

\* The counters the triggers maintain by increments are what a recount of
\* the tables would give: reserved_seat_count is the host party plus every
\* active party, participant_count the number of active rows.
CountersMatchRows ==
  event.status # "NONE" =>
    /\ event.participantCount = Cardinality(ActiveRows)
    /\ event.reservedSeatCount = HostSeats(config) + Cardinality(MemberSeats)

\* FULL "only describes current physical occupancy": an Event before its
\* start is FULL exactly when every seat is taken and ACTIVE otherwise,
\* through joins, overrides, leaves, removals and rejoins.
StatusTellsOccupancy ==
  /\ event.status = "ACTIVE" => event.reservedSeatCount < event.capacityMax
  /\ event.status = "FULL" => event.reservedSeatCount = event.capacityMax

\* The schema's backstops are never reached by a command: seats within the
\* capacity and the capacity within the service's limit, at most one PENDING
\* request and one active membership per user, override evidence that raises.
SeatsWithinCapacity ==
  event.status # "NONE" =>
    /\ event.reservedSeatCount <= event.capacityMax
    /\ event.capacityMax <= CapacityLimit

OnePendingPerUser ==
  \A q, r \in Requests :
    IsPending(q) /\ IsPending(r) /\ requests[q].user = requests[r].user
      => q = r

OneActivePerUser ==
  \A q, r \in Requests :
    IsActive(q) /\ IsActive(r) /\ participants[q].user = participants[r].user
      => q = r

OverridesRaise ==
  \A r \in Requests :
    LET row == requests[r]
    IN  \/ row.capacityAfterOverride = 0 /\ row.capacityBeforeOverride = 0
        \/ row.capacityBeforeOverride < row.capacityAfterOverride

DatabaseBackstopIdle ==
  SeatsWithinCapacity /\ OnePendingPerUser /\ OneActivePerUser /\ OverridesRaise

\* A request is the decision record and the participant row the membership it
\* granted: APPROVED and having a row go together for ever, with the same
\* user and party, also after the member left, was removed or rejoined.
MembershipFollowsApproval ==
  \A r \in Requests :
    /\ requests[r].status = "APPROVED" <=> participants[r].state # "NONE"
    /\ participants[r].state # "NONE" =>
         /\ participants[r].user = requests[r].user
         /\ participants[r].guestCount = requests[r].guestCount

\* "A chat-only failure must not leave a stranger-free but still-listed
\* participant, or vice versa": the active members of the EVENT room are the
\* manager and the current members, and nobody is a member before it exists.
ChatMatchesGroup ==
  members = IF room THEN {Host} \cup {participants[r].user : r \in ActiveRows}
                    ELSE {}

\* The override evidence accounts for every seat added since publication,
\* and no request saw more capacity or occupancy than there was.
OverridesExplainCapacity ==
  event.status # "NONE" =>
    /\ event.capacityMax = config.capacityMax + Cardinality(AddedSeats)
    /\ \A r \in Requests :
         /\ requests[r].reservedSeatCountAtRequest <= requests[r].capacityMaxAtRequest
         /\ requests[r].capacityMaxAtRequest <= event.capacityMax

\* A PRIVATE, UNLISTED or paid Event, and a DRAFT, never gets a request from
\* a stranger, hence never a member or a chat room.
HiddenEventHasNoGroup ==
  config.visibility # "PUBLIC" \/ config.paid \/ event.status \in {"NONE", "DRAFT"}
    => /\ ~room
       /\ \A r \in Requests : requests[r].status = "NONE"

\* What the tables say of one group holds together at every moment.
GroupIsConsistent ==
  /\ TypeOK /\ CountersMatchRows /\ MembershipFollowsApproval
  /\ ChatMatchesGroup /\ HiddenEventHasNoGroup

\* What a step may never do to the record: reopen or rewrite a decided
\* request, change what was asked for, or touch the audit of a membership
\* that ended ("first successful cancellation wins").
DecisionsAreFinal ==
  [][\A r \in Requests :
       /\ requests[r].status \notin {"NONE", "PENDING"} =>
            requests'[r] = requests[r]
       /\ requests[r].status = "PENDING" =>
            /\ requests'[r].user = requests[r].user
            /\ requests'[r].guestCount = requests[r].guestCount
            /\ requests'[r].expiresAt = requests[r].expiresAt
       /\ participants[r].state = "CANCELLED" =>
            participants'[r] = participants[r]]_vars

\* Once the Event started or was cancelled its group is settled: no member
\* is added or dropped, no seat moves and the capacity stays.
GroupSettledAfterStart ==
  [][event.status \notin {"NONE", "DRAFT"} /\ ~OpenForMembership =>
       /\ participants' = participants
       /\ members' = members
       /\ event'.reservedSeatCount = event.reservedSeatCount
       /\ event'.capacityMax = event.capacityMax
       /\ ~(event'.status \in {"ACTIVE", "FULL"} /\ event'.status # event.status)]_vars

\* Neither the record of a request nor the group of an Event that started is
\* rewritten by a command that comes late.
HistoryIsFinal == DecisionsAreFinal /\ GroupSettledAfterStart

\* cancelParticipation: "a rejoin always creates a newer row than any earlier
\* cancellation", so the row that leave and remove act on is the active one
\* whenever the user is a member.
RejoinIsNewest == \A r \in ActiveRows : IsNewest(r)
=============================================================================
