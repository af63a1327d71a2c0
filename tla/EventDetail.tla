---------------------------- MODULE EventDetail -----------------------------
(***************************************************************************)
(* GET /v1/events/:eventId: who may open an Event, the group state shown,  *)
(* and the relationship and button derived for the viewer, over the state  *)
(* of EventGroup.  "Mirrors JoinRequestsService.create()'s gates in the    *)
(* same order, so the button the client shows matches what the join        *)
(* endpoint would actually do."                                            *)
(***************************************************************************)
EXTENDS EventGroup, FiniteSetsExt

\* The viewer's most recent request row, the highest numbered one, or 0.
latestJoinRequest(u) ==
  Max({0} \cup {r \in Requests : requests[r].user = u})

\* Mutant: the stored status is shown.
effectiveJoinRequestStatus_Stored(r) == requests[r].status

\* A PENDING row past its deadline is EXPIRED in fact.
effectiveJoinRequestStatus(r) ==
  IF IsPending(r) /\ Overdue(r) THEN "EXPIRED" ELSE requests[r].status

AwaitsDecision(u) ==
  LET r == latestJoinRequest(u)
  IN  r # 0 /\ effectiveJoinRequestStatus(r) = "PENDING"

isManager(u) == Managed /\ u = Host

canViewEventDetail(u) ==
  /\ event.status # "NONE"
  /\ \/ isManager(u)
     \/ /\ event.status # "DRAFT"
        /\ \/ ActiveMember(u) \/ AwaitsDecision(u)
           \/ /\ config.visibility = "PUBLIC"
              /\ event.status \in {"ACTIVE", "FULL"}
              /\ Managed

\* Every gate of joinUnavailableReason but the trust score, which the caller
\* of this operator supplies.
JoinAvailable(trusted) ==
  /\ trusted
  /\ Managed
  /\ OpenForMembership
  /\ ~config.paid

canRequestToJoin(u, trusted) ==
  /\ ~isManager(u) /\ ~ActiveMember(u) /\ ~AwaitsDecision(u)
  /\ JoinAvailable(trusted)

primaryAction(u, trusted) ==
  CASE isManager(u)                 -> "MANAGE"
    [] ~isManager(u) /\ ActiveMember(u) -> "OPEN_CHAT"
    [] ~isManager(u) /\ ~ActiveMember(u) /\ AwaitsDecision(u) -> "AWAITING_APPROVAL"
    [] canRequestToJoin(u, trusted) -> "REQUEST_TO_JOIN"
    [] OTHER                        -> "NONE"

\* The chat entry point: the room when there is one, for the manager and the
\* current members only.
chatEntry(u) == (isManager(u) \/ ActiveMember(u)) /\ room

\* groupStateFor: FORMING and CONFIRMED are derived from the seat counter.
groupState ==
  CASE event.status = "CANCELLED" -> "CANCELLED"
    [] event.status = "FULL"      -> "FULL"
    [] event.status = "ACTIVE"    ->
         IF config.capacityMin = 0 THEN "OPEN"
         ELSE IF event.reservedSeatCount >= config.capacityMin
              THEN "CONFIRMED" ELSE "FORMING"
    [] OTHER                      -> "NONE"

seatsToConfirm ==
  IF config.capacityMin = 0 THEN 0
  ELSE Max({config.capacityMin - event.reservedSeatCount, 0})

\* The seats shown as free; never negative.
remainingSeats == Max({0, event.capacityMax - event.reservedSeatCount})

\* What anybody who can open the Event is shown of the group.
toPublicEventDetail ==
  [groupState |-> groupState, seatsToConfirm |-> seatsToConfirm,
   remainingSeats |-> remainingSeats]

\* What the inbox shows of a request, derived from its snapshot columns and
\* from the Event as it is now.
requestedSeats(r) == 1 + requests[r].guestCount

availableSeatsAtRequest(r) ==
  Max({0, requests[r].capacityMaxAtRequest - requests[r].reservedSeatCountAtRequest})

\* The requests shown to their requester, and to whoever manages the Event.
listMine(u) == {r \in Requests : requests[r].user = u}
listForHost(u) == IF isManager(u) THEN {r \in Requests : requests[r].user # NoUser} ELSE {}

exceededCapacityAtRequest(r) == requestedSeats(r) > availableSeatsAtRequest(r)
currentlyFits(r) == requestedSeats(r) <= remainingSeats

-----------------------------------------------------------------------------
\* For a trusted traveller who can open the Event, the button is honest: it
\* offers to join exactly when create() would insert a request, announces a
\* pending answer exactly when create() would report a live request, and
\* opens the chat only for somebody the room counts as an active member.
ButtonMatchesCommands ==
  \A u \in Users : canViewEventDetail(u) =>
    LET action == primaryAction(u, TRUE)
    IN  /\ action = "REQUEST_TO_JOIN" <=>
             Managed /\ assertVisibleToRequester(u) /\ ~LivePending(u) /\ MayRequest(u)
        /\ action = "AWAITING_APPROVAL" <=> LivePending(u)
        /\ action = "OPEN_CHAT" => chatEntry(u) /\ u \in members
        /\ action # "MANAGE"

\* The group state shown agrees with the rows behind the counter: a FULL or
\* CONFIRMED group really has the people, a FORMING one is really short, by
\* the number of seats shown, and could still take them.
GroupStateIsEarned ==
  LET people == HostSeats(config) + Cardinality(MemberSeats)
      shown == toPublicEventDetail
  IN  /\ shown.groupState = "CONFIRMED" => people >= config.capacityMin /\ shown.seatsToConfirm = 0
      /\ shown.groupState = "FULL" => people >= config.capacityMin /\ people = event.capacityMax
      /\ shown.groupState = "FORMING" =>
           /\ people + shown.seatsToConfirm = config.capacityMin
           /\ shown.seatsToConfirm > 0
           /\ people + shown.seatsToConfirm <= event.capacityMax
      /\ event.status # "NONE" => shown.remainingSeats = event.capacityMax - people

\* "Historical fact unchanged": whatever happened since, the snapshot still
\* tells why a request was or was not approved without a host, and a pending
\* request shown as fitting is never one of a FULL Event.
RequestViewsAreHonest ==
  \A u \in Users \cup {Host} : \A r \in listMine(u) \cup listForHost(u) :
    /\ requests[r].status = "APPROVED" /\ requests[r].decidedByUserId = NoUser =>
         ~config.joinApprovalRequired /\ ~exceededCapacityAtRequest(r)
    /\ IsPending(r) /\ ~config.joinApprovalRequired => exceededCapacityAtRequest(r)
    /\ IsPending(r) /\ currentlyFits(r) => event.status # "FULL"

\* The view is derived apart from the commands: what it offers and what it
\* shows agree with them in every state the commands and the clock lead to.
DetailIsHonest ==
  ButtonMatchesCommands /\ GroupStateIsEarned /\ RequestViewsAreHonest
=============================================================================
