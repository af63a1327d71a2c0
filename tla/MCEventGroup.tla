---------------------------- MODULE MCEventGroup ----------------------------
(* Small instances of EventGroup and of its detail view for TLC.           *)
EXTENDS EventDetail, TLC

\* A configuration; the arguments are what the instances vary.
Conf(type, vis, paid, approval, min, max, hostGuests, start) ==
  [hostType |-> type, visibility |-> vis, paid |-> paid,
   joinApprovalRequired |-> approval, capacityMin |-> min, capacityMax |-> max,
   hostGuestCount |-> hostGuests, startsAt |-> start]

\* Events that form a group: manual and automatic approval, host parties with
\* and without a guest, a minimum below and at the capacity, a Provider
\* session, a start before and after the first expiry.
OpenConfigs ==
  {Conf("USER", "PUBLIC", FALSE, TRUE, 3, 3, 0, 2),
   Conf("USER", "PUBLIC", FALSE, FALSE, 2, 3, 1, 2),
   Conf("USER", "PUBLIC", FALSE, TRUE, 0, 2, 1, 1),
   Conf("PROVIDER", "PUBLIC", FALSE, FALSE, 0, 2, 0, 2),
   Conf("PROVIDER", "PUBLIC", FALSE, TRUE, 0, 2, 0, 2)}

\* Events that must stay closed to strangers.
HiddenConfigs ==
  {Conf("USER", "PRIVATE", FALSE, FALSE, 0, 3, 0, 2),
   Conf("USER", "UNLISTED", FALSE, TRUE, 0, 3, 1, 2),
   Conf("USER", "PUBLIC", TRUE, FALSE, 0, 3, 0, 2)}

GroupConfigs == OpenConfigs \cup HiddenConfigs

\* The Event on which a third request is explored: one party of two fits and
\* a second one needs an override.
RejoinConfig == Conf("USER", "PUBLIC", FALSE, TRUE, 3, 3, 0, 2)

\* Two requests of any party, or three of parties of two on RejoinConfig.
ThreeOnlyOnRejoin ==
  \/ \E r \in Requests : requests[r].status = "NONE"
  \/ config = RejoinConfig /\ \A r \in Requests : requests[r].guestCount = 1

\* Automatic approval: a repeated create() can itself bring a member back.
StallConfigs == {Conf("USER", "PUBLIC", FALSE, FALSE, 0, 3, 0, 2)}

UserSymmetry == Permutations(Users)
=============================================================================
