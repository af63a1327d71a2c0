------------------------------- MODULE Trips -------------------------------
(***************************************************************************)
(* One trip of a traveller and its segments, edited by several requests of *)
(* the owner at a time (two devices, a retry).  Every mutation locks the   *)
(* trip row, reads the segments under the lock and writes them back with   *)
(* a dense sortOrder; what a request asks for is chosen when its           *)
(* transaction decides, which no other request can tell apart.             *)
(***************************************************************************)
EXTENDS Integers, FiniteSets, Sequences, SequencesExt

CONSTANTS
  Editors,    \* requests being served at a time
  Nobody,
  SegmentIds, \* bound: ids the database can generate, numbers as they break ties
  LastDay     \* bound: the days of the calendar

ASSUME TripsAssumption ==
  /\ Nobody \notin Editors /\ LastDay \in Nat \ {0}
  /\ SegmentIds \subseteq Nat /\ SegmentIds # {} /\ IsFiniteSet(SegmentIds)

VARIABLES
  trip,       \* {} or the set of the one trips row
  segments,   \* its trip_segments rows
  tripLock,   \* holder of the trips row
  edit        \* what each request is doing

tripsVars == <<trip, segments, tripLock, edit>>

Ranges == {r \in [start : 1 .. LastDay, end : 1 .. LastDay] : r.start <= r.end}

\* assertSegmentContained; ranges are ordered, as assertOrderedRange demands.
Contained(r, t) == t.start <= r.start /\ r.end <= t.end

Resting == [at |-> "idle", read |-> {}]

-----------------------------------------------------------------------------
(* Lists of segments.                                                      *)

\* orderSegments.
Earlier(a, b) ==
  \/ a.order < b.order
  \/ a.order = b.order /\ a.start < b.start
  \/ a.order = b.order /\ a.start = b.start /\ a.id < b.id

OrderSegments(rows) ==
  CHOOSE list \in [1 .. Cardinality(rows) -> rows] :
    \A i, j \in DOMAIN list : i < j => Earlier(list[i], list[j])

\* assignDenseOrder: the index becomes the sortOrder.
AssignDenseOrder(list) == {[list[i] EXCEPT !.order = i - 1] : i \in DOMAIN list}

\* What the owner is shown of a trip.
TripView == OrderSegments(segments)

\* findIndex and splice.
Without(list, id) == RemoveAt(list, CHOOSE i \in DOMAIN list : list[i].id = id)

-----------------------------------------------------------------------------
Doing(e, at) == edit[e].at = at

CreateTrip(r) ==
  /\ trip = {}
  /\ trip' = {r}
  /\ UNCHANGED <<segments, tripLock, edit>>

\* Any mutation: its transaction starts.
BeginEdit(e) ==
  /\ Doing(e, "idle")
  /\ edit' = [edit EXCEPT ![e].at = "lock"]
  /\ UNCHANGED <<trip, segments, tripLock>>

EndEdit(e) ==
  /\ edit' = [edit EXCEPT ![e] = Resting]
  /\ tripLock' = IF tripLock = e THEN Nobody ELSE tripLock

\* Mutant: the trip is read without its lock.
TakeTrip_Read(e) == UNCHANGED tripLock

TakeTrip(e) == tripLock = Nobody /\ tripLock' = e

\* requireOwnedTrip.
RequireOwnedTrip(e) ==
  /\ Doing(e, "lock")
  /\ tripLock = Nobody \/ trip = {}
  /\ IF trip = {} THEN EndEdit(e)
     ELSE TakeTrip(e) /\ edit' = [edit EXCEPT ![e].at = "read"]
  /\ UNCHANGED <<trip, segments>>

\* findSegments, a statement of its own; its row locks never wait.
FindSegments(e) ==
  /\ Doing(e, "read")
  /\ edit' = [edit EXCEPT ![e] = [at |-> "save", read |-> segments]]
  /\ UNCHANGED <<trip, segments, tripLock>>

Ordered(e) == OrderSegments(edit[e].read)

\* saveSegments writes the rows it is given, each by id, and the COMMIT.
Save(e, rows) ==
  /\ segments' = {s \in segments : \A r \in rows : r.id # s.id} \cup rows
  /\ EndEdit(e)
  /\ UNCHANGED trip

CreateSegment(e, id, r, position) ==
  /\ Doing(e, "save") /\ \A s \in segments : s.id # id
  /\ \E t \in trip : Contained(r, t)
  /\ position <= Cardinality(edit[e].read)
  /\ LET segment == [id |-> id, start |-> r.start, end |-> r.end, order |-> position]
     IN  Save(e, AssignDenseOrder(InsertAt(Ordered(e), position + 1, segment)))

\* Dates and the rest; the segment keeps its place.
ChangeSegment(e, id, r) ==
  /\ Doing(e, "save")
  /\ \E t \in trip : Contained(r, t)
  /\ \E s \in edit[e].read : s.id = id
  /\ LET change(s) == IF s.id = id THEN [s EXCEPT !.start = r.start, !.end = r.end] ELSE s
         list == Ordered(e)
     IN  Save(e, AssignDenseOrder([i \in DOMAIN list |-> change(list[i])]))

\* The segment moves to an index of the list without it.
MoveSegment(e, id, position) ==
  /\ Doing(e, "save") /\ position < Cardinality(edit[e].read)
  /\ \E s \in edit[e].read :
       /\ s.id = id
       /\ Save(e, AssignDenseOrder(InsertAt(Without(Ordered(e), id), position + 1, s)))

AfterDelete(e, id) == AssignDenseOrder(Without(Ordered(e), id))

DeleteSegment(e, id) ==
  /\ Doing(e, "save")
  /\ \E s \in edit[e].read : s.id = id
  /\ segments' = {s \in segments : s.id # id /\ \A r \in AfterDelete(e, id) : r.id # s.id}
                 \cup AfterDelete(e, id)
  /\ EndEdit(e)
  /\ UNCHANGED trip

\* The range may only move to one that contains every segment.
UpdateTrip(e, r) ==
  /\ Doing(e, "save")
  /\ \A s \in edit[e].read : Contained(s, r)
  /\ trip' = {r}
  /\ EndEdit(e)
  /\ UNCHANGED segments

\* Segments go with their trip.
DeleteTrip(e) ==
  /\ Doing(e, "read")
  /\ trip' = {} /\ segments' = {}
  /\ EndEdit(e)

\* Refused by a validation, failed or cut off: the transaction rolls back.
RollbackEdit(e) ==
  /\ ~Doing(e, "idle")
  /\ EndEdit(e)
  /\ UNCHANGED <<trip, segments>>

TripsInit ==
  /\ trip = {} /\ segments = {} /\ tripLock = Nobody
  /\ edit = [e \in Editors |-> Resting]

TripsNext ==
  \/ \E r \in Ranges : CreateTrip(r)
  \/ \E e \in Editors :
       \/ BeginEdit(e) \/ RequireOwnedTrip(e) \/ FindSegments(e)
       \/ DeleteTrip(e) \/ RollbackEdit(e)
       \/ \E r \in Ranges : UpdateTrip(e, r)
       \/ \E id \in SegmentIds :
            \/ \E r \in Ranges : ChangeSegment(e, id, r)
            \/ \E r \in Ranges, p \in 0 .. Cardinality(SegmentIds) : CreateSegment(e, id, r, p)
            \/ \E p \in 0 .. Cardinality(SegmentIds) : MoveSegment(e, id, p)
            \/ DeleteSegment(e, id)

TripsSpec == TripsInit /\ [][TripsNext]_tripsVars

-----------------------------------------------------------------------------
(* Properties.                                                             *)

\* Whatever two devices do at once, the itinerary is a list: each segment is
\* shown at the place its sortOrder says.
OrderIsDense == \A i \in DOMAIN TripView : TripView[i].order = i - 1

\* Every segment lies inside the dates its trip has now, whichever of the two
\* was edited last.
SegmentsFit == \A s \in segments : \E t \in trip : Contained(s, t)

\* An edit touches one segment: nobody else's new segment, new dates or new
\* place is undone by it.  The others keep their dates and their order.
EditsKeepOthers ==
  [][trip' # {} =>
       \E id \in SegmentIds :
         LET kept == {s \in segments : s.id # id}
             after == {s \in segments' : s.id # id}
         IN  /\ {[s EXCEPT !.order = 0] : s \in kept} = {[s EXCEPT !.order = 0] : s \in after}
             /\ \A a, b \in kept, c, d \in after :
                  a.id = c.id /\ b.id = d.id /\ a.order < b.order => c.order < d.order]_tripsVars

\* Edits of one trip, from however many devices, leave a list and lose nothing.
TripEditsAreSound == [](OrderIsDense /\ SegmentsFit) /\ EditsKeepOthers
=============================================================================
