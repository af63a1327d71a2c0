------------------------------ MODULE Explorer ------------------------------
(***************************************************************************)
(* GET /v1/explorer/events and /cards: the validation of an area query, the*)
(* grid that is made coarse enough for the marker limit before anything is *)
(* counted, and the answer as pins, clusters or cards.                     *)
(*                                                                         *)
(* Coordinates are integers: 90 degrees are 2^Bits units, so that a cell   *)
(* of every zoom up to Bits is a whole number of them and the arithmetic   *)
(* of the grid is exact, as it is in binary floating point.  The reach of  *)
(* a radius query in degrees (trigonometry and PostGIS) is an input.       *)
(***************************************************************************)
EXTENDS Integers, FiniteSets, FiniteSetsExt

CONSTANTS
  Bits,            \* resolution of the coordinates
  Events,          \* rows of events, by position, category and time
  Queries,         \* requests as they arrive
  Categories,      \* codes of event_categories
  CandidateLimit,  \* EXPLORER_AGGREGATION_LIMIT
  Edge(_, _, _, _) \* the latitude, at a longitude, of the great circle through
                   \* two points of one latitude (latitude, west, east, longitude)

ASSUME ExplorerAssumption ==
  /\ Bits \in Nat \ {0}
  /\ CandidateLimit \in Nat
  /\ IsFiniteSet(Events)
  /\ \A e \in Events : e.category \in Categories

VARIABLES
  population,  \* the events there are
  answer       \* what the last request was answered

explorerVars == <<population, answer>>

Quarter == 2 ^ Bits
Half == 2 * Quarter

\* A position is a longitude and a latitude; a request has numbers where it has
\* anything.  The arcsine that gives the spread of a disk is at most 90 degrees.
ASSUME PositionsAssumption ==
  /\ \A e \in Events : e.latitude \in -Quarter .. Quarter /\ e.longitude \in -Half .. Half
  /\ Queries \subseteq
       [viewport : {"none", "partial", "full"}, radius : {"none", "partial", "full"},
        box : [south : Int, west : Int, north : Int, east : Int],
        disk : [latitude : Int, longitude : Int, reach : Nat, spread : 0 .. Quarter,
                polar : BOOLEAN, legalRadius : BOOLEAN],
        zoom : Int, limit : Int, window : [given : BOOLEAN, start : Int, end : Int],
        categories : SUBSET STRING]

\* Degrees(d, n): d units are at most n degrees.
Within(d, n) == d * 90 <= n * Quarter

LeastOf(S) == CHOOSE x \in S : \A y \in S : x <= y
Clamp(low, x, high) == IF x < low THEN low ELSE IF x > high THEN high ELSE x

-----------------------------------------------------------------------------
(* normalizeExplorerQuery.  A query has a box, a disk, both, or neither;   *)
(* "partial" is a shape with a missing field.                              *)

\* +180 and -180 name the same meridian: a box never starts at the one nor
\* ends at the other.
Canonical(b) ==
  [b EXCEPT !.west = IF @ = Half THEN -Half ELSE @,
            !.east = IF @ = -Half THEN Half ELSE @]

Crosses(b) == b.west > b.east

LongitudeSpan(b) == IF Crosses(b) THEN Half - b.west + b.east + Half ELSE b.east - b.west

ValidBox(b) ==
  /\ b.south >= -Quarter /\ b.north <= Quarter
  /\ {b.west, b.east} \subseteq -Half .. Half
  /\ b.south < b.north
  /\ LET c == Canonical(b)
     IN  /\ c.west # c.east
         /\ Within(c.north - c.south, 60) /\ Within(LongitudeSpan(c), 120)

ValidDisk(d) ==
  /\ d.latitude \in -Quarter .. Quarter /\ d.longitude \in -Half .. Half
  /\ d.legalRadius

\* Both ends or none; at most 90 days; not entirely past.  Time is counted
\* in days from the discovery instant.
ValidWindow(w) ==
  w.given => w.start < w.end /\ w.end - w.start <= 90 /\ w.end > 0

ValidQuery(q) ==
  /\ "partial" \notin {q.viewport, q.radius}
  /\ q.viewport = "full" => ValidBox(q.box)
  /\ q.radius = "full" => ValidDisk(q.disk)
  /\ (q.viewport = "full") # (q.radius = "full")
  /\ q.zoom \in 1 .. 22 /\ q.limit \in 1 .. 200
  /\ ValidWindow(q.window)
  /\ Cardinality(q.categories) <= 20 /\ q.categories \subseteq Categories

\* Past time never expands discovery.
Window(q) ==
  IF q.window.given
  THEN [start |-> Clamp(0, q.window.start, q.window.end), end |-> q.window.end]
  ELSE [start |-> 0, end |-> 30]

-----------------------------------------------------------------------------
(* EXPLORER_DISCOVERABLE_EVENT_SQL and the area predicates.                *)

\* PUBLIC, ACTIVE or FULL, managed, and not started yet.
Discoverable(e) == e.open /\ e.starts > 0

\* ST_DWithin stays inside the reach of the disk on both axes, which is that of
\* CONSERVATIVE_EARTH_RADIUS_METERS, a smaller Earth than there is.
withinRadius(e, d) ==
  /\ e.latitude - d.latitude \in 1 - d.reach .. d.reach - 1
  /\ d.polar \/ \E turn \in {-2 * Half, 0, 2 * Half} :
                   e.longitude - d.longitude + turn \in 1 - d.spread .. d.spread - 1

LongitudeRanges(west, east) ==
  IF west > east THEN {<<west, Half>>, <<-Half, east>>} ELSE {<<west, east>>}

\* The envelope of the indexed coarse filter, whose edges are great circles
\* and bend towards the poles.  It refuses one without an extent.
Proper(south, north, half) == south < north /\ half[1] < half[2]

withinBoundingBox(e, south, north, half) ==
  /\ e.longitude \in half[1] .. half[2]
  /\ e.latitude \in Edge(south, half[1], half[2], e.longitude) ..
                    Edge(north, half[1], half[2], e.longitude)

\* That, AND the planar rectangle of the screen.
viewportPredicate(e, south, north, half) ==
  /\ withinBoundingBox(e, south, north, half)
  /\ e.latitude \in south .. north

\* One of each on either side of the antimeridian.
spatialPredicate(e, q) ==
  LET b == Canonical(q.box)
  IN  IF q.viewport = "full"
      THEN \E half \in LongitudeRanges(b.west, b.east) :
             viewportPredicate(e, b.south, b.north, half)
      ELSE withinRadius(e, q.disk)

Found(q) ==
  {e \in population :
    /\ Discoverable(e)
    /\ e.starts < Window(q).end /\ e.ends > Window(q).start
    /\ spatialPredicate(e, q)
    /\ q.categories # {} => e.category \in q.categories}

-----------------------------------------------------------------------------
(* explorerClusterScale: the finest power-of-two grid of which the extent  *)
(* of the query cannot touch more cells than the limit.                    *)

\* clusterExtent.  A disk's edges are brought back into -180 .. 180.
Extent(q) ==
  LET b == Canonical(q.box)
      d == q.disk
      Wrap(x) == IF x < -Half THEN x + 2 * Half ELSE IF x > Half THEN x - 2 * Half ELSE x
  IN  IF q.viewport = "full"
      THEN [south |-> b.south, north |-> b.north, ranges |-> LongitudeRanges(b.west, b.east)]
      ELSE [south |-> Clamp(-Quarter, d.latitude - d.reach, Quarter),
            north |-> Clamp(-Quarter, d.latitude + d.reach, Quarter),
            ranges |-> IF d.polar THEN {<<-Half, Half>>}
                       ELSE LongitudeRanges(Wrap(d.longitude - d.spread), Wrap(d.longitude + d.spread))]

\* The cell of a coordinate on an axis of the given span; the last cell takes
\* the far end.
Cell(x, origin, span, size) ==
  LET count == Max({1, (span + size - 1) \div size})
  IN  Clamp(0, (x - origin) \div size, count - 1)

LatitudeCell(y, size) == Cell(y, -Quarter, 2 * Quarter, size)
LongitudeCell(x, size) == Cell(x, -Half, 2 * Half, size)

\* Mutant: as many cells as fit in, wherever their edges are.
CellCount_Span(extent, size) ==
  LET Across(d) == Max({1, (d + size - 1) \div size})
  IN  Across(extent.north - extent.south) *
        Across(MapThenSumSet(LAMBDA r : r[2] - r[1], extent.ranges))

\* extentCellCount: ranges that meet or overlap are counted once.
CellCount(extent, size) ==
  LET rows == LatitudeCell(extent.north, size) - LatitudeCell(extent.south, size) + 1
      cols == {<<LongitudeCell(r[1], size), LongitudeCell(r[2], size)>> : r \in extent.ranges}
      left == LeastOf({c[1] : c \in cols})
      right == Max({c[2] : c \in cols})
      gap == IF \E c, d \in cols : c[2] + 1 < d[1]
             THEN LET c == CHOOSE c \in cols : \E d \in cols : c[2] + 1 < d[1]
                      d == CHOOSE d \in cols : c[2] + 1 < d[1]
                  IN  d[1] - c[2] - 1
             ELSE 0
  IN  rows * (right - left + 1 - gap)

\* Zooms finer than the coordinates are not told apart from the finest.
Zoom(q) == Clamp(1, q.zoom, Bits)

\* 90 / 2^zoom degrees, times 2^k.
CellSize(q, k) == 2 ^ (Bits - Zoom(q) + k)

\* The exponent of the scale; at zoom + 2 the world is one cell.
ClusterScale(q) ==
  LeastOf({k \in 0 .. Zoom(q) + 2 : CellCount(Extent(q), CellSize(q, k)) <= q.limit})

-----------------------------------------------------------------------------
(* ADAPTIVE_CLUSTER_SQL and EVENT_CARDS_SQL.                               *)

\* discovery_stats.return_pins.
ReturnPins(q) == Cardinality(Found(q)) <= q.limit /\ q.zoom > 14

Bucket(e, q) ==
  LET size == CellSize(q, ClusterScale(q))
  IN  <<LongitudeCell(e.longitude, size), LatitudeCell(e.latitude, size)>>

Cluster(b, q) ==
  LET inside == {e \in Found(q) : Bucket(e, q) = b}
  IN  [bucket |-> b, eventCount |-> Cardinality(inside),
       categories |-> {<<c, Cardinality({e \in inside : e.category = c})>> :
                         c \in {e.category : e \in inside}},
       first |-> LeastOf({e.starts : e \in inside})]

Clusters(q) == {Cluster(b, q) : b \in {Bucket(e, q) : e \in Found(q)}}

\* ORDER BY first_starts_at, id LIMIT :markerLimit.
Kept(rows, limit) ==
  CHOOSE kept \in SUBSET rows :
    /\ Cardinality(kept) = LeastOf({limit, Cardinality(rows)})
    /\ \A r \in kept, s \in rows \ kept : r.first <= s.first

NoAnswer == [kind |-> "none"]

\* findDiscoverableMarkers.
Markers(q) ==
  IF Cardinality(Found(q)) > CandidateLimit THEN [kind |-> "tooBroad", query |-> q]
  ELSE IF ReturnPins(q)
       THEN [kind |-> "pins", query |-> q, eventCount |-> Cardinality(Found(q)),
             events |-> Found(q)]
       ELSE [kind |-> "clusters", query |-> q, eventCount |-> Cardinality(Found(q)),
             clusters |-> Kept(Clusters(q), q.limit)]

\* discoverEvents.
DiscoverEvents(q) ==
  /\ answer = NoAnswer
  /\ answer' = IF ValidQuery(q) THEN Markers(q) ELSE [kind |-> "invalid", query |-> q]
  /\ UNCHANGED population

\* discoverEventCards: the first by start, and whether there are more.
DiscoverEventCards(q) ==
  /\ answer = NoAnswer
  /\ ValidQuery([q EXCEPT !.zoom = 22])
  /\ \E cards \in SUBSET Found(q) :
       /\ Cardinality(cards) = LeastOf({q.limit, Cardinality(Found(q))})
       /\ \A e \in cards, f \in Found(q) \ cards : e.starts <= f.starts
       /\ answer' = [kind |-> "cards", query |-> q, events |-> cards,
                     hasMore |-> Cardinality(Found(q)) > q.limit]
  /\ UNCHANGED population

AskAgain ==
  /\ answer # NoAnswer
  /\ answer' = NoAnswer
  /\ UNCHANGED population

\* Between requests Events appear and go.
Toggle(e) ==
  /\ answer = NoAnswer
  /\ population' = IF e \in population THEN population \ {e} ELSE population \cup {e}
  /\ UNCHANGED answer

ExplorerInit == population = Events /\ answer = NoAnswer

ExplorerNext ==
  \/ \E q \in Queries : DiscoverEvents(q) \/ DiscoverEventCards(q)
  \/ \E e \in Events : Toggle(e)
  \/ AskAgain

ExplorerSpec == ExplorerInit /\ [][ExplorerNext]_explorerVars

-----------------------------------------------------------------------------
(* Properties.                                                             *)

\* "The requested limit is a real output bound without sampling or partial
\* counts": what the map shows is never more than the limit and never less
\* than everything, on either side of the antimeridian and at the poles; the
\* clusters count every event of the area once, by category too.  No request
\* that was let in is split into a half that GeoService refuses.
MapTellsAll ==
  /\ answer.kind = "pins" => Cardinality(answer.events) <= answer.query.limit
  /\ answer.kind = "clusters" =>
       /\ Cardinality(answer.clusters) <= answer.query.limit
       /\ answer.eventCount = Cardinality(Found(answer.query))
       /\ answer.eventCount = MapThenSumSet(LAMBDA c : c.eventCount, answer.clusters)
       /\ \A c \in answer.clusters :
            c.eventCount = MapThenSumSet(LAMBDA s : s[2], c.categories)
  /\ answer.kind \notin {"none", "invalid"} /\ answer.query.viewport = "full" =>
       LET b == Canonical(answer.query.box)
       IN  \A half \in LongitudeRanges(b.west, b.east) : Proper(b.south, b.north, half)
=============================================================================
