----------------------------- MODULE MCExplorer -----------------------------
(* An instance of Explorer for TLC: a map of a few pins. *)
EXTENDS Explorer

\* The map: events on both sides of the antimeridian, on a cell's edge, on the
\* southern edge of a wide box, far in time, and one that is not discoverable.
MapBits == 15
Degrees(n) == (n * 2 ^ MapBits) \div 90
Pin(lat, lon, cat, st, en, open) ==
  [latitude |-> lat, longitude |-> lon, category |-> cat, starts |-> st, ends |-> en, open |-> open]
MapEvents ==
  {Pin(0, 2 ^ (MapBits + 1), "food", 3, 4, TRUE),
   Pin(0, - (2 ^ (MapBits + 1)), "food", 5, 6, TRUE),
   Pin(-Degrees(5), -Degrees(175), "trek", 2, 50, TRUE),
   Pin(2 ^ MapBits, Degrees(10), "trek", 4, 5, TRUE),
   Pin(Degrees(51), Degrees(35), "trek", 6, 7, TRUE),
   Pin(0, Degrees(178), "food", 0, 7, TRUE), Pin(0, Degrees(177), "food", 4, 7, FALSE)}

\* The bulge of a great circle, in whole degrees: near enough to its true one
\* (at 50 degrees of latitude and over 110 of longitude, some 14) and never
\* towards the equator.
MapEdge(lat, west, east, lon) ==
  LET Whole(x) == (x * 90) \div (2 ^ MapBits)
      l == Whole(IF lat < 0 THEN -lat ELSE lat)
      bulge == Degrees((((l * (90 - l) * Whole(lon - west)) \div 1000) * Whole(east - lon)) \div 440)
  IN  IF lat < 0 THEN lat - bulge ELSE lat + bulge

MapQuery(vp, box, rd, disk, zoom, limit, w, cats) ==
  [viewport |-> vp, box |-> box, radius |-> rd, disk |-> disk, zoom |-> zoom, limit |-> limit,
   window |-> w, categories |-> cats]
NoBox == [south |-> 0, west |-> 0, north |-> 0, east |-> 0]
NoDisk == [latitude |-> 0, longitude |-> 0, reach |-> 0, spread |-> 0, polar |-> FALSE,
           legalRadius |-> FALSE]
Soon == [given |-> FALSE, start |-> 0, end |-> 0]
Span(s, e) == [given |-> TRUE, start |-> s, end |-> e]
Box(s, w, n, e) ==
  [south |-> Degrees(s), west |-> Degrees(w), north |-> Degrees(n), east |-> Degrees(e)]
Disk(lat, lon, reach, spread, polar) ==
  [latitude |-> Degrees(lat), longitude |-> Degrees(lon), reach |-> Degrees(reach),
   spread |-> Degrees(spread), polar |-> polar, legalRadius |-> TRUE]

MapQueries ==
  {MapQuery("full", b, "none", NoDisk, z, l, Soon, {}) :
     b \in {Box(-10, 170, 10, -170), Box(-10, 180, 20, -150), Box(-10, 160, 10, -180),
            Box(-30, 130, 30, -120), Box(50, -20, 90, 90)},
     z \in {1, 15}, l \in {2, 4}}
  \cup {MapQuery("none", NoBox, "full", d, z, l, Soon, {}) :
     d \in {Disk(0, 178, 5, 5, FALSE), Disk(0, -180, 5, 6, FALSE), Disk(88, 10, 5, 0, TRUE)},
     z \in {2, 15}, l \in {1, 3}}
  \cup {MapQuery("full", Box(-10, 170, 10, -170), "none", NoDisk, 15, 4, w, c) :
     w \in {Span(-5, 45), Span(0, 100), Span(-9, 0), Span(4, 6)},
     c \in {{}, {"food"}, {"surf"}}}
  \cup {MapQuery("full", Box(0, 0, 10, 0), "none", NoDisk, 3, 4, Soon, {}),
        MapQuery("partial", NoBox, "none", NoDisk, 3, 4, Soon, {}),
        MapQuery("none", NoBox, "none", NoDisk, 3, 4, Soon, {})}
=============================================================================
