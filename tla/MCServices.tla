----------------------------- MODULE MCServices -----------------------------
(***************************************************************************)
(* The services that share no mutable state, as one instance for TLC: the  *)
(* account of a traveller with its settings, interests and trips, finding  *)
(* people and events, swipes, reviews and feedback.  A behaviour picks a   *)
(* part, and only the variables of that part move.                         *)
(***************************************************************************)
EXTENDS SwipeMatch, Discovery, Provisioning, Trips, Interests, Reviews,
        Feedback, MCExplorer, Candidates, TLC

VARIABLE part

servicesVars ==
  <<part, vars, discoveryVars, provisioningVars, tripsVars, interestsVars,
    reviewsVars, feedbackVars, explorerVars, candidatesVars>>

\* Only a part that moves starts in each of its initial states.
ServicesInit ==
  /\ part \in {"swipes", "discovery", "provisioning", "trips", "interests",
               "reviews", "feedback", "explorer", "candidates"}
  /\ Init /\ DiscoveryInit /\ ProvisioningInit /\ TripsInit /\ InterestsInit
  /\ ReviewsInit /\ FeedbackInit /\ ExplorerInit /\ CandidatesInit
  /\ \/ part = "candidates"
     \/ viewer = 1 /\ person = [c \in Candidates |-> 1]

Only(p) ==
  /\ part = p /\ UNCHANGED part
  /\ p = "swipes" \/ UNCHANGED vars
  /\ p = "discovery" \/ UNCHANGED discoveryVars
  /\ p = "provisioning" \/ UNCHANGED provisioningVars
  /\ p = "trips" \/ UNCHANGED tripsVars
  /\ p = "interests" \/ UNCHANGED interestsVars
  /\ p = "reviews" \/ UNCHANGED reviewsVars
  /\ p = "feedback" \/ UNCHANGED feedbackVars
  /\ p = "explorer" \/ UNCHANGED explorerVars
  /\ p = "candidates" \/ UNCHANGED candidatesVars

ServicesNext ==
  \/ Only("swipes") /\ Next
  \/ Only("discovery") /\ DiscoveryNext
  \/ Only("provisioning") /\ ProvisioningNext
  \/ Only("trips") /\ TripsNext
  \/ Only("interests") /\ InterestsNext
  \/ Only("reviews") /\ ReviewsNext
  \/ Only("feedback") /\ FeedbackNext
  \/ Only("explorer") /\ ExplorerNext
  \/ Only("candidates") /\ CandidatesNext

ServicesSpec == ServicesInit /\ [][ServicesNext]_servicesVars

-----------------------------------------------------------------------------
(* Symmetry and bounds.                                                    *)

\* Two requests of any service are interchangeable, and so are two interests,
\* two users and two members; one group permutes them everywhere.
ServicesSymmetry == Permutations(Callers) \cup Permutations(InterestIds)

\* Discovery: what the requests and the rows of a state are about.
Busy == {h \in Callers : ~Free(h)}
Pending(f) == \E h \in Callers : request[h].kind = "update" /\ f \in DOMAIN request[h].patch
Concerns ==
  {c \in {"consent", "ghost", "age", "policy", "account"} :
     \/ /\ c = "consent"
        /\ (\E t \in ConsentTypes : consent[t].at > 0) \/ \E h \in Callers : request[h].kind = "record"
     \/ c = "ghost" /\ (settings.ghost \/ Pending("ghost") \/ Pending("until"))
     \/ c = "age" /\ (settings.minAge # 1 \/ settings.maxAge # 2 \/ Pending("minAge") \/ Pending("maxAge"))
     \/ c = "policy" /\ \E t \in ConsentTypes : policy[t] # 1
     \/ c = "account" /\ account # "active"}

ServicesLoad ==
  \* Discovery: two requests about one concern; and consents given anew after
  \* a new privacy policy, one request at a time
  /\ \/ Cardinality(Concerns) <= 1
     \/ /\ Concerns = {"consent", "policy"} /\ Cardinality(Busy) <= 1
        /\ policy["TERMS_OF_SERVICE"] = 1
  /\ consent["TERMS_OF_SERVICE"].at + consent["PRIVACY_POLICY"].at <= 3
  \* Feedback: at most one member leaves, or the event is cancelled
  /\ Cardinality(Members \ group) + Cardinality({x \in {cancelled} : x}) <= 1
  \* Interests: at most two of the two devices, the editor and repair
  /\ Cardinality({w \in Writers : Open(w)}) <= 2
  \* Reviews: two at a time, of which the provider's own count as many
  /\ Cardinality({w \in ReviewWriters : Posting(w)})
       + Cardinality({r \in reviews : r.key.by = "PROVIDER"}) <= 2

-----------------------------------------------------------------------------
(* Data.                                                                   *)

Token(u, e) == [uid |-> u, email |-> e, emailVerified |-> TRUE]
ServicesIdentities == {Token("u1", "e1"), Token("u2", "e1"), Token("u1", "e2")}

\* Around the end of February of the years in which one born on a 29th of
\* February turns eighteen and twenty.
ServicesDays ==
  UNION {{y * 10000 + d : d \in {228, 301}} : y \in 2026 .. 2028} \cup {20280229}

\* t1 left and attended after rejoining, t3 did not show up.
ServicesAttendance ==
  ("t1" :> {"ATTENDED", "CANCELLED"}) @@ ("t2" :> {"ATTENDED"}) @@ ("t3" :> {"NO_SHOW"})

\* Travellers: stays that overlap by a day or by all, at several distances,
\* some past, some of places without an id.
Stays(place, pos, start, end) == [place |-> place, at |-> pos, start |-> start, end |-> end]
Profile(stays, style, interests, trust, age) ==
  [open |-> TRUE, segments |-> stays, style |-> style, interests |-> interests,
   trust |-> trust, country |-> "FR", age |-> age, ages |-> {20, 30}, minTrust |-> 2,
   maxDistance |-> 2]
Host == Profile({Stays(1, 1, 1, 2), Stays(0, 2, 3, 4)}, 3, {1}, 5, 20)
FeedViewers ==
  <<Host, [Host EXCEPT !.segments = {Stays(1, 1, 1, 2)}, !.maxDistance = 1],
   [Host EXCEPT !.open = FALSE]>>
FeedPeople ==
  <<Profile({Stays(1, 1, 1, 2)}, 3, {1}, 2, 20), Profile({Stays(0, 3, 2, 3)}, 3, {1, 2}, 10, 30),
   [Profile({Stays(1, 1, 2, 2), Stays(0, 2, 3, 4)}, 1, {}, 4, 20) EXCEPT !.country = "IT"],
   [Profile({Stays(1, 2, 1, 1), Stays(0, 1, 0, 0)}, 3, {1}, 5, 30) EXCEPT !.ages = {30}],
   [Profile({Stays(0, 0, 0, 0), Stays(0, 1, 4, 4)}, 5, {2}, 1, 20) EXCEPT !.open = FALSE]>>
Asking(countries, minAge, maxAge) ==
  [countries |-> countries, minAge |-> minAge, maxAge |-> maxAge]
FeedFilters ==
  {Asking({"FR", "IT"}, 18, 99), Asking({"FR"}, 25, 99), Asking({"FR", "IT"}, 40, 30)}
=============================================================================
