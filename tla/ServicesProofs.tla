--------------------------- MODULE ServicesProofs ---------------------------
(***************************************************************************)
(* What the services about one user keep true, for any number of requests  *)
(* that race: the selection of interests and its projection, traveller     *)
(* feedback, accounts and the age rules, the reviews of travellers, the    *)
(* settings and consents that make a user findable, how whoever is         *)
(* findable is ranked, what the map of events tells, and the itinerary of  *)
(* a trip edited from several devices.                                     *)
(***************************************************************************)
EXTENDS Interests, Feedback, Provisioning, Reviews, Discovery, Candidates, Explorer, Trips,
        FiniteSetTheorems, SequenceTheorems, WellFoundedInduction, TLAPS

-----------------------------------------------------------------------------
(* Interests.                                                              *)

\* A device past the lock holds the profile row, and what its DELETE saw is
\* still what there is.
HoldsLock ==
  \A d \in Devices :
    /\ change[d].at \in {"validate", "delete", "insert"} => profileLock = d
    /\ change[d].at = "insert" => change[d].saw = selected

\* Which statements each kind of writer goes through.
Paths ==
  /\ \A d \in Devices : change[d].at \notin {"read", "write", "commit"}
  /\ \A w \in {Editor, Operator} : change[w].at \in {"idle", "read", "write", "commit"}
  /\ change[Editor].at # "idle" => \E i \in InterestIds : change[Editor].ids = {i}

\* Whoever is still alone has nobody beside.
AloneIsAlone ==
  \A w \in {Editor, Operator} : Open(w) /\ change[w].alone =>
    \A v \in Writers \ {w} : ~Open(v)

\* What it read is then still true when it writes.
ReadsHold ==
  /\ change[Editor].alone =>
       /\ change[Editor].at = "write" => change[Editor].saw = selected \cap ActiveFor(Editor)
       /\ change[Editor].at = "commit" =>
            selected \cap ActiveFor(Editor) = selected \cap active
  /\ change[Operator].alone =>
       /\ change[Operator].at = "write" => change[Operator].saw = selected \cap active
       /\ change[Operator].at = "commit" => interest_ids = selected \cap active

AgreeInv ==
  InterestsTypeOK /\ HoldsLock /\ Paths /\ AloneIsAlone /\ ReadsHold /\ InterestsAgree

ChangeRow == [at : Stages, ids : SUBSET InterestIds, saw : SUBSET InterestIds, alone : BOOLEAN]

LEMMA NoChangeTyped == NoChange \in ChangeRow /\ NoChange.at = "idle" /\ NoChange.alone
  BY DEF NoChange, ChangeRow, Stages

LEMMA AgreeInit == InterestsInit => AgreeInv
<1> SUFFICES ASSUME InterestsInit PROVE AgreeInv OBVIOUS
<1>1. \A w \in Writers : change[w] = NoChange BY DEF InterestsInit
<1>2. {Editor, Operator} \subseteq Writers /\ Devices \subseteq Writers BY DEF Writers
<1>3. InterestsTypeOK
  BY NoChangeTyped DEF InterestsInit, InterestsTypeOK, ChangeRow
<1>4. HoldsLock /\ Paths /\ AloneIsAlone /\ ReadsHold
  BY <1>1, <1>2, NoChangeTyped DEF HoldsLock, Paths, AloneIsAlone, ReadsHold, Open
<1>5. InterestsAgree
  BY DEF InterestsInit, InterestsAgree, SelectionIsNoUnion, ProjectionHeals, ProfileInterests
<1> QED BY <1>3, <1>4, <1>5 DEF AgreeInv

\* How a writer begins: it spoils the solitude of every other kind of writer.
LEMMA BeginStep ==
  ASSUME AgreeInv, NEW w \in Writers, NEW at \in Stages, NEW ids \in SUBSET InterestIds,
         Begin(w, at, ids),
         \/ w \in Devices /\ at = "lock"
         \/ w = Editor /\ at = "read" /\ \E i \in InterestIds : ids = {i}
         \/ w = Operator /\ at = "read"
  PROVE  AgreeInv'
<1> DEFINE first == [at |-> at, ids |-> ids, saw |-> {}, alone |-> Rivals(w) = {}]
<1>0. \A v \in Writers : change[v] \in ChangeRow BY DEF AgreeInv, InterestsTypeOK, ChangeRow
<1>1. first \in ChangeRow BY DEF ChangeRow
<1>2. /\ change'[w] = first
      /\ \A v \in Writers \ {w} :
           change'[v] = [change[v] EXCEPT !.alone = @ /\ v \notin Rivals(w)]
  BY DEF Begin
<1>3. \A v \in Writers \ {w} :
        /\ change'[v] \in ChangeRow
        /\ change'[v].at = change[v].at /\ change'[v].ids = change[v].ids
        /\ change'[v].saw = change[v].saw
        /\ change'[v].alone => change[v].alone /\ v \notin Rivals(w)
  <2> SUFFICES ASSUME NEW v \in Writers \ {w}
      PROVE  /\ change'[v] \in ChangeRow
             /\ change'[v].at = change[v].at /\ change'[v].ids = change[v].ids
             /\ change'[v].saw = change[v].saw
             /\ change'[v].alone => change[v].alone /\ v \notin Rivals(w)
    OBVIOUS
  <2> DEFINE still == v \notin Rivals(w)
  <2>1. still \in BOOLEAN OBVIOUS
  <2>2. change'[v] = [change[v] EXCEPT !.alone = @ /\ still] BY <1>2
  <2> HIDE DEF still
  <2>3. /\ change'[v] \in ChangeRow
        /\ change'[v].at = change[v].at /\ change'[v].ids = change[v].ids
        /\ change'[v].saw = change[v].saw
        /\ change'[v].alone => change[v].alone /\ still
    BY <1>0, <2>1, <2>2 DEF ChangeRow
  <2> QED BY <2>3 DEF still
<1>4. UNCHANGED <<selected, active, interest_ids, asked, exact, profileLock>> /\ ~Open(w)
  BY DEF Begin
<1>5. change' \in [Writers -> ChangeRow]
  <2>1. DOMAIN change' = Writers /\ change' = [v \in Writers |-> change'[v]] BY DEF Begin
  <2>2. \A v \in Writers : change'[v] \in ChangeRow BY <1>1, <1>2, <1>3
  <2> QED BY <2>1, <2>2
<1>6. InterestsTypeOK' BY <1>4, <1>5 DEF AgreeInv, InterestsTypeOK, ChangeRow
<1>7. first.at = at /\ first.ids = ids /\ (first.alone => Rivals(w) = {}) OBVIOUS
<1> HIDE DEF first
<1>8. {Editor, Operator} \subseteq Writers /\ Devices \subseteq Writers BY DEF Writers
<1>9. HoldsLock' BY <1>2, <1>3, <1>4, <1>7, <1>8, InterestsAssumption DEF AgreeInv, HoldsLock, Editor, Operator
<1>10. Paths' BY <1>2, <1>3, <1>7, <1>8, InterestsAssumption DEF AgreeInv, Paths, Editor, Operator
<1>11. AloneIsAlone'
  <2> SUFFICES ASSUME NEW u \in {Editor, Operator}, Open(u)', change'[u].alone,
                      NEW v \in Writers \ {u}
      PROVE  ~Open(v)'
    BY DEF AloneIsAlone
  <2>1. CASE u = w
    BY <1>2, <1>3, <1>7, <1>8, <2>1, InterestsAssumption DEF Open, Rivals
  <2>2. CASE u # w
    <3>1. Open(u) /\ change[u].alone /\ u \notin Rivals(w) BY <1>3, <1>8, <2>2 DEF Open
    <3>2. u \in Rivals(w) BY <1>8, <2>2, <3>1, InterestsAssumption DEF Rivals
    <3> QED BY <3>1, <3>2
  <2> QED BY <2>1, <2>2
<1>12. ReadsHold'
  <2>1. change'[Editor].at \in {"write", "commit"} => Editor # w BY <1>2, <1>7, InterestsAssumption DEF Editor, Operator
  <2>2. change'[Operator].at \in {"write", "commit"} => Operator # w BY <1>2, <1>7, InterestsAssumption DEF Editor, Operator
  <2>3. Editor # w => /\ change'[Editor].at = change[Editor].at
                      /\ change'[Editor].ids = change[Editor].ids
                      /\ change'[Editor].saw = change[Editor].saw
                      /\ change'[Editor].alone => change[Editor].alone
    BY <1>3, <1>8
  <2>4. Operator # w => /\ change'[Operator].at = change[Operator].at
                        /\ change'[Operator].saw = change[Operator].saw
                        /\ change'[Operator].alone => change[Operator].alone
    BY <1>3, <1>8
  <2> QED BY <1>4, <2>1, <2>2, <2>3, <2>4 DEF AgreeInv, ReadsHold, ActiveFor
<1>13. InterestsAgree'
  BY <1>4 DEF AgreeInv, InterestsAgree, SelectionIsNoUnion, ProjectionHeals, ProfileInterests
<1> QED BY <1>6, <1>9, <1>10, <1>11, <1>12, <1>13 DEF AgreeInv

\* What a step of one writer does to the rows of change.
LEMMA MovesOn ==
  ASSUME InterestsTypeOK, NEW w \in Writers, NEW at \in Stages, NEW saw \in SUBSET InterestIds,
         change' = [change EXCEPT ![w].at = at, ![w].saw = saw]
  PROVE  /\ change' \in [Writers -> ChangeRow]
         /\ change'[w].at = at /\ change'[w].saw = saw
         /\ change'[w].ids = change[w].ids /\ change'[w].alone = change[w].alone
         /\ \A v \in Writers \ {w} : change'[v] = change[v]
<1>1. change \in [Writers -> ChangeRow] BY DEF InterestsTypeOK, ChangeRow
<1>2. change[w] \in ChangeRow BY <1>1
<1> DEFINE row == [change[w] EXCEPT !.at = at, !.saw = saw]
<1>3. /\ row \in ChangeRow /\ row.at = at /\ row.saw = saw
      /\ row.ids = change[w].ids /\ row.alone = change[w].alone
  BY <1>2 DEF ChangeRow
<1>4. change' = [change EXCEPT ![w] = row] BY <1>1 DEF ChangeRow
<1> HIDE DEF row
<1> QED BY <1>1, <1>3, <1>4

LEMMA Turns ==
  ASSUME InterestsTypeOK, NEW w \in Writers, NEW at \in Stages, To(w, at)
  PROVE  /\ change' \in [Writers -> ChangeRow]
         /\ change'[w].at = at
         /\ \A v \in Writers \ {w} : change'[v] = change[v]
<1>1. change \in [Writers -> ChangeRow] BY DEF InterestsTypeOK, ChangeRow
<1>2. change[w] \in ChangeRow BY <1>1
<1> DEFINE row == [change[w] EXCEPT !.at = at]
<1>3. row \in ChangeRow /\ row.at = at BY <1>2 DEF ChangeRow
<1>4. change' = [change EXCEPT ![w] = row] BY <1>1 DEF ChangeRow, To
<1> HIDE DEF row
<1> QED BY <1>1, <1>3, <1>4

LEMMA Closes ==
  ASSUME InterestsTypeOK, NEW w \in Writers, Close(w)
  PROVE  /\ change' \in [Writers -> ChangeRow]
         /\ change'[w] = NoChange
         /\ \A v \in Writers \ {w} : change'[v] = change[v]
         /\ profileLock' = IF profileLock = w THEN NoOne ELSE profileLock
         /\ profileLock' \in Writers \cup {NoOne}
  BY NoChangeTyped DEF InterestsTypeOK, ChangeRow, Close

\* Statements of a device that write nothing yet.
LEMMA DeviceSteps ==
  ASSUME AgreeInv, NEW d \in Devices, LockOwner(d) \/ ValidateInterests(d) \/ DeleteSelected(d)
  PROVE  AgreeInv'
<1>0. /\ d \in Writers /\ Editor \in Writers /\ Operator \in Writers
      /\ d # Editor /\ d # Operator /\ Devices \subseteq Writers /\ InterestsTypeOK
      /\ UNCHANGED <<selected, active, interest_ids, asked, exact>> /\ Open(d)
  BY InterestsAssumption DEF Writers, AgreeInv, LockOwner, ValidateInterests, DeleteSelected, Open
<1>1. /\ change' \in [Writers -> ChangeRow]
      /\ \A v \in Writers \ {d} : change'[v] = change[v]
      /\ profileLock' \in Writers \cup {NoOne}
      /\ \A e \in Devices \ {d} : profileLock = e => profileLock' = e
      /\ change'[d].at \in {"idle", "validate", "delete", "insert"}
      /\ change'[d].at \in {"validate", "delete", "insert"} => profileLock' = d
      /\ change'[d].at = "insert" => change'[d].saw = selected
  <2>1. CASE LockOwner(d)
    <3>1. To(d, "validate") /\ profileLock = NoOne /\ profileLock' = d
      BY <2>1 DEF LockOwner, LockProfile
    <3>3. change' \in [Writers -> ChangeRow] /\ change'[d].at = "validate"
          /\ \A v \in Writers \ {d} : change'[v] = change[v]
      BY <1>0, <3>1, Turns DEF Stages
    <3> QED BY <1>0, <3>1, <3>3, InterestsAssumption
  <2>2. CASE ValidateInterests(d)
    <3>1. CASE To(d, "delete") /\ UNCHANGED profileLock
      <4>2. change' \in [Writers -> ChangeRow] /\ change'[d].at = "delete"
            /\ \A v \in Writers \ {d} : change'[v] = change[v]
        BY <1>0, <3>1, Turns DEF Stages
      <4>3. profileLock = d BY <2>2 DEF AgreeInv, HoldsLock, ValidateInterests
      <4> QED BY <1>0, <3>1, <4>2, <4>3
    <3>2. CASE Close(d)
      BY <1>0, <3>2, Closes, NoChangeTyped
    <3> QED BY <2>2, <3>1, <3>2 DEF ValidateInterests
  <2>3. CASE DeleteSelected(d)
    <3>1. /\ change' = [change EXCEPT ![d].at = "insert", ![d].saw = selected]
          /\ UNCHANGED profileLock
      BY <2>3 DEF DeleteSelected
    <3>2. selected \in SUBSET InterestIds BY <1>0 DEF InterestsTypeOK
    <3>3. change' \in [Writers -> ChangeRow] /\ change'[d].at = "insert" /\ change'[d].saw = selected
          /\ \A v \in Writers \ {d} : change'[v] = change[v]
      BY <1>0, <3>1, <3>2, MovesOn DEF Stages
    <3>4. profileLock = d BY <2>3 DEF AgreeInv, HoldsLock, DeleteSelected
    <3> QED BY <1>0, <3>1, <3>3, <3>4
  <2> QED BY <2>1, <2>2, <2>3
<1>2. InterestsTypeOK' BY <1>0, <1>1 DEF InterestsTypeOK, ChangeRow
<1>3. HoldsLock' BY <1>0, <1>1 DEF AgreeInv, HoldsLock
<1>4. Paths' BY <1>0, <1>1 DEF AgreeInv, Paths
<1>5. AloneIsAlone' BY <1>0, <1>1 DEF AgreeInv, AloneIsAlone, Open
<1>6. ReadsHold' BY <1>0, <1>1 DEF AgreeInv, ReadsHold, ActiveFor
<1>7. InterestsAgree'
  BY <1>0 DEF AgreeInv, InterestsAgree, SelectionIsNoUnion, ProjectionHeals, ProfileInterests
<1> QED BY <1>2, <1>3, <1>4, <1>5, <1>6, <1>7 DEF AgreeInv

\* The replacement itself: under the lock it is all that is selected, and the
\* projection of what is active.
LEMMA InsertInterestsStep ==
  ASSUME AgreeInv, NEW d \in Devices, InsertSelected(d)
  PROVE  AgreeInv'
<1>0. /\ d \in Writers /\ Editor \in Writers /\ Operator \in Writers
      /\ d # Editor /\ d # Operator /\ Devices \subseteq Writers /\ InterestsTypeOK /\ Open(d)
  BY InterestsAssumption DEF Writers, AgreeInv, InsertSelected, Open
<1>1. /\ change' \in [Writers -> ChangeRow]
      /\ change'[d] = NoChange
      /\ \A v \in Writers \ {d} : change'[v] = change[v]
      /\ profileLock' = IF profileLock = d THEN NoOne ELSE profileLock
      /\ profileLock' \in Writers \cup {NoOne}
  BY <1>0, Closes DEF InsertSelected
<1>2. /\ profileLock = d /\ change[d].saw = selected
      /\ selected' = change[d].ids /\ asked' = change[d].ids
      /\ interest_ids' = selected' \cap active /\ active' = active
      /\ exact' = change[d].alone
  BY DEF InsertSelected, AgreeInv, HoldsLock, Projected
<1>3. change[d].ids \in SUBSET InterestIds /\ change[d].alone \in BOOLEAN
  BY <1>0 DEF InterestsTypeOK
<1>4. InterestsTypeOK' BY <1>0, <1>1, <1>2, <1>3 DEF InterestsTypeOK, ChangeRow
<1>5. \A e \in Devices \ {d} : change[e].at \notin {"validate", "delete", "insert"}
  BY <1>2 DEF AgreeInv, HoldsLock
<1>6. HoldsLock' BY <1>0, <1>1, <1>5, NoChangeTyped DEF HoldsLock
<1>7. Paths' BY <1>0, <1>1, NoChangeTyped DEF AgreeInv, Paths
<1>8. AloneIsAlone' BY <1>0, <1>1, NoChangeTyped DEF AgreeInv, AloneIsAlone, Open
<1>9. /\ change[Editor].at # "idle" => ~change[Editor].alone
      /\ change[Operator].at # "idle" => ~change[Operator].alone
  BY <1>0 DEF AgreeInv, AloneIsAlone, Open
<1>10. ReadsHold' BY <1>0, <1>1, <1>9 DEF ReadsHold
<1>11. InterestsAgree'
  BY <1>2 DEF InterestsAgree, SelectionIsNoUnion, ProjectionHeals, ProfileInterests
<1> QED BY <1>4, <1>6, <1>7, <1>8, <1>10, <1>11 DEF AgreeInv

\* The statement of the trigger, or of the repair, reads.
LEMMA ReadStep ==
  ASSUME AgreeInv, NEW w \in {Editor, Operator}, ReadSelections(w)
  PROVE  AgreeInv'
<1> DEFINE array == selected \cap ActiveFor(w)
           writes == IF w = Editor THEN change[w].ids \subseteq selected ELSE array # interest_ids
<1>0. /\ w \in Writers /\ Editor \in Writers /\ Operator \in Writers
      /\ Devices \subseteq Writers /\ w \notin Devices /\ InterestsTypeOK /\ Editor # Operator
      /\ UNCHANGED <<selected, active, interest_ids, asked, exact, profileLock>>
      /\ Open(w)
  BY InterestsAssumption DEF Writers, AgreeInv, ReadSelections, Open, Editor, Operator
<1> DEFINE next == IF writes THEN "write" ELSE "commit"
<1>1. change' = [change EXCEPT ![w].at = next, ![w].saw = array]
  BY DEF ReadSelections, Projected
<1>2. array \in SUBSET InterestIds BY <1>0 DEF InterestsTypeOK
<1>3. next \in Stages BY DEF Stages
<1>4. /\ change' \in [Writers -> ChangeRow]
      /\ change'[w].at = next
      /\ change'[w].saw = array
      /\ change'[w].ids = change[w].ids /\ change'[w].alone = change[w].alone
      /\ \A v \in Writers \ {w} : change'[v] = change[v]
  <2> HIDE DEF array, writes, next
  <2>1. InterestsTypeOK /\ w \in Writers BY <1>0
  <2>2. \A at \in Stages, saw \in SUBSET InterestIds :
          change' = [change EXCEPT ![w].at = at, ![w].saw = saw] =>
            /\ change' \in [Writers -> ChangeRow]
            /\ change'[w].at = at /\ change'[w].saw = saw
            /\ change'[w].ids = change[w].ids /\ change'[w].alone = change[w].alone
            /\ \A v \in Writers \ {w} : change'[v] = change[v]
    BY <2>1, MovesOn
  <2> QED BY <1>1, <1>2, <1>3, <2>2
<1>5. InterestsTypeOK' BY <1>0, <1>4 DEF InterestsTypeOK, ChangeRow
<1>6. HoldsLock' BY <1>0, <1>4 DEF AgreeInv, HoldsLock
<1>7. Paths' BY <1>0, <1>4 DEF AgreeInv, Paths, Open
<1>8. AloneIsAlone' BY <1>0, <1>4 DEF AgreeInv, AloneIsAlone, Open
<1>9. ReadsHold'
  <2>1. CASE w = Editor
    <3>1. ActiveFor(Editor)' = ActiveFor(Editor) BY <1>0, <1>4, <2>1 DEF ActiveFor
    <3>2. PICK i \in InterestIds : change[Editor].ids = {i}
      BY <1>0, <2>1 DEF AgreeInv, Paths, Open
    <3>3. ~writes => selected \cap ActiveFor(Editor) = selected \cap active
      BY <2>1, <3>2 DEF ActiveFor
    <3>4. Operator # w => change'[Operator] = change[Operator] BY <1>0, <1>4
    <3> QED BY <1>0, <1>4, <2>1, <3>1, <3>3, <3>4 DEF AgreeInv, ReadsHold
  <2>2. CASE w = Operator
    <3>1. ActiveFor(Operator) = active BY <1>0 DEF ActiveFor
    <3>2. change'[Editor] = change[Editor] BY <1>0, <1>4, <2>2
    <3>3. ActiveFor(Editor)' = ActiveFor(Editor) BY <1>0, <3>2 DEF ActiveFor
    <3> QED BY <1>0, <1>4, <2>2, <3>1, <3>2, <3>3 DEF AgreeInv, ReadsHold
  <2> QED BY <2>1, <2>2
<1>10. InterestsAgree'
  BY <1>0 DEF AgreeInv, InterestsAgree, SelectionIsNoUnion, ProjectionHeals, ProfileInterests
<1> QED BY <1>5, <1>6, <1>7, <1>8, <1>9, <1>10 DEF AgreeInv

\* It writes and commits; if it was alone all along, what it read still holds.
LEMMA WriteInterestsStep ==
  ASSUME AgreeInv, NEW w \in {Editor, Operator}, WriteProjection(w)
  PROVE  AgreeInv'
<1>0. /\ w \in Writers /\ Editor \in Writers /\ Operator \in Writers
      /\ Devices \subseteq Writers /\ w \notin Devices /\ InterestsTypeOK /\ Editor # Operator
      /\ selected' = selected /\ asked' = asked /\ active' = ActiveFor(w)
      /\ change[w].at \in {"write", "commit"}
      /\ exact' = (change[w].alone /\ (exact \/ w = Operator))
      /\ interest_ids' = IF change[w].at = "write" THEN change[w].saw ELSE interest_ids
  BY InterestsAssumption DEF Writers, AgreeInv, WriteProjection, Editor, Operator
<1>1. /\ change' \in [Writers -> ChangeRow]
      /\ change'[w] = NoChange
      /\ \A v \in Writers \ {w} : change'[v] = change[v]
      /\ profileLock' = IF profileLock = w THEN NoOne ELSE profileLock
      /\ profileLock' \in Writers \cup {NoOne}
  BY <1>0, Closes DEF WriteProjection
<1>2. change[w].ids \in SUBSET InterestIds /\ change[w].saw \in SUBSET InterestIds
  BY <1>0 DEF InterestsTypeOK
<1>3. ActiveFor(w) \in SUBSET InterestIds BY <1>0, <1>2 DEF ActiveFor, InterestsTypeOK
<1>4. InterestsTypeOK'
  <2>1. exact' \in BOOLEAN BY <1>0
  <2> QED BY <1>0, <1>1, <1>2, <1>3, <2>1 DEF InterestsTypeOK, ChangeRow
<1>5. HoldsLock'
  <2>1. \A d \in Devices : change'[d] = change[d] /\ (profileLock = d => profileLock' = d)
    BY <1>0, <1>1
  <2> QED BY <1>0, <2>1 DEF AgreeInv, HoldsLock
<1>6. Paths' BY <1>0, <1>1, NoChangeTyped DEF AgreeInv, Paths
<1>7. AloneIsAlone' BY <1>0, <1>1, NoChangeTyped DEF AgreeInv, AloneIsAlone, Open
<1>8. \A u \in {Editor, Operator} : u # w /\ change[u].alone => change[u].at = "idle"
  <2>1. Open(w) BY <1>0 DEF Open
  <2> QED BY <1>0, <2>1 DEF AgreeInv, AloneIsAlone, Open
<1>9. ReadsHold' BY <1>0, <1>1, <1>8, NoChangeTyped DEF ReadsHold
<1>10. InterestsAgree'
  <2>1. SelectionIsNoUnion' BY <1>0 DEF AgreeInv, InterestsAgree, SelectionIsNoUnion
  <2>2. ASSUME exact' PROVE interest_ids' = selected' \cap active'
    <3>1. change[w].alone /\ (exact \/ w = Operator) BY <1>0, <2>2
    <3>2. CASE w = Editor
      <4>1. exact BY <1>0, <3>1, <3>2
      <4>2. interest_ids = selected \cap active
        BY <4>1 DEF AgreeInv, InterestsAgree, ProjectionHeals, ProfileInterests
      <4> QED BY <1>0, <3>1, <3>2, <4>2 DEF AgreeInv, ReadsHold
    <3>3. CASE w = Operator
      <4>1. ActiveFor(w) = active BY <1>0, <3>3 DEF ActiveFor
      <4> QED BY <1>0, <3>1, <3>3, <4>1 DEF AgreeInv, ReadsHold
    <3> QED BY <3>2, <3>3
  <2>3. ProjectionHeals' BY <2>2 DEF ProjectionHeals, ProfileInterests
  <2> QED BY <2>1, <2>3 DEF InterestsAgree
<1> QED BY <1>4, <1>5, <1>6, <1>7, <1>9, <1>10 DEF AgreeInv

LEMMA RollbackStep ==
  ASSUME AgreeInv, NEW w \in Writers, RollbackChange(w)
  PROVE  AgreeInv'
<1>0. /\ Editor \in Writers /\ Operator \in Writers /\ Devices \subseteq Writers
      /\ UNCHANGED <<selected, active, interest_ids, asked, exact>> /\ InterestsTypeOK
  BY DEF Writers, AgreeInv, RollbackChange
<1>1. /\ change' \in [Writers -> ChangeRow]
      /\ change'[w] = NoChange
      /\ \A v \in Writers \ {w} : change'[v] = change[v]
      /\ profileLock' = IF profileLock = w THEN NoOne ELSE profileLock
      /\ profileLock' \in Writers \cup {NoOne}
  BY <1>0, Closes DEF RollbackChange
<1>2. InterestsTypeOK' BY <1>0, <1>1 DEF InterestsTypeOK, ChangeRow
<1>3. HoldsLock' BY <1>0, <1>1, NoChangeTyped DEF AgreeInv, HoldsLock
<1>4. Paths' BY <1>0, <1>1, NoChangeTyped DEF AgreeInv, Paths
<1>5. AloneIsAlone' BY <1>0, <1>1, NoChangeTyped DEF AgreeInv, AloneIsAlone, Open
<1>6. ReadsHold'
  <2>1. change'[Editor].at # "idle" => change'[Editor] = change[Editor]
    BY <1>0, <1>1, NoChangeTyped
  <2>2. change'[Operator].at # "idle" => change'[Operator] = change[Operator]
    BY <1>0, <1>1, NoChangeTyped
  <2> QED BY <1>0, <2>1, <2>2 DEF AgreeInv, ReadsHold, ActiveFor
<1>7. InterestsAgree'
  BY <1>0 DEF AgreeInv, InterestsAgree, SelectionIsNoUnion, ProjectionHeals, ProfileInterests
<1> QED BY <1>2, <1>3, <1>4, <1>5, <1>6, <1>7 DEF AgreeInv

LEMMA AgreeStep == AgreeInv /\ [InterestsNext]_interestsVars => AgreeInv'
<1> SUFFICES ASSUME AgreeInv, [InterestsNext]_interestsVars PROVE AgreeInv' OBVIOUS
<1>1. CASE UNCHANGED interestsVars
  BY <1>1 DEF interestsVars, AgreeInv, InterestsTypeOK, HoldsLock, Paths, AloneIsAlone,
              ReadsHold, ActiveFor, Open, InterestsAgree, SelectionIsNoUnion,
              ProjectionHeals, ProfileInterests
<1>2. ASSUME NEW d \in Devices, NEW ids \in SUBSET InterestIds, ReplaceInterests(d, ids)
      PROVE  AgreeInv'
  BY <1>2, BeginStep DEF ReplaceInterests, Writers, Stages
<1>3. ASSUME NEW d \in Devices, LockOwner(d) \/ ValidateInterests(d) \/ DeleteSelected(d)
      PROVE  AgreeInv'
  BY <1>3, DeviceSteps
<1>4. ASSUME NEW d \in Devices, InsertSelected(d) PROVE AgreeInv' BY <1>4, InsertInterestsStep
<1>5. ASSUME NEW i \in InterestIds, SetActive(i) PROVE AgreeInv'
  BY <1>5, BeginStep DEF SetActive, Writers, Stages
<1>6. CASE Repair BY <1>6, BeginStep DEF Repair, Writers, Stages
<1>7. ASSUME NEW w \in {Editor, Operator}, ReadSelections(w) PROVE AgreeInv' BY <1>7, ReadStep
<1>8. ASSUME NEW w \in {Editor, Operator}, WriteProjection(w) PROVE AgreeInv' BY <1>8, WriteInterestsStep
<1>9. ASSUME NEW w \in Writers, RollbackChange(w) PROVE AgreeInv' BY <1>9, RollbackStep
<1> QED BY <1>1, <1>2, <1>3, <1>4, <1>5, <1>6, <1>7, <1>8, <1>9 DEF InterestsNext

\* One replacement at a time decides what is selected, and the array that
\* matching reads is what the profile shows unless writers that share no lock
\* overlapped: however many devices, and whoever edits or repairs meanwhile.
THEOREM SelectionAndProjectionAgree == InterestsSpec => []InterestsAgree
<1>1. AgreeInv => InterestsAgree BY DEF AgreeInv
<1> QED BY <1>1, AgreeInit, AgreeStep, PTL DEF InterestsSpec

-----------------------------------------------------------------------------
(* Traveller feedback.                                                     *)

FeedbackRow == [target : Targets, again : BOOLEAN]
Submission ==
  [at : {"idle", "lock", "members", "existing", "insert"},
   batch : Batches \cup {EmptyBatch}, existing : SUBSET FeedbackRow,
   answer : {"none", "event", "member", "conflict", "stored"}]

Holds(s) == submission[s].at \in {"members", "existing", "insert"}
Selected(s) == DOMAIN submission[s].batch

\* One request at a time is past the lock, so what it read of the rows is
\* still all there is about its targets.
LockInv ==
  /\ \A s, o \in Submissions : Holds(s) /\ Holds(o) => s = o
  /\ \A s \in Submissions : submission[s].at = "insert" =>
       submission[s].existing = {r \in feedback : r.target \in Selected(s)}

\* Only what the client sent is judged.
BatchInv ==
  \A s \in Submissions :
    /\ submission[s].at # "idle" \/ submission[s].answer # "none" =>
         submission[s].batch \in Batches
    /\ submission[s].at # "idle" => submission[s].answer = "none"

\* The group stands still once the event is over, and it was over when the
\* first check passed.
GroupInv ==
  /\ feedback # {} => period = "over"
  /\ \A s \in Submissions :
       /\ Holds(s) => period = "over"
       /\ submission[s].at \in {"existing", "insert"} => {Reviewer} \cup Selected(s) \subseteq group
       /\ submission[s].answer = "member" =>
            period = "over" /\ ~({Reviewer} \cup Selected(s) \subseteq group)
       /\ submission[s].answer = "stored" =>
            period = "over" /\ {Reviewer} \cup Selected(s) \subseteq group

SoundInv ==
  /\ FeedbackTypeOK /\ LockInv /\ BatchInv /\ GroupInv
  /\ RetriesAreSafe /\ FeedbackIsAmongMembers

LEMMA BatchFacts ==
  ASSUME NEW batch \in Batches
  PROVE  /\ DOMAIN batch \subseteq Targets /\ DOMAIN batch # {}
         /\ \A t \in DOMAIN batch : batch[t] \in BOOLEAN
<1>1. PICK S \in (SUBSET Targets) \ {{}} : batch \in [S -> BOOLEAN] BY DEF Batches
<1>2. DOMAIN batch = S BY <1>1
<1>3. \A t \in S : batch[t] \in BOOLEAN BY <1>1
<1> QED BY <1>2, <1>3

\* A batch has one row for each of its targets.
LEMMA RowFacts ==
  ASSUME NEW batch \in Batches
  PROVE  /\ Rows(batch) \subseteq FeedbackRow
         /\ \A r \in Rows(batch) : r.target \in DOMAIN batch /\ r.again = batch[r.target]
         /\ \A t \in DOMAIN batch : \E r \in Rows(batch) : r.target = t /\ r.again = batch[t]
<1>1. \A r \in Rows(batch) : \E t \in DOMAIN batch : r = [target |-> t, again |-> batch[t]]
  BY DEF Rows
<1>2. \A t \in DOMAIN batch : [target |-> t, again |-> batch[t]] \in Rows(batch) BY DEF Rows
<1>3. \A r \in Rows(batch) : r \in FeedbackRow /\ r.target \in DOMAIN batch /\ r.again = batch[r.target]
  BY <1>1, BatchFacts DEF FeedbackRow
<1>4. ASSUME NEW t \in DOMAIN batch
      PROVE  \E r \in Rows(batch) : r.target = t /\ r.again = batch[t]
  <2>1. [target |-> t, again |-> batch[t]] \in Rows(batch) BY <1>2, <1>4
  <2> QED BY <2>1
<1> QED BY <1>3, <1>4

\* The list of candidates in terms of the group.
LEMMA ListingFollows == SoundInv => ListedCanBeAnswered
<1> SUFFICES ASSUME SoundInv, NEW s \in Submissions
    PROVE  /\ submission[s].answer = "member" => ~Selected(s) \subseteq listCandidates
           /\ submission[s].answer = "stored" => cancelled \/ Selected(s) \subseteq listCandidates
  BY DEF ListedCanBeAnswered, Selected
<1>1. submission[s].answer # "none" => Selected(s) \subseteq Targets /\ Selected(s) # {}
  BY BatchFacts DEF SoundInv, BatchInv, Selected
<1>2. Reviewer \notin Targets BY DEF Targets
<1>3. ASSUME submission[s].answer = "member" PROVE ~Selected(s) \subseteq listCandidates
  BY <1>1, <1>2, <1>3 DEF SoundInv, GroupInv, listCandidates
<1>4. ASSUME submission[s].answer = "stored", ~cancelled PROVE Selected(s) \subseteq listCandidates
  BY <1>1, <1>2, <1>4 DEF SoundInv, GroupInv, listCandidates, EventEligible
<1> QED BY <1>3, <1>4 DEF SoundInv, FeedbackTypeOK

LEMMA SoundInit == FeedbackInit => SoundInv
<1> SUFFICES ASSUME FeedbackInit PROVE SoundInv OBVIOUS
<1>1. \A s \in Submissions :
        /\ submission[s] = Awaiting(EmptyBatch, "none")
        /\ submission[s].at = "idle" /\ submission[s].answer = "none"
  BY DEF FeedbackInit, Awaiting
<1>2. Awaiting(EmptyBatch, "none") \in Submission BY DEF Awaiting, Submission
<1>3. FeedbackTypeOK BY <1>2 DEF FeedbackInit, FeedbackTypeOK, Submission, FeedbackRow
<1>4. LockInv /\ BatchInv /\ GroupInv
  BY <1>1 DEF LockInv, BatchInv, GroupInv, Holds, FeedbackInit
<1>5. RetriesAreSafe /\ FeedbackIsAmongMembers
  BY <1>1 DEF FeedbackInit, RetriesAreSafe, FeedbackIsAmongMembers
<1> QED BY <1>3, <1>4, <1>5 DEF SoundInv

\* A step of one submission that stores nothing: what is left to show is about
\* its own new row.
LEMMA RequestStep ==
  ASSUME SoundInv, NEW s \in Submissions, NEW row \in Submission,
         submission' = [submission EXCEPT ![s] = row],
         UNCHANGED <<group, period, cancelled, feedback, accepted>>,
         row.at \in {"members", "existing", "insert"} =>
           period = "over" /\ \A o \in Submissions \ {s} : ~Holds(o),
         row.at = "insert" =>
           row.existing = {r \in feedback : r.target \in DOMAIN row.batch},
         row.at # "idle" \/ row.answer # "none" => row.batch \in Batches,
         row.at # "idle" => row.answer = "none",
         row.at \in {"existing", "insert"} => {Reviewer} \cup DOMAIN row.batch \subseteq group,
         row.answer = "member" =>
           period = "over" /\ ~({Reviewer} \cup DOMAIN row.batch \subseteq group),
         row.answer = "stored" =>
           /\ period = "over" /\ {Reviewer} \cup DOMAIN row.batch \subseteq group
           /\ Rows(row.batch) \subseteq feedback,
         row.answer = "conflict" =>
           \E r \in Rows(row.batch), f \in feedback : f.target = r.target /\ f.again # r.again
  PROVE  SoundInv'
<1>1. submission \in [Submissions -> Submission]
  BY DEF SoundInv, FeedbackTypeOK, Submission, FeedbackRow
<1>2. \A o \in Submissions : submission'[o] = IF o = s THEN row ELSE submission[o] BY <1>1
<1>3. FeedbackTypeOK' BY <1>1 DEF SoundInv, FeedbackTypeOK, Submission, FeedbackRow
<1>4. LockInv' BY <1>2 DEF SoundInv, LockInv, Holds, Selected
<1>5. BatchInv' BY <1>2 DEF SoundInv, BatchInv
<1>6. GroupInv' BY <1>2 DEF SoundInv, GroupInv, Holds, Selected
<1>7. RetriesAreSafe' BY <1>2 DEF SoundInv, RetriesAreSafe
<1>8. FeedbackIsAmongMembers' BY DEF SoundInv, FeedbackIsAmongMembers
<1> QED BY <1>3, <1>4, <1>5, <1>6, <1>7, <1>8 DEF SoundInv

\* A request begins, is refused, or its client gives it up.
LEMMA SubmitStep ==
  ASSUME SoundInv, NEW s \in Submissions, NEW batch \in Batches, SubmitFeedback(s, batch)
  PROVE  SoundInv'
<1> DEFINE row == [Awaiting(batch, "none") EXCEPT !.at = "lock"]
<1>1. row \in Submission /\ row.at = "lock" /\ row.answer = "none" /\ row.batch = batch
  BY DEF Awaiting, Submission
<1>2. /\ submission' = [submission EXCEPT ![s] = row]
      /\ UNCHANGED <<group, period, cancelled, feedback, accepted>>
  BY DEF SubmitFeedback
<1> HIDE DEF row
<1> QED BY <1>1, <1>2, RequestStep

LEMMA LoseStep ==
  ASSUME SoundInv, NEW s \in Submissions, LoseSubmission(s)
  PROVE  SoundInv'
<1> DEFINE row == Awaiting(EmptyBatch, "none")
<1>1. row \in Submission /\ row.at = "idle" /\ row.answer = "none"
  BY DEF Awaiting, Submission
<1>2. /\ submission' = [submission EXCEPT ![s] = row]
      /\ UNCHANGED <<group, period, cancelled, feedback, accepted>>
  BY DEF LoseSubmission
<1> HIDE DEF row
<1> QED BY <1>1, <1>2, RequestStep

\* What Answers and Moves make of a request that runs.
LEMMA Running ==
  ASSUME SoundInv, NEW s \in Submissions, submission[s].at # "idle"
  PROVE  /\ submission[s] \in Submission /\ submission[s].batch \in Batches
         /\ submission[s].answer = "none"
  BY DEF SoundInv, FeedbackTypeOK, BatchInv, Submission, FeedbackRow

LEMMA AnsweredRow ==
  ASSUME SoundInv, NEW s \in Submissions, submission[s].at # "idle",
         NEW reply \in {"none", "event", "member", "conflict", "stored"}, Answers(s, reply)
  PROVE  \E row \in Submission :
           /\ submission' = [submission EXCEPT ![s] = row]
           /\ row.at = "idle" /\ row.answer = reply /\ row.batch = submission[s].batch
<1> DEFINE row == Awaiting(submission[s].batch, reply)
<1>1. row \in Submission /\ row.at = "idle" /\ row.answer = reply
      /\ row.batch = submission[s].batch
  BY Running DEF Awaiting, Submission
<1>2. submission' = [submission EXCEPT ![s] = row] BY DEF Answers, Awaiting
<1> HIDE DEF row
<1> QED BY <1>1, <1>2

LEMMA MovedRow ==
  ASSUME SoundInv, NEW s \in Submissions, submission[s].at # "idle",
         NEW at \in {"members", "existing"}, Moves(s, at)
  PROVE  \E row \in Submission :
           /\ submission' = [submission EXCEPT ![s] = row]
           /\ row.at = at /\ row.answer = "none" /\ row.batch = submission[s].batch
<1> DEFINE row == [submission[s] EXCEPT !.at = at]
<1>1. row \in Submission /\ row.at = at /\ row.answer = "none"
      /\ row.batch = submission[s].batch
  BY Running DEF Submission
<1>2. submission' = [submission EXCEPT ![s] = row] BY DEF Moves
<1> HIDE DEF row
<1> QED BY <1>1, <1>2

LEMMA LockStep ==
  ASSUME SoundInv, NEW s \in Submissions, LockAndLoadEvent(s)
  PROVE  SoundInv'
<1>1. /\ submission[s].at = "lock" /\ submission[s].batch \in Batches
      /\ UNCHANGED <<group, period, cancelled, feedback, accepted>>
      /\ \A o \in Submissions \ {s} : ~Holds(o)
  BY Running DEF LockAndLoadEvent, KeyFree, Holds
<1>2. CASE EventEligible /\ Moves(s, "members")
  <2>1. PICK row \in Submission :
          /\ submission' = [submission EXCEPT ![s] = row]
          /\ row.at = "members" /\ row.answer = "none" /\ row.batch = submission[s].batch
    BY <1>1, <1>2, MovedRow
  <2>2. period = "over" BY <1>2 DEF EventEligible
  <2> QED BY <1>1, <2>1, <2>2, RequestStep
<1>3. CASE Answers(s, "event")
  <2>1. PICK row \in Submission :
          /\ submission' = [submission EXCEPT ![s] = row]
          /\ row.at = "idle" /\ row.answer = "event" /\ row.batch = submission[s].batch
    BY <1>1, <1>3, AnsweredRow
  <2> QED BY <1>1, <2>1, RequestStep
<1> QED BY <1>2, <1>3 DEF LockAndLoadEvent

LEMMA MembersStep ==
  ASSUME SoundInv, NEW s \in Submissions, AssertMembers(s)
  PROVE  SoundInv'
<1>1. /\ submission[s].at = "members" /\ submission[s].batch \in Batches
      /\ UNCHANGED <<group, period, cancelled, feedback, accepted>>
      /\ period = "over" /\ \A o \in Submissions \ {s} : ~Holds(o)
  BY Running DEF AssertMembers, Holds, SoundInv, GroupInv, LockInv
<1>2. CASE {Reviewer} \cup DOMAIN submission[s].batch \subseteq group /\ Moves(s, "existing")
  <2>1. PICK row \in Submission :
          /\ submission' = [submission EXCEPT ![s] = row]
          /\ row.at = "existing" /\ row.answer = "none" /\ row.batch = submission[s].batch
    BY <1>1, <1>2, MovedRow
  <2> QED BY <1>1, <1>2, <2>1, RequestStep
<1>3. CASE ~({Reviewer} \cup DOMAIN submission[s].batch \subseteq group) /\ Answers(s, "member")
  <2>1. PICK row \in Submission :
          /\ submission' = [submission EXCEPT ![s] = row]
          /\ row.at = "idle" /\ row.answer = "member" /\ row.batch = submission[s].batch
    BY <1>1, <1>3, AnsweredRow
  <2> QED BY <1>1, <1>3, <2>1, RequestStep
<1> QED BY <1>2, <1>3 DEF AssertMembers

LEMMA ExistingStep ==
  ASSUME SoundInv, NEW s \in Submissions, LoadExisting(s)
  PROVE  SoundInv'
<1> DEFINE found == {r \in feedback : r.target \in DOMAIN submission[s].batch}
           row == [submission[s] EXCEPT !.at = "insert", !.existing = found]
<1>1. /\ submission[s].at = "existing" /\ submission[s].batch \in Batches
      /\ submission[s] \in Submission /\ submission[s].answer = "none"
      /\ UNCHANGED <<group, period, cancelled, feedback, accepted>>
      /\ period = "over" /\ \A o \in Submissions \ {s} : ~Holds(o)
      /\ {Reviewer} \cup DOMAIN submission[s].batch \subseteq group
  BY Running DEF LoadExisting, Holds, SoundInv, GroupInv, LockInv, Selected
<1>2. found \in SUBSET FeedbackRow BY DEF SoundInv, FeedbackTypeOK, FeedbackRow
<1>3. submission' = [submission EXCEPT ![s] = row]
  BY DEF LoadExisting, SoundInv, FeedbackTypeOK
<1>4. row \in Submission /\ row.at = "insert" /\ row.answer = "none"
      /\ row.batch = submission[s].batch /\ row.existing = found
  <2> HIDE DEF found
  <2> QED BY <1>1, <1>2 DEF Submission
<1>5. row.existing = {r \in feedback : r.target \in DOMAIN row.batch} BY <1>4
<1> HIDE DEF row, found
<1> QED BY <1>1, <1>3, <1>4, <1>5, RequestStep

\* The insert stores the batch whole, or finds a row that says otherwise.
LEMMA InsertBatchStep ==
  ASSUME SoundInv, NEW s \in Submissions, InsertFeedback(s)
  PROVE  SoundInv'
<1> DEFINE batch == submission[s].batch
           rows == Rows(batch)
<1>1. /\ submission[s].at = "insert" /\ batch \in Batches
      /\ UNCHANGED <<group, period, cancelled>>
      /\ period = "over" /\ \A o \in Submissions \ {s} : ~Holds(o)
      /\ {Reviewer} \cup DOMAIN batch \subseteq group
      /\ submission[s].existing = {r \in feedback : r.target \in DOMAIN batch}
  BY Running DEF InsertFeedback, Holds, SoundInv, GroupInv, LockInv, Selected
<1>2. /\ rows \subseteq FeedbackRow
      /\ \A r \in rows : r.target \in DOMAIN batch /\ r.again = batch[r.target]
      /\ \A t \in DOMAIN batch : \E r \in rows : r.target = t /\ r.again = batch[t]
  BY <1>1, RowFacts
<1>3. Missing(s) = {r \in rows : \A e \in submission[s].existing : e.target # r.target}
  BY DEF Missing
<1>4. \A r \in Missing(s), f \in feedback : f.target # r.target BY <1>1, <1>2, <1>3
<1>5. feedback \subseteq FeedbackRow BY DEF SoundInv, FeedbackTypeOK, FeedbackRow
<1> HIDE DEF batch, rows
<1>6. CASE /\ Agrees(s) /\ Answers(s, "stored") /\ feedback' = feedback \cup Missing(s)
           /\ accepted' = accepted \cup {rows}
  <2>1. submission[s].existing \subseteq rows BY <1>6 DEF Agrees, rows, batch
  <2>2. \A e \in submission[s].existing, r \in rows : e.target = r.target => e = r
    BY <1>2, <2>1 DEF FeedbackRow
  <2>3. rows \subseteq feedback' /\ feedback' = feedback \cup rows
    BY <1>1, <1>3, <1>6, <2>1, <2>2
  <2>4. PICK row \in Submission :
          /\ submission' = [submission EXCEPT ![s] = row]
          /\ row.at = "idle" /\ row.answer = "stored" /\ row.batch = batch
    BY <1>1, <1>6, AnsweredRow DEF batch
  <2>5. submission \in [Submissions -> Submission]
    BY DEF SoundInv, FeedbackTypeOK, Submission, FeedbackRow
  <2>6. \A o \in Submissions : submission'[o] = IF o = s THEN row ELSE submission[o]
    BY <2>4, <2>5
  <2>7. FeedbackTypeOK'
    BY <1>1, <1>2, <1>5, <2>3, <2>4, <2>5 DEF SoundInv, FeedbackTypeOK, Submission, FeedbackRow
  <2>8. LockInv' BY <1>1, <2>4, <2>6 DEF LockInv, Holds
  <2>9. BatchInv' BY <1>1, <2>4, <2>6 DEF SoundInv, BatchInv
  <2>10. GroupInv' BY <1>1, <2>4, <2>6 DEF SoundInv, GroupInv, Holds, Selected
  <2>11. RetriesAreSafe'
    <3>1. feedback' = UNION accepted' BY <1>6, <2>3 DEF SoundInv, RetriesAreSafe
    <3>2. ASSUME NEW o \in Submissions
          PROVE  /\ submission'[o].answer = "stored" => Rows(submission'[o].batch) \subseteq feedback'
                 /\ submission'[o].answer = "conflict" =>
                      \E r \in Rows(submission'[o].batch), f \in feedback' :
                        f.target = r.target /\ f.again # r.again
      <4>1. CASE o = s BY <2>3, <2>4, <2>6, <4>1 DEF rows
      <4>2. CASE o # s BY <2>3, <2>6, <4>2 DEF SoundInv, RetriesAreSafe
      <4> QED BY <4>1, <4>2
    <3> QED BY <3>1, <3>2 DEF RetriesAreSafe
  <2>12. FeedbackIsAmongMembers'
    <3>1. \A r \in feedback : {Reviewer} \cup {r.target} \subseteq group
      BY DEF SoundInv, FeedbackIsAmongMembers
    <3>2. \A r \in feedback' : {Reviewer} \cup {r.target} \subseteq group
      BY <1>1, <1>2, <2>3, <3>1
    <3> QED BY <1>1, <3>2 DEF FeedbackIsAmongMembers
  <2> QED BY <2>7, <2>8, <2>9, <2>10, <2>11, <2>12 DEF SoundInv
<1>7. CASE ~Agrees(s) /\ Answers(s, "conflict") /\ UNCHANGED <<feedback, accepted>>
  <2>1. PICK e \in submission[s].existing : e \notin rows
    BY <1>4, <1>7 DEF Agrees, rows, batch
  <2>2. PICK r \in rows : r.target = e.target BY <1>1, <1>2, <2>1
  <2>3. e \in feedback /\ e.again # r.again BY <1>1, <1>2, <1>5, <2>1, <2>2 DEF FeedbackRow
  <2>4. PICK row \in Submission :
          /\ submission' = [submission EXCEPT ![s] = row]
          /\ row.at = "idle" /\ row.answer = "conflict" /\ row.batch = batch
    BY <1>1, <1>7, AnsweredRow DEF batch
  <2>5. \E q \in Rows(row.batch), f \in feedback : f.target = q.target /\ f.again # q.again
    BY <2>2, <2>3, <2>4 DEF rows
  <2> QED BY <1>1, <1>7, <2>4, <2>5, RequestStep
<1> QED BY <1>6, <1>7 DEF InsertFeedback, rows, batch

\* The event and its group move on their own.
LEMMA EventSteps ==
  ASSUME SoundInv,
         (\E p \in Members : Regroup(p)) \/ (period # "over" /\ Advances) \/ CancelledByHost
  PROVE  SoundInv'
<1>1. UNCHANGED <<feedback, accepted, submission>> BY DEF Regroup, Advances, CancelledByHost
<1>2. period = "over" => UNCHANGED <<group, period>>
  BY DEF Regroup, Advances, CancelledByHost
<1>3. FeedbackTypeOK'
  <2>1. CASE \E p \in Members : Regroup(p)
    BY <2>1 DEF SoundInv, FeedbackTypeOK, Regroup
  <2>2. CASE period # "over" /\ Advances
    BY <2>2 DEF SoundInv, FeedbackTypeOK, Advances
  <2>3. CASE CancelledByHost BY <2>3 DEF SoundInv, FeedbackTypeOK, CancelledByHost
  <2> QED BY <2>1, <2>2, <2>3
<1>4. LockInv' /\ BatchInv' BY <1>1 DEF SoundInv, LockInv, BatchInv, Holds, Selected
<1>5. GroupInv'
  <2>1. \A s \in Submissions : submission[s].at \in {"existing", "insert"} => Holds(s)
    BY DEF Holds
  <2> QED BY <1>1, <1>2, <2>1 DEF SoundInv, GroupInv, Holds, Selected
<1>6. RetriesAreSafe' BY <1>1 DEF SoundInv, RetriesAreSafe
<1>7. FeedbackIsAmongMembers' BY <1>1, <1>2 DEF SoundInv, FeedbackIsAmongMembers, GroupInv
<1> QED BY <1>3, <1>4, <1>5, <1>6, <1>7 DEF SoundInv

LEMMA SoundStep == SoundInv /\ [FeedbackNext]_feedbackVars => SoundInv'
<1> SUFFICES ASSUME SoundInv, [FeedbackNext]_feedbackVars PROVE SoundInv' OBVIOUS
<1>1. CASE UNCHANGED feedbackVars
  BY <1>1 DEF feedbackVars, SoundInv, FeedbackTypeOK, LockInv, BatchInv, GroupInv, Holds,
              Selected, RetriesAreSafe, FeedbackIsAmongMembers
<1>2. ASSUME NEW s \in Submissions, NEW batch \in Batches, SubmitFeedback(s, batch)
      PROVE  SoundInv'
  BY <1>2, SubmitStep
<1>3. ASSUME NEW s \in Submissions, LockAndLoadEvent(s) PROVE SoundInv' BY <1>3, LockStep
<1>4. ASSUME NEW s \in Submissions, AssertMembers(s) PROVE SoundInv' BY <1>4, MembersStep
<1>5. ASSUME NEW s \in Submissions, LoadExisting(s) PROVE SoundInv' BY <1>5, ExistingStep
<1>6. ASSUME NEW s \in Submissions, InsertFeedback(s) PROVE SoundInv' BY <1>6, InsertBatchStep
<1>7. ASSUME NEW s \in Submissions, LoseSubmission(s) PROVE SoundInv' BY <1>7, LoseStep
<1>8. CASE (\E p \in Members : Regroup(p)) \/ (period # "over" /\ Advances) \/ CancelledByHost
  BY <1>8, EventSteps
<1> QED BY <1>1, <1>2, <1>3, <1>4, <1>5, <1>6, <1>7, <1>8 DEF FeedbackNext

\* Whatever is sent again, sent twice, or sent while the group still moves: a
\* batch is stored once and whole, about members only, and nobody is told of a
\* conflict that is not there or kept from an answer the list offered.
THEOREM FeedbackStaysSound == FeedbackSpec => []FeedbackIsSound
<1>1. SoundInv => FeedbackIsSound BY ListingFollows DEF SoundInv, FeedbackIsSound
<1> QED BY <1>1, SoundInit, SoundStep, PTL DEF FeedbackSpec

-----------------------------------------------------------------------------
(* Provisioning and the age rules.                                         *)

IsAccount(a) == a = [f \in {"uid", "email", "parts", "status"} |-> a[f]]
IsProvision(p) == p = [f \in {"at", "identity", "dob", "wrote", "answer"} |-> p[f]]

HasUser(p) == "users" \in p.wrote
HoldsAddress(identity) == \E a \in accounts : a.uid # identity.uid /\ a.email = identity.email
HasAccount(identity) == \E a \in accounts : a.uid = identity.uid

\* A transaction that inserted its user is alone with that uid and address; one
\* that could not has found who holds them.
ProvisionIsSound(p) ==
  /\ IsProvision(p)
  /\ p.at = "rest" <=> HasUser(p)
  /\ HasUser(p) => ~Taken(p.identity)
  /\ p.at = "lookup" => Taken(p.identity)
  /\ p.answer = "conflict" => HoldsAddress(p.identity)
  /\ p.answer \in {"welcome", "unavailable"} => HasAccount(p.identity)

UsersDiffer ==
  \A c, d \in Clients :
    c # d /\ HasUser(provision[c]) /\ HasUser(provision[d]) =>
      ~Clash(provision[c].identity, provision[d].identity)

AccountsInv ==
  /\ today \in Days
  /\ \A a \in accounts : IsAccount(a)
  /\ provision = [c \in Clients |-> provision[c]]
  /\ \A c \in Clients : ProvisionIsSound(provision[c])
  /\ UsersDiffer
  /\ OneWholeAccount

LEMMA AccountsInit == ProvisioningInit => AccountsInv
<1> SUFFICES ASSUME ProvisioningInit PROVE AccountsInv
  OBVIOUS
<1>1. \A c \in Clients : provision[c] = Quiet(Anyone, "none")
  BY DEF ProvisioningInit
<1>2. LET p == Quiet(Anyone, "none")
      IN  IsProvision(p) /\ p.at = "idle" /\ p.wrote = {} /\ p.answer = "none"
  BY DEF Quiet, IsProvision
<1>3. \A c \in Clients : ProvisionIsSound(provision[c])
  BY <1>1, <1>2 DEF ProvisionIsSound, HasUser
<1>4. UsersDiffer
  BY <1>1, <1>2 DEF UsersDiffer, HasUser
<1> QED BY <1>3, <1>4 DEF ProvisioningInit, AccountsInv, OneWholeAccount

\* A step of one request that commits nothing.
LEMMA ProvisionStep ==
  ASSUME AccountsInv, NEW c \in Clients, NEW row, ProvisionIsSound(row),
         provision' = [provision EXCEPT ![c] = row], UNCHANGED <<accounts, today>>,
         \A d \in Clients \ {c} : HasUser(row) /\ HasUser(provision[d]) =>
           ~Clash(provision[d].identity, row.identity)
  PROVE  AccountsInv'
<1>1. /\ provision' = [d \in Clients |-> provision'[d]] /\ provision'[c] = row
      /\ \A d \in Clients : d # c => provision'[d] = provision[d]
      /\ accounts' = accounts /\ today' = today
  BY DEF AccountsInv
<1>2. \A d \in Clients : ProvisionIsSound(provision[d])'
  BY <1>1 DEF AccountsInv, ProvisionIsSound, Taken, HoldsAddress, HasAccount, HasUser
<1>3. UsersDiffer'
  BY <1>1 DEF AccountsInv, UsersDiffer, HasUser, Clash
<1>4. OneWholeAccount'
  BY <1>1 DEF AccountsInv, OneWholeAccount
<1> QED BY <1>1, <1>2, <1>3, <1>4 DEF AccountsInv

\* What a request goes on with after it was refused or answered.
LEMMA AnswerStep ==
  ASSUME AccountsInv, NEW c \in Clients, NEW reply, Answer(c, reply),
         reply = "conflict" => HoldsAddress(provision[c].identity),
         reply \in {"welcome", "unavailable"} => HasAccount(provision[c].identity),
         UNCHANGED <<accounts, today>>
  PROVE  AccountsInv'
<1> DEFINE row == Quiet(provision[c].identity, reply)
<1>1. provision' = [provision EXCEPT ![c] = row]
  BY DEF Answer
<1>2. IsProvision(row) /\ row.at = "idle" /\ row.wrote = {} /\ row.answer = reply
      /\ row.identity = provision[c].identity
  BY DEF Quiet, IsProvision
<1> HIDE DEF row
<1>3. ProvisionIsSound(row) /\ ~HasUser(row)
  BY <1>2 DEF ProvisionIsSound, HasUser
<1> QED BY <1>1, <1>3, ProvisionStep

LEMMA StartStep ==
  ASSUME AccountsInv, NEW c \in Clients, NEW identity, NEW dob, NEW current,
         Provision(c, identity, dob, current) \/ Enter(c, identity)
  PROVE  AccountsInv'
<1>1. PICK row : /\ row \in {[at |-> "users", identity |-> identity, dob |-> dob, wrote |-> {},
                               answer |-> "none"],
                              Quiet(identity, "refused"),
                              [Quiet(identity, "none") EXCEPT !.at = "resolve"]}
                 /\ provision' = [provision EXCEPT ![c] = row]
  BY DEF Provision, Enter
<1>2. IsProvision(row) /\ row.at \in {"users", "idle", "resolve"} /\ row.wrote = {}
      /\ row.answer \in {"none", "refused"}
  BY <1>1 DEF Quiet, IsProvision
<1>3. ProvisionIsSound(row) /\ ~HasUser(row)
  BY <1>2 DEF ProvisionIsSound, HasUser
<1>4. UNCHANGED <<accounts, today>>
  BY DEF Provision, Enter
<1> QED BY <1>1, <1>3, <1>4, ProvisionStep

\* Another stage of the same request, with what it wrote.
LEMMA ReachStep ==
  ASSUME AccountsInv, NEW c \in Clients, NEW row, UNCHANGED <<accounts, today>>,
         provision' = [provision EXCEPT ![c] = row],
         IsProvision(row), row.identity = provision[c].identity, row.answer = provision[c].answer,
         row.at = "rest" <=> HasUser(row), row.at = "lookup" => Taken(row.identity),
         HasUser(row) => \/ HasUser(provision[c])
                         \/ ~Taken(row.identity) /\ NoClashInFlight(c)
  PROVE  AccountsInv'
<1>1. ProvisionIsSound(row)
  BY DEF AccountsInv, ProvisionIsSound
<1>2. \A d \in Clients \ {c} : HasUser(row) /\ HasUser(provision[d]) =>
        ~Clash(provision[d].identity, row.identity)
  BY DEF AccountsInv, UsersDiffer, NoClashInFlight, HasUser
<1> QED BY <1>1, <1>2, ProvisionStep

\* The unique indexes let one user in, with everything else to follow.
LEMMA InsertUserStep ==
  ASSUME AccountsInv, NEW c \in Clients, InsertUser(c)
  PROVE  AccountsInv'
<1>1. /\ provision[c].at = "users" /\ NoClashInFlight(c) /\ UNCHANGED <<accounts, today>>
      /\ IsProvision(provision[c]) /\ ~HasUser(provision[c])
  BY DEF InsertUser, AccountsInv, ProvisionIsSound
<1>2. CASE Answer(c, "refused")
  BY <1>1, <1>2, AnswerStep
<1>3. CASE Taken(provision[c].identity) /\ Reach(c, "lookup")
  <2> DEFINE row == [provision[c] EXCEPT !.at = "lookup"]
  <2>1. provision' = [provision EXCEPT ![c] = row]
    BY <1>3 DEF Reach
  <2>2. IsProvision(row) /\ row.at = "lookup" /\ row.identity = provision[c].identity
        /\ row.answer = provision[c].answer /\ row.wrote = provision[c].wrote
    BY <1>1 DEF IsProvision
  <2> HIDE DEF row
  <2>3. ~HasUser(row)
    BY <1>1, <2>2 DEF HasUser
  <2> QED BY <1>1, <1>3, <2>1, <2>2, <2>3, ReachStep
<1>4. CASE /\ ~Taken(provision[c].identity)
           /\ provision' = [provision EXCEPT ![c].at = "rest", ![c].wrote = {"users"}]
  <2> DEFINE row == [provision[c] EXCEPT !.at = "rest", !.wrote = {"users"}]
  <2>1. provision' = [provision EXCEPT ![c] = row]
    BY <1>4 DEF AccountsInv
  <2>2. IsProvision(row) /\ row.at = "rest" /\ row.identity = provision[c].identity
        /\ row.answer = provision[c].answer /\ row.wrote = {"users"}
    BY <1>1 DEF IsProvision
  <2> HIDE DEF row
  <2>3. HasUser(row)
    BY <2>2 DEF HasUser
  <2> QED BY <1>1, <1>4, <2>1, <2>2, <2>3, ReachStep
<1> QED BY <1>2, <1>3, <1>4 DEF InsertUser

\* No account of this uid, so somebody else has the address.
LEMMA FindExistingStep ==
  ASSUME AccountsInv, NEW c \in Clients, FindExisting(c)
  PROVE  AccountsInv'
<1>1. /\ provision[c].at = "lookup" /\ UNCHANGED <<accounts, today>>
      /\ IsProvision(provision[c]) /\ ~HasUser(provision[c]) /\ Taken(provision[c].identity)
  BY DEF FindExisting, AccountsInv, ProvisionIsSound
<1>2. CASE Reach(c, "resolve")
  <2> DEFINE row == [provision[c] EXCEPT !.at = "resolve"]
  <2>1. provision' = [provision EXCEPT ![c] = row]
    BY <1>2 DEF Reach
  <2>2. IsProvision(row) /\ row.at = "resolve" /\ row.identity = provision[c].identity
        /\ row.answer = provision[c].answer /\ row.wrote = provision[c].wrote
    BY <1>1 DEF IsProvision
  <2> HIDE DEF row
  <2>3. ~HasUser(row)
    BY <1>1, <2>2 DEF HasUser
  <2> QED BY <1>1, <2>1, <2>2, <2>3, ReachStep
<1>3. CASE Existing(c) = {} /\ Answer(c, "conflict")
  <2>1. HoldsAddress(provision[c].identity)
    BY <1>1, <1>3 DEF Taken, Clash, Existing, HoldsAddress
  <2> QED BY <1>1, <1>3, <2>1, AnswerStep
<1> QED BY <1>2, <1>3 DEF FindExisting

LEMMA InsertPartStep ==
  ASSUME AccountsInv, NEW c \in Clients, InsertPart(c)
  PROVE  AccountsInv'
<1>1. PICK next : provision' = [provision EXCEPT ![c].wrote = @ \cup {next}]
  BY DEF InsertPart
<1> DEFINE row == [provision[c] EXCEPT !.wrote = @ \cup {next}]
<1>2. provision' = [provision EXCEPT ![c] = row] /\ UNCHANGED <<accounts, today>>
  BY <1>1 DEF InsertPart
<1>3. IsProvision(provision[c]) /\ provision[c].at = "rest" /\ HasUser(provision[c])
  BY DEF InsertPart, AccountsInv, ProvisionIsSound
<1>4. IsProvision(row) /\ row.at = "rest" /\ row.identity = provision[c].identity
      /\ row.answer = provision[c].answer /\ row.wrote = provision[c].wrote \cup {next}
  BY <1>3 DEF IsProvision
<1> HIDE DEF row
<1>5. HasUser(row)
  BY <1>3, <1>4 DEF HasUser
<1> QED BY <1>2, <1>3, <1>4, <1>5, ReachStep

\* What is committed is whole, and clashes with nothing committed or under way.
LEMMA CommitStep ==
  ASSUME AccountsInv, NEW c \in Clients, CommitAccount(c)
  PROVE  AccountsInv'
<1> DEFINE new == [uid |-> provision[c].identity.uid, email |-> provision[c].identity.email,
                   parts |-> provision[c].wrote, status |-> "active"]
           row == [provision[c] EXCEPT !.at = "resolve", !.wrote = {}]
<1>1. /\ provision[c].at = "rest" /\ provision[c].wrote = Parts /\ accounts' = accounts \cup {new}
      /\ today' = today
  BY DEF CommitAccount, MayCommit
<1>2. ProvisionIsSound(provision[c]) /\ HasUser(provision[c]) /\ ~Taken(provision[c].identity)
  BY <1>1 DEF AccountsInv, ProvisionIsSound
<1>3. provision' = [provision EXCEPT ![c] = row]
  BY DEF CommitAccount, AccountsInv
<1>4. IsProvision(row) /\ row.at = "resolve" /\ row.wrote = {}
      /\ row.identity = provision[c].identity /\ row.answer = provision[c].answer
  BY <1>2 DEF ProvisionIsSound, IsProvision
<1>5. IsAccount(new) /\ new.uid = provision[c].identity.uid /\ new.email = provision[c].identity.email
      /\ new.parts = Parts
  BY <1>1 DEF IsAccount
<1> HIDE DEF new, row
<1>6. /\ provision' = [d \in Clients |-> provision'[d]] /\ provision'[c] = row
      /\ \A d \in Clients : d # c => provision'[d] = provision[d]
  BY <1>3 DEF AccountsInv
<1>7. OneWholeAccount'
  BY <1>1, <1>2, <1>5 DEF AccountsInv, OneWholeAccount, Taken, Clash
<1>8. ASSUME NEW d \in Clients, d # c PROVE ProvisionIsSound(provision[d])'
  <2>1. HasUser(provision[d]) => ~Clash(provision[c].identity, provision[d].identity)
    BY <1>2, <1>8 DEF AccountsInv, UsersDiffer
  <2>2. HasUser(provision[d]) => ~Taken(provision[d].identity)'
    BY <1>1, <1>5, <1>6, <1>8, <2>1 DEF AccountsInv, ProvisionIsSound, Taken, Clash
  <2>3. ProvisionIsSound(provision[d])
    BY DEF AccountsInv
  <2> QED BY <1>1, <1>6, <1>8, <2>2, <2>3
             DEF ProvisionIsSound, Taken, HoldsAddress, HasAccount, HasUser
<1>9. ProvisionIsSound(provision[c])'
  BY <1>1, <1>2, <1>4, <1>6 DEF ProvisionIsSound, HoldsAddress, HasAccount, HasUser
<1>10. UsersDiffer'
  BY <1>4, <1>6 DEF AccountsInv, UsersDiffer, HasUser, Clash
<1> QED BY <1>1, <1>5, <1>6, <1>7, <1>8, <1>9, <1>10 DEF AccountsInv

\* A closed account keeps its uid, its address and its parts.
LEMMA CloseStep ==
  ASSUME AccountsInv, NEW a \in accounts, CloseAccount(a)
  PROVE  AccountsInv'
<1> DEFINE b == [a EXCEPT !.status = "closed"]
<1>1. accounts' = (accounts \ {a}) \cup {b} /\ provision' = provision /\ today' = today
  BY DEF CloseAccount
<1>2. IsAccount(b) /\ b.uid = a.uid /\ b.email = a.email /\ b.parts = a.parts
  BY DEF AccountsInv, IsAccount
<1> HIDE DEF b
<1>3. OneWholeAccount'
  BY <1>1, <1>2 DEF AccountsInv, OneWholeAccount, Clash
<1>4. \A identity : /\ Taken(identity)' <=> Taken(identity)
                    /\ HoldsAddress(identity)' <=> HoldsAddress(identity)
                    /\ HasAccount(identity)' <=> HasAccount(identity)
  BY <1>1, <1>2 DEF Taken, HoldsAddress, HasAccount, Clash
<1>5. \A c \in Clients : ProvisionIsSound(provision[c])'
  BY <1>1, <1>4 DEF AccountsInv, ProvisionIsSound, HasUser
<1>6. UsersDiffer'
  BY <1>1 DEF AccountsInv, UsersDiffer, HasUser
<1> QED BY <1>1, <1>2, <1>3, <1>5, <1>6 DEF AccountsInv

LEMMA AccountsNext == AccountsInv /\ [ProvisioningNext]_provisioningVars => AccountsInv'
<1> SUFFICES ASSUME AccountsInv, [ProvisioningNext]_provisioningVars PROVE AccountsInv'
  OBVIOUS
<1>1. ASSUME NEW c \in Clients, Resolve(c) PROVE AccountsInv'
  <2> DEFINE reply == CASE Existing(c) = {} -> "not provisioned"
                         [] \E a \in Existing(c) : a.status = "active" -> "welcome"
                         [] OTHER -> "unavailable"
  <2>1. /\ Answer(c, reply) /\ reply # "conflict"
        /\ reply \in {"welcome", "unavailable"} => Existing(c) # {}
    BY <1>1 DEF Resolve
  <2> HIDE DEF reply
  <2>2. Existing(c) # {} => HasAccount(provision[c].identity)
    BY DEF Existing, HasAccount
  <2>3. UNCHANGED <<accounts, today>>
    BY <1>1 DEF Resolve
  <2> QED BY <2>1, <2>2, <2>3, AnswerStep
<1>2. ASSUME NEW c \in Clients, AbortProvision(c) PROVE AccountsInv'
  BY <1>2, AnswerStep DEF AbortProvision
<1>3. CASE Midnight \/ UNCHANGED provisioningVars
  <2>1. accounts' = accounts /\ provision' = provision /\ today' \in Days
    BY <1>3 DEF Midnight, provisioningVars, AccountsInv
  <2> QED BY <2>1 DEF AccountsInv, ProvisionIsSound, UsersDiffer, OneWholeAccount, HasUser, Taken,
                      HoldsAddress, HasAccount
<1> QED BY <1>1, <1>2, <1>3, StartStep, InsertUserStep, FindExistingStep, InsertPartStep, CommitStep,
           CloseStep DEF ProvisioningNext

LEMMA AccountsInvariance == ProvisioningSpec => []AccountsInv
BY AccountsInit, AccountsNext, PTL DEF ProvisioningSpec

\* However many provisioning requests race, with whatever identities: accounts
\* are whole and hold their uid and address alone, and each answer is true.
THEOREM OneAccountEach == ProvisioningSpec => []AccountsAreWhole
<1>1. AccountsInv => AccountsAreWhole
  BY DEF AccountsInv, AccountsAreWhole, AnswersAreTrue, ProvisionIsSound, HoldsAddress, HasAccount
<1> QED BY AccountsInvariance, <1>1, PTL

\* Nothing is asked of a 29 February but that it is the 229th of its numbers.
LEMMA Birthdays ==
  ASSUME NEW day \in Int, day % 10000 \notin 230 .. 300, ~IsImpossible(day),
         NEW dob \in Int, ~IsImpossible(dob)
  PROVE  DateUTC(dob + 180000) <= day <=> dob <= MinusInterval(day, 18)
<1> DEFINE n == dob + 180000
           then == day - 180000
<1>1. /\ IsImpossible(n) => n % 10000 = 229
      /\ IsImpossible(then) => then % 10000 = 229
  BY DEF IsImpossible
<1>2. n \in Int /\ then \in Int /\ then = day - 10000 * 18 /\ n % 10000 = dob % 10000
      /\ then % 10000 = day % 10000
  OBVIOUS
<1>3. CASE IsImpossible(n)
  <2>1. n % 10000 = 229 /\ n # day
    BY <1>1, <1>3
  <2>2. n <= day => n + 72 <= day
    BY <1>2, <2>1
  <2>3. DateUTC(n) = n + 72
    BY <1>3 DEF DateUTC
  <2>4. DateUTC(n) <= day <=> dob < then
    BY <2>1, <2>2, <2>3
  <2>5. MinusInterval(day, 18) \in {then, then - 1}
    BY <1>2 DEF MinusInterval
  <2>6. MinusInterval(day, 18) = then - 1 /\ dob < then => dob <= then - 1
    OBVIOUS
  <2> QED BY <1>2, <2>1, <2>4, <2>5, <2>6
<1>4. CASE ~IsImpossible(n)
  <2>1. DateUTC(n) <= day <=> dob <= then
    BY <1>4 DEF DateUTC
  <2>2. CASE IsImpossible(then)
    <3>1. MinusInterval(day, 18) = then - 1
      BY <1>2, <2>2 DEF MinusInterval
    <3>2. dob # then
      BY <2>2
    <3> QED BY <2>1, <3>1, <3>2
  <2>3. CASE ~IsImpossible(then)
    <3>1. MinusInterval(day, 18) = then
      BY <1>2, <2>3 DEF MinusInterval
    <3> QED BY <2>1, <3>1
  <2> QED BY <2>2, <2>3
<1> QED BY <1>3, <1>4

\* The check at registration and the constraint of the table agree about every
\* date of birth on every day the calendar has, for any set of days the clock
\* may reach.
THEOREM OneAge == ProvisioningSpec => []AgeRulesAgree
<1>1. AccountsInv => AgeRulesAgree
  <2> SUFFICES ASSUME AccountsInv,
                      NEW dob \in Births \cup Days \cup {d - 180000 : d \in Days}
                                  \cup {19000101, 19000102},
                      ~IsImpossible(dob)
      PROVE  EligibleDateOfBirth(dob) <=> dob <= today /\ AcceptedByTable(dob)
    BY DEF AgeRulesAgree
  <2>1. today \in Days /\ today \in Int /\ dob \in Int
    BY ProvisioningAssumption DEF AccountsInv
  <2>2. today % 10000 \notin 230 .. 300 /\ ~IsImpossible(today)
    BY <2>1, CalendarAssumption
  <2>3. DateUTC(dob + 180000) <= today <=> dob <= MinusInterval(today, 18)
    BY <2>1, <2>2, Birthdays
  <2> QED BY <2>3 DEF EligibleDateOfBirth, AcceptedByTable
<1> QED BY AccountsInvariance, <1>1, PTL

-----------------------------------------------------------------------------
(* Reviews.                                                                *)

IsPost(p) == p = [f \in {"at", "key", "state", "counted", "alone"} |-> p[f]]

\* Past the lock and the check of the evidence; with the row written, not yet seen.
Admitted(p) == p.at \in {"insert", "trigger", "project", "commit"}
Wrote(p) == p.at \in {"trigger", "project", "commit"}

\* A poster whose row is written has the only one with its key, and moderation
\* decides about a review that is there.
PostIsSound(w, p) ==
  /\ IsPost(p)
  /\ p.at = "idle" \/ p.at = "lock" \/ Admitted(p)
  /\ p.at # "idle" => p.key \in Keys
  /\ Admitted(p) => "ATTENDED" \in Attendance[p.key.traveller]
  /\ p.at = "commit" => p.key.by # "TRAVELLER"
  /\ w \notin Moderators /\ Wrote(p) => Vacant(p.key)
  /\ w \in Moderators /\ p.at # "idle" => Wrote(p) /\ \E r \in reviews : r.key = p.key

\* The lock lets one poster of a key in, and a row is one moderator's at a time.
OwnKey(w, p) ==
  \A S \in {Posters, Moderators} : w \in S /\ Admitted(p) =>
    \A v \in S \ {w} : Admitted(post[v]) => post[v].key # p.key

KeysDiffer == \A w \in ReviewWriters : OwnKey(w, post[w])

\* Nothing overlaps a transaction that is still alone, so what its trigger
\* counted is what it will commit.
NothingOverlaps ==
  \A v, w \in ReviewWriters : v # w /\ Posting(w) /\ post[w].alone => ~Posting(v)

CountHolds ==
  \A w \in ReviewWriters :
    post[w].at = "project" /\ post[w].alone => post[w].counted = CountedOf(Changed(w))

ReviewsInv ==
  /\ post = [w \in ReviewWriters |-> post[w]]
  /\ \A r \in reviews : r.key \in Keys
  /\ \A w \in ReviewWriters : PostIsSound(w, post[w])
  /\ KeysDiffer /\ NothingOverlaps /\ CountHolds
  /\ ReviewsAreSound

LEMMA ReviewsInvInit == ReviewsInit => ReviewsInv
<1> SUFFICES ASSUME ReviewsInit PROVE ReviewsInv
  OBVIOUS
<1>1. IsPost(NoPost) /\ NoPost.at = "idle"
  BY DEF NoPost, IsPost
<1>2. \A w \in ReviewWriters : post[w] = NoPost
  BY DEF ReviewsInit
<1>4. \A w \in ReviewWriters : PostIsSound(w, post[w])
  BY <1>1, <1>2 DEF PostIsSound, Admitted, Wrote
<1>5. KeysDiffer /\ NothingOverlaps /\ CountHolds
  BY <1>1, <1>2 DEF KeysDiffer, OwnKey, NothingOverlaps, CountHolds, Admitted, Posting
<1>6. ReviewsAreSound
  BY DEF ReviewsInit, ReviewsAreSound, ReviewsAreEarnedOnce, RatingHeals, ApprovedReviews
<1> QED BY <1>4, <1>5, <1>6 DEF ReviewsInit, ReviewsInv

\* A step of one transaction that commits nothing; the others may have to know
\* that it overlaps them.
LEMMA PostStep ==
  ASSUME ReviewsInv, NEW w \in ReviewWriters, UNCHANGED <<reviews, rating, lastAlone>>,
         DOMAIN post' = ReviewWriters, post' = [v \in ReviewWriters |-> post'[v]],
         PostIsSound(w, post'[w]),
         \A v \in ReviewWriters \ {w} :
           /\ IsPost(post'[v])
           /\ post'[v].at = post[v].at /\ post'[v].key = post[v].key
           /\ post'[v].state = post[v].state /\ post'[v].counted = post[v].counted
           /\ post'[v].alone /\ Posting(v) => post[v].alone /\ ~Posting(w)',
         Posting(w)' /\ post'[w].alone => \A v \in ReviewWriters \ {w} : ~Posting(v),
         OwnKey(w, post'[w]),
         post'[w].at = "project" /\ post'[w].alone => post'[w].counted = CountedOf(Changed(w)')
  PROVE  ReviewsInv'
<1>1. reviews' = reviews /\ rating' = rating /\ lastAlone' = lastAlone
  OBVIOUS
<1>2. \A v \in ReviewWriters : PostIsSound(v, post[v])'
  BY <1>1 DEF ReviewsInv, PostIsSound, Admitted, Wrote, Vacant
<1>3. KeysDiffer'
  <2>1. Posters \subseteq ReviewWriters /\ Moderators \subseteq ReviewWriters
    BY DEF ReviewWriters
  <2>2. \A v \in ReviewWriters \ {w} :
          post'[v].key = post[v].key /\ (Admitted(post'[v]) <=> Admitted(post[v]))
    BY DEF Admitted
  <2> SUFFICES ASSUME NEW S \in {Posters, Moderators}, NEW u \in S, NEW v \in S, u # v,
                      Admitted(post'[u]), Admitted(post'[v])
      PROVE  post'[u].key # post'[v].key
    BY DEF KeysDiffer, OwnKey, Admitted
  <2>3. CASE u # w /\ v # w
    <3>1. /\ post'[u].key = post[u].key /\ Admitted(post[u])
          /\ post'[v].key = post[v].key /\ Admitted(post[v])
      BY <2>1, <2>2, <2>3
    <3>2. OwnKey(u, post[u])
      BY <2>1 DEF ReviewsInv, KeysDiffer
    <3> QED BY <3>1, <3>2 DEF OwnKey
  <2>4. CASE u = w \/ v = w
    BY <2>1, <2>2, <2>4 DEF OwnKey
  <2> QED BY <2>3, <2>4
<1>4. NothingOverlaps'
  BY DEF ReviewsInv, NothingOverlaps, Posting
<1>5. CountHolds'
  <2>1. \A v \in ReviewWriters \ {w} : Changed(v)' = Changed(v)
    BY <1>1 DEF Changed
  <2>2. \A v \in ReviewWriters : CountedOf(Changed(v))' = CountedOf(Changed(v)')
    BY DEF CountedOf, Counts
  <2>3. \A v \in ReviewWriters \ {w} :
          post'[v].at = "project" /\ post'[v].alone => post[v].at = "project" /\ post[v].alone
    BY DEF Posting
  <2>4. ASSUME NEW v \in ReviewWriters, post'[v].at = "project", post'[v].alone
        PROVE  post'[v].counted = CountedOf(Changed(v)')
    <3>1. CASE v = w
      BY <2>4, <3>1
    <3>2. CASE v # w
      BY <2>1, <2>3, <2>4, <3>2 DEF ReviewsInv, CountHolds
    <3> QED BY <3>1, <3>2
  <2> QED BY <2>2, <2>4 DEF CountHolds
<1>6. ReviewsAreSound'
  BY <1>1 DEF ReviewsInv, ReviewsAreSound, ReviewsAreEarnedOnce, RatingHeals, ApprovedReviews
<1> QED BY <1>1, <1>2, <1>3, <1>4, <1>5, <1>6 DEF ReviewsInv

\* A request, or a decision of moderation, begins.
LEMMA StartPostStep ==
  ASSUME ReviewsInv, NEW w \in ReviewWriters, NEW at, NEW key \in Keys, NEW state,
         StartPost(w, at, key, state),
         \/ w \notin Moderators /\ at = "lock"
         \/ /\ w \in Moderators /\ at = "trigger" /\ \E r \in reviews : r.key = key
            /\ \A v \in Moderators : Posting(v) => post[v].key # key
  PROVE  ReviewsInv'
<1> DEFINE first == [NoPost EXCEPT !.at = at, !.key = key, !.state = state,
                                   !.alone = \A u \in ReviewWriters : ~Posting(u)]
<1>1. /\ UNCHANGED <<reviews, rating, lastAlone>> /\ DOMAIN post' = ReviewWriters
      /\ post' = [v \in ReviewWriters |-> post'[v]]
      /\ post'[w] = first
      /\ \A v \in ReviewWriters \ {w} : post'[v] = [post[v] EXCEPT !.alone = ~Posting(v)]
  BY DEF StartPost
<1>2. IsPost(first) /\ first.at = at /\ first.key = key /\ first.state = state
      /\ first.alone = \A u \in ReviewWriters : ~Posting(u)
  BY DEF NoPost, IsPost
<1> HIDE DEF first
<1>3. \A v \in ReviewWriters \ {w} :
        /\ IsPost(post'[v])
        /\ post'[v].at = post[v].at /\ post'[v].key = post[v].key
        /\ post'[v].state = post[v].state /\ post'[v].counted = post[v].counted
        /\ post'[v].alone = ~Posting(v)
  BY <1>1 DEF ReviewsInv, PostIsSound, IsPost
<1>4. PostIsSound(w, first)
  BY <1>2 DEF ReviewsInv, ReviewsAreSound, ReviewsAreEarnedOnce, PostIsSound, Admitted, Wrote
<1>5. at # "project" /\ OwnKey(w, first)
  BY <1>2, ReviewsAssumption DEF OwnKey, Admitted, Posting, ReviewWriters
<1> QED BY <1>1, <1>2, <1>3, <1>4, <1>5, PostStep DEF Posting

\* A transaction goes on to its next statement, or ends without a COMMIT.
LEMMA AdvanceStep ==
  ASSUME ReviewsInv, NEW w \in ReviewWriters, NEW row, post' = [post EXCEPT ![w] = row],
         UNCHANGED <<reviews, rating, lastAlone>>, PostIsSound(w, row),
         Posting(w) /\ (row.at # "idle" => row.key = post[w].key /\ row.alone = post[w].alone),
         OwnKey(w, row),
         row.at = "project" => row.counted = CountedOf(Changed(w)')
  PROVE  ReviewsInv'
<1>1. /\ DOMAIN post' = ReviewWriters /\ post' = [v \in ReviewWriters |-> post'[v]]
      /\ post'[w] = row /\ \A v \in ReviewWriters \ {w} : post'[v] = post[v]
  BY DEF ReviewsInv
<1>2. \A v \in ReviewWriters \ {w} : IsPost(post[v]) /\ (post[v].alone => ~Posting(v))
  BY DEF ReviewsInv, PostIsSound, NothingOverlaps, Posting
<1>3. Posting(w)' /\ post'[w].alone => \A v \in ReviewWriters \ {w} : ~Posting(v)
  BY <1>1 DEF ReviewsInv, NothingOverlaps, Posting
<1> QED BY <1>1, <1>2, <1>3, PostStep

\* What ends in a row of NoPost.
LEMMA ReplyStep ==
  ASSUME ReviewsInv, NEW w \in ReviewWriters, Reply(w), Posting(w),
         UNCHANGED <<reviews, rating, lastAlone>>
  PROVE  ReviewsInv'
<1>1. IsPost(NoPost) /\ NoPost.at = "idle"
  BY DEF NoPost, IsPost
<1>2. PostIsSound(w, NoPost) /\ OwnKey(w, NoPost)
  BY <1>1 DEF PostIsSound, OwnKey, Admitted, Wrote
<1>3. post' = [post EXCEPT ![w] = NoPost]
  BY DEF Reply
<1> QED BY <1>1, <1>2, <1>3, AdvanceStep

LEMMA LockAndCheckStep ==
  ASSUME ReviewsInv, NEW w \in ReviewWriters, LockAndCheck(w)
  PROVE  ReviewsInv'
<1>1. /\ post[w].at = "lock" /\ Posting(w) /\ UNCHANGED <<reviews, rating, lastAlone>>
      /\ PostIsSound(w, post[w]) /\ w \notin Moderators
      /\ \A v \in ReviewWriters \ {w} : post[v].key = post[w].key => post[v].at \in {"idle", "lock"}
  BY DEF LockAndCheck, Posting, ReviewsInv, PostIsSound, Wrote
<1>2. PICK status \in RowsOf(post[w].key.traveller) :
        IF Evidence(status) = "CONFIRMED" THEN Advance(w, "insert") ELSE Reply(w)
  BY DEF LockAndCheck
<1>3. CASE Evidence(status) = "CONFIRMED"
  <2> DEFINE row == [post[w] EXCEPT !.at = "insert"]
  <2>1. "ATTENDED" \in Attendance[post[w].key.traveller]
    BY <1>2, <1>3 DEF Evidence, RowsOf
  <2>2. post' = [post EXCEPT ![w] = row]
    BY <1>2, <1>3 DEF Advance
  <2>3. /\ IsPost(row) /\ row.at = "insert" /\ row.key = post[w].key
        /\ row.alone = post[w].alone
    BY <1>1 DEF PostIsSound, IsPost
  <2> HIDE DEF row
  <2>4. PostIsSound(w, row)
    BY <1>1, <2>1, <2>3 DEF PostIsSound, Admitted, Wrote
  <2>5. OwnKey(w, row)
    BY <1>1, <2>3 DEF OwnKey, Admitted, ReviewWriters
  <2> QED BY <1>1, <2>2, <2>3, <2>4, <2>5, AdvanceStep
<1>4. CASE Reply(w)
  BY <1>1, <1>4, ReplyStep
<1> QED BY <1>2, <1>3, <1>4

\* Whoever is admitted keeps the key to itself.
LEMMA AdmittedAlone ==
  ASSUME ReviewsInv, NEW w \in ReviewWriters, Admitted(post[w]), NEW row, row.key = post[w].key
  PROVE  OwnKey(w, row)
BY DEF ReviewsInv, KeysDiffer, OwnKey

LEMMA InsertReviewStep ==
  ASSUME ReviewsInv, NEW w \in ReviewWriters, InsertReview(w)
  PROVE  ReviewsInv'
<1>1. /\ post[w].at = "insert" /\ Posting(w) /\ UNCHANGED <<reviews, rating, lastAlone>>
      /\ PostIsSound(w, post[w]) /\ w \notin Moderators /\ Admitted(post[w])
  BY DEF InsertReview, Posting, ReviewsInv, PostIsSound, Wrote, Admitted
<1>2. CASE Vacant(post[w].key) /\ Advance(w, "trigger")
  <2> DEFINE row == [post[w] EXCEPT !.at = "trigger"]
  <2>1. post' = [post EXCEPT ![w] = row]
    BY <1>2 DEF Advance
  <2>2. /\ IsPost(row) /\ row.at = "trigger" /\ row.key = post[w].key
        /\ row.alone = post[w].alone
    BY <1>1 DEF PostIsSound, IsPost
  <2> HIDE DEF row
  <2>3. PostIsSound(w, row)
    BY <1>1, <1>2, <2>2 DEF PostIsSound, Admitted, Wrote
  <2> QED BY <1>1, <2>1, <2>2, <2>3, AdmittedAlone, AdvanceStep
<1>3. CASE Reply(w)
  BY <1>1, <1>3, ReplyStep
<1> QED BY <1>2, <1>3 DEF InsertReview

\* The trigger counts the reviews as they will be if nobody commits before.
LEMMA TriggerStep ==
  ASSUME ReviewsInv, NEW w \in ReviewWriters, RunTrigger(w)
  PROVE  ReviewsInv'
<1> DEFINE at == IF post[w].key.by = "TRAVELLER" THEN "project" ELSE "commit"
           counted == CountedOf(Changed(w))
           row == [post[w] EXCEPT !.at = at, !.counted = counted]
<1>1. /\ post[w].at = "trigger" /\ Posting(w) /\ UNCHANGED <<reviews, rating, lastAlone>>
      /\ PostIsSound(w, post[w]) /\ Admitted(post[w]) /\ Wrote(post[w])
  BY DEF RunTrigger, Posting, ReviewsInv, Admitted, Wrote
<1>2. post' = [post EXCEPT ![w] = row]
  BY DEF RunTrigger, ReviewsInv
<1>3. at = "project" \/ (at = "commit" /\ post[w].key.by # "TRAVELLER")
  OBVIOUS
<1> HIDE DEF at, counted
<1>4. /\ IsPost(row) /\ row.at = at /\ row.key = post[w].key /\ row.state = post[w].state
      /\ row.alone = post[w].alone /\ row.counted = counted
  BY <1>1 DEF PostIsSound, IsPost
<1> HIDE DEF row
<1>5. PostIsSound(w, row)
  BY <1>1, <1>3, <1>4 DEF PostIsSound, Admitted, Wrote
<1>6. Changed(w)' = Changed(w)
  <2>1. post'[w] = row
    BY <1>2 DEF ReviewsInv
  <2> QED BY <1>1, <1>4, <2>1 DEF Changed
<1>7. row.counted = CountedOf(Changed(w)')
  BY <1>4, <1>6 DEF counted
<1>8. OwnKey(w, row)
  BY <1>1, <1>4, AdmittedAlone
<1> QED BY <1>1, <1>2, <1>4, <1>5, <1>7, <1>8, AdvanceStep

\* The reviews after a COMMIT, and what they count.
LEMMA ChangedFacts ==
  ASSUME ReviewsInv, NEW w \in ReviewWriters, Wrote(post[w])
  PROVE  /\ \A r \in Changed(w) : r \in reviews \/ r.key = post[w].key
         /\ \A r \in reviews : r.key # post[w].key => r \in Changed(w)
         /\ \A r, s \in Changed(w) : r.key = s.key => r = s
<1> DEFINE new == [key |-> post[w].key, state |-> post[w].state]
<1>1. new.key = post[w].key
  OBVIOUS
<1> HIDE DEF new
<1>2. Changed(w) \subseteq {r \in reviews : w \in Moderators => r.key # post[w].key} \cup {new}
  BY DEF Changed, new
<1>3. {r \in reviews : w \in Moderators => r.key # post[w].key} \subseteq Changed(w)
  BY DEF Changed
<1>4. \A r, s \in reviews : r.key = s.key => r = s
  BY DEF ReviewsInv, ReviewsAreSound, ReviewsAreEarnedOnce
<1>5. w \notin Moderators => \A r \in reviews : r.key # post[w].key
  BY DEF ReviewsInv, PostIsSound, Vacant
<1> QED BY <1>1, <1>2, <1>3, <1>4, <1>5

\* The reviews change, and what was counted for the rating is written.
LEMMA CommitReviewStep ==
  ASSUME ReviewsInv, NEW w \in ReviewWriters, CommitReview(w)
  PROVE  ReviewsInv'
<1>1. /\ post[w].at \in {"project", "commit"} /\ Posting(w) /\ reviews' = Changed(w)
      /\ PostIsSound(w, post[w]) /\ Admitted(post[w]) /\ Wrote(post[w])
      /\ post' = [post EXCEPT ![w] = NoPost]
  BY DEF CommitReview, Reply, Posting, ReviewsInv, Admitted, Wrote
<1>2. /\ post' = [v \in ReviewWriters |-> post'[v]]
      /\ post'[w] = NoPost /\ \A v \in ReviewWriters \ {w} : post'[v] = post[v]
  BY <1>1 DEF ReviewsInv
<1>3. IsPost(NoPost) /\ NoPost.at = "idle"
  BY DEF NoPost, IsPost
<1>4. post[w].key \in Keys /\ "ATTENDED" \in Attendance[post[w].key.traveller]
  BY <1>1 DEF PostIsSound
<1>5. \A r \in reviews' : r.key \in Keys
  BY <1>1, <1>4, ChangedFacts DEF ReviewsInv
<1>6. ReviewsAreEarnedOnce'
  BY <1>1, <1>4, ChangedFacts DEF ReviewsInv, ReviewsAreSound, ReviewsAreEarnedOnce
<1>7. ASSUME NEW v \in ReviewWriters, v # w PROVE PostIsSound(v, post[v])'
  <2>1. PostIsSound(v, post[v]) /\ post'[v] = post[v]
    BY <1>2, <1>7 DEF ReviewsInv
  <2>2. v \notin Moderators /\ Wrote(post[v]) => Vacant(post[v].key)'
    <3> SUFFICES ASSUME v \notin Moderators, Wrote(post[v]), NEW r \in reviews'
        PROVE  r.key # post[v].key
      BY <2>1 DEF Vacant
    <3>1. Vacant(post[v].key) /\ Admitted(post[v])
      BY <2>1 DEF PostIsSound, Admitted, Wrote
    <3>2. post[w].key # post[v].key
      <4>1. CASE w \in Moderators
        BY <1>1, <3>1, <4>1 DEF PostIsSound, Vacant
      <4>2. CASE w \notin Moderators
        BY <1>1, <1>7, <3>1, <4>2 DEF ReviewsInv, KeysDiffer, OwnKey, ReviewWriters
      <4> QED BY <4>1, <4>2
    <3> QED BY <1>1, <3>1, <3>2, ChangedFacts DEF Vacant
  <2>3. v \in Moderators /\ post[v].at # "idle" => \E r \in reviews' : r.key = post[v].key
    <3> SUFFICES ASSUME v \in Moderators, post[v].at # "idle"
        PROVE  \E r \in reviews' : r.key = post[v].key
      OBVIOUS
    <3>1. PICK r \in reviews : r.key = post[v].key
      BY <2>1 DEF PostIsSound
    <3>2. post[w].key # post[v].key
      <4>1. CASE w \in Moderators
        BY <1>1, <1>7, <2>1, <4>1 DEF PostIsSound, Admitted, Wrote, ReviewsInv, KeysDiffer, OwnKey
      <4>2. CASE w \notin Moderators
        BY <1>1, <3>1, <4>2 DEF PostIsSound, Vacant
      <4> QED BY <4>1, <4>2
    <3> QED BY <1>1, <3>1, <3>2, ChangedFacts
  <2> QED BY <2>1, <2>2, <2>3 DEF PostIsSound, Admitted, Wrote
<1>8. PostIsSound(w, post[w])'
  BY <1>2, <1>3 DEF PostIsSound, Admitted, Wrote
<1>9. KeysDiffer' /\ NothingOverlaps'
  <2>1. /\ ~Admitted(NoPost) /\ KeysDiffer /\ NothingOverlaps
        /\ \A S \in {Posters, Moderators} : S \subseteq ReviewWriters
    BY <1>3 DEF Admitted, ReviewsInv, ReviewWriters
  <2>2. KeysDiffer'
    BY <1>2, <2>1 DEF KeysDiffer, OwnKey, Admitted
  <2>3. NothingOverlaps'
    BY <1>2, <1>3, <2>1 DEF NothingOverlaps, Posting
  <2> QED BY <2>2, <2>3
<1>10. CountHolds'
  <2>1. \A v \in ReviewWriters : post'[v].at = "project" => v # w /\ Posting(v)
    BY <1>2, <1>3 DEF Posting
  <2>2. \A v \in ReviewWriters : post'[v].at = "project" => ~post'[v].alone
    BY <1>1, <1>2, <2>1 DEF ReviewsInv, NothingOverlaps
  <2> QED BY <2>2 DEF CountHolds
<1>11. RatingHeals'
  <2>1. ApprovedReviews' = CountedOf(Changed(w))
    BY <1>1 DEF ApprovedReviews, CountedOf, Counts
  <2>2. CASE post[w].at = "project"
    <3>1. rating' = post[w].counted /\ lastAlone' = post[w].alone
      BY <2>2 DEF CommitReview
    <3> QED BY <2>1, <2>2, <3>1 DEF ReviewsInv, CountHolds, RatingHeals
  <2>3. CASE post[w].at = "commit"
    <3>1. rating' = rating /\ lastAlone' = lastAlone
      BY <2>3 DEF CommitReview
    <3>2. post[w].key.by # "TRAVELLER"
      BY <1>1, <2>3 DEF PostIsSound
    <3>3. CountedOf(Changed(w)) = ApprovedReviews
      <4>1. \A r \in Changed(w) : Counts(r) => r \in reviews
        BY <1>1, <3>2, ChangedFacts DEF Counts
      <4>2. \A r \in reviews : Counts(r) => r \in Changed(w)
        BY <1>1, <3>2, ChangedFacts DEF Counts
      <4> QED BY <4>1, <4>2 DEF CountedOf, ApprovedReviews, Counts
    <3> QED BY <2>1, <3>1, <3>3 DEF ReviewsInv, ReviewsAreSound, RatingHeals
  <2> QED BY <1>1, <2>2, <2>3
<1> QED BY <1>2, <1>5, <1>6, <1>7, <1>8, <1>9, <1>10, <1>11 DEF ReviewsInv, ReviewsAreSound

LEMMA ReviewsInvNext == ReviewsInv /\ [ReviewsNext]_reviewsVars => ReviewsInv'
<1> SUFFICES ASSUME ReviewsInv, [ReviewsNext]_reviewsVars PROVE ReviewsInv'
  OBVIOUS
<1>1. CASE UNCHANGED reviewsVars
  <2>1. post' = post /\ reviews' = reviews /\ rating' = rating /\ lastAlone' = lastAlone
    BY <1>1 DEF reviewsVars
  <2>2. CountHolds'
    BY <2>1 DEF ReviewsInv, CountHolds, CountedOf, Counts, Changed
  <2> QED BY <2>1, <2>2
          DEF ReviewsInv, PostIsSound, Vacant, KeysDiffer, OwnKey, NothingOverlaps, Posting,
              ReviewsAreSound, ReviewsAreEarnedOnce, RatingHeals, ApprovedReviews
<1>2. ASSUME NEW w \in Posters, NEW key \in Keys, CreateReview(w, key) PROVE ReviewsInv'
  BY <1>2, StartPostStep, ReviewsAssumption DEF CreateReview, ReviewWriters
<1>3. ASSUME NEW w \in Moderators, NEW r \in reviews, NEW state, ModerateReview(w, r, state)
      PROVE  ReviewsInv'
  <2>1. r.key \in Keys /\ w \in ReviewWriters
    BY DEF ReviewsInv, ReviewWriters
  <2> QED BY <1>3, <2>1, StartPostStep DEF ModerateReview
<1>4. ASSUME NEW w \in ReviewWriters, RollbackReview(w) PROVE ReviewsInv'
  BY <1>4, ReplyStep DEF RollbackReview
<1> QED BY <1>1, <1>2, <1>3, <1>4, LockAndCheckStep, InsertReviewStep, TriggerStep,
           CommitReviewStep DEF ReviewsNext

\* For any number of posters and moderators at once, a
\* review is stored once for its key and about an event the traveller attended, and
\* the rating is that of the approved reviews as far as its last writer ran alone.
THEOREM ReviewsStaySound == ReviewsSpec => []ReviewsAreSound
<1>1. ReviewsInv => ReviewsAreSound
  BY DEF ReviewsInv
<1> QED BY ReviewsInvInit, ReviewsInvNext, <1>1, PTL DEF ReviewsSpec

-----------------------------------------------------------------------------
(* Settings and consents.                                                  *)

IsSettings(row) ==
  /\ row = [f \in Fields |-> row[f]]
  /\ row.discovery \in BOOLEAN /\ row.ghost \in BOOLEAN /\ row.until \in Int

IsPatch(patch) ==
  /\ "discovery" \in DOMAIN patch => patch.discovery \in BOOLEAN
  /\ "ghost" \in DOMAIN patch => patch.ghost \in BOOLEAN
  /\ "until" \in DOMAIN patch => patch.until \in Int

CallFields == {"kind", "at", "patch", "wants", "row", "type", "granted", "version", "stamp", "started"}

\* A request, and which statements each kind goes through.
IsCall(r) ==
  /\ r = [f \in CallFields |-> r[f]]
  /\ r.at # "idle" =>
       \/ /\ r.kind = "update" /\ r.at \in {"lock", "check", "row", "save", "refuse"}
          /\ IsPatch(r.patch)
       \/ /\ r.kind = "record" /\ r.at \in {"lock", "insert", "off", "commit"}
          /\ r.type \in ConsentTypes /\ r.granted \in BOOLEAN
          /\ r.at = "off" => ~r.granted
       \/ r.kind = "get" /\ r.at = "expire"

\* The advisory locks a request needs, and those it has by now.
Needs(r) ==
  {t \in ConsentTypes : \/ r.kind = "update" /\ t \in LocksFor(r.patch)
                        \/ r.kind = "record" /\ t = r.type}
Locked(r) == {t \in Needs(r) : r.at # "idle" /\ (r.at = "lock" => t \notin r.wants)}

\* Who has the settings row.
HasRow(r) ==
  \/ r.kind = "update" /\ r.at \in {"save", "refuse"}
  \/ r.kind = "record" /\ r.at = "commit" /\ ~r.granted

LocksAreHeld ==
  /\ \A h \in Callers : \A t \in Locked(request[h]) : typeLock[t] = h
  /\ \A h \in Callers : HasRow(request[h]) => rowLock = h

\* The settings as they were read, but for a Ghost Mode that had expired.
StillRead(row) ==
  /\ IsSettings(row)
  /\ \A f \in Fields \ {"ghost", "until"} : row[f] = settings[f]
  /\ \/ row.ghost = settings.ghost /\ row.until = settings.until
     \/ Expired(settings) /\ row.ghost = FALSE /\ row.until = Never

\* What a request has found out and is still so.
CallIsSound(r) ==
  /\ IsCall(r)
  /\ r.at = "lock" => r.wants # {} /\ r.wants \subseteq Needs(r)
  /\ r.kind = "update" /\ r.at \in {"row", "save"} =>
       \A t \in LocksFor(r.patch) : consent[t].granted
  /\ r.kind = "update" /\ r.at = "save" => StillRead(r.row)
  /\ r.kind = "record" /\ r.at \in {"off", "commit"} =>
       r.stamp \in Int /\ r.stamp > consent[r.type].at

DiscoveryTypes ==
  /\ IsSettings(settings) /\ (~settings.ghost => settings.until = Never)
  /\ now \in Int /\ account \in {"active", "restricted", "suspended"}
  /\ consent = [t \in ConsentTypes |-> consent[t]]
  /\ decided = [t \in ConsentTypes |-> decided[t]]
  /\ \A t \in ConsentTypes : consent[t].at \in Int
  /\ typeLock = [t \in ConsentTypes |-> typeLock[t]]
  /\ request = [h \in Callers |-> request[h]]

\* The row of a consent that counts is the decision taken last.
LatestIsLast == \A t \in ConsentTypes : consent[t].granted = decided[t]

DiscoveryInv ==
  /\ DiscoveryTypes /\ LocksAreHeld
  /\ \A h \in Callers : CallIsSound(request[h])
  /\ LatestIsLast /\ DiscoveryNeedsConsent

LEMMA NoRequestFacts ==
  /\ CallIsSound(NoRequest) /\ Locked(NoRequest) = {} /\ ~HasRow(NoRequest)
  /\ NoRequest.at = "idle" /\ NoRequest.kind = "none" /\ IsSettings(NoRequest.row)
  /\ NoRequest.row.discovery = TRUE /\ NoRequest.row.ghost = FALSE /\ NoRequest.row.until = Never
<1>1. NoRequest.at = "idle" /\ NoRequest.kind = "none" /\ IsCall(NoRequest)
  BY DEF NoRequest, IsCall, CallFields
<1>2. NoRequest.row = [discovery |-> TRUE, ghost |-> FALSE, until |-> Never, minAge |-> 1, maxAge |-> 2]
  BY DEF NoRequest
<1> QED BY <1>1, <1>2 DEF CallIsSound, Locked, HasRow, IsSettings, Fields, Never

LEMMA DiscoveryInvInit == DiscoveryInit => DiscoveryInv
<1> SUFFICES ASSUME DiscoveryInit PROVE DiscoveryInv
  OBVIOUS
<1>1. /\ settings = NoRequest.row /\ \A h \in Callers : request[h] = NoRequest
      /\ \A t \in ConsentTypes : consent[t] = [granted |-> TRUE, version |-> 1, at |-> 0]
      /\ \A t \in ConsentTypes : decided[t] = TRUE
  BY DEF DiscoveryInit
<1>2. DiscoveryTypes
  BY <1>1, NoRequestFacts DEF DiscoveryInit, DiscoveryTypes
<1>3. LocksAreHeld
  BY <1>1, NoRequestFacts DEF LocksAreHeld
<1>4. LatestIsLast /\ DiscoveryNeedsConsent
  <2>1. \A t \in ConsentTypes : consent[t].granted = TRUE
    BY <1>1
  <2>2. LatestIsLast
    BY <1>1, <2>1 DEF LatestIsLast
  <2>3. DiscoveryNeedsConsent
    BY <1>1, <2>1, Zenon DEF DiscoveryNeedsConsent
  <2> QED BY <2>2, <2>3
<1>5. ASSUME NEW h \in Callers PROVE CallIsSound(request[h])
  <2>1. request[h] = NoRequest
    BY <1>1
  <2> QED BY <2>1, NoRequestFacts
<1> QED BY <1>2, <1>3, <1>4, <1>5 DEF DiscoveryInv

\* What a step may do to a request and its locks while no consent is decided
\* and no settings are written.
LEMMA CallStep ==
  ASSUME DiscoveryInv, NEW h \in Callers, NEW row, Becomes(h, row), CallIsSound(row),
         UNCHANGED <<settings, consent, decided, account, now>>,
         DOMAIN typeLock' = ConsentTypes, typeLock' = [t \in ConsentTypes |-> typeLock'[t]],
         \A t \in ConsentTypes : typeLock'[t] = typeLock[t] \/ typeLock[t] \in {h, NoCaller},
         rowLock' = rowLock \/ rowLock \in {h, NoCaller},
         \A t \in Locked(row) : typeLock'[t] = h,
         HasRow(row) => rowLock' = h
  PROVE  DiscoveryInv'
<1>1. /\ settings' = settings /\ consent' = consent /\ decided' = decided
      /\ account' = account /\ now' = now
  OBVIOUS
<1>2. /\ request' = [g \in Callers |-> request'[g]] /\ request'[h] = row
      /\ \A g \in Callers : g # h => request'[g] = request[g]
  BY DEF Becomes, DiscoveryInv, DiscoveryTypes
<1>3. DiscoveryTypes'
  BY <1>1, <1>2 DEF DiscoveryInv, DiscoveryTypes
<1>4. ASSUME NEW g \in Callers, g # h
      PROVE  /\ \A t \in Locked(request[g]) : typeLock'[t] = g
             /\ HasRow(request[g]) => rowLock' = g
  <2>1. g # NoCaller
    BY DiscoveryAssumption
  <2>2. \A t \in Locked(request[g]) : t \in ConsentTypes /\ typeLock[t] = g
    BY DEF DiscoveryInv, LocksAreHeld, Locked, Needs
  <2>3. HasRow(request[g]) => rowLock = g
    BY DEF DiscoveryInv, LocksAreHeld
  <2> QED BY <1>4, <2>1, <2>2, <2>3
<1>5. LocksAreHeld'
  BY <1>2, <1>4 DEF LocksAreHeld
<1>6. \A g \in Callers : CallIsSound(request[g])'
  BY <1>1, <1>2 DEF DiscoveryInv, CallIsSound, StillRead, Expired
<1>7. LatestIsLast' /\ DiscoveryNeedsConsent'
  BY <1>1 DEF DiscoveryInv, LatestIsLast, DiscoveryNeedsConsent
<1> QED BY <1>3, <1>5, <1>6, <1>7 DEF DiscoveryInv

\* COMMIT and ROLLBACK of a request that wrote nothing.
LEMMA FinishStep ==
  ASSUME DiscoveryInv, NEW h \in Callers, Finish(h),
         UNCHANGED <<settings, consent, decided, account, now>>
  PROVE  DiscoveryInv'
<1>1. /\ Becomes(h, NoRequest) /\ DOMAIN typeLock' = ConsentTypes
      /\ typeLock' = [t \in ConsentTypes |-> typeLock'[t]]
      /\ \A t \in ConsentTypes : typeLock'[t] = typeLock[t] \/ typeLock[t] = h
      /\ rowLock' = rowLock \/ rowLock = h
  BY DEF Finish
<1> QED BY <1>1, NoRequestFacts, CallStep

\* updateOwn, recordOwn and getOwn.
LEMMA BeginCallStep ==
  ASSUME DiscoveryInv, NEW h \in Callers,
         \/ \E patch \in Patches : updateOwn(h, patch)
         \/ \E t \in ConsentTypes, granted \in BOOLEAN : recordOwn(h, t, granted)
         \/ getOwn(h)
  PROVE  DiscoveryInv'
<1>1. UNCHANGED <<settings, consent, decided, account, now, typeLock, rowLock>>
  BY DEF updateOwn, recordOwn, getOwn
<1>2. ASSUME NEW row, Becomes(h, row), CallIsSound(row), Locked(row) = {}, ~HasRow(row)
      PROVE  DiscoveryInv'
  <2>1. DOMAIN typeLock' = ConsentTypes /\ typeLock' = [t \in ConsentTypes |-> typeLock'[t]]
    BY <1>1 DEF DiscoveryInv, DiscoveryTypes
  <2> QED BY <1>1, <1>2, <2>1, CallStep
<1>3. ASSUME NEW patch \in Patches, updateOwn(h, patch) PROVE DiscoveryInv'
  <2> DEFINE wants == LocksFor(patch)
             at == IF wants = {} THEN "row" ELSE "lock"
             row == [NoRequest EXCEPT !.kind = "update", !.patch = patch, !.wants = wants, !.at = at]
  <2>1. Becomes(h, row)
    BY <1>3 DEF updateOwn
  <2>2. IsPatch(patch)
    BY DiscoveryAssumption DEF Patches, IsPatch, Ends, Never
  <2>3. wants \subseteq ConsentTypes /\ at \in {"row", "lock"} /\ (at = "row" <=> wants = {})
    BY DEF LocksFor
  <2> HIDE DEF at
  <2>4. /\ row = [f \in CallFields |-> row[f]] /\ row.kind = "update" /\ row.patch = patch
        /\ row.wants = wants /\ row.at = at
    BY DEF NoRequest, CallFields
  <2> HIDE DEF row
  <2>5. IsCall(row) /\ Needs(row) = wants
    BY <2>2, <2>3, <2>4 DEF IsCall, Needs
  <2>6. Locked(row) = {} /\ ~HasRow(row)
    BY <2>3, <2>4, <2>5 DEF Locked, HasRow
  <2>7. CallIsSound(row)
    BY <2>3, <2>4, <2>5 DEF CallIsSound
  <2> QED BY <1>2, <2>1, <2>6, <2>7
<1>4. ASSUME NEW t \in ConsentTypes, NEW granted \in BOOLEAN, recordOwn(h, t, granted)
      PROVE  DiscoveryInv'
  <2> DEFINE row == [NoRequest EXCEPT !.kind = "record", !.at = "lock", !.wants = {t},
                       !.type = t, !.granted = granted, !.version = policy[t],
                       !.started = consent[t].at + 1]
  <2>1. Becomes(h, row)
    BY <1>4 DEF recordOwn
  <2>2. /\ row = [f \in CallFields |-> row[f]] /\ row.kind = "record" /\ row.at = "lock"
        /\ row.wants = {t} /\ row.type = t /\ row.granted = granted
    BY DEF NoRequest, CallFields
  <2> HIDE DEF row
  <2>3. IsCall(row) /\ Needs(row) = {t}
    BY <2>2 DEF IsCall, Needs
  <2>4. Locked(row) = {} /\ ~HasRow(row) /\ CallIsSound(row)
    BY <2>2, <2>3 DEF Locked, HasRow, CallIsSound
  <2> QED BY <1>2, <2>1, <2>4
<1>5. CASE getOwn(h)
  <2> DEFINE row == [NoRequest EXCEPT !.kind = "get", !.at = "expire"]
  <2>1. Becomes(h, row)
    BY <1>5 DEF getOwn
  <2>2. row = [f \in CallFields |-> row[f]] /\ row.kind = "get" /\ row.at = "expire"
    BY DEF NoRequest, CallFields
  <2> HIDE DEF row
  <2>3. Needs(row) = {} /\ ~HasRow(row) /\ CallIsSound(row)
    BY <2>2 DEF IsCall, Needs, HasRow, CallIsSound
  <2> QED BY <1>2, <2>1, <2>3 DEF Locked
<1> QED BY <1>3, <1>4, <1>5

LEMMA LockTypeStep ==
  ASSUME DiscoveryInv, NEW h \in Callers, LockType(h)
  PROVE  DiscoveryInv'
<1> DEFINE r == request[h]
           t == NextLock(r.wants)
           at == IF r.wants = {t} THEN AfterLocks(r.kind) ELSE "lock"
           wants == r.wants \ {t}
           row == [r EXCEPT !.wants = wants, !.at = at]
<1>1. /\ r.at = "lock" /\ typeLock[t] = NoCaller /\ typeLock' = [typeLock EXCEPT ![t] = h]
      /\ Becomes(h, row)
      /\ UNCHANGED <<settings, consent, decided, account, now, rowLock>>
  BY DEF LockType
<1>2. /\ CallIsSound(r) /\ IsCall(r) /\ r.wants # {} /\ r.wants \subseteq Needs(r)
      /\ \/ r.kind = "update" /\ IsPatch(r.patch)
         \/ r.kind = "record" /\ r.type \in ConsentTypes /\ r.granted \in BOOLEAN
  BY <1>1 DEF DiscoveryInv, CallIsSound, IsCall
<1>3. t \in r.wants /\ Needs(r) \subseteq ConsentTypes
  BY <1>2 DEF NextLock, Needs, ConsentTypes
<1>4. \/ at = "lock" /\ wants # {}
      \/ wants = {} /\ at = "check" /\ r.kind = "update"
      \/ wants = {} /\ at = "insert" /\ r.kind = "record"
  BY <1>2, <1>3 DEF AfterLocks
<1> HIDE DEF at, wants, t
<1>5. /\ row = [f \in CallFields |-> row[f]] /\ row.kind = r.kind /\ row.patch = r.patch
      /\ row.type = r.type /\ row.granted = r.granted /\ row.wants = wants /\ row.at = at
  BY <1>2 DEF IsCall, CallFields
<1> HIDE DEF row
<1>6. Needs(row) = Needs(r)
  BY <1>5 DEF Needs
<1>7. CallIsSound(row) /\ ~HasRow(row)
  BY <1>2, <1>4, <1>5, <1>6 DEF CallIsSound, IsCall, HasRow, wants
<1>8. \A u \in Locked(row) : u = t \/ u \in Locked(r)
  BY <1>1, <1>4, <1>5, <1>6 DEF Locked, wants
<1>9. /\ DOMAIN typeLock' = ConsentTypes /\ typeLock' = [u \in ConsentTypes |-> typeLock'[u]]
      /\ typeLock'[t] = h /\ \A u \in ConsentTypes \ {t} : typeLock'[u] = typeLock[u]
  BY <1>1, <1>2, <1>3 DEF DiscoveryInv, DiscoveryTypes
<1>10. \A u \in Locked(r) : typeLock[u] = h /\ u \in ConsentTypes
  BY DEF DiscoveryInv, LocksAreHeld, Locked, Needs
<1> QED BY <1>1, <1>7, <1>8, <1>9, <1>10, CallStep

\* A request goes on to another stage; h has the row if it needs it.
LEMMA StageStep ==
  ASSUME DiscoveryInv, NEW h \in Callers, NEW row, NEW at, Becomes(h, row),
         row = [f \in CallFields |-> row[f]], row.kind = request[h].kind, row.at = at,
         row.patch = request[h].patch, row.type = request[h].type,
         row.granted = request[h].granted, CallIsSound(row),
         request[h].at \notin {"idle", "lock"},
         UNCHANGED <<settings, consent, decided, account, now, typeLock>>,
         rowLock' = rowLock \/ (rowLock = NoCaller /\ rowLock' = h),
         HasRow(row) => rowLock' = h
  PROVE  DiscoveryInv'
<1>1. Locked(row) \subseteq Locked(request[h])
  BY DEF Locked, Needs
<1>2. \A t \in Locked(row) : typeLock[t] = h
  BY <1>1 DEF DiscoveryInv, LocksAreHeld
<1>3. DOMAIN typeLock' = ConsentTypes /\ typeLock' = [t \in ConsentTypes |-> typeLock'[t]]
  BY DEF DiscoveryInv, DiscoveryTypes
<1> QED BY <1>2, <1>3, CallStep

LEMMA CheckConsentsStep ==
  ASSUME DiscoveryInv, NEW h \in Callers, CheckConsents(h)
  PROVE  DiscoveryInv'
<1>1. /\ request[h].at = "check" /\ request[h].kind = "update"
      /\ CallIsSound(request[h]) /\ IsCall(request[h])
      /\ UNCHANGED <<settings, consent, decided, account, now>>
  BY DEF CheckConsents, Serves, DiscoveryInv, CallIsSound
<1>2. CASE Finish(h)
  BY <1>1, <1>2, FinishStep
<1>3. CASE /\ \A t \in ConsentTypes : Consented(t)
           /\ Proceed(h, "row") /\ UNCHANGED <<typeLock, rowLock>>
  <2> DEFINE row == [request[h] EXCEPT !.at = "row"]
  <2>1. Becomes(h, row)
    BY <1>3 DEF Proceed
  <2>2. /\ row = [f \in CallFields |-> row[f]] /\ row.kind = request[h].kind /\ row.at = "row"
        /\ row.patch = request[h].patch /\ row.type = request[h].type
        /\ row.granted = request[h].granted
    BY <1>1 DEF IsCall, CallFields
  <2> HIDE DEF row
  <2>3. \A t \in LocksFor(row.patch) : consent[t].granted
    BY <1>3 DEF LocksFor, Consented
  <2>4. CallIsSound(row) /\ ~HasRow(row)
    BY <1>1, <2>2, <2>3 DEF CallIsSound, IsCall, HasRow
  <2> QED BY <1>1, <1>3, <2>1, <2>2, <2>4, StageStep
<1> QED BY <1>2, <1>3 DEF CheckConsents

LEMMA LockSettingsStep ==
  ASSUME DiscoveryInv, NEW h \in Callers, LockSettings(h)
  PROVE  DiscoveryInv'
<1> DEFINE read == Normalised(settings)
           at == IF Rejected(request[h].patch, read) THEN "refuse" ELSE "save"
           row == [request[h] EXCEPT !.row = read, !.at = at]
<1>1. /\ request[h].at = "row" /\ request[h].kind = "update" /\ CallIsSound(request[h])
      /\ IsCall(request[h]) /\ Becomes(h, row) /\ rowLock = NoCaller /\ rowLock' = h
      /\ UNCHANGED <<settings, consent, decided, account, now, typeLock>>
  BY DEF LockSettings, TakeRow, Serves, DiscoveryInv, CallIsSound
<1>2. StillRead(read)
  <2>1. IsSettings(settings)
    BY DEF DiscoveryInv, DiscoveryTypes
  <2>2. CASE ~Expired(settings)
    BY <2>1, <2>2 DEF Normalised, StillRead
  <2>3. CASE Expired(settings)
    <3>1. read = [settings EXCEPT !.ghost = FALSE, !.until = Never]
      BY <2>3 DEF Normalised
    <3>2. /\ read = [f \in Fields |-> read[f]] /\ read.ghost = FALSE /\ read.until = Never
          /\ \A f \in Fields \ {"ghost", "until"} : read[f] = settings[f]
      BY <2>1, <3>1 DEF IsSettings, Fields
    <3> HIDE DEF read
    <3>3. read.discovery = settings.discovery
      BY <3>2 DEF Fields
    <3>4. read.discovery \in BOOLEAN
      BY <2>1, <3>3, Zenon DEF IsSettings
    <3>5. read.ghost \in BOOLEAN
      BY <3>2
    <3>6. read.until \in Int
      BY <3>2 DEF Never
    <3>7. IsSettings(read)
      BY <3>2, <3>4, <3>5, <3>6, Zenon DEF IsSettings
    <3> QED BY <2>3, <3>2, <3>7 DEF StillRead
  <2> QED BY <2>2, <2>3
<1>3. at \in {"refuse", "save"}
  OBVIOUS
<1> HIDE DEF at, read
<1>4. /\ row = [f \in CallFields |-> row[f]] /\ row.kind = request[h].kind /\ row.at = at
      /\ row.patch = request[h].patch /\ row.type = request[h].type
      /\ row.granted = request[h].granted /\ row.row = read
  BY <1>1 DEF IsCall, CallFields
<1> HIDE DEF row
<1>5. CallIsSound(row)
  BY <1>1, <1>2, <1>3, <1>4 DEF CallIsSound, IsCall
<1> QED BY <1>1, <1>4, <1>5, StageStep

LEMMA InsertDecisionStep ==
  ASSUME DiscoveryInv, NEW h \in Callers, InsertDecision(h)
  PROVE  DiscoveryInv'
<1> DEFINE at == IF request[h].granted THEN "commit" ELSE "off"
           stamp == Stamp(h)
           row == [request[h] EXCEPT !.stamp = stamp, !.at = at]
<1>1. /\ request[h].at = "insert" /\ request[h].kind = "record" /\ CallIsSound(request[h])
      /\ IsCall(request[h]) /\ Becomes(h, row)
      /\ UNCHANGED <<settings, consent, decided, account, now, typeLock, rowLock>>
  BY DEF InsertDecision, Serves, DiscoveryInv, CallIsSound
<1>2. request[h].type \in ConsentTypes /\ request[h].granted \in BOOLEAN
  BY <1>1 DEF IsCall
<1>3. stamp \in Int /\ stamp > consent[request[h].type].at
  BY <1>2 DEF Stamp, DiscoveryInv, DiscoveryTypes
<1>4. \/ at = "commit" /\ request[h].granted
      \/ at = "off" /\ ~request[h].granted
  BY <1>2
<1> HIDE DEF at, stamp
<1>5. /\ row = [f \in CallFields |-> row[f]] /\ row.kind = request[h].kind /\ row.at = at
      /\ row.patch = request[h].patch /\ row.type = request[h].type
      /\ row.granted = request[h].granted /\ row.stamp = stamp
  BY <1>1 DEF IsCall, CallFields
<1> HIDE DEF row
<1>6. CallIsSound(row) /\ ~HasRow(row)
  BY <1>1, <1>2, <1>3, <1>4, <1>5 DEF CallIsSound, IsCall, HasRow
<1> QED BY <1>1, <1>5, <1>6, StageStep

LEMMA SwitchOffStep ==
  ASSUME DiscoveryInv, NEW h \in Callers, SwitchOff(h)
  PROVE  DiscoveryInv'
<1> DEFINE row == [request[h] EXCEPT !.at = "commit"]
<1>1. /\ request[h].at = "off" /\ request[h].kind = "record" /\ CallIsSound(request[h])
      /\ IsCall(request[h]) /\ Becomes(h, row) /\ rowLock = NoCaller /\ rowLock' = h
      /\ UNCHANGED <<settings, consent, decided, account, now, typeLock>>
  BY DEF SwitchOff, Proceed, Serves, DiscoveryInv, CallIsSound
<1>2. /\ row = [f \in CallFields |-> row[f]] /\ row.kind = request[h].kind /\ row.at = "commit"
      /\ row.patch = request[h].patch /\ row.type = request[h].type
      /\ row.granted = request[h].granted /\ row.stamp = request[h].stamp
  BY <1>1 DEF IsCall, CallFields
<1> HIDE DEF row
<1>3. CallIsSound(row)
  BY <1>1, <1>2 DEF CallIsSound, IsCall
<1> QED BY <1>1, <1>2, <1>3, StageStep

\* The COMMIT of a request that writes settings, or a decision, under its locks.
LEMMA WriteSettingsStep ==
  ASSUME DiscoveryInv, NEW h \in Callers, Finish(h), UNCHANGED <<account, now>>,
         IsSettings(settings'), ~settings'.ghost => settings'.until = Never,
         settings' = settings \/ \A g \in Callers \ {h} : ~HasRow(request[g]),
         consent' = [t \in ConsentTypes |-> consent'[t]],
         decided' = [t \in ConsentTypes |-> decided'[t]],
         \A t \in ConsentTypes :
           /\ consent'[t] = consent[t] \/ (typeLock[t] = h /\ consent'[t].at \in Int)
           /\ consent'[t].granted = decided'[t]
           /\ settings'.discovery => consent'[t].granted
  PROVE  DiscoveryInv'
<1>1. /\ request' = [g \in Callers |-> request'[g]] /\ request'[h] = NoRequest
      /\ \A g \in Callers : g # h => request'[g] = request[g]
      /\ typeLock' = [t \in ConsentTypes |-> typeLock'[t]]
      /\ \A t \in ConsentTypes : typeLock'[t] = typeLock[t] \/ typeLock[t] = h
      /\ rowLock' = rowLock \/ rowLock = h
  BY DEF Finish, Becomes, DiscoveryInv, DiscoveryTypes
<1>2. DiscoveryTypes'
  BY <1>1 DEF DiscoveryInv, DiscoveryTypes
<1>3. LatestIsLast' /\ DiscoveryNeedsConsent'
  BY DEF LatestIsLast, DiscoveryNeedsConsent
<1>4. ASSUME NEW g \in Callers, g # h
      PROVE  /\ \A t \in Locked(request[g]) : typeLock'[t] = g /\ consent'[t] = consent[t]
             /\ HasRow(request[g]) => rowLock' = g
  <2>1. \A t \in Locked(request[g]) : t \in ConsentTypes /\ typeLock[t] = g
    BY DEF DiscoveryInv, LocksAreHeld, Locked, Needs
  <2>2. HasRow(request[g]) => rowLock = g
    BY DEF DiscoveryInv, LocksAreHeld
  <2> QED BY <1>1, <1>4, <2>1, <2>2
<1>5. LocksAreHeld'
  BY <1>1, <1>4, NoRequestFacts DEF LocksAreHeld
<1>6. ASSUME NEW g \in Callers, g # h PROVE CallIsSound(request[g])'
  <2>0. PICK r : r = request[g]
    OBVIOUS
  <2>1. CallIsSound(r) /\ IsCall(r) /\ request'[g] = r
    BY <1>1, <1>6, <2>0 DEF DiscoveryInv, CallIsSound
  <2>2. r.kind = "update" /\ r.at \in {"row", "save"} =>
          \A t \in LocksFor(r.patch) : consent'[t].granted
    <3>1. r.kind = "update" /\ r.at \in {"row", "save"} => LocksFor(r.patch) \subseteq Locked(r)
      BY DEF Locked, Needs, LocksFor
    <3> QED BY <1>4, <1>6, <2>0, <2>1, <3>1 DEF CallIsSound
  <2>3. r.kind = "update" /\ r.at = "save" => StillRead(r.row)'
    <3>1. r.kind = "update" /\ r.at = "save" => settings' = settings /\ now' = now
      BY <1>6, <2>0 DEF HasRow
    <3> SUFFICES ASSUME r.kind = "update", r.at = "save" PROVE StillRead(r.row)'
      OBVIOUS
    <3>2. StillRead(r.row) /\ settings' = settings /\ now' = now
      BY <2>1, <3>1 DEF CallIsSound
    <3> QED BY <2>1, <3>2 DEF StillRead, Expired
  <2>4. r.kind = "record" /\ r.at \in {"off", "commit"} => r.stamp > consent'[r.type].at
    <3>1. r.kind = "record" /\ r.at \in {"off", "commit"} => r.type \in Locked(r)
      BY <2>1 DEF Locked, Needs, IsCall
    <3> QED BY <1>4, <1>6, <2>0, <2>1, <3>1 DEF CallIsSound
  <2> QED BY <2>1, <2>2, <2>3, <2>4 DEF CallIsSound
<1>7. CallIsSound(request[h])'
  <2>1. CallIsSound(NoRequest)'
    BY NoRequestFacts DEF CallIsSound
  <2> QED BY <1>1, <2>1
<1> QED BY <1>2, <1>3, <1>5, <1>6, <1>7 DEF DiscoveryInv

LEMMA PatchedFacts ==
  ASSUME NEW patch, NEW row, IsPatch(patch), IsSettings(row)
  PROVE  /\ Patched(patch, row) = [f \in Fields |-> Patched(patch, row)[f]]
         /\ \A f \in Fields \ {"until"} : Patched(patch, row)[f] = Given(patch, f, row)
         /\ Patched(patch, row)["until"] =
              IF Given(patch, "ghost", row) THEN Given(patch, "until", row) ELSE Never
BY DEF Patched, Fields

\* The patch is applied to the settings as they are, and switches discovery on
\* only with both consents.
LEMMA SaveSettingsStep ==
  ASSUME DiscoveryInv, NEW h \in Callers, SaveSettings(h)
  PROVE  DiscoveryInv'
<1> DEFINE patch == request[h].patch
           row == request[h].row
<1>1. /\ request[h].at = "save" /\ request[h].kind = "update" /\ CallIsSound(request[h])
      /\ settings' = Patched(patch, row) /\ Finish(h)
      /\ UNCHANGED <<consent, decided, account, now>>
  BY DEF SaveSettings, Serves, DiscoveryInv
<1>2. IsPatch(patch) /\ StillRead(row) /\ IsSettings(row)
  BY <1>1 DEF CallIsSound, IsCall, StillRead
<1>3. \A t \in LocksFor(patch) : consent[t].granted
  BY <1>1 DEF CallIsSound
<1> HIDE DEF patch, row
<1>4. /\ settings' = [f \in Fields |-> settings'[f]]
      /\ settings'.discovery = Given(patch, "discovery", row)
      /\ settings'.ghost = Given(patch, "ghost", row)
      /\ settings'.until =
           IF Given(patch, "ghost", row) THEN Given(patch, "until", row) ELSE Never
  BY <1>1, <1>2, PatchedFacts DEF Fields
<1>5. /\ settings'.discovery \in BOOLEAN /\ settings'.ghost \in BOOLEAN
      /\ settings'.until \in Int /\ (~settings'.ghost => settings'.until = Never)
  BY <1>2, <1>4 DEF IsPatch, IsSettings, Given, Never
<1>6. settings'.discovery => \A t \in ConsentTypes : consent[t].granted
  <2>1. CASE "discovery" \in DOMAIN patch
    BY <1>3, <1>4, <2>1 DEF Given, LocksFor
  <2>2. CASE "discovery" \notin DOMAIN patch
    <3>1. settings'.discovery = settings.discovery
      BY <1>2, <1>4, <2>2 DEF Given, StillRead, Fields
    <3> QED BY <3>1 DEF DiscoveryInv, DiscoveryNeedsConsent
  <2> QED BY <2>1, <2>2
<1>7. \A g \in Callers \ {h} : ~HasRow(request[g])
  BY <1>1 DEF DiscoveryInv, LocksAreHeld, HasRow
<1>8. IsSettings(settings')
  BY <1>4, <1>5 DEF IsSettings
<1> QED BY <1>1, <1>5, <1>6, <1>7, <1>8, WriteSettingsStep
        DEF DiscoveryInv, DiscoveryTypes, LatestIsLast

\* A withdrawal switches discovery off with its COMMIT.
LEMMA CommitDecisionStep ==
  ASSUME DiscoveryInv, NEW h \in Callers, CommitDecision(h)
  PROVE  DiscoveryInv'
<1> DEFINE u == request[h].type
           granted == request[h].granted
           new == [granted |-> granted, version |-> request[h].version, at |-> request[h].stamp]
<1>1. /\ request[h].at = "commit" /\ request[h].kind = "record" /\ CallIsSound(request[h])
      /\ consent' = [consent EXCEPT ![u] = Latest(@, new)]
      /\ decided' = [decided EXCEPT ![u] = granted]
      /\ settings' = [settings EXCEPT !.discovery = @ /\ granted]
      /\ Finish(h) /\ UNCHANGED <<account, now>>
  BY DEF CommitDecision, Serves, DiscoveryInv
<1>2. /\ u \in ConsentTypes /\ granted \in BOOLEAN /\ new.at \in Int /\ new.at > consent[u].at
      /\ new.granted = granted
  BY <1>1 DEF CallIsSound, IsCall
<1>3. typeLock[u] = h
  BY <1>1, <1>2 DEF DiscoveryInv, LocksAreHeld, Locked, Needs
<1>4. ~granted => \A g \in Callers \ {h} : ~HasRow(request[g])
  BY <1>1 DEF DiscoveryInv, LocksAreHeld, HasRow
<1> HIDE DEF u, granted, new
<1>5. /\ consent' = [t \in ConsentTypes |-> consent'[t]] /\ consent'[u] = new
      /\ \A t \in ConsentTypes \ {u} : consent'[t] = consent[t]
  BY <1>1, <1>2 DEF DiscoveryInv, DiscoveryTypes, Latest
<1>6. /\ decided' = [t \in ConsentTypes |-> decided'[t]] /\ decided'[u] = granted
      /\ \A t \in ConsentTypes \ {u} : decided'[t] = decided[t]
  BY <1>1, <1>2 DEF DiscoveryInv, DiscoveryTypes
<1>7. IsSettings(settings)
  BY DEF DiscoveryInv, DiscoveryTypes
<1>8. /\ settings' = [f \in Fields |-> settings'[f]]
      /\ settings'.discovery = (settings.discovery /\ granted)
      /\ settings'.ghost = settings.ghost /\ settings'.until = settings.until
      /\ settings'.minAge = settings.minAge /\ settings'.maxAge = settings.maxAge
  BY <1>1, <1>7 DEF IsSettings, Fields
<1>9. IsSettings(settings')
  BY <1>7, <1>8 DEF IsSettings
<1>10. granted => settings' = settings
  BY <1>1, <1>2, <1>7, <1>8 DEF IsSettings, Fields
<1>11. ASSUME NEW t \in ConsentTypes
       PROVE  /\ consent'[t] = consent[t] \/ (typeLock[t] = h /\ consent'[t].at \in Int)
              /\ consent'[t].granted = decided'[t]
              /\ settings'.discovery => consent'[t].granted
  BY <1>2, <1>3, <1>5, <1>6, <1>8 DEF DiscoveryInv, LatestIsLast, DiscoveryNeedsConsent
<1>12. ~settings'.ghost => settings'.until = Never
  BY <1>8 DEF DiscoveryInv, DiscoveryTypes
<1>13. settings' = settings \/ \A g \in Callers \ {h} : ~HasRow(request[g])
  BY <1>2, <1>4, <1>10
<1> QED BY <1>1, <1>5, <1>6, <1>9, <1>11, <1>12, <1>13, WriteSettingsStep

LEMMA ExpireGhostStep ==
  ASSUME DiscoveryInv, NEW h \in Callers, ExpireGhost(h)
  PROVE  DiscoveryInv'
<1>1. /\ rowLock = NoCaller /\ Finish(h) /\ UNCHANGED <<consent, decided, account, now>>
      /\ settings' \in {settings, [settings EXCEPT !.ghost = FALSE, !.until = Never]}
  BY DEF ExpireGhost
<1>2. IsSettings(settings) /\ (~settings.ghost => settings.until = Never)
  BY DEF DiscoveryInv, DiscoveryTypes
<1>3. \A g \in Callers \ {h} : ~HasRow(request[g])
  BY <1>1, DiscoveryAssumption DEF DiscoveryInv, LocksAreHeld
<1>4. /\ settings' = [f \in Fields |-> settings'[f]] /\ settings'.discovery = settings.discovery
      /\ \/ settings'.ghost = settings.ghost /\ settings'.until = settings.until
         \/ settings'.ghost = FALSE /\ settings'.until = Never
  BY <1>1, <1>2 DEF IsSettings, Fields
<1>5. /\ settings'.discovery \in BOOLEAN /\ settings'.ghost \in BOOLEAN
      /\ settings'.until \in Int /\ (~settings'.ghost => settings'.until = Never)
  <2>1. settings'.discovery \in BOOLEAN
    BY <1>2, <1>4, Zenon DEF IsSettings
  <2>2. settings'.ghost \in BOOLEAN
    BY <1>2, <1>4, Zenon DEF IsSettings
  <2>3. CASE settings'.ghost = settings.ghost /\ settings'.until = settings.until
    <3>1. settings'.until \in Int
      BY <1>2, <2>3 DEF IsSettings
    <3>2. ~settings'.ghost => settings'.until = Never
      BY <1>2, <2>3, Zenon
    <3> QED BY <2>1, <2>2, <3>1, <3>2
  <2>4. CASE settings'.ghost = FALSE /\ settings'.until = Never
    <3>1. settings'.until \in Int
      BY <2>4 DEF Never
    <3> QED BY <2>1, <2>2, <2>4, <3>1
  <2> QED BY <1>4, <2>3, <2>4
<1>6. IsSettings(settings')
  BY <1>4, <1>5 DEF IsSettings
<1>7. settings'.discovery => \A t \in ConsentTypes : consent[t].granted
  BY <1>4 DEF DiscoveryInv, DiscoveryNeedsConsent
<1> QED BY <1>1, <1>3, <1>5, <1>6, <1>7, WriteSettingsStep
        DEF DiscoveryInv, DiscoveryTypes, LatestIsLast

\* The clock, a roll-out or moderation: no request notices.
LEMMA OutsideStep ==
  ASSUME DiscoveryInv, UNCHANGED <<settings, consent, decided, typeLock, rowLock, request>>,
         account' \in {"active", "restricted", "suspended"}, now' \in Int, now' >= now
  PROVE  DiscoveryInv'
<1>1. /\ settings' = settings /\ consent' = consent /\ decided' = decided
      /\ typeLock' = typeLock /\ rowLock' = rowLock /\ request' = request
  OBVIOUS
<1>2. DiscoveryTypes'
  BY <1>1 DEF DiscoveryInv, DiscoveryTypes
<1>3. LocksAreHeld'
  BY <1>1 DEF DiscoveryInv, LocksAreHeld
<1>4. LatestIsLast' /\ DiscoveryNeedsConsent'
  BY <1>1 DEF DiscoveryInv, LatestIsLast, DiscoveryNeedsConsent
<1>5. Expired(settings) => Expired(settings)'
  BY <1>1 DEF Expired, DiscoveryInv, DiscoveryTypes, IsSettings
<1>6. \A h \in Callers : CallIsSound(request[h])'
  BY <1>1, <1>5 DEF DiscoveryInv, CallIsSound, StillRead
<1> QED BY <1>2, <1>3, <1>4, <1>6 DEF DiscoveryInv

LEMMA DiscoveryInvNext == DiscoveryInv /\ [DiscoveryNext]_discoveryVars => DiscoveryInv'
<1> SUFFICES ASSUME DiscoveryInv, [DiscoveryNext]_discoveryVars PROVE DiscoveryInv'
  OBVIOUS
<1>1. account \in {"active", "restricted", "suspended"} /\ now \in Int
  BY DEF DiscoveryInv, DiscoveryTypes
<1>2. CASE UNCHANGED discoveryVars
  BY <1>1, <1>2, OutsideStep DEF discoveryVars
<1>3. CASE PassTime
  BY <1>1, <1>3, OutsideStep DEF PassTime
<1>4. ASSUME NEW t \in ConsentTypes, RollOut(t) PROVE DiscoveryInv'
  BY <1>1, <1>4, OutsideStep DEF RollOut
<1>5. ASSUME NEW state \in {"active", "restricted", "suspended"}, ModerateAccount(state)
      PROVE  DiscoveryInv'
  BY <1>1, <1>5, OutsideStep DEF ModerateAccount
<1>6. ASSUME NEW h \in Callers, Rollback(h) PROVE DiscoveryInv'
  BY <1>6, FinishStep DEF Rollback
<1> QED BY <1>2, <1>3, <1>4, <1>5, <1>6, BeginCallStep, LockTypeStep, CheckConsentsStep,
           LockSettingsStep, SaveSettingsStep, InsertDecisionStep, SwitchOffStep,
           CommitDecisionStep, ExpireGhostStep DEF DiscoveryNext

LEMMA DiscoveryInvariance == DiscoverySpec => []DiscoveryInv
BY DiscoveryInvInit, DiscoveryInvNext, PTL DEF DiscoverySpec

\* However settings updates, withdrawals, grants and readers interleave, nobody is
\* discoverable without the consents, and what the owner is told is what the
\* matching queries find.
THEOREM DiscoveryStaysHonest == DiscoverySpec => []DiscoveryIsHonest
<1>1. DiscoveryInv => DiscoverableMeansFindable
  BY DEF DiscoveryInv, DiscoveryTypes, DiscoverableMeansFindable, discoverable,
         CandidateEligible, missingRequirements, getCurrentRequiredConsents, ghostModeActive,
         hasActiveDiscoveryRestriction
<1>2. DiscoveryInv => DiscoveryIsHonest
  BY <1>1 DEF DiscoveryInv, DiscoveryIsHonest
<1> QED BY DiscoveryInvariance, <1>2, PTL

OnlyNamed ==
  \A f \in Fields : settings'[f] # settings[f] =>
    \/ Names(f)
    \/ f = "until" /\ Names("ghost")
    \/ f \in {"ghost", "until"} /\ Expired(settings)
    \/ f = "discovery" /\ Withdraws

LEMMA FinishIsFree == ASSUME DiscoveryInv, NEW h \in Callers, Finish(h) PROVE Free(h)'
<1>1. request'[h] = NoRequest
  BY DEF Finish, Becomes, DiscoveryInv, DiscoveryTypes
<1> QED BY <1>1, NoRequestFacts DEF Free

LEMMA NamedStep == DiscoveryInv /\ [DiscoveryNext]_discoveryVars => [OnlyNamed]_discoveryVars
<1> SUFFICES ASSUME DiscoveryInv, [DiscoveryNext]_discoveryVars PROVE [OnlyNamed]_discoveryVars
  OBVIOUS
<1>1. IsSettings(settings) /\ (~settings.ghost => settings.until = Never)
  BY DEF DiscoveryInv, DiscoveryTypes
<1>2. CASE settings' = settings
  BY <1>2 DEF OnlyNamed
<1>3. ASSUME NEW h \in Callers, SaveSettings(h) PROVE OnlyNamed
  <2> DEFINE patch == request[h].patch
             row == request[h].row
  <2>1. /\ Serves(h, "update", "save") /\ Free(h)' /\ settings' = Patched(patch, row)
        /\ StillRead(row) /\ IsPatch(patch)
    BY <1>3, FinishIsFree DEF SaveSettings, Serves, DiscoveryInv, CallIsSound, IsCall
  <2>2. \A f \in DOMAIN patch : Names(f)
    BY <2>1 DEF Names
  <2> HIDE DEF patch, row
  <2>3. /\ \A f \in Fields \ {"until"} : settings'[f] = Given(patch, f, row)
        /\ settings'["until"] =
             IF Given(patch, "ghost", row) THEN Given(patch, "until", row) ELSE Never
    BY <2>1, PatchedFacts DEF StillRead
  <2>4. ASSUME NEW f \in Fields \ {"ghost", "until"}, f \notin DOMAIN patch
        PROVE  settings'[f] = settings[f]
    BY <2>1, <2>3, <2>4 DEF Given, StillRead
  <2>5. ASSUME ~Expired(settings), "ghost" \notin DOMAIN patch
        PROVE  settings'["ghost"] = settings["ghost"]
    BY <2>1, <2>3, <2>5 DEF Given, StillRead, Fields
  <2>6. ASSUME ~Expired(settings), "ghost" \notin DOMAIN patch, "until" \notin DOMAIN patch
        PROVE  settings'["until"] = settings["until"]
    BY <1>1, <2>1, <2>3, <2>6 DEF Given, StillRead
  <2> QED BY <2>2, <2>4, <2>5, <2>6 DEF OnlyNamed
<1>4. ASSUME NEW h \in Callers, CommitDecision(h) PROVE OnlyNamed
  <2>1. /\ Serves(h, "record", "commit") /\ Free(h)' /\ request[h].granted \in BOOLEAN
        /\ settings' = [settings EXCEPT !.discovery = @ /\ request[h].granted]
    BY <1>4, FinishIsFree DEF CommitDecision, Serves, DiscoveryInv, CallIsSound, IsCall
  <2>2. \A f \in Fields \ {"discovery"} : settings'[f] = settings[f]
    BY <1>1, <2>1 DEF IsSettings
  <2>3. settings'["discovery"] # settings["discovery"] => ~request[h].granted
    BY <1>1, <2>1 DEF IsSettings, Fields
  <2>4. ~request[h].granted => Withdraws
    BY <2>1 DEF Withdraws
  <2> QED BY <2>2, <2>3, <2>4 DEF OnlyNamed
<1>5. ASSUME NEW h \in Callers, ExpireGhost(h) PROVE OnlyNamed
  <2>1. \/ settings' = settings
        \/ Expired(settings) /\ settings' = [settings EXCEPT !.ghost = FALSE, !.until = Never]
    BY <1>5 DEF ExpireGhost, StillExpired
  <2>2. \A f \in Fields \ {"ghost", "until"} : settings'[f] = settings[f]
    BY <1>1, <2>1 DEF IsSettings
  <2>3. settings' = settings \/ Expired(settings)
    BY <2>1
  <2> QED BY <2>2, <2>3 DEF OnlyNamed
<1>6. \/ settings' = settings
      \/ \E h \in Callers : SaveSettings(h) \/ CommitDecision(h) \/ ExpireGhost(h)
  BY DEF DiscoveryNext, discoveryVars, updateOwn, recordOwn, getOwn, LockType, CheckConsents,
         LockSettings, InsertDecision, SwitchOff, Rollback, PassTime, RollOut, ModerateAccount
<1> QED BY <1>2, <1>3, <1>4, <1>5, <1>6

\* Under every interleaving of updates, decisions and readers, no committed
\* change of a setting is lost: a field changes only by the patch that names
\* it, by a withdrawal, or because Ghost Mode has expired.
THEOREM NoUpdateIsLost == DiscoverySpec => OnlyNamedFieldsChange
<1>1. OnlyNamedFieldsChange <=> [][OnlyNamed]_discoveryVars
  BY DEF OnlyNamedFieldsChange, OnlyNamed
<1> QED BY <1>1, DiscoveryInvariance, NamedStep, PTL DEF DiscoverySpec

-----------------------------------------------------------------------------
(* Candidates: numbers and rows.                                           *)

\* The largest of a bounded set of numbers is one of them.
LEMMA LargestOf ==
  ASSUME NEW S \in SUBSET Int, S # {}, NEW N \in Int, \A x \in S : x <= N
  PROVE  Largest(S) \in S /\ \A y \in S : y <= Largest(S)
<1> DEFINE T == {0 .. (N - x) : x \in S}
<1>1. T \subseteq FiniteSubsetsOf(Nat)
  <2> SUFFICES ASSUME NEW x \in S PROVE 0 .. (N - x) \in FiniteSubsetsOf(Nat) OBVIOUS
  <2>1. IsFiniteSet(0 .. (N - x)) BY FS_Interval
  <2>2. 0 .. (N - x) \in SUBSET Nat OBVIOUS
  <2> QED BY <2>1, <2>2 DEF FiniteSubsetsOf
<1>2. T # {} OBVIOUS
<1> HIDE DEF T
<1>3. PICK m \in T : \A t \in T : ~(<<t, m>> \in StrictSubsetOrdering(Nat))
  BY <1>1, <1>2, FS_StrictSubsetOrderingWellFounded, WFMin
<1>4. PICK x \in S : m = 0 .. (N - x) BY <1>3 DEF T
<1>5. ASSUME NEW y \in S PROVE y <= x
  <2> SUFFICES ASSUME y > x PROVE FALSE OBVIOUS
  <2>1. 0 .. (N - y) \in T BY DEF T
  <2>2. 0 .. (N - y) \in SUBSET Nat /\ m \in SUBSET Nat BY <1>4
  <2>3. 0 .. (N - y) \subseteq m BY <1>4
  <2>4. N - x \in m /\ N - x \notin 0 .. (N - y) BY <1>4
  <2>5. <<0 .. (N - y), m>> \in StrictSubsetOrdering(Nat)
    BY <2>2, <2>3, <2>4 DEF StrictSubsetOrdering
  <2> QED BY <1>3, <2>1, <2>5
<1> QED BY <1>5 DEF Largest

\* Rows as the coarse query orders them.
CoarseRow == [bound : Nat, id : Nat]

Ahead(r, rows) == {s \in rows : Precedes(s, r)}

LEMMA RowsAreOrdered ==
  ASSUME NEW r \in CoarseRow, NEW s \in CoarseRow
  PROVE  /\ ~Precedes(r, r)
         /\ r # s => Precedes(r, s) \/ Precedes(s, r)
         /\ \A t \in CoarseRow : Precedes(r, s) /\ Precedes(s, t) => Precedes(r, t)
  BY DEF CoarseRow, Precedes

\* Every set of rows has a first one.
LEMMA FirstRow ==
  ASSUME NEW rows \in SUBSET CoarseRow, IsFiniteSet(rows), rows # {}
  PROVE  \E m \in rows : \A r \in rows \ {m} : Precedes(m, r)
<1> DEFINE T == {Ahead(r, rows) : r \in rows}
<1>1. T \subseteq FiniteSubsetsOf(rows)
  <2> SUFFICES ASSUME NEW r \in rows PROVE Ahead(r, rows) \in FiniteSubsetsOf(rows) OBVIOUS
  <2>1. Ahead(r, rows) \in SUBSET rows BY DEF Ahead
  <2> QED BY <2>1, FS_Subset DEF FiniteSubsetsOf
<1>2. T # {} OBVIOUS
<1> HIDE DEF T
<1>3. PICK t \in T : \A u \in T : ~(<<u, t>> \in StrictSubsetOrdering(rows))
  BY <1>1, <1>2, FS_StrictSubsetOrderingWellFounded, WFMin
<1>4. PICK m \in rows : t = Ahead(m, rows) BY <1>3 DEF T
<1>5. ASSUME NEW r \in rows \ {m} PROVE Precedes(m, r)
  <2> SUFFICES ASSUME ~Precedes(m, r) PROVE FALSE OBVIOUS
  <2>1. Precedes(r, m) BY RowsAreOrdered
  <2>2. Ahead(r, rows) \in T BY DEF T
  <2>3. Ahead(r, rows) \in SUBSET rows /\ t \in SUBSET rows BY <1>4 DEF Ahead
  <2>4. Ahead(r, rows) \subseteq t
    <3> SUFFICES ASSUME NEW s \in rows, Precedes(s, r) PROVE Precedes(s, m)
      BY <1>4 DEF Ahead
    <3> QED BY <2>1, RowsAreOrdered
  <2>5. r \in t /\ r \notin Ahead(r, rows) BY <2>1, <1>4, RowsAreOrdered DEF Ahead
  <2>6. <<Ahead(r, rows), t>> \in StrictSubsetOrdering(rows)
    BY <2>3, <2>4, <2>5 DEF StrictSubsetOrdering
  <2> QED BY <1>3, <2>2, <2>6
<1> QED BY <1>5

LEMMA AheadCounts ==
  ASSUME NEW rows \in SUBSET CoarseRow, IsFiniteSet(rows), NEW r \in rows, NEW s \in rows
  PROVE  /\ IsFiniteSet(Ahead(r, rows)) /\ Cardinality(Ahead(r, rows)) \in Nat
         /\ Precedes(s, r) => /\ Ahead(s, rows) \subseteq Ahead(r, rows)
                              /\ Cardinality(Ahead(s, rows)) < Cardinality(Ahead(r, rows))
<1>1. Ahead(r, rows) \in SUBSET rows BY DEF Ahead
<1>2. IsFiniteSet(Ahead(r, rows)) BY <1>1, FS_Subset
<1>3. Cardinality(Ahead(r, rows)) \in Nat BY <1>2, FS_CardinalityType
<1>4. ASSUME Precedes(s, r)
      PROVE  /\ Ahead(s, rows) \subseteq Ahead(r, rows)
             /\ Cardinality(Ahead(s, rows)) < Cardinality(Ahead(r, rows))
  <2>1. Ahead(s, rows) \subseteq Ahead(r, rows)
    <3> SUFFICES ASSUME NEW u \in rows, Precedes(u, s) PROVE Precedes(u, r) BY DEF Ahead
    <3> QED BY <1>4, RowsAreOrdered
  <2>2. s \in Ahead(r, rows) /\ s \notin Ahead(s, rows) BY <1>4, RowsAreOrdered DEF Ahead
  <2>3. Ahead(s, rows) \in SUBSET Ahead(r, rows) BY <2>1
  <2>4. /\ IsFiniteSet(Ahead(s, rows))
        /\ Cardinality(Ahead(s, rows)) <= Cardinality(Ahead(r, rows))
        /\ Cardinality(Ahead(s, rows)) # Cardinality(Ahead(r, rows))
    BY <2>2, <2>3, <1>2, FS_Subset
  <2>5. Cardinality(Ahead(s, rows)) \in Nat BY <2>4, FS_CardinalityType
  <2> QED BY <2>1, <2>4, <2>5, <1>3
<1> QED BY <1>2, <1>3, <1>4

\* The first n rows are at most n.
LEMMA FirstIsShort ==
  ASSUME NEW rows \in SUBSET CoarseRow, IsFiniteSet(rows), NEW n \in Nat
  PROVE  /\ IsFiniteSet(First(n, rows)) /\ First(n, rows) \subseteq rows
         /\ Cardinality(First(n, rows)) <= n
<1> DEFINE rank == [r \in First(n, rows) |-> Cardinality(Ahead(r, rows))]
<1>1. First(n, rows) \in SUBSET rows BY DEF First
<1>2. IsFiniteSet(First(n, rows)) BY <1>1, FS_Subset
<1>3. rank \in [First(n, rows) -> 0 .. (n - 1)]
  <2> SUFFICES ASSUME NEW r \in First(n, rows)
               PROVE  Cardinality(Ahead(r, rows)) \in 0 .. (n - 1)
    OBVIOUS
  <2>1. r \in rows BY <1>1
  <2>2. Cardinality(Ahead(r, rows)) < n BY DEF First, Ahead
  <2>3. Cardinality(Ahead(r, rows)) \in Nat BY <2>1, AheadCounts
  <2> QED BY <2>2, <2>3
<1>4. \A r, s \in First(n, rows) : rank[r] = rank[s] => r = s
  <2> SUFFICES ASSUME NEW r \in First(n, rows), NEW s \in First(n, rows), r # s
               PROVE  Cardinality(Ahead(r, rows)) # Cardinality(Ahead(s, rows))
    OBVIOUS
  <2>1. r \in rows /\ s \in rows BY <1>1
  <2>2. Cardinality(Ahead(r, rows)) \in Nat /\ Cardinality(Ahead(s, rows)) \in Nat
    BY <2>1, AheadCounts
  <2>3. Precedes(r, s) \/ Precedes(s, r) BY <2>1, RowsAreOrdered
  <2>4. \/ Cardinality(Ahead(r, rows)) < Cardinality(Ahead(s, rows))
        \/ Cardinality(Ahead(s, rows)) < Cardinality(Ahead(r, rows))
    BY <2>1, <2>3, AheadCounts
  <2> QED BY <2>2, <2>4
<1>5. rank \in Injection(First(n, rows), 0 .. (n - 1))
  BY <1>3, <1>4 DEF Injection, IsInjective
<1>6. IsFiniteSet(0 .. (n - 1)) /\ Cardinality(0 .. (n - 1)) = n BY FS_Interval
<1> HIDE DEF rank
<1>7. Cardinality(First(n, rows)) <= Cardinality(0 .. (n - 1)) BY <1>5, <1>6, FS_Injection
<1> QED BY <1>1, <1>2, <1>6, <1>7

\* The first n of one more are the first n.
LEMMA FirstOfFirst ==
  ASSUME NEW rows \in SUBSET CoarseRow, IsFiniteSet(rows), NEW n \in Nat
  PROVE  First(n, First(n + 1, rows)) = First(n, rows)
<1> DEFINE more == First(n + 1, rows)
<1>0. more \subseteq rows BY DEF First
<1>1. ASSUME NEW r \in more PROVE Ahead(r, more) = Ahead(r, rows)
  <2>1. Cardinality(Ahead(r, rows)) < n + 1 BY DEF First, Ahead
  <2>2. ASSUME NEW s \in rows, Precedes(s, r) PROVE s \in more
    <3>1. r \in rows BY <1>0
    <3>2. Cardinality(Ahead(s, rows)) < Cardinality(Ahead(r, rows))
      BY <3>1, <2>2, AheadCounts
    <3>3. Cardinality(Ahead(s, rows)) \in Nat /\ Cardinality(Ahead(r, rows)) \in Nat
      BY <3>1, AheadCounts
    <3>4. Cardinality(Ahead(s, rows)) < n + 1 BY <2>1, <3>2, <3>3
    <3> QED BY <3>4 DEF First, Ahead
  <2> HIDE DEF more
  <2> QED BY <2>2, <1>0 DEF Ahead
<1>2. ASSUME NEW r \in rows, Cardinality(Ahead(r, rows)) < n PROVE r \in more
  <2>1. Cardinality(Ahead(r, rows)) \in Nat BY AheadCounts
  <2>2. Cardinality(Ahead(r, rows)) < n + 1 BY <2>1, <1>2
  <2> QED BY <2>2 DEF First, Ahead
<1>3. First(n, more) = {r \in more : Cardinality(Ahead(r, more)) < n} BY DEF First, Ahead
<1>4. First(n, rows) = {r \in rows : Cardinality(Ahead(r, rows)) < n} BY DEF First, Ahead
<1> HIDE DEF more
<1>5. First(n, more) = First(n, rows) BY <1>0, <1>1, <1>2, <1>3, <1>4
<1> QED BY <1>5 DEF more

\* If rows are left after the first n, the row after these has the largest bound left.
LEMMA NextRowLeads ==
  ASSUME NEW rows \in SUBSET CoarseRow, IsFiniteSet(rows), NEW n \in Nat,
         rows \ First(n, rows) # {}
  PROVE  \E m \in First(n + 1, rows) \ First(n, rows) :
            \A r \in rows \ First(n, rows) : r.bound <= m.bound
<1> DEFINE left == rows \ First(n, rows)
<1>1. left \in SUBSET rows /\ left \in SUBSET CoarseRow /\ IsFiniteSet(left) BY FS_Subset
<1>2. PICK m \in left : \A r \in left \ {m} : Precedes(m, r) BY <1>1, FirstRow
<1>3. Ahead(m, rows) \subseteq First(n, rows)
  <2> SUFFICES ASSUME NEW s \in rows, Precedes(s, m), s \notin First(n, rows) PROVE FALSE
    BY DEF Ahead
  <2>1. s \in left /\ m \in CoarseRow /\ s \in CoarseRow BY <1>1, <1>2
  <2>2. s # m BY <2>1, RowsAreOrdered
  <2>3. Precedes(m, s) BY <2>1, <2>2, <1>2
  <2>4. Precedes(m, m) BY <2>1, <2>3, RowsAreOrdered
  <2> QED BY <2>1, <2>4, RowsAreOrdered
<1>4. Cardinality(Ahead(m, rows)) < n + 1
  <2>1. IsFiniteSet(First(n, rows)) /\ Cardinality(First(n, rows)) <= n BY FirstIsShort
  <2>2. Ahead(m, rows) \in SUBSET First(n, rows) BY <1>3
  <2>3. Cardinality(Ahead(m, rows)) <= Cardinality(First(n, rows)) BY <2>1, <2>2, FS_Subset
  <2>4. Cardinality(First(n, rows)) \in Nat BY <2>1, FS_CardinalityType
  <2>5. m \in rows BY <1>1
  <2>6. Cardinality(Ahead(m, rows)) \in Nat BY <2>5, AheadCounts
  <2> QED BY <2>1, <2>3, <2>4, <2>6
<1>5. m \in First(n + 1, rows) BY <1>4, <1>1 DEF First, Ahead
<1>6. \A r \in left : r.bound <= m.bound
  <2> SUFFICES ASSUME NEW r \in left PROVE r.bound <= m.bound OBVIOUS
  <2>1. r = m \/ Precedes(m, r) BY <1>2
  <2>2. r \in CoarseRow /\ m \in CoarseRow BY <1>1
  <2> HIDE DEF left
  <2> QED BY <2>1, <2>2 DEF Precedes, CoarseRow
<1> QED BY <1>2, <1>5, <1>6


-----------------------------------------------------------------------------
(* Scores.                                                                 *)

LEMMA Shares ==
  \A a \in Nat, n \in Nat \ {0} : a <= n => (a * Unit) \div n \in 0 .. Unit
<1> SUFFICES ASSUME NEW a \in Nat, NEW n \in Nat \ {0}, a <= n
             PROVE  (a * 2) \div n \in 0 .. 2
  BY DEF Unit
<1> DEFINE q == (a * 2) \div n
           r == (a * 2) % n
<1>1. q \in Int /\ r \in 0 .. (n - 1) /\ a * 2 = n * q + r OBVIOUS
<1> HIDE DEF q, r
<1>2. q >= 0
  <2> SUFFICES ASSUME q <= -1 PROVE FALSE BY <1>1
  <2>1. n * (q + 1) <= 0 BY <1>1
  <2>2. n * (q + 1) = n * q + n BY <1>1
  <2> QED BY <1>1, <2>1, <2>2
<1>3. q <= 2
  <2> SUFFICES ASSUME q >= 3 PROVE FALSE BY <1>1
  <2>1. n * (q - 3) >= 0 BY <1>1
  <2>2. n * (q - 3) = n * q - n * 3 BY <1>1
  <2> QED BY <1>1, <2>1, <2>2
<1>4. q \in 0 .. 2 BY <1>1, <1>2, <1>3
<1> QED BY <1>4 DEF q

\* A mean is at most what nothing is above.
LEMMA MeanIsBounded ==
  \A a \in Nat, n \in Nat \ {0}, m \in Nat : a <= m * n => a \div n \in 0 .. m
<1> SUFFICES ASSUME NEW a \in Nat, NEW n \in Nat \ {0}, NEW m \in Nat, a <= m * n
             PROVE  a \div n \in 0 .. m
  OBVIOUS
<1> DEFINE q == a \div n
           r == a % n
<1>1. q \in Int /\ r \in 0 .. (n - 1) /\ a = n * q + r OBVIOUS
<1> HIDE DEF q, r
<1>2. q >= 0
  <2> SUFFICES ASSUME q <= -1 PROVE FALSE BY <1>1
  <2>1. n * (q + 1) <= 0 BY <1>1
  <2>2. n * (q + 1) = n * q + n BY <1>1
  <2> QED BY <1>1, <2>1, <2>2
<1>3. q <= m
  <2> SUFFICES ASSUME q >= m + 1 PROVE FALSE BY <1>1
  <2>1. n * (q - (m + 1)) >= 0 BY <1>1
  <2>2. n * (q - (m + 1)) = n * q - m * n - n BY <1>1
  <2> QED BY <1>1, <2>1, <2>2
<1>4. q \in 0 .. m BY <1>1, <1>2, <1>3
<1> QED BY <1>4 DEF q

\* Two stays that meet: the days they share, and the distance between them.
LEMMA MeetingPairs ==
  ASSUME NEW a \in Segment, NEW b \in Segment
  PROVE  /\ Meet(a, b) <=> Overlap(a, b) > 0
         /\ Overlap(a, b) \in Int /\ Distance(a, b) \in Nat
         /\ Least(Stay(a), Stay(b)) \in Nat \ {0}
         /\ Overlap(a, b) <= Least(Stay(a), Stay(b))
         /\ a.place \in Nat /\ b.place \in Nat
  BY SMT DEF Segment, Meet, Overlap, Least, Greatest, Stay, Distance, Magnitude

Scores == 0 .. 10 * Unit

LEMMA ScoresAre == \A s \in Scores : s \in Int /\ 0 <= s /\ s <= 20
  BY DEF Scores, Unit

LEMMA AgainstTheBest == \A s, t, m \in Scores : s <= t /\ t <= m => s <= m
  BY ScoresAre

LEMMA TheSameScore == \A s, t \in Scores : s <= t /\ t <= s => s = t
  BY ScoresAre

LEMMA LargestScore ==
  ASSUME NEW S \in SUBSET Scores, S # {}
  PROVE  Largest(S) \in S /\ \A s \in S : s <= Largest(S)
<1>1. S \in SUBSET Int /\ \A s \in S : s <= 20 BY ScoresAre
<1> QED BY <1>1, LargestOf

LEMMA ContextIs ==
  ASSUME NEW v \in Traveller
  PROVE  /\ Context(v).segments = Upcoming(v) /\ Context(v).style = v.style
         /\ Context(v).interests = v.interests /\ Context(v).radius = AnchorRadius(v)
         /\ Upcoming(v) \in SUBSET Segment /\ IsFiniteSet(Upcoming(v))
<1>1. v.segments \in SUBSET Segment /\ IsFiniteSet(v.segments) BY DEF Traveller
<1>2. Upcoming(v) \in SUBSET v.segments BY DEF Upcoming
<1>3. IsFiniteSet(Upcoming(v)) BY <1>1, <1>2, FS_Subset
<1> QED BY <1>1, <1>2, <1>3 DEF Context, AnchorRadius

LEMMA RadiusIs ==
  ASSUME NEW v \in Traveller
  PROVE  AnchorRadius(v) \in {1, 2}
<1>1. Radius \in {1, 2} /\ v.maxDistance \in {1, 2} BY CandidatesAssumption DEF Traveller
<1> QED BY <1>1 DEF AnchorRadius, Least

\* What the service computes of a pair is what PostgreSQL computes of an
\* anchored one, and nothing for the others.
LEMMA PairsAgree ==
  ASSUME NEW v \in Traveller, NEW a \in Segment, NEW b \in Segment
  PROVE  /\ PairScore(Context(v), a, b) \in Scores
         /\ IF Meet(a, b) /\ Distance(a, b) <= AnchorRadius(v)
            THEN PairScore(Context(v), a, b) = PairBound(v, a, b)
            ELSE PairScore(Context(v), a, b) = 0
<1> DEFINE o == Overlap(a, b)
           d == Distance(a, b)
           n == Least(Stay(a), Stay(b))
           x == Context(v)
           R == AnchorRadius(v)
           place == IF a.place # 0 /\ a.place = b.place THEN Unit ELSE 0
           days == (o * Unit) \div n
           near == Greatest(0, Unit - (d * Unit) \div R)
<1>1. /\ Meet(a, b) <=> o > 0
      /\ o \in Int /\ d \in Nat /\ n \in Nat \ {0} /\ o <= n
  BY MeetingPairs
<1>2. R \in {1, 2} /\ x.radius = R BY RadiusIs, ContextIs
<1>3. CASE o > 0 /\ d <= R
  <2>1. PairScore(x, a, b) = 2 * place + 5 * days + 3 * near
    <3>1. ~(o <= 0 \/ d > x.radius) BY <1>1, <1>2, <1>3
    <3>2. (a.place # 0 /\ b.place # 0 /\ a.place = b.place)
             <=> (a.place # 0 /\ a.place = b.place)
      OBVIOUS
    <3> QED BY <3>1, <3>2, <1>2 DEF PairScore
  <2>2. PairBound(v, a, b) = 2 * place + 5 * days + 3 * near BY DEF PairBound
  <2>3. days \in 0 .. Unit
    <3> HIDE DEF o, n
    <3>1. o \in Nat /\ n \in Nat \ {0} /\ o <= n BY <1>1, <1>3
    <3> QED BY <3>1, Shares
  <2>4. near \in 0 .. Unit
    <3> HIDE DEF d, R
    <3>1. d \in Nat /\ R \in Nat \ {0} /\ d <= R BY <1>1, <1>2, <1>3
    <3>2. (d * Unit) \div R \in 0 .. Unit BY <3>1, Shares
    <3> HIDE DEF near
    <3>3. near = Greatest(0, Unit - (d * Unit) \div R) BY DEF near
    <3> QED BY <3>2, <3>3 DEF Greatest, Unit
  <2>5. place \in 0 .. Unit BY DEF Unit
  <2>6. 2 * place + 5 * days + 3 * near \in Scores
    <3> HIDE DEF place, days, near
    <3> QED BY <2>3, <2>4, <2>5 DEF Scores, Unit
  <2> QED BY <1>1, <1>3, <2>1, <2>2, <2>6
<1>4. CASE ~(o > 0 /\ d <= R)
  <2>1. o <= 0 \/ d > x.radius BY <1>1, <1>2, <1>4
  <2>2. PairScore(x, a, b) = 0 BY <2>1 DEF PairScore
  <2>3. 0 \in Scores BY DEF Scores, Unit
  <2> QED BY <1>1, <1>4, <2>2, <2>3
<1> QED BY <1>3, <1>4

\* The best pair of each of the viewer's stays, and of all of them.
LEMMA BestIs ==
  ASSUME NEW v \in Traveller, NEW P \in SUBSET Segment, NEW a \in Segment
  PROVE  /\ Best(Context(v), a, P) \in Scores
         /\ \A b \in P : PairScore(Context(v), a, b) <= Best(Context(v), a, P)
         /\ Best(Context(v), a, P) \in {PairScore(Context(v), a, b) : b \in P} \cup {0}
<1> DEFINE S == {PairScore(Context(v), a, b) : b \in P} \cup {0}
<1>1. S \subseteq Scores
  <2>1. \A b \in P : PairScore(Context(v), a, b) \in Scores BY PairsAgree
  <2>2. 0 \in Scores BY DEF Scores, Unit
  <2> QED BY <2>1, <2>2
<1>2. S # {} OBVIOUS
<1>3. Best(Context(v), a, P) = Largest(S) BY DEF Best
<1> HIDE DEF S
<1>4. Largest(S) \in S /\ \A s \in S : s <= Largest(S) BY <1>1, <1>2, LargestScore
<1> QED BY <1>1, <1>3, <1>4 DEF S

LEMMA BestPairIs ==
  ASSUME NEW v \in Traveller, NEW P \in SUBSET Segment
  PROVE  /\ BestPair(Context(v), P) \in Scores
         /\ \A a \in Upcoming(v) : Best(Context(v), a, P) <= BestPair(Context(v), P)
         /\ \/ BestPair(Context(v), P) = 0
            \/ \E a \in Upcoming(v), b \in P :
                  BestPair(Context(v), P) = PairScore(Context(v), a, b)
<1> DEFINE S == {Best(Context(v), a, P) : a \in Context(v).segments} \cup {0}
<1>0. Context(v).segments = Upcoming(v) /\ Upcoming(v) \in SUBSET Segment BY ContextIs
<1>1. S \subseteq Scores
  <2>1. \A a \in Upcoming(v) : Best(Context(v), a, P) \in Scores BY <1>0, BestIs
  <2>2. 0 \in Scores BY DEF Scores, Unit
  <2> QED BY <2>1, <2>2, <1>0
<1>2. S # {} OBVIOUS
<1>3. BestPair(Context(v), P) = Largest(S) BY DEF BestPair
<1> HIDE DEF S
<1>4. Largest(S) \in S /\ \A s \in S : s <= Largest(S) BY <1>1, <1>2, LargestScore
<1>5. \A a \in Upcoming(v) : Best(Context(v), a, P) \in S BY <1>0 DEF S
<1>6. ASSUME Largest(S) # 0
      PROVE  \E a \in Upcoming(v), b \in P : Largest(S) = PairScore(Context(v), a, b)
  <2>1. PICK a \in Upcoming(v) : Largest(S) = Best(Context(v), a, P)
    BY <1>0, <1>4, <1>6 DEF S
  <2>2. a \in Segment BY <1>0
  <2>3. Best(Context(v), a, P) \in {PairScore(Context(v), a, b) : b \in P} BY <2>1, <2>2, <1>6, BestIs
  <2> QED BY <2>1, <2>3
<1> QED BY <1>1, <1>3, <1>4, <1>5, <1>6

\* The two computations of the bound of the itinerary agree.
LEMMA ItineraryBoundIs ==
  ASSUME NEW v \in Traveller, NEW p \in Traveller
  PROVE  ItineraryBound(v, p) = 8 * BestPair(Context(v), Upcoming(p))
<1> DEFINE A == {PairBound(v, pair[1], pair[2]) : pair \in AnchoredPairs(v, p)} \cup {0}
           M == BestPair(Context(v), Upcoming(p))
<1>0. Upcoming(v) \in SUBSET Segment /\ Upcoming(p) \in SUBSET Segment BY ContextIs
<1>1. ASSUME NEW s \in A PROVE s \in Scores /\ s <= M
  <2>1. CASE s = 0
    <3>1. M \in Scores BY <1>0, BestPairIs
    <3> HIDE DEF M
    <3> QED BY <2>1, <3>1 DEF Scores, Unit
  <2>2. CASE s # 0
    <3>1. PICK pair \in AnchoredPairs(v, p) : s = PairBound(v, pair[1], pair[2]) BY <2>2
    <3> DEFINE a == pair[1]
               b == pair[2]
    <3>2. /\ a \in Upcoming(v) /\ b \in Upcoming(p)
          /\ Meet(a, b) /\ Distance(a, b) <= AnchorRadius(v)
      BY <3>1 DEF AnchoredPairs
    <3> HIDE DEF a, b
    <3>3. a \in Segment /\ b \in Segment BY <3>2, <1>0
    <3>4. s = PairScore(Context(v), a, b) /\ s \in Scores
      <4>1. s = PairBound(v, a, b) BY <3>1 DEF a, b
      <4> QED BY <4>1, <3>2, <3>3, PairsAgree
    <3>5. s <= Best(Context(v), a, Upcoming(p)) /\ Best(Context(v), a, Upcoming(p)) \in Scores
      BY <3>2, <3>3, <3>4, <1>0, BestIs
    <3>6. Best(Context(v), a, Upcoming(p)) <= M /\ M \in Scores BY <3>2, <1>0, BestPairIs
    <3> HIDE DEF M, A
    <3> QED BY <3>4, <3>5, <3>6, AgainstTheBest
  <2> QED BY <2>1, <2>2
<1>2. M \in A
  <2>1. CASE M = 0 BY <2>1
  <2>2. CASE M # 0
    <3>1. PICK a \in Upcoming(v), b \in Upcoming(p) : M = PairScore(Context(v), a, b)
      BY <2>2, <1>0, BestPairIs
    <3>2. a \in Segment /\ b \in Segment BY <1>0
    <3>3. /\ Meet(a, b) /\ Distance(a, b) <= AnchorRadius(v)
          /\ M = PairBound(v, a, b)
      BY <3>1, <3>2, <2>2, PairsAgree
    <3>4. <<a, b>> \in AnchoredPairs(v, p) BY <3>1, <3>3 DEF AnchoredPairs
    <3> QED BY <3>3, <3>4
  <2> QED BY <2>1, <2>2
<1>3. A \in SUBSET Scores /\ A # {}
  <2> HIDE DEF A
  <2> QED BY <1>1, <1>2
<1>4. ItineraryBound(v, p) = 8 * Largest(A) BY DEF ItineraryBound
<1> HIDE DEF A
<1>5. Largest(A) \in A /\ \A s \in A : s <= Largest(A) BY <1>3, LargestScore
<1>6. Largest(A) = M
  <2>1. M <= Largest(A) /\ Largest(A) <= M BY <1>1, <1>2, <1>5
  <2>2. M \in Scores /\ Largest(A) \in Scores BY <1>2, <1>3, <1>5
  <2> HIDE DEF M
  <2> QED BY <2>1, <2>2, TheSameScore
<1> QED BY <1>4, <1>6


LEMMA TotalIsBounded ==
  ASSUME NEW S, IsFiniteSet(S), NEW m \in Scores, NEW f \in [S -> Scores],
         \A a \in S : f[a] <= m
  PROVE  Total(f, S) \in Nat /\ Total(f, S) <= m * Cardinality(S)
<1> DEFINE T == {point \in S \X (1 .. 10 * Unit) : point[2] <= f[point[1]]}
<1>1. m \in Nat BY ScoresAre
<1>2. T \in SUBSET (S \X (1 .. m))
  <2> SUFFICES ASSUME NEW a \in S, NEW n \in 1 .. 10 * Unit, n <= f[a]
               PROVE  n \in 1 .. m
    OBVIOUS
  <2>1. f[a] <= m /\ f[a] \in Int /\ n \in Int /\ 1 <= n BY ScoresAre DEF Unit
  <2> QED BY <2>1, <1>1
<1>3. IsFiniteSet(1 .. m) /\ Cardinality(1 .. m) = m
  BY <1>1, FS_Interval
<1>4. /\ IsFiniteSet(S \X (1 .. m))
      /\ Cardinality(S \X (1 .. m)) = Cardinality(S) * Cardinality(1 .. m)
  BY <1>3, FS_Product
<1> HIDE DEF T
<1>5. IsFiniteSet(T) /\ Cardinality(T) <= Cardinality(S \X (1 .. m)) BY <1>2, <1>4, FS_Subset
<1>6. Cardinality(T) \in Nat /\ Cardinality(S) \in Nat BY <1>5, FS_CardinalityType
<1>7. Cardinality(S) * m = m * Cardinality(S) BY <1>1, <1>6
<1>8. Total(f, S) = Cardinality(T) BY DEF Total, T
<1> QED BY <1>3, <1>4, <1>5, <1>6, <1>7, <1>8

\* No itinerary scores more than eight times its best pair.
LEMMA ItineraryIsBounded ==
  ASSUME NEW v \in Traveller, NEW P \in SUBSET Segment
  PROVE  /\ ItineraryScore(Context(v), P) \in Nat
         /\ ItineraryScore(Context(v), P) <= 8 * BestPair(Context(v), P)
<1> DEFINE x == Context(v)
           m == BestPair(x, P)
           S == Upcoming(v)
           best == [a \in S |-> Best(x, a, P)]
           T == Total(best, S)
           n == Cardinality(S)
<1>1. x.segments = S /\ S \in SUBSET Segment /\ IsFiniteSet(S) BY ContextIs
<1>2. m \in Scores /\ \A a \in S : Best(x, a, P) <= m BY BestPairIs
<1>3. m \in Nat BY <1>2, ScoresAre
<1>4. best \in [S -> Scores] BY <1>1, BestIs
<1>5. T \in Nat /\ T <= m * n
  <2> HIDE DEF m, x, S
  <2>1. \A a \in S : best[a] <= m BY <1>2
  <2> HIDE DEF best
  <2> QED BY <2>1, <1>1, <1>2, <1>4, TotalIsBounded
<1>6. Breadth \in 0 .. 4 BY CandidatesAssumption
<1>7. CASE S = {} \/ P = {}
  <2>1. ItineraryScore(x, P) = 0 BY <1>1, <1>7 DEF ItineraryScore
  <2> QED BY <2>1, <1>3
<1>8. CASE ~(S = {} \/ P = {})
  <2>1. n \in Nat \ {0} BY <1>1, <1>8, FS_EmptySet, FS_CardinalityType
  <2>2. ItineraryScore(x, P) = 2 * (4 - Breadth) * m + (2 * Breadth * T) \div n
    BY <1>1, <1>8 DEF ItineraryScore
  <2> HIDE DEF m, n, T
  <2>3. 2 * Breadth * T \in Nat /\ 2 * Breadth * m \in Nat BY <1>3, <1>5, <1>6
  <2>4. 2 * Breadth * T <= (2 * Breadth * m) * n
    <3>1. m * n \in Nat BY <1>3, <2>1
    <3>2. Breadth = 0 \/ Breadth = 1 \/ Breadth = 2 \/ Breadth = 3 \/ Breadth = 4 BY <1>6
    <3>3. (2 * Breadth * m) * n = 2 * Breadth * (m * n) BY <1>3, <1>6, <2>1
    <3> DEFINE mn == m * n
    <3> HIDE DEF mn
    <3>4. 2 * Breadth * T <= 2 * Breadth * mn
      <4>1. T \in Nat /\ mn \in Nat /\ T <= mn BY <1>5, <3>1 DEF mn
      <4> QED BY <4>1, <3>2
    <3> QED BY <3>3, <3>4 DEF mn
  <2> DEFINE q == (2 * Breadth * T) \div n
             u == 2 * Breadth * m
  <2>5. q \in 0 .. u BY <2>1, <2>3, <2>4, MeanIsBounded
  <2>6. 2 * (4 - Breadth) * m + u = 8 * m /\ 2 * (4 - Breadth) * m \in Nat BY <1>3, <1>6
  <2> HIDE DEF q, u
  <2>7. u \in Nat BY <2>3 DEF u
  <2>8. 2 * (4 - Breadth) * m + q \in Nat /\ 2 * (4 - Breadth) * m + q <= 8 * m
    BY <2>5, <2>6, <2>7, <1>3
  <2>9. ItineraryScore(x, P) = 2 * (4 - Breadth) * m + q BY <2>2 DEF q
  <2> QED BY <2>8, <2>9 DEF m
<1> QED BY <1>7, <1>8

LEMMA Quotients ==
  \A a \in Nat, n \in Nat \ {0} : (a * One) \div n \in Nat
<1> SUFFICES ASSUME NEW a \in Nat, NEW n \in Nat \ {0} PROVE (a * 160) \div n \in Nat
  BY DEF One
<1>1. a * 160 \in Nat /\ a * 160 <= (a * 160) * n
  <2>1. n >= 1 /\ a * 160 >= 0 OBVIOUS
  <2>2. (a * 160) * (n - 1) >= 0 BY <2>1
  <2> QED BY <2>1, <2>2
<1> QED BY <1>1, MeanIsBounded

LEMMA SharedInterests ==
  ASSUME NEW a \in SUBSET {1, 2}, NEW b \in SUBSET {1, 2}
  PROVE  Jaccard(a, b) \in Nat
<1>1. IsFiniteSet({1, 2})
  <2>1. IsFiniteSet({1}) BY FS_Singleton
  <2>2. IsFiniteSet({1} \cup {2}) BY <2>1, FS_AddElement
  <2>3. {1} \cup {2} = {1, 2} OBVIOUS
  <2> QED BY <2>2, <2>3
<1>2. a \cap b \in SUBSET {1, 2} /\ a \cup b \in SUBSET {1, 2} OBVIOUS
<1>3. IsFiniteSet(a \cap b) /\ IsFiniteSet(a \cup b) BY <1>1, <1>2, FS_Subset
<1>4. Cardinality(a \cap b) \in Nat /\ Cardinality(a \cup b) \in Nat BY <1>3, FS_CardinalityType
<1>5. a \cup b # {} => Cardinality(a \cup b) # 0 BY <1>3, FS_EmptySet
<1> QED BY <1>4, <1>5, Quotients DEF Jaccard

\* The two computations of the bound agree: the failure that the service keeps
\* for their difference says something of time, not of arithmetic.
LEMMA BoundsAgree ==
  ASSUME NEW v \in Traveller, NEW p \in Traveller
  PROVE  /\ UpperBound(Context(v), p) = MatchBound(v, p)
         /\ MatchBound(v, p) \in Nat
         /\ Fixed(Context(v), p) \in Nat
<1> DEFINE t == (p.trust * One) \div 10
           g == Magnitude(v.style - p.style)
           s == (g * One) \div 4
           j == Jaccard(v.interests, p.interests)
           m == BestPair(Context(v), Upcoming(p))
<1>0. /\ p.trust \in 0 .. 10 /\ v.style \in 1 .. 5 /\ p.style \in 1 .. 5
      /\ v.interests \in SUBSET {1, 2} /\ p.interests \in SUBSET {1, 2}
  BY DEF Traveller
<1>1. t \in Nat
  <2>1. p.trust \in Nat /\ 10 \in Nat \ {0} BY <1>0
  <2> QED BY <2>1, Quotients
<1>2. g \in 0 .. 4 /\ Magnitude(p.style - v.style) = g BY <1>0 DEF Magnitude
<1>3. s \in 0 .. 160
  <2> HIDE DEF g
  <2>1. g = 0 \/ g = 1 \/ g = 2 \/ g = 3 \/ g = 4 BY <1>2
  <2>2. /\ (0 * 160) \div 4 = 0 /\ (1 * 160) \div 4 = 40 /\ (2 * 160) \div 4 = 80
        /\ (3 * 160) \div 4 = 120 /\ (4 * 160) \div 4 = 160
    OBVIOUS
  <2>3. s \in {0, 40, 80, 120, 160} BY <2>1, <2>2 DEF One
  <2> HIDE DEF s
  <2> QED BY <2>3
<1>4. j \in Nat BY <1>0, SharedInterests
<1>5. Fixed(Context(v), p) = 3 * t + 2 * (One - s) + j BY ContextIs DEF Fixed
<1>6. MatchBound(v, p) = 4 * (8 * m) + 3 * t + 2 * (One - s) + j
  BY <1>2, ItineraryBoundIs DEF MatchBound
<1>7. UpperBound(Context(v), p) = 4 * (8 * m) + Fixed(Context(v), p) BY DEF UpperBound
<1>8. 2 * (One - s) \in Nat
  <2> HIDE DEF s
  <2> QED BY <1>3 DEF One
<1>9. m \in Nat
  <2>1. Upcoming(p) \in SUBSET Segment BY ContextIs
  <2> QED BY <2>1, BestPairIs, ScoresAre
<1> QED
  <2> HIDE DEF t, s, j, m
  <2> QED BY <1>1, <1>4, <1>5, <1>6, <1>7, <1>8, <1>9

\* No exact score is above the bound.
LEMMA ScoreIsBounded ==
  ASSUME NEW v \in Traveller, NEW p \in Traveller
  PROVE  /\ MatchScore(Context(v), p) \in Nat
         /\ MatchScore(Context(v), p) <= MatchBound(v, p)
<1> DEFINE i == ItineraryScore(Context(v), Upcoming(p))
           m == BestPair(Context(v), Upcoming(p))
           f == Fixed(Context(v), p)
<1>1. Upcoming(p) \in SUBSET Segment BY ContextIs
<1>2. i \in Nat /\ i <= 8 * m /\ m \in Nat BY <1>1, ItineraryIsBounded, BestPairIs, ScoresAre
<1>3. f \in Nat /\ MatchBound(v, p) = 4 * (8 * m) + f BY BoundsAgree DEF UpperBound
<1>4. MatchScore(Context(v), p) = 4 * i + f BY DEF MatchScore
<1> HIDE DEF i, m, f
<1> QED BY <1>2, <1>3, <1>4

\* Every set of rows has a last one.
LEMMA LastRow ==
  ASSUME NEW rows \in SUBSET CoarseRow, IsFiniteSet(rows), rows # {}
  PROVE  \E m \in rows : \A r \in rows \ {m} : Precedes(r, m)
<1> DEFINE ranks == {Cardinality(Ahead(r, rows)) : r \in rows}
<1>1. Cardinality(rows) \in Nat BY FS_CardinalityType
<1>2. \A x \in ranks : x \in Int /\ x <= Cardinality(rows)
  <2> SUFFICES ASSUME NEW r \in rows
               PROVE  /\ Cardinality(Ahead(r, rows)) \in Int
                      /\ Cardinality(Ahead(r, rows)) <= Cardinality(rows)
    OBVIOUS
  <2>1. Ahead(r, rows) \in SUBSET rows BY DEF Ahead
  <2> QED BY <2>1, AheadCounts, FS_Subset
<1>3. ranks # {} OBVIOUS
<1> HIDE DEF ranks
<1>4. Largest(ranks) \in ranks /\ \A x \in ranks : x <= Largest(ranks)
  <2>1. ranks \in SUBSET Int /\ Cardinality(rows) \in Int BY <1>1, <1>2
  <2> HIDE DEF Largest
  <2> QED BY <2>1, <1>2, <1>3, LargestOf
<1>5. PICK m \in rows : \A r \in rows : Cardinality(Ahead(r, rows)) <= Cardinality(Ahead(m, rows))
  BY <1>4 DEF ranks
<1>6. ASSUME NEW r \in rows \ {m} PROVE Precedes(r, m)
  <2> SUFFICES ASSUME Precedes(m, r) PROVE FALSE BY RowsAreOrdered
  <2>1. Cardinality(Ahead(m, rows)) < Cardinality(Ahead(r, rows)) BY AheadCounts
  <2> QED BY <2>1, <1>5, AheadCounts
<1> QED BY <1>6

\* The first n rows come before all others.
LEMMA FirstPrecedes ==
  ASSUME NEW rows \in SUBSET CoarseRow, IsFiniteSet(rows), NEW n \in Nat,
         NEW r \in First(n, rows), NEW s \in rows \ First(n, rows)
  PROVE  Precedes(r, s)
<1>1. r \in rows /\ Cardinality(Ahead(r, rows)) < n BY DEF First, Ahead
<1>2. ~(Cardinality(Ahead(s, rows)) < n) BY DEF First, Ahead
<1> SUFFICES ASSUME ~Precedes(r, s) PROVE FALSE OBVIOUS
<1>3. Precedes(s, r) BY <1>1, RowsAreOrdered
<1>4. Cardinality(Ahead(s, rows)) < Cardinality(Ahead(r, rows)) BY <1>1, <1>3, AheadCounts
<1>5. Cardinality(Ahead(s, rows)) \in Nat /\ Cardinality(Ahead(r, rows)) \in Nat
  BY <1>1, AheadCounts
<1> QED BY <1>1, <1>2, <1>4, <1>5

-----------------------------------------------------------------------------
(* Batches.                                                                *)

RankingOK ==
  /\ DOMAIN ranking.score \subseteq Candidates
  /\ \A c \in DOMAIN ranking.score : ranking.score[c] \in Nat
  /\ ranking.next \in Nat \cup {None}

CandidatesTypeOK ==
  /\ viewer \in DOMAIN Viewers /\ person \in [Candidates -> DOMAIN People]
  /\ swiped \subseteq Candidates /\ changes \in Nat
  /\ stage \in {"idle", "loaded", "ranked", "failed"}
  /\ stage = "loaded" => context \in DOMAIN Viewers
  /\ loadedAt \in 0 .. changes /\ rankedAt \in 0 .. changes
  /\ examined \subseteq DOMAIN ranking.score /\ page.shown \subseteq examined
  /\ page.exact \in BOOLEAN
  /\ RankingOK

\* Between the two queries nothing is shown, and the context is still true
\* unless PostgreSQL has changed since.
LoadedIsFresh ==
  stage = "loaded" =>
    /\ ranking = NoRanking /\ page = NoPage
    /\ loadedAt = changes => context = viewer

\* Whoever was scored can be swiped for as long as nothing changes.
ScoredCanBeSwiped ==
  rankedAt = changes => \A c \in DOMAIN ranking.score : isPairEligible(c)

\* The row after the last one bounds everyone who was not scored.
NextBoundsMissed ==
  /\ missed <= ranking.next /\ missed \in Nat \cup {None}
  /\ ranking.next = None => missed = None

\* The row of c in the coarse query, and whether it comes after another one.
RowOf(c) == [bound |-> MatchBound(Viewer, Person(c)), id |-> c]
ComesAfter(c, row) == row = NoRow \/ Precedes(row, RowOf(c))

\* Whoever the walk has not been through and has not moved is behind its cursor.
OthersFollow(row, through) == \A c \in Ranked \ (through \cup moved) : ComesAfter(c, row)

WalkGoesOn ==
  /\ stage = "loaded" => OthersFollow(cursor, walked)
  /\ stage = "ranked" => OthersFollow(ranking.cursor, walked \cup DOMAIN ranking.score)

RankingInv ==
  /\ WalkGoesOn
  /\ CandidatesTypeOK /\ LoadedIsFresh /\ ScoredCanBeSwiped /\ NextBoundsMissed
  /\ ParityHolds /\ ExactMeansExact


LEMMA TravellersAre ==
  /\ \A i \in DOMAIN Viewers : Viewers[i] \in Traveller
  /\ \A i \in DOMAIN People : People[i] \in Traveller
<1>1. Viewers \in Seq(Traveller) /\ People \in Seq(Traveller) BY CandidatesAssumption
<1> HIDE DEF Traveller
<1> QED BY <1>1

\* Whoever the coarse query finds, a swipe accepts.
LEMMA EligibleIsPairEligible ==
  ASSUME NEW v, NEW p, Eligible(v, p)
  PROVE  PairEligible(v, p)
<1>1. PICK pair \in AnchoredPairs(v, p) : TRUE BY DEF Eligible
<1>2. /\ pair[1] \in Upcoming(v) /\ pair[2] \in Upcoming(p)
      /\ Meet(pair[1], pair[2]) /\ Distance(pair[1], pair[2]) <= AnchorRadius(v)
  BY <1>1 DEF AnchoredPairs
<1> QED BY <1>2 DEF Eligible, PairEligible, AgesAgree

LEMMA NothingIsRanked ==
  /\ DOMAIN NoRanking.score = {} /\ NoRanking.next = None
  /\ NoPage.shown = {} /\ NoPage.exact = FALSE
  BY DEF NoRanking, NoPage

LEMMA RankingInit == CandidatesInit => RankingInv
<1> SUFFICES ASSUME CandidatesInit PROVE RankingInv OBVIOUS
<1>1. DOMAIN ranking.score = {} /\ ranking.next = None /\ page.shown = {} /\ page.exact = FALSE
  BY NothingIsRanked DEF CandidatesInit
<1>2. RankingOK /\ page.exact \in BOOLEAN BY <1>1 DEF RankingOK
<1>3. CandidatesTypeOK
  BY <1>1, <1>2 DEF CandidatesInit, CandidatesTypeOK
<1>4. LoadedIsFresh /\ ScoredCanBeSwiped /\ NextBoundsMissed /\ ParityHolds /\ ExactMeansExact
  BY <1>1 DEF CandidatesInit, LoadedIsFresh, ScoredCanBeSwiped, NextBoundsMissed, ParityHolds,
              ExactMeansExact, ExactDespite, None
<1>5. WalkGoesOn BY DEF CandidatesInit, WalkGoesOn
<1> QED BY <1>3, <1>4, <1>5 DEF RankingInv

\* A change of rows only brings those above the cursor who are then among the moved.
LEMMA OthersFollowChange ==
  ASSUME NEW row, NEW through, Change, OthersFollow(row, through),
         person \in [Candidates -> DOMAIN People]
  PROVE  \A c \in Ranked' \ (through \cup moved') : ComesAfter(c, row)'
<1> SUFFICES ASSUME NEW c \in Ranked', c \notin through, c \notin moved'
             PROVE  ComesAfter(c, row)'
  OBVIOUS
<1>1. c \in Candidates BY DEF Ranked
<1>2. /\ viewer' = viewer /\ person'[c] = person[c] /\ swiped \subseteq swiped'
      /\ c \notin moved /\ filter' = filter
  <2>1. filter' = filter BY DEF Change, feedVars
  <2>2. CASE viewer' \in DOMAIN Viewers \ {viewer} /\ moved' = Candidates BY <2>2, <1>1
  <2>3. CASE /\ UNCHANGED <<viewer, swiped>>
             /\ \E d \in Candidates, p \in DOMAIN People :
                  person' = [person EXCEPT ![d] = p] /\ moved' = moved \cup {d}
    <3>1. PICK d \in Candidates, p \in DOMAIN People :
               person' = [person EXCEPT ![d] = p] /\ moved' = moved \cup {d}
      BY <2>3
    <3>2. c # d /\ c \notin moved BY <3>1
    <3> QED BY <3>1, <3>2, <2>1, <2>3, <1>1
  <2>4. CASE swiped \subseteq swiped' /\ UNCHANGED <<viewer, person, moved>> BY <2>4, <2>1
  <2> QED BY <2>2, <2>3, <2>4 DEF Change
<1>3. c \in Ranked BY <1>2 DEF Ranked, Eligible, Viewer, Person
<1>4. ComesAfter(c, row) BY <1>2, <1>3 DEF OthersFollow
<1> QED BY <1>2, <1>4 DEF ComesAfter, RowOf, Viewer, Person

LEMMA ChangeRowsStep == RankingInv /\ Change => RankingInv'
<1> SUFFICES ASSUME RankingInv, Change PROVE RankingInv'
  OBVIOUS
<1> USE DEF RankingInv
<1>1. changes \in Nat /\ changes' = changes + 1 BY DEF Change, CandidatesTypeOK
<1>2. UNCHANGED <<stage, context, filter, cursor, ranking, examined, page, loadedAt,
                  rankedAt, walked, missed>>
  BY DEF Change, feedVars
<1>3. loadedAt \in 0 .. changes /\ rankedAt \in 0 .. changes BY DEF CandidatesTypeOK
<1>4. /\ viewer' \in DOMAIN Viewers /\ person' \in [Candidates -> DOMAIN People]
      /\ swiped' \subseteq Candidates
  BY DEF Change, CandidatesTypeOK
<1>5. RankingOK' BY <1>2 DEF CandidatesTypeOK, RankingOK
<1>6. CandidatesTypeOK'
  BY <1>1, <1>2, <1>3, <1>4, <1>5 DEF CandidatesTypeOK
<1>7. loadedAt' # changes' /\ rankedAt' # changes' BY <1>1, <1>2, <1>3
<1>8. LoadedIsFresh' /\ ScoredCanBeSwiped' BY <1>2, <1>7 DEF LoadedIsFresh, ScoredCanBeSwiped
<1>9. NextBoundsMissed' /\ ParityHolds' /\ ExactMeansExact'
  BY <1>2 DEF NextBoundsMissed, ParityHolds, ExactMeansExact, ExactDespite
<1>10. WalkGoesOn'
  <2>1. ASSUME stage' = "loaded" PROVE OthersFollow(cursor, walked)'
    BY <2>1, <1>2, OthersFollowChange DEF WalkGoesOn, OthersFollow, CandidatesTypeOK
  <2>2. ASSUME stage' = "ranked"
        PROVE  OthersFollow(ranking.cursor, walked \cup DOMAIN ranking.score)'
    BY <2>2, <1>2, OthersFollowChange DEF WalkGoesOn, OthersFollow, CandidatesTypeOK
  <2> QED BY <2>1, <2>2 DEF WalkGoesOn
<1> QED BY <1>6, <1>8, <1>9, <1>10

LEMMA LoadContextStep ==
  ASSUME RankingInv, NEW from, Load(from),
         from = NoRow \/ (OthersFollow(from, walked') /\ UNCHANGED filter)
  PROVE  RankingInv'
<1> USE DEF RankingInv
<1>1. /\ ranking' = NoRanking /\ page' = NoPage /\ examined' = {} /\ missed' = None
      /\ stage' = "loaded" /\ context' = viewer /\ loadedAt' = changes /\ rankedAt' = 0
      /\ cursor' = from /\ UNCHANGED <<viewer, person, swiped, changes, moved>>
  BY DEF Load, db
<1>2. /\ DOMAIN ranking'.score = {} /\ ranking'.next = None
      /\ page'.shown = {} /\ page'.exact = FALSE
  BY <1>1, NothingIsRanked
<1>3. RankingOK' /\ page'.exact \in BOOLEAN BY <1>2 DEF RankingOK
<1>4. 0 \in 0 .. changes /\ changes \in 0 .. changes BY DEF CandidatesTypeOK
<1>5. CandidatesTypeOK' BY <1>1, <1>2, <1>3, <1>4 DEF CandidatesTypeOK
<1>6. LoadedIsFresh' /\ ScoredCanBeSwiped' /\ ParityHolds' /\ ExactMeansExact'
  BY <1>1, <1>2 DEF LoadedIsFresh, ScoredCanBeSwiped, ParityHolds, ExactMeansExact, ExactDespite
<1>7. NextBoundsMissed' BY <1>1, <1>2 DEF NextBoundsMissed, None
<1>8. OthersFollow(cursor, walked)'
  <2>1. CASE from = NoRow BY <2>1, <1>1 DEF OthersFollow, ComesAfter
  <2>2. CASE OthersFollow(from, walked') /\ UNCHANGED filter
    BY <2>2, <1>1 DEF OthersFollow, ComesAfter, RowOf, Ranked, Eligible, Viewer, Person
  <2> QED BY <2>1, <2>2
<1>9. WalkGoesOn' BY <1>1, <1>8 DEF WalkGoesOn
<1> QED BY <1>5, <1>6, <1>7, <1>9

LEMMA ReadPageStep == RankingInv /\ ReadPage => RankingInv'
<1> SUFFICES ASSUME RankingInv, ReadPage PROVE RankingInv'
  OBVIOUS
<1> USE DEF RankingInv
<1> DEFINE rest == DOMAIN ranking.score \ examined
           allowed == rest \cap Revalidated
           shown == {c \in allowed : Cardinality({d \in allowed : Before(d, c)}) < Limit}
<1>1. /\ page' = [shown |-> shown, exact |-> checkTopKExactness(shown)]
      /\ examined' = IF Cardinality(shown) < Limit THEN DOMAIN ranking.score
                     ELSE examined \cup {c \in rest : \E d \in shown : c = d \/ Before(c, d)}
      /\ stage = "ranked"
      /\ UNCHANGED <<viewer, person, swiped, changes, moved, stage, context, filter, cursor,
                     ranking, loadedAt, rankedAt, walked, missed>>
  BY DEF ReadPage, db
<1>2. page'.shown = shown /\ page'.exact = checkTopKExactness(shown) BY <1>1
<1>3. shown \subseteq rest OBVIOUS
<1> HIDE DEF allowed, shown
<1>4. examined' \subseteq DOMAIN ranking.score /\ shown \subseteq examined'
  BY <1>1, <1>3 DEF CandidatesTypeOK
<1>5. checkTopKExactness(shown) \in BOOLEAN BY DEF checkTopKExactness
<1>6. CandidatesTypeOK'
  BY <1>1, <1>2, <1>4, <1>5 DEF CandidatesTypeOK, RankingOK
<1>7. LoadedIsFresh' /\ NextBoundsMissed' /\ ParityHolds'
  BY <1>1 DEF LoadedIsFresh, NextBoundsMissed, ParityHolds
<1>8. ScoredCanBeSwiped' BY <1>1 DEF ScoredCanBeSwiped, isPairEligible, Viewer, Person
<1>9. ExactMeansExact'
  <2> SUFFICES ASSUME checkTopKExactness(shown)
               PROVE  /\ shown = {} => missed = None
                      /\ \A c \in shown :
                           /\ missed <= ranking.score[c]
                           /\ \A d \in DOMAIN ranking.score \ examined' :
                                ranking.score[d] <= ranking.score[c]
    BY <1>1, <1>2 DEF ExactMeansExact, ExactDespite
  <2>1. \A c \in DOMAIN ranking.score : ranking.score[c] \in Nat
    BY DEF CandidatesTypeOK, RankingOK
  <2>2. /\ ranking.next \in Nat \cup {None} /\ missed \in Nat \cup {None}
        /\ missed <= ranking.next
        /\ ranking.next = None => missed = None
    BY DEF CandidatesTypeOK, RankingOK, NextBoundsMissed
  <2>3. shown = {} => missed = None BY <2>2 DEF checkTopKExactness
  <2>4. ASSUME NEW c \in shown PROVE missed <= ranking.score[c]
    <3>1. ranking.score[c] \in Nat BY <2>1, <1>3
    <3>2. CASE ranking.next = None BY <3>1, <3>2, <2>2 DEF None
    <3>3. CASE ranking.next # None
      <4>1. ranking.next <= ranking.score[c] BY <3>3 DEF checkTopKExactness
      <4> QED BY <4>1, <3>1, <2>2 DEF None
    <3> QED BY <3>2, <3>3
  <2>5. ASSUME NEW c \in shown, NEW d \in DOMAIN ranking.score \ examined'
        PROVE  ranking.score[d] <= ranking.score[c]
    <3>1. ~(Cardinality(shown) < Limit) BY <1>1, <2>5
    <3>2. d \in rest /\ ~(d = c \/ Before(d, c)) BY <1>1, <2>5, <3>1
    <3>3. ~(ranking.score[d] > ranking.score[c]) BY <3>2 DEF Before
    <3>4. ranking.score[d] \in Nat /\ ranking.score[c] \in Nat BY <2>1, <1>3
    <3> QED BY <3>3, <3>4
  <2> QED BY <2>3, <2>4, <2>5
<1>10. WalkGoesOn'
  BY <1>1 DEF WalkGoesOn, OthersFollow, ComesAfter, RowOf, Ranked, Eligible, Viewer, Person
<1> QED BY <1>6, <1>7, <1>8, <1>9, <1>10

\* The rows of the coarse query, one of each user it finds.
LEMMA RankedRowsAre ==
  ASSUME viewer \in DOMAIN Viewers, person \in [Candidates -> DOMAIN People]
  PROVE  /\ IsFiniteSet(RankedRows) /\ RankedRows \in SUBSET CoarseRow
         /\ \A r \in RankedRows : r.id \in Ranked /\ r.bound = MatchBound(Viewer, Person(r.id))
         /\ Viewer \in Traveller /\ \A c \in Candidates : Person(c) \in Traveller
         /\ Ranked \subseteq Candidates
<1> DEFINE row == [c \in Ranked |-> [bound |-> MatchBound(Viewer, Person(c)), id |-> c]]
<1>1. Viewer \in Traveller /\ \A c \in Candidates : Person(c) \in Traveller
  BY TravellersAre DEF Viewer, Person
<1>2. Ranked \in SUBSET Candidates /\ Candidates \subseteq Nat \ {0} /\ IsFiniteSet(Candidates)
  BY CandidatesAssumption DEF Ranked
<1>3. IsFiniteSet(Ranked) BY <1>2, FS_Subset
<1>4. row \in Surjection(Ranked, RankedRows)
  BY DEF Surjection, RankedRows
<1>5. IsFiniteSet(RankedRows)
  <2> HIDE DEF row
  <2> QED BY <1>3, <1>4, FS_Surjection
<1>6. \A c \in Ranked : MatchBound(Viewer, Person(c)) \in Nat /\ c \in Nat
  BY <1>1, <1>2, BoundsAgree
<1>7. RankedRows \in SUBSET CoarseRow BY <1>6 DEF RankedRows, CoarseRow
<1>8. \A r \in RankedRows : r.id \in Ranked /\ r.bound = MatchBound(Viewer, Person(r.id))
  BY DEF RankedRows
<1> QED BY <1>1, <1>2, <1>5, <1>7, <1>8

LEMMA ScoreStep == RankingInv /\ Score => RankingInv'
<1> SUFFICES ASSUME RankingInv, Score PROVE RankingInv'
  OBVIOUS
<1> USE DEF RankingInv
<1> DEFINE paged == {r \in RankedRows : cursor = NoRow \/ Precedes(cursor, r)}
           fetched == First(RowLimit, paged)
           scored == First(Cap, fetched)
           next == fetched \ scored
           agrees(r) == UpperBound(Loaded, Person(r.id)) = r.bound
           ids == {r.id : r \in scored}
           trueScore(r) == MatchScore(Context(Viewer), Person(r.id))
           bounds == {r.bound : r \in next} \cup {None}
           unscored == {r \in RankedRows : r.id \notin walked \cup ids}
           above == {r \in unscored \ paged : r.id \in moved}
           lost == {trueScore(r) : r \in unscored \ above} \cup {None}
<1>1. /\ stage = "loaded" /\ rankedAt' = changes
      /\ UNCHANGED <<viewer, person, swiped, changes, context, filter, cursor, examined, page,
                     loadedAt, walked>>
      /\ moved' = IF cursor = NoRow THEN {} ELSE moved
      /\ \/ /\ \E r \in scored : ~agrees(r)
            /\ stage' = "failed" /\ UNCHANGED <<ranking, missed>>
         \/ /\ stage' = "ranked"
            /\ ranking' =
                 [score |-> [c \in ids |-> MatchScore(Loaded, Person(c))],
                  next |-> Largest(bounds),
                  cursor |-> IF next = {} THEN NoRow
                             ELSE CHOOSE r \in scored : \A s \in scored \ {r} : Precedes(s, r)]
            /\ missed' = Largest(lost)
  BY DEF Score, db
<1>2. /\ viewer \in DOMAIN Viewers /\ person \in [Candidates -> DOMAIN People]
      /\ context \in DOMAIN Viewers
      /\ changes \in Nat /\ loadedAt \in 0 .. changes /\ changes \in 0 .. changes
      /\ ranking = NoRanking /\ page = NoPage
      /\ loadedAt = changes => context = viewer
  BY <1>1 DEF CandidatesTypeOK, LoadedIsFresh
<1>3. /\ DOMAIN ranking.score = {} /\ page'.shown = {} /\ page'.exact = FALSE /\ examined = {}
  BY <1>1, <1>2, NothingIsRanked DEF CandidatesTypeOK
<1>4. /\ IsFiniteSet(RankedRows) /\ RankedRows \in SUBSET CoarseRow
      /\ \A r \in RankedRows : r.id \in Ranked /\ r.bound = MatchBound(Viewer, Person(r.id))
      /\ Viewer \in Traveller /\ \A c \in Candidates : Person(c) \in Traveller
      /\ Ranked \subseteq Candidates
  BY <1>2, RankedRowsAre
<1>5. paged \in SUBSET RankedRows /\ IsFiniteSet(paged) /\ paged \in SUBSET CoarseRow
  BY <1>4, FS_Subset
<1>6. Cap \in Nat BY CandidatesAssumption
<1>7. fetched = First(Cap + 1, paged) /\ scored = First(Cap, paged)
  BY <1>5, <1>6, FirstOfFirst DEF RowLimit
<1>8. scored \subseteq paged BY <1>5, <1>6, <1>7, FirstIsShort
<1>9. Loaded = Context(Viewers[context]) /\ Viewers[context] \in Traveller
  BY <1>2, TravellersAre DEF Loaded
<1>10. page' = page /\ page'.exact \in BOOLEAN /\ ExactMeansExact' /\ LoadedIsFresh'
  BY <1>1, <1>3 DEF ExactMeansExact, ExactDespite, LoadedIsFresh
<1>11. CASE /\ \E r \in scored : ~agrees(r)
            /\ stage' = "failed" /\ UNCHANGED <<ranking, missed>>
  <2>1. loadedAt < changes
    <3> SUFFICES ASSUME loadedAt = changes PROVE FALSE BY <1>2
    <3>1. PICK r \in scored : ~agrees(r) BY <1>11
    <3>2. r.bound = MatchBound(Viewer, Person(r.id)) /\ Person(r.id) \in Traveller
      BY <3>1, <1>4, <1>5, <1>8
    <3>3. Loaded = Context(Viewer) BY <1>2 DEF Loaded, Viewer
    <3>4. UpperBound(Context(Viewer), Person(r.id)) = MatchBound(Viewer, Person(r.id))
      BY <3>2, <1>4, BoundsAgree
    <3> QED BY <3>1, <3>2, <3>3, <3>4
  <2> HIDE DEF scored
  <2>2. ParityHolds' BY <2>1, <1>1 DEF ParityHolds
  <2>3. RankingOK' BY <1>11 DEF CandidatesTypeOK, RankingOK
  <2>4. CandidatesTypeOK'
    BY <2>3, <1>1, <1>2, <1>3, <1>10, <1>11 DEF CandidatesTypeOK
  <2>5. ScoredCanBeSwiped' BY <1>3, <1>11 DEF ScoredCanBeSwiped
  <2>6. NextBoundsMissed' BY <1>11 DEF NextBoundsMissed
  <2>7. WalkGoesOn' BY <1>11 DEF WalkGoesOn
  <2> QED BY <1>10, <2>2, <2>4, <2>5, <2>6, <2>7
<1>12. CASE /\ stage' = "ranked"
            /\ ranking' =
                 [score |-> [c \in ids |-> MatchScore(Loaded, Person(c))],
                  next |-> Largest(bounds),
                  cursor |-> IF next = {} THEN NoRow
                             ELSE CHOOSE r \in scored : \A s \in scored \ {r} : Precedes(s, r)]
            /\ missed' = Largest(lost)
  <2>1. /\ ranking'.score = [c \in ids |-> MatchScore(Loaded, Person(c))]
        /\ ranking'.next = Largest(bounds) /\ missed' = Largest(lost)
    BY <1>12
  <2>2. ids \subseteq Ranked BY <1>4, <1>5, <1>8
  <2>3. \A r \in paged : /\ r.bound \in Nat /\ trueScore(r) \in Nat
                         /\ trueScore(r) <= r.bound
    <3> SUFFICES ASSUME NEW r \in paged
                 PROVE  r.bound \in Nat /\ trueScore(r) \in Nat /\ trueScore(r) <= r.bound
      OBVIOUS
    <3>1. r.bound = MatchBound(Viewer, Person(r.id)) /\ Person(r.id) \in Traveller
      BY <1>4, <1>5
    <3> QED BY <3>1, <1>4, BoundsAgree, ScoreIsBounded
  <2>4. next = First(Cap + 1, paged) \ First(Cap, paged) /\ next \subseteq paged \ scored
    <3>1. fetched \subseteq paged BY DEF First
    <3> QED BY <3>1, <1>7
  \* Who is not scored, and is not left aside, is behind the cursor.
  <2>12. unscored \ above \subseteq paged \ scored
    <3> SUFFICES ASSUME NEW r \in RankedRows, r.id \notin walked, r.id \notin ids,
                        r \in paged \/ r.id \notin moved
                 PROVE  r \in paged \ scored
      OBVIOUS
    <3>1. r \notin scored OBVIOUS
    <3>2. ASSUME r.id \notin moved PROVE r \in paged
      <4>1. r.id \in Ranked /\ r = RowOf(r.id) BY DEF RankedRows, RowOf
      <4>2. ComesAfter(r.id, cursor) BY <1>1, <3>2, <4>1 DEF WalkGoesOn, OthersFollow
      <4> QED BY <4>1, <4>2 DEF ComesAfter
    <3> QED BY <3>1, <3>2
  <2>13. WalkGoesOn'
    <3> DEFINE last == CHOOSE r \in scored : \A s \in scored \ {r} : Precedes(s, r)
    <3> SUFFICES ASSUME NEW c \in Ranked, c \notin walked, c \notin ids,
                        cursor = NoRow \/ c \notin moved, next # {}
                 PROVE  Precedes(last, RowOf(c))
      <4>1. ranking'.cursor = IF next = {} THEN NoRow ELSE last BY <1>12
      <4>2. DOMAIN ranking'.score = ids BY <2>1
      <4>3. stage' = "ranked" /\ Ranked' = Ranked /\ walked' = walked
            /\ \A c \in Ranked : RowOf(c)' = RowOf(c)
        BY <1>1, <1>12 DEF Ranked, Eligible, RowOf, Viewer, Person
      <4>4. \A c : cursor = NoRow \/ c \notin moved <=> c \notin moved' BY <1>1
      <4> HIDE DEF last, ids, next
      <4> QED BY <4>1, <4>2, <4>3, <4>4 DEF WalkGoesOn, OthersFollow, ComesAfter
    <3>1. RowOf(c) \in RankedRows /\ RowOf(c).id = c BY DEF RankedRows, RowOf
    <3>2. RowOf(c) \in paged
      BY <1>1, <3>1 DEF WalkGoesOn, OthersFollow, ComesAfter
    <3>3. RowOf(c) \notin scored BY <3>1
    <3>4. scored # {}
      <4> SUFFICES ASSUME scored = {} PROVE FALSE OBVIOUS
      <4>1. PICK m \in paged : \A r \in paged \ {m} : Precedes(m, r)
        BY <1>5, <3>2, FirstRow
      <4>2. Ahead(m, paged) = {}
        <5> SUFFICES ASSUME NEW r \in paged, Precedes(r, m) PROVE FALSE BY DEF Ahead
        <5> QED BY <1>5, <4>1, RowsAreOrdered
      <4>3. Cardinality(Ahead(m, paged)) = 0 BY <4>2, FS_EmptySet
      <4>4. Cap > 0 BY CandidatesAssumption
      <4>5. m \in First(Cap, paged) BY <4>1, <4>3, <4>4 DEF First, Ahead
      <4> QED BY <4>5, <1>7
    <3>5. last \in scored
      <4>1. scored \in SUBSET CoarseRow /\ IsFiniteSet(scored) BY <1>5, <1>8, FS_Subset
      <4>2. \E r \in scored : \A s \in scored \ {r} : Precedes(s, r)
        BY <4>1, <3>4, LastRow
      <4> QED BY <4>2
    <3> HIDE DEF last
    <3>6. last \in First(Cap, paged) /\ RowOf(c) \in paged \ First(Cap, paged)
      BY <3>2, <3>3, <3>5, <1>7
    <3> HIDE DEF paged
    <3> QED BY <3>6, <1>5, <1>6, FirstPrecedes
  <2> HIDE DEF trueScore, next, paged, fetched, unscored, above
  <2>5. /\ Largest(bounds) \in Nat \cup {None} /\ Largest(lost) \in Nat \cup {None}
        /\ Largest(lost) <= Largest(bounds)
        /\ Largest(bounds) = None => Largest(lost) = None
    <3>1. CASE paged \ scored = {}
      <4>1. bounds = {-1} /\ lost = {-1} BY <2>4, <2>12, <3>1 DEF None
      <4>2. Largest({-1}) \in {-1}
        <5>1. {-1} \in SUBSET Int /\ {-1} # {} /\ \A s \in {-1} : s <= -1 OBVIOUS
        <5> QED BY <5>1, LargestOf
      <4> HIDE DEF bounds, lost
      <4> QED BY <4>1, <4>2 DEF None
    <3>2. CASE paged \ scored # {}
      <4>1. PICK m \in next : \A r \in paged \ scored : r.bound <= m.bound
        <5> HIDE DEF scored
        <5>1. paged \ First(Cap, paged) # {} BY <3>2, <1>7
        <5> QED BY <5>1, <1>5, <1>6, <1>7, <2>4, NextRowLeads
      <4>2. m \in paged /\ m.bound \in Nat BY <4>1, <2>3, <2>4
      <4>3. \A s \in bounds : s \in Int /\ s <= m.bound /\ s \in Nat \cup {None}
        <5>1. \A r \in next : r.bound \in Nat /\ r.bound <= m.bound BY <4>1, <2>3, <2>4
        <5> QED BY <5>1, <4>2 DEF None
      <4>4. \A s \in lost : s \in Int /\ s <= m.bound /\ s \in Nat \cup {None}
        <5> HIDE DEF scored
        <5>1. ASSUME NEW r \in unscored \ above
              PROVE  trueScore(r) \in Nat /\ trueScore(r) <= m.bound
          BY <4>1, <4>2, <2>3, <2>12
        <5> QED BY <5>1, <4>2 DEF None
      <4>5. m.bound \in bounds /\ bounds # {} /\ lost # {} BY <4>1
      <4> HIDE DEF bounds, lost
      <4>6. bounds \in SUBSET Int /\ lost \in SUBSET Int BY <4>3, <4>4
      <4>7. Largest(bounds) \in bounds /\ \A s \in bounds : s <= Largest(bounds)
        BY <4>2, <4>3, <4>5, <4>6, LargestOf
      <4>8. Largest(lost) \in lost BY <4>2, <4>4, <4>5, <4>6, LargestOf
      <4>9. m.bound <= Largest(bounds) BY <4>5, <4>7
      <4>10. Largest(lost) <= m.bound /\ Largest(lost) \in Int /\ Largest(bounds) \in Int
        BY <4>3, <4>4, <4>7, <4>8
      <4>11. Largest(bounds) # None BY <4>2, <4>9 DEF None
      <4>12. Largest(lost) <= Largest(bounds) BY <4>2, <4>9, <4>10
      <4> QED BY <4>3, <4>4, <4>7, <4>8, <4>11, <4>12
    <3> QED BY <3>1, <3>2
  <2> HIDE DEF bounds, lost, ids
  <2>6. NextBoundsMissed' BY <2>1, <2>5 DEF NextBoundsMissed
  <2>7. \A c \in ids : MatchScore(Loaded, Person(c)) \in Nat
    <3> SUFFICES ASSUME NEW c \in ids PROVE MatchScore(Loaded, Person(c)) \in Nat OBVIOUS
    <3>1. Person(c) \in Traveller BY <2>2, <1>4
    <3> QED BY <3>1, <1>9, ScoreIsBounded
  <2>8. RankingOK'
    <3>1. DOMAIN ranking'.score = ids /\ \A c \in ids : ranking'.score[c] \in Nat
      BY <2>1, <2>7
    <3> QED BY <3>1, <2>1, <2>2, <2>5, <1>4 DEF RankingOK
  <2>9. CandidatesTypeOK'
    <3>1. examined' = {} /\ page'.shown = {} BY <1>1, <1>3
    <3>2. rankedAt' \in 0 .. changes' /\ loadedAt' \in 0 .. changes' BY <1>1, <1>2
    <3> QED BY <3>1, <3>2, <2>8, <1>1, <1>10, <1>12 DEF CandidatesTypeOK
  <2>10. ScoredCanBeSwiped'
    <3>1. \A c \in ids : isPairEligible(c)
      BY <2>2, EligibleIsPairEligible DEF Ranked, isPairEligible
    <3>2. \A c \in ids : isPairEligible(c)'
      BY <3>1, <1>1 DEF isPairEligible, Viewer, Person
    <3>3. DOMAIN ranking'.score = ids BY <2>1
    <3> QED BY <3>2, <3>3 DEF ScoredCanBeSwiped
  <2>11. ParityHolds' BY <1>12 DEF ParityHolds
  <2> QED BY <1>10, <2>6, <2>9, <2>10, <2>11, <2>13
<1> QED BY <1>1, <1>11, <1>12

LEMMA RankingStep == RankingInv /\ [CandidatesNext]_candidatesVars => RankingInv'
<1> SUFFICES ASSUME RankingInv, [CandidatesNext]_candidatesVars PROVE RankingInv'
  OBVIOUS
<1>1. CASE Change BY <1>1, ChangeRowsStep
<1>2. ASSUME NEW q \in Filters, Start(q) PROVE RankingInv'
  BY <1>2, LoadContextStep DEF Start
<1>3. CASE Continue
  <2>1. /\ Load(ranking.cursor) /\ UNCHANGED filter
        /\ OthersFollow(ranking.cursor, walked')
    BY <1>3 DEF Continue, RankingInv, WalkGoesOn
  <2> HIDE DEF RankingInv
  <2> QED BY <2>1, LoadContextStep
<1>4. CASE Score BY <1>4, ScoreStep
<1>5. CASE ReadPage BY <1>5, ReadPageStep
<1>6. CASE UNCHANGED candidatesVars
  <2>1. UNCHANGED <<viewer, person, swiped, changes, moved, stage, context, filter, cursor, ranking,
                    examined, page, loadedAt, rankedAt, walked, missed>>
    BY <1>6 DEF candidatesVars, feedVars, db
  <2>2. CandidatesTypeOK' BY <2>1 DEF RankingInv, CandidatesTypeOK, RankingOK
  <2>3. ScoredCanBeSwiped'
    BY <2>1 DEF RankingInv, ScoredCanBeSwiped, isPairEligible, Viewer, Person
  <2>4. LoadedIsFresh' /\ NextBoundsMissed' /\ ParityHolds' /\ ExactMeansExact'
    BY <2>1 DEF RankingInv, LoadedIsFresh, NextBoundsMissed, ParityHolds, ExactMeansExact, ExactDespite
  <2>5. WalkGoesOn'
    BY <2>1 DEF RankingInv, WalkGoesOn, OthersFollow, ComesAfter, RowOf, Ranked, Eligible, Viewer, Person
  <2> QED BY <2>2, <2>3, <2>4, <2>5 DEF RankingInv
<1> QED BY <1>1, <1>2, <1>3, <1>4, <1>5, <1>6 DEF CandidatesNext

LEMMA RankingIsKept == CandidatesSpec => []RankingInv
  BY RankingInit, RankingStep, PTL DEF CandidatesSpec

\* An exact page, also that of an empty batch, leaves out nobody with a higher
\* exact score, for any candidates, filters, cap and page size, but who moved
\* above the cursor of its batch: whoever has not moved and is on no batch of
\* the walk is behind the cursor, and the row after the last one scored bounds
\* everyone there.
THEOREM ExactPagesAreExact == CandidatesSpec => []ExactMeansExact
<1>1. RankingInv => ExactMeansExact BY DEF RankingInv
<1> QED BY <1>1, RankingIsKept, PTL

\* The query that ranks and the query that a swipe asks agree, and so do the
\* bounds of SQL and TypeScript: a request that fails for parity read the
\* viewer's rows before and after a change.
THEOREM FeedAndSwipeAgree == CandidatesSpec => []QueriesAgree
<1>1. RankingInv => QueriesAgree
  <2> SUFFICES ASSUME RankingInv PROVE QueriesAgree OBVIOUS
  <2>1. page.shown \subseteq DOMAIN ranking.score BY DEF RankingInv, CandidatesTypeOK
  <2>2. ShownCanBeSwiped BY <2>1 DEF RankingInv, ScoredCanBeSwiped, ShownCanBeSwiped
  <2> QED BY <2>2 DEF RankingInv, QueriesAgree
<1> QED BY <1>1, RankingIsKept, PTL

-----------------------------------------------------------------------------
(* Explorer: the grid.                                                     *)

\* 2 ^ n, as a number of subsets.
Power(n) == Cardinality(SUBSET (1 .. n))

LEMMA PowersAreCounted ==
  ASSUME NEW n \in Nat
  PROVE  IsFiniteSet(SUBSET (1 .. n)) /\ Power(n) \in Nat /\ 2 ^ n = Power(n)
<1>1. IsFiniteSet(1 .. n) /\ Cardinality(1 .. n) = n
  BY FS_Interval
<1>2. IsFiniteSet(SUBSET (1 .. n)) /\ Power(n) = 2 ^ Cardinality(1 .. n)
  BY <1>1, FS_SUBSET DEF Power
<1>3. Power(n) \in Nat
  BY <1>2, FS_CardinalityType DEF Power
<1>4. 2 ^ Cardinality(1 .. n) = 2 ^ n
  BY <1>1
<1> QED BY <1>2, <1>3, <1>4

\* The subsets of 1 .. n + 1 are those of 1 .. n, and those with n + 1 besides.
LEMMA PowersDouble ==
  ASSUME NEW n \in Nat
  PROVE  2 ^ n \in Nat \ {0} /\ 2 ^ (n + 1) = 2 * 2 ^ n
<1> DEFINE Less == SUBSET (1 .. n)
           With(s) == s \cup {n + 1}
           More == {With(s) : s \in Less}
           f == [s \in Less |-> With(s)]
<1>1. IsFiniteSet(Less) /\ Cardinality(Less) = Power(n) /\ Power(n) \in Nat
  BY PowersAreCounted DEF Power
<1>2. f \in Bijection(Less, More)
  <2>1. \A s \in Less : n + 1 \notin s
    OBVIOUS
  <2>2. \A s, t \in Less : With(s) = With(t) => s = t
    BY <2>1
  <2> HIDE DEF Less, With
  <2>3. f \in [Less -> More] /\ \A s \in Less : f[s] = With(s)
    OBVIOUS
  <2>4. \A t \in More : \E s \in Less : t = With(s)
    OBVIOUS
  <2> HIDE DEF f, More
  <2>5. f \in Injection(Less, More)
    BY <2>2, <2>3 DEF Injection, IsInjective
  <2>6. f \in Surjection(Less, More)
    BY <2>3, <2>4 DEF Surjection
  <2> QED BY <2>5, <2>6 DEF Bijection
<1>3. IsFiniteSet(More) /\ Cardinality(More) = Power(n)
  BY <1>1, <1>2, FS_Bijection DEF ExistsBijection
<1>4. Less \cap More = {} /\ SUBSET (1 .. n + 1) = Less \cup More
  <2>1. \A s : s \in SUBSET (1 .. n + 1) => s \in Less \cup More
    <3> SUFFICES ASSUME NEW s \in SUBSET (1 .. n + 1), s \notin Less PROVE s \in More
      OBVIOUS
    <3>1. s \ {n + 1} \in Less /\ s = With(s \ {n + 1})
      OBVIOUS
    <3> HIDE DEF With, Less
    <3> QED BY <3>1
  <2>2. \A s \in Less \cup More : s \in SUBSET (1 .. n + 1)
    OBVIOUS
  <2>3. \A s \in Less : n + 1 \notin s
    OBVIOUS
  <2>4. \A s \in More : n + 1 \in s
    OBVIOUS
  <2> QED BY <2>1, <2>2, <2>3, <2>4
<1>5. Power(n + 1) = 2 * Power(n)
  <2>1. Cardinality(Less \cup More) = Cardinality(Less) + Cardinality(More) - Cardinality(Less \cap More)
    BY <1>1, <1>3, FS_Union
  <2>2. Cardinality(Less \cap More) = 0
    BY <1>4, FS_EmptySet
  <2>3. Power(n + 1) = Cardinality(Less \cup More)
    BY <1>4 DEF Power
  <2> HIDE DEF Less, More
  <2> QED BY <1>1, <1>3, <2>1, <2>2, <2>3
<1>6. Power(n) # 0
  <2>1. Less # {}
    OBVIOUS
  <2> QED BY <1>1, <2>1, FS_EmptySet
<1>7. 2 ^ n = Power(n)
  BY PowersAreCounted
<1>8. 2 ^ (n + 1) = Power(n + 1)
  <2>1. n + 1 \in Nat
    OBVIOUS
  <2> HIDE DEF Less, More
  <2> QED BY ONLY <2>1, PowersAreCounted
<1>9. 2 ^ (n + 1) = 2 * Power(n)
  BY ONLY <1>5, <1>8
<1> QED BY <1>1, <1>6, <1>7, <1>9

LEMMA GridIsTyped ==
  /\ Quarter \in Nat \ {0} /\ Half = 2 * Quarter
  /\ \A q, k : q.zoom \in Int /\ k \in 0 .. Zoom(q) + 2 => CellSize(q, k) \in Nat \ {0}
  /\ \A q : q.zoom \in Int => Zoom(q) \in Nat /\ CellSize(q, Zoom(q) + 2) = 2 * Half
<1>1. Bits \in Nat \ {0}
  BY ExplorerAssumption
<1>2. Quarter \in Nat \ {0} /\ Half = 2 * Quarter
  BY <1>1, PowersDouble DEF Quarter, Half
<1>3. ASSUME NEW q, q.zoom \in Int
      PROVE  Zoom(q) \in 1 .. Bits
  BY <1>1, <1>3 DEF Zoom, Clamp
<1>4. ASSUME NEW q, q.zoom \in Int, NEW k \in 0 .. Zoom(q) + 2
      PROVE  CellSize(q, k) \in Nat \ {0}
  <2>1. Bits - Zoom(q) + k \in Nat
    BY <1>1, <1>3, <1>4
  <2> QED BY <2>1, PowersDouble DEF CellSize
<1>5. 2 ^ (Bits + 2) = 2 * Half
  <2>1. Bits + 1 \in Nat /\ Bits + 1 + 1 = Bits + 2
    BY <1>1
  <2>2. 2 ^ (Bits + 1 + 1) = 2 * 2 ^ (Bits + 1)
    BY <2>1, PowersDouble
  <2>3. 2 ^ (Bits + 1) = 2 * 2 ^ Bits
    BY <1>1, PowersDouble
  <2> QED BY <2>1, <2>2, <2>3 DEF Quarter, Half
<1>6. ASSUME NEW q, q.zoom \in Int
      PROVE  Zoom(q) \in Nat /\ CellSize(q, Zoom(q) + 2) = 2 * Half
  <2>1. Zoom(q) \in Nat /\ Bits - Zoom(q) + (Zoom(q) + 2) = Bits + 2
    BY <1>1, <1>3, <1>6
  <2> QED BY <1>5, <2>1 DEF CellSize
<1> QED BY <1>2, <1>4, <1>6

LEMMA QuotientGrows ==
  ASSUME NEW a \in Int, NEW b \in Int, NEW s \in Nat \ {0}, a <= b
  PROVE  a \div s \in Int /\ b \div s \in Int /\ a \div s <= b \div s
OBVIOUS

\* A cell is one of its axis, and further on the axis is no earlier cell.
LEMMA CellsGrow ==
  ASSUME NEW origin \in Int, NEW span \in Int, NEW size \in Nat \ {0},
         NEW x \in Int, NEW y \in Int, x <= y
  PROVE  /\ Cell(x, origin, span, size) \in Nat /\ Cell(y, origin, span, size) \in Nat
         /\ Cell(x, origin, span, size) <= Cell(y, origin, span, size)
<1> DEFINE most == (span + size - 1) \div size
           count == Max({1, most})
<1>1. most \in Int
  OBVIOUS
<1>2. \E c \in {1, most} : \A d \in {1, most} : c >= d
  BY <1>1
<1>3. count \in {1, most} /\ \A d \in {1, most} : count >= d
  BY <1>2 DEF Max
<1>4. count \in Nat \ {0}
  BY <1>1, <1>3
<1>5. /\ (x - origin) \div size \in Int /\ (y - origin) \div size \in Int
      /\ (x - origin) \div size <= (y - origin) \div size
  <2>1. x - origin \in Int /\ y - origin \in Int /\ x - origin <= y - origin
    OBVIOUS
  <2> QED BY <2>1, QuotientGrows
<1> HIDE DEF count
<1> QED BY <1>4, <1>5 DEF Cell, Clamp, count

\* The grid of the coarsest scale is one cell.
LEMMA OneCell ==
  ASSUME NEW x \in Int, NEW origin \in Int, NEW span \in Nat \ {0}, NEW size \in Nat \ {0},
         span <= size
  PROVE  Cell(x, origin, span, size) = 0
<1>1. (span + size - 1) \div size = 1
  OBVIOUS
<1>2. Max({1, 1}) = 1
  BY DEF Max
<1>3. (x - origin) \div size \in Int
  OBVIOUS
<1> QED BY <1>1, <1>2, <1>3 DEF Cell, Clamp
-----------------------------------------------------------------------------
(* Explorer: the cells an area touches.                                    *)

TouchedRows(extent, size) == LatitudeCell(extent.south, size) .. LatitudeCell(extent.north, size)

TouchedColumns(extent, size) ==
  UNION {LongitudeCell(r[1], size) .. LongitudeCell(r[2], size) : r \in extent.ranges}

IsExtent(extent) ==
  /\ extent.south \in Int /\ extent.north \in Int /\ extent.south <= extent.north
  /\ \E west, east \in -Half .. Half : extent.ranges = LongitudeRanges(west, east)

LEMMA CellsOfAxes ==
  ASSUME NEW size \in Nat \ {0}, NEW x \in Int, NEW y \in Int, x <= y
  PROVE  /\ LatitudeCell(x, size) \in Nat /\ LatitudeCell(y, size) \in Nat
         /\ LatitudeCell(x, size) <= LatitudeCell(y, size)
         /\ LongitudeCell(x, size) \in Nat /\ LongitudeCell(y, size) \in Nat
         /\ LongitudeCell(x, size) <= LongitudeCell(y, size)
<1>1. -Quarter \in Int /\ 2 * Quarter \in Int /\ -Half \in Int /\ 2 * Half \in Int
  BY GridIsTyped
<1> QED BY <1>1, CellsGrow DEF LatitudeCell, LongitudeCell

\* Two ranges of columns are counted without what lies between them.
Between(cols) ==
  IF \E c, d \in cols : c[2] + 1 < d[1]
  THEN LET c == CHOOSE c \in cols : \E d \in cols : c[2] + 1 < d[1]
           d == CHOOSE d \in cols : c[2] + 1 < d[1]
       IN  d[1] - c[2] - 1
  ELSE 0

Across(cols) == Max({c[2] : c \in cols}) - LeastOf({c[1] : c \in cols}) + 1 - Between(cols)

LEMMA OneRange ==
  ASSUME NEW a \in Int, NEW b \in Int, a <= b
  PROVE  Across({<<a, b>>}) = b - a + 1
<1> DEFINE cols == {<<a, b>>}
<1>1. {c[2] : c \in cols} = {b} /\ {c[1] : c \in cols} = {a}
  OBVIOUS
<1>2. Max({b}) = b /\ LeastOf({a}) = a
  BY DEF Max, LeastOf
<1>3. ~ \E c, d \in cols : c[2] + 1 < d[1]
  OBVIOUS
<1>4. Between(cols) = 0
  BY <1>3 DEF Between
<1> HIDE DEF cols
<1>5. Across(cols) = b - a + 1 - 0
  BY <1>1, <1>2, <1>4 DEF Across
<1> QED BY <1>5 DEF cols

LEMMA TwoRanges ==
  ASSUME NEW first \in Int, NEW b \in Int, NEW a \in Int, NEW last \in Int,
         first <= b, first <= a, b <= last, a <= last
  PROVE  Across({<<a, last>>, <<first, b>>}) =
           last - first + 1 - (IF b + 1 < a THEN a - b - 1 ELSE 0)
<1> DEFINE early == <<first, b>>
           late == <<a, last>>
           cols == {late, early}
<1>1. early[1] = first /\ early[2] = b /\ late[1] = a /\ late[2] = last
  OBVIOUS
<1> HIDE DEF early, late
<1>2. Max({c[2] : c \in cols}) = last
  <2>1. {c[2] : c \in cols} = {last, b}
    BY <1>1
  <2>2. \A x \in {last, b} : (\A y \in {last, b} : x >= y) <=> x = last
    OBVIOUS
  <2> QED BY <2>1, <2>2 DEF Max
<1>3. LeastOf({c[1] : c \in cols}) = first
  <2>1. {c[1] : c \in cols} = {a, first}
    BY <1>1
  <2>2. \A x \in {a, first} : (\A y \in {a, first} : x <= y) <=> x = first
    OBVIOUS
  <2> QED BY <2>1, <2>2 DEF LeastOf
<1>4. \A c, d \in cols : c[2] + 1 < d[1] <=> c = early /\ d = late /\ b + 1 < a
  BY <1>1
<1>5. Between(cols) = IF b + 1 < a THEN a - b - 1 ELSE 0
  <2>1. CASE b + 1 < a
    <3>1. (CHOOSE c \in cols : \E d \in cols : c[2] + 1 < d[1]) = early
      BY <1>4, <2>1
    <3>2. (CHOOSE d \in cols : early[2] + 1 < d[1]) = late
      BY <1>4, <2>1
    <3>3. \E c, d \in cols : c[2] + 1 < d[1]
      BY <1>4, <2>1
    <3>4. Between(cols) = late[1] - early[2] - 1
      BY <3>1, <3>2, <3>3 DEF Between
    <3> QED BY <1>1, <2>1, <3>4
  <2>2. CASE ~(b + 1 < a)
    BY <1>4, <2>2 DEF Between
  <2> QED BY <2>1, <2>2
<1> HIDE DEF cols
<1>6. Across(cols) = last - first + 1 - (IF b + 1 < a THEN a - b - 1 ELSE 0)
  BY <1>2, <1>3, <1>5 DEF Across
<1> QED BY <1>6 DEF cols, early, late

LEMMA CountIsAcross ==
  ASSUME NEW extent, NEW size
  PROVE  CellCount(extent, size) =
           (LatitudeCell(extent.north, size) - LatitudeCell(extent.south, size) + 1)
           * Across({<<LongitudeCell(r[1], size), LongitudeCell(r[2], size)>> : r \in extent.ranges})
BY DEF CellCount, Across, Between

\* CellCount counts the cells that the extent touches.
LEMMA ColumnsAreCounted ==
  ASSUME NEW size \in Nat \ {0}, NEW west \in -Half .. Half, NEW east \in -Half .. Half,
         NEW extent, extent.ranges = LongitudeRanges(west, east)
  PROVE  /\ IsFiniteSet(TouchedColumns(extent, size))
         /\ Cardinality(TouchedColumns(extent, size)) =
              Across({<<LongitudeCell(r[1], size), LongitudeCell(r[2], size)>> : r \in extent.ranges})
<1> DEFINE cell(x) == LongitudeCell(x, size)
           cols == {<<cell(r[1]), cell(r[2])>> : r \in extent.ranges}
<1>0. Half \in Int /\ -Half \in Int /\ west \in Int /\ east \in Int
  BY GridIsTyped
<1>1. CASE west <= east
  <2>1. extent.ranges = {<<west, east>>}
    BY <1>0, <1>1 DEF LongitudeRanges
  <2>2. cell(west) \in Int /\ cell(east) \in Int /\ cell(west) <= cell(east)
    BY <1>0, <1>1, CellsOfAxes
  <2>3. cols = {<<cell(west), cell(east)>>} /\ TouchedColumns(extent, size) = cell(west) .. cell(east)
    BY <2>1 DEF TouchedColumns
  <2> HIDE DEF cell
  <2>4. Across(cols) = cell(east) - cell(west) + 1
    BY <2>2, <2>3, OneRange
  <2>5. /\ IsFiniteSet(cell(west) .. cell(east))
        /\ Cardinality(cell(west) .. cell(east)) = cell(east) - cell(west) + 1
    BY <2>2, FS_Interval
  <2> QED BY <2>3, <2>4, <2>5 DEF cell
<1>2. CASE ~(west <= east)
  <2>1. extent.ranges = {<<west, Half>>, <<-Half, east>>}
    BY <1>0, <1>2 DEF LongitudeRanges
  <2>2. /\ cell(west) \in Int /\ cell(east) \in Int /\ cell(Half) \in Int /\ cell(-Half) \in Int
        /\ cell(-Half) <= cell(east) /\ cell(-Half) <= cell(west)
        /\ cell(east) <= cell(Half) /\ cell(west) <= cell(Half)
    BY <1>0, CellsOfAxes
  <2>3. /\ cols = {<<cell(west), cell(Half)>>, <<cell(-Half), cell(east)>>}
        /\ TouchedColumns(extent, size) = (cell(west) .. cell(Half)) \cup (cell(-Half) .. cell(east))
    BY <2>1 DEF TouchedColumns
  <2> DEFINE a == cell(west)
             last == cell(Half)
             first == cell(-Half)
             b == cell(east)
             late == a .. last
             early == first .. b
  <2>4. /\ a \in Int /\ last \in Int /\ first \in Int /\ b \in Int
        /\ first <= b /\ first <= a /\ b <= last /\ a <= last
    BY <2>2
  <2>5. cols = {<<a, last>>, <<first, b>>} /\ TouchedColumns(extent, size) = late \cup early
    BY <2>3
  <2> HIDE DEF a, last, first, b, cols, cell
  <2>6. Across(cols) = last - first + 1 - (IF b + 1 < a THEN a - b - 1 ELSE 0)
    BY <2>4, <2>5, TwoRanges
  <2>7. IsFiniteSet(late) /\ Cardinality(late) = last - a + 1
    BY <2>4, FS_Interval
  <2>8. IsFiniteSet(early) /\ Cardinality(early) = b - first + 1
    BY <2>4, FS_Interval
  <2>9. Cardinality(late \cap early) = IF b + 1 < a THEN 0 ELSE b - a + 1
    <3>1. late \cap early = a .. b
      BY <2>4
    <3>2. Cardinality(a .. b) = IF a > b THEN 0 ELSE b - a + 1
      BY <2>4, FS_Interval
    <3>3. (IF a > b THEN 0 ELSE b - a + 1) = IF b + 1 < a THEN 0 ELSE b - a + 1
      BY <2>4
    <3> HIDE DEF late, early
    <3> QED BY <3>1, <3>2, <3>3
  <2>10. /\ IsFiniteSet(late \cup early)
         /\ Cardinality(late \cup early) =
              Cardinality(late) + Cardinality(early) - Cardinality(late \cap early)
    BY <2>7, <2>8, FS_Union
  <2>11. Cardinality(late \cup early) = Across(cols)
    <3> HIDE DEF late, early
    <3> QED BY <2>4, <2>6, <2>7, <2>8, <2>9, <2>10
  <2> HIDE DEF late, early
  <2> QED BY <2>5, <2>10, <2>11 DEF cols, cell
<1> QED BY <1>1, <1>2
\* A box or a disk that was let in, and the pins that are found in it.
LEMMA QueryIsTyped ==
  ASSUME NEW q \in Queries
  PROVE  /\ Half \in Nat /\ Quarter \in Nat \ {0} /\ Half = 2 * Quarter
         /\ q.zoom \in Int /\ q.limit \in Int
         /\ q.box.south \in Int /\ q.box.west \in Int /\ q.box.north \in Int /\ q.box.east \in Int
         /\ Canonical(q.box).south = q.box.south /\ Canonical(q.box).north = q.box.north
         /\ Canonical(q.box).west = IF q.box.west = Half THEN -Half ELSE q.box.west
         /\ Canonical(q.box).east = IF q.box.east = -Half THEN Half ELSE q.box.east
         /\ q.disk.latitude \in Int /\ q.disk.longitude \in Int /\ q.disk.reach \in Nat
         /\ q.disk.spread \in 0 .. Quarter
<1> DEFINE box == q.box
<1>1. /\ box \in [south : Int, west : Int, north : Int, east : Int]
      /\ q.disk \in [latitude : Int, longitude : Int, reach : Nat, spread : 0 .. Quarter,
                     polar : BOOLEAN, legalRadius : BOOLEAN]
      /\ q.zoom \in Int /\ q.limit \in Int
  BY PositionsAssumption
<1> HIDE DEF box
<1>2. /\ Canonical(box).south = box.south /\ Canonical(box).north = box.north
      /\ Canonical(box).west = IF box.west = Half THEN -Half ELSE box.west
      /\ Canonical(box).east = IF box.east = -Half THEN Half ELSE box.east
  BY <1>1 DEF Canonical
<1>3. box.south \in Int /\ box.west \in Int /\ box.north \in Int /\ box.east \in Int
  BY <1>1
<1> QED BY <1>1, <1>2, <1>3, GridIsTyped DEF box

\* Whatever the box, its halves have an extent.
LEMMA HalvesAreProper ==
  ASSUME NEW q \in Queries, ValidBox(q.box)
  PROVE  LET b == Canonical(q.box)
         IN  /\ b.south \in Int /\ b.north \in Int
             /\ b.west \in -Half .. Half /\ b.east \in -Half .. Half
             /\ \A half \in LongitudeRanges(b.west, b.east) : Proper(b.south, b.north, half)
<1> DEFINE b == Canonical(q.box)
<1>1. /\ q.box.south < q.box.north /\ q.box.west \in -Half .. Half /\ q.box.east \in -Half .. Half
      /\ b.west # b.east
  BY DEF ValidBox
<1>2. /\ b.west \in -Half .. Half /\ b.east \in -Half .. Half
      /\ b.west # Half /\ b.east # -Half /\ b.south < b.north
      /\ b.south \in Int /\ b.north \in Int
  BY <1>1, QueryIsTyped
<1>3. \A half \in LongitudeRanges(b.west, b.east) : half[1] < half[2]
  <2> DEFINE w == b.west
             e == b.east
  <2>1. /\ w \in Int /\ e \in Int /\ Half \in Int /\ w < Half /\ -Half < e /\ w # e
    BY <1>1, <1>2, QueryIsTyped
  <2> HIDE DEF w, e
  <2>2. CASE w > e
    <3>1. LongitudeRanges(w, e) = {<<w, Half>>, <<-Half, e>>}
      BY <2>2 DEF LongitudeRanges
    <3>2. \A half \in {<<w, Half>>, <<-Half, e>>} : half[1] < half[2]
      BY <2>1
    <3> QED BY <3>1, <3>2 DEF w, e
  <2>3. CASE ~(w > e)
    <3>1. LongitudeRanges(w, e) = {<<w, e>>}
      BY <2>3 DEF LongitudeRanges
    <3>2. \A half \in {<<w, e>>} : half[1] < half[2]
      BY <2>1, <2>3
    <3> QED BY <3>1, <3>2 DEF w, e
  <2> QED BY <2>2, <2>3
<1> HIDE DEF b
<1>4. \A half \in LongitudeRanges(b.west, b.east) : Proper(b.south, b.north, half)
  BY <1>2, <1>3 DEF Proper
<1> QED BY <1>2, <1>4 DEF b

\* Being on one of the ranges of an extent.
LiesIn(e, extent) ==
  /\ extent.south <= e.latitude /\ e.latitude <= extent.north
  /\ \E r \in extent.ranges :
       r[1] \in Int /\ r[2] \in Int /\ r[1] <= e.longitude /\ e.longitude <= r[2]

\* A longitude brought back into -180 .. 180.
Wrapped(x, half) == IF x < -half THEN x + 2 * half ELSE IF x > half THEN x - 2 * half ELSE x

\* The range of a disk: no turn around the Earth is forgotten.
LEMMA DiskRanges ==
  ASSUME NEW half \in Nat, NEW lon \in -half .. half, NEW spread \in 0 .. half, 2 * spread <= half,
         half # 0, NEW x \in -half .. half,
         NEW turn \in {-2 * half, 0, 2 * half}, x - lon + turn \in 1 - spread .. spread - 1
  PROVE  LET west == Wrapped(lon - spread, half)
             east == Wrapped(lon + spread, half)
         IN  /\ west > east => west <= x \/ x <= east
             /\ ~(west > east) => west <= x /\ x <= east
<1>1. turn = 0 \/ turn = -2 * half \/ turn = 2 * half
  OBVIOUS
<1>2. CASE turn = 0
  BY <1>2 DEF Wrapped
<1>3. CASE turn = -2 * half
  BY <1>3 DEF Wrapped
<1>4. CASE turn = 2 * half
  BY <1>4 DEF Wrapped
<1> QED BY <1>1, <1>2, <1>3, <1>4
\* What was asked for has an extent, and who is found lies in it.
LEMMA DiskExtent ==
  ASSUME NEW q \in Queries, q.viewport # "full", ValidDisk(q.disk)
  PROVE  /\ IsExtent(Extent(q))
         /\ \A e \in Events : withinRadius(e, q.disk) => LiesIn(e, Extent(q))
<1> DEFINE d == q.disk
           south == Clamp(-Quarter, d.latitude - d.reach, Quarter)
           north == Clamp(-Quarter, d.latitude + d.reach, Quarter)
           west == IF d.polar THEN -Half ELSE Wrapped(d.longitude - d.spread, Half)
           east == IF d.polar THEN Half ELSE Wrapped(d.longitude + d.spread, Half)
<1>1. /\ Half \in Nat /\ Quarter \in Nat \ {0} /\ Half = 2 * Quarter
      /\ d.latitude \in -Quarter .. Quarter /\ d.longitude \in -Half .. Half
      /\ d.reach \in Nat /\ d.spread \in 0 .. Quarter
  BY QueryIsTyped DEF ValidDisk
<1>2. /\ Extent(q).south = south /\ Extent(q).north = north
      /\ Extent(q).ranges = LongitudeRanges(west, east)
  <2>1. LongitudeRanges(-Half, Half) = {<<-Half, Half>>}
    BY <1>1 DEF LongitudeRanges
  <2>2. CASE d.polar
    BY <2>1, <2>2 DEF Extent
  <2>3. CASE ~d.polar
    BY <2>3 DEF Extent, Wrapped
  <2> QED BY <2>2, <2>3
<1>3. south \in Int /\ north \in Int /\ south <= north
  BY <1>1 DEF Clamp
<1>4. west \in -Half .. Half /\ east \in -Half .. Half
  BY <1>1 DEF Wrapped
<1>5. IsExtent(Extent(q))
  <2> HIDE DEF west, east, south, north
  <2> QED BY <1>2, <1>3, <1>4 DEF IsExtent
<1>6. ASSUME NEW e \in Events, withinRadius(e, d)
      PROVE  LiesIn(e, Extent(q))
  <2>1. e.latitude \in -Quarter .. Quarter /\ e.longitude \in -Half .. Half
    BY PositionsAssumption
  <2>2. south <= e.latitude /\ e.latitude <= north
    <3>1. e.latitude - d.latitude \in 1 - d.reach .. d.reach - 1
      BY <1>6 DEF withinRadius
    <3> QED BY <1>1, <2>1, <3>1 DEF Clamp
  <2>3. /\ west > east => west <= e.longitude \/ e.longitude <= east
        /\ ~(west > east) => west <= e.longitude /\ e.longitude <= east
    <3>1. CASE d.polar
      BY <1>1, <2>1, <3>1
    <3>2. CASE ~d.polar
      <4>1. PICK turn \in {-2 * Half, 0, 2 * Half} :
              e.longitude - d.longitude + turn \in 1 - d.spread .. d.spread - 1
        BY <1>6, <3>2 DEF withinRadius
      <4> DEFINE lon == d.longitude
                 spread == d.spread
                 x == e.longitude
      <4>2. /\ lon \in -Half .. Half /\ spread \in 0 .. Half /\ 2 * spread <= Half /\ Half # 0
            /\ x \in -Half .. Half /\ x - lon + turn \in 1 - spread .. spread - 1 /\ Half \in Nat
        BY <1>1, <2>1, <4>1
      <4>3. west = Wrapped(lon - spread, Half) /\ east = Wrapped(lon + spread, Half)
        BY <3>2
      <4> HIDE DEF lon, spread, x, west, east
      <4>4. LET w == Wrapped(lon - spread, Half)
                v == Wrapped(lon + spread, Half)
            IN  /\ w > v => w <= x \/ x <= v
                /\ ~(w > v) => w <= x /\ x <= v
        BY <4>2, DiskRanges
      <4> QED BY <4>3, <4>4 DEF x
    <3> QED BY <3>1, <3>2
  <2> HIDE DEF west, east, south, north
  <2>4. \E r \in LongitudeRanges(west, east) :
          r[1] \in Int /\ r[2] \in Int /\ r[1] <= e.longitude /\ e.longitude <= r[2]
    <3>0. /\ west \in Int /\ east \in Int /\ Half \in Int /\ -Half \in Int
          /\ -Half <= e.longitude /\ e.longitude <= Half /\ e.longitude \in Int
      BY <1>1, <1>4, <2>1
    <3>1. CASE west > east
      <4>1. LongitudeRanges(west, east) = {<<west, Half>>, <<-Half, east>>}
        BY <3>1 DEF LongitudeRanges
      <4>2. CASE west <= e.longitude
        BY <3>0, <4>1, <4>2
      <4>3. CASE e.longitude <= east
        BY <3>0, <4>1, <4>3
      <4> QED BY <2>3, <3>1, <4>2, <4>3
    <3>2. CASE ~(west > east)
      <4>1. LongitudeRanges(west, east) = {<<west, east>>}
        BY <3>2 DEF LongitudeRanges
      <4> QED BY <2>3, <3>0, <3>2, <4>1
    <3> QED BY <3>1, <3>2
  <2> QED BY <1>2, <2>2, <2>4 DEF LiesIn
<1> QED BY <1>5, <1>6

LEMMA BoxExtent ==
  ASSUME NEW q \in Queries, q.viewport = "full", ValidBox(q.box)
  PROVE  /\ IsExtent(Extent(q))
         /\ \A e \in Events : spatialPredicate(e, q) => LiesIn(e, Extent(q))
<1> DEFINE b == Canonical(q.box)
<1>1. /\ Extent(q).south = b.south /\ Extent(q).north = b.north
      /\ Extent(q).ranges = LongitudeRanges(b.west, b.east)
  BY DEF Extent
<1>2. /\ b.south \in Int /\ b.north \in Int /\ b.south <= b.north
      /\ b.west \in -Half .. Half /\ b.east \in -Half .. Half
  <2>1. b.south < b.north
    BY QueryIsTyped DEF ValidBox
  <2> QED BY <2>1, HalvesAreProper
<1>3. \A r \in LongitudeRanges(b.west, b.east) : r[1] \in Int /\ r[2] \in Int
  <2>1. Half \in Int /\ -Half \in Int /\ b.west \in Int /\ b.east \in Int
    BY <1>2, QueryIsTyped
  <2> HIDE DEF b
  <2> QED BY <2>1 DEF LongitudeRanges
<1>4. ASSUME NEW e \in Events, spatialPredicate(e, q)
      PROVE  LiesIn(e, Extent(q))
  <2>1. PICK half \in LongitudeRanges(b.west, b.east) : viewportPredicate(e, b.south, b.north, half)
    BY <1>4 DEF spatialPredicate
  <2>2. /\ e.longitude \in half[1] .. half[2] /\ e.latitude \in b.south .. b.north
    BY <2>1 DEF viewportPredicate, withinBoundingBox
  <2>3. /\ half[1] <= e.longitude /\ e.longitude <= half[2]
        /\ b.south <= e.latitude /\ e.latitude <= b.north
    BY <1>2, <1>3, <2>2
  <2> HIDE DEF b
  <2> QED BY <1>1, <1>3, <2>3 DEF LiesIn
<1> HIDE DEF b
<1> QED BY <1>1, <1>2, <1>4 DEF IsExtent

\* Of a query that was let in.
IsArea(q) ==
  /\ q \in Queries
  /\ IF q.viewport = "full" THEN ValidBox(q.box) ELSE ValidDisk(q.disk)

LEMMA AreaExtent ==
  ASSUME NEW q, IsArea(q), population \subseteq Events
  PROVE  IsExtent(Extent(q)) /\ \A e \in Found(q) : e \in Events /\ LiesIn(e, Extent(q))
<1>1. q \in Queries
  BY DEF IsArea
<1>2. CASE q.viewport = "full"
  BY <1>1, <1>2, BoxExtent DEF IsArea, Found
<1>3. CASE q.viewport # "full"
  BY <1>1, <1>3, DiskExtent DEF IsArea, Found, spatialPredicate
<1> QED BY <1>2, <1>3
\* The count of cells is that of the grid's part which the extent touches.
LEMMA CellsAreCounted ==
  ASSUME NEW size \in Nat \ {0}, NEW extent, IsExtent(extent)
  PROVE  /\ IsFiniteSet(TouchedColumns(extent, size) \X TouchedRows(extent, size))
         /\ Cardinality(TouchedColumns(extent, size) \X TouchedRows(extent, size)) = CellCount(extent, size)
<1> DEFINE columns == TouchedColumns(extent, size)
           rows == TouchedRows(extent, size)
           south == LatitudeCell(extent.south, size)
           north == LatitudeCell(extent.north, size)
           across == Across({<<LongitudeCell(r[1], size), LongitudeCell(r[2], size)>> : r \in extent.ranges})
<1>1. IsFiniteSet(columns) /\ Cardinality(columns) = across
  BY ColumnsAreCounted DEF IsExtent
<1>2. south \in Nat /\ north \in Nat /\ south <= north
  BY CellsOfAxes DEF IsExtent
<1>3. IsFiniteSet(rows) /\ Cardinality(rows) = north - south + 1
  <2> HIDE DEF south, north
  <2>1. IsFiniteSet(south .. north) /\ Cardinality(south .. north) = north - south + 1
    BY <1>2, FS_Interval
  <2> QED BY <2>1 DEF TouchedRows, south, north
<1>4. CellCount(extent, size) = (north - south + 1) * across
  BY CountIsAcross
<1> HIDE DEF columns, rows, south, north, across
<1>5. IsFiniteSet(columns \X rows) /\ Cardinality(columns \X rows) = Cardinality(columns) * Cardinality(rows)
  BY <1>1, <1>3, FS_Product
<1>6. across \in Nat /\ (north - south + 1) \in Nat
  BY <1>1, <1>2, FS_CardinalityType
<1>7. across * (north - south + 1) = (north - south + 1) * across
  BY <1>6
<1> QED BY <1>1, <1>3, <1>4, <1>5, <1>7 DEF columns, rows

\* At the coarsest scale the world is one cell.
LEMMA CoarsestIsOne ==
  ASSUME NEW extent, IsExtent(extent)
  PROVE  CellCount(extent, 2 * Half) = 1
<1>1. /\ Quarter \in Nat \ {0} /\ Half = 2 * Quarter /\ 2 * Half \in Nat \ {0}
      /\ 2 * Quarter \in Nat \ {0} /\ 2 * Quarter <= 2 * Half /\ 2 * Half <= 2 * Half
      /\ -Quarter \in Int /\ -Half \in Int /\ Half \in Int
  BY GridIsTyped
<1>2. \A x \in Int : LatitudeCell(x, 2 * Half) = 0 /\ LongitudeCell(x, 2 * Half) = 0
  <2> SUFFICES ASSUME NEW x \in Int
               PROVE  LatitudeCell(x, 2 * Half) = 0 /\ LongitudeCell(x, 2 * Half) = 0
    OBVIOUS
  <2>1. Cell(x, -Quarter, 2 * Quarter, 2 * Half) = 0
    BY <1>1, OneCell
  <2>2. Cell(x, -Half, 2 * Half, 2 * Half) = 0
    BY <1>1, OneCell
  <2> QED BY <2>1, <2>2 DEF LatitudeCell, LongitudeCell
<1>3. PICK west \in -Half .. Half, east \in -Half .. Half : extent.ranges = LongitudeRanges(west, east)
  BY DEF IsExtent
<1> DEFINE cols == {<<LongitudeCell(r[1], 2 * Half), LongitudeCell(r[2], 2 * Half)>> : r \in extent.ranges}
<1>4. cols = {<<0, 0>>}
  <2>0. west \in Int /\ east \in Int
    BY <1>1
  <2>1. \A r \in LongitudeRanges(west, east) : r[1] \in Int /\ r[2] \in Int
    BY <1>1, <2>0 DEF LongitudeRanges
  <2>2. LongitudeRanges(west, east) # {}
    BY DEF LongitudeRanges
  <2>3. \A r \in extent.ranges : LongitudeCell(r[1], 2 * Half) = 0 /\ LongitudeCell(r[2], 2 * Half) = 0
    BY <1>2, <1>3, <2>1
  <2> QED BY <1>3, <2>2, <2>3
<1>5. Across(cols) = 1
  <2>1. Across({<<0, 0>>}) = 0 - 0 + 1
    BY OneRange
  <2> HIDE DEF cols
  <2> QED BY <1>4, <2>1
<1>6. LatitudeCell(extent.south, 2 * Half) = 0 /\ LatitudeCell(extent.north, 2 * Half) = 0
  BY <1>2 DEF IsExtent
<1>7. CellCount(extent, 2 * Half) = (0 - 0 + 1) * Across(cols)
  BY <1>6, CountIsAcross
<1> HIDE DEF cols
<1> QED BY <1>5, <1>7

\* The loop of explorerClusterScale ends with a grid that has room enough.
LEMMA ScaleFits ==
  ASSUME NEW q \in Queries, q.limit >= 1, IsExtent(Extent(q))
  PROVE  /\ ClusterScale(q) \in 0 .. Zoom(q) + 2
         /\ CellSize(q, ClusterScale(q)) \in Nat \ {0}
         /\ CellCount(Extent(q), CellSize(q, ClusterScale(q))) <= q.limit
<1> DEFINE scales == {k \in 0 .. Zoom(q) + 2 : CellCount(Extent(q), CellSize(q, k)) <= q.limit}
<1>1. /\ q.zoom \in Int /\ q.limit \in Int /\ Zoom(q) \in Nat
      /\ CellSize(q, Zoom(q) + 2) = 2 * Half
  BY QueryIsTyped, GridIsTyped
<1>2. Zoom(q) + 2 \in scales
  <2>1. CellCount(Extent(q), CellSize(q, Zoom(q) + 2)) = 1
    BY <1>1, CoarsestIsOne
  <2> QED BY <1>1, <2>1
<1>3. scales \in SUBSET Nat
  BY <1>1
<1>4. PICK k \in scales : \A m \in scales : ~(<<m, k>> \in OpToRel(<, Nat))
  BY <1>2, <1>3, NatLessThanWellFounded, WFMin
<1>5. \A m \in scales : k <= m
  <2> SUFFICES ASSUME NEW m \in scales, ~(k <= m) PROVE FALSE
    OBVIOUS
  <2>1. m \in Nat /\ k \in Nat /\ m < k
    BY <1>3
  <2> HIDE DEF scales
  <2>2. <<m, k>> \in OpToRel(<, Nat)
    BY <2>1 DEF OpToRel
  <2> QED BY <1>4, <2>2
<1>6. LeastOf(scales) \in scales
  <2> HIDE DEF scales
  <2> QED BY <1>5 DEF LeastOf
<1>7. ClusterScale(q) \in scales
  BY <1>6 DEF ClusterScale
<1>8. ClusterScale(q) \in 0 .. Zoom(q) + 2 /\ CellCount(Extent(q), CellSize(q, ClusterScale(q))) <= q.limit
  BY <1>7
<1> QED BY <1>1, <1>8, GridIsTyped

\* There are never more clusters than were asked for.
Buckets(q) == {Bucket(e, q) : e \in Found(q)}

LEMMA ClustersFit ==
  ASSUME NEW q, IsArea(q), q.limit >= 1, population \subseteq Events
  PROVE  /\ IsFiniteSet(Found(q)) /\ IsFiniteSet(Clusters(q))
         /\ Cardinality(Clusters(q)) \in Nat /\ Cardinality(Clusters(q)) <= q.limit
<1> DEFINE size == CellSize(q, ClusterScale(q))
           extent == Extent(q)
           cells == TouchedColumns(extent, size) \X TouchedRows(extent, size)
           f == [b \in Buckets(q) |-> Cluster(b, q)]
<1>1. q \in Queries /\ q.limit \in Int
  BY QueryIsTyped DEF IsArea
<1>2. IsExtent(extent) /\ \A e \in Found(q) : e \in Events /\ LiesIn(e, extent)
  BY AreaExtent
<1>3. size \in Nat \ {0} /\ CellCount(extent, size) <= q.limit
  BY <1>1, <1>2, ScaleFits
<1> HIDE DEF size, extent
<1>4. IsFiniteSet(cells) /\ Cardinality(cells) = CellCount(extent, size)
  BY <1>2, <1>3, CellsAreCounted
<1>5. Buckets(q) \subseteq cells
  <2> SUFFICES ASSUME NEW e \in Found(q)
               PROVE  /\ LongitudeCell(e.longitude, size) \in TouchedColumns(extent, size)
                      /\ LatitudeCell(e.latitude, size) \in TouchedRows(extent, size)
    BY DEF Buckets, Bucket, size
  <2>1. /\ extent.south <= e.latitude /\ e.latitude <= extent.north
        /\ extent.south \in Int /\ extent.north \in Int
    BY <1>2 DEF IsExtent, LiesIn
  <2>2. PICK r \in extent.ranges : r[1] \in Int /\ r[2] \in Int /\ r[1] <= e.longitude /\ e.longitude <= r[2]
    BY <1>2 DEF LiesIn
  <2>3. e.latitude \in Int /\ e.longitude \in Int
    BY <1>2, PositionsAssumption, GridIsTyped
  <2>4. LongitudeCell(e.longitude, size) \in LongitudeCell(r[1], size) .. LongitudeCell(r[2], size)
    BY <1>3, <2>2, <2>3, CellsOfAxes
  <2>5. LatitudeCell(e.latitude, size) \in LatitudeCell(extent.south, size) .. LatitudeCell(extent.north, size)
    <3>1. /\ LatitudeCell(extent.south, size) \in Nat /\ LatitudeCell(e.latitude, size) \in Nat
          /\ LatitudeCell(extent.south, size) <= LatitudeCell(e.latitude, size)
      BY <1>3, <2>1, <2>3, CellsOfAxes
    <3>2. /\ LatitudeCell(extent.north, size) \in Nat
          /\ LatitudeCell(e.latitude, size) <= LatitudeCell(extent.north, size)
      BY <1>3, <2>1, <2>3, CellsOfAxes
    <3> QED BY <3>1, <3>2
  <2> QED BY <2>2, <2>4, <2>5 DEF TouchedColumns, TouchedRows
<1>6. IsFiniteSet(Buckets(q)) /\ Cardinality(Buckets(q)) <= Cardinality(cells)
  <2> HIDE DEF cells
  <2> QED BY <1>4, <1>5, FS_Subset
<1>7. f \in Surjection(Buckets(q), Clusters(q))
  <2>1. Clusters(q) = {Cluster(b, q) : b \in Buckets(q)}
    BY DEF Clusters, Buckets
  <2> QED BY <2>1 DEF Surjection
<1>8. IsFiniteSet(Clusters(q)) /\ Cardinality(Clusters(q)) <= Cardinality(Buckets(q))
  BY <1>6, <1>7, FS_Surjection
<1>9. IsFiniteSet(Found(q))
  <2>1. Found(q) \in SUBSET Events
    BY <1>2
  <2> QED BY <2>1, ExplorerAssumption, FS_Subset
<1>10. Cardinality(Clusters(q)) \in Nat /\ Cardinality(Buckets(q)) \in Nat /\ Cardinality(cells) \in Nat
  BY <1>4, <1>6, <1>8, FS_CardinalityType
<1> HIDE DEF cells
<1> QED BY <1>1, <1>3, <1>4, <1>6, <1>8, <1>9, <1>10
-----------------------------------------------------------------------------
(* Explorer: a total is the sum of its parts.                              *)

AnyIn(s) == CHOOSE x \in s : TRUE

\* What MapThenSumSet computes, one element after the other.
IsSum(sum, K, w) ==
  sum = [s \in SUBSET K |-> IF s = {} THEN 0 ELSE w[AnyIn(s)] + sum[s \ {AnyIn(s)}]]

LEMMA AnyOne == \A s : s # {} => AnyIn(s) \in s
BY DEF AnyIn

LEMMA SumSteps ==
  ASSUME NEW K, NEW w, NEW sum, IsSum(sum, K, w), NEW s \in SUBSET K
  PROVE  sum[s] = IF s = {} THEN 0 ELSE w[AnyIn(s)] + sum[s \ {AnyIn(s)}]
BY DEF IsSum

\* There is only one such sum: consider a smallest set on which two differ.
LEMMA SumsAgree ==
  ASSUME NEW K, IsFiniteSet(K), NEW w, NEW sum, IsSum(sum, K, w), NEW other, IsSum(other, K, w)
  PROVE  sum[K] = other[K]
<1> DEFINE T == {s \in SUBSET K : sum[s] # other[s]}
<1> SUFFICES ASSUME T # {} PROVE FALSE
  OBVIOUS
<1>1. T \subseteq FiniteSubsetsOf(K)
  BY FS_Subset DEF FiniteSubsetsOf
<1> HIDE DEF T
<1>2. PICK t \in T : \A u \in T : ~(<<u, t>> \in StrictSubsetOrdering(K))
  BY <1>1, FS_StrictSubsetOrderingWellFounded, WFMin
<1>3. t \in SUBSET K /\ sum[t] # other[t]
  BY <1>2 DEF T
<1> DEFINE rest == t \ {AnyIn(t)}
<1>4. t # {} /\ sum[rest] # other[rest]
  BY <1>3, SumSteps
<1>5. rest \in T /\ <<rest, t>> \in StrictSubsetOrdering(K)
  BY <1>3, <1>4, AnyOne DEF T, StrictSubsetOrdering
<1> QED BY <1>2, <1>5

\* w has the size of each part of a set.
Sizes(w, F, part, K) == \A k \in K : w[k] = Cardinality({x \in F : part[x] = k})

\* A finite set is counted part by part.
LEMMA PartsAddUp ==
  ASSUME NEW F, IsFiniteSet(F), NEW K, IsFiniteSet(K), NEW part, \A x \in F : part[x] \in K,
         NEW w, Sizes(w, F, part, K)
  PROVE  /\ \E sum : IsSum(sum, K, w)
         /\ \A sum : IsSum(sum, K, w) => sum[K] = Cardinality(F)
<1> DEFINE in(s) == {x \in F : part[x] \in s}
           count == [s \in SUBSET K |-> Cardinality(in(s))]
<1>1. \A s \in SUBSET K : count[s] = IF s = {} THEN 0 ELSE w[AnyIn(s)] + count[s \ {AnyIn(s)}]
  <2> SUFFICES ASSUME NEW s \in SUBSET K
               PROVE  count[s] = IF s = {} THEN 0 ELSE w[AnyIn(s)] + count[s \ {AnyIn(s)}]
    OBVIOUS
  <2>1. CASE s = {}
    <3>1. in({}) = {}
      OBVIOUS
    <3> QED BY <2>1, <3>1, FS_EmptySet
  <2>2. CASE s # {}
    <3> DEFINE k == AnyIn(s)
               one == {x \in F : part[x] = k}
               rest == in(s \ {k})
    <3>1. k \in s /\ k \in K
      BY <2>2, AnyOne
    <3>2. in(s) = one \cup rest /\ one \cap rest = {}
      BY <3>1
    <3>3. IsFiniteSet(one) /\ IsFiniteSet(rest)
      BY FS_Subset
    <3>4. w[k] = Cardinality(one)
      BY <3>1 DEF Sizes
    <3>5. count[s] = Cardinality(in(s)) /\ count[s \ {k}] = Cardinality(rest)
      OBVIOUS
    <3> HIDE DEF one, rest, in, count, k
    <3>6. Cardinality(one \cup rest) = Cardinality(one) + Cardinality(rest) - Cardinality(one \cap rest)
      BY <3>3, FS_Union
    <3>7. Cardinality(one \cap rest) = 0 /\ Cardinality(one) \in Nat /\ Cardinality(rest) \in Nat
      BY <3>2, <3>3, FS_EmptySet, FS_CardinalityType
    <3>8. count[s] = w[k] + count[s \ {k}]
      BY <3>2, <3>4, <3>5, <3>6, <3>7
    <3> QED BY <2>2, <3>8 DEF k
  <2> QED BY <2>1, <2>2
<1>2. IsSum(count, K, w)
  <2>1. count = [s \in SUBSET K |-> count[s]]
    OBVIOUS
  <2> HIDE DEF count
  <2> QED BY <1>1, <2>1 DEF IsSum
<1>3. count[K] = Cardinality(F)
  <2>1. in(K) = F
    OBVIOUS
  <2> QED BY <2>1
<1> HIDE DEF count
<1> QED BY <1>2, <1>3, SumsAgree

\* MapThenSumSet, of a record's field and of a pair's second component.
LEMMA EventsAddUp ==
  ASSUME NEW K, NEW w, w = [c \in K |-> c.eventCount], \E sum : IsSum(sum, K, w)
  PROVE  \E sum : IsSum(sum, K, w) /\ MapThenSumSet(LAMBDA c : c.eventCount, K) = sum[K]
<1> DEFINE Goes(sum, s) == IF s = {} THEN 0
                           ELSE LET x == CHOOSE x \in s : TRUE IN x.eventCount + sum[s \ {x}]
           Next(sum) == [s \in SUBSET K |-> Goes(sum, s)]
           iter == CHOOSE iter : iter = Next(iter)
<1>1. MapThenSumSet(LAMBDA c : c.eventCount, K) = iter[K]
  BY DEF MapThenSumSet, MapThenFoldSet
<1>2. ASSUME NEW sum PROVE IsSum(sum, K, w) <=> sum = Next(sum)
  <2> DEFINE Adds(s) == IF s = {} THEN 0 ELSE w[AnyIn(s)] + sum[s \ {AnyIn(s)}]
  <2>1. ASSUME NEW s \in SUBSET K PROVE Adds(s) = Goes(sum, s)
    <3>1. s # {} => w[AnyIn(s)] = LET x == AnyIn(s) IN x.eventCount
      BY AnyOne
    <3> QED BY <3>1 DEF AnyIn
  <2>2. IsSum(sum, K, w) <=> sum = [s \in SUBSET K |-> Adds(s)]
    BY DEF IsSum
  <2> HIDE DEF Adds, Goes
  <2>3. [s \in SUBSET K |-> Adds(s)] = [s \in SUBSET K |-> Goes(sum, s)]
    BY <2>1
  <2> QED BY <2>2, <2>3
<1> HIDE DEF Next
<1>3. iter = Next(iter)
  <2>1. \E sum : sum = Next(sum)
    BY <1>2
  <2> QED BY <2>1
<1> HIDE DEF iter
<1>4. IsSum(iter, K, w)
  BY <1>2, <1>3
<1> QED BY <1>1, <1>4

LEMMA CategoriesAddUp ==
  ASSUME NEW K, NEW w, w = [c \in K |-> c[2]], \E sum : IsSum(sum, K, w)
  PROVE  \E sum : IsSum(sum, K, w) /\ MapThenSumSet(LAMBDA c : c[2], K) = sum[K]
<1> DEFINE Goes(sum, s) == IF s = {} THEN 0
                           ELSE LET x == CHOOSE x \in s : TRUE IN x[2] + sum[s \ {x}]
           Next(sum) == [s \in SUBSET K |-> Goes(sum, s)]
           iter == CHOOSE iter : iter = Next(iter)
<1>1. MapThenSumSet(LAMBDA c : c[2], K) = iter[K]
  BY DEF MapThenSumSet, MapThenFoldSet
<1>2. ASSUME NEW sum PROVE IsSum(sum, K, w) <=> sum = Next(sum)
  <2> DEFINE Adds(s) == IF s = {} THEN 0 ELSE w[AnyIn(s)] + sum[s \ {AnyIn(s)}]
  <2>1. ASSUME NEW s \in SUBSET K PROVE Adds(s) = Goes(sum, s)
    <3>1. s # {} => w[AnyIn(s)] = LET x == AnyIn(s) IN x[2]
      BY AnyOne
    <3> QED BY <3>1 DEF AnyIn
  <2>2. IsSum(sum, K, w) <=> sum = [s \in SUBSET K |-> Adds(s)]
    BY DEF IsSum
  <2> HIDE DEF Adds, Goes
  <2>3. [s \in SUBSET K |-> Adds(s)] = [s \in SUBSET K |-> Goes(sum, s)]
    BY <2>1
  <2> QED BY <2>2, <2>3
<1> HIDE DEF Next
<1>3. iter = Next(iter)
  <2>1. \E sum : sum = Next(sum)
    BY <1>2
  <2> QED BY <2>1
<1> HIDE DEF iter
<1>4. IsSum(iter, K, w)
  BY <1>2, <1>3
<1> QED BY <1>1, <1>4
-----------------------------------------------------------------------------
(* Explorer: the answers.                                                  *)

\* A total over the clusters, and one over the categories of each.
LEMMA ClustersAddUp ==
  ASSUME NEW q, IsFiniteSet(Found(q)), IsFiniteSet(Clusters(q))
  PROVE  /\ MapThenSumSet(LAMBDA c : c.eventCount, Clusters(q)) = Cardinality(Found(q))
         /\ \A c \in Clusters(q) : c.eventCount = MapThenSumSet(LAMBDA s : s[2], c.categories)
<1> DEFINE F == Found(q)
           K == Clusters(q)
           part == [e \in F |-> Cluster(Bucket(e, q), q)]
           w == [c \in K |-> c.eventCount]
<1>1. \A e \in F : part[e] \in K
  BY DEF Clusters
<1>2. ASSUME NEW c \in K PROVE w[c] = Cardinality({e \in F : part[e] = c})
  <2>1. PICK b \in {Bucket(e, q) : e \in F} : c = Cluster(b, q)
    BY DEF Clusters
  <2>2. \A d : Cluster(d, q).bucket = d
    BY DEF Cluster
  <2>3. \A e \in F : part[e] = c <=> Bucket(e, q) = b
    BY <2>1, <2>2
  <2>4. c.eventCount = Cardinality({e \in F : Bucket(e, q) = b})
    BY <2>1 DEF Cluster
  <2>5. {e \in F : part[e] = c} = {e \in F : Bucket(e, q) = b}
    BY <2>3
  <2> QED BY <2>4, <2>5
<1>3. MapThenSumSet(LAMBDA c : c.eventCount, K) = Cardinality(F)
  <2> HIDE DEF part, F, K
  <2>1. IsFiniteSet(F) /\ IsFiniteSet(K)
    BY DEF F, K
  <2> HIDE DEF w
  <2>0. Sizes(w, F, part, K)
    BY <1>2 DEF Sizes
  <2>2. /\ \E sum : IsSum(sum, K, w)
        /\ \A sum : IsSum(sum, K, w) => sum[K] = Cardinality(F)
    BY <1>1, <2>0, <2>1, PartsAddUp
  <2> QED BY <2>2, EventsAddUp DEF w
<1>4. ASSUME NEW c \in K PROVE c.eventCount = MapThenSumSet(LAMBDA s : s[2], c.categories)
  <2>1. PICK b \in {Bucket(e, q) : e \in F} : c = Cluster(b, q)
    BY DEF Clusters
  <2> DEFINE inside == {e \in F : Bucket(e, q) = b}
             of(k) == {e \in inside : e.category = k}
             pair(k) == <<k, Cardinality(of(k))>>
             names == {e.category : e \in inside}
             pairs == {pair(k) : k \in names}
             kind == [e \in inside |-> pair(e.category)]
             v == [s \in pairs |-> s[2]]
             g == [e \in inside |-> e.category]
             h == [k \in names |-> pair(k)]
  <2>2. c.eventCount = Cardinality(inside) /\ c.categories = pairs
    BY <2>1 DEF Cluster
  <2>3. IsFiniteSet(inside)
    BY FS_Subset
  <2>4. IsFiniteSet(pairs)
    <3>1. kind \in Surjection(inside, pairs)
      <4>1. kind \in [inside -> pairs] /\ \A s \in pairs : \E e \in inside : kind[e] = s
        OBVIOUS
      <4> HIDE DEF kind, pairs, inside
      <4> QED BY <4>1 DEF Surjection
    <3> QED BY <2>3, <3>1, FS_Surjection
  <2>5. \A e \in inside : kind[e] \in pairs
    OBVIOUS
  <2>6. ASSUME NEW s \in pairs PROVE v[s] = Cardinality({e \in inside : kind[e] = s})
    <3>1. PICK k \in names : s = pair(k)
      OBVIOUS
    <3>2. \A e \in inside : kind[e] = s <=> e.category = k
      BY <3>1
    <3>3. {e \in inside : kind[e] = s} = of(k)
      BY <3>2
    <3> QED BY <3>1, <3>3
  <2> HIDE DEF inside, pairs, kind, v
  <2>0. Sizes(v, inside, kind, pairs)
    BY <2>6 DEF Sizes
  <2>7. /\ \E sum : IsSum(sum, pairs, v)
        /\ \A sum : IsSum(sum, pairs, v) => sum[pairs] = Cardinality(inside)
    BY <2>0, <2>3, <2>4, <2>5, PartsAddUp
  <2>8. MapThenSumSet(LAMBDA s : s[2], pairs) = Cardinality(inside)
    BY <2>7, CategoriesAddUp DEF v
  <2> QED BY <2>2, <2>8
<1> QED BY <1>3, <1>4

\* No cluster is cut off by the limit.
LEMMA AllAreKept ==
  ASSUME NEW rows, IsFiniteSet(rows), NEW limit \in Int, Cardinality(rows) <= limit
  PROVE  Kept(rows, limit) = rows
<1>1. Cardinality(rows) \in Nat
  BY FS_CardinalityType
<1>2. LeastOf({limit, Cardinality(rows)}) = Cardinality(rows)
  <2>1. \A x \in {limit, Cardinality(rows)} :
          (\A y \in {limit, Cardinality(rows)} : x <= y) <=> x = Cardinality(rows)
    BY <1>1
  <2> QED BY <2>1 DEF LeastOf
<1>3. \A kept \in SUBSET rows : Cardinality(kept) = Cardinality(rows) <=> kept = rows
  BY FS_Subset
<1> DEFINE Chosen(kept) == /\ Cardinality(kept) = LeastOf({limit, Cardinality(rows)})
                           /\ \A r \in kept, s \in rows \ kept : r.first <= s.first
<1>4. \A kept \in SUBSET rows : Chosen(kept) <=> kept = rows
  BY <1>2, <1>3
<1> HIDE DEF Chosen
<1>5. (CHOOSE kept \in SUBSET rows : Chosen(kept)) = rows
  BY <1>4
<1> QED BY <1>5 DEF Kept, Chosen

MapInv ==
  /\ population \subseteq Events
  /\ \/ answer = NoAnswer
     \/ \E q \in Queries : answer = [kind |-> "invalid", query |-> q]
     \/ \E q \in Queries : ValidQuery(q) /\ answer = Markers(q)
     \/ \E q \in Queries : /\ answer.kind = "cards" /\ answer.query = q
                           /\ q.viewport = "full" => ValidBox(q.box)

LEMMA MapInit == ExplorerInit => MapInv
BY DEF ExplorerInit, MapInv

LEMMA MapNext == MapInv /\ [ExplorerNext]_explorerVars => MapInv'
<1> SUFFICES ASSUME MapInv, [ExplorerNext]_explorerVars PROVE MapInv'
  OBVIOUS
<1>1. ASSUME population' = population, NEW q PROVE Found(q)' = Found(q) /\ Markers(q)' = Markers(q)
  <2>1. Found(q)' = Found(q)
    BY <1>1 DEF Found
  <2>2. Clusters(q)' = Clusters(q)
    BY <2>1 DEF Clusters, Cluster
  <2> QED BY <2>1, <2>2 DEF Markers, ReturnPins
<1>2. CASE UNCHANGED explorerVars
  BY <1>1, <1>2 DEF explorerVars, MapInv
<1>3. ASSUME NEW q \in Queries, DiscoverEvents(q) PROVE MapInv'
  <2>1. population' = population /\ Markers(q)' = Markers(q)
    BY <1>1, <1>3 DEF DiscoverEvents
  <2>2. ValidQuery(q)' <=> ValidQuery(q)
    OBVIOUS
  <2> QED BY <1>3, <2>1 DEF DiscoverEvents, MapInv
<1>4. ASSUME NEW q \in Queries, DiscoverEventCards(q) PROVE MapInv'
  <2>1. population' = population /\ answer'.kind = "cards" /\ answer'.query = q
    BY <1>4 DEF DiscoverEventCards
  <2> DEFINE near == [q EXCEPT !.zoom = 22]
  <2>2. near.viewport = q.viewport /\ near.box = q.box
    BY PositionsAssumption
  <2>3. near.viewport = "full" => ValidBox(near.box)
    <3>1. ValidQuery(near)
      BY <1>4 DEF DiscoverEventCards
    <3> HIDE DEF near
    <3> QED BY <3>1 DEF ValidQuery
  <2> QED BY <2>1, <2>2, <2>3 DEF MapInv
<1>5. CASE AskAgain
  BY <1>5 DEF AskAgain, MapInv
<1>6. ASSUME NEW e \in Events, Toggle(e) PROVE MapInv'
  BY <1>6 DEF Toggle, MapInv
<1> QED BY <1>2, <1>3, <1>4, <1>5, <1>6 DEF ExplorerNext

LEMMA MapInvariance == ExplorerSpec => []MapInv
BY MapInit, MapNext, PTL DEF ExplorerSpec

\* The map shows everything there is to show, each event once, and never more
\* than was asked for: no grid explorerClusterScale settles on is too fine, at
\* the poles or on either side of the antimeridian, and no total is partial.
THEOREM TheMapTellsAll == ExplorerSpec => []MapTellsAll
<1>1. MapInv => MapTellsAll
  <2> SUFFICES ASSUME MapInv PROVE MapTellsAll
    OBVIOUS
  <2>1. CASE answer = NoAnswer
    BY <2>1 DEF MapTellsAll, NoAnswer
  <2>2. ASSUME NEW q \in Queries, answer = [kind |-> "invalid", query |-> q] PROVE MapTellsAll
    BY <2>2 DEF MapTellsAll
  <2>3. ASSUME NEW q \in Queries, q.viewport = "full" => ValidBox(q.box), answer.query = q
        PROVE  answer.query.viewport = "full" =>
                 LET b == Canonical(answer.query.box)
                 IN  \A half \in LongitudeRanges(b.west, b.east) : Proper(b.south, b.north, half)
    BY <2>3, HalvesAreProper
  <2>4. ASSUME NEW q \in Queries, answer.kind = "cards", answer.query = q,
               q.viewport = "full" => ValidBox(q.box)
        PROVE  MapTellsAll
    BY <2>3, <2>4 DEF MapTellsAll
  <2>5. ASSUME NEW q \in Queries, ValidQuery(q), answer = Markers(q) PROVE MapTellsAll
    <3>1. /\ population \subseteq Events /\ IsArea(q) /\ q.limit \in Int /\ q.limit >= 1
          /\ q.viewport = "full" => ValidBox(q.box)
      BY <2>5 DEF MapInv, ValidQuery, IsArea
    <3>2. /\ IsFiniteSet(Found(q)) /\ IsFiniteSet(Clusters(q))
          /\ Cardinality(Clusters(q)) <= q.limit
      BY <3>1, ClustersFit
    <3>3. answer.query = q
      BY <2>5 DEF Markers
    <3>4. answer.kind = "pins" => Cardinality(answer.events) <= answer.query.limit
      BY <2>5 DEF Markers, ReturnPins
    <3>5. ASSUME answer.kind = "clusters"
          PROVE  answer.clusters = Clusters(q) /\ answer.eventCount = Cardinality(Found(q))
      <4>1. answer = [kind |-> "clusters", query |-> q, eventCount |-> Cardinality(Found(q)),
                      clusters |-> Kept(Clusters(q), q.limit)]
        BY <2>5, <3>5 DEF Markers
      <4> QED BY <3>1, <3>2, <4>1, AllAreKept
    <3>6. /\ MapThenSumSet(LAMBDA c : c.eventCount, Clusters(q)) = Cardinality(Found(q))
          /\ \A c \in Clusters(q) : c.eventCount = MapThenSumSet(LAMBDA s : s[2], c.categories)
      BY <3>2, ClustersAddUp
    <3> QED BY <2>3, <3>1, <3>2, <3>3, <3>4, <3>5, <3>6 DEF MapTellsAll
  <2> QED BY <2>1, <2>2, <2>4, <2>5 DEF MapInv
<1> QED BY <1>1, MapInvariance, PTL

-----------------------------------------------------------------------------
(* Trips: itineraries as sets of rows and as lists.                        *)

\* Numbers that climb from 0 to n - 1 in n steps go one at a time.
LEMMA ClimbsAtLeast ==
  ASSUME NEW n \in Nat, NEW f, \A i \in 1 .. n : f[i] \in Nat,
         \A i, j \in 1 .. n : i < j => f[i] < f[j]
  PROVE  \A i \in 1 .. n : i - 1 <= f[i]
<1> DEFINE T == {i \in 1 .. n : ~(i - 1 <= f[i])}
<1> SUFFICES ASSUME T # {} PROVE FALSE
  OBVIOUS
<1>1. T \in SUBSET Nat
  OBVIOUS
<1> HIDE DEF T
<1>2. PICK i \in T : \A j \in T : ~(<<j, i>> \in OpToRel(<, Nat))
  BY <1>1, NatLessThanWellFounded, WFMin
<1>3. i \in 1 .. n /\ f[i] < i - 1 /\ f[i] \in Nat
  <2>1. i \in 1 .. n /\ ~(i - 1 <= f[i])
    BY DEF T
  <2>2. f[i] \in Nat
    BY <2>1
  <2> QED BY <2>1, <2>2
<1>4. i - 1 \in 1 .. n /\ f[i - 1] < f[i] /\ f[i - 1] \in Nat
  BY <1>3
<1>5. i - 1 \in T
  <2>1. ~(i - 1 - 1 <= f[i - 1])
    BY <1>3, <1>4
  <2> QED BY <1>4, <2>1 DEF T
<1>6. <<i - 1, i>> \in OpToRel(<, Nat)
  BY <1>3, <1>4 DEF OpToRel
<1> QED BY <1>2, <1>5, <1>6

LEMMA ClimbsByOne ==
  ASSUME NEW n \in Nat, NEW f, \A i \in 1 .. n : f[i] \in 0 .. n - 1,
         \A i, j \in 1 .. n : i < j => f[i] < f[j]
  PROVE  \A i \in 1 .. n : f[i] = i - 1
<1> DEFINE g == [i \in 1 .. n |-> n - 1 - f[n + 1 - i]]
<1>1. \A i \in 1 .. n : f[i] \in Nat /\ f[i] <= n - 1
  OBVIOUS
<1>2. \A i \in 1 .. n : i - 1 <= f[i]
  BY <1>1, ClimbsAtLeast
<1>3. \A i \in 1 .. n : n + 1 - i \in 1 .. n
  OBVIOUS
<1>4. \A i \in 1 .. n : g[i] = n - 1 - f[n + 1 - i]
  OBVIOUS
<1> HIDE DEF g
<1>5. \A i \in 1 .. n : g[i] \in Nat
  BY <1>1, <1>3, <1>4
<1>6. \A i, j \in 1 .. n : i < j => g[i] < g[j]
  <2> SUFFICES ASSUME NEW i \in 1 .. n, NEW j \in 1 .. n, i < j PROVE g[i] < g[j]
    OBVIOUS
  <2>1. n + 1 - j < n + 1 - i
    OBVIOUS
  <2>2. f[n + 1 - j] < f[n + 1 - i]
    BY <1>3, <2>1
  <2> QED BY <1>1, <1>3, <1>4, <2>2
<1>7. \A i \in 1 .. n : i - 1 <= g[i]
  BY <1>5, <1>6, ClimbsAtLeast
<1>8. ASSUME NEW i \in 1 .. n PROVE f[i] <= i - 1
  <2>1. n + 1 - i \in 1 .. n /\ n + 1 - (n + 1 - i) = i
    OBVIOUS
  <2>2. n + 1 - i - 1 <= n - 1 - f[i]
    BY <1>4, <1>7, <2>1
  <2> QED BY <1>1, <2>2
<1> QED BY <1>1, <1>2, <1>8

SegmentRow == [id : SegmentIds, start : 1 .. LastDay, end : 1 .. LastDay, order : Nat]

IsItinerary(rows) ==
  /\ rows \subseteq SegmentRow /\ IsFiniteSet(rows)
  /\ \A s, t \in rows : s.id = t.id \/ s.order = t.order => s = t
  /\ \A s \in rows : s.order < Cardinality(rows)

\* Every place of an itinerary is taken.
LEMMA PlacesAreTaken ==
  ASSUME NEW rows, IsItinerary(rows)
  PROVE  /\ Cardinality(rows) \in Nat
         /\ \A i \in 1 .. Cardinality(rows) : \E s \in rows : s.order = i - 1
<1> DEFINE n == Cardinality(rows)
           f == [s \in rows |-> s.order]
<1>1. n \in Nat
  BY FS_CardinalityType DEF IsItinerary
<1>2. \A s \in rows : s.order \in Nat /\ s.order < n
  BY DEF IsItinerary, SegmentRow
<1>3. f \in Injection(rows, 0 .. n - 1)
  <2>1. f \in [rows -> 0 .. n - 1]
    BY <1>1, <1>2
  <2>2. \A s, t \in rows : f[s] = f[t] => s = t
    BY DEF IsItinerary
  <2> HIDE DEF f, n
  <2> QED BY <2>1, <2>2 DEF Injection, IsInjective
<1> HIDE DEF n, f
<1>4. IsFiniteSet(0 .. n - 1) /\ Cardinality(0 .. n - 1) = n
  BY <1>1, FS_Interval
<1>5. f \in Surjection(rows, 0 .. n - 1)
  BY <1>3, <1>4, FS_Injection DEF n
<1>6. \A i \in 1 .. n : \E s \in rows : f[s] = i - 1
  BY <1>1, <1>5 DEF Surjection
<1> QED BY <1>1, <1>6 DEF f, n

\* Sorted, each row of an itinerary is where its sortOrder says.
LEMMA ListOfItinerary ==
  ASSUME NEW rows, IsItinerary(rows)
  PROVE  LET list == OrderSegments(rows)
         IN  /\ list \in [1 .. Cardinality(rows) -> rows]
             /\ \A i \in 1 .. Cardinality(rows) : list[i].order = i - 1
             /\ \A s \in rows : s.order + 1 \in 1 .. Cardinality(rows) /\ list[s.order + 1] = s
<1> DEFINE n == Cardinality(rows)
           list == OrderSegments(rows)
           Sorted(l) == \A i, j \in DOMAIN l : i < j => Earlier(l[i], l[j])
           p == [i \in 1 .. n |-> CHOOSE s \in rows : s.order = i - 1]
<1>1. n \in Nat /\ \A i \in 1 .. n : \E s \in rows : s.order = i - 1
  BY PlacesAreTaken
<1>2. \A s \in rows : s.order \in Nat /\ s.order < n /\ s.start \in Int /\ s.id \in Int
  <2> SUFFICES ASSUME NEW s \in rows
               PROVE  s.order \in Nat /\ s.order < n /\ s.start \in Int /\ s.id \in Int
    OBVIOUS
  <2>1. s \in SegmentRow /\ s.order < n
    BY DEF IsItinerary
  <2> HIDE DEF n
  <2>2. s.order \in Nat /\ s.start \in 1 .. LastDay /\ s.id \in SegmentIds
    BY <2>1 DEF SegmentRow
  <2>3. LastDay \in Nat /\ SegmentIds \subseteq Nat
    BY TripsAssumption
  <2>4. s.id \in Nat
    BY <2>2, <2>3
  <2>5. s.start \in Int
    BY <2>2, <2>3
  <2> QED BY <2>1, <2>2, <2>4, <2>5
<1>3. \A s, t \in rows : s.order = t.order => s = t
  BY DEF IsItinerary
<1>4. \A i \in 1 .. n : p[i] \in rows /\ p[i].order = i - 1
  BY <1>1
<1>5. p \in [1 .. n -> rows] /\ Sorted(p)
  <2>1. p \in [1 .. n -> rows]
    BY <1>4
  <2>2. \A i, j \in 1 .. n : i < j => p[i].order < p[j].order
    BY <1>4
  <2> HIDE DEF p
  <2> QED BY <2>1, <2>2 DEF Earlier
<1>6. list \in [1 .. n -> rows] /\ Sorted(list)
  <2>1. list = CHOOSE l \in [1 .. n -> rows] : Sorted(l)
    BY DEF OrderSegments
  <2> HIDE DEF Sorted, p, list
  <2> QED BY <1>5, <2>1
<1> HIDE DEF list, p, n, Sorted
<1>7. \A i, j \in 1 .. n : i < j => list[i].order < list[j].order
  <2> SUFFICES ASSUME NEW i \in 1 .. n, NEW j \in 1 .. n, i < j
               PROVE  list[i].order < list[j].order
    OBVIOUS
  <2>0. DOMAIN list = 1 .. n
    BY <1>6
  <2>1. list[i] \in rows /\ list[j] \in rows /\ Earlier(list[i], list[j])
    BY <1>6, <2>0 DEF Sorted
  <2>2. list[i] # list[j]
    BY <1>2, <2>1 DEF Earlier
  <2> QED BY <1>2, <1>3, <2>1, <2>2 DEF Earlier
<1>8. \A i \in 1 .. n : list[i].order = i - 1
  <2> DEFINE f == [i \in 1 .. n |-> list[i].order]
  <2>1. \A i \in 1 .. n : f[i] = list[i].order /\ f[i] \in 0 .. n - 1
    BY <1>1, <1>2, <1>6
  <2> HIDE DEF f
  <2>2. \A i, j \in 1 .. n : i < j => f[i] < f[j]
    BY <1>7, <2>1
  <2> QED BY <1>1, <2>1, <2>2, ClimbsByOne
<1>9. ASSUME NEW s \in rows PROVE s.order + 1 \in 1 .. n /\ list[s.order + 1] = s
  <2> DEFINE k == s.order + 1
  <2>1. k \in 1 .. n /\ k - 1 = s.order
    BY <1>1, <1>2
  <2> HIDE DEF k
  <2>2. list[k] \in rows
    BY <1>6, <2>1
  <2>3. list[k].order = s.order
    BY <1>8, <2>1
  <2>4. list[k] = s
    BY <1>3, <2>2, <2>3
  <2> QED BY <2>1, <2>4 DEF k
<1> QED BY <1>6, <1>8, <1>9 DEF list, n

\* A list of segments, each once.
IsList(list) ==
  /\ list \in Seq(SegmentRow)
  /\ \A i, j \in 1 .. Len(list) : list[i].id = list[j].id => i = j

\* The list has every row but the one being edited, as it was, in the order
\* the rows had.
Rearranges(list, rows, id) ==
  /\ \A s \in rows : s.id # id => \E k \in 1 .. Len(list) : list[k] = s
  /\ \A k \in 1 .. Len(list) : list[k].id # id => list[k] \in rows
  /\ \A k, l \in 1 .. Len(list) :
       k < l /\ list[k].id # id /\ list[l].id # id => list[k].order < list[l].order

Lists(list, id) == \E k \in 1 .. Len(list) : list[k].id = id

LEMMA OrderedIsList ==
  ASSUME NEW rows, IsItinerary(rows), NEW id
  PROVE  LET list == OrderSegments(rows)
         IN  /\ IsList(list) /\ Rearranges(list, rows, id)
             /\ Len(list) = Cardinality(rows)
             /\ \A s \in rows : \E k \in 1 .. Len(list) : list[k] = s
             /\ \A k \in 1 .. Len(list) : list[k] \in rows
<1> DEFINE n == Cardinality(rows)
           list == OrderSegments(rows)
<1>1. n \in Nat
  BY PlacesAreTaken
<1>2. list \in [1 .. n -> rows]
  BY ListOfItinerary
<1>3. \A i \in 1 .. n : list[i].order = i - 1
  BY ListOfItinerary
<1>4. \A s \in rows : s.order + 1 \in 1 .. n /\ list[s.order + 1] = s
  BY ListOfItinerary
<1>5. rows \subseteq SegmentRow /\ \A s, t \in rows : s.id = t.id => s = t
  BY DEF IsItinerary
<1> HIDE DEF n, list
<1>6. list \in Seq(SegmentRow) /\ Len(list) = n
  BY <1>1, <1>2, <1>5
<1>7. \A i \in 1 .. n : list[i] \in rows
  BY <1>2
<1>8. \A s \in rows : \E k \in 1 .. n : list[k] = s
  BY <1>4
<1>9. IsList(list)
  <2> SUFFICES ASSUME NEW i \in 1 .. n, NEW j \in 1 .. n, list[i].id = list[j].id
               PROVE  i = j
    BY <1>6 DEF IsList
  <2>1. list[i] = list[j]
    BY <1>5, <1>7
  <2>2. i - 1 = j - 1
    BY <1>3, <2>1
  <2> QED BY <1>1, <2>2
<1>10. \A k, l \in 1 .. n : k < l => list[k].order < list[l].order
  BY <1>1, <1>3
<1>11. Rearranges(list, rows, id)
  BY <1>6, <1>7, <1>8, <1>10 DEF Rearranges
<1> QED BY <1>6, <1>7, <1>8, <1>9, <1>11 DEF n, list

LEMMA RemoveAtProperties ==
  ASSUME NEW S, NEW s \in Seq(S), NEW q \in 1 .. Len(s)
  PROVE  /\ RemoveAt(s, q) \in Seq(S)
         /\ Len(RemoveAt(s, q)) = Len(s) - 1
         /\ \A k \in 1 .. Len(s) - 1 :
              RemoveAt(s, q)[k] = IF k < q THEN s[k] ELSE s[k + 1]
<1> DEFINE n == Len(s)
           a == SubSeq(s, 1, q - 1)
           b == SubSeq(s, q + 1, n)
<1>1. n \in Nat /\ \A i \in 1 .. n : s[i] \in S
  OBVIOUS
<1>2. q \in 1 .. n
  OBVIOUS
<1> HIDE DEF n
<1>3. a \in Seq(S) /\ Len(a) = q - 1 /\ \A i \in 1 .. q - 1 : a[i] = s[i]
  <2>1. \A i \in 1 .. q - 1 : s[i] \in S
    BY <1>1, <1>2
  <2>2. a \in Seq(S) /\ Len(a) = (IF 1 <= q - 1 THEN q - 1 - 1 + 1 ELSE 0)
        /\ \A i \in 1 .. q - 1 - 1 + 1 : a[i] = s[1 + i - 1]
    BY <1>1, <1>2, <2>1, SubSeqProperties
  <2> HIDE DEF a
  <2> QED BY <1>1, <1>2, <2>2
<1>4. b \in Seq(S) /\ Len(b) = n - q /\ \A i \in 1 .. n - q : b[i] = s[q + i]
  <2>1. \A i \in q + 1 .. n : s[i] \in S
    BY <1>1, <1>2
  <2>2. b \in Seq(S) /\ Len(b) = (IF q + 1 <= n THEN n - (q + 1) + 1 ELSE 0)
        /\ \A i \in 1 .. n - (q + 1) + 1 : b[i] = s[q + 1 + i - 1]
    BY <1>1, <1>2, <2>1, SubSeqProperties
  <2> HIDE DEF b
  <2> QED BY <1>1, <1>2, <2>2
<1>5. RemoveAt(s, q) = a \o b
  BY DEF RemoveAt, n
<1> HIDE DEF a, b
<1>6. a \o b \in Seq(S) /\ Len(a \o b) = q - 1 + (n - q)
  <2>1. a \in Seq(S) /\ b \in Seq(S)
    BY <1>3, <1>4
  <2>2. a \o b \in Seq(S) /\ Len(a \o b) = Len(a) + Len(b)
    BY <2>1, ConcatProperties
  <2> QED BY <1>3, <1>4, <2>2
<1>7. \A i \in 1 .. q - 1 + (n - q) : (a \o b)[i] = IF i <= q - 1 THEN a[i] ELSE b[i - (q - 1)]
  <2>1. a \in Seq(S) /\ b \in Seq(S)
    BY <1>3, <1>4
  <2>2. \A i \in 1 .. Len(a) + Len(b) : (a \o b)[i] = IF i <= Len(a) THEN a[i] ELSE b[i - Len(a)]
    BY <2>1, ConcatProperties
  <2> QED BY <1>3, <1>4, <2>2
<1> DEFINE c == a \o b
<1> HIDE DEF c
<1>8. ASSUME NEW k \in 1 .. n - 1 PROVE c[k] = IF k < q THEN s[k] ELSE s[k + 1]
  <2>1. k \in 1 .. q - 1 + (n - q)
    BY <1>1, <1>2
  <2>2. c[k] = IF k <= q - 1 THEN a[k] ELSE b[k - (q - 1)]
    BY <1>7, <2>1 DEF c
  <2>3. CASE k < q
    <3>1. k <= q - 1 /\ k \in 1 .. q - 1
      BY <1>1, <1>2, <2>3
    <3> QED BY <1>3, <2>2, <2>3, <3>1
  <2>4. CASE ~(k < q)
    <3>1. ~(k <= q - 1) /\ k - (q - 1) \in 1 .. n - q /\ q + (k - (q - 1)) = k + 1
      BY <1>1, <1>2, <2>4
    <3>2. b[k - (q - 1)] = s[q + (k - (q - 1))]
      BY <1>4, <3>1
    <3> QED BY <2>2, <2>4, <3>1, <3>2
  <2> QED BY <2>3, <2>4
<1>9. Len(c) = n - 1
  BY <1>1, <1>2, <1>6 DEF c
<1> QED BY <1>5, <1>6, <1>8, <1>9 DEF c, n

LEMMA InsertAtProperties ==
  ASSUME NEW S, NEW s \in Seq(S), NEW q \in 1 .. Len(s) + 1, NEW e \in S
  PROVE  /\ InsertAt(s, q, e) \in Seq(S)
         /\ Len(InsertAt(s, q, e)) = Len(s) + 1
         /\ \A k \in 1 .. Len(s) + 1 :
              InsertAt(s, q, e)[k] = IF k < q THEN s[k] ELSE IF k = q THEN e ELSE s[k - 1]
<1> DEFINE n == Len(s)
           a == SubSeq(s, 1, q - 1)
           b == SubSeq(s, q, n)
           m == a \o <<e>>
<1>1. n \in Nat /\ \A i \in 1 .. n : s[i] \in S
  OBVIOUS
<1>2. q \in 1 .. n + 1
  OBVIOUS
<1> HIDE DEF n
<1>3. a \in Seq(S) /\ Len(a) = q - 1 /\ \A i \in 1 .. q - 1 : a[i] = s[i]
  <2>1. \A i \in 1 .. q - 1 : s[i] \in S
    BY <1>1, <1>2
  <2>2. a \in Seq(S) /\ Len(a) = (IF 1 <= q - 1 THEN q - 1 - 1 + 1 ELSE 0)
        /\ \A i \in 1 .. q - 1 - 1 + 1 : a[i] = s[1 + i - 1]
    BY <1>1, <1>2, <2>1, SubSeqProperties
  <2> HIDE DEF a
  <2> QED BY <1>1, <1>2, <2>2
<1>4. b \in Seq(S) /\ Len(b) = n + 1 - q /\ \A i \in 1 .. n + 1 - q : b[i] = s[q + i - 1]
  <2>1. \A i \in q .. n : s[i] \in S
    BY <1>1, <1>2
  <2>2. b \in Seq(S) /\ Len(b) = (IF q <= n THEN n - q + 1 ELSE 0)
        /\ \A i \in 1 .. n - q + 1 : b[i] = s[q + i - 1]
    BY <1>1, <1>2, <2>1, SubSeqProperties
  <2> HIDE DEF b
  <2> QED BY <1>1, <1>2, <2>2
<1>5. InsertAt(s, q, e) = m \o b
  BY DEF InsertAt, n
<1>6. <<e>> \in Seq(S) /\ Len(<<e>>) = 1 /\ <<e>>[1] = e
  OBVIOUS
<1> DEFINE o == <<e>>
<1> HIDE DEF a, b, o
<1>7. a \o o \in Seq(S) /\ Len(a \o o) = q - 1 + 1
  <2>1. a \in Seq(S) /\ o \in Seq(S) /\ Len(a) = q - 1 /\ Len(o) = 1
    BY <1>3, <1>6 DEF o
  <2>2. a \o o \in Seq(S) /\ Len(a \o o) = Len(a) + Len(o)
    BY <2>1, ConcatProperties
  <2> QED BY <2>1, <2>2
<1>8. \A i \in 1 .. q - 1 + 1 : (a \o o)[i] = IF i <= q - 1 THEN a[i] ELSE o[i - (q - 1)]
  <2>1. a \in Seq(S) /\ o \in Seq(S) /\ Len(a) = q - 1 /\ Len(o) = 1
    BY <1>3, <1>6 DEF o
  <2>2. \A i \in 1 .. Len(a) + Len(o) : (a \o o)[i] = IF i <= Len(a) THEN a[i] ELSE o[i - Len(a)]
    BY <2>1, ConcatProperties
  <2> QED BY <2>1, <2>2
<1>9. m = a \o o
  BY DEF o
<1> HIDE DEF m
<1>10. m \in Seq(S) /\ Len(m) = q
  BY <1>2, <1>7, <1>9
<1>11. ASSUME NEW i \in 1 .. q - 1 PROVE m[i] = s[i]
  BY <1>2, <1>3, <1>8, <1>9
<1>12. m[q] = e
  <2>1. ~(q <= q - 1) /\ q - (q - 1) = 1 /\ q \in 1 .. q - 1 + 1
    BY <1>2
  <2> QED BY <1>6, <1>8, <1>9, <2>1 DEF o
<1> DEFINE c == m \o b
<1>13. c \in Seq(S) /\ Len(c) = q + (n + 1 - q)
  <2>1. m \in Seq(S) /\ b \in Seq(S)
    BY <1>4, <1>10
  <2>2. c \in Seq(S) /\ Len(c) = Len(m) + Len(b)
    BY <2>1, ConcatProperties
  <2> QED BY <1>4, <1>10, <2>2
<1>14. \A i \in 1 .. q + (n + 1 - q) : c[i] = IF i <= q THEN m[i] ELSE b[i - q]
  <2>1. m \in Seq(S) /\ b \in Seq(S)
    BY <1>4, <1>10
  <2>2. \A i \in 1 .. Len(m) + Len(b) : c[i] = IF i <= Len(m) THEN m[i] ELSE b[i - Len(m)]
    BY <2>1, ConcatProperties
  <2> QED BY <1>4, <1>10, <2>2
<1> HIDE DEF c
<1>15. ASSUME NEW k \in 1 .. n + 1
       PROVE  c[k] = IF k < q THEN s[k] ELSE IF k = q THEN e ELSE s[k - 1]
  <2>1. k \in 1 .. q + (n + 1 - q)
    BY <1>1, <1>2
  <2>2. c[k] = IF k <= q THEN m[k] ELSE b[k - q]
    BY <1>14, <2>1
  <2>3. CASE k < q
    <3>1. k <= q /\ k \in 1 .. q - 1
      BY <1>1, <1>2, <2>3
    <3> QED BY <1>11, <2>2, <2>3, <3>1
  <2>4. CASE k = q
    <3>1. k <= q /\ ~(k < q)
      BY <1>2, <2>4
    <3> QED BY <1>12, <2>2, <2>4, <3>1
  <2>5. CASE q < k
    <3>1. ~(k <= q) /\ ~(k < q) /\ k # q /\ k - q \in 1 .. n + 1 - q /\ q + (k - q) - 1 = k - 1
      BY <1>1, <1>2, <2>5
    <3>2. b[k - q] = s[q + (k - q) - 1]
      BY <1>4, <3>1
    <3> QED BY <2>2, <3>1, <3>2
  <2> QED BY <1>1, <1>2, <2>3, <2>4, <2>5
<1>16. Len(c) = n + 1
  BY <1>1, <1>2, <1>13
<1> QED BY <1>5, <1>13, <1>15, <1>16 DEF c, n


\* Taking a segment out of the list.
LEMMA TakingOut ==
  ASSUME NEW list, NEW rows, NEW id, IsList(list), Rearranges(list, rows, id), Lists(list, id)
  PROVE  LET rest == Without(list, id)
         IN  /\ IsList(rest) /\ Rearranges(rest, rows, id)
             /\ Len(rest) = Len(list) - 1
             /\ ~Lists(rest, id)
<1> DEFINE n == Len(list)
           q == CHOOSE i \in DOMAIN list : list[i].id = id
           rest == Without(list, id)
<1>1. /\ list \in Seq(SegmentRow) /\ n \in Nat /\ DOMAIN list = 1 .. n
      /\ \A i, j \in 1 .. n : list[i].id = list[j].id => i = j
  BY DEF IsList
<1>2. q \in 1 .. n /\ list[q].id = id
  BY <1>1 DEF Lists
<1>3. rest = RemoveAt(list, q)
  BY DEF Without
<1> HIDE DEF q
<1> DEFINE out == RemoveAt(list, q)
<1>4. /\ out \in Seq(SegmentRow) /\ Len(out) = n - 1
      /\ \A k \in 1 .. n - 1 : out[k] = IF k < q THEN list[k] ELSE list[k + 1]
  BY <1>1, <1>2, RemoveAtProperties
<1>4a. rest = out
  BY <1>3
<1> HIDE DEF out, rest
<1>5. \A k \in 1 .. n - 1 : rest[k] = IF k < q THEN list[k] ELSE list[k + 1]
  BY <1>4, <1>4a
<1>5a. rest \in Seq(SegmentRow) /\ Len(rest) = n - 1
  BY <1>4, <1>4a
<1> DEFINE from(k) == IF k < q THEN k ELSE k + 1
<1> HIDE DEF n
<1>6. \A k \in 1 .. n - 1 : from(k) \in 1 .. n /\ from(k) # q
  BY <1>1, <1>2
<1>7. \A k, l \in 1 .. n - 1 : k < l => from(k) < from(l)
  BY <1>1, <1>2
<1>8. \A i \in 1 .. n : i # q => \E k \in 1 .. n - 1 : from(k) = i
  <2> SUFFICES ASSUME NEW i \in 1 .. n, i # q PROVE \E k \in 1 .. n - 1 : from(k) = i
    OBVIOUS
  <2>1. CASE i < q
    <3>1. i \in 1 .. n - 1 /\ from(i) = i
      BY <1>1, <1>2, <2>1
    <3> QED BY <3>1
  <2>2. CASE q < i
    <3>1. i - 1 \in 1 .. n - 1 /\ from(i - 1) = i
      BY <1>1, <1>2, <2>2
    <3> QED BY <3>1
  <2> QED BY <1>1, <1>2, <2>1, <2>2
<1>9. \A k \in 1 .. n - 1 : rest[k] = list[from(k)]
  BY <1>5
<1> HIDE DEF from
<1>10. \A k \in 1 .. n - 1 : rest[k].id # id
  BY <1>1, <1>2, <1>6, <1>9
<1>11. IsList(rest)
  <2> SUFFICES ASSUME NEW i \in 1 .. n - 1, NEW j \in 1 .. n - 1, rest[i].id = rest[j].id
               PROVE  i = j
    BY <1>5a DEF IsList
  <2>1. from(i) = from(j)
    BY <1>1, <1>6, <1>9
  <2>2. ~(from(i) < from(j)) /\ ~(from(j) < from(i))
    BY <1>1, <1>6, <2>1
  <2> QED BY <1>1, <1>7, <2>2
<1>12. Rearranges(rest, rows, id)
  <2>1. ASSUME NEW s \in rows, s.id # id PROVE \E k \in 1 .. n - 1 : rest[k] = s
    <3>1. PICK i \in 1 .. n : list[i] = s
      BY <2>1 DEF Rearranges, n
    <3>2. i # q
      BY <1>2, <2>1, <3>1
    <3> QED BY <1>8, <1>9, <3>1, <3>2
  <2>2. ASSUME NEW k \in 1 .. n - 1 PROVE rest[k] \in rows
    <3>1. list[from(k)].id # id
      BY <1>9, <1>10
    <3> QED BY <1>6, <1>9, <3>1 DEF Rearranges, n
  <2>3. ASSUME NEW k \in 1 .. n - 1, NEW l \in 1 .. n - 1, k < l
        PROVE  rest[k].order < rest[l].order
    <3>1. list[from(k)].id # id /\ list[from(l)].id # id /\ from(k) < from(l)
      BY <1>7, <1>9, <1>10, <2>3
    <3>2. list[from(k)].order < list[from(l)].order
      BY <1>6, <3>1 DEF Rearranges, n
    <3> QED BY <1>9, <3>2
  <2> QED BY <1>5a, <2>1, <2>2, <2>3 DEF Rearranges
<1> QED BY <1>5a, <1>10, <1>11, <1>12 DEF rest, n, Lists

\* Putting one in.
LEMMA PuttingIn ==
  ASSUME NEW list, NEW rows, NEW id, IsList(list), Rearranges(list, rows, id), ~Lists(list, id),
         NEW s \in SegmentRow, s.id = id, NEW q \in 1 .. Len(list) + 1
  PROVE  LET new == InsertAt(list, q, s)
         IN  /\ IsList(new) /\ Rearranges(new, rows, id)
             /\ Lists(new, id)
             /\ \A k \in 1 .. Len(new) : new[k].id = id => new[k] = s
<1> DEFINE n == Len(list)
           new == InsertAt(list, q, s)
<1>1. /\ list \in Seq(SegmentRow) /\ n \in Nat /\ q \in 1 .. n + 1
      /\ \A i, j \in 1 .. n : list[i].id = list[j].id => i = j
  BY DEF IsList
<1>2. new \in Seq(SegmentRow) /\ Len(new) = n + 1
  BY <1>1, InsertAtProperties
<1>3. \A k \in 1 .. n + 1 : new[k] = IF k < q THEN list[k] ELSE IF k = q THEN s ELSE list[k - 1]
  BY <1>1, InsertAtProperties
<1> DEFINE from(k) == IF k < q THEN k ELSE k - 1
<1>4. \A k \in 1 .. n : list[k].id # id
  BY DEF Lists
<1> HIDE DEF n, new
<1>5. new[q] = s
  BY <1>1, <1>3
<1>6. \A k \in 1 .. n + 1 : k # q => from(k) \in 1 .. n
  BY <1>1
<1>7. \A k, l \in 1 .. n + 1 : k # q /\ l # q /\ k < l => from(k) < from(l)
  BY <1>1
<1>8. \A i \in 1 .. n : \E k \in 1 .. n + 1 : k # q /\ from(k) = i
  <2> SUFFICES ASSUME NEW i \in 1 .. n PROVE \E k \in 1 .. n + 1 : k # q /\ from(k) = i
    OBVIOUS
  <2>1. CASE i < q
    <3>1. i \in 1 .. n + 1 /\ i # q /\ from(i) = i
      BY <1>1, <2>1
    <3> QED BY <3>1
  <2>2. CASE q <= i
    <3>1. i + 1 \in 1 .. n + 1 /\ i + 1 # q /\ from(i + 1) = i
      BY <1>1, <2>2
    <3> QED BY <3>1
  <2> QED BY <1>1, <2>1, <2>2
<1>9. \A k \in 1 .. n + 1 : k # q => new[k] = list[from(k)]
  BY <1>1, <1>3
<1> HIDE DEF from
<1>10. \A k \in 1 .. n + 1 : new[k].id = id <=> k = q
  BY <1>4, <1>5, <1>6, <1>9
<1>11. IsList(new)
  <2> SUFFICES ASSUME NEW i \in 1 .. n + 1, NEW j \in 1 .. n + 1, new[i].id = new[j].id
               PROVE  i = j
    BY <1>2 DEF IsList
  <2>1. CASE i = q \/ j = q
    BY <1>5, <1>10, <2>1
  <2>2. CASE i # q /\ j # q
    <3>1. from(i) = from(j)
      BY <1>1, <1>6, <1>9, <2>2
    <3>2. ~(from(i) < from(j)) /\ ~(from(j) < from(i))
      BY <1>1, <1>6, <2>2, <3>1
    <3> QED BY <1>1, <1>7, <2>2, <3>2
  <2> QED BY <2>1, <2>2
<1>12. Rearranges(new, rows, id)
  <2>1. ASSUME NEW r \in rows, r.id # id PROVE \E k \in 1 .. n + 1 : new[k] = r
    <3>1. PICK i \in 1 .. n : list[i] = r
      BY <2>1 DEF Rearranges, n
    <3> QED BY <1>8, <1>9, <3>1
  <2>2. ASSUME NEW k \in 1 .. n + 1, new[k].id # id PROVE new[k] \in rows
    <3>1. k # q /\ from(k) \in 1 .. n /\ new[k] = list[from(k)]
      BY <1>6, <1>9, <1>10, <2>2
    <3> QED BY <2>2, <3>1 DEF Rearranges, n
  <2>3. ASSUME NEW k \in 1 .. n + 1, NEW l \in 1 .. n + 1, k < l,
               new[k].id # id, new[l].id # id
        PROVE  new[k].order < new[l].order
    <3>1. k # q /\ from(k) \in 1 .. n /\ new[k] = list[from(k)]
      BY <1>6, <1>9, <1>10, <2>3
    <3>2. l # q /\ from(l) \in 1 .. n /\ new[l] = list[from(l)]
      BY <1>6, <1>9, <1>10, <2>3
    <3>3. from(k) < from(l)
      BY <1>7, <2>3, <3>1, <3>2
    <3> QED BY <2>3, <3>1, <3>2, <3>3 DEF Rearranges, n
  <2> QED BY <1>2, <2>1, <2>2, <2>3 DEF Rearranges
<1> QED BY <1>1, <1>2, <1>5, <1>10, <1>11, <1>12 DEF new, Lists

\* Changing its dates where it is.
WithDates(list, id, r) ==
  LET redate(s) == IF s.id = id THEN [s EXCEPT !.start = r.start, !.end = r.end] ELSE s
  IN  [i \in DOMAIN list |-> redate(list[i])]

LEMMA Changing ==
  ASSUME NEW list, NEW rows, NEW id, IsList(list), Rearranges(list, rows, id), Lists(list, id),
         NEW r \in Ranges
  PROVE  LET new == WithDates(list, id, r)
         IN  /\ IsList(new) /\ Rearranges(new, rows, id) /\ Len(new) = Len(list)
             /\ Lists(new, id)
             /\ \A k \in 1 .. Len(new) :
                  new[k].id = id => new[k].start = r.start /\ new[k].end = r.end
<1> DEFINE n == Len(list)
           redate(s) == IF s.id = id THEN [s EXCEPT !.start = r.start, !.end = r.end] ELSE s
           new == [i \in DOMAIN list |-> redate(list[i])]
<1>1. /\ list \in Seq(SegmentRow) /\ n \in Nat /\ DOMAIN list = 1 .. n
      /\ \A i, j \in 1 .. n : list[i].id = list[j].id => i = j
      /\ \A i \in 1 .. n : list[i] \in SegmentRow
  BY DEF IsList
<1>2. r.start \in 1 .. LastDay /\ r.end \in 1 .. LastDay
  BY DEF Ranges
<1>3. ASSUME NEW s \in SegmentRow
      PROVE  /\ redate(s) \in SegmentRow /\ redate(s).id = s.id
             /\ s.id # id => redate(s) = s
             /\ s.id = id => redate(s).start = r.start /\ redate(s).end = r.end
  BY <1>2 DEF SegmentRow
<1> HIDE DEF redate, n
<1>4. \A i \in 1 .. n : new[i] = redate(list[i])
  BY <1>1
<1>5. new \in [1 .. n -> SegmentRow]
  BY <1>1, <1>3
<1> HIDE DEF new
<1>6. new \in Seq(SegmentRow) /\ Len(new) = n
  BY <1>1, <1>5
<1>7. \A i \in 1 .. n : new[i].id = list[i].id
  BY <1>1, <1>3, <1>4
<1>8. \A i \in 1 .. n : new[i].id # id => new[i] = list[i]
  BY <1>1, <1>3, <1>4
<1>9. \A i \in 1 .. n : new[i].id = id => new[i].start = r.start /\ new[i].end = r.end
  BY <1>1, <1>3, <1>4
<1>10. IsList(new)
  BY <1>1, <1>6, <1>7 DEF IsList
<1>11. Rearranges(new, rows, id)
  <2>1. ASSUME NEW s \in rows, s.id # id PROVE \E k \in 1 .. n : new[k] = s
    <3>1. PICK i \in 1 .. n : list[i] = s
      BY <2>1 DEF Rearranges, n
    <3> QED BY <1>7, <1>8, <2>1, <3>1
  <2>2. ASSUME NEW k \in 1 .. n, new[k].id # id PROVE new[k] \in rows
    BY <1>8, <2>2 DEF Rearranges, n
  <2>3. ASSUME NEW k \in 1 .. n, NEW l \in 1 .. n, k < l, new[k].id # id, new[l].id # id
        PROVE  new[k].order < new[l].order
    BY <1>8, <2>3 DEF Rearranges, n
  <2> QED BY <1>6, <2>1, <2>2, <2>3 DEF Rearranges
<1>12. Lists(new, id)
  BY <1>6, <1>7 DEF Lists, n
<1>13. new = WithDates(list, id, r)
  BY DEF new, redate, WithDates
<1> QED BY <1>6, <1>9, <1>10, <1>11, <1>12, <1>13 DEF n

\* The index becomes the sortOrder, and nothing else of a row is written.
LEMMA DenseRow ==
  ASSUME NEW s \in SegmentRow, NEW p \in Nat
  PROVE  LET d == [s EXCEPT !.order = p]
         IN  /\ d \in SegmentRow
             /\ d.id = s.id /\ d.start = s.start /\ d.end = s.end /\ d.order = p
             /\ [d EXCEPT !.order = 0] = [s EXCEPT !.order = 0]
  BY DEF SegmentRow

LEMMA DenseOrder ==
  ASSUME NEW list, IsList(list)
  PROVE  LET rows == AssignDenseOrder(list)
         IN  /\ IsItinerary(rows)
             /\ \A k \in 1 .. Len(list) : [list[k] EXCEPT !.order = k - 1] \in rows
             /\ \A s \in rows : \E k \in 1 .. Len(list) : s = [list[k] EXCEPT !.order = k - 1]
<1> DEFINE n == Len(list)
           rows == AssignDenseOrder(list)
           D(k) == [list[k] EXCEPT !.order = k - 1]
           g == [k \in 1 .. n |-> D(k)]
<1>1. /\ n \in Nat /\ DOMAIN list = 1 .. n
      /\ \A i, j \in 1 .. n : list[i].id = list[j].id => i = j
      /\ \A i \in 1 .. n : list[i] \in SegmentRow
  BY DEF IsList
<1>2. rows = {D(k) : k \in 1 .. n}
  BY <1>1 DEF AssignDenseOrder
<1> HIDE DEF n, rows
<1>3. ASSUME NEW k \in 1 .. n
      PROVE  D(k) \in SegmentRow /\ D(k).id = list[k].id /\ D(k).order = k - 1
  <2>1. k - 1 \in Nat /\ list[k] \in SegmentRow
    BY <1>1
  <2> QED BY <2>1, DenseRow
<1> HIDE DEF D
<1>4. (\A k \in 1 .. n : D(k) \in rows) /\ \A s \in rows : \E k \in 1 .. n : s = D(k)
  BY <1>2
<1>5. \A k, l \in 1 .. n : D(k).order = D(l).order => k = l
  <2> SUFFICES ASSUME NEW k \in 1 .. n, NEW l \in 1 .. n, D(k).order = D(l).order PROVE k = l
    OBVIOUS
  <2>1. k - 1 = l - 1
    BY <1>3
  <2> QED BY <1>1, <2>1
<1>6. g \in Bijection(1 .. n, rows)
  <2>1. \A k \in 1 .. n : g[k] = D(k)
    OBVIOUS
  <2>2. g \in [1 .. n -> rows]
    BY <1>4
  <2> HIDE DEF g
  <2>3. \A k, l \in 1 .. n : g[k] = g[l] => k = l
    BY <1>5, <2>1
  <2>4. \A s \in rows : \E k \in 1 .. n : g[k] = s
    BY <1>4, <2>1
  <2> QED BY <2>2, <2>3, <2>4 DEF Bijection, Injection, IsInjective, Surjection
<1> HIDE DEF g
<1>7. IsFiniteSet(1 .. n) /\ Cardinality(1 .. n) = n
  BY <1>1, FS_Interval
<1>8. IsFiniteSet(rows) /\ Cardinality(rows) = n
  BY <1>6, <1>7, FS_Bijection DEF ExistsBijection
<1>9. IsItinerary(rows)
  <2>1. rows \subseteq SegmentRow
    BY <1>3, <1>4
  <2>2. ASSUME NEW s \in rows, NEW t \in rows, s.id = t.id \/ s.order = t.order PROVE s = t
    <3>1. PICK k \in 1 .. n : s = D(k)
      BY <1>4
    <3>2. PICK l \in 1 .. n : t = D(l)
      BY <1>4
    <3>3. s.id = t.id => list[k].id = list[l].id
      BY <1>3, <3>1, <3>2
    <3>4. k = l
      BY <1>1, <1>5, <2>2, <3>1, <3>2, <3>3
    <3> QED BY <3>1, <3>2, <3>4
  <2>3. ASSUME NEW s \in rows PROVE s.order < n
    <3>1. PICK k \in 1 .. n : s = D(k)
      BY <1>4
    <3>2. s.order = k - 1
      BY <1>3, <3>1
    <3> QED BY <1>1, <3>2
  <2> QED BY <1>8, <2>1, <2>2, <2>3 DEF IsItinerary
<1> QED BY <1>4, <1>9 DEF rows, D, n

KeepsOthers(rows, new, id) ==
  LET kept == {s \in rows : s.id # id}
      after == {s \in new : s.id # id}
  IN  /\ {[s EXCEPT !.order = 0] : s \in kept} = {[s EXCEPT !.order = 0] : s \in after}
      /\ \A a, b \in kept, c, d \in after :
           a.id = c.id /\ b.id = d.id /\ a.order < b.order => c.order < d.order

\* A list with the others as they were is an itinerary that keeps them.
LEMMA ListKeepsOthers ==
  ASSUME NEW rows, IsItinerary(rows), NEW id, NEW list, IsList(list), Rearranges(list, rows, id)
  PROVE  KeepsOthers(rows, AssignDenseOrder(list), id)
<1> DEFINE n == Len(list)
           new == AssignDenseOrder(list)
           kept == {s \in rows : s.id # id}
           after == {s \in new : s.id # id}
           D(k) == [list[k] EXCEPT !.order = k - 1]
<1>1. /\ n \in Nat
      /\ \A i \in 1 .. n : list[i] \in SegmentRow
  BY DEF IsList
<1>2. (\A k \in 1 .. n : D(k) \in new) /\ \A s \in new : \E k \in 1 .. n : s = D(k)
  BY DenseOrder
<1>3. /\ \A s \in rows : s.id # id => \E k \in 1 .. n : list[k] = s
      /\ \A k \in 1 .. n : list[k].id # id => list[k] \in rows
      /\ \A k, l \in 1 .. n : k < l /\ list[k].id # id /\ list[l].id # id
           => list[k].order < list[l].order
  BY DEF Rearranges
<1>4. rows \subseteq SegmentRow /\ \A s, t \in rows : s.id = t.id => s = t
  BY DEF IsItinerary
<1> HIDE DEF n, new
<1>5. ASSUME NEW k \in 1 .. n
      PROVE  /\ D(k).id = list[k].id /\ D(k).order = k - 1
             /\ [D(k) EXCEPT !.order = 0] = [list[k] EXCEPT !.order = 0]
  <2>1. k - 1 \in Nat /\ list[k] \in SegmentRow
    BY <1>1
  <2> QED BY <2>1, DenseRow
<1> HIDE DEF D
<1>6. ASSUME NEW s \in after
      PROVE  \E k \in 1 .. n : /\ s = D(k) /\ list[k] \in kept /\ list[k].id = s.id
                               /\ s.order = k - 1
                               /\ [s EXCEPT !.order = 0] = [list[k] EXCEPT !.order = 0]
  <2>1. PICK k \in 1 .. n : s = D(k)
    BY <1>2
  <2>2. list[k].id = s.id /\ s.id # id
    BY <1>5, <2>1
  <2>3. list[k] \in kept
    BY <1>3, <2>2
  <2> QED BY <1>5, <2>1, <2>2, <2>3
<1>7. ASSUME NEW s \in kept
      PROVE  \E t \in after : [t EXCEPT !.order = 0] = [s EXCEPT !.order = 0]
  <2>1. PICK k \in 1 .. n : list[k] = s
    BY <1>3
  <2>2. D(k) \in after
    BY <1>2, <1>5, <2>1
  <2> QED BY <1>5, <2>1, <2>2
<1>8. {[s EXCEPT !.order = 0] : s \in kept} = {[s EXCEPT !.order = 0] : s \in after}
  <2> DEFINE Z(s) == [s EXCEPT !.order = 0]
  <2>1. \A s \in after : \E t \in kept : Z(s) = Z(t)
    BY <1>6
  <2>2. \A s \in kept : \E t \in after : Z(t) = Z(s)
    BY <1>7
  <2> HIDE DEF Z, kept, after
  <2>3. {Z(s) : s \in kept} = {Z(s) : s \in after}
    BY <2>1, <2>2
  <2> QED BY <2>3 DEF Z
<1>9. ASSUME NEW a \in kept, NEW b \in kept, NEW c \in after, NEW d \in after,
             a.id = c.id, b.id = d.id, a.order < b.order
      PROVE  c.order < d.order
  <2>1. PICK k \in 1 .. n : list[k] \in kept /\ list[k].id = c.id /\ c.order = k - 1
    BY <1>6
  <2>2. PICK l \in 1 .. n : list[l] \in kept /\ list[l].id = d.id /\ d.order = l - 1
    BY <1>6
  <2>3. list[k] = a /\ list[l] = b
    BY <1>4, <1>9, <2>1, <2>2
  <2>4. a.order \in Nat /\ b.order \in Nat
    <3>1. a \in SegmentRow /\ b \in SegmentRow
      BY <1>4
    <3> QED BY <3>1 DEF SegmentRow
  <2>5. k # l
    BY <1>9, <2>3, <2>4
  <2>6. ~(l < k)
    <3>1. SUFFICES ASSUME l < k PROVE FALSE
      OBVIOUS
    <3>2. list[l].order < list[k].order
      BY <1>3, <2>1, <2>2, <3>1
    <3> QED BY <1>9, <2>3, <2>4, <3>2
  <2>7. k < l
    BY <1>1, <2>5, <2>6
  <2> QED BY <1>1, <2>1, <2>2, <2>7
<1> QED BY <1>8, <1>9 DEF KeepsOthers, new

\* A change of nothing keeps them all.
LEMMA NothingKeepsOthers ==
  ASSUME NEW rows, IsItinerary(rows), NEW id
  PROVE  KeepsOthers(rows, rows, id)
  BY DEF KeepsOthers, IsItinerary

\* Whoever has read the trip holds its row, and what it read is what there is;
\* the rows are an itinerary inside the trip's dates.
TripsInv ==
  /\ trip = {} \/ \E r \in Ranges : trip = {r}
  /\ trip = {} => segments = {}
  /\ IsItinerary(segments)
  /\ SegmentsFit
  /\ edit \in [Editors -> [at : {"idle", "lock", "read", "save"}, read : SUBSET SegmentRow]]
  /\ \A e \in Editors :
       /\ edit[e].at \in {"read", "save"} => tripLock = e /\ trip # {}
       /\ edit[e].at = "save" => edit[e].read = segments

\* What a step may do to the segments there are.
KeepsStep == trip' # {} => \E id \in SegmentIds : KeepsOthers(segments, segments', id)

LEMMA TripsInitInv == TripsInit => TripsInv
<1> SUFFICES ASSUME TripsInit PROVE TripsInv
  OBVIOUS
<1>1. IsItinerary({})
  BY FS_EmptySet DEF IsItinerary
<1>2. edit \in [Editors -> [at : {"idle", "lock", "read", "save"}, read : SUBSET SegmentRow]]
  BY DEF TripsInit, Resting
<1>3. \A e \in Editors : edit[e].at = "idle"
  BY DEF TripsInit, Resting
<1> QED BY <1>1, <1>2, <1>3 DEF TripsInit, TripsInv, SegmentsFit

LEMMA UntouchedIsKept ==
  ASSUME TripsInv, segments' = segments PROVE KeepsStep
  BY NothingKeepsOthers, TripsAssumption DEF TripsInv, KeepsStep

\* A request that ends forgets what it read, and no other one had the trip.
LEMMA Ending ==
  ASSUME TripsInv, NEW e \in Editors, EndEdit(e)
  PROVE  /\ edit' \in [Editors -> [at : {"idle", "lock", "read", "save"}, read : SUBSET SegmentRow]]
         /\ \A d \in Editors :
              /\ edit'[d] = IF d = e THEN Resting ELSE edit[d]
              /\ edit'[d].at \in {"read", "save"} => d # e /\ tripLock' = d
         /\ edit[e].at \in {"read", "save"} =>
              \A d \in Editors : edit'[d].at \notin {"read", "save"}
<1>1. /\ edit \in [Editors -> [at : {"idle", "lock", "read", "save"}, read : SUBSET SegmentRow]]
      /\ \A d \in Editors : edit[d].at \in {"read", "save"} => tripLock = d
  BY DEF TripsInv
<1>2. edit' = [edit EXCEPT ![e] = Resting] /\ tripLock' = IF tripLock = e THEN Nobody ELSE tripLock
  BY DEF EndEdit
<1>3. Resting \in [at : {"idle", "lock", "read", "save"}, read : SUBSET SegmentRow] /\ Resting.at = "idle"
  BY DEF Resting
<1>4. edit' \in [Editors -> [at : {"idle", "lock", "read", "save"}, read : SUBSET SegmentRow]]
  BY <1>1, <1>2, <1>3
<1>5. \A d \in Editors : edit'[d] = IF d = e THEN Resting ELSE edit[d]
  BY <1>1, <1>2
<1>6. ASSUME NEW d \in Editors, edit'[d].at \in {"read", "save"} PROVE d # e /\ tripLock' = d
  BY <1>1, <1>2, <1>3, <1>5, <1>6
<1>7. ASSUME edit[e].at \in {"read", "save"}, NEW d \in Editors
      PROVE  edit'[d].at \notin {"read", "save"}
  BY <1>1, <1>3, <1>5, <1>7
<1> QED BY <1>4, <1>5, <1>6, <1>7

\* What saves a list with one segment edited keeps everything.
LEMMA Saving ==
  ASSUME TripsInv, NEW e \in Editors, Doing(e, "save"), EndEdit(e), trip' = trip,
         NEW id \in SegmentIds, NEW list, IsList(list), Rearranges(list, segments, id),
         segments' = AssignDenseOrder(list),
         \A k \in 1 .. Len(list) : list[k].id = id => \E t \in trip : Contained(list[k], t)
  PROVE  TripsInv' /\ KeepsStep
<1>1. IsItinerary(segments')
  BY DenseOrder
<1>2. KeepsStep
  BY ListKeepsOthers DEF KeepsStep, TripsInv
<1>3. trip # {}
  BY DEF TripsInv, Doing
<1>4. ASSUME NEW s \in segments' PROVE \E t \in trip : Contained(s, t)
  <2>1. PICK k \in 1 .. Len(list) : s = [list[k] EXCEPT !.order = k - 1]
    BY DenseOrder
  <2>2. list[k] \in SegmentRow
    BY DEF IsList
  <2>3. s.start = list[k].start /\ s.end = list[k].end
    BY <2>1, <2>2 DEF SegmentRow
  <2>4. \E t \in trip : Contained(list[k], t)
    <3>1. list[k].id # id => list[k] \in segments
      BY DEF Rearranges
    <3> QED BY <3>1 DEF TripsInv, SegmentsFit
  <2> QED BY <2>3, <2>4 DEF Contained
<1>5. edit' \in [Editors -> [at : {"idle", "lock", "read", "save"}, read : SUBSET SegmentRow]]
  BY Ending
<1>6. \A d \in Editors : edit'[d].at \notin {"read", "save"}
  BY Ending DEF Doing
<1>7. SegmentsFit'
  BY <1>4 DEF SegmentsFit
<1>8. TripsInv'
  BY <1>1, <1>3, <1>5, <1>6, <1>7 DEF TripsInv
<1> QED BY <1>2, <1>8

\* Writing every row of the list leaves no other one.
LEMMA SavedAll ==
  ASSUME NEW e, NEW id, NEW list, IsList(list), Rearranges(list, segments, id),
         Save(e, AssignDenseOrder(list)),
         (\A s \in segments : s.id # id) \/ Lists(list, id)
  PROVE  segments' = AssignDenseOrder(list) /\ EndEdit(e) /\ trip' = trip
<1> DEFINE rows == AssignDenseOrder(list)
<1>1. \A k \in 1 .. Len(list) : [list[k] EXCEPT !.order = k - 1] \in rows
  BY DenseOrder
<1>2. \A k \in 1 .. Len(list) : [list[k] EXCEPT !.order = k - 1].id = list[k].id
  BY DEF IsList, SegmentRow
<1> HIDE DEF rows
<1>3. ASSUME NEW s \in segments PROVE \E r \in rows : r.id = s.id
  <2>1. \E k \in 1 .. Len(list) : list[k].id = s.id
    BY DEF Rearranges, Lists
  <2> QED BY <1>1, <1>2, <2>1
<1>4. segments' = {s \in segments : \A r \in rows : r.id # s.id} \cup rows /\ EndEdit(e) /\ trip' = trip
  BY DEF Save, rows
<1>5. segments' = rows
  BY <1>3, <1>4
<1> QED BY <1>4, <1>5 DEF rows

\* What was read is still there, listed.
LEMMA ReadsAreFresh ==
  ASSUME TripsInv, NEW e \in Editors, Doing(e, "save"), NEW id
  PROVE  /\ edit[e].read = segments
         /\ IsList(Ordered(e)) /\ Rearranges(Ordered(e), segments, id)
         /\ Len(Ordered(e)) = Cardinality(edit[e].read)
         /\ \A s \in segments : \E k \in 1 .. Len(Ordered(e)) : Ordered(e)[k] = s
         /\ \A k \in 1 .. Len(Ordered(e)) : Ordered(e)[k] \in segments
<1>1. edit[e].read = segments /\ IsItinerary(segments)
  BY DEF TripsInv, Doing
<1>2. Ordered(e) = OrderSegments(segments)
  BY <1>1 DEF Ordered
<1> QED BY <1>1, <1>2, OrderedIsList

LEMMA CreateSegmentStep ==
  ASSUME TripsInv, NEW e \in Editors, NEW id \in SegmentIds, NEW r \in Ranges,
         NEW p \in 0 .. Cardinality(SegmentIds), CreateSegment(e, id, r, p)
  PROVE  TripsInv' /\ KeepsStep
<1> DEFINE list == Ordered(e)
           s == [id |-> id, start |-> r.start, end |-> r.end, order |-> p]
           new == InsertAt(list, p + 1, s)
<1>1. /\ Doing(e, "save") /\ \A t \in segments : t.id # id
      /\ \E t \in trip : Contained(r, t)
      /\ p <= Cardinality(edit[e].read)
      /\ Save(e, AssignDenseOrder(new))
  BY DEF CreateSegment
<1>2. /\ IsList(list) /\ Rearranges(list, segments, id)
      /\ Len(list) = Cardinality(edit[e].read)
      /\ \A k \in 1 .. Len(list) : list[k] \in segments
  BY <1>1, ReadsAreFresh
<1>3. p \in Nat
  BY FS_CardinalityType, TripsAssumption
<1>4. s \in SegmentRow /\ s.id = id
  BY <1>3 DEF SegmentRow, Ranges
<1>5. s.start = r.start /\ s.end = r.end
  OBVIOUS
<1> HIDE DEF s, list
<1>6. Len(list) \in Nat
  BY <1>2 DEF IsList
<1>7. p + 1 \in 1 .. Len(list) + 1
  BY <1>1, <1>2, <1>3, <1>6
<1>8. ~Lists(list, id)
  BY <1>1, <1>2 DEF Lists
<1>9. /\ IsList(new) /\ Rearranges(new, segments, id)
      /\ \A k \in 1 .. Len(new) : new[k].id = id => new[k] = s
  BY <1>2, <1>4, <1>7, <1>8, PuttingIn
<1> HIDE DEF new
<1>10. segments' = AssignDenseOrder(new) /\ EndEdit(e) /\ trip' = trip
  BY <1>1, <1>9, SavedAll
<1>11. \A k \in 1 .. Len(new) : new[k].id = id => \E t \in trip : Contained(new[k], t)
  <2>1. \E t \in trip : Contained(s, t)
    BY <1>1, <1>5 DEF Contained
  <2> QED BY <1>9, <2>1
<1> QED BY <1>1, <1>9, <1>10, <1>11, Saving

LEMMA ChangeSegmentStep ==
  ASSUME TripsInv, NEW e \in Editors, NEW id \in SegmentIds, NEW r \in Ranges,
         ChangeSegment(e, id, r)
  PROVE  TripsInv' /\ KeepsStep
<1> DEFINE list == Ordered(e)
           new == WithDates(list, id, r)
<1>1. /\ Doing(e, "save")
      /\ \E t \in trip : Contained(r, t)
      /\ \E s \in edit[e].read : s.id = id
      /\ Save(e, AssignDenseOrder(new))
  BY DEF ChangeSegment, WithDates
<1>2. /\ IsList(list) /\ Rearranges(list, segments, id)
      /\ edit[e].read = segments
      /\ \A s \in segments : \E k \in 1 .. Len(list) : list[k] = s
  BY <1>1, ReadsAreFresh
<1>3. Lists(list, id)
  BY <1>1, <1>2 DEF Lists
<1> HIDE DEF list
<1>4. /\ IsList(new) /\ Rearranges(new, segments, id)
      /\ Lists(new, id)
      /\ \A k \in 1 .. Len(new) : new[k].id = id => new[k].start = r.start /\ new[k].end = r.end
  BY <1>2, <1>3, Changing
<1> HIDE DEF new
<1>5. segments' = AssignDenseOrder(new) /\ EndEdit(e) /\ trip' = trip
  BY <1>1, <1>4, SavedAll
<1>6. \A k \in 1 .. Len(new) : new[k].id = id => \E t \in trip : Contained(new[k], t)
  BY <1>1, <1>4 DEF Contained
<1> QED BY <1>1, <1>4, <1>5, <1>6, Saving

LEMMA MoveSegmentStep ==
  ASSUME TripsInv, NEW e \in Editors, NEW id \in SegmentIds,
         NEW p \in 0 .. Cardinality(SegmentIds), MoveSegment(e, id, p)
  PROVE  TripsInv' /\ KeepsStep
<1> DEFINE list == Ordered(e)
           rest == Without(list, id)
<1>1. PICK s \in edit[e].read : s.id = id /\ Save(e, AssignDenseOrder(InsertAt(rest, p + 1, s)))
  BY DEF MoveSegment
<1> DEFINE new == InsertAt(rest, p + 1, s)
<1>2. Doing(e, "save") /\ p < Cardinality(edit[e].read)
  BY DEF MoveSegment
<1>3. /\ IsList(list) /\ Rearranges(list, segments, id)
      /\ edit[e].read = segments
      /\ Len(list) = Cardinality(edit[e].read)
      /\ \A t \in segments : \E k \in 1 .. Len(list) : list[k] = t
  BY <1>2, ReadsAreFresh
<1>4. s \in segments /\ s \in SegmentRow
  BY <1>3 DEF TripsInv, IsItinerary
<1>5. Lists(list, id)
  BY <1>1, <1>3, <1>4 DEF Lists
<1> HIDE DEF list
<1>6. /\ IsList(rest) /\ Rearranges(rest, segments, id)
      /\ Len(rest) = Len(list) - 1
      /\ ~Lists(rest, id)
  BY <1>3, <1>5, TakingOut
<1> HIDE DEF rest
<1>7. Len(list) \in Nat /\ p \in Nat
  BY <1>3, FS_CardinalityType, TripsAssumption DEF IsList
<1>8. p + 1 \in 1 .. Len(rest) + 1
  BY <1>2, <1>3, <1>6, <1>7
<1>9. /\ IsList(new) /\ Rearranges(new, segments, id)
      /\ Lists(new, id)
      /\ \A k \in 1 .. Len(new) : new[k].id = id => new[k] = s
  BY <1>1, <1>4, <1>6, <1>8, PuttingIn
<1>10. Save(e, AssignDenseOrder(new))
  BY <1>1
<1> HIDE DEF new
<1>11. segments' = AssignDenseOrder(new) /\ EndEdit(e) /\ trip' = trip
  BY <1>9, <1>10, SavedAll
<1>12. \A k \in 1 .. Len(new) : new[k].id = id => \E t \in trip : Contained(new[k], t)
  BY <1>4, <1>9 DEF TripsInv, SegmentsFit
<1> QED BY <1>2, <1>9, <1>11, <1>12, Saving

LEMMA DeleteSegmentStep ==
  ASSUME TripsInv, NEW e \in Editors, NEW id \in SegmentIds, DeleteSegment(e, id)
  PROVE  TripsInv' /\ KeepsStep
<1> DEFINE list == Ordered(e)
           rest == Without(list, id)
           rows == AssignDenseOrder(rest)
<1>1. /\ Doing(e, "save") /\ EndEdit(e) /\ trip' = trip
      /\ \E s \in edit[e].read : s.id = id
      /\ segments' = {s \in segments : s.id # id /\ \A r \in rows : r.id # s.id} \cup rows
  BY DEF DeleteSegment, AfterDelete
<1>2. /\ IsList(list) /\ Rearranges(list, segments, id)
      /\ edit[e].read = segments
      /\ \A s \in segments : \E k \in 1 .. Len(list) : list[k] = s
  BY <1>1, ReadsAreFresh
<1>3. Lists(list, id)
  BY <1>1, <1>2 DEF Lists
<1> HIDE DEF list
<1>4. /\ IsList(rest) /\ Rearranges(rest, segments, id)
      /\ ~Lists(rest, id)
  BY <1>2, <1>3, TakingOut
<1> HIDE DEF rest
<1>5. \A k \in 1 .. Len(rest) : [rest[k] EXCEPT !.order = k - 1] \in rows
  BY <1>4, DenseOrder
<1>6. \A k \in 1 .. Len(rest) : [rest[k] EXCEPT !.order = k - 1].id = rest[k].id
  BY <1>4 DEF IsList, SegmentRow
<1> HIDE DEF rows
<1>7. ASSUME NEW s \in segments, s.id # id PROVE \E r \in rows : r.id = s.id
  <2>1. \E k \in 1 .. Len(rest) : rest[k].id = s.id
    BY <1>4, <1>7 DEF Rearranges
  <2> QED BY <1>5, <1>6, <2>1
<1>8. segments' = rows
  BY <1>1, <1>7
<1> QED BY <1>1, <1>4, <1>8, Saving DEF rows, Lists

\* What neither ends a request nor touches the rows.
LEMMA StartingStep ==
  ASSUME TripsInv, NEW e \in Editors,
         BeginEdit(e) \/ (RequireOwnedTrip(e) /\ trip # {}) \/ FindSegments(e)
  PROVE  TripsInv' /\ KeepsStep
<1> DEFINE Edits == [at : {"idle", "lock", "read", "save"}, read : SUBSET SegmentRow]
<1>1. edit \in [Editors -> Edits] /\ edit[e] \in Edits /\ segments \subseteq SegmentRow
  BY DEF TripsInv, IsItinerary
<1>2. trip' = trip /\ segments' = segments
  BY DEF BeginEdit, RequireOwnedTrip, FindSegments
<1>3. KeepsStep
  BY <1>2, UntouchedIsKept
<1>4. /\ IsItinerary(segments') /\ SegmentsFit'
      /\ trip' = {} \/ \E r \in Ranges : trip' = {r}
      /\ trip' = {} => segments' = {}
  BY <1>2 DEF TripsInv, SegmentsFit
<1>5. CASE BeginEdit(e)
  <2>1. edit' = [edit EXCEPT ![e].at = "lock"] /\ tripLock' = tripLock
    BY <1>5 DEF BeginEdit
  <2>2. [edit[e] EXCEPT !.at = "lock"] \in Edits /\ [edit[e] EXCEPT !.at = "lock"].at = "lock"
    BY <1>1
  <2>3. \A d \in Editors : d # e => edit'[d] = edit[d]
    BY <1>1, <2>1
  <2>4. edit' \in [Editors -> Edits] /\ edit'[e].at = "lock"
    BY <1>1, <2>1, <2>2
  <2>5. \A d \in Editors :
          /\ edit'[d].at \in {"read", "save"} => tripLock' = d /\ trip' # {}
          /\ edit'[d].at = "save" => edit'[d].read = segments'
    BY <1>2, <2>1, <2>3, <2>4 DEF TripsInv
  <2> QED BY <1>3, <1>4, <2>4, <2>5 DEF TripsInv
<1>6. CASE RequireOwnedTrip(e) /\ trip # {}
  <2>1. tripLock = Nobody /\ tripLock' = e /\ edit' = [edit EXCEPT ![e].at = "read"]
    BY <1>6 DEF RequireOwnedTrip, TakeTrip
  <2>2. [edit[e] EXCEPT !.at = "read"] \in Edits /\ [edit[e] EXCEPT !.at = "read"].at = "read"
    BY <1>1
  <2>3. \A d \in Editors : d # e => edit'[d] = edit[d]
    BY <1>1, <2>1
  <2>4. edit' \in [Editors -> Edits] /\ edit'[e].at = "read"
    BY <1>1, <2>1, <2>2
  <2>5. \A d \in Editors : edit[d].at \notin {"read", "save"}
    BY <2>1, TripsAssumption DEF TripsInv
  <2>6. \A d \in Editors :
          /\ edit'[d].at \in {"read", "save"} => tripLock' = d /\ trip' # {}
          /\ edit'[d].at = "save" => edit'[d].read = segments'
    BY <1>2, <1>6, <2>1, <2>3, <2>4, <2>5
  <2> QED BY <1>3, <1>4, <2>4, <2>6 DEF TripsInv
<1>7. CASE FindSegments(e)
  <2> DEFINE found == [at |-> "save", read |-> segments]
  <2>1. edit' = [edit EXCEPT ![e] = found] /\ tripLock' = tripLock /\ edit[e].at = "read"
    BY <1>7 DEF FindSegments, Doing
  <2>2. found \in Edits /\ found.at = "save" /\ found.read = segments
    BY <1>1
  <2> HIDE DEF found
  <2>3. \A d \in Editors : d # e => edit'[d] = edit[d]
    BY <1>1, <2>1
  <2>4. edit' \in [Editors -> Edits] /\ edit'[e].at = "save" /\ edit'[e].read = segments
    BY <1>1, <2>1, <2>2
  <2>5. tripLock = e /\ trip # {}
    BY <2>1 DEF TripsInv
  <2>6. \A d \in Editors :
          /\ edit'[d].at \in {"read", "save"} => tripLock' = d /\ trip' # {}
          /\ edit'[d].at = "save" => edit'[d].read = segments'
    BY <1>2, <2>1, <2>3, <2>4, <2>5 DEF TripsInv
  <2> QED BY <1>3, <1>4, <2>4, <2>6 DEF TripsInv
<1> QED BY <1>5, <1>6, <1>7

\* What ends a request and leaves the rows alone.
LEMMA GivingUpStep ==
  ASSUME TripsInv, NEW e \in Editors, EndEdit(e), trip' = trip, segments' = segments
  PROVE  TripsInv' /\ KeepsStep
<1>1. KeepsStep
  BY UntouchedIsKept
<1>2. /\ IsItinerary(segments') /\ SegmentsFit'
      /\ trip' = {} \/ \E r \in Ranges : trip' = {r}
      /\ trip' = {} => segments' = {}
  BY DEF TripsInv, SegmentsFit
<1>3. edit' \in [Editors -> [at : {"idle", "lock", "read", "save"}, read : SUBSET SegmentRow]]
  BY Ending
<1>4. ASSUME NEW d \in Editors
      PROVE  /\ edit'[d].at \in {"read", "save"} => tripLock' = d /\ trip' # {}
             /\ edit'[d].at = "save" => edit'[d].read = segments'
  <2> SUFFICES ASSUME edit'[d].at \in {"read", "save"}
               PROVE  /\ tripLock' = d /\ trip' # {}
                      /\ edit'[d].at = "save" => edit'[d].read = segments'
    OBVIOUS
  <2>1. d # e /\ tripLock' = d /\ edit'[d] = edit[d]
    BY Ending
  <2> QED BY <2>1 DEF TripsInv
<1> QED BY <1>1, <1>2, <1>3, <1>4 DEF TripsInv

\* The trip itself.
LEMMA TripStep ==
  ASSUME TripsInv, NEW r \in Ranges,
         \/ CreateTrip(r)
         \/ \E e \in Editors : UpdateTrip(e, r) \/ DeleteTrip(e)
  PROVE  TripsInv' /\ KeepsStep
<1>1. CASE CreateTrip(r)
  <2>1. trip = {} /\ trip' = {r} /\ UNCHANGED <<segments, tripLock, edit>>
    BY <1>1 DEF CreateTrip
  <2>2. segments' = {} /\ IsItinerary(segments')
    BY <2>1 DEF TripsInv
  <2>3. SegmentsFit'
    BY <2>2 DEF SegmentsFit
  <2> QED BY <2>1, <2>2, <2>3, UntouchedIsKept DEF TripsInv
<1>2. ASSUME NEW e \in Editors, UpdateTrip(e, r) PROVE TripsInv' /\ KeepsStep
  <2>1. /\ edit[e].at = "save" /\ (\A s \in edit[e].read : Contained(s, r))
        /\ trip' = {r} /\ segments' = segments /\ EndEdit(e)
    BY <1>2 DEF UpdateTrip, Doing
  <2>2. IsItinerary(segments')
    BY <2>1 DEF TripsInv
  <2>3. SegmentsFit'
    BY <2>1 DEF TripsInv, SegmentsFit
  <2>4. edit' \in [Editors -> [at : {"idle", "lock", "read", "save"}, read : SUBSET SegmentRow]]
    BY <2>1, Ending
  <2>5. \A d \in Editors : edit'[d].at \notin {"read", "save"}
    BY <2>1, Ending
  <2> QED BY <2>1, <2>2, <2>3, <2>4, <2>5, UntouchedIsKept DEF TripsInv
<1>3. ASSUME NEW e \in Editors, DeleteTrip(e) PROVE TripsInv' /\ KeepsStep
  <2>1. edit[e].at = "read" /\ trip' = {} /\ segments' = {} /\ EndEdit(e)
    BY <1>3 DEF DeleteTrip, Doing
  <2>2. IsItinerary({})
    BY FS_EmptySet DEF IsItinerary
  <2>3. SegmentsFit'
    BY <2>1 DEF SegmentsFit
  <2>4. edit' \in [Editors -> [at : {"idle", "lock", "read", "save"}, read : SUBSET SegmentRow]]
    BY <2>1, Ending
  <2>5. \A d \in Editors : edit'[d].at \notin {"read", "save"}
    BY <2>1, Ending
  <2>6. KeepsStep
    BY <2>1 DEF KeepsStep
  <2> QED BY <2>1, <2>2, <2>3, <2>4, <2>5, <2>6 DEF TripsInv
<1> QED BY <1>1, <1>2, <1>3

LEMMA TripsStep == TripsInv /\ [TripsNext]_tripsVars => TripsInv' /\ (KeepsStep \/ UNCHANGED tripsVars)
<1> SUFFICES ASSUME TripsInv, [TripsNext]_tripsVars
             PROVE  TripsInv' /\ (KeepsStep \/ UNCHANGED tripsVars)
  OBVIOUS
<1>1. ASSUME NEW r \in Ranges, CreateTrip(r) PROVE TripsInv' /\ KeepsStep
  BY <1>1, TripStep
<1>2. ASSUME NEW e \in Editors, BeginEdit(e) PROVE TripsInv' /\ KeepsStep
  BY <1>2, StartingStep
<1>3. ASSUME NEW e \in Editors, RequireOwnedTrip(e) PROVE TripsInv' /\ KeepsStep
  <2>1. CASE trip # {}
    BY <1>3, <2>1, StartingStep
  <2>2. CASE trip = {}
    <3>1. EndEdit(e) /\ trip' = trip /\ segments' = segments
      BY <1>3, <2>2 DEF RequireOwnedTrip
    <3> QED BY <3>1, GivingUpStep
  <2> QED BY <2>1, <2>2
<1>4. ASSUME NEW e \in Editors, FindSegments(e) PROVE TripsInv' /\ KeepsStep
  BY <1>4, StartingStep
<1>5. ASSUME NEW e \in Editors, DeleteTrip(e) PROVE TripsInv' /\ KeepsStep
  <2>1. PICK r \in Ranges : trip = {r}
    BY <1>5 DEF DeleteTrip, Doing, TripsInv
  <2> QED BY <1>5, TripStep
<1>6. ASSUME NEW e \in Editors, RollbackEdit(e) PROVE TripsInv' /\ KeepsStep
  <2>1. EndEdit(e) /\ trip' = trip /\ segments' = segments
    BY <1>6 DEF RollbackEdit
  <2> QED BY <2>1, GivingUpStep
<1>7. ASSUME NEW e \in Editors, NEW r \in Ranges, UpdateTrip(e, r) PROVE TripsInv' /\ KeepsStep
  BY <1>7, TripStep
<1>8. ASSUME NEW e \in Editors, NEW id \in SegmentIds,
             \/ \E r \in Ranges : ChangeSegment(e, id, r)
             \/ \E r \in Ranges, p \in 0 .. Cardinality(SegmentIds) : CreateSegment(e, id, r, p)
             \/ \E p \in 0 .. Cardinality(SegmentIds) : MoveSegment(e, id, p)
             \/ DeleteSegment(e, id)
      PROVE  TripsInv' /\ KeepsStep
  BY <1>8, ChangeSegmentStep, CreateSegmentStep, MoveSegmentStep, DeleteSegmentStep
<1>9. ASSUME UNCHANGED tripsVars PROVE TripsInv'
  BY <1>9 DEF tripsVars, TripsInv, SegmentsFit
<1> QED BY <1>1, <1>2, <1>3, <1>4, <1>5, <1>6, <1>7, <1>8, <1>9 DEF TripsNext

LEMMA TripsInvSound == TripsInv => OrderIsDense /\ SegmentsFit
<1> SUFFICES ASSUME TripsInv PROVE OrderIsDense
  BY DEF TripsInv
<1>1. /\ TripView \in [1 .. Cardinality(segments) -> segments]
      /\ \A i \in 1 .. Cardinality(segments) : TripView[i].order = i - 1
  BY ListOfItinerary DEF TripsInv, TripView
<1>2. DOMAIN TripView = 1 .. Cardinality(segments)
  BY <1>1
<1> QED BY <1>1, <1>2 DEF OrderIsDense

\* Edits of one trip, from however many devices, leave a dense list inside the
\* trip's dates, and each touches one segment alone: whoever writes holds the
\* trip's row since before it read, so what it writes back is what there is
\* with one segment created, changed, moved or taken out.
THEOREM TripEditsKeepTheList == TripsSpec => TripEditsAreSound
<1> DEFINE Keeps == trip' # {} =>
       \E id \in SegmentIds :
         LET kept == {s \in segments : s.id # id}
             after == {s \in segments' : s.id # id}
         IN  /\ {[s EXCEPT !.order = 0] : s \in kept} = {[s EXCEPT !.order = 0] : s \in after}
             /\ \A a, b \in kept, c, d \in after :
                  a.id = c.id /\ b.id = d.id /\ a.order < b.order => c.order < d.order
<1>1. TripsInv /\ [TripsNext]_tripsVars => [Keeps]_tripsVars
  <2>1. KeepsStep => Keeps
    BY DEF KeepsStep, KeepsOthers
  <2> QED BY <2>1, TripsStep
<1>2. TripsInv /\ [TripsNext]_tripsVars => TripsInv'
  BY TripsStep
<1>3. EditsKeepOthers <=> [][Keeps]_tripsVars
  BY DEF EditsKeepOthers
<1> QED
  BY <1>1, <1>2, <1>3, TripsInitInv, TripsInvSound, PTL DEF TripsSpec, TripEditsAreSound
=============================================================================
