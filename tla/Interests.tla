----------------------------- MODULE Interests -----------------------------
(***************************************************************************)
(* The interests one user selected and user_profiles.interest_ids, the     *)
(* array of the active ones that matching reads.  Triggers keep the array: *)
(* after each change of the selection, and after each editorial change of  *)
(* an interest.  A trigger's statement sees what was committed when it     *)
(* began, also when it then waits for the profile row.                     *)
(***************************************************************************)
EXTENDS Integers, FiniteSets

CONSTANTS
  InterestIds,
  Devices,    \* replacements of the owner served at a time
  NoOne

VARIABLES
  selected,   \* user_interests of the user
  active,     \* interests with is_active
  interest_ids,
  asked,      \* history: the selection of the last replacement committed
  exact,      \* history: whoever wrote last, since a write that no other kind
              \* of writer overlapped, was not overlapped either
  profileLock,
  change      \* the open transaction of each device, of the editor and of repair

interestsVars == <<selected, active, interest_ids, asked, exact, profileLock, change>>

Editor == "editor"
Operator == "operator"
Writers == Devices \cup {Editor, Operator}

ASSUME InterestsAssumption == NoOne \notin Writers /\ Devices \cap {Editor, Operator} = {}

\* ids: the selection asked for, or the interest toggled; saw: what a statement
\* read; alone: history: no writer of another kind had a transaction open.
NoChange == [at |-> "idle", ids |-> {}, saw |-> {}, alone |-> TRUE]

Open(w) == change[w].at # "idle"
To(w, at) == change' = [change EXCEPT ![w].at = at]
Close(w) ==
  /\ change' = [change EXCEPT ![w] = NoChange]
  /\ profileLock' = IF profileLock = w THEN NoOne ELSE profileLock

Rivals(w) == {v \in Writers \ {w} : Open(v) /\ ~{v, w} \subseteq Devices}

Begin(w, at, ids) ==
  /\ ~Open(w)
  /\ change' = [v \in Writers |->
       IF v = w THEN [at |-> at, ids |-> ids, saw |-> {}, alone |-> Rivals(w) = {}]
       ELSE [change[v] EXCEPT !.alone = @ /\ v \notin Rivals(w)]]
  /\ UNCHANGED <<selected, active, interest_ids, asked, exact, profileLock>>

\* array_agg over user_interests JOIN interests ... is_active.
Projected(ids, on) == ids \cap on

\* The interests of the profile view, joined anew at every read.
ProfileInterests == {i \in selected : i \in active}

-----------------------------------------------------------------------------
(* PUT interests.                                                          *)

ReplaceInterests(d, ids) == Begin(d, "lock", ids)

\* Mutant: SELECT ... without FOR UPDATE.
LockProfile_Read(d) == UNCHANGED profileLock

LockProfile(d) == profileLock = NoOne /\ profileLock' = d

LockOwner(d) ==
  /\ change[d].at = "lock"
  /\ LockProfile(d)
  /\ To(d, "validate")
  /\ UNCHANGED <<selected, active, interest_ids, asked, exact>>

ValidateInterests(d) ==
  /\ change[d].at = "validate"
  /\ IF change[d].ids \subseteq active
     THEN To(d, "delete") /\ UNCHANGED profileLock ELSE Close(d)
  /\ UNCHANGED <<selected, active, interest_ids, asked, exact>>

\* DELETE removes the rows its statement sees.
DeleteSelected(d) ==
  /\ change[d].at = "delete"
  /\ change' = [change EXCEPT ![d].at = "insert", ![d].saw = selected]
  /\ UNCHANGED <<selected, active, interest_ids, asked, exact, profileLock>>

\* INSERT with its row trigger, and the COMMIT.
InsertSelected(d) ==
  /\ change[d].at = "insert"
  /\ selected' = (selected \ change[d].saw) \cup change[d].ids
  /\ interest_ids' = Projected(selected', active)
  /\ asked' = change[d].ids
  /\ exact' = change[d].alone
  /\ Close(d)
  /\ UNCHANGED active

-----------------------------------------------------------------------------
(* An editor outside this repository switches an interest on or off, and   *)
(* tw_sync_interest_activity follows; an operator repairs the arrays.      *)

SetActive(i) == Begin(Editor, "read", {i})
Repair == Begin(Operator, "read", {})

ActiveFor(w) ==
  IF w = Editor THEN (active \ change[w].ids) \cup (change[w].ids \ active) ELSE active

\* The statement reads; the editor's writes only a profile that has selected
\* the interest, the repair only one whose array differs.
ReadSelections(w) ==
  /\ change[w].at = "read"
  /\ LET array == Projected(selected, ActiveFor(w))
         writes == IF w = Editor THEN change[w].ids \subseteq selected ELSE array # interest_ids
     IN  change' = [change EXCEPT ![w].at = IF writes THEN "write" ELSE "commit", ![w].saw = array]
  /\ UNCHANGED <<selected, active, interest_ids, asked, exact, profileLock>>

\* It writes what it read, once it has the profile row, and commits.
WriteProjection(w) ==
  /\ change[w].at = "commit" \/ (change[w].at = "write" /\ profileLock = NoOne)
  /\ interest_ids' = IF change[w].at = "write" THEN change[w].saw ELSE interest_ids
  /\ active' = ActiveFor(w)
  /\ exact' = (change[w].alone /\ (exact \/ w = Operator))
  /\ Close(w)
  /\ UNCHANGED <<selected, asked>>

RollbackChange(w) ==
  /\ Open(w)
  /\ Close(w)
  /\ UNCHANGED <<selected, active, interest_ids, asked, exact>>

InterestsInit ==
  /\ selected = {} /\ interest_ids = {} /\ asked = {} /\ exact = TRUE
  /\ active = InterestIds
  /\ profileLock = NoOne
  /\ change = [w \in Writers |-> NoChange]

InterestsNext ==
  \/ \E d \in Devices :
       \/ \E ids \in SUBSET InterestIds : ReplaceInterests(d, ids)
       \/ LockOwner(d) \/ ValidateInterests(d) \/ DeleteSelected(d) \/ InsertSelected(d)
  \/ \E i \in InterestIds : SetActive(i)
  \/ Repair
  \/ \E w \in {Editor, Operator} : ReadSelections(w) \/ WriteProjection(w)
  \/ \E w \in Writers : RollbackChange(w)

InterestsSpec == InterestsInit /\ [][InterestsNext]_interestsVars

-----------------------------------------------------------------------------
(* Properties.                                                             *)

Stages ==
  {"idle", "lock", "validate", "delete", "insert", "read", "write", "commit"}

InterestsTypeOK ==
  /\ selected \subseteq InterestIds /\ active \subseteq InterestIds
  /\ interest_ids \subseteq InterestIds /\ asked \subseteq InterestIds
  /\ exact \in BOOLEAN
  /\ profileLock \in Writers \cup {NoOne}
  /\ change \in [Writers -> [at : Stages, ids : SUBSET InterestIds,
                             saw : SUBSET InterestIds, alone : BOOLEAN]]

\* "Concurrent replacements for one owner cannot interleave their DELETE/INSERT
\* sets and produce a union": the selection is one client's, the last.
SelectionIsNoUnion == selected = asked

\* Matching reads what the profile shows unless an editorial change overlapped
\* a replacement; the next write or repair that runs alone heals it.
ProjectionHeals == exact => interest_ids = ProfileInterests

\* The selection and the array that matching reads tell one story.
InterestsAgree == SelectionIsNoUnion /\ ProjectionHeals
=============================================================================
