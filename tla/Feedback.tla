----------------------------- MODULE Feedback -----------------------------
(***************************************************************************)
(* Traveller feedback of one reviewer after an event: batches of answers   *)
(* about other members, sent again after a lost response, or from two      *)
(* devices with different answers.  Rows are never changed.  The group     *)
(* moves before the event starts, as the join requests have it.            *)
(***************************************************************************)
EXTENDS FiniteSets

CONSTANTS
  Submissions, \* requests being served at a time
  Reviewer,
  Members      \* travellers who may be in the group; a host never leaves it

ASSUME FeedbackAssumption == Reviewer \in Members

VARIABLES
  group,      \* the host and the active participants
  period,     \* where the clock is: before the start, before ends_at, after
  cancelled,  \* the event's status is CANCELLED
  feedback,   \* committed rows: [target, again]
  accepted,   \* history: the batches that were stored
  submission  \* what each request is doing

feedbackVars == <<group, period, cancelled, feedback, accepted, submission>>

Targets == Members \ {Reviewer}

\* A batch has an answer for each target selected; none twice, never oneself.
Batches == UNION {[S -> BOOLEAN] : S \in (SUBSET Targets) \ {{}}}
EmptyBatch == [t \in {} |-> TRUE]

Rows(batch) == {[target |-> t, again |-> batch[t]] : t \in DOMAIN batch}

\* existing: the rows about the targets, as read under the lock.
Awaiting(batch, answer) == [at |-> "idle", batch |-> batch, existing |-> {}, answer |-> answer]

Ready(s) == submission[s].at = "idle"
Moves(s, at) == submission' = [submission EXCEPT ![s].at = at]
Answers(s, answer) == submission' = [submission EXCEPT ![s] = Awaiting(@.batch, answer)]

-----------------------------------------------------------------------------
SubmitFeedback(s, batch) ==
  /\ Ready(s)
  /\ submission' = [submission EXCEPT ![s] = [Awaiting(batch, "none") EXCEPT !.at = "lock"]]
  /\ UNCHANGED <<group, period, cancelled, feedback, accepted>>

\* Mutant: no advisory lock.
KeyFree_Always(s) == TRUE

\* traveller-feedback:reviewer:event, held until the transaction ends.
KeyFree(s) == \A o \in Submissions \ {s} : submission[o].at \in {"idle", "lock"}

\* assertEventEligible.
EventEligible == ~cancelled /\ period = "over"

\* GET candidates: whom a member may select; nothing before feedback is open.
listCandidates == IF EventEligible /\ Reviewer \in group THEN group \ {Reviewer} ELSE {}

\* The event is read, then judged.
LockAndLoadEvent(s) ==
  /\ submission[s].at = "lock"
  /\ KeyFree(s)
  /\ IF EventEligible THEN Moves(s, "members") ELSE Answers(s, "event")
  /\ UNCHANGED <<group, period, cancelled, feedback, accepted>>

\* assertMember, assertAllMembers.
AssertMembers(s) ==
  /\ submission[s].at = "members"
  /\ IF {Reviewer} \cup DOMAIN submission[s].batch \subseteq group
     THEN Moves(s, "existing") ELSE Answers(s, "member")
  /\ UNCHANGED <<group, period, cancelled, feedback, accepted>>

LoadExisting(s) ==
  /\ submission[s].at = "existing"
  /\ submission' = [submission EXCEPT ![s].at = "insert",
       ![s].existing = {r \in feedback : r.target \in DOMAIN submission[s].batch}]
  /\ UNCHANGED <<group, period, cancelled, feedback, accepted>>

Missing(s) ==
  {r \in Rows(submission[s].batch) : \A e \in submission[s].existing : e.target # r.target}

\* The stored rows agree, and nothing came between the reads and the insert.
Agrees(s) ==
  /\ submission[s].existing \subseteq Rows(submission[s].batch)
  /\ \A r \in Missing(s), f \in feedback : f.target # r.target

\* INSERT ... ON CONFLICT DO NOTHING, and the COMMIT unless it is refused.
InsertFeedback(s) ==
  /\ submission[s].at = "insert"
  /\ IF Agrees(s)
     THEN /\ feedback' = feedback \cup Missing(s)
          /\ accepted' = accepted \cup {Rows(submission[s].batch)}
          /\ Answers(s, "stored")
     ELSE Answers(s, "conflict") /\ UNCHANGED <<feedback, accepted>>
  /\ UNCHANGED <<group, period, cancelled>>

\* It fails, or its response is lost; the client sends it again.
LoseSubmission(s) ==
  /\ ~Ready(s) \/ submission[s].answer # "none"
  /\ submission' = [submission EXCEPT ![s] = Awaiting(EmptyBatch, "none")]
  /\ UNCHANGED <<group, period, cancelled, feedback, accepted>>

-----------------------------------------------------------------------------
(* The event, as its own services move it.                                 *)

\* OpenForMembership of the join requests.
Regroup(p) ==
  /\ period = "upcoming" /\ ~cancelled
  /\ group' = IF p \in group THEN group \ {p} ELSE group \cup {p}
  /\ UNCHANGED <<period, cancelled, feedback, accepted, submission>>

Advances ==
  /\ period' = CASE period = "upcoming" -> "running" [] period = "running" -> "over"
  /\ UNCHANGED <<group, cancelled, feedback, accepted, submission>>

CancelledByHost ==
  /\ ~cancelled /\ cancelled' = TRUE
  /\ UNCHANGED <<group, period, feedback, accepted, submission>>

FeedbackInit ==
  /\ group = Members /\ period = "upcoming" /\ cancelled = FALSE
  /\ feedback = {} /\ accepted = {}
  /\ submission = [s \in Submissions |-> Awaiting(EmptyBatch, "none")]

FeedbackNext ==
  \/ \E s \in Submissions :
       \/ \E batch \in Batches : SubmitFeedback(s, batch)
       \/ LockAndLoadEvent(s) \/ AssertMembers(s) \/ LoadExisting(s)
       \/ InsertFeedback(s) \/ LoseSubmission(s)
  \/ \E p \in Members : Regroup(p)
  \/ period # "over" /\ Advances
  \/ CancelledByHost

FeedbackSpec == FeedbackInit /\ [][FeedbackNext]_feedbackVars

-----------------------------------------------------------------------------
(* Properties.                                                             *)

FeedbackTypeOK ==
  /\ group \subseteq Members
  /\ period \in {"upcoming", "running", "over"}
  /\ cancelled \in BOOLEAN
  /\ feedback \subseteq [target : Targets, again : BOOLEAN]
  /\ submission \in [Submissions ->
       [at : {"idle", "lock", "members", "existing", "insert"},
        batch : Batches \cup {EmptyBatch},
        existing : SUBSET [target : Targets, again : BOOLEAN],
        answer : {"none", "event", "member", "conflict", "stored"}]]

\* "Safe retry": a batch is stored whole or not at all; the same answers sent
\* again are a success, and a conflict is only ever about a different answer
\* that is stored, never about the client's own retry.
RetriesAreSafe ==
  /\ feedback = UNION accepted
  /\ \A s \in Submissions :
       LET rows == Rows(submission[s].batch)
       IN  /\ submission[s].answer = "stored" => rows \subseteq feedback
           /\ submission[s].answer = "conflict" =>
                \E r \in rows, f \in feedback : f.target = r.target /\ f.again # r.again

\* Membership is checked by reads of their own that lock nothing, and still
\* nobody leaves a group between the check and the insert: everyone in the
\* feedback belongs to the group for good.
FeedbackIsAmongMembers ==
  feedback # {} => {Reviewer} \cup {r.target : r \in feedback} \subseteq group

\* "The list must not be offered any earlier than submission itself would be
\* accepted", and a selection from it is never refused: whoever is listed can
\* be answered about at any later time, and nobody else.
ListedCanBeAnswered ==
  \A s \in Submissions :
    LET targets == DOMAIN submission[s].batch
    IN  /\ submission[s].answer = "member" => ~targets \subseteq listCandidates
        /\ submission[s].answer = "stored" => cancelled \/ targets \subseteq listCandidates

\* Feedback is one member's answer about members, stored once.
FeedbackIsSound == RetriesAreSafe /\ FeedbackIsAmongMembers /\ ListedCanBeAnswered
=============================================================================
