------------------------------ MODULE Discovery ------------------------------
(***************************************************************************)
(* What makes one user findable: the owner's settings with Ghost Mode, the *)
(* append-only consent decisions, and the predicates that read both.       *)
(*                                                                         *)
(* Settings updates and consent decisions run concurrently, one statement  *)
(* a step: advisory locks per consent type first, then the user_settings   *)
(* row.  What a transaction wrote is seen by others once it committed.     *)
(* The feed bump after a commit belongs to MatchingFeed; consents of the   *)
(* optional types decide nothing and are left out.                         *)
(***************************************************************************)
EXTENDS Integers, FiniteSets

CONSTANTS
  Callers,     \* requests being served at a time
  NoCaller,
  MaxTime,     \* bound: the clock
  MaxVersion,  \* bound: policy versions rolled out
  MaxDecisions \* bound: consent decisions per type

ASSUME DiscoveryAssumption ==
  /\ NoCaller \notin Callers
  /\ MaxTime \in Nat /\ MaxVersion \in Nat /\ MaxDecisions \in Nat

VARIABLES
  settings,    \* the user_settings row
  consent,     \* the row of user_consents that counts, for each required type
  decided,     \* history: the last decision committed, for each required type
  policy,      \* currentVersion of each required type
  account,     \* what auth and moderation know of the user
  typeLock,    \* holder of the advisory lock of each required type
  rowLock,     \* holder of the user_settings row
  request,     \* what each caller is doing
  now          \* the clock of PostgreSQL and of the processes

discoveryVars ==
  <<settings, consent, decided, policy, account, typeLock, rowLock, request, now>>

ConsentTypes == {"TERMS_OF_SERVICE", "PRIVACY_POLICY"}

Never == 0     \* ghost_mode_until IS NULL
Ends == {Never} \cup 2 .. MaxTime + 1

\* minAge and maxAge stand for the preferences with a rule across fields.
Fields == {"discovery", "ghost", "until", "minAge", "maxAge"}

\* A patch has the fields the client sent.
Patches ==
  [discovery : BOOLEAN] \cup [ghost : BOOLEAN] \cup [until : Ends]
  \cup [ghost : BOOLEAN, until : Ends] \cup [minAge : {2}] \cup [maxAge : {1}]

\* at: the next statement; wants: advisory locks still to take; row: the
\* settings as read under the lock; type, granted, version, stamp: the
\* decision to record, and its created_at; started: when the request began.
NoRequest ==
  [kind |-> "none", at |-> "idle", patch |-> [ghost |-> FALSE], wants |-> {},
   row |-> [discovery |-> TRUE, ghost |-> FALSE, until |-> Never, minAge |-> 1, maxAge |-> 2],
   type |-> "none", granted |-> FALSE, version |-> 0, stamp |-> 0, started |-> 0]

Free(h) == request[h].at = "idle"
Serves(h, kind, at) == request[h].kind = kind /\ request[h].at = at
Becomes(h, row) == request' = [request EXCEPT ![h] = row]
Proceed(h, at) == Becomes(h, [request[h] EXCEPT !.at = at])

\* COMMIT and ROLLBACK end the request and give its locks back.
Finish(h) ==
  /\ Becomes(h, NoRequest)
  /\ typeLock' = [t \in ConsentTypes |-> IF typeLock[t] = h THEN NoCaller ELSE typeLock[t]]
  /\ rowLock' = IF rowLock = h THEN NoCaller ELSE rowLock

-----------------------------------------------------------------------------
(* Advisory locks: Terms before Privacy, all of them before the row.       *)

NextLock(wants) == IF "TERMS_OF_SERVICE" \in wants THEN "TERMS_OF_SERVICE" ELSE "PRIVACY_POLICY"

AfterLocks(kind) == IF kind = "update" THEN "check" ELSE "insert"

LockType(h) ==
  /\ request[h].at = "lock"
  /\ LET r == request[h]
         t == NextLock(r.wants)
     IN  /\ typeLock[t] = NoCaller
         /\ typeLock' = [typeLock EXCEPT ![t] = h]
         /\ Becomes(h, [r EXCEPT !.wants = r.wants \ {t},
                                 !.at = IF r.wants = {t} THEN AfterLocks(r.kind) ELSE "lock"])
  /\ UNCHANGED <<settings, consent, decided, policy, account, rowLock, now>>

-----------------------------------------------------------------------------
(* PATCH settings.                                                         *)

\* Discovery is switched on only under both consent locks.
LocksFor(patch) ==
  IF "discovery" \in DOMAIN patch /\ patch.discovery THEN ConsentTypes ELSE {}

updateOwn(h, patch) ==
  /\ Free(h)
  /\ LET wants == LocksFor(patch)
     IN  Becomes(h, [NoRequest EXCEPT !.kind = "update", !.patch = patch, !.wants = wants,
                                      !.at = IF wants = {} THEN "row" ELSE "lock"])
  /\ UNCHANGED <<settings, consent, decided, policy, account, typeLock, rowLock, now>>

\* The latest decision is a grant of the current version.
Consented(t) == consent[t].granted /\ consent[t].version = policy[t]

\* assertRequiredConsentsGranted, once it has the locks.
CheckConsents(h) ==
  /\ Serves(h, "update", "check")
  /\ IF \A t \in ConsentTypes : Consented(t)
     THEN Proceed(h, "row") /\ UNCHANGED <<typeLock, rowLock>>
     ELSE Finish(h)
  /\ UNCHANGED <<settings, consent, decided, policy, account, now>>

Expired(row) == row.ghost /\ row.until # Never /\ row.until <= now

\* normalizeExpiredGhostMode.
Normalised(row) == IF Expired(row) THEN [row EXCEPT !.ghost = FALSE, !.until = Never] ELSE row

Given(patch, f, row) == IF f \in DOMAIN patch THEN patch[f] ELSE row[f]

\* The rules across fields, over the stored row and the patch together.
Rejected(patch, row) ==
  \/ Given(patch, "minAge", row) > Given(patch, "maxAge", row)
  \/ /\ "until" \in DOMAIN patch /\ patch.until # Never
     /\ patch.until <= now \/ ~Given(patch, "ghost", row)

\* applyPatch: Ghost Mode that is off has no end.
Patched(patch, row) ==
  [[f \in Fields |-> Given(patch, f, row)] EXCEPT
     !["until"] = IF Given(patch, "ghost", row) THEN @ ELSE Never]

\* Mutant: the row is read without FOR UPDATE.
TakeRow_Read(h) == UNCHANGED rowLock

TakeRow(h) == rowLock = NoCaller /\ rowLock' = h

\* SELECT ... FOR UPDATE and the validation of the patch; a refused patch
\* rolls back.
LockSettings(h) ==
  /\ Serves(h, "update", "row")
  /\ TakeRow(h)
  /\ Becomes(h, [request[h] EXCEPT !.row = Normalised(settings),
       !.at = IF Rejected(request[h].patch, Normalised(settings)) THEN "refuse" ELSE "save"])
  /\ UNCHANGED <<settings, consent, decided, policy, account, typeLock, now>>

SaveSettings(h) ==
  /\ Serves(h, "update", "save")
  /\ settings' = Patched(request[h].patch, request[h].row)
  /\ Finish(h)
  /\ UNCHANGED <<consent, decided, policy, account, now>>

-----------------------------------------------------------------------------
(* POST consents.                                                          *)

\* The version was compared with the current one before the transaction.
recordOwn(h, t, granted) ==
  /\ Free(h)
  /\ consent[t].at < MaxDecisions
  /\ Becomes(h, [NoRequest EXCEPT !.kind = "record", !.at = "lock", !.wants = {t},
                   !.type = t, !.granted = granted, !.version = policy[t],
                   !.started = consent[t].at + 1])
  /\ UNCHANGED <<settings, consent, decided, policy, account, typeLock, rowLock, now>>

\* Mutant: created_at is now(), the start of the transaction.
Stamp_Start(h) == request[h].started

\* clock_timestamp(): later than every decision inserted before.
Stamp(h) == consent[request[h].type].at + 1

\* The INSERT; only a withdrawal goes on to the settings.
InsertDecision(h) ==
  /\ Serves(h, "record", "insert")
  /\ Becomes(h, [request[h] EXCEPT !.stamp = Stamp(h),
                                   !.at = IF request[h].granted THEN "commit" ELSE "off"])
  /\ UNCHANGED <<settings, consent, decided, policy, account, typeLock, rowLock, now>>

\* UPDATE user_settings SET discovery_enabled = FALSE waits for the row.
SwitchOff(h) ==
  /\ Serves(h, "record", "off")
  /\ rowLock = NoCaller
  /\ rowLock' = h
  /\ Proceed(h, "commit")
  /\ UNCHANGED <<settings, consent, decided, policy, account, typeLock, now>>

\* The decision that counts is the latest by created_at.
Latest(old, new) == IF new.at > old.at THEN new ELSE old

CommitDecision(h) ==
  /\ Serves(h, "record", "commit")
  /\ LET r == request[h]
     IN  consent' = [consent EXCEPT ![r.type] =
           Latest(@, [granted |-> r.granted, version |-> r.version, at |-> r.stamp])]
  /\ decided' = [decided EXCEPT ![request[h].type] = request[h].granted]
  /\ settings' = [settings EXCEPT !.discovery = @ /\ request[h].granted]
  /\ Finish(h)
  /\ UNCHANGED <<policy, account, now>>

-----------------------------------------------------------------------------
(* GET settings.                                                           *)

\* Nothing is written unless Ghost Mode looks expired.
getOwn(h) ==
  /\ Free(h) /\ Expired(settings)
  /\ Becomes(h, [NoRequest EXCEPT !.kind = "get", !.at = "expire"])
  /\ UNCHANGED <<settings, consent, decided, policy, account, typeLock, rowLock, now>>

\* PostgreSQL evaluates the predicate again once the UPDATE has the row.
StillExpired == Expired(settings)

ExpireGhost(h) ==
  /\ Serves(h, "get", "expire")
  /\ rowLock = NoCaller
  /\ settings' = IF StillExpired THEN [settings EXCEPT !.ghost = FALSE, !.until = Never] ELSE settings
  /\ Finish(h)
  /\ UNCHANGED <<consent, decided, policy, account, now>>

-----------------------------------------------------------------------------
\* A transaction fails, is refused, or its process dies: it rolls back.
Rollback(h) ==
  /\ ~Free(h)
  /\ Finish(h)
  /\ UNCHANGED <<settings, consent, decided, policy, account, now>>

PassTime ==
  /\ now < MaxTime
  /\ now' = now + 1
  /\ UNCHANGED <<settings, consent, decided, policy, account, typeLock, rowLock, request>>

\* A deployment configures a new version of a policy.
RollOut(t) ==
  /\ policy[t] < MaxVersion
  /\ policy' = [policy EXCEPT ![t] = @ + 1]
  /\ UNCHANGED <<settings, consent, decided, account, typeLock, rowLock, request, now>>

\* Moderation restricts matching or lifts it, or the account stops being active.
ModerateAccount(state) ==
  /\ account = "active" \/ account = "restricted"
  /\ account' = state
  /\ UNCHANGED <<settings, consent, decided, policy, typeLock, rowLock, request, now>>

\* As UsersService.provision leaves an account.
DiscoveryInit ==
  /\ settings = NoRequest.row
  /\ consent = [t \in ConsentTypes |-> [granted |-> TRUE, version |-> 1, at |-> 0]]
  /\ decided = [t \in ConsentTypes |-> TRUE]
  /\ policy = [t \in ConsentTypes |-> 1]
  /\ account = "active"
  /\ typeLock = [t \in ConsentTypes |-> NoCaller]
  /\ rowLock = NoCaller
  /\ request = [h \in Callers |-> NoRequest]
  /\ now = 1

DiscoveryNext ==
  \/ \E h \in Callers :
       \/ \E patch \in Patches : updateOwn(h, patch)
       \/ \E t \in ConsentTypes, granted \in BOOLEAN : recordOwn(h, t, granted)
       \/ getOwn(h) \/ LockType(h) \/ CheckConsents(h) \/ LockSettings(h) \/ SaveSettings(h)
       \/ InsertDecision(h) \/ SwitchOff(h) \/ CommitDecision(h) \/ ExpireGhost(h) \/ Rollback(h)
  \/ PassTime
  \/ \E t \in ConsentTypes : RollOut(t)
  \/ \E state \in {"active", "restricted", "suspended"} : ModerateAccount(state)

DiscoverySpec == DiscoveryInit /\ [][DiscoveryNext]_discoveryVars

-----------------------------------------------------------------------------
(* Who says that the user can be found.                                    *)

ghostModeActive == settings.ghost /\ (settings.until = Never \/ settings.until > now)

hasActiveDiscoveryRestriction == account = "restricted"

\* The view reads the decisions and the policy by itself.
getCurrentRequiredConsents ==
  {t \in ConsentTypes : consent[t].granted /\ consent[t].version = policy[t]}

\* getCurrentUser: onboarding is complete, and nothing hides the account.
missingRequirements ==
  (IF account = "suspended" THEN {"active_account"} ELSE {})
  \cup (ConsentTypes \ getCurrentRequiredConsents)

discoverable ==
  missingRequirements = {} /\ settings.discovery /\ ~ghostModeActive
  /\ ~hasActiveDiscoveryRestriction

\* The viewer and the candidate of the matching queries, and both users of a
\* swipe: one predicate written out in SQL five times.
CandidateEligible ==
  /\ account = "active"
  /\ settings.discovery
  /\ ~(settings.ghost /\ (settings.until = Never \/ settings.until > now))
  /\ \A t \in ConsentTypes : consent[t].granted /\ consent[t].version = policy[t]

-----------------------------------------------------------------------------
(* Properties.                                                             *)

\* The locks are there so that no "user without current required consent could
\* remain or become discoverable": however withdrawals, grants and updates of
\* the settings interleave, discovery is enabled only while the last decision
\* taken on each required consent is a grant, and that is the row that counts.
DiscoveryNeedsConsent ==
  settings.discovery => \A t \in ConsentTypes : consent[t].granted /\ decided[t]

\* The steps that may change a field: a withdrawal commits, or a patch that
\* names it.
Withdraws ==
  \E h \in Callers : Serves(h, "record", "commit") /\ Free(h)' /\ ~request[h].granted

Names(f) ==
  \E h \in Callers :
    Serves(h, "update", "save") /\ Free(h)' /\ f \in DOMAIN request[h].patch

\* No settings update is lost and none goes too far: a field changes only by
\* the patch that names it, by a withdrawal, or because Ghost Mode has
\* expired.  An interval that was extended meanwhile is never cut short.
OnlyNamedFieldsChange ==
  [][\A f \in Fields : settings'[f] # settings[f] =>
       \/ Names(f)
       \/ f = "until" /\ Names("ghost")
       \/ f \in {"ghost", "until"} /\ Expired(settings)
       \/ f = "discovery" /\ Withdraws]_discoveryVars

\* The owner is told to be discoverable exactly when the matching feed and the
\* swipes find the account: "two incompatible meanings of discoverable" do not
\* come back, through Ghost Mode, restrictions and policy roll-outs.
DiscoverableMeansFindable == discoverable <=> CandidateEligible

\* What the owner is told about discovery is what consent allows and others see.
DiscoveryIsHonest == DiscoveryNeedsConsent /\ DiscoverableMeansFindable
=============================================================================
