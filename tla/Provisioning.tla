--------------------------- MODULE Provisioning ---------------------------
(***************************************************************************)
(* POST auth/provision: the first request of a Firebase identity makes its *)
(* TripWith account, and every other request looks it up.  Clients retry   *)
(* freely, so several requests of one identity run at once, and identities *)
(* may share an e-mail address.  PostgreSQL's unique indexes decide, as    *)
(* the code says; an account is known by its uid, which no row shares.     *)
(***************************************************************************)
EXTENDS Integers, FiniteSets

CONSTANTS
  Clients,    \* requests being served at a time
  Identities, \* verified tokens: records [uid, email, emailVerified]
  Births,     \* dates of birth the clients send
  Days        \* bound: the dates the calendar goes through, as yyyymmdd

ASSUME ProvisioningAssumption == Births \subseteq Nat /\ Days \subseteq Nat /\ Days # {}

VARIABLES
  accounts,   \* committed accounts: users row with what hangs on it
  provision,  \* the request each client has running
  today       \* the calendar day, in UTC, of PostgreSQL and the API

provisioningVars == <<accounts, provision, today>>

Parts == {"users", "user_profiles", "user_settings", "user_consents"}
PartOrder == <<"users", "user_profiles", "user_settings", "user_consents">>

Anyone == [uid |-> "none", email |-> "none", emailVerified |-> FALSE]

\* wrote: rows the open transaction inserted; answer: of the last request.
Quiet(identity, answer) ==
  [at |-> "idle", identity |-> identity, dob |-> 0, wrote |-> {}, answer |-> answer]

-----------------------------------------------------------------------------
(* Calendar arithmetic on yyyymmdd numbers around the end of February.     *)

Leap(n) == LET y == n \div 10000 IN y % 4 = 0 /\ (y % 100 # 0 \/ y % 400 = 0)
IsImpossible(n) == n % 10000 = 229 /\ ~Leap(n)

\* No calendar has a day between 28 February and 1 March, except the 29th of
\* leap years.
ASSUME CalendarAssumption == \A d \in Days : d % 10000 \notin 230 .. 300 /\ ~IsImpossible(d)

\* Mutant: clamped the way an interval is.
DateUTC_Clamped(n) == IF IsImpossible(n) THEN n - 1 ELSE n

\* Date.UTC: 29 February of a common year is 1 March.
DateUTC(n) == IF IsImpossible(n) THEN n + 72 ELSE n

\* date - interval: 29 February of a common year is 28 February.
MinusInterval(n, years) ==
  LET then == n - 10000 * years IN IF IsImpossible(then) THEN then - 1 ELSE then

\* assertEligibleDateOfBirth.
EligibleDateOfBirth(dob) ==
  dob > 19000101 /\ dob <= today /\ DateUTC(dob + 180000) <= today

\* users_dob_sane_chk and tw_enforce_minimum_age.
AcceptedByTable(dob) == dob > 19000101 /\ dob <= MinusInterval(today, 18)

-----------------------------------------------------------------------------
Idle(c) == provision[c].at = "idle"
Reach(c, at) == provision' = [provision EXCEPT ![c].at = at]
Answer(c, answer) == provision' = [provision EXCEPT ![c] = Quiet(@.identity, answer)]

Clash(a, b) == a.uid = b.uid \/ a.email = b.email

requireVerifiedEmail(identity) == identity.emailVerified

\* Every required consent once, with the version in force.
validateRequiredConsents(current) == current

\* The token is verified, then the body.
Provision(c, identity, dob, current) ==
  /\ Idle(c)
  /\ IF /\ requireVerifiedEmail(identity) /\ EligibleDateOfBirth(dob)
        /\ validateRequiredConsents(current)
     THEN provision' = [provision EXCEPT ![c] =
            [at |-> "users", identity |-> identity, dob |-> dob, wrote |-> {}, answer |-> "none"]]
     ELSE provision' = [provision EXCEPT ![c] = Quiet(identity, "refused")]
  /\ UNCHANGED <<accounts, today>>

\* A unique index makes an insert wait for the open transaction it clashes with.
NoClashInFlight(c) ==
  \A d \in Clients \ {c} :
    "users" \in provision[d].wrote => ~Clash(provision[d].identity, provision[c].identity)

Taken(identity) == \E a \in accounts : Clash(a, identity)

\* INSERT INTO users ... ON CONFLICT DO NOTHING, with the table's checks.
InsertUser(c) ==
  /\ provision[c].at = "users"
  /\ NoClashInFlight(c)
  /\ \/ ~AcceptedByTable(provision[c].dob) /\ Answer(c, "refused")
     \/ /\ AcceptedByTable(provision[c].dob)
        /\ IF Taken(provision[c].identity) THEN Reach(c, "lookup")
           ELSE provision' = [provision EXCEPT ![c].at = "rest", ![c].wrote = {"users"}]
  /\ UNCHANGED <<accounts, today>>

Existing(c) == {a \in accounts : a.uid = provision[c].identity.uid}

\* No row was inserted: the account of this uid, or somebody has the e-mail.
FindExisting(c) ==
  /\ provision[c].at = "lookup"
  /\ IF Existing(c) # {} THEN Reach(c, "resolve") ELSE Answer(c, "conflict")
  /\ UNCHANGED <<accounts, today>>

\* Profile, settings and consents follow, each by its own INSERT.
InsertPart(c) ==
  /\ provision[c].at = "rest" /\ provision[c].wrote # Parts
  /\ LET next == PartOrder[Cardinality(provision[c].wrote) + 1]
     IN  provision' = [provision EXCEPT ![c].wrote = @ \cup {next}]
  /\ UNCHANGED <<accounts, today>>

\* Mutant: each statement commits, so a failure leaves what was written.
MayCommit_Early(c) == "users" \in provision[c].wrote

MayCommit(c) == provision[c].wrote = Parts

CommitAccount(c) ==
  /\ provision[c].at = "rest" /\ MayCommit(c)
  /\ accounts' = accounts \cup
       {[uid |-> provision[c].identity.uid, email |-> provision[c].identity.email,
         parts |-> provision[c].wrote, status |-> "active"]}
  /\ provision' = [provision EXCEPT ![c].at = "resolve", ![c].wrote = {}]
  /\ UNCHANGED today

\* TripWithAuthGuard: any other request of the API begins with the account of
\* its token.
Enter(c, identity) ==
  /\ Idle(c)
  /\ provision' = [provision EXCEPT ![c] = [Quiet(identity, "none") EXCEPT !.at = "resolve"]]
  /\ UNCHANGED <<accounts, today>>

\* TripWithUserResolver: the account may have been suspended meanwhile.
Resolve(c) ==
  /\ provision[c].at = "resolve"
  /\ Answer(c, CASE Existing(c) = {} -> "not provisioned"
                 [] \E a \in Existing(c) : a.status = "active" -> "welcome"
                 [] OTHER -> "unavailable")
  /\ UNCHANGED <<accounts, today>>

\* A statement fails or the process dies: nothing of the transaction stays.
AbortProvision(c) ==
  /\ ~Idle(c)
  /\ Answer(c, "error")
  /\ UNCHANGED <<accounts, today>>

\* Moderation suspends an account, or it is closed; its row stays.
CloseAccount(a) ==
  /\ a.status = "active"
  /\ accounts' = (accounts \ {a}) \cup {[a EXCEPT !.status = "closed"]}
  /\ UNCHANGED <<provision, today>>

Midnight ==
  /\ \E d \in Days : d > today /\ today' = d /\ \A e \in Days : e <= today \/ d <= e
  /\ UNCHANGED <<accounts, provision>>

ProvisioningInit ==
  /\ accounts = {}
  /\ provision = [c \in Clients |-> Quiet(Anyone, "none")]
  /\ today \in Days /\ \A d \in Days : today <= d

ProvisioningNext ==
  \/ \E c \in Clients :
       \/ \E identity \in Identities, dob \in Births, current \in BOOLEAN :
            Provision(c, identity, dob, current)
       \/ \E identity \in Identities : Enter(c, identity)
       \/ InsertUser(c) \/ FindExisting(c) \/ InsertPart(c) \/ CommitAccount(c)
       \/ Resolve(c) \/ AbortProvision(c)
  \/ \E a \in accounts : CloseAccount(a)
  \/ Midnight

ProvisioningSpec == ProvisioningInit /\ [][ProvisioningNext]_provisioningVars

-----------------------------------------------------------------------------
(* Properties.                                                             *)

\* Requests that race or retry make one account of an identity, never two, and
\* never half of one: profile, settings and required consents are there,
\* whichever statement failed before.
OneWholeAccount ==
  /\ \A a, b \in accounts : Clash(a, b) => a = b
  /\ \A a \in accounts : a.parts = Parts

\* A client is told of a conflict only if another identity holds its address:
\* its own retry, or the request it raced, never makes one; and who is welcomed
\* or sent away has an account.
AnswersAreTrue ==
  \A c \in Clients :
    LET p == provision[c]
    IN  /\ p.answer = "conflict" => \E a \in accounts : a.uid # p.identity.uid /\ a.email = p.identity.email
        /\ p.answer \in {"welcome", "unavailable"} => \E a \in accounts : a.uid = p.identity.uid

\* Every first request leaves one whole account and a true answer.
AccountsAreWhole == OneWholeAccount /\ AnswersAreTrue

\* The check at registration and the constraint of the table reckon the
\* eighteenth birthday in opposite ways, and still agree on every day about
\* every date of birth, as the comment in age.ts claims.
AgeRulesAgree ==
  \A dob \in Births \cup Days \cup {d - 180000 : d \in Days} \cup {19000101, 19000102} :
    ~IsImpossible(dob) => (EligibleDateOfBirth(dob) <=> dob <= today /\ AcceptedByTable(dob))
=============================================================================
