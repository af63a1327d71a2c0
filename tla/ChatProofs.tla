----------------------------- MODULE ChatProofs -----------------------------
(***************************************************************************)
(* Proofs about Chat for any number of users, requests, readers and ids,   *)
(* any page size and every type of room.                                   *)
(***************************************************************************)
EXTENDS Chat, FiniteSetTheorems, WellFoundedInduction, TLAPS

-----------------------------------------------------------------------------
(* Smallest and largest numbers, and the pages made of them.               *)

UpTo(n) == 0 .. n

LEMMA PageSize == Limit \in Nat \ {0}
BY ChatAssumption

\* A set of natural numbers has a smallest one.
LEMMA MinIsLeast ==
  ASSUME NEW S \in SUBSET Nat, S # {}
  PROVE  Min(S) \in S /\ \A y \in S : Min(S) <= y
<1>1. \E x \in S : \A y \in S : ~(<<y, x>> \in OpToRel(<, Nat))
  BY NatLessThanWellFounded, WFMin
<1>2. \E x \in S : \A y \in S : x <= y
  <2>1. \A x, y \in S : <<y, x>> \in OpToRel(<, Nat) <=> y < x
    BY DEF OpToRel
  <2>2. \A x, y \in S : ~(y < x) <=> x <= y
    OBVIOUS
  <2> QED BY <1>1, <2>1, <2>2
<1> QED BY <1>2 DEF Min

\* And a largest one, if it is bounded.
LEMMA MaxIsGreatest ==
  ASSUME NEW n \in Nat, NEW S \in SUBSET UpTo(n), S # {}
  PROVE  Max(S) \in S /\ \A y \in S : Max(S) >= y
<1> DEFINE T == {n - x : x \in S}
<1>0. \A x \in S : x \in Int /\ 0 <= x /\ x <= n
  BY DEF UpTo
<1>1. T \in SUBSET Nat /\ T # {}
  BY <1>0
<1>2. Min(T) \in T /\ \A t \in T : Min(T) <= t
  BY <1>1, MinIsLeast
<1>3. PICK x \in S : Min(T) = n - x
  BY <1>2
<1>4. \A y \in S : x >= y
  <2> SUFFICES ASSUME NEW y \in S PROVE x >= y
    OBVIOUS
  <2>1. n - x <= n - y
    BY <1>2, <1>3
  <2> QED BY <1>0, <2>1
<1> QED BY <1>4 DEF Max

LEMMA TwoNumbers ==
  ASSUME NEW a \in Int, NEW b \in Int
  PROVE  /\ Max({a, b}) = IF a >= b THEN a ELSE b
         /\ Min({a, b}) = IF a <= b THEN a ELSE b
<1>1. \A x \in {a, b} : (\A y \in {a, b} : x >= y) <=> x = IF a >= b THEN a ELSE b
  OBVIOUS
<1>2. \A x \in {a, b} : (\A y \in {a, b} : x <= y) <=> x = IF a <= b THEN a ELSE b
  OBVIOUS
<1> QED BY <1>1, <1>2 DEF Max, Min

\* GREATEST(current, LEAST(requested, last)): not back, and not past the room.
LEMMA AdvanceBounds ==
  ASSUME NEW current \in Nat, NEW seq \in Nat, NEW last \in Nat
  PROVE  /\ AdvancedTo(current, seq, last) \in Nat
         /\ current <= AdvancedTo(current, seq, last)
         /\ \A n \in Nat : current <= n /\ last <= n => AdvancedTo(current, seq, last) <= n
<1>1. Min({seq, last}) = IF seq <= last THEN seq ELSE last
  BY TwoNumbers
<1> DEFINE m == Min({seq, last})
<1>2. m \in Nat /\ m <= last
  BY <1>1
<1>3. AdvancedTo(current, seq, last) = Max({current, m})
  BY DEF AdvancedTo
<1> HIDE DEF m
<1>4. AdvancedTo(current, seq, last) = IF current >= m THEN current ELSE m
  BY <1>2, <1>3, TwoNumbers
<1> QED BY <1>2, <1>4

\* Bounded sets of numbers are finite, and smaller the less they contain.
LEMMA Counting ==
  ASSUME NEW n \in Nat, NEW S \in SUBSET UpTo(n), NEW T \in SUBSET S
  PROVE  /\ IsFiniteSet(S) /\ Cardinality(S) \in Nat
         /\ Cardinality(T) <= Cardinality(S)
         /\ T # S => Cardinality(T) < Cardinality(S)
<1>1. IsFiniteSet(S)
  <2>1. IsFiniteSet(UpTo(n))
    BY FS_Interval DEF UpTo
  <2> QED BY <2>1, FS_Subset
<1>2. IsFiniteSet(T) /\ Cardinality(T) <= Cardinality(S) /\ (Cardinality(S) = Cardinality(T) => S = T)
  BY <1>1, FS_Subset
<1>3. Cardinality(S) \in Nat /\ Cardinality(T) \in Nat
  BY <1>1, <1>2, FS_CardinalityType
<1> QED BY <1>1, <1>2, <1>3

\* The newest page: part of the set, not empty unless the set is, and with a
\* number it has every greater one; and nothing is left out unless HasMore.
LEMMA HighestIsPage ==
  ASSUME NEW n \in Nat, NEW S \in SUBSET UpTo(n)
  PROVE  /\ Highest(S) \subseteq S
         /\ S # {} => Highest(S) # {}
         /\ \A p \in Highest(S), q \in S : q >= p => q \in Highest(S)
         /\ ~HasMore(S) => Highest(S) = S
<1> DEFINE Above(q) == {p \in S : p > q}
<1>0. Highest(S) = {q \in S : Cardinality(Above(q)) < Limit}
  BY DEF Highest
<1>1. \A q \in S : q \in Int /\ Above(q) \in SUBSET S /\ Above(q) # S
  BY DEF UpTo
<1>2. \A q \in S : Cardinality(Above(q)) \in Nat /\ Cardinality(Above(q)) < Cardinality(S)
  <2> SUFFICES ASSUME NEW q \in S
               PROVE  Cardinality(Above(q)) \in Nat /\ Cardinality(Above(q)) < Cardinality(S)
    OBVIOUS
  <2> HIDE DEF Above
  <2> QED BY <1>1, Counting
<1>3. ASSUME NEW p \in S, NEW q \in S, q >= p
      PROVE  Cardinality(Above(q)) <= Cardinality(Above(p))
  <2>1. Above(p) \in SUBSET UpTo(n) /\ Above(q) \in SUBSET Above(p)
    BY <1>1, <1>3
  <2> HIDE DEF Above
  <2> QED BY <2>1, Counting
<1>4. S # {} => \E q \in S : Above(q) = {}
  <2> SUFFICES ASSUME S # {} PROVE \E q \in S : Above(q) = {}
    OBVIOUS
  <2>1. PICK q \in S : \A y \in S : q >= y
    BY MaxIsGreatest
  <2>2. Above(q) = {}
    BY <1>1, <2>1
  <2> QED BY <2>2
<1>5. S # {} => Highest(S) # {}
  <2> HIDE DEF Above
  <2> QED BY <1>0, <1>4, FS_EmptySet, PageSize
<1>6. \A p \in Highest(S), q \in S : q >= p => q \in Highest(S)
  <2> HIDE DEF Above
  <2> QED BY <1>0, <1>2, <1>3, PageSize
<1>7. ~HasMore(S) => Highest(S) = S
  <2>1. Cardinality(S) \in Nat
    BY Counting
  <2> HIDE DEF Above
  <2> QED BY <1>0, <1>2, <2>1, PageSize DEF HasMore
<1> QED BY <1>0, <1>5, <1>6, <1>7

\* The oldest page likewise, from below.
LEMMA LowestIsPage ==
  ASSUME NEW n \in Nat, NEW S \in SUBSET UpTo(n)
  PROVE  /\ Lowest(S) \subseteq S
         /\ S # {} => Lowest(S) # {}
         /\ \A p \in Lowest(S), q \in S : q <= p => q \in Lowest(S)
<1> DEFINE Below(q) == {p \in S : p < q}
<1>0. Lowest(S) = {q \in S : Cardinality(Below(q)) < Limit}
  BY DEF Lowest
<1>1. \A q \in S : q \in Nat /\ Below(q) \in SUBSET S
  BY DEF UpTo
<1>2. ASSUME NEW q \in S PROVE Cardinality(Below(q)) \in Nat
  <2>1. Below(q) \in SUBSET UpTo(n)
    BY <1>1
  <2> HIDE DEF Below
  <2> QED BY <2>1, Counting
<1>3. ASSUME NEW p \in S, NEW q \in S, q <= p
      PROVE  Cardinality(Below(q)) <= Cardinality(Below(p))
  <2>1. Below(p) \in SUBSET UpTo(n)
    BY <1>1
  <2>2. Below(q) \in SUBSET Below(p)
    BY <1>1, <1>3
  <2> HIDE DEF Below
  <2> QED BY <2>1, <2>2, Counting
<1>4. S # {} => \E q \in S : Below(q) = {}
  <2> SUFFICES ASSUME S # {} PROVE \E q \in S : Below(q) = {}
    OBVIOUS
  <2>1. S \in SUBSET Nat
    BY <1>1
  <2>2. PICK q \in S : \A y \in S : q <= y
    BY <2>1, MinIsLeast
  <2>3. Below(q) = {}
    BY <1>1, <2>2
  <2> QED BY <2>3
<1> HIDE DEF Below
<1>5. S # {} => Lowest(S) # {}
  BY <1>0, <1>4, FS_EmptySet, PageSize
<1>6. \A p \in Lowest(S), q \in S : q <= p => q \in Lowest(S)
  BY <1>0, <1>2, <1>3, PageSize
<1> QED BY <1>0, <1>5, <1>6

-----------------------------------------------------------------------------
(* The inductive invariant.                                                *)

SendRow ==
  [stage : {"lock", "member", "lookup", "insert", "commit", "targets", "emit"},
   user : Users, id : ClientIds, seq : Nat, targets : SUBSET Users]

MarkRow == [stage : {"update", "row"}, user : Users, seq : Nat, snapshot : Nat]

InTransaction(row) == row.stage \in {"member", "lookup", "insert", "commit"}
Broadcasts(row) == row.stage \in {"targets", "emit"}

\* What a send knows, by its stage: that its id is new, the next number, and
\* that nobody broadcast the message it is about to.
Knows(row) ==
  /\ row.stage \in {"insert", "commit"} => SentAs(row.user, row.id) = {}
  /\ row.stage = "commit" => row.seq = lastSeq + 1
  /\ Broadcasts(row) => row.seq \in 1 .. lastSeq /\ row.seq \notin emitted

\* The room's row is locked by whoever is in the middle of its transaction.
LockInv == \A s \in Handlers : InTransaction(send[s]) <=> lock = s

BroadcastsDiffer ==
  \A s, t \in Handlers :
    s # t /\ Broadcasts(send[s]) /\ Broadcasts(send[t]) => send[s].seq # send[t].seq

SendInv == LockInv /\ (\A s \in Handlers : Knows(send[s])) /\ BroadcastsDiffer

NumbersInv ==
  /\ Committed = 1 .. lastSeq
  /\ \A m, n \in messages : m.seq = n.seq => m = n
  /\ StoredOnce
  /\ emitted \subseteq 1 .. lastSeq

\* What reached a user, or is about to, was visible to them; and a member sees
\* the room.
SightInv ==
  /\ \A u \in members : Committed \subseteq visible[u]
  /\ \A u \in Users : received[u] \subseteq visible[u]
  /\ \A u \in Readers : client[u].seen \subseteq visible[u]
  /\ \A s \in Handlers :
       send[s].stage = "emit" => \A u \in send[s].targets : send[s].seq \in visible[u]

CursorInv ==
  /\ \A u \in Users : lastRead[u] <= lastSeq
  /\ \A r \in Marks : mark[r].stage = "row" => mark[r].snapshot <= lastSeq

NoHoles(window) ==
  window.opened =>
    \A q \in Readable :
      q <= window.after /\ (window.done \/ q >= window.before) => q \in window.seen

WindowInv == \A u \in Readers : client[u].after <= lastSeq /\ NoHoles(client[u])

ChatInv == SendInv /\ NumbersInv /\ SightInv /\ CursorInv /\ WindowInv

LEMMA InvInit == Init => TypeOK /\ ChatInv
<1> SUFFICES ASSUME Init PROVE TypeOK /\ ChatInv
  OBVIOUS
<1>0. members \subseteq Users
  BY DEF Init
<1>1. TypeOK
  BY <1>0 DEF Init, TypeOK, NoWindow, Window
<1>2. Committed = {} /\ 1 .. lastSeq = {} /\ Readable = {}
  BY DEF Init, Committed, Readable
<1>3. SendInv
  BY ChatAssumption DEF Init, SendInv, LockInv, InTransaction, Knows, BroadcastsDiffer, Broadcasts, NoSend
<1>4. NumbersInv
  BY <1>2 DEF Init, NumbersInv, StoredOnce
<1>5. SightInv
  BY <1>2 DEF Init, SightInv, NoSend, NoWindow
<1>6. CursorInv /\ WindowInv
  BY <1>2, ChatAssumption DEF Init, CursorInv, WindowInv, NoHoles, NoMark, NoWindow
<1> QED BY <1>1, <1>3, <1>4, <1>5, <1>6 DEF ChatInv

-----------------------------------------------------------------------------
(* What the steps have in common.                                          *)

\* Only a send that is under way is not idle.
LEMMA OpenSends ==
  ASSUME TypeOK, NEW s \in Handlers, send[s].stage # "idle"
  PROVE  send[s] \in SendRow
BY DEF TypeOK, SendRow, NoSend

\* Observe loses nothing and shows the room to its members.
LEMMA Observed ==
  ASSUME TypeOK, Observe, messages' \subseteq MessageRow
  PROVE  /\ visible' \in [Users -> SUBSET Nat]
         /\ \A u \in Users : visible[u] \subseteq visible'[u]
         /\ \A u \in Users : u \in members' => Committed' \subseteq visible'[u]
<1>1. Committed' = {m.seq : m \in messages'} /\ Committed' \subseteq Nat
  BY DEF Committed, MessageRow
<1>2. \A u \in Users : visible'[u] = visible[u] \cup IF u \in members' THEN Committed' ELSE {}
  BY <1>1 DEF Observe
<1>3. visible' = [u \in Users |-> visible[u] \cup IF u \in members' THEN Committed' ELSE {}]
  BY <1>1 DEF Observe
<1> QED BY <1>1, <1>2, <1>3 DEF TypeOK

\* So nobody gets what they may not see, as long as what is new to them is.
LEMMA SightStep ==
  ASSUME TypeOK, SightInv, Observe, messages' \subseteq MessageRow, members' \subseteq Users,
         \A u \in Users : received'[u] \subseteq received[u] \cup visible'[u],
         \A u \in Readers : client'[u].seen \subseteq client[u].seen \cup visible'[u],
         \A s \in Handlers : send'[s].stage = "emit" =>
           \/ send'[s] = send[s]
           \/ \A u \in send'[s].targets : send'[s].seq \in visible'[u]
  PROVE  SightInv'
<1>1. /\ \A u \in Users : visible[u] \subseteq visible'[u]
      /\ \A u \in Users : u \in members' => Committed' \subseteq visible'[u]
  BY Observed
<1>2. Readers \subseteq Users
  BY ChatAssumption
<1>3. \A s \in Handlers : send[s].stage = "emit" => send[s].targets \subseteq Users
  BY OpenSends DEF SendRow
<1>4. \A u \in members' : Committed' \subseteq visible'[u]
  BY <1>1
<1>5. \A u \in Users : received'[u] \subseteq visible'[u]
  BY <1>1 DEF SightInv
<1>6. \A u \in Readers : client'[u].seen \subseteq visible'[u]
  BY <1>1, <1>2 DEF SightInv
<1>7. \A s \in Handlers : send'[s].stage = "emit" =>
        \A u \in send'[s].targets : send'[s].seq \in visible'[u]
  BY <1>1, <1>3 DEF SightInv
<1> QED BY <1>4, <1>5, <1>6, <1>7 DEF SightInv

\* The readable numbers are numbers of the room.
LEMMA ReadableBound ==
  ASSUME TypeOK, NumbersInv
  PROVE  Readable \in SUBSET UpTo(lastSeq) /\ lastSeq \in Nat /\ \A q \in Readable : q >= 1
BY DEF TypeOK, NumbersInv, Readable, UpTo

\* What depends on the room only.
LEMMA SameRoom ==
  ASSUME messages' = messages, lastSeq' = lastSeq, emitted' = emitted
  PROVE  /\ NumbersInv => NumbersInv'
         /\ \A row : Knows(row)' <=> Knows(row)
         /\ \A window : NoHoles(window)' <=> NoHoles(window)
         /\ Committed' = Committed /\ Readable' = Readable
<1>1. Committed' = Committed /\ Readable' = Readable
  BY DEF Committed, Readable, Deleted
<1>2. \A u, c : SentAs(u, c)' = SentAs(u, c)
  BY DEF SentAs
<1>3. NumbersInv => NumbersInv'
  BY <1>1 DEF NumbersInv, StoredOnce
<1>4. \A row : Knows(row)' <=> Knows(row)
  BY <1>2 DEF Knows, Broadcasts
<1>5. \A window : NoHoles(window)' <=> NoHoles(window)
  BY <1>1 DEF NoHoles
<1> QED BY <1>1, <1>3, <1>4, <1>5

-----------------------------------------------------------------------------
(* Sending.                                                                *)

\* A step of a send before or after its commit that broadcasts nothing yet.
LEMMA QuietSend ==
  ASSUME TypeOK, ChatInv, NEW s \in Handlers, NEW row \in SendRow \cup {NoSend},
         Step(s, row), Observe,
         UNCHANGED <<members, messages, lastSeq, lastRead, mark, client, received, emitted>>,
         lock' \in Handlers \cup {NoHandler},
         InTransaction(row) <=> lock' = s,
         \A t \in Handlers \ {s} : lock' = t <=> lock = t,
         Knows(row),
         Broadcasts(row) => Broadcasts(send[s]) /\ row.seq = send[s].seq,
         row.stage = "emit" => row.targets \subseteq members
  PROVE  TypeOK' /\ ChatInv'
<1>0. /\ members' = members /\ messages' = messages /\ lastSeq' = lastSeq
      /\ lastRead' = lastRead /\ mark' = mark /\ client' = client
      /\ received' = received /\ emitted' = emitted
  OBVIOUS
<1>1. /\ send' \in [Handlers -> SendRow \cup {NoSend}]
      /\ send'[s] = row
      /\ \A t \in Handlers : t # s => send'[t] = send[t]
  BY DEF TypeOK, Step, SendRow
<1>2. messages' \subseteq MessageRow /\ members' \subseteq Users
  BY <1>0 DEF TypeOK
<1>3. /\ visible' \in [Users -> SUBSET Nat]
      /\ \A u \in Users : u \in members' => Committed' \subseteq visible'[u]
  BY <1>2, Observed
<1>4. TypeOK'
  BY <1>0, <1>1, <1>3 DEF TypeOK, SendRow
<1>5. SendInv'
  <2>1. LockInv'
    BY <1>1 DEF ChatInv, SendInv, LockInv, InTransaction
  <2>2. \A t \in Handlers : Knows(send'[t])
    BY <1>1 DEF ChatInv, SendInv
  <2>3. \A t \in Handlers : Knows(send[t])'
    BY <1>0, <2>2, SameRoom
  <2>4. BroadcastsDiffer'
    BY <1>1 DEF ChatInv, SendInv, BroadcastsDiffer, Broadcasts
  <2> QED BY <2>1, <2>3, <2>4 DEF SendInv
<1>6. NumbersInv'
  BY <1>0, SameRoom DEF ChatInv
<1>7. SightInv'
  <2>1. row.stage = "emit" => \A u \in row.targets : row.seq \in visible'[u]
    <3>1. Broadcasts(row) => row.seq \in Committed
      BY DEF Knows, ChatInv, NumbersInv
    <3>2. Committed' = Committed
      BY <1>0, SameRoom
    <3> QED BY <1>0, <1>2, <1>3, <3>1, <3>2 DEF Broadcasts
  <2> QED BY <1>0, <1>1, <1>2, <2>1, SightStep DEF ChatInv
<1>8. CursorInv' /\ WindowInv'
  BY <1>0, SameRoom DEF ChatInv, CursorInv, WindowInv
<1> QED BY <1>4, <1>5, <1>6, <1>7, <1>8 DEF ChatInv

\* The end of a send gives the lock back if it had it.
LEMMA ReleaseFacts ==
  ASSUME TypeOK, NEW s \in Handlers
  PROVE  /\ Released(s) \in Handlers \cup {NoHandler} /\ Released(s) # s
         /\ \A t \in Handlers \ {s} : Released(s) = t <=> lock = t
BY ChatAssumption DEF TypeOK, Released

LEMMA EndSend ==
  ASSUME TypeOK, ChatInv, NEW s \in Handlers, Step(s, NoSend), Observe, lock' = Released(s),
         UNCHANGED <<members, messages, lastSeq, lastRead, mark, client, received, emitted>>
  PROVE  TypeOK' /\ ChatInv'
<1>1. Knows(NoSend) /\ ~InTransaction(NoSend) /\ ~Broadcasts(NoSend) /\ NoSend.stage # "emit"
  BY DEF Knows, InTransaction, Broadcasts, NoSend
<1> QED BY <1>1, ReleaseFacts, QuietSend

LEMMA RequestInv ==
  ASSUME TypeOK, ChatInv, NEW s \in Handlers, NEW u \in Users, NEW c \in ClientIds,
         Request(s, u, c)
  PROVE  TypeOK' /\ ChatInv'
<1> DEFINE row == [NoSend EXCEPT !.stage = "lock", !.user = u, !.id = c]
<1>1. /\ Step(s, row) /\ Observe /\ send[s].stage = "idle"
      /\ UNCHANGED <<members, messages, lastSeq, lastRead, mark, client, received, emitted>>
      /\ lock' = lock
  BY DEF Request, Is, roomVars
<1>2. row \in SendRow /\ row.stage = "lock"
  BY DEF NoSend, SendRow
<1> HIDE DEF row
<1>3. Knows(row) /\ ~InTransaction(row) /\ ~Broadcasts(row)
  BY <1>2 DEF Knows, InTransaction, Broadcasts
<1>4. lock' # s /\ lock' \in Handlers \cup {NoHandler}
  BY <1>1 DEF ChatInv, SendInv, LockInv, InTransaction, TypeOK
<1> QED BY <1>1, <1>2, <1>3, <1>4, QuietSend

\* A transaction goes on, holding the lock.
LEMMA TransactionStep ==
  ASSUME TypeOK, ChatInv, NEW s \in Handlers, lock \in {s, NoHandler}, lock' = s,
         NEW row \in SendRow, InTransaction(row), Step(s, row), Observe, Knows(row),
         UNCHANGED <<members, messages, lastSeq, lastRead, mark, client, received, emitted>>
  PROVE  TypeOK' /\ ChatInv'
<1>1. ~Broadcasts(row) /\ row.stage # "emit"
  BY DEF InTransaction, Broadcasts
<1>2. \A t \in Handlers \ {s} : lock' = t <=> lock = t
  BY ChatAssumption
<1> QED BY <1>1, <1>2, QuietSend


LEMMA LockInvStep ==
  ASSUME TypeOK, ChatInv, NEW s \in Handlers, lockRoom(s)
  PROVE  TypeOK' /\ ChatInv'
<1> DEFINE row == [send[s] EXCEPT !.stage = "member"]
<1>1. /\ Step(s, row) /\ Observe /\ send[s].stage = "lock" /\ lock = NoHandler /\ lock' = s
      /\ UNCHANGED <<members, messages, lastSeq, lastRead, mark, client, received, emitted>>
  BY DEF lockRoom, Is, Goto
<1>2. row \in SendRow /\ row.stage = "member"
  BY <1>1, OpenSends DEF SendRow
<1> HIDE DEF row
<1>3. Knows(row) /\ InTransaction(row)
  BY <1>2 DEF Knows, InTransaction, Broadcasts
<1> QED BY <1>1, <1>2, <1>3, TransactionStep

\* Membership check and lookup: either the transaction goes on to the next
\* statement, or it ends and nothing is sent.
LEMMA CheckInv ==
  ASSUME TypeOK, ChatInv, NEW s \in Handlers, assertActiveMember(s) \/ findByClientMessageId(s)
  PROVE  TypeOK' /\ ChatInv'
<1>1. /\ Observe /\ send[s].stage \in {"member", "lookup"}
      /\ UNCHANGED <<members, messages, lastSeq, lastRead, mark, client, received, emitted>>
  BY DEF assertActiveMember, findByClientMessageId, Is
<1>2. CASE Step(s, NoSend) /\ lock' = Released(s)
  BY <1>1, <1>2, EndSend
<1>3. ASSUME NEW next \in {"lookup", "insert"},
             Goto(s, next), UNCHANGED lock,
             next = "insert" => SentAs(send[s].user, send[s].id) = {}
      PROVE  TypeOK' /\ ChatInv'
  <2> DEFINE row == [send[s] EXCEPT !.stage = next]
  <2>1. Step(s, row)
    BY <1>3 DEF Goto
  <2>2. row \in SendRow /\ row.stage = next /\ row.user = send[s].user /\ row.id = send[s].id
    BY <1>1, OpenSends DEF SendRow
  <2> HIDE DEF row
  <2>3. Knows(row) /\ InTransaction(row)
    BY <1>3, <2>2 DEF Knows, InTransaction, Broadcasts
  <2>4. lock = s
    BY <1>1 DEF ChatInv, SendInv, LockInv, InTransaction
  <2> QED BY <1>1, <1>3, <2>1, <2>2, <2>3, <2>4, TransactionStep
<1> QED BY <1>2, <1>3 DEF assertActiveMember, findByClientMessageId

LEMMA InsertInv ==
  ASSUME TypeOK, ChatInv, NEW s \in Handlers, insertMessage(s)
  PROVE  TypeOK' /\ ChatInv'
<1> DEFINE row == [send[s] EXCEPT !.stage = "commit", !.seq = lastSeq + 1]
<1>1. /\ Step(s, row) /\ Observe /\ send[s].stage = "insert"
      /\ lock \in {s, NoHandler} /\ lock' = s
      /\ UNCHANGED <<members, messages, lastSeq, lastRead, mark, client, received, emitted>>
  BY DEF insertMessage, Is
<1>2. lastSeq + 1 \in Nat
  BY DEF TypeOK
<1>3. /\ row \in SendRow /\ row.stage = "commit" /\ row.seq = lastSeq + 1
      /\ row.user = send[s].user /\ row.id = send[s].id
  BY <1>1, <1>2, OpenSends DEF SendRow
<1> HIDE DEF row
<1>4. Knows(send[s])
  BY DEF ChatInv, SendInv
<1>5. Knows(row) /\ InTransaction(row)
  BY <1>1, <1>3, <1>4 DEF Knows, InTransaction, Broadcasts
<1> QED BY <1>1, <1>3, <1>5, TransactionStep

\* The commit adds the next number, readable for everybody at once.
LEMMA CommitInv ==
  ASSUME TypeOK, ChatInv, NEW s \in Handlers, Commit(s)
  PROVE  TypeOK' /\ ChatInv'
<1> DEFINE new == [seq |-> send[s].seq, user |-> send[s].user, id |-> send[s].id,
                   deleted |-> FALSE]
<1>1. /\ send[s].stage = "commit" /\ Observe
      /\ messages' = messages \cup {new}
      /\ lastSeq' = send[s].seq /\ lock' = Released(s)
      /\ Goto(s, "targets") \/ Step(s, NoSend)
      /\ members' = members /\ lastRead' = lastRead /\ mark' = mark /\ client' = client
      /\ received' = received /\ emitted' = emitted
  BY DEF Commit, Is
<1>2. send[s] \in SendRow /\ Knows(send[s])
  BY <1>1, OpenSends DEF ChatInv, SendInv
<1>3. /\ lastSeq \in Nat /\ lastSeq' = lastSeq + 1
      /\ new \in MessageRow /\ new.seq = lastSeq + 1 /\ ~new.deleted
      /\ new.user = send[s].user /\ new.id = send[s].id
      /\ SentAs(new.user, new.id) = {}
  BY <1>1, <1>2 DEF Knows, SendRow, MessageRow, TypeOK
<1> HIDE DEF new
<1>4. PICK row \in SendRow \cup {NoSend} :
        /\ Step(s, row) /\ row.stage \in {"targets", "idle"}
        /\ row.stage = "targets" => row.seq = lastSeq + 1
  <2>1. CASE Goto(s, "targets")
    <3> DEFINE row == [send[s] EXCEPT !.stage = "targets"]
    <3>1. row \in SendRow /\ row.stage = "targets" /\ row.seq = lastSeq + 1 /\ Step(s, row)
      BY <1>1, <1>2, <1>3, <2>1 DEF SendRow, Goto
    <3> QED BY <3>1
  <2>2. CASE Step(s, NoSend)
    BY <2>2 DEF NoSend
  <2> QED BY <1>1, <2>1, <2>2
<1>5. /\ send' \in [Handlers -> SendRow \cup {NoSend}]
      /\ send'[s] = row
      /\ \A t \in Handlers : t # s => send'[t] = send[t]
  BY <1>4 DEF TypeOK, Step, SendRow
<1>6. messages' \subseteq MessageRow /\ members' \subseteq Users
  BY <1>1, <1>3 DEF TypeOK
<1>7. visible' \in [Users -> SUBSET Nat]
  BY <1>1, <1>6, Observed
<1>8. lock = s /\ lock' = NoHandler
  BY <1>1 DEF ChatInv, SendInv, LockInv, InTransaction, Released
<1>9. TypeOK'
  BY <1>1, <1>3, <1>5, <1>6, <1>7, <1>8 DEF TypeOK, SendRow
<1>10. /\ Committed' = Committed \cup {lastSeq + 1}
       /\ Committed = 1 .. lastSeq /\ emitted \subseteq 1 .. lastSeq
  BY <1>1, <1>3 DEF Committed, ChatInv, NumbersInv
<1>11. Deleted' = Deleted /\ Readable' = Readable \cup ({lastSeq + 1} \ Deleted)
  <2>1. Deleted' = Deleted
    BY <1>1, <1>3 DEF Deleted
  <2> QED BY <2>1, <1>10 DEF Readable
<1>12. SendInv'
  <2>1. LockInv'
    BY <1>4, <1>5, <1>8, ChatAssumption DEF ChatInv, SendInv, LockInv, InTransaction
  <2>2. Knows(send[s])'
    BY <1>1, <1>3, <1>4, <1>5, <1>10 DEF Knows, Broadcasts
  <2>3. ASSUME NEW t \in Handlers, t # s PROVE Knows(send[t])'
    <3>1. Knows(send[t]) /\ ~InTransaction(send[t])
      BY <1>8, <2>3 DEF ChatInv, SendInv, LockInv
    <3> QED BY <1>1, <1>3, <1>5, <2>3, <3>1 DEF Knows, InTransaction, Broadcasts
  <2>4. BroadcastsDiffer'
    <3>1. \A t \in Handlers : Broadcasts(send[t]) => send[t].seq # lastSeq + 1
      BY <1>3 DEF ChatInv, SendInv, Knows
    <3> QED BY <1>4, <1>5, <3>1 DEF ChatInv, SendInv, BroadcastsDiffer, Broadcasts
  <2> QED BY <2>1, <2>2, <2>3, <2>4 DEF SendInv
<1>13. NumbersInv'
  <2>1. Committed' = 1 .. lastSeq'
    BY <1>3, <1>10
  <2>2. \A m \in messages : m.seq # new.seq
    BY <1>3, <1>10 DEF Committed
  <2>3. \A m, n \in messages' : m.seq = n.seq => m = n
    BY <1>1, <2>2 DEF ChatInv, NumbersInv
  <2>4. \A m \in messages : ~(m.user = new.user /\ m.id = new.id)
    BY <1>3 DEF SentAs
  <2>5. StoredOnce'
    BY <1>1, <2>4 DEF ChatInv, NumbersInv, StoredOnce
  <2>6. emitted' \subseteq 1 .. lastSeq'
    BY <1>1, <1>3, <1>10
  <2> QED BY <2>1, <2>3, <2>5, <2>6 DEF NumbersInv
<1>14. SightInv'
  BY <1>1, <1>4, <1>5, <1>6, SightStep DEF ChatInv
<1>15. CursorInv'
  BY <1>1, <1>3 DEF ChatInv, CursorInv, TypeOK, MarkRow, NoMark
<1>16. WindowInv'
  <2> SUFFICES ASSUME NEW u \in Readers PROVE client[u].after <= lastSeq' /\ NoHoles(client[u])'
    BY <1>1 DEF WindowInv, NoHoles
  <2>1. client[u].after \in Nat /\ client[u].after <= lastSeq /\ NoHoles(client[u])
    BY DEF ChatInv, WindowInv, TypeOK, Window
  <2>2. \A q \in Readable' : q <= client[u].after => q \in Readable
    BY <1>3, <1>11, <2>1
  <2> QED BY <1>1, <1>3, <2>1, <2>2 DEF NoHoles
<1> QED BY <1>9, <1>12, <1>13, <1>14, <1>15, <1>16 DEF ChatInv

LEMMA TargetsInv ==
  ASSUME TypeOK, ChatInv, NEW s \in Handlers, broadcastToActiveMembers(s)
  PROVE  TypeOK' /\ ChatInv'
<1> DEFINE row == [send[s] EXCEPT !.stage = "emit", !.targets = BroadcastTargets]
<1>1. /\ Step(s, row) /\ Observe /\ send[s].stage = "targets" /\ lock' = lock
      /\ UNCHANGED <<members, messages, lastSeq, lastRead, mark, client, received, emitted>>
  BY DEF broadcastToActiveMembers, Is, roomVars
<1>2. BroadcastTargets \subseteq members /\ BroadcastTargets \subseteq Users
  BY DEF BroadcastTargets, TypeOK
<1>3. /\ row \in SendRow /\ row.stage = "emit" /\ row.seq = send[s].seq
      /\ row.targets = BroadcastTargets
  BY <1>1, <1>2, OpenSends DEF SendRow
<1> HIDE DEF row
<1>4. Knows(row) /\ ~InTransaction(row) /\ Broadcasts(send[s])
  BY <1>1, <1>3 DEF Knows, InTransaction, Broadcasts, ChatInv, SendInv
<1>5. lock' # s /\ lock' \in Handlers \cup {NoHandler}
  BY <1>1 DEF ChatInv, SendInv, LockInv, InTransaction, TypeOK
<1> QED BY <1>1, <1>2, <1>3, <1>4, <1>5, QuietSend

\* The emit reaches targets who saw the message.
LEMMA EmitInv ==
  ASSUME TypeOK, ChatInv, NEW s \in Handlers, emitToUsers(s)
  PROVE  TypeOK' /\ ChatInv'
<1>1. /\ send[s].stage = "emit" /\ Observe /\ Step(s, NoSend)
      /\ emitted' = emitted \cup {send[s].seq}
      /\ members' = members /\ messages' = messages /\ lastSeq' = lastSeq /\ lock' = lock
      /\ lastRead' = lastRead /\ mark' = mark /\ client' = client
  BY DEF emitToUsers, Is, roomVars
<1>2. /\ send[s] \in SendRow /\ Knows(send[s]) /\ Broadcasts(send[s])
      /\ ~InTransaction(send[s])
  BY <1>1, OpenSends DEF ChatInv, SendInv, Broadcasts, InTransaction
<1>3. PICK reached \in SUBSET send[s].targets :
        received' = [u \in Users |-> IF u \in reached THEN received[u] \cup {send[s].seq}
                                     ELSE received[u]]
  BY DEF emitToUsers
<1>4. /\ send' \in [Handlers -> SendRow \cup {NoSend}]
      /\ send'[s] = NoSend
      /\ \A t \in Handlers : t # s => send'[t] = send[t]
  BY <1>1 DEF TypeOK, Step, SendRow
<1>5. messages' \subseteq MessageRow /\ members' \subseteq Users
  BY <1>1 DEF TypeOK
<1>6. /\ visible' \in [Users -> SUBSET Nat]
      /\ \A u \in Users : visible[u] \subseteq visible'[u]
  BY <1>1, <1>5, Observed
<1>7. send[s].seq \in Nat /\ received' \in [Users -> SUBSET Nat]
  BY <1>2, <1>3 DEF SendRow, TypeOK
<1>8. TypeOK'
  BY <1>1, <1>4, <1>6, <1>7 DEF TypeOK, SendRow
<1>9. NoSend.stage = "idle"
  BY DEF NoSend
<1>10. SendInv'
  <2>1. LockInv'
    BY <1>1, <1>2, <1>4, <1>9 DEF ChatInv, SendInv, LockInv, InTransaction
  <2>2. Knows(send[s])'
    BY <1>4, <1>9 DEF Knows, Broadcasts
  <2>3. ASSUME NEW t \in Handlers, t # s PROVE Knows(send[t])'
    <3>1. Knows(send[t]) /\ (Broadcasts(send[t]) => send[t].seq # send[s].seq)
      BY <1>2, <2>3 DEF ChatInv, SendInv, BroadcastsDiffer
    <3>2. SentAs(send[t].user, send[t].id)' = SentAs(send[t].user, send[t].id)
      BY <1>1, <1>4, <2>3 DEF SentAs
    <3> QED BY <1>1, <1>4, <2>3, <3>1, <3>2 DEF Knows, Broadcasts
  <2>4. BroadcastsDiffer'
    BY <1>4, <1>9 DEF ChatInv, SendInv, BroadcastsDiffer, Broadcasts
  <2> QED BY <2>1, <2>2, <2>3, <2>4 DEF SendInv
<1>11. NumbersInv'
  <2>1. Committed' = Committed
    BY <1>1 DEF Committed
  <2>2. send[s].seq \in 1 .. lastSeq
    BY <1>2 DEF Knows
  <2> QED BY <1>1, <2>1, <2>2 DEF ChatInv, NumbersInv, StoredOnce
<1>12. SightInv'
  <2>1. \A u \in Users : received'[u] \subseteq received[u] \cup visible'[u]
    <3>1. \A u \in send[s].targets : u \in Users /\ send[s].seq \in visible[u]
      BY <1>1, <1>2 DEF ChatInv, SightInv, SendRow
    <3> QED BY <1>3, <1>6, <3>1
  <2> QED BY <1>1, <1>4, <1>5, <1>9, <2>1, SightStep DEF ChatInv
<1>13. CursorInv' /\ WindowInv'
  <2>1. Readable' = Readable
    BY <1>1 DEF Readable, Committed, Deleted
  <2> QED BY <1>1, <2>1 DEF ChatInv, CursorInv, WindowInv, NoHoles
<1> QED BY <1>8, <1>10, <1>11, <1>12, <1>13 DEF ChatInv

-----------------------------------------------------------------------------
(* Reading.                                                                *)

\* A page that shows a member committed messages and leaves no hole.
LEMMA WindowStep ==
  ASSUME TypeOK, ChatInv, NEW u \in Readers, NEW window \in Window, Show(u, window),
         u \in members, window.seen \subseteq client[u].seen \cup Committed,
         window.after <= lastSeq, NoHoles(window), Observe,
         UNCHANGED <<members, messages, lastSeq, lock, lastRead, send, mark, received, emitted>>
  PROVE  TypeOK' /\ ChatInv'
<1>0. /\ members' = members /\ messages' = messages /\ lastSeq' = lastSeq /\ lock' = lock
      /\ lastRead' = lastRead /\ mark' = mark /\ send' = send
      /\ received' = received /\ emitted' = emitted
  OBVIOUS
<1>1. /\ client' \in [Readers -> Window] /\ client'[u] = window
      /\ \A v \in Readers : v # u => client'[v] = client[v]
  BY DEF TypeOK, Show
<1>2. messages' \subseteq MessageRow /\ members' \subseteq Users
  BY <1>0 DEF TypeOK
<1>3. /\ visible' \in [Users -> SUBSET Nat]
      /\ \A v \in Users : v \in members' => Committed' \subseteq visible'[v]
  BY <1>2, Observed
<1>4. TypeOK'
  BY <1>0, <1>1, <1>3 DEF TypeOK
<1>5. SendInv' /\ NumbersInv'
  <2>1. \A t \in Handlers : Knows(send[t])'
    BY <1>0, SameRoom DEF ChatInv, SendInv
  <2> QED BY <1>0, <2>1, SameRoom
          DEF ChatInv, SendInv, LockInv, InTransaction, BroadcastsDiffer, Broadcasts
<1>6. SightInv'
  <2>1. Committed' = Committed /\ u \in Users
    BY <1>0, SameRoom, ChatAssumption
  <2>2. \A v \in Readers : client'[v].seen \subseteq client[v].seen \cup visible'[v]
    BY <1>0, <1>1, <1>3, <2>1
  <2> QED BY <1>0, <1>2, <2>2, SightStep DEF ChatInv
<1>7. CursorInv' /\ WindowInv'
  <2>1. \A v \in Readers : client'[v].after <= lastSeq /\ NoHoles(client'[v])
    BY <1>1 DEF ChatInv, WindowInv
  <2> QED BY <1>0, <2>1, SameRoom DEF ChatInv, CursorInv, WindowInv
<1> QED BY <1>4, <1>5, <1>6, <1>7 DEF ChatInv


\* The newest page: its lower and upper ends, and everything if there is no more.
LEMMA OpenInv ==
  ASSUME TypeOK, ChatInv, NEW u \in Readers, OpenRoom(u)
  PROVE  TypeOK' /\ ChatInv'
<1> DEFINE page == Highest(Readable)
           window == [opened |-> TRUE, seen |-> page, done |-> ~HasMore(Readable),
                      before |-> IF page = {} THEN 0 ELSE Min(page),
                      after  |-> IF page = {} THEN 0 ELSE Max(page)]
<1>1. /\ Show(u, window) /\ u \in members /\ Observe
      /\ UNCHANGED <<members, messages, lastSeq, lock, lastRead, send, mark, received, emitted>>
  BY DEF OpenRoom, MayRead, roomVars
<1>2. /\ Readable \in SUBSET UpTo(lastSeq) /\ lastSeq \in Nat /\ Readable \subseteq Committed
      /\ \A q \in Readable : q >= 1
  BY ReadableBound DEF ChatInv, Readable
<1>3. /\ page \subseteq Readable /\ (Readable # {} => page # {})
      /\ \A p \in page, q \in Readable : q >= p => q \in page
      /\ ~HasMore(Readable) => page = Readable
  BY <1>2, HighestIsPage
<1> HIDE DEF page
<1>4. page \in SUBSET UpTo(lastSeq) /\ page \in SUBSET Nat
  <2>1. page \in SUBSET UpTo(lastSeq)
    BY <1>2, <1>3
  <2> QED BY <2>1 DEF UpTo
<1>5. page # {} => /\ Min(page) \in page /\ \A y \in page : Min(page) <= y
                   /\ Max(page) \in page /\ \A y \in page : Max(page) >= y
  BY <1>2, <1>4, MinIsLeast, MaxIsGreatest DEF UpTo
<1>6. /\ window.opened /\ window.seen = page /\ window.done = ~HasMore(Readable)
      /\ window.before = IF page = {} THEN 0 ELSE Min(page)
      /\ window.after = IF page = {} THEN 0 ELSE Max(page)
  OBVIOUS
<1>7. window \in Window
  BY <1>4, <1>5 DEF Window
<1> HIDE DEF window
<1>8. window.after <= lastSeq /\ window.seen \subseteq client[u].seen \cup Committed
  BY <1>2, <1>3, <1>4, <1>5, <1>6 DEF UpTo
<1>9. NoHoles(window)
  BY <1>2, <1>3, <1>4, <1>5, <1>6 DEF NoHoles
<1> QED BY <1>1, <1>7, <1>8, <1>9, WindowStep

\* A page downwards.
LEMMA OlderInv ==
  ASSUME TypeOK, ChatInv, NEW u \in Readers, listMessagesBefore(u)
  PROVE  TypeOK' /\ ChatInv'
<1> DEFINE older == Older(client[u].before)
           page == Highest(older)
           window == [client[u] EXCEPT
             !.seen = @ \cup page, !.done = ~HasMore(older),
             !.before = IF page = {} THEN @ ELSE Min(page)]
<1>1. /\ Show(u, window) /\ u \in members /\ client[u].opened /\ ~client[u].done /\ Observe
      /\ UNCHANGED <<members, messages, lastSeq, lock, lastRead, send, mark, received, emitted>>
  BY DEF listMessagesBefore, MayRead, roomVars
<1>2. /\ Readable \in SUBSET UpTo(lastSeq) /\ lastSeq \in Nat /\ Readable \subseteq Committed
  BY ReadableBound DEF ChatInv, Readable
<1>3. client[u] \in Window /\ client[u].after <= lastSeq /\ NoHoles(client[u])
  BY DEF TypeOK, ChatInv, WindowInv
<1>4. older = {q \in Readable : q < client[u].before} /\ older \in SUBSET UpTo(lastSeq)
  BY <1>2 DEF Older
<1> HIDE DEF older
<1>5. /\ page \subseteq older /\ (older # {} => page # {})
      /\ \A p \in page, q \in older : q >= p => q \in page
      /\ ~HasMore(older) => page = older
  BY <1>2, <1>4, HighestIsPage
<1>6. page \in SUBSET Nat
  BY <1>4, <1>5 DEF UpTo
<1> HIDE DEF page
<1>7. page # {} => Min(page) \in page /\ \A y \in page : Min(page) <= y
  BY <1>6, MinIsLeast
<1>8. /\ window.opened = client[u].opened /\ window.seen = client[u].seen \cup page
      /\ window.done = ~HasMore(older) /\ window.after = client[u].after
      /\ window.before = IF page = {} THEN client[u].before ELSE Min(page)
  BY <1>3 DEF Window
<1>9. window \in Window
  BY <1>3, <1>6, <1>7 DEF Window
<1> HIDE DEF window
<1>10. window.after <= lastSeq /\ window.seen \subseteq client[u].seen \cup Committed
  BY <1>2, <1>3, <1>4, <1>5, <1>8
<1>11. NoHoles(window)
  <2> SUFFICES ASSUME NEW q \in Readable, q <= window.after, window.done \/ q >= window.before
               PROVE  q \in window.seen
    BY DEF NoHoles
  <2>1. q \in Nat /\ client[u].before \in Nat
    BY <1>2, <1>3 DEF UpTo, Window
  <2>2. CASE q >= client[u].before
    BY <1>1, <1>3, <1>8, <2>2 DEF NoHoles
  <2>3. CASE q < client[u].before
    <3>1. q \in older /\ page # {}
      BY <1>4, <1>5, <2>3
    <3> QED BY <1>5, <1>7, <1>8, <3>1
  <2> QED BY <2>1, <2>2, <2>3
<1> QED BY <1>1, <1>9, <1>10, <1>11, WindowStep

\* A page upwards.
LEMMA NewerInv ==
  ASSUME TypeOK, ChatInv, NEW u \in Readers, listMessagesAfter(u)
  PROVE  TypeOK' /\ ChatInv'
<1> DEFINE newer == Newer(client[u].after)
           page == Lowest(newer)
           window == [client[u] EXCEPT !.seen = @ \cup page, !.after = Max(page)]
<1>1. /\ Show(u, window) /\ u \in members /\ client[u].opened /\ newer # {} /\ Observe
      /\ UNCHANGED <<members, messages, lastSeq, lock, lastRead, send, mark, received, emitted>>
  BY DEF listMessagesAfter, MayRead, roomVars
<1>2. /\ Readable \in SUBSET UpTo(lastSeq) /\ lastSeq \in Nat /\ Readable \subseteq Committed
  BY ReadableBound DEF ChatInv, Readable
<1>3. client[u] \in Window /\ client[u].after <= lastSeq /\ NoHoles(client[u])
  BY DEF TypeOK, ChatInv, WindowInv
<1>4. newer = {q \in Readable : q > client[u].after} /\ newer \in SUBSET UpTo(lastSeq)
  BY <1>2 DEF Newer
<1> HIDE DEF newer
<1>5. /\ page \subseteq newer /\ page # {}
      /\ \A p \in page, q \in newer : q <= p => q \in page
  BY <1>1, <1>2, <1>4, LowestIsPage
<1>6. page \in SUBSET UpTo(lastSeq) /\ page \in SUBSET Nat
  BY <1>4, <1>5 DEF UpTo
<1> HIDE DEF page
<1>7. Max(page) \in page
  BY <1>2, <1>5, <1>6, MaxIsGreatest DEF UpTo
<1>8. /\ window.opened = client[u].opened /\ window.seen = client[u].seen \cup page
      /\ window.done = client[u].done /\ window.after = Max(page)
      /\ window.before = client[u].before
  BY <1>3 DEF Window
<1>9. window \in Window
  BY <1>3, <1>6, <1>7 DEF Window
<1> HIDE DEF window
<1>10. window.after <= lastSeq /\ window.seen \subseteq client[u].seen \cup Committed
  <2>1. Max(page) \in UpTo(lastSeq)
    BY <1>6, <1>7
  <2>2. Max(page) <= lastSeq
    BY <2>1 DEF UpTo
  <2> QED BY <1>2, <1>4, <1>5, <1>8, <2>2
<1>11. NoHoles(window)
  <2> SUFFICES ASSUME NEW q \in Readable, q <= window.after, window.done \/ q >= window.before
               PROVE  q \in window.seen
    BY DEF NoHoles
  <2>1. q \in Nat /\ client[u].after \in Nat
    BY <1>2, <1>3 DEF UpTo, Window
  <2>2. CASE q <= client[u].after
    BY <1>1, <1>3, <1>8, <2>2 DEF NoHoles
  <2>3. CASE q > client[u].after
    BY <1>4, <1>5, <1>7, <1>8, <2>3
  <2> QED BY <2>1, <2>2, <2>3
<1> QED BY <1>1, <1>9, <1>10, <1>11, WindowStep

-----------------------------------------------------------------------------
(* Read state, membership, moderation.                                     *)

\* A step that touches the read state only, and moves no cursor back.
LEMMA CursorStep ==
  ASSUME TypeOK, ChatInv, Observe,
         mark' \in [Marks -> {NoMark} \cup MarkRow], lastRead' \in [Users -> Nat],
         \A u \in Users : lastRead'[u] <= lastSeq,
         \A r \in Marks : mark'[r].stage = "row" => mark'[r].snapshot <= lastSeq,
         UNCHANGED <<members, messages, lastSeq, lock, send, client, received, emitted>>
  PROVE  TypeOK' /\ ChatInv'
<1>0. /\ members' = members /\ messages' = messages /\ lastSeq' = lastSeq /\ lock' = lock
      /\ send' = send /\ client' = client /\ received' = received /\ emitted' = emitted
  OBVIOUS
<1>1. messages' \subseteq MessageRow /\ members' \subseteq Users
  BY <1>0 DEF TypeOK
<1>2. visible' \in [Users -> SUBSET Nat]
  BY <1>1, Observed
<1>3. TypeOK'
  BY <1>0, <1>2 DEF TypeOK, MarkRow
<1>4. \A t \in Handlers : Knows(send[t])'
  BY <1>0, SameRoom DEF ChatInv, SendInv
<1>5. SendInv' /\ NumbersInv' /\ WindowInv'
  BY <1>0, <1>4, SameRoom DEF ChatInv, SendInv, LockInv, InTransaction, BroadcastsDiffer,
                              Broadcasts, WindowInv
<1>6. SightInv'
  BY <1>0, <1>1, SightStep DEF ChatInv
<1>7. CursorInv'
  BY <1>0 DEF CursorInv
<1> QED BY <1>3, <1>5, <1>6, <1>7 DEF ChatInv

LEMMA MarkFacts ==
  ASSUME TypeOK, ChatInv
  PROVE  /\ mark \in [Marks -> {NoMark} \cup MarkRow] /\ lastRead \in [Users -> Nat]
         /\ lastSeq \in Nat /\ \A u \in Users : lastRead[u] <= lastSeq
         /\ \A r \in Marks : mark[r].stage = "row" => mark[r].snapshot <= lastSeq
         /\ \A r \in Marks : mark[r].stage # "idle" => mark[r] \in MarkRow
BY DEF TypeOK, ChatInv, CursorInv, MarkRow, NoMark

LEMMA AdvanceInv ==
  ASSUME TypeOK, ChatInv, NEW r \in Marks, NEW u \in Users, NEW seq \in 0 .. lastSeq + 1,
         advanceReadState(r, u, seq)
  PROVE  TypeOK' /\ ChatInv'
<1> DEFINE row == [stage |-> "update", user |-> u, seq |-> seq, snapshot |-> 0]
<1>1. /\ mark' = [mark EXCEPT ![r] = row] /\ Observe /\ lastRead' = lastRead
      /\ UNCHANGED <<members, messages, lastSeq, lock, send, client, received, emitted>>
  BY DEF advanceReadState, roomVars
<1>2. row \in MarkRow /\ row.stage = "update"
  BY MarkFacts DEF MarkRow
<1> HIDE DEF row
<1> QED BY <1>1, <1>2, MarkFacts, CursorStep

LEMMA SnapshotInv ==
  ASSUME TypeOK, ChatInv, NEW r \in Marks, ReadLastSeq(r)
  PROVE  TypeOK' /\ ChatInv'
<1> DEFINE row == [mark[r] EXCEPT !.stage = "row", !.snapshot = lastSeq]
<1>1. /\ mark' = [mark EXCEPT ![r] = row] /\ Observe /\ lastRead' = lastRead
      /\ mark[r].stage = "update"
      /\ UNCHANGED <<members, messages, lastSeq, lock, send, client, received, emitted>>
  BY MarkFacts DEF ReadLastSeq, roomVars
<1>2. row \in MarkRow /\ row.snapshot = lastSeq
  BY <1>1, MarkFacts DEF MarkRow
<1> HIDE DEF row
<1>3. \A q \in Marks : mark'[q].stage = "row" => mark'[q].snapshot <= lastSeq
  BY <1>1, <1>2, MarkFacts
<1>4. mark' \in [Marks -> {NoMark} \cup MarkRow]
  BY <1>1, <1>2, MarkFacts
<1> QED BY <1>1, <1>3, <1>4, MarkFacts, CursorStep

\* Where the cursors go when a read-state update is written.
LEMMA WriteFacts ==
  ASSUME TypeOK, ChatInv, NEW r \in Marks, WriteReadState(r)
  PROVE  /\ lastRead' \in [Users -> Nat]
         /\ \A u \in Users : lastRead[u] <= lastRead'[u] /\ lastRead'[u] <= lastSeq
<1> DEFINE u == mark[r].user
           new == AdvancedTo(lastRead[u], mark[r].seq, mark[r].snapshot)
<1>1. /\ mark[r].stage = "row" /\ mark[r] \in MarkRow /\ mark[r].snapshot <= lastSeq
      /\ lastRead' = IF u \in members THEN [lastRead EXCEPT ![u] = new] ELSE lastRead
  BY MarkFacts DEF WriteReadState
<1>2. u \in Users /\ mark[r].seq \in Nat /\ mark[r].snapshot \in Nat /\ lastRead[u] \in Nat
      /\ lastRead[u] <= lastSeq /\ lastSeq \in Nat
  BY <1>1, MarkFacts DEF MarkRow
<1>3. new \in Nat /\ lastRead[u] <= new /\ new <= lastSeq
  BY <1>1, <1>2, AdvanceBounds
<1> HIDE DEF new
<1> QED BY <1>1, <1>2, <1>3, MarkFacts

LEMMA WriteInv ==
  ASSUME TypeOK, ChatInv, NEW r \in Marks, WriteReadState(r)
  PROVE  TypeOK' /\ ChatInv'
<1>1. /\ mark' = [mark EXCEPT ![r] = NoMark] /\ Observe
      /\ UNCHANGED <<members, messages, lastSeq, lock, send, client, received, emitted>>
  BY DEF WriteReadState
<1>2. NoMark.stage = "idle"
  BY DEF NoMark
<1>3. \A q \in Marks : mark'[q].stage = "row" => mark'[q].snapshot <= lastSeq
  BY <1>1, <1>2, MarkFacts
<1>4. mark' \in [Marks -> {NoMark} \cup MarkRow]
  BY <1>1, MarkFacts
<1> QED BY <1>1, <1>3, <1>4, WriteFacts, CursorStep

LEMMA MembershipInv ==
  ASSUME TypeOK, ChatInv, NEW u \in Users, activateEventMember(u) \/ deactivateEventMember(u)
  PROVE  TypeOK' /\ ChatInv'
<1>1. /\ members' \subseteq Users /\ Observe
      /\ messages' = messages /\ lastSeq' = lastSeq /\ lock' = lock /\ send' = send
      /\ lastRead' = lastRead /\ mark' = mark /\ client' = client
      /\ received' = received /\ emitted' = emitted
  BY DEF activateEventMember, deactivateEventMember, TypeOK
<1>2. messages' \subseteq MessageRow
  BY <1>1 DEF TypeOK
<1>3. visible' \in [Users -> SUBSET Nat]
  BY <1>1, <1>2, Observed
<1>4. TypeOK'
  BY <1>1, <1>3 DEF TypeOK
<1>5. \A t \in Handlers : Knows(send[t])'
  BY <1>1, SameRoom DEF ChatInv, SendInv
<1>6. SendInv' /\ NumbersInv' /\ WindowInv' /\ CursorInv'
  BY <1>1, <1>5, SameRoom DEF ChatInv, SendInv, LockInv, InTransaction, BroadcastsDiffer,
                              Broadcasts, WindowInv, CursorInv
<1>7. SightInv'
  BY <1>1, <1>2, SightStep DEF ChatInv
<1> QED BY <1>4, <1>6, <1>7 DEF ChatInv

\* Moderation hides a message and keeps its number and its id taken.
LEMMA DeleteInv ==
  ASSUME TypeOK, ChatInv, NEW m \in messages, SoftDelete(m)
  PROVE  TypeOK' /\ ChatInv'
<1> DEFINE gone == [m EXCEPT !.deleted = TRUE]
<1>1. /\ messages' = (messages \ {m}) \cup {gone} /\ Observe
      /\ members' = members /\ lastSeq' = lastSeq /\ lock' = lock /\ send' = send
      /\ lastRead' = lastRead /\ mark' = mark /\ client' = client
      /\ received' = received /\ emitted' = emitted
  BY DEF SoftDelete
<1>2. /\ gone \in MessageRow /\ gone.seq = m.seq /\ gone.user = m.user /\ gone.id = m.id
      /\ gone.deleted
  BY DEF TypeOK, MessageRow
<1> HIDE DEF gone
<1>3. messages' \subseteq MessageRow /\ members' \subseteq Users
  BY <1>1, <1>2 DEF TypeOK
<1>4. visible' \in [Users -> SUBSET Nat]
  BY <1>1, <1>3, Observed
<1>5. TypeOK'
  BY <1>1, <1>3, <1>4 DEF TypeOK
<1>6. Committed' = Committed /\ Deleted \subseteq Deleted'
  <2>1. \A n \in messages : \E k \in messages' : k.seq = n.seq /\ (n.deleted => k.deleted)
    BY <1>1, <1>2
  <2>2. \A k \in messages' : \E n \in messages : k.seq = n.seq
    BY <1>1, <1>2
  <2> QED BY <2>1, <2>2 DEF Committed, Deleted
<1>7. Readable' \subseteq Readable
  BY <1>6 DEF Readable
<1>8. SendInv'
  <2>1. ASSUME NEW t \in Handlers PROVE Knows(send[t])'
    <3>1. SentAs(send[t].user, send[t].id) = {} =>
            {n \in messages' : n.user = send[t].user /\ n.id = send[t].id} = {}
      BY <1>1, <1>2 DEF SentAs
    <3>2. Knows(send[t])
      BY DEF ChatInv, SendInv
    <3> QED BY <1>1, <3>1, <3>2 DEF Knows, Broadcasts, SentAs
  <2> QED BY <1>1, <2>1
          DEF ChatInv, SendInv, LockInv, InTransaction, BroadcastsDiffer, Broadcasts
<1>9. NumbersInv'
  <2>1. \A a, b \in messages' : a.seq = b.seq => a = b
    BY <1>1, <1>2 DEF ChatInv, NumbersInv
  <2>2. StoredOnce'
    BY <1>1, <1>2 DEF ChatInv, NumbersInv, StoredOnce
  <2> QED BY <1>1, <1>6, <2>1, <2>2 DEF ChatInv, NumbersInv
<1>10. SightInv'
  BY <1>1, <1>3, SightStep DEF ChatInv
<1>11. CursorInv' /\ WindowInv'
  BY <1>1, <1>7 DEF ChatInv, CursorInv, WindowInv, NoHoles
<1> QED BY <1>5, <1>8, <1>9, <1>10, <1>11 DEF ChatInv

-----------------------------------------------------------------------------
(* Theorems.                                                               *)

LEMMA StutterInv == TypeOK /\ ChatInv /\ UNCHANGED vars => TypeOK' /\ ChatInv'
<1> SUFFICES ASSUME TypeOK, ChatInv, UNCHANGED vars PROVE TypeOK' /\ ChatInv'
  OBVIOUS
<1>1. /\ members' = members /\ messages' = messages /\ lastSeq' = lastSeq /\ lock' = lock
      /\ send' = send /\ lastRead' = lastRead /\ mark' = mark /\ client' = client
      /\ received' = received /\ emitted' = emitted /\ visible' = visible
  BY DEF vars
<1>2. TypeOK'
  BY <1>1 DEF TypeOK
<1>3. \A t \in Handlers : Knows(send[t])'
  BY <1>1, SameRoom DEF ChatInv, SendInv
<1>4. SendInv' /\ NumbersInv' /\ WindowInv' /\ CursorInv'
  BY <1>1, <1>3, SameRoom DEF ChatInv, SendInv, LockInv, InTransaction, BroadcastsDiffer,
                              Broadcasts, WindowInv, CursorInv
<1>5. SightInv'
  BY <1>1, SameRoom DEF ChatInv, SightInv
<1> QED BY <1>2, <1>4, <1>5 DEF ChatInv

LEMMA InvNext == TypeOK /\ ChatInv /\ [Next]_vars => TypeOK' /\ ChatInv'
<1> SUFFICES ASSUME TypeOK, ChatInv, [Next]_vars PROVE TypeOK' /\ ChatInv'
  OBVIOUS
<1>1. ASSUME NEW s \in Handlers, lockRoom(s) \/ Transact(s) \/ Abort(s)
      PROVE  TypeOK' /\ ChatInv'
  <2>1. Abort(s) => TypeOK' /\ ChatInv'
    BY EndSend DEF Abort
  <2> QED BY <1>1, <2>1, LockInvStep, CheckInv, InsertInv, CommitInv, TargetsInv, EmitInv
          DEF Transact
<1>2. ASSUME NEW u \in Readers, Page(u) PROVE TypeOK' /\ ChatInv'
  BY <1>2, OpenInv, OlderInv, NewerInv DEF Page
<1>3. ASSUME NEW r \in Marks, MarkStep(r) PROVE TypeOK' /\ ChatInv'
  BY <1>3, SnapshotInv, WriteInv DEF MarkStep
<1> QED BY <1>1, <1>2, <1>3, StutterInv, RequestInv, AdvanceInv, MembershipInv, DeleteInv DEF Next

LEMMA Invariance == Spec => [](TypeOK /\ ChatInv)
BY InvInit, InvNext, PTL DEF Spec

\* However often and however concurrently a message is sent, whatever fails in
\* between: one row for its id, and one broadcast.
THEOREM MessagesAreSentOnce == Spec => []SentOnce
<1>1. TypeOK /\ ChatInv => SentOnce
  BY DEF SentOnce, ChatInv, NumbersInv, SendInv, EmittedAtMostOnce, Knows, Broadcasts,
         BroadcastsDiffer
<1> QED BY Invariance, <1>1, PTL

\* The messages are numbered without a gap, and the badge of the inbox, a
\* difference of two numbers, is the number of messages past the cursor.
THEOREM NumbersHaveNoGaps == Spec => []SeqIsGapless
<1>1. TypeOK /\ ChatInv => SeqIsGapless
  <2> SUFFICES ASSUME TypeOK, ChatInv, NEW u \in Users
               PROVE  Unread(u) = Cardinality({m \in messages : m.seq > lastRead[u]})
    BY DEF SeqIsGapless, ChatInv, NumbersInv
  <2> DEFINE a == lastRead[u] + 1
             S == a .. lastSeq
             T == {m \in messages : m.seq > lastRead[u]}
             f == [q \in S |-> CHOOSE m \in messages : m.seq = q]
  <2>1. lastRead[u] \in Nat /\ lastSeq \in Nat /\ lastRead[u] <= lastSeq
    BY DEF TypeOK, ChatInv, CursorInv
  <2>2. /\ Committed = 1 .. lastSeq
        /\ \A m, n \in messages : m.seq = n.seq => m = n
    BY DEF ChatInv, NumbersInv
  <2>3. \A q \in S : f[q] \in messages /\ f[q].seq = q
    <3> SUFFICES ASSUME NEW q \in S PROVE f[q] \in messages /\ f[q].seq = q
      OBVIOUS
    <3>1. q \in Committed
      BY <2>1, <2>2
    <3>2. \E m \in messages : m.seq = q
      BY <3>1 DEF Committed
    <3> QED BY <3>2
  <2>4. \A m \in T : m.seq \in S
    <3>1. \A m \in messages : m.seq \in 1 .. lastSeq
      BY <2>2 DEF Committed
    <3> QED BY <2>1, <3>1
  <2>5. f \in Bijection(S, T)
    <3>1. f \in [S -> T]
      <4>1. \A q \in S : q > lastRead[u]
        BY <2>1
      <4>2. \A q \in S : f[q] \in T
        BY <2>3, <4>1
      <4> HIDE DEF T
      <4> QED BY <4>2
    <3>2. \A q, r \in S : f[q] = f[r] => q = r
      BY <2>3
    <3>3. \A m \in T : f[m.seq] = m
      BY <2>2, <2>3, <2>4
    <3>4. \A m \in T : \E q \in S : f[q] = m
      BY <2>4, <3>3
    <3> HIDE DEF f, S, T
    <3> QED BY <3>1, <3>2, <3>4 DEF Bijection, Injection, Surjection, IsInjective
  <2>6. IsFiniteSet(S) /\ Cardinality(S) = lastSeq - lastRead[u]
    <3>1. a \in Int /\ lastSeq \in Int
      BY <2>1
    <3>2. /\ IsFiniteSet(S)
          /\ Cardinality(S) = IF a > lastSeq THEN 0 ELSE lastSeq - a + 1
      <4> HIDE DEF a
      <4> QED BY <3>1, FS_Interval
    <3> HIDE DEF S
    <3> QED BY <2>1, <3>2
  <2>7. Cardinality(T) = Cardinality(S)
    <3> HIDE DEF f, S, T
    <3> QED BY <2>5, <2>6, FS_Bijection DEF ExistsBijection
  <2>8. Unread(u) = lastSeq - lastRead[u]
    BY <2>1, TwoNumbers DEF Unread
  <2> QED BY <2>6, <2>7, <2>8
<1> QED BY Invariance, <1>1, PTL

\* What may reach a user only grows while they are a member.
OnlyMembersSeeMore == \A u \in Users : u \notin members' => visible'[u] = visible[u]

\* Nobody is shown, on any channel, a message that was sent after their
\* membership ended, although the targets of a broadcast are read long before
\* it is emitted: what reached a user was in the room while they were a member,
\* and nothing sent while they are none is added to that.
THEOREM MembersOnly == Spec => []NothingAfterMembership /\ [][OnlyMembersSeeMore]_vars
<1>0. [Next]_vars => OnlyMembersSeeMore
  <2>1. Observe => OnlyMembersSeeMore
    BY DEF Observe, OnlyMembersSeeMore
  <2>2. UNCHANGED vars => OnlyMembersSeeMore
    BY DEF vars, OnlyMembersSeeMore
  <2>3. Next => Observe
    BY DEF Next, Request, lockRoom, Transact, assertActiveMember, findByClientMessageId,
           insertMessage, Commit, broadcastToActiveMembers, emitToUsers, Abort, Page, OpenRoom,
           listMessagesBefore, listMessagesAfter, advanceReadState, MarkStep, ReadLastSeq,
           WriteReadState, activateEventMember, deactivateEventMember, SoftDelete
  <2> QED BY <2>1, <2>2, <2>3
<1>1. TypeOK /\ ChatInv => NothingAfterMembership
  <2> SUFFICES ASSUME TypeOK, ChatInv PROVE NothingAfterMembership
    OBVIOUS
  <2>1. ASSUME NEW u \in Users, InboxRows(u) # {} PROVE Preview \subseteq visible[u]
    <3>1. u \in members /\ Committed \subseteq visible[u]
      BY <2>1 DEF InboxRows, ChatInv, SightInv
    <3>2. Readable # {} => Max(Readable) \in Readable
      BY ReadableBound, MaxIsGreatest DEF UpTo, ChatInv
    <3> QED BY <3>1, <3>2 DEF Preview, Readable
  <2>2. \A u \in Users : getPresenceSnapshot(u) = {} <=> u \notin members
    BY DEF getPresenceSnapshot, getActiveMemberIds, MayRead
  <2> QED BY <2>1, <2>2 DEF NothingAfterMembership, ChatInv, SightInv
<1> QED BY Invariance, <1>0, <1>1, PTL DEF Spec

\* The pages of a reader fit together whatever is sent or deleted between them.
THEOREM PagesFitTogether == Spec => []PagesHaveNoHoles
<1>1. TypeOK /\ ChatInv => PagesHaveNoHoles
  BY DEF ChatInv, WindowInv, NoHoles, PagesHaveNoHoles
<1> QED BY Invariance, <1>1, PTL

\* No read-state update, late, repeated or concurrent, moves a cursor back or
\* past the room.
THEOREM CursorsMoveForward == Spec => ReadCursorIsSound
<1> DEFINE Forward ==
      \A u \in Users : lastRead[u] <= lastRead'[u] /\ lastRead'[u] <= lastSeq'
<1>1. TypeOK /\ ChatInv /\ [Next]_vars => [Forward]_vars
  <2> SUFFICES ASSUME TypeOK, ChatInv, Next PROVE Forward
    BY DEF vars
  <2>1. \A u \in Users : lastRead[u] \in Nat /\ lastRead[u] <= lastSeq
    BY DEF TypeOK, ChatInv, CursorInv
  <2>2. CursorInv'
    BY InvNext DEF ChatInv
  <2>3. CASE \E r \in Marks : WriteReadState(r)
    BY <2>2, <2>3, WriteFacts DEF CursorInv
  <2>4. CASE lastRead' = lastRead
    BY <2>1, <2>2, <2>4 DEF CursorInv
  <2> QED BY <2>3, <2>4
          DEF Next, Request, lockRoom, Transact, assertActiveMember, findByClientMessageId,
              insertMessage, Commit, broadcastToActiveMembers, emitToUsers, Abort, Page,
              OpenRoom, listMessagesBefore, listMessagesAfter, advanceReadState, MarkStep,
              ReadLastSeq, activateEventMember, deactivateEventMember, SoftDelete, roomVars
<1>2. ReadCursorIsSound <=> [][Forward]_vars
  BY DEF ReadCursorIsSound
<1> QED BY Invariance, <1>1, <1>2, PTL DEF Spec
=============================================================================
