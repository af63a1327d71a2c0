-------------------------------- MODULE Chat --------------------------------
(***************************************************************************)
(* One chat room: sending with retries, delivery to the members' sockets,  *)
(* history and recovery pages, read state, and a membership that changes   *)
(* under all of them.                                                      *)
(*                                                                         *)
(* ChatRepository serialises the senders of a room on the chat_rooms row;  *)
(* membership changes take no such lock, so a send is modelled statement   *)
(* by statement.  A page is one statement (authorization and messages in   *)
(* one SELECT) and one action.  What a transaction wrote is seen by others *)
(* once it committed.                                                      *)
(***************************************************************************)
EXTENDS Integers, FiniteSets, FiniteSetsExt

CONSTANTS
  Users,       \* accounts that are, were or may become members
  ClientIds,   \* clientMessageId values a sender may use
  Handlers,    \* POST messages requests being served at a time
  NoHandler, NoUser, NoId,
  Marks,       \* PUT read-state requests being served at a time
  Readers,     \* users whose client pages through the room
  RoomType,    \* chat_rooms.type
  Limit        \* page size

ASSUME ChatAssumption ==
  /\ NoHandler \notin Handlers
  /\ NoUser \notin Users
  /\ NoId \notin ClientIds
  /\ Readers \subseteq Users
  /\ Limit \in Nat \ {0}
  /\ RoomType \in {"MATCH", "EVENT", "PROVIDER_INQUIRY"}

VARIABLES
  members,     \* chat_members with left_at IS NULL
  messages,    \* the committed rows of messages
  lastSeq,     \* chat_rooms.last_seq
  lock,        \* the transaction holding the chat_rooms row
  send,        \* the send each handler is serving
  lastRead,    \* chat_members.last_read_seq
  mark,        \* the read-state update each handler is serving
  client,      \* the window of messages a reader's client has paged in
  received,    \* messages that reached a user's sockets
  emitted,     \* messages handed to Socket.IO so far
  visible      \* history: what was committed while the user was a member

vars == <<members, messages, lastSeq, lock, send, lastRead, mark, client,
          received, emitted, visible>>

roomVars == <<members, messages, lastSeq, lock, lastRead>>

Committed == {m.seq : m \in messages}
Deleted == {m.seq : m \in {n \in messages : n.deleted}}
Readable == Committed \ Deleted

NoSend == [stage |-> "idle", user |-> NoUser, id |-> NoId, seq |-> 0, targets |-> {}]
NoMark == [stage |-> "idle", user |-> NoUser, seq |-> 0, snapshot |-> 0]

\* opened: the first page was shown; before .. after is the window; done:
\* the server said there is nothing older.
NoWindow == [opened |-> FALSE, before |-> 0, after |-> 0, done |-> FALSE, seen |-> {}]

\* Every action ends with what members may see of the room it leaves.
Observe ==
  visible' = [u \in Users |->
    visible[u] \cup IF u \in members' THEN {m.seq : m \in messages'} ELSE {}]

Step(s, row) == send' = [send EXCEPT ![s] = row]
Goto(s, stage) == Step(s, [send[s] EXCEPT !.stage = stage])
Is(s, stage) == send[s].stage = stage

-----------------------------------------------------------------------------
(* POST /v1/chat/rooms/:roomId/messages.                                   *)

\* A request arrives: a first attempt or a retry with the same id, also while
\* the first attempt is still being served.
Request(s, u, c) ==
  /\ Is(s, "idle")
  /\ Step(s, [NoSend EXCEPT !.stage = "lock", !.user = u, !.id = c])
  /\ UNCHANGED <<roomVars, mark, client, received, emitted>>
  /\ Observe

\* Mutant: the room is only looked up, without FOR UPDATE.
lockRoom_Unlocked(s) ==
  /\ Is(s, "lock")
  /\ Goto(s, "member")
  /\ UNCHANGED <<roomVars, mark, client, received, emitted>>
  /\ Observe

\* SELECT ... FOR UPDATE on the room.
lockRoom(s) ==
  /\ Is(s, "lock") /\ lock = NoHandler
  /\ lock' = s
  /\ Goto(s, "member")
  /\ UNCHANGED <<members, messages, lastSeq, lastRead, mark, client, received, emitted>>
  /\ Observe

Released(s) == IF lock = s THEN NoHandler ELSE lock

\* The room of a stranger is "not found" and the transaction rolls back.
assertActiveMember(s) ==
  /\ Is(s, "member")
  /\ \/ /\ send[s].user \in members
        /\ Goto(s, "lookup")
        /\ UNCHANGED lock
     \/ /\ send[s].user \notin members
        /\ Step(s, NoSend)
        /\ lock' = Released(s)
  /\ UNCHANGED <<members, messages, lastSeq, lastRead, mark, client, received, emitted>>
  /\ Observe

\* The rows of a clientMessageId, deleted ones included.
SentAs(u, c) == {m \in messages : m.user = u /\ m.id = c}

\* Mutant: the answer for a known id leaves the transaction open.
findByClientMessageId_Open(s) ==
  /\ Is(s, "lookup")
  /\ IF SentAs(send[s].user, send[s].id) = {} THEN Goto(s, "insert") ELSE Step(s, NoSend)
  /\ UNCHANGED <<roomVars, mark, client, received, emitted>>
  /\ Observe

\* A known id ends the request with the existing message and created = false.
findByClientMessageId(s) ==
  /\ Is(s, "lookup")
  /\ \/ /\ SentAs(send[s].user, send[s].id) = {}
        /\ Goto(s, "insert")
        /\ UNCHANGED lock
     \/ /\ SentAs(send[s].user, send[s].id) # {}
        /\ Step(s, NoSend)
        /\ lock' = Released(s)
  /\ UNCHANGED <<members, messages, lastSeq, lastRead, mark, client, received, emitted>>
  /\ Observe

\* Mutant: the number comes from a sequence, which no rollback gives back.
insertMessage_NextVal(s) ==
  /\ Is(s, "insert") /\ lock \in {s, NoHandler}
  /\ lock' = s
  /\ lastSeq' = lastSeq + 1
  /\ Step(s, [send[s] EXCEPT !.stage = "commit", !.seq = lastSeq + 1])
  /\ UNCHANGED <<members, messages, lastRead, mark, client, received, emitted>>
  /\ Observe

\* The trigger's UPDATE takes the room's row lock, if nobody else has it, and
\* the next number.
insertMessage(s) ==
  /\ Is(s, "insert") /\ lock \in {s, NoHandler}
  /\ lock' = s
  /\ Step(s, [send[s] EXCEPT !.stage = "commit", !.seq = lastSeq + 1])
  /\ UNCHANGED <<members, messages, lastSeq, lastRead, mark, client, received, emitted>>
  /\ Observe

\* COMMIT; or it succeeds and the process dies before the next line.
Commit(s) ==
  /\ Is(s, "commit")
  /\ messages' = messages \cup
       {[seq |-> send[s].seq, user |-> send[s].user, id |-> send[s].id, deleted |-> FALSE]}
  /\ lastSeq' = send[s].seq
  /\ lock' = Released(s)
  /\ Goto(s, "targets") \/ Step(s, NoSend)
  /\ UNCHANGED <<members, lastRead, mark, client, received, emitted>>
  /\ Observe

\* The transaction fails and rolls back, or the handler dies later on.
Abort(s) ==
  /\ ~Is(s, "idle")
  /\ Step(s, NoSend)
  /\ lock' = Released(s)
  /\ UNCHANGED <<members, messages, lastSeq, lastRead, mark, client, received, emitted>>
  /\ Observe

\* getBroadcastTargets, and the room types that deliver at all.
BroadcastTargets == IF RoomType \in {"MATCH", "EVENT"} THEN members ELSE {}

broadcastToActiveMembers(s) ==
  /\ Is(s, "targets")
  /\ Step(s, [send[s] EXCEPT !.stage = "emit", !.targets = BroadcastTargets])
  /\ UNCHANGED <<roomVars, mark, client, received, emitted>>
  /\ Observe

\* One synchronous loop over the targets; each emit may fail by itself, and
\* reaches the sockets a user happens to have.
emitToUsers(s) ==
  /\ Is(s, "emit")
  /\ \E reached \in SUBSET send[s].targets :
       received' = [u \in Users |-> IF u \in reached THEN received[u] \cup {send[s].seq}
                                    ELSE received[u]]
  /\ emitted' = emitted \cup {send[s].seq}
  /\ Step(s, NoSend)
  /\ UNCHANGED <<roomVars, mark, client>>
  /\ Observe

-----------------------------------------------------------------------------
(* GET history and sync.                                                   *)

\* The first Limit of a set of numbers, from below or from above.
Lowest(seqs) == {q \in seqs : Cardinality({p \in seqs : p < q}) < Limit}
Highest(seqs) == {q \in seqs : Cardinality({p \in seqs : p > q}) < Limit}

\* Mutant: only Limit rows are fetched.
HasMore_NoExtra(seqs) == Min({Cardinality(seqs), Limit}) > Limit

\* One row more than the page is fetched to know whether there is more.
HasMore(seqs) == Cardinality(seqs) > Limit

Older(before) == {q \in Readable : q < before}
Newer(after) == {q \in Readable : q > after}

Show(u, window) == client' = [client EXCEPT ![u] = window]

\* Mutant: any row of chat_members authorizes.
MayRead_Former(u) == TRUE

\* The authorization is part of the statement that reads.
MayRead(u) == u \in members

\* listMessagesBefore without a cursor: the newest page.
OpenRoom(u) ==
  /\ MayRead(u) /\ ~client[u].opened
  /\ LET page == Highest(Readable)
     IN  Show(u, [opened |-> TRUE, seen |-> page, done |-> ~HasMore(Readable),
                  before |-> IF page = {} THEN 0 ELSE Min(page),
                  after  |-> IF page = {} THEN 0 ELSE Max(page)])
  /\ UNCHANGED <<roomVars, send, mark, received, emitted>>
  /\ Observe

listMessagesBefore(u) ==
  /\ MayRead(u) /\ client[u].opened /\ ~client[u].done
  /\ LET page == Highest(Older(client[u].before))
     IN  Show(u, [client[u] EXCEPT
           !.seen = @ \cup page, !.done = ~HasMore(Older(client[u].before)),
           !.before = IF page = {} THEN @ ELSE Min(page)])
  /\ UNCHANGED <<roomVars, send, mark, received, emitted>>
  /\ Observe

\* Mutant: LIMIT is applied before the deleted rows are filtered out.
listMessagesAfter_LimitFirst(u) ==
  /\ MayRead(u) /\ client[u].opened
  /\ LET page == Lowest({q \in Committed : q > client[u].after}) \ Deleted
     IN  /\ page # {}
         /\ Show(u, [client[u] EXCEPT !.seen = @ \cup page, !.after = Max(page)])
  /\ UNCHANGED <<roomVars, send, mark, received, emitted>>
  /\ Observe

listMessagesAfter(u) ==
  /\ MayRead(u) /\ client[u].opened
  /\ Newer(client[u].after) # {}
  /\ LET page == Lowest(Newer(client[u].after))
     IN  Show(u, [client[u] EXCEPT !.seen = @ \cup page, !.after = Max(page)])
  /\ UNCHANGED <<roomVars, send, mark, received, emitted>>
  /\ Observe

-----------------------------------------------------------------------------
(* PUT read-state.                                                         *)

advanceReadState(r, u, seq) ==
  /\ mark[r] = NoMark
  /\ u \in members
  /\ mark' = [mark EXCEPT ![r] = [stage |-> "update", user |-> u, seq |-> seq, snapshot |-> 0]]
  /\ UNCHANGED <<roomVars, send, client, received, emitted>>
  /\ Observe

\* The UPDATE reads last_seq with its snapshot and may then have to wait for
\* the member's row.
ReadLastSeq(r) ==
  /\ mark[r].stage = "update"
  /\ mark' = [mark EXCEPT ![r].stage = "row", ![r].snapshot = lastSeq]
  /\ UNCHANGED <<roomVars, send, client, received, emitted>>
  /\ Observe

\* Mutant: without GREATEST.
AdvancedTo_Latest(current, seq, last) == Min({seq, last})

AdvancedTo(current, seq, last) == Max({current, Min({seq, last})})

\* Once it has the row it checks left_at again; a member who left meanwhile
\* gets "not found".
WriteReadState(r) ==
  /\ mark[r].stage = "row"
  /\ LET u == mark[r].user
     IN  lastRead' = IF u \in members
                     THEN [lastRead EXCEPT ![u] = AdvancedTo(@, mark[r].seq, mark[r].snapshot)]
                     ELSE lastRead
  /\ mark' = [mark EXCEPT ![r] = NoMark]
  /\ UNCHANGED <<members, messages, lastSeq, lock, send, client, received, emitted>>
  /\ Observe

-----------------------------------------------------------------------------
(* GET inbox.                                                              *)

\* The rows start from the caller's active memberships.
InboxRows(u) == {u} \cap members

\* INBOX_SQL, one statement: the badge and the newest message not deleted.
Unread(u) == Max({lastSeq - lastRead[u], 0})
Preview == IF Readable = {} THEN {} ELSE {Max(Readable)}

\* One statement authorizes the requester and lists the members.
getActiveMemberIds(u) == IF MayRead(u) THEN members ELSE {}

\* GET presence: whom a member is told the presence of.
getPresenceSnapshot(u) == getActiveMemberIds(u)

-----------------------------------------------------------------------------
(* Around the chat: the membership and moderation.                         *)

\* Joining, leaving and rejoining an Event; the row and its last_read_seq stay.
activateEventMember(u) ==
  /\ RoomType = "EVENT" /\ u \notin members
  /\ members' = members \cup {u}
  /\ UNCHANGED <<messages, lastSeq, lock, send, lastRead, mark, client, received, emitted>>
  /\ Observe

deactivateEventMember(u) ==
  /\ RoomType = "EVENT" /\ u \in members
  /\ members' = members \ {u}
  /\ UNCHANGED <<messages, lastSeq, lock, send, lastRead, mark, client, received, emitted>>
  /\ Observe

\* Moderation sets deleted_at and keeps the row.
SoftDelete(m) ==
  /\ ~m.deleted
  /\ messages' = (messages \ {m}) \cup {[m EXCEPT !.deleted = TRUE]}
  /\ UNCHANGED <<members, lastSeq, lock, send, lastRead, mark, client, received, emitted>>
  /\ Observe

-----------------------------------------------------------------------------
Init ==
  /\ members \in IF RoomType = "EVENT" THEN SUBSET Users ELSE {Users}
  /\ messages = {}
  /\ lastSeq = 0
  /\ lock = NoHandler
  /\ send = [s \in Handlers |-> NoSend]
  /\ lastRead = [u \in Users |-> 0]
  /\ mark = [r \in Marks |-> NoMark]
  /\ client = [u \in Readers |-> NoWindow]
  /\ received = [u \in Users |-> {}]
  /\ emitted = {}
  /\ visible = [u \in Users |-> {}]

Transact(s) ==
  \/ assertActiveMember(s) \/ findByClientMessageId(s) \/ insertMessage(s) \/ Commit(s)
  \/ broadcastToActiveMembers(s) \/ emitToUsers(s)

Page(u) == OpenRoom(u) \/ listMessagesBefore(u) \/ listMessagesAfter(u)

MarkStep(r) == ReadLastSeq(r) \/ WriteReadState(r)

Next ==
  \/ \E s \in Handlers, u \in Users, c \in ClientIds : Request(s, u, c)
  \/ \E s \in Handlers : lockRoom(s) \/ Transact(s) \/ Abort(s)
  \/ \E u \in Readers : Page(u)
  \/ \E r \in Marks, u \in Users, seq \in 0 .. lastSeq + 1 : advanceReadState(r, u, seq)
  \/ \E r \in Marks : MarkStep(r)
  \/ \E u \in Users : activateEventMember(u) \/ deactivateEventMember(u)
  \/ \E m \in messages : SoftDelete(m)

Spec == Init /\ [][Next]_vars

\* Handlers go on, PostgreSQL grants a row lock in the order of the requests,
\* and an open client keeps paging.
LiveSpec ==
  /\ Spec
  /\ \A s \in Handlers : SF_vars(lockRoom(s)) /\ WF_vars(Transact(s))
  /\ \A u \in Readers : WF_vars(Page(u))

-----------------------------------------------------------------------------
(* Properties.                                                             *)

MessageRow == [seq : Nat, user : Users, id : ClientIds, deleted : BOOLEAN]

Window == [opened : BOOLEAN, before : Nat, after : Nat, done : BOOLEAN, seen : SUBSET Nat]

\* The types of the tables, the requests and the clients.
TypeOK ==
  /\ members \subseteq Users
  /\ messages \subseteq MessageRow
  /\ lastSeq \in Nat
  /\ lock \in Handlers \cup {NoHandler}
  /\ send \in [Handlers -> {NoSend} \cup
       [stage : {"lock", "member", "lookup", "insert", "commit", "targets", "emit"},
        user : Users, id : ClientIds, seq : Nat, targets : SUBSET Users]]
  /\ lastRead \in [Users -> Nat]
  /\ mark \in [Marks -> {NoMark} \cup
       [stage : {"update", "row"}, user : Users, seq : Nat, snapshot : Nat]]
  /\ client \in [Readers -> Window]
  /\ received \in [Users -> SUBSET Nat]
  /\ emitted \subseteq Nat
  /\ visible \in [Users -> SUBSET Nat]

\* "A concurrent retry can never race the trigger into consuming a sequence
\* for what turns out to be a duplicate": one message for one clientMessageId
\* of one sender, however often and concurrently it is sent, and whatever
\* moderation deleted in between; messages_client_dedupe_uk stays idle.
StoredOnce ==
  \A m, n \in messages : m.user = n.user /\ m.id = n.id => m = n

\* The numbers of the committed messages are 1 .. last_seq, each once, in
\* every state a reader can see: failed and repeated sends leave no gap, and
\* nothing is ever committed below a number that was readable before.  So the
\* badge of the inbox, a difference of two numbers, counts messages.
SeqIsGapless ==
  /\ Committed = 1 .. lastSeq
  /\ \A m, n \in messages : m.seq = n.seq => m = n
  /\ \A u \in Users : Unread(u) = Cardinality({m \in messages : m.seq > lastRead[u]})

\* "A clientMessageId retry must never cause a second realtime emit".
EmittedAtMostOnce ==
  \A s \in Handlers : send[s].stage \in {"targets", "emit"} =>
    /\ send[s].seq \notin emitted
    /\ \A t \in Handlers \ {s} :
         send[t].stage \in {"targets", "emit"} => send[t].seq # send[s].seq

\* However often a client sends it, a message is one row and one broadcast, and
\* tables, requests and clients keep their types.
SentOnce == TypeOK /\ StoredOnce /\ EmittedAtMostOnce

\* Nobody gets a message that was sent after their membership ended, by socket,
\* by page or as the preview of the inbox, until they are a member again: what
\* reached a user was in the room at a moment at which they were a member.
\* Whoever becomes a member, or becomes one again, may read what was sent
\* before.  And an empty presence snapshot means "not authorized", never an
\* empty room.
NothingAfterMembership ==
  /\ \A u \in Users : received[u] \subseteq visible[u]
  /\ \A u \in Readers : client[u].seen \subseteq visible[u]
  /\ \A u \in Users : InboxRows(u) # {} => Preview \subseteq visible[u]
  /\ \A u \in Users : getPresenceSnapshot(u) = {} <=> u \notin members

\* The pages a client has read form a window without holes: every message
\* from its lower to its upper cursor, all older ones included once the server
\* said there is nothing more, was shown or has been deleted, whatever was
\* sent or deleted between the pages.
PagesHaveNoHoles ==
  \A u \in Readers : client[u].opened =>
    \A q \in Readable :
      q <= client[u].after /\ (client[u].done \/ q >= client[u].before)
        => q \in client[u].seen

\* "newRead = GREATEST(currentRead, LEAST(requestedSeq, room.last_seq))":
\* concurrent and stale updates never move the cursor back or past the room,
\* so that unread = last_seq - last_read_seq is never negative.
ReadCursorIsSound ==
  [][\A u \in Users : lastRead[u] <= lastRead'[u] /\ lastRead'[u] <= lastSeq']_vars

\* A message that is not deleted reaches the pages of every reader who stays
\* a member, also when its broadcast failed or its sender's process died.
MembersCatchUp ==
  \A u \in Readers, q \in 1 .. Cardinality(Users) * Cardinality(ClientIds) :
    q \in Committed /\ u \in members
      ~> q \in client[u].seen \/ q \in Deleted \/ u \notin members

\* Every request is answered: whoever waits for the room gets it.
SendsAreAnswered == \A s \in Handlers : ~Is(s, "idle") ~> Is(s, "idle")
=============================================================================
