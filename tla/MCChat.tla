------------------------------- MODULE MCChat -------------------------------
(* Instances of Chat for TLC. *)
EXTENDS Chat, TLC

\* Request slots are interchangeable, and so are the ids a client makes up.
ChatSymmetry ==
  {h @@ m @@ c : h \in Permutations(Handlers), m \in Permutations(Marks),
                 c \in Permutations(ClientIds)}

\* What is going on in a state.
Serving == {s \in Handlers : ~Is(s, "idle")}
Present ==
  members \cup {u \in Users : visible[u] # {}} \cup {m.user : m \in messages}
    \cup {send[s].user : s \in Serving}
Ids == {send[s].id : s \in Serving} \cup {m.id : m \in messages}
Marking == {r \in Marks : mark[r] # NoMark}
Reading == {u \in Readers : client[u].opened}
Marked == {u \in Users : lastRead[u] > 0}

Load(present, ids, serving, marking, reading) ==
  /\ Present \subseteq present
  /\ Cardinality(Ids) <= ids
  /\ Cardinality(Serving) <= serving
  /\ Cardinality(Marking) <= marking /\ (marking = 0 => Marked = {})
  /\ Cardinality(Reading) <= reading

\* Each kind of traffic is explored on its own: concurrent sends of two users,
\* a reader while members come and go, paging through three messages, and
\* read-state updates of two devices (to which deletions make no difference).
Workload ==
  \/ Load(Users, 1, 2, 0, 0)
  \/ Load(Users, 1, 1, 0, 1)
  \/ Load(Readers, 3, 1, 0, 1)
  \/ Load(Readers, 2, 1, 2, 0) /\ Deleted = {}
=============================================================================
