------------------------------ MODULE LinkInv -------------------------------
(* The invariant the theorems on link groups and their synchronisation     *)
(* follow from.                                                             *)
EXTENDS LinkSync

Holding == {"create", "unlink"}

(* What a command has read and will write, and who holds the lock.          *)
CallOK(p, c) ==
    /\ c.at \in Holding <=> holder = p
    /\ c.at \in {"add", "create"} => c.keys \in Group
    /\ c.at = "create" => \A k \in c.keys : ~Linked(k)
    /\ c.at = "unlink" => c.todo \in groups
    /\ c.at = "read" => c.unread # {}
    /\ c.at \in {"look", "write"} =>
          /\ c.todo # {} /\ c.unread = {}
          /\ c.todo \subseteq Raised(c.read) \cup Closing(c.read)

(* A sync that only syncs overlap has read part of a whole group; since     *)
(* then members have only moved towards the member that is furthest on, and *)
(* those it is done with are there.                                         *)
Now(state, m) == IF m \in state.unread THEN app[m] ELSE state.read[m].app
NowPosting(state, m) == IF m \in state.unread THEN posting[m] ELSE state.read[m].posting
Recorded(state) == {k \in Members(state) : app[k] # "none"}

Whole(state) ==
    \E g \in groups :
        Members(state) \subseteq g /\ \A k \in g \ Members(state) : app[k] = "none"
Advanced(state) ==
    \A k \in Known(state.read) :
        /\ k \notin state.unread
        /\ app[k] # "none"
        /\ app[k] = "rejected" <=> state.read[k].app = "rejected"
        /\ Order[state.read[k].app] <= Order[app[k]]
        /\ state.read[k].posting = "closed" => posting[k] = "closed"
Bounded(state) ==
    \A k \in Recorded(state) :
        /\ \E m \in Recorded(state) : Order[app[k]] <= Order[Now(state, m)]
        /\ posting[k] = "closed" =>
              \E m \in Recorded(state) : NowPosting(state, m) = "closed"
Done(state) ==
    /\ \A k \in Raised(state.read) \ state.todo :
          \A m \in Known(state.read) : Order[state.read[m].app] <= Order[app[k]]
    /\ \A k \in Closing(state.read) \ state.todo :
          app[k] # "rejected" => posting[k] = "closed"

Undisturbed(state) ==
    /\ Whole(state)
    /\ Advanced(state)
    /\ Bounded(state)
    /\ state.at # "read" => Done(state)

IInv ==
    /\ TypeOK
    /\ LinkedOnce
    /\ \A p \in Proc : CallOK(p, call[p])
    /\ calm => \A p \in Proc : call[p].at \in Syncing => Undisturbed(call[p])
=============================================================================
