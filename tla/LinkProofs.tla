----------------------------- MODULE LinkProofs -----------------------------
(* Machine-checked proofs about LinkSync, for any number of postings and    *)
(* processes, any groups and any statuses set in between.  IInv (LinkInv)   *)
(* is inductive; the properties follow.                                     *)
EXTENDS LinkInv, TLAPS, FiniteSetTheorems, WellFoundedInduction

Left == [edits : Nat, links : Nat, stops : Nat]

(* The least of the members that are left exists.                           *)
LEMMA LeastMember ==
    ASSUME NEW S \in SUBSET Key, S # {}
    PROVE  Min(S) \in S
<1> DEFINE R == StrictSubsetOrdering(Key)
           T == {1..x : x \in S}
<1>1. N \in Nat /\ \A x \in S : x \in Nat /\ 1 <= x /\ x <= N
  BY LinkAssumption DEF Key
<1>2. IsFiniteSet(Key)
  BY <1>1, FS_Interval DEF Key
<1>3. T \subseteq FiniteSubsetsOf(Key) /\ T # {}
  <2>1. \A x \in S : 1..x \subseteq Key
    BY <1>1 DEF Key
  <2>2. \A x \in S : IsFiniteSet(1..x)
    BY <1>2, <2>1, FS_Subset
  <2> QED  BY <2>1, <2>2 DEF FiniteSubsetsOf
<1>4. \E t \in T : \A u \in T : <<u, t>> \notin R
  <2>1. IsWellFoundedOn(R, FiniteSubsetsOf(Key))
    BY FS_StrictSubsetOrderingWellFounded
  <2> QED  BY <1>3, <2>1, WFMin
<1>5. PICK x \in S : \A y \in S : <<1..y, 1..x>> \notin R
  BY <1>4
<1>6. ASSUME NEW y \in S, y < x PROVE FALSE
  <2>1. 1..y \subseteq 1..x /\ x \in 1..x /\ x \notin 1..y
    BY <1>1, <1>6
  <2>2. 1..x \subseteq Key /\ 1..y \subseteq Key
    BY <1>1 DEF Key
  <2> QED  BY <1>5, <1>6, <2>1, <2>2 DEF StrictSubsetOrdering
<1>7. \A y \in S : x <= y
  BY <1>1, <1>6
<1> QED  BY <1>7 DEF Min

(* The order of the statuses tells all of them apart.                       *)
LEMMA StatusOrder ==
    /\ \A s \in Status : Order[s] \in Int
    /\ \A s, t \in Status : Order[s] = Order[t] => s = t
    /\ \A s \in Status : Order[s] < 0 <=> s = "rejected"
BY DEF Status, Order

(* Among the members that were read, one is furthest on.                    *)
LEMMA FurthestOn ==
    ASSUME NEW read \in [Key -> Seen], Known(read) # {}
    PROVE  /\ Target(read) \in Status
           /\ \E m \in Known(read) : read[m].app = Target(read)
           /\ \A m \in Known(read) : Order[read[m].app] <= Order[Target(read)]
<1> DEFINE Some(s) == \E m \in Known(read) : read[m].app = s
           Furthest(s) == /\ s \in Status /\ Some(s)
                          /\ \A m \in Known(read) : Order[read[m].app] <= Order[s]
<1>1. \A m \in Known(read) : read[m].app \in Status
  BY DEF Known, Seen
<1>2. \E s \in Status : Furthest(s)
  <2>1. CASE Some("offer")
    BY <1>1, <2>1 DEF Status, Order
  <2>2. CASE ~Some("offer") /\ Some("interview")
    BY <1>1, <2>2 DEF Status, Order
  <2>3. CASE ~Some("offer") /\ ~Some("interview") /\ Some("applied")
    BY <1>1, <2>3 DEF Status, Order
  <2>4. CASE ~Some("offer") /\ ~Some("interview") /\ ~Some("applied") /\ Some("pending")
    BY <1>1, <2>4 DEF Status, Order
  <2>5. CASE ~Some("offer") /\ ~Some("interview") /\ ~Some("applied") /\ ~Some("pending")
    BY <1>1, <2>5 DEF Status, Order
  <2> QED  BY <2>1, <2>2, <2>3, <2>4, <2>5
<1> QED  BY <1>2 DEF Target

LEMMA IdleState == Idle \in CallState /\ Idle.at = "idle"
BY DEF Idle, CallState, Seen, Unseen, Posting, Syncing

(* A step that moves one command to a good state, changing no status and no *)
(* group, keeps the invariant.                                              *)
LEMMA CallMoves ==
    ASSUME IInv, NEW CONSTANT p \in Proc, NEW CONSTANT new \in CallState,
           call' = [call EXCEPT ![p] = new], UNCHANGED <<groups, app, posting>>,
           holder' \in Proc \cup {None}, CallOK(p, new)',
           \A q \in Proc \ {p} : holder' = q <=> holder = q,
           calm' \in BOOLEAN, calm' => calm \/ Quiet(call'),
           calm /\ new.at \in Syncing => Undisturbed(new),
           left' \in Left
    PROVE  IInv'
<1>1. call \in [Proc -> CallState]
  BY DEF IInv, TypeOK
<1>2. /\ call' \in [Proc -> CallState]
      /\ call'[p] = new
      /\ \A q \in Proc \ {p} : call'[q] = call[q]
  BY <1>1
<1>3. TypeOK'
  BY <1>2 DEF IInv, TypeOK, Left
<1>4. LinkedOnce'
  BY DEF IInv, LinkedOnce
<1>5. ASSUME NEW q \in Proc PROVE CallOK(q, call[q])'
  <2>1. CASE q = p
    BY <1>2, <2>1 DEF CallOK, Linked
  <2>2. CASE q # p
    <3>1. call'[q] = call[q] /\ (holder' = q <=> holder = q) /\ CallOK(q, call[q])
      BY <1>2, <2>2 DEF IInv
    <3> QED  BY <3>1 DEF CallOK, Linked
  <2> QED  BY <2>1, <2>2
<1>6. ASSUME calm', NEW q \in Proc, call'[q].at \in Syncing
      PROVE  Undisturbed(call[q])'
  <2>1. calm
    BY <1>6 DEF Quiet
  <2>2. Undisturbed(call'[q])
    BY <1>2, <1>6, <2>1 DEF IInv
  <2>3. Whole(call[q])'
    BY <2>2 DEF Undisturbed, Whole, Members
  <2>4. Advanced(call[q])'
    BY <2>2 DEF Undisturbed, Advanced
  <2>5. Bounded(call[q])'
    BY <2>2 DEF Undisturbed, Bounded, Members, Recorded, Now, NowPosting
  <2>6. call'[q].at # "read" => Done(call[q])'
    BY <2>2 DEF Undisturbed, Done
  <2> QED  BY <2>3, <2>4, <2>5, <2>6 DEF Undisturbed
<1> QED  BY <1>3, <1>4, <1>5, <1>6 DEF IInv

-----------------------------------------------------------------------------
(* The commands on groups.                                                  *)

LEMMA AddStep ==
    ASSUME IInv, NEW p \in Proc, NEW keys \in Group, Add(p, keys)
    PROVE  IInv'
<1> DEFINE new == [Idle EXCEPT !.at = "add", !.keys = keys]
<1>1. /\ call \in [Proc -> CallState] /\ call[p].at = "idle" /\ left \in Left
      /\ holder \in Proc \cup {None} /\ calm \in BOOLEAN /\ CallOK(p, call[p])
  BY DEF IInv, TypeOK, Add, At, Left
<1>2. new \in CallState /\ new.at = "add" /\ new.keys = keys
  BY DEF Idle, CallState, Seen, Unseen, Posting, Group
<1>3. CallOK(p, new)'
  BY <1>1, <1>2 DEF CallOK, Add, Holding
<1>4. left' \in Left /\ call' = [call EXCEPT ![p] = new]
  BY <1>1 DEF Add, Left, Becomes
<1> QED  BY <1>1, <1>2, <1>3, <1>4, CallMoves DEF Add, Syncing

LEMMA CreateStep ==
    ASSUME IInv, NEW p \in Proc, Create(p)
    PROVE  IInv'
<1>1. /\ call \in [Proc -> CallState] /\ call[p].at = "add" /\ left \in Left
      /\ holder = None /\ calm \in BOOLEAN /\ CallOK(p, call[p])
      /\ call[p] \in CallState /\ None \notin Proc
  BY LinkAssumption DEF IInv, TypeOK, Create, At, Left
<1>2. CASE holder' = p
  <2> DEFINE new == [call[p] EXCEPT !.at = "create"]
  <2>1. new \in CallState /\ new.at = "create" /\ new.keys = call[p].keys
    BY <1>1 DEF CallState
  <2>2. call' = [call EXCEPT ![p] = new] /\ \A k \in call[p].keys : ~Linked(k)
    BY <1>1, <1>2 DEF Create, Becomes
  <2>3. CallOK(p, new)'
    BY <1>1, <1>2, <2>1, <2>2 DEF CallOK, Holding, Create, Linked
  <2> QED  BY <1>1, <1>2, <2>1, <2>2, <2>3, CallMoves DEF Create, Syncing
<1>3. CASE holder' = holder
  <2>1. call' = [call EXCEPT ![p] = Idle]
    BY <1>1, <1>3 DEF Create, Becomes
  <2>2. CallOK(p, Idle)'
    BY <1>1, <1>3, IdleState DEF CallOK, Holding
  <2> QED  BY <1>1, <1>3, <2>1, <2>2, IdleState, CallMoves DEF Create, Syncing
<1> QED  BY <1>2, <1>3 DEF Create

LEMMA RemoveStep ==
    ASSUME IInv, NEW p \in Proc, NEW k \in Key, Remove(p, k)
    PROVE  IInv'
<1> DEFINE new == [Idle EXCEPT !.at = "remove", !.keys = {k}]
<1>1. /\ call \in [Proc -> CallState] /\ call[p].at = "idle" /\ left \in Left
      /\ holder \in Proc \cup {None} /\ calm \in BOOLEAN /\ CallOK(p, call[p])
  BY DEF IInv, TypeOK, Remove, At, Left
<1>2. new \in CallState /\ new.at = "remove"
  BY DEF Idle, CallState, Seen, Unseen, Posting
<1>3. CallOK(p, new)'
  BY <1>1, <1>2 DEF CallOK, Remove, Holding
<1>4. left' \in Left /\ call' = [call EXCEPT ![p] = new]
  BY <1>1 DEF Remove, Left, Becomes
<1> QED  BY <1>1, <1>2, <1>3, <1>4, CallMoves DEF Remove, Syncing

LEMMA UnlinkStep ==
    ASSUME IInv, NEW p \in Proc, Unlink(p)
    PROVE  IInv'
<1>1. /\ call \in [Proc -> CallState] /\ call[p].at = "remove" /\ left \in Left
      /\ holder = None /\ calm \in BOOLEAN /\ CallOK(p, call[p])
      /\ call[p] \in CallState /\ None \notin Proc /\ groups \subseteq Group
  BY LinkAssumption DEF IInv, TypeOK, Unlink, At, Left
<1>2. ASSUME NEW members \in groups, holder' = p,
             call' = [call EXCEPT ![p] = [call[p] EXCEPT !.at = "unlink",
                                                         !.todo = members]]
      PROVE  IInv'
  <2> DEFINE new == [call[p] EXCEPT !.at = "unlink", !.todo = members]
  <2>1. new \in CallState /\ new.at = "unlink" /\ new.todo = members
    BY <1>1 DEF CallState, Group
  <2>2. CallOK(p, new)'
    <3>1. groups' = groups
      BY DEF Unlink
    <3> QED  BY <1>1, <1>2, <2>1, <3>1 DEF CallOK, Holding
  <2> QED  BY <1>1, <1>2, <2>1, <2>2, CallMoves DEF Unlink, Syncing
<1>3. ASSUME holder' = holder, call' = [call EXCEPT ![p] = Idle]
      PROVE  IInv'
  <2>1. CallOK(p, Idle)'
    BY <1>1, <1>3, IdleState DEF CallOK, Holding
  <2> QED  BY <1>1, <1>3, <2>1, IdleState, CallMoves DEF Unlink, Syncing
<1> QED  BY <1>2, <1>3 DEF Unlink, Becomes

LEMMA StopStep ==
    ASSUME IInv, NEW p \in Proc, Stop(p)
    PROVE  IInv'
<1>1. /\ call \in [Proc -> CallState] /\ left \in Left /\ None \notin Proc
      /\ holder \in Proc \cup {None} /\ calm \in BOOLEAN
  BY LinkAssumption DEF IInv, TypeOK, Left
<1>2. /\ call' = [call EXCEPT ![p] = Idle]
      /\ left' \in Left /\ calm' \in BOOLEAN /\ (calm' => calm \/ Quiet(call'))
      /\ holder' = IF holder = p THEN None ELSE holder
  BY <1>1 DEF Stop, Becomes, Unaffected, Left, Quiet
<1>3. holder' # p /\ holder' \in Proc \cup {None}
      /\ \A q \in Proc \ {p} : holder' = q <=> holder = q
  BY <1>1, <1>2
<1>4. CallOK(p, Idle)'
  BY <1>3, IdleState DEF CallOK, Holding
<1> QED  BY <1>2, <1>3, <1>4, IdleState, CallMoves DEF Stop, Syncing

-----------------------------------------------------------------------------
(* The steps of a synchronisation.                                          *)

LEMMA ChangeIsLeft ==
    ASSUME NEW c \in CallState, c.todo # {}
    PROVE  NextChange(c) \in c.todo
<1>1. c.todo \in SUBSET Key /\ c.todo \cap Raised(c.read) \in SUBSET Key
  BY DEF CallState
<1>2. CASE c.todo \cap Raised(c.read) # {}
  BY <1>1, <1>2, LeastMember DEF NextChange
<1>3. CASE c.todo \cap Raised(c.read) = {}
  BY <1>1, <1>3, LeastMember DEF NextChange
<1> QED  BY <1>2, <1>3

LEMMA StartSyncStep ==
    ASSUME IInv, NEW p \in Proc, NEW k \in Key, StartSync(p, k)
    PROVE  IInv'
<1>1. /\ call \in [Proc -> CallState] /\ call[p].at = "idle" /\ left \in Left
      /\ holder \in Proc \cup {None} /\ calm \in BOOLEAN /\ CallOK(p, call[p])
      /\ groups \subseteq Group /\ app \in [Key -> Status \cup {"none"}]
  BY DEF IInv, TypeOK, StartSync, At, Left
<1>2. PICK members \in groups :
          /\ k \in members
          /\ call' = [call EXCEPT ![p] = [Idle EXCEPT !.at = "read", !.unread = members]]
  BY DEF StartSync, Becomes
<1> DEFINE new == [Idle EXCEPT !.at = "read", !.unread = members]
<1>3. /\ new \in CallState /\ new.at = "read" /\ new.unread = members
      /\ new.read = [m \in Key |-> Unseen] /\ members \subseteq Key
  BY <1>1, <1>2 DEF Idle, CallState, Seen, Unseen, Posting, Group, Syncing
<1>4. CallOK(p, new)'
  BY <1>1, <1>2, <1>3 DEF CallOK, StartSync, Holding
<1>5. Undisturbed(new)
  <2>1. Known(new.read) = {} /\ Members(new) = members
    BY <1>3 DEF Known, Unseen, Members
  <2>2. Whole(new) /\ Advanced(new)
    BY <1>2, <2>1 DEF Whole, Advanced
  <2>3. Bounded(new)
    <3>1. ASSUME NEW m \in Recorded(new)
          PROVE  /\ Now(new, m) = app[m] /\ NowPosting(new, m) = posting[m]
                 /\ app[m] \in Status
      BY <1>1, <1>3, <2>1 DEF Recorded, Now, NowPosting
    <3> QED  BY <3>1, StatusOrder DEF Bounded
  <2> QED  BY <1>3, <2>2, <2>3 DEF Undisturbed
<1> QED  BY <1>1, <1>2, <1>3, <1>4, <1>5, CallMoves DEF StartSync

(* Reading one more member keeps what is known about the group.             *)
LEMMA OneMoreRead ==
    ASSUME NEW c \in CallState, NEW k \in c.unread, NEW new \in CallState,
           app \in [Key -> Status \cup {"none"}], posting \in [Key -> Posting],
           new.read = [c.read EXCEPT ![k] = [app |-> app[k], posting |-> posting[k]]],
           new.unread = c.unread \ {k},
           Whole(c), Advanced(c), Bounded(c)
    PROVE  Whole(new) /\ Advanced(new) /\ Bounded(new)
<1>1. k \in Key /\ c.read \in [Key -> Seen] /\ new.read \in [Key -> Seen]
  BY DEF CallState
<1>2. /\ new.read[k].app = app[k] /\ new.read[k].posting = posting[k]
      /\ \A m \in Key \ {k} : new.read[m] = c.read[m]
  BY <1>1
<1>3. k \notin Known(c.read)
  BY DEF Advanced
<1>4. Known(new.read) = IF app[k] = "none" THEN Known(c.read)
                                          ELSE Known(c.read) \cup {k}
  BY <1>1, <1>2, <1>3 DEF Known
<1>5. Members(new) = IF app[k] = "none" THEN Members(c) \ {k} ELSE Members(c)
  BY <1>3, <1>4 DEF Members
<1>6. Whole(new)
  BY <1>5 DEF Whole
<1>7. Advanced(new)
  <2>1. ASSUME NEW m \in Known(new.read), m = k
        PROVE  app[k] # "none" /\ Order[new.read[k].app] <= Order[app[k]]
    BY <1>1, <1>2, <2>1, StatusOrder DEF Known
  <2>2. \A m \in Known(new.read) : m # k => m \in Known(c.read) /\ m \in Key
    BY <1>4 DEF Known
  <2> QED  BY <1>2, <2>1, <2>2 DEF Advanced
<1>8. Bounded(new)
  <2>1. Recorded(new) = Recorded(c)
    BY <1>5 DEF Recorded
  <2>2. Recorded(c) \subseteq Key
    BY DEF Recorded, Members, Known, CallState
  <2>3. ASSUME NEW m \in Recorded(c)
        PROVE  Now(new, m) = Now(c, m) /\ NowPosting(new, m) = NowPosting(c, m)
    BY <1>2, <2>2 DEF Now, NowPosting
  <2> QED  BY <2>1, <2>3 DEF Bounded
<1> QED  BY <1>6, <1>7, <1>8

LEMMA ReadMemberStep ==
    ASSUME IInv, NEW p \in Proc, ReadMember(p)
    PROVE  IInv'
<1> DEFINE c == call[p]
           k == Min(c.unread)
           read == [c.read EXCEPT ![k] = [app |-> app[k], posting |-> posting[k]]]
           rest == c.unread \ {k}
           more == [c EXCEPT !.read = read, !.unread = rest]
           all == [c EXCEPT !.read = read, !.unread = {},
                            !.todo = Raised(read) \cup Closing(read)]
           next == IF rest # {} THEN more ELSE Continued(all)
<1>1. /\ call \in [Proc -> CallState] /\ c.at = "read" /\ left \in Left
      /\ holder \in Proc \cup {None} /\ calm \in BOOLEAN /\ CallOK(p, c)
      /\ c \in CallState /\ app \in [Key -> Status \cup {"none"}]
      /\ posting \in [Key -> Posting] /\ call' = [call EXCEPT ![p] = next]
      /\ UNCHANGED <<groups, holder, app, posting, left>>
      /\ calm' \in BOOLEAN /\ (calm' => calm \/ Quiet(call'))
  BY DEF IInv, TypeOK, ReadMember, At, Left, Becomes, Unaffected, Quiet
<1>2. k \in c.unread /\ c.unread \in SUBSET Key /\ k \in Key /\ holder # p
  BY <1>1, LeastMember DEF CallOK, CallState, Holding
<1>3. read \in [Key -> Seen]
  BY <1>1, <1>2 DEF CallState, Seen
<1>4. /\ more \in CallState /\ more.at = "read" /\ more.unread = rest
      /\ more.read = read
      /\ all \in CallState /\ all.read = read /\ all.unread = {}
      /\ all.todo = Raised(read) \cup Closing(read)
  BY <1>1, <1>2, <1>3 DEF CallState, Raised, Closing, Known
<1>5. calm => Whole(c) /\ Advanced(c) /\ Bounded(c)
  BY <1>1 DEF IInv, Syncing, Undisturbed
<1>6. next \in CallState
  BY <1>4, IdleState DEF Continued, CallState, Syncing
<1> HIDE DEF k, read, rest, more, all, c, next
<1>7. PICK new \in CallState : new = next /\ call' = [call EXCEPT ![p] = new]
  BY <1>1, <1>6
<1>8. CASE rest # {}
  <2>1. new = more
    BY <1>7, <1>8 DEF next
  <2>2. CallOK(p, new)'
    BY <1>1, <1>2, <1>4, <1>8, <2>1 DEF CallOK, Holding
  <2>3. calm => Undisturbed(new)
    BY <1>1, <1>2, <1>4, <1>5, <2>1, OneMoreRead DEF Undisturbed, read, rest
  <2> QED  BY <1>1, <1>2, <1>7, <2>2, <2>3, CallMoves
<1>9. CASE rest = {} /\ all.todo # {}
  <2>1. /\ new.at = "look" /\ new.read = read /\ new.unread = {}
        /\ new.todo = Raised(read) \cup Closing(read) /\ new.todo # {}
    BY <1>4, <1>7, <1>9 DEF CallState, Continued, next
  <2>2. CallOK(p, new)'
    BY <1>1, <1>2, <2>1 DEF CallOK, Holding
  <2>3. Done(new)
    BY <2>1 DEF Done
  <2>4. calm => Undisturbed(new)
    BY <1>1, <1>2, <1>5, <1>9, <2>1, <2>3, OneMoreRead DEF Undisturbed, read, rest
  <2> QED  BY <1>1, <1>2, <1>7, <2>2, <2>4, CallMoves
<1>10. CASE rest = {} /\ all.todo = {}
  <2>1. new = Idle
    BY <1>7, <1>10 DEF Continued, next
  <2>2. CallOK(p, new)'
    BY <1>1, <1>2, <2>1, IdleState DEF CallOK, Holding
  <2> QED  BY <1>1, <1>2, <1>7, <2>1, <2>2, IdleState, CallMoves DEF Syncing
<1> QED  BY <1>8, <1>9, <1>10

(* Leaving a rejected member alone keeps what is known about the group.     *)
LEMMA SkippedMember ==
    ASSUME NEW c \in CallState, NEW new \in CallState, NEW k \in c.todo,
           app[k] = "rejected", c.unread = {}, Undisturbed(c), c.at = "look",
           new.read = c.read, new.unread = {}, new.todo = c.todo \ {k}
    PROVE  Whole(new) /\ Advanced(new) /\ Bounded(new) /\ Done(new)
<1>1. /\ Members(new) = Members(c) /\ c.unread = {}
      /\ Whole(c) /\ Advanced(c) /\ Bounded(c) /\ Done(c)
  BY DEF Undisturbed, Members
<1>2. Whole(new) /\ Advanced(new) /\ Bounded(new)
  BY <1>1 DEF Whole, Advanced, Bounded, Recorded, Now, NowPosting
<1>3. k \notin Raised(c.read)
  BY <1>1 DEF Raised, Advanced
<1>4. Done(new)
  BY <1>1, <1>3 DEF Done
<1> QED  BY <1>2, <1>4

LEMMA LookStep ==
    ASSUME IInv, NEW p \in Proc, Look(p)
    PROVE  IInv'
<1> DEFINE c == call[p]
           k == NextChange(c)
           skipped == [c EXCEPT !.todo = @ \ {k}]
           next == IF app[k] = "rejected" THEN Continued(skipped)
                                          ELSE [c EXCEPT !.at = "write"]
<1>1. /\ call \in [Proc -> CallState] /\ c.at = "look" /\ left \in Left
      /\ holder \in Proc \cup {None} /\ calm \in BOOLEAN /\ CallOK(p, c)
      /\ c \in CallState /\ call' = [call EXCEPT ![p] = next]
      /\ UNCHANGED <<groups, holder, app, posting, left>>
      /\ calm' \in BOOLEAN /\ (calm' => calm \/ Quiet(call'))
  BY DEF IInv, TypeOK, Look, At, Left, Becomes, Unaffected, Quiet
<1>2. k \in c.todo /\ holder # p
  BY <1>1, ChangeIsLeft DEF CallOK, Holding
<1>3. calm => Undisturbed(c)
  BY <1>1 DEF IInv, Syncing
<1>4. next \in CallState
  BY <1>1, IdleState DEF Continued, CallState, Syncing
<1> HIDE DEF k
<1>5. PICK new \in CallState : new = next /\ call' = [call EXCEPT ![p] = new]
  BY <1>1, <1>4
<1>6. CASE app[k] = "rejected" /\ skipped.todo # {}
  <2>1. /\ new.at = "look" /\ new.read = c.read /\ new.unread = {}
        /\ new.todo = c.todo \ {k} /\ new.todo # {}
    BY <1>1, <1>5, <1>6 DEF CallState, Continued, CallOK
  <2>2. CallOK(p, new)'
    BY <1>1, <1>2, <2>1 DEF CallOK, Holding
  <2>3. calm => Undisturbed(new)
    <3>1. c.unread = {}
      BY <1>1 DEF CallOK
    <3> QED  BY <1>1, <1>2, <1>3, <1>6, <2>1, <3>1, SkippedMember DEF Undisturbed
  <2> QED  BY <1>1, <1>2, <1>5, <2>2, <2>3, CallMoves
<1>7. CASE app[k] = "rejected" /\ skipped.todo = {}
  <2>1. new = Idle
    BY <1>5, <1>7 DEF Continued
  <2>2. CallOK(p, new)'
    BY <1>1, <1>2, <2>1, IdleState DEF CallOK, Holding
  <2> QED  BY <1>1, <1>2, <1>5, <2>1, <2>2, IdleState, CallMoves DEF Syncing
<1>8. CASE app[k] # "rejected"
  <2>1. /\ new.at = "write" /\ new.read = c.read /\ new.unread = c.unread
        /\ new.todo = c.todo
    BY <1>1, <1>5, <1>8 DEF CallState
  <2>2. CallOK(p, new)'
    BY <1>1, <1>2, <2>1 DEF CallOK, Holding
  <2>3. calm => Undisturbed(new)
    BY <1>1, <1>3, <2>1 DEF Undisturbed, Whole, Advanced, Bounded, Done,
                            Members, Recorded, Now, NowPosting
  <2> QED  BY <1>1, <1>2, <1>5, <2>2, <2>3, CallMoves
<1> QED  BY <1>6, <1>7, <1>8

(* What one update changes, when only syncs have changed anything since     *)
(* this one began: a member that is raised moves up to the target.          *)
Moved(c, k) ==
    /\ k \in Raised(c.read) \cup Closing(c.read)
    /\ app' = IF k \in Raised(c.read) THEN [app EXCEPT ![k] = Target(c.read)] ELSE app
    /\ posting' = IF k \in Closing(c.read) THEN [posting EXCEPT ![k] = "closed"]
                                           ELSE posting
Typed == /\ app \in [Key -> Status \cup {"none"}]
         /\ posting \in [Key -> Posting]

LEMMA MovedTypes ==
    ASSUME Typed, NEW c \in CallState, NEW k, Moved(c, k)
    PROVE  Typed' /\ k \in Key
<1>1. k \in Key /\ c.read \in [Key -> Seen]
  BY DEF Moved, Raised, Closing, Known, CallState
<1>2. ASSUME k \in Raised(c.read) PROVE Target(c.read) \in Status
  <2>1. Known(c.read) # {}
    BY <1>2 DEF Raised
  <2> QED  BY <1>1, <2>1, FurthestOn
<1>3. app' \in [Key -> Status \cup {"none"}]
  BY <1>1, <1>2 DEF Moved, Typed
<1>4. posting' \in [Key -> Posting]
  BY <1>1 DEF Moved, Typed, Posting
<1> QED  BY <1>1, <1>3, <1>4 DEF Typed

LEMMA MovedUp ==
    ASSUME Typed, NEW c \in CallState, NEW k, Moved(c, k),
           c.unread = {}, Advanced(c), Bounded(c)
    PROVE  \A m \in Key :
             /\ app'[m] = "none" <=> app[m] = "none"
             /\ app'[m] = "rejected" <=> app[m] = "rejected"
             /\ app[m] # "none" => Order[app[m]] <= Order[app'[m]]
             /\ posting[m] = "closed" => posting'[m] = "closed"
<1>1. k \in Key /\ c.read \in [Key -> Seen]
  BY MovedTypes DEF CallState
<1>2. \A m \in Key : posting[m] = "closed" => posting'[m] = "closed"
  BY <1>1 DEF Moved, Typed
<1>3. CASE k \notin Raised(c.read)
  BY <1>2, <1>3, StatusOrder DEF Moved, Typed
<1>4. CASE k \in Raised(c.read)
  <2> DEFINE T == Target(c.read)
  <2>1. /\ Known(c.read) # {} /\ k \in Known(c.read)
        /\ c.read[k].app \in Status \ {"rejected"}
    BY <1>1, <1>4 DEF Raised, Known, Seen
  <2>2. T \in Status /\ \A m \in Known(c.read) : Order[c.read[m].app] <= Order[T]
    BY <1>1, <2>1, FurthestOn
  <2>3. app[k] \in Status \ {"rejected"}
    BY <1>1, <2>1 DEF Advanced, Typed
  <2>4. T # "rejected"
    <3>1. Order[c.read[k].app] <= Order[T] /\ Order[c.read[k].app] >= 0
      BY <2>1, <2>2, StatusOrder
    <3> QED  BY <2>1, <2>2, <3>1, StatusOrder
  <2>5. Order[app[k]] <= Order[T]
    <3>1. k \in Recorded(c) /\ Recorded(c) \subseteq Known(c.read)
      BY <2>1, <2>3 DEF Recorded, Members, Status
    <3>2. PICK m \in Recorded(c) : Order[app[k]] <= Order[Now(c, m)]
      BY <3>1 DEF Bounded
    <3>3. Now(c, m) = c.read[m].app /\ m \in Known(c.read)
      BY <3>1, <3>2 DEF Now
    <3>4. c.read[m].app \in Status
      BY <1>1, <3>3 DEF Known, Seen
    <3> QED  BY <2>2, <2>3, <3>2, <3>3, <3>4, StatusOrder
  <2>6. /\ app' = [app EXCEPT ![k] = T]
        /\ \A m \in Key : app'[m] = IF m = k THEN T ELSE app[m]
    BY <1>1, <1>4 DEF Moved, Typed
  <2>7. ASSUME NEW m \in Key, m # k, app[m] # "none"
        PROVE  Order[app[m]] <= Order[app'[m]]
    BY <2>6, <2>7, StatusOrder DEF Typed
  <2>8. T # "none" /\ app[k] # "none"
    BY <2>2, <2>3 DEF Status
  <2> QED  BY <1>2, <2>2, <2>3, <2>4, <2>5, <2>6, <2>7, <2>8
<1> QED  BY <1>3, <1>4

(* Every overlapping sync of the same group is heading for the same status. *)
LEMMA MovedTogether ==
    ASSUME Typed, LinkedOnce, UNCHANGED groups,
           NEW CONSTANT c \in CallState, NEW CONSTANT k, Moved(c, k),
           c.unread = {}, Whole(c), Advanced(c), Bounded(c),
           NEW CONSTANT d \in CallState, Whole(d), Advanced(d), Bounded(d)
    PROVE  Whole(d)' /\ Advanced(d)' /\ Bounded(d)'
<1>1. /\ k \in Key /\ c.read \in [Key -> Seen] /\ Typed'
      /\ Members(d) \subseteq Key /\ Known(d.read) \subseteq Key
      /\ d.read \in [Key -> Seen]
  BY MovedTypes DEF CallState, Members, Known
<1>2. \A m \in Key :
        /\ app'[m] = "none" <=> app[m] = "none"
        /\ app'[m] = "rejected" <=> app[m] = "rejected"
        /\ app[m] # "none" => Order[app[m]] <= Order[app'[m]]
        /\ posting[m] = "closed" => posting'[m] = "closed"
  BY MovedUp
<1>3. \A m \in Key : app[m] # "none" => Order[app[m]] \in Int /\ Order[app'[m]] \in Int
  BY <1>1, <1>2, StatusOrder DEF Typed
<1>4. Whole(d)'
  <2>1. PICK g \in groups : /\ Members(d) \subseteq g
                             /\ \A m \in g \ Members(d) : app[m] = "none"
    BY DEF Whole
  <2>2. \A m \in g \ Members(d) : app'[m] = "none"
    <3>1. ASSUME NEW m \in g \ Members(d) PROVE app'[m] = "none"
      <4>1. CASE m \in Key
        BY <1>2, <2>1, <4>1
      <4>2. CASE m \notin Key
        BY <1>1, <2>1, <3>1, <4>2 DEF Moved, Typed
      <4> QED  BY <4>1, <4>2
    <3> QED  BY <3>1
  <2> QED  BY <2>1, <2>2 DEF Whole
<1>5. Advanced(d)'
  <2>1. ASSUME NEW m \in Known(d.read)
        PROVE  Order[d.read[m].app] <= Order[app'[m]]
    <3>1. /\ m \in Key /\ app[m] # "none" /\ d.read[m].app \in Status
          /\ Order[d.read[m].app] <= Order[app[m]]
      BY <1>1 DEF Advanced, Known, Seen
    <3>2. Order[d.read[m].app] \in Int
      BY <3>1, StatusOrder
    <3> QED  BY <1>2, <1>3, <3>1, <3>2
  <2> QED  BY <1>1, <1>2, <2>1 DEF Advanced
<1>6. Recorded(d)' = Recorded(d) /\ Recorded(d) \subseteq Key
  BY <1>1, <1>2 DEF Recorded
<1>7. ASSUME NEW m \in Recorded(d)
      PROVE  /\ Order[Now(d, m)] <= Order[Now(d, m)']
             /\ Order[Now(d, m)] \in Int /\ Order[Now(d, m)'] \in Int
             /\ NowPosting(d, m) = "closed" => NowPosting(d, m)' = "closed"
  <2>1. CASE m \in d.unread
    BY <1>2, <1>3, <1>6, <2>1 DEF Now, NowPosting, Recorded
  <2>2. CASE m \notin d.unread
    <3>1. m \in Known(d.read)
      BY <2>2 DEF Recorded, Members
    <3>2. Order[d.read[m].app] \in Int
      BY <1>1, <3>1, StatusOrder DEF Known, Seen
    <3> QED  BY <2>2, <3>2 DEF Now, NowPosting
  <2> QED  BY <2>1, <2>2
(* the members the update was computed from are members of the other sync   *)
<1>8. ASSUME NEW m \in Known(c.read), k \in Members(d)
      PROVE  m \in Recorded(d)
  <2>1. PICK g \in groups : Members(c) \subseteq g
    BY DEF Whole
  <2>2. PICK h \in groups : /\ Members(d) \subseteq h
                             /\ \A j \in h \ Members(d) : app[j] = "none"
    BY DEF Whole
  <2>3. k \in g /\ m \in g /\ app[m] # "none"
    BY <2>1 DEF Members, Moved, Raised, Closing, Advanced
  <2>4. g = h
    BY <1>8, <2>2, <2>3 DEF LinkedOnce
  <2> QED  BY <2>2, <2>3, <2>4 DEF Recorded
<1>9. ASSUME NEW m \in Recorded(d)
      PROVE  \E j \in Recorded(d) : Order[app'[m]] <= Order[Now(d, j)']
  <2>1. CASE app'[m] = app[m]
    <3>1. PICK j \in Recorded(d) : Order[app[m]] <= Order[Now(d, j)]
      BY DEF Bounded
    <3>2. Order[app[m]] \in Int
      BY <1>3, <1>6 DEF Recorded
    <3> QED  BY <1>7, <2>1, <3>1, <3>2
  <2>2. CASE app'[m] # app[m]
    <3>1. m = k /\ k \in Raised(c.read) /\ app'[k] = Target(c.read)
      BY <1>1, <1>6, <2>2 DEF Moved, Typed
    <3>2. PICK i \in Known(c.read) : c.read[i].app = Target(c.read)
      BY <1>1, <3>1, FurthestOn DEF Raised
    <3>3. Order[c.read[i].app] <= Order[app[i]]
      BY DEF Advanced
    <3>4. i \in Recorded(d)
      BY <1>8, <1>9, <3>1 DEF Recorded
    <3>5. PICK j \in Recorded(d) : Order[app[i]] <= Order[Now(d, j)]
      BY <3>4 DEF Bounded
    <3>6. Order[app[i]] \in Int /\ Order[c.read[i].app] \in Int
      BY <1>1, <1>3, <1>6, <3>4, StatusOrder DEF Recorded, Known, Seen
    <3> QED  BY <1>7, <3>1, <3>2, <3>3, <3>5, <3>6
  <2> QED  BY <2>1, <2>2
<1>10. ASSUME NEW m \in Recorded(d), posting'[m] = "closed"
       PROVE  \E j \in Recorded(d) : NowPosting(d, j)' = "closed"
  <2>1. CASE posting[m] = "closed"
    BY <1>7, <2>1 DEF Bounded
  <2>2. CASE posting[m] # "closed"
    <3>1. m = k /\ k \in Closing(c.read)
      BY <1>1, <1>6, <1>10, <2>2 DEF Moved, Typed
    <3>2. PICK i \in Known(c.read) : c.read[i].posting = "closed"
      BY <3>1 DEF Closing
    <3>3. i \in Recorded(d) /\ posting[i] = "closed"
      BY <1>8, <1>10, <3>1, <3>2 DEF Recorded, Advanced
    <3> QED  BY <1>7, <3>3 DEF Bounded
  <2> QED  BY <2>1, <2>2
<1>11. Bounded(d)'
  BY <1>6, <1>9, <1>10 DEF Bounded
<1> QED  BY <1>4, <1>5, <1>11

(* A group is written by the holder of the lock: nothing else waits in the  *)
(* middle of a change of the groups.                                        *)
LEMMA GroupsChange ==
    ASSUME IInv, NEW p \in Proc, holder = p, holder' = None,
           call' = [call EXCEPT ![p] = Idle], UNCHANGED <<app, posting, left>>,
           calm' = Quiet(call'), groups' \subseteq Group, LinkedOnce'
    PROVE  IInv'
<1>1. /\ call \in [Proc -> CallState] /\ None \notin Proc
      /\ \A q \in Proc : CallOK(q, call[q])
  BY LinkAssumption DEF IInv, TypeOK
<1>2. /\ call' \in [Proc -> CallState] /\ call'[p] = Idle
      /\ \A q \in Proc \ {p} : call'[q] = call[q]
  BY <1>1, IdleState
<1>3. TypeOK'
  BY <1>2 DEF IInv, TypeOK, Quiet
<1>4. ASSUME NEW q \in Proc PROVE CallOK(q, call[q])'
  <2>1. CASE q = p
    BY <1>1, <1>2, <2>1, IdleState DEF CallOK, Holding
  <2>2. CASE q # p
    <3>1. call'[q] = call[q] /\ call[q].at \notin Holding /\ CallOK(q, call[q])
      BY <1>1, <1>2, <2>2 DEF CallOK
    <3> QED  BY <1>1, <3>1 DEF CallOK, Holding
  <2> QED  BY <2>1, <2>2
<1>5. calm' => \A q \in Proc : call'[q].at \notin Syncing
  BY DEF Quiet
<1> QED  BY <1>3, <1>4, <1>5 DEF IInv

LEMMA SaveGroupStep ==
    ASSUME IInv, NEW p \in Proc, SaveGroup(p)
    PROVE  IInv'
<1>1. /\ call[p].at = "create" /\ CallOK(p, call[p]) /\ groups \subseteq Group
      /\ groups' = groups \cup {call[p].keys} /\ LinkedOnce
  BY DEF IInv, TypeOK, SaveGroup, At
<1>2. holder = p /\ call[p].keys \in Group /\ \A k \in call[p].keys : ~Linked(k)
  BY <1>1 DEF CallOK, Holding
<1>3. groups' \subseteq Group /\ LinkedOnce'
  BY <1>1, <1>2 DEF LinkedOnce, Linked
<1> QED  BY <1>2, <1>3, GroupsChange DEF SaveGroup, Becomes, Overlapped

LEMMA RemoveMemberStep ==
    ASSUME IInv, NEW p \in Proc, RemoveMember(p)
    PROVE  IInv'
<1> DEFINE c == call[p]
<1>1. /\ c.at = "unlink" /\ CallOK(p, c) /\ groups \subseteq Group
      /\ groups' = (groups \ {c.todo}) \cup Remaining(c.todo, c.keys) /\ LinkedOnce
  BY DEF IInv, TypeOK, RemoveMember, At
<1>2. holder = p /\ c.todo \in groups /\ c.todo \subseteq Key
  BY <1>1 DEF CallOK, Holding, Group
<1>3. Cardinality(c.todo \ c.keys) \in Nat
  <2>1. IsFiniteSet(Key)
    BY LinkAssumption, FS_Interval DEF Key
  <2>2. IsFiniteSet(c.todo \ c.keys)
    BY <1>2, <2>1, FS_Subset
  <2> QED  BY <2>2, FS_CardinalityType
<1>4. Remaining(c.todo, c.keys) \subseteq {c.todo \ c.keys} \cap Group
  BY <1>2, <1>3 DEF Remaining, Group
<1>5. groups' \subseteq Group
  BY <1>1, <1>4
<1>6. LinkedOnce'
  <2> DEFINE rest == c.todo \ c.keys
  <2>1. \A g \in groups' : g = rest \/ (g \in groups /\ g # c.todo)
    BY <1>1, <1>4
  <2>2. \A g \in groups : g # c.todo => g \cap rest = {}
    BY <1>1, <1>2 DEF LinkedOnce
  <2>3. ASSUME NEW g \in groups', NEW h \in groups', g # h PROVE g \cap h = {}
    BY <1>1, <2>1, <2>2, <2>3 DEF LinkedOnce
  <2> QED  BY <2>3 DEF LinkedOnce
<1> QED  BY <1>2, <1>5, <1>6, GroupsChange DEF RemoveMember, Becomes, Overlapped

(* A change by someone else ends the calm unless no sync is running.        *)
LEMMA EditStep ==
    ASSUME IInv, Edit
    PROVE  IInv'
<1>1. /\ UNCHANGED <<groups, holder, call>> /\ calm' = Quiet(call')
      /\ left' = [left EXCEPT !.edits = @ - 1] /\ left.edits > 0
  BY DEF Edit, Collect, SetStatus, SetPosting, Edited, Overlapped
<1>2. /\ app \in [Key -> Status \cup {"none"}] /\ posting \in [Key -> Posting]
      /\ left \in Left
  BY DEF IInv, TypeOK, Left
<1>3. left' \in Left /\ calm' \in BOOLEAN
  BY <1>1, <1>2 DEF Left, Quiet
<1>4. /\ app' \in [Key -> Status \cup {"none"}]
      /\ posting' \in [Key -> Posting]
  <2>1. CASE \E k \in Key : Collect(k)
    BY <1>2, <2>1 DEF Collect, Status
  <2>2. CASE \E k \in Key : \E s \in Chosen : SetStatus(k, s)
    BY <1>2, <2>2, LinkAssumption DEF SetStatus
  <2>3. CASE \E k \in Key : \E s \in Posting : SetPosting(k, s)
    BY <1>2, <2>3 DEF SetPosting
  <2> QED  BY <2>1, <2>2, <2>3 DEF Edit
<1>5. TypeOK'
  BY <1>1, <1>3, <1>4 DEF IInv, TypeOK, Left
<1>6. LinkedOnce' /\ \A q \in Proc : CallOK(q, call[q])'
  BY <1>1 DEF IInv, LinkedOnce, CallOK, Linked
<1>7. calm' => \A q \in Proc : call'[q].at \notin Syncing
  BY <1>1 DEF Quiet
<1> QED  BY <1>5, <1>6, <1>7 DEF IInv

-----------------------------------------------------------------------------
(* One update of a sync, as seen by that sync and by the others.            *)

LEMMA UpdateMoves ==
    ASSUME IInv, NEW p \in Proc, UpdateMember(p)
    PROVE  LET c == call[p] k == NextChange(c)
           IN /\ c \in CallState /\ CallOK(p, c) /\ c.at = "write" /\ k \in c.todo
              /\ c.todo # {} /\ c.unread = {} /\ Typed /\ Moved(c, k)
              /\ c.todo \subseteq Raised(c.read) \cup Closing(c.read)
<1> DEFINE c == call[p] k == NextChange(c)
<1>1. c \in CallState /\ CallOK(p, c) /\ c.at = "write" /\ Typed
  BY DEF IInv, TypeOK, Typed, UpdateMember, At
<1>2. k \in c.todo /\ c.todo # {} /\ c.unread = {}
      /\ c.todo \subseteq Raised(c.read) \cup Closing(c.read)
  BY <1>1, ChangeIsLeft DEF CallOK
<1>3. Moved(c, k)
  BY <1>2 DEF Moved, UpdateMember
<1> QED  BY <1>1, <1>2, <1>3

(* A member the sync has updated is where the furthest one was.             *)
LEMMA DoneMember ==
    ASSUME Typed, NEW CONSTANT c \in CallState, NEW CONSTANT k, Moved(c, k),
           c.unread = {}, Advanced(c), Bounded(c),
           NEW CONSTANT d \in CallState, Known(d.read) \subseteq Key, Done(d), Advanced(d)
    PROVE  Done(d)'
<1>1. \A m \in Key :
        /\ app'[m] = "none" <=> app[m] = "none"
        /\ app'[m] = "rejected" <=> app[m] = "rejected"
        /\ app[m] # "none" => Order[app[m]] <= Order[app'[m]]
        /\ posting[m] = "closed" => posting'[m] = "closed"
  BY MovedUp
<1>2. Typed' /\ d.read \in [Key -> Seen]
  BY MovedTypes DEF CallState
<1>3. ASSUME NEW j \in Raised(d.read) \ d.todo, NEW m \in Known(d.read)
      PROVE  Order[d.read[m].app] <= Order[app'[j]]
  <2>1. /\ j \in Key /\ app[j] # "none" /\ app'[j] # "none"
        /\ Order[d.read[m].app] <= Order[app[j]] /\ Order[app[j]] <= Order[app'[j]]
    BY <1>1, <1>3 DEF Done, Raised, Advanced
  <2>2. d.read[m].app \in Status /\ app[j] \in Status /\ app'[j] \in Status
    BY <1>2, <1>3, <2>1 DEF Typed, Known, Seen
  <2> QED  BY <2>1, <2>2, StatusOrder
<1>4. ASSUME NEW j \in Closing(d.read) \ d.todo, app'[j] # "rejected"
      PROVE  posting'[j] = "closed"
  <2>1. j \in Key
    BY <1>4 DEF Closing
  <2> QED  BY <1>1, <1>4, <2>1 DEF Done
<1> QED  BY <1>3, <1>4 DEF Done

(* After its update the member is where the update was to bring it.         *)
LEMMA DoneHere ==
    ASSUME Typed, NEW CONSTANT c \in CallState, NEW CONSTANT k \in Key, Moved(c, k),
           NEW CONSTANT new \in CallState, new.read = c.read,
           new.todo = c.todo \ {k}, Done(c)'
    PROVE  Done(new)'
<1>1. c.read \in [Key -> Seen]
  BY DEF CallState
<1>2. ASSUME k \in Raised(c.read), NEW m \in Known(c.read)
      PROVE  Order[c.read[m].app] <= Order[app'[k]]
  <2>1. Known(c.read) # {} /\ app'[k] = Target(c.read)
    BY <1>2 DEF Moved, Typed, Raised
  <2> QED  BY <1>1, <1>2, <2>1, FurthestOn
<1>3. k \in Closing(c.read) => posting'[k] = "closed"
  BY DEF Moved, Typed
<1> QED  BY <1>2, <1>3 DEF Done

LEMMA UpdateMemberStep ==
    ASSUME IInv, NEW CONSTANT p \in Proc, UpdateMember(p)
    PROVE  IInv'
<1> DEFINE cp == call[p]
           kp == NextChange(cp)
           updated == [cp EXCEPT !.todo = @ \ {kp}]
<1>1. PICK c \in CallState, k \in Key :
        /\ c = cp /\ k = kp /\ k \in c.todo /\ CallOK(p, c) /\ c.at = "write"
        /\ c.unread = {} /\ Typed /\ Moved(c, k)
        /\ c.todo \subseteq Raised(c.read) \cup Closing(c.read)
  BY UpdateMoves, MovedTypes
<1>2. /\ call \in [Proc -> CallState] /\ left \in Left /\ calm \in BOOLEAN
      /\ holder \in Proc \cup {None} /\ LinkedOnce /\ groups \subseteq Group
      /\ UNCHANGED <<groups, holder, left>>
      /\ call' = [call EXCEPT ![p] = Continued(updated)]
      /\ calm' \in BOOLEAN /\ (calm' => calm \/ Quiet(call'))
  BY DEF IInv, TypeOK, Left, UpdateMember, Becomes, Unaffected, Quiet
<1>3. Continued(updated) \in CallState
  BY <1>1, IdleState DEF Continued, CallState, Syncing
<1>4. PICK new \in CallState :
        /\ new = Continued([c EXCEPT !.todo = @ \ {k}])
        /\ call' = [call EXCEPT ![p] = new]
  BY <1>1, <1>2, <1>3
<1>5. /\ call' \in [Proc -> CallState] /\ call'[p] = new
      /\ \A q \in Proc \ {p} : call'[q] = call[q]
  BY <1>2, <1>4
<1>6. \/ new = Idle
      \/ /\ new.at = "look" /\ new.read = c.read /\ new.unread = {}
         /\ new.todo = c.todo \ {k} /\ new.todo # {}
  BY <1>1, <1>4 DEF Continued, CallState
<1>7. TypeOK'
  <2>1. Typed'
    BY <1>1, MovedTypes
  <2> QED  BY <1>2, <1>5, <2>1 DEF TypeOK, Typed, Left
<1>8. LinkedOnce'
  BY <1>2 DEF LinkedOnce
<1>9. ASSUME NEW q \in Proc PROVE CallOK(q, call[q])'
  <2>1. CASE q = p
    <3>1. holder # p
      BY <1>1 DEF CallOK, Holding
    <3> QED  BY <1>1, <1>2, <1>5, <1>6, <2>1, <3>1, IdleState DEF CallOK, Holding
  <2>2. CASE q # p
    <3>1. call'[q] = call[q] /\ CallOK(q, call[q])
      BY <1>5, <2>2 DEF IInv
    <3> QED  BY <1>2, <3>1 DEF CallOK, Linked
  <2> QED  BY <2>1, <2>2
<1>10. ASSUME calm', NEW q \in Proc, call'[q].at \in Syncing
       PROVE  Undisturbed(call[q])'
  <2>1. calm
    BY <1>2, <1>10 DEF Quiet
  <2>2. Whole(c) /\ Advanced(c) /\ Bounded(c) /\ Done(c)
    BY <1>1, <2>1 DEF IInv, Syncing, Undisturbed
  <2>3. CASE q # p
    <3>1. PICK d \in CallState : d = call[q] /\ d = call'[q]
      BY <1>2, <1>5, <2>3
    <3>2. Whole(d) /\ Advanced(d) /\ Bounded(d) /\ (d.at # "read" => Done(d))
      BY <1>10, <2>1, <3>1 DEF IInv, Undisturbed
    <3>3. Whole(d)' /\ Advanced(d)' /\ Bounded(d)'
      BY <1>1, <1>2, <2>2, <3>2, MovedTogether
    <3>4. d.at # "read" => Done(d)'
      BY <1>1, <2>2, <3>2, DoneMember DEF Known
    <3> QED  BY <3>1, <3>3, <3>4 DEF Undisturbed, Whole, Advanced, Bounded, Done,
                         Members, Recorded, Now, NowPosting
  <2>4. CASE q = p
    <3>1. /\ new.at = "look" /\ new.read = c.read /\ new.unread = {}
          /\ new.todo = c.todo \ {k} /\ new = call'[q]
      BY <1>5, <1>6, <1>10, <2>4, IdleState DEF Syncing
    <3>2. Whole(c)' /\ Advanced(c)' /\ Bounded(c)'
      BY <1>1, <1>2, <2>2, MovedTogether
    <3>3. Done(c)'
      BY <1>1, <2>2, DoneMember DEF Known
    <3>4. Done(new)'
      BY <1>1, <2>2, <3>1, <3>3, DoneHere
    <3>5. Whole(new)' /\ Advanced(new)' /\ Bounded(new)'
      BY <1>1, <3>1, <3>2 DEF Whole, Advanced, Bounded, Members, Recorded, Now, NowPosting
    <3> QED  BY <3>1, <3>4, <3>5 DEF Undisturbed, Whole, Advanced, Bounded, Done,
                         Members, Recorded, Now, NowPosting
  <2> QED  BY <2>3, <2>4
<1> QED  BY <1>7, <1>8, <1>9, <1>10 DEF IInv

-----------------------------------------------------------------------------
LEMMA Initially == Init => IInv
<1> SUFFICES ASSUME Init PROVE IInv
  OBVIOUS
<1>1. /\ app \in [Key -> Status \cup {"none"}] /\ posting \in [Key -> Posting]
      /\ left \in Left
  BY LinkAssumption DEF Init, Status, Posting, Left
<1>2. call \in [Proc -> CallState] /\ \A p \in Proc : call[p] = Idle
  BY IdleState DEF Init
<1>3. TypeOK /\ LinkedOnce
  BY <1>1, <1>2 DEF Init, TypeOK, LinkedOnce, Left
<1>4. ASSUME NEW p \in Proc
      PROVE  CallOK(p, call[p]) /\ call[p].at \notin Syncing
  BY <1>2, IdleState, LinkAssumption DEF Init, CallOK, Holding, Syncing
<1> QED  BY <1>3, <1>4 DEF IInv

LEMMA Stuttering == IInv /\ UNCHANGED vars => IInv'
<1> SUFFICES ASSUME IInv, UNCHANGED vars PROVE IInv'
  OBVIOUS
<1>1. TypeOK' /\ LinkedOnce' /\ \A p \in Proc : CallOK(p, call[p])'
  BY DEF IInv, vars, TypeOK, LinkedOnce, CallOK, Linked
<1>2. ASSUME calm', NEW p \in Proc, call'[p].at \in Syncing
      PROVE  Undisturbed(call[p])'
  BY <1>2 DEF IInv, vars, Undisturbed, Whole, Advanced, Bounded, Done,
              Members, Recorded, Now, NowPosting
<1> QED  BY <1>1, <1>2 DEF IInv

LEMMA Inductive == IInv /\ [Next]_vars => IInv'
<1> SUFFICES ASSUME IInv, Next PROVE IInv'
  BY Stuttering
<1>1. CASE Edit
  BY <1>1, EditStep
<1>2. ASSUME NEW CONSTANT p \in Proc, LinkStep(p) PROVE IInv'
  BY <1>2, CreateStep, SaveGroupStep, UnlinkStep, RemoveMemberStep DEF LinkStep
<1>3. ASSUME NEW CONSTANT p \in Proc, SyncStep(p) PROVE IInv'
  BY <1>3, ReadMemberStep, LookStep, UpdateMemberStep DEF SyncStep
<1>4. ASSUME NEW CONSTANT p \in Proc, Stop(p) PROVE IInv'
  BY <1>4, StopStep
<1>5. ASSUME NEW CONSTANT p \in Proc, NEW keys \in Group, Add(p, keys) PROVE IInv'
  BY <1>5, AddStep
<1>6. ASSUME NEW CONSTANT p \in Proc, NEW k \in Key, Remove(p, k) \/ StartSync(p, k)
      PROVE  IInv'
  BY <1>6, RemoveStep, StartSyncStep
<1> QED  BY <1>1, <1>2, <1>3, <1>4, <1>5, <1>6 DEF Next

(* The inductive invariant holds in every reachable state.                  *)
THEOREM Invariant == Spec => []IInv
BY Initially, Inductive, PTL DEF Spec

(* Every reachable state of the groups, the records and the running         *)
(* commands is a state the code can be in.                                  *)
THEOREM TypeCorrect == Spec => []TypeOK
<1>1. IInv => TypeOK
  BY DEF IInv
<1> QED  BY <1>1, Invariant, PTL

(* However many add and remove commands run at once, a posting is in one    *)
(* group at most (LinkStore.create and remove_member under the lock).       *)
THEOREM OneGroupEach == Spec => []LinkedOnce
<1>1. IInv => LinkedOnce
  BY DEF IInv
<1> QED  BY <1>1, Invariant, PTL

(* Syncs that overlap nothing but each other lower no status and leave      *)
(* rejections alone (LinkService.sync).                                     *)
THEOREM SyncsProgress == Spec => Progress
<1> DEFINE Step == calm /\ left' = left =>
             \A k \in Key : \/ app'[k] = app[k]
                            \/ /\ app[k] \notin {"none", "rejected"}
                               /\ app'[k] \in Status
                               /\ Order[app[k]] < Order[app'[k]]
<1>1. IInv /\ [Next]_vars => [Step]_vars
  <2> SUFFICES ASSUME IInv, Next, calm, left' = left, NEW k \in Key, app'[k] # app[k]
               PROVE  /\ app[k] \notin {"none", "rejected"}
                      /\ app'[k] \in Status
                      /\ Order[app[k]] < Order[app'[k]]
    OBVIOUS
  <2>1. left \in Left
    BY DEF IInv, TypeOK, Left
  <2>2. ~Edit
    BY <2>1 DEF Edit, Collect, SetStatus, SetPosting, Edited, Left
  <2>3. PICK p \in Proc : UpdateMember(p)
    BY <2>2 DEF Next, LinkStep, SyncStep, Add, Remove, StartSync, Create, SaveGroup,
                Unlink, RemoveMember, ReadMember, Look, Stop
  <2>4. PICK c \in CallState, j \in Key :
          /\ c = call[p] /\ c.at = "write" /\ c.unread = {} /\ Typed /\ Moved(c, j)
    BY <2>3, UpdateMoves, MovedTypes
  <2>5. Advanced(c) /\ Bounded(c)
    BY <2>4 DEF IInv, Undisturbed, Syncing
  <2>6. /\ app'[k] = "none" <=> app[k] = "none"
        /\ app'[k] = "rejected" <=> app[k] = "rejected"
        /\ app[k] # "none" => Order[app[k]] <= Order[app'[k]]
    BY <2>4, <2>5, MovedUp
  <2>7. Typed'
    BY <2>4, MovedTypes
  <2>8. k = j /\ k \in Raised(c.read)
    BY <2>4 DEF Moved, Typed
  <2>9. app[k] \notin {"none", "rejected"}
    BY <2>4, <2>5, <2>8 DEF Raised, Advanced
  <2>10. app[k] \in Status /\ app'[k] \in Status
    BY <2>4, <2>6, <2>7, <2>9 DEF Typed
  <2> QED  BY <2>6, <2>9, <2>10, StatusOrder
<1> QED  BY <1>1, Invariant, PTL DEF Spec, Progress

(* A sync that has nothing left to read or to write is done: the members it *)
(* knows that are not rejected are where the furthest one is.               *)
LEMMA Finished ==
    ASSUME Typed', NEW CONSTANT e \in CallState, e.unread = {}, e.todo = {},
           Advanced(e)', Bounded(e)', Done(e)',
           NEW CONSTANT k \in Known(e.read), NEW CONSTANT m \in Known(e.read)
    PROVE  Agree(k, m)'
<1> DEFINE T == Target(e.read)
<1>1. /\ e.read \in [Key -> Seen] /\ Known(e.read) \subseteq Key
      /\ Known(e.read) # {}
      /\ \A j \in Known(e.read) : e.read[j].app \in Status
                                  /\ e.read[j].posting \in Posting
  BY DEF CallState, Known, Seen
<1>2. /\ T \in Status
      /\ \E j \in Known(e.read) : e.read[j].app = T
      /\ \A j \in Known(e.read) : Order[e.read[j].app] <= Order[T]
  BY <1>1, FurthestOn
<1>3. ASSUME NEW j \in Known(e.read), Open(j)'
      PROVE  /\ app'[j] = T
             /\ \A i \in Known(e.read) : posting'[i] = "closed" => posting'[j] = "closed"
  <2>1. /\ app'[j] \in Status \ {"rejected"} /\ j \in Key
        /\ e.read[j].app # "rejected"
        /\ Order[e.read[j].app] <= Order[app'[j]]
    BY <1>1, <1>3 DEF Open, Typed, Advanced
  <2>2. Recorded(e)' \subseteq Known(e.read) /\ Known(e.read) \subseteq Recorded(e)'
    BY DEF Recorded, Members, Advanced
  <2>3. \E i \in Known(e.read) : Order[app'[j]] <= Order[e.read[i].app]
    BY <2>2 DEF Bounded, Now
  <2>4. Order[app'[j]] <= Order[T]
    BY <1>1, <1>2, <2>1, <2>3, StatusOrder
  <2>5. Order[T] <= Order[app'[j]]
    <3>1. CASE j \in Raised(e.read)
      BY <1>2, <3>1 DEF Done
    <3>2. CASE j \notin Raised(e.read)
      <4>1. \A i \in Known(e.read) : ~(Order[e.read[j].app] < Order[e.read[i].app])
        BY <2>1, <3>2 DEF Raised
      <4> QED  BY <1>1, <1>2, <2>1, <4>1, StatusOrder
    <3> QED  BY <3>1, <3>2
  <2>6. app'[j] = T
    BY <1>2, <2>1, <2>4, <2>5, StatusOrder
  <2>7. ASSUME NEW i \in Known(e.read), posting'[i] = "closed"
        PROVE  posting'[j] = "closed"
    <3>1. PICK h \in Known(e.read) : e.read[h].posting = "closed"
      BY <2>2, <2>7 DEF Bounded, NowPosting
    <3>2. CASE e.read[j].posting = "closed"
      BY <3>2 DEF Advanced
    <3>3. CASE e.read[j].posting # "closed"
      BY <2>1, <3>1, <3>3 DEF Closing, Done
    <3> QED  BY <3>2, <3>3
  <2> QED  BY <2>6, <2>7
<1>4. posting'[k] \in {"active", "closed"} /\ posting'[m] \in {"active", "closed"}
  BY <1>1 DEF Typed, Posting
<1> QED  BY <1>3, <1>4 DEF Agree

LEMMA ReadMemberEnds ==
    ASSUME IInv, NEW CONSTANT p \in Proc, ReadMember(p), calm, call'[p].at = "idle",
           NEW CONSTANT k, NEW CONSTANT m, k \in Members(call[p]), m \in Members(call[p])
    PROVE  Agree(k, m)'
<1> DEFINE c == call[p]
           last == Min(c.unread)
           read == [c.read EXCEPT ![last] = [app |-> app[last], posting |-> posting[last]]]
           rest == c.unread \ {last}
           all == [c EXCEPT !.read = read, !.unread = {},
                            !.todo = Raised(read) \cup Closing(read)]
<1>1. /\ call \in [Proc -> CallState] /\ c.at = "read" /\ CallOK(p, c)
      /\ c \in CallState /\ Typed /\ UNCHANGED <<groups, app, posting>>
      /\ call'[p] = IF rest # {} THEN [c EXCEPT !.read = read, !.unread = rest]
                                 ELSE Continued(all)
      /\ Whole(c) /\ Advanced(c) /\ Bounded(c)
  BY DEF IInv, TypeOK, ReadMember, At, Becomes, Typed, Undisturbed, Syncing
<1>2. last \in c.unread /\ c.unread \in SUBSET Key /\ last \in Key
  BY <1>1, LeastMember DEF CallOK, CallState
<1>3. read \in [Key -> Seen]
  BY <1>1, <1>2 DEF CallState, Seen, Typed
<1>4. /\ all \in CallState /\ all.read = read /\ all.unread = {}
      /\ all.todo = Raised(read) \cup Closing(read)
  BY <1>1, <1>3 DEF CallState, Raised, Closing, Known
<1> HIDE DEF last, read, all
<1>5. rest = {} /\ all.todo = {}
  <2>1. CASE rest # {}
    BY <1>1, <2>1 DEF CallState
  <2>2. CASE rest = {} /\ all.todo # {}
    BY <1>1, <1>4, <2>2 DEF Continued, CallState
  <2> QED  BY <2>1, <2>2
<1>6. PICK e \in CallState : e = all
  BY <1>4
<1>7. Advanced(e) /\ Bounded(e)
  BY <1>1, <1>2, <1>4, <1>5, <1>6, OneMoreRead DEF read, Typed
<1>8. Done(e)
  BY <1>4, <1>6 DEF Done
<1>9. Typed' /\ Advanced(e)' /\ Bounded(e)' /\ Done(e)'
  BY <1>1, <1>7, <1>8 DEF Typed, Advanced, Bounded, Done, Recorded, Now, NowPosting
<1>10. \A j \in Members(c) : j \in Known(e.read) \/ app'[j] = "none"
  <2>1. /\ read[last].app = app[last]
        /\ \A j \in Key \ {last} : read[j] = c.read[j]
    BY <1>1, <1>2 DEF read, CallState
  <2>2. e.read = read /\ c.unread \subseteq {last}
    BY <1>4, <1>5, <1>6
  <2> QED  BY <1>1, <1>2, <2>1, <2>2 DEF Members, Known
<1>11. CASE k \in Known(e.read) /\ m \in Known(e.read)
  BY <1>4, <1>5, <1>6, <1>9, <1>11, Finished
<1>12. CASE ~(k \in Known(e.read) /\ m \in Known(e.read))
  BY <1>10, <1>12 DEF Agree, Open
<1> QED  BY <1>11, <1>12

LEMMA LookEnds ==
    ASSUME IInv, NEW CONSTANT p \in Proc, Look(p), calm, call'[p].at = "idle",
           NEW CONSTANT k, NEW CONSTANT m, k \in Members(call[p]), m \in Members(call[p])
    PROVE  Agree(k, m)'
<1> DEFINE c == call[p] skip == NextChange(c)
<1>1. /\ call \in [Proc -> CallState] /\ c.at = "look" /\ CallOK(p, c)
      /\ c \in CallState /\ Typed /\ UNCHANGED <<groups, app, posting>>
      /\ call'[p] = IF app[skip] = "rejected" THEN Continued([c EXCEPT !.todo = @ \ {skip}])
                                              ELSE [c EXCEPT !.at = "write"]
      /\ Undisturbed(c)
  BY DEF IInv, TypeOK, Look, At, Becomes, Typed, Syncing
<1>2. skip \in c.todo /\ c.unread = {} /\ c.todo \subseteq Key
  BY <1>1, ChangeIsLeft DEF CallOK, CallState
<1> HIDE DEF skip
<1>3. app[skip] = "rejected" /\ c.todo \ {skip} = {}
  BY <1>1 DEF Continued, CallState
<1>4. PICK e \in CallState : e = [c EXCEPT !.todo = @ \ {skip}]
  BY <1>1 DEF CallState
<1>5. e.read = c.read /\ e.unread = {} /\ e.todo = {} /\ e.todo = c.todo \ {skip}
  BY <1>1, <1>2, <1>3, <1>4 DEF CallState
<1>6. Advanced(e) /\ Bounded(e) /\ Done(e)
  BY <1>1, <1>2, <1>3, <1>5, SkippedMember
<1>7. Typed' /\ Advanced(e)' /\ Bounded(e)' /\ Done(e)'
  BY <1>1, <1>6 DEF Typed, Advanced, Bounded, Done, Recorded, Now, NowPosting
<1>8. k \in Known(e.read) /\ m \in Known(e.read)
  BY <1>2, <1>5 DEF Members
<1> QED  BY <1>5, <1>7, <1>8, Finished

LEMMA UpdateMemberEnds ==
    ASSUME IInv, NEW CONSTANT p \in Proc, UpdateMember(p), calm, call'[p].at = "idle",
           NEW CONSTANT k, NEW CONSTANT m, k \in Members(call[p]), m \in Members(call[p])
    PROVE  Agree(k, m)'
<1>1. PICK c \in CallState, j \in Key :
        /\ c = call[p] /\ j = NextChange(call[p]) /\ j \in c.todo /\ c.at = "write"
        /\ c.unread = {} /\ Typed /\ Moved(c, j)
  BY UpdateMoves, MovedTypes
<1>2. /\ call'[p] = Continued([c EXCEPT !.todo = @ \ {j}])
      /\ UNCHANGED groups /\ LinkedOnce
      /\ Whole(c) /\ Advanced(c) /\ Bounded(c) /\ Done(c)
  BY <1>1 DEF UpdateMember, Becomes, IInv, TypeOK, Undisturbed, Syncing
<1>3. c.todo \ {j} = {}
  BY <1>1, <1>2 DEF Continued, CallState
<1>4. PICK e \in CallState : e = [c EXCEPT !.todo = @ \ {j}]
  BY <1>1 DEF CallState
<1>5. /\ e.read = c.read /\ e.unread = {} /\ e.todo = {} /\ e.todo = c.todo \ {j}
  BY <1>1, <1>3, <1>4 DEF CallState
<1>6. Typed' /\ Advanced(c)' /\ Bounded(c)'
  BY <1>1, <1>2, MovedTypes, MovedTogether
<1>7. Done(c)'
  BY <1>1, <1>2, DoneMember DEF Known
<1>8. Done(e)'
  BY <1>1, <1>5, <1>7, DoneHere
<1>9. Advanced(e)' /\ Bounded(e)'
  BY <1>1, <1>5, <1>6 DEF Advanced, Bounded, Members, Recorded, Now, NowPosting
<1>10. k \in Known(e.read) /\ m \in Known(e.read)
  BY <1>1, <1>5 DEF Members
<1> QED  BY <1>5, <1>6, <1>8, <1>9, <1>10, Finished

(* A sync that ends while nothing but syncs changed anything leaves the     *)
(* members of its group together, whatever an interrupted sync before it    *)
(* had left undone.                                                         *)
THEOREM SyncsBringTogether == Spec => Together
<1> DEFINE Step == \A p \in Proc :
             call[p].at \in Syncing /\ call'[p].at = "idle" /\ left' = left /\ calm
                => \A k, m \in Members(call[p]) : Agree(k, m)'
<1>1. IInv /\ [Next]_vars => [Step]_vars
  <2> SUFFICES ASSUME IInv, Next, NEW CONSTANT p \in Proc, call[p].at \in Syncing,
                      call'[p].at = "idle", left' = left, calm,
                      NEW CONSTANT k, NEW CONSTANT m,
                      k \in Members(call[p]), m \in Members(call[p])
               PROVE  Agree(k, m)'
    BY DEF vars
  <2>1. call \in [Proc -> CallState] /\ left \in Left
    BY DEF IInv, TypeOK, Left
  <2>2. call'[p].at # call[p].at
    BY DEF Syncing
  <2>3. ~Edit
    BY <2>1 DEF Edit, Collect, SetStatus, SetPosting, Edited, Left
  <2>4. PICK q \in Proc :
          \/ \E keys \in Group : Add(q, keys)
          \/ \E j \in Key : Remove(q, j) \/ StartSync(q, j)
          \/ LinkStep(q) \/ SyncStep(q) \/ Stop(q)
    BY <2>3 DEF Next
  <2>5. q = p
    BY <2>1, <2>2, <2>4 DEF LinkStep, SyncStep, Add, Remove, StartSync, Create, SaveGroup,
          Unlink, RemoveMember, ReadMember, Look, UpdateMember, Stop, Becomes
  <2>6. ReadMember(p) \/ Look(p) \/ UpdateMember(p)
    <3>1. ~Stop(p)
      BY <2>1 DEF Stop, Left
    <3>2. \A keys \in Group : ~Add(p, keys)
      BY DEF Add, At, Syncing
    <3>3. \A j \in Key : ~Remove(p, j) /\ ~StartSync(p, j)
      BY DEF Remove, StartSync, At, Syncing
    <3>4. ~LinkStep(p)
      BY DEF LinkStep, Create, SaveGroup, Unlink, RemoveMember, At, Syncing
    <3> QED  BY <2>4, <2>5, <3>1, <3>2, <3>3, <3>4 DEF SyncStep
  <2> QED  BY <2>6, ReadMemberEnds, LookEnds, UpdateMemberEnds
<1> QED  BY <1>1, Invariant, PTL DEF Spec, Together
=============================================================================
