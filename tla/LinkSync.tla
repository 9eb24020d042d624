------------------------------ MODULE LinkSync ------------------------------
(* Postings of one job on several platforms: the link groups of            *)
(* adapters/storage/link_store.py and the synchronisation of statuses of    *)
(* application/linking.py, run by several processes while statuses are set  *)
(* by the user, the console, `run auto` and the posting checks.             *)
EXTENDS Integers, FiniteSets, FiniteSetsExt

CONSTANTS
    None,
    N,           \* the postings are 1..N, in the order of their keys
    Proc,        \* processes that run link commands
    Collected,   \* the postings that have a record at first
    Chosen,      \* statuses set by others than the sync, in this instance
    MaxEdits, MaxLinks, MaxStops   \* bounds

Key == 1..N
Status == {"pending", "applied", "interview", "offer", "rejected"}
Posting == {"active", "closed"}
Order == [pending |-> 0, applied |-> 1, interview |-> 2, offer |-> 3,
          rejected |-> -1]                                \* _APP_STATUS_ORDER

ASSUME LinkAssumption ==
    /\ N \in Nat
    /\ Collected \subseteq Key
    /\ Chosen \subseteq Status
    /\ None \notin Proc
    /\ MaxEdits \in Nat /\ MaxLinks \in Nat /\ MaxStops \in Nat

VARIABLES
    groups,      \* the members of each group file
    holder,      \* the process that holds the lock file exclusively, or None
    app,         \* application status of each record, "none" without a record
    posting,     \* posting status of each record
    call,        \* what each process is doing
    calm,        \* history: since no sync was running, nothing but syncs
                 \* has changed a status or a group
    left         \* edits, link changes and interruptions that may still happen

vars == <<groups, holder, app, posting, call, calm, left>>

Seen == [app : Status \cup {"none"}, posting : Posting]
Unseen == [app |-> "none", posting |-> "active"]
Group == {members \in SUBSET Key : Cardinality(members) >= 2}

Idle == [at |-> "idle", keys |-> {}, unread |-> {},
         read |-> [k \in Key |-> Unseen], todo |-> {}]
Syncing == {"read", "look", "write"}
CallState == [at : {"idle", "add", "create", "remove", "unlink"} \cup Syncing,
              keys : SUBSET Key, unread : SUBSET Key,
              read : [Key -> Seen], todo : SUBSET Key]

Init ==
    /\ groups = {}
    /\ holder = None
    /\ app = [k \in Key |-> IF k \in Collected THEN "pending" ELSE "none"]
    /\ posting = [k \in Key |-> "active"]
    /\ call = [p \in Proc |-> Idle]
    /\ calm = TRUE
    /\ left = [edits |-> MaxEdits, links |-> MaxLinks, stops |-> MaxStops]

At(p, stage) == call[p].at = stage
Becomes(p, state) == call' = [call EXCEPT ![p] = state]
Quiet(calls) == \A p \in Proc : calls[p].at \notin Syncing
Overlapped == calm' = Quiet(call')             \* by a change of someone else
Unaffected == calm' = (calm \/ Quiet(call'))

-----------------------------------------------------------------------------
(* LinkStore: a reader waits for the holder of the lock, a writer looks     *)
(* again and writes while it holds it.                                      *)

Linked(k) == \E members \in groups : k \in members

(* add_link: nothing to do when exactly these keys are a group already      *)
Add(p, keys) ==
    /\ At(p, "idle") /\ holder = None
    /\ left.links > 0 /\ left' = [left EXCEPT !.links = @ - 1]
    /\ keys \notin groups
    /\ Becomes(p, [Idle EXCEPT !.at = "add", !.keys = keys])
    /\ UNCHANGED <<groups, holder, app, posting, calm>>

(* mutation: the keys are looked up without keeping the lock                *)
CreateUnlocked(p) ==
    /\ At(p, "add") /\ holder = None
    /\ \/ /\ \A k \in call[p].keys : ~Linked(k)
          /\ Becomes(p, [call[p] EXCEPT !.at = "create"])
       \/ /\ \E k \in call[p].keys : Linked(k)
          /\ Becomes(p, Idle)
    /\ UNCHANGED <<groups, holder, app, posting, calm, left>>
(* create: a key that has a group already is refused                        *)
Create(p) ==
    /\ At(p, "add") /\ holder = None
    /\ \/ /\ \A k \in call[p].keys : ~Linked(k)
          /\ holder' = p
          /\ Becomes(p, [call[p] EXCEPT !.at = "create"])
       \/ /\ \E k \in call[p].keys : Linked(k)
          /\ holder' = holder
          /\ Becomes(p, Idle)
    /\ UNCHANGED <<groups, app, posting, calm, left>>

SaveGroup(p) ==
    /\ At(p, "create")
    /\ groups' = groups \cup {call[p].keys}
    /\ holder' = None
    /\ Becomes(p, Idle)
    /\ Overlapped
    /\ UNCHANGED <<app, posting, left>>

(* remove_link finds a group, remove_member looks for it again              *)
Remove(p, k) ==
    /\ At(p, "idle") /\ holder = None
    /\ left.links > 0 /\ left' = [left EXCEPT !.links = @ - 1]
    /\ Linked(k)
    /\ Becomes(p, [Idle EXCEPT !.at = "remove", !.keys = {k}])
    /\ UNCHANGED <<groups, holder, app, posting, calm>>

Unlink(p) ==
    /\ At(p, "remove") /\ holder = None
    /\ \/ \E members \in groups :
             /\ call[p].keys \subseteq members
             /\ holder' = p
             /\ Becomes(p, [call[p] EXCEPT !.at = "unlink", !.todo = members])
       \/ /\ \A members \in groups : ~(call[p].keys \subseteq members)
          /\ holder' = holder
          /\ Becomes(p, Idle)
    /\ UNCHANGED <<groups, app, posting, calm, left>>

(* a group of one is no group: its file is removed                          *)
Remaining(members, keys) ==
    IF Cardinality(members \ keys) < 2 THEN {} ELSE {members \ keys}

RemoveMember(p) ==
    /\ At(p, "unlink")
    /\ groups' = (groups \ {call[p].todo}) \cup Remaining(call[p].todo, call[p].keys)
    /\ holder' = None
    /\ Becomes(p, Idle)
    /\ Overlapped
    /\ UNCHANGED <<app, posting, left>>

-----------------------------------------------------------------------------
(* LinkService.sync: the group, its members one by one, then the changes    *)
(* one by one, each after a second look at the member.                      *)

StartSync(p, k) ==
    /\ At(p, "idle") /\ holder = None
    /\ \E members \in groups :
          /\ k \in members
          /\ Becomes(p, [Idle EXCEPT !.at = "read", !.unread = members])
    /\ UNCHANGED <<groups, holder, app, posting, calm, left>>

Known(read) == {k \in Key : read[k].app # "none"}
Raised(read) ==
    {k \in Known(read) :
        /\ read[k].app # "rejected"
        /\ \E m \in Known(read) : Order[read[k].app] < Order[read[m].app]}
Closing(read) ==
    {k \in Known(read) : /\ read[k].posting # "closed"
                         /\ \E m \in Known(read) : read[m].posting = "closed"}
(* mutation: the last member in key order is taken for it                   *)
TargetLast(read) == read[Max(Known(read))].app
(* the status of the member that is furthest on                             *)
Target(read) ==
    CHOOSE s \in Status :
        /\ \E m \in Known(read) : read[m].app = s
        /\ \A m \in Known(read) : Order[read[m].app] <= Order[s]

(* the changes of application status come first                             *)
NextChange(state) ==
    LET raises == state.todo \cap Raised(state.read)
    IN Min(IF raises # {} THEN raises ELSE state.todo)

Continued(state) == IF state.todo = {} THEN Idle ELSE [state EXCEPT !.at = "look"]

ReadMember(p) ==
    /\ At(p, "read")
    /\ LET k == Min(call[p].unread)
           read == [call[p].read EXCEPT ![k] = [app |-> app[k], posting |-> posting[k]]]
           rest == call[p].unread \ {k}
       IN Becomes(p, IF rest # {}
                     THEN [call[p] EXCEPT !.read = read, !.unread = rest]
                     ELSE Continued([call[p] EXCEPT !.read = read, !.unread = {},
                                       !.todo = Raised(read) \cup Closing(read)]))
    /\ Unaffected
    /\ UNCHANGED <<groups, holder, app, posting, left>>

(* a member rejected in the meantime is left alone                          *)
Look(p) ==
    /\ At(p, "look")
    /\ LET k == NextChange(call[p])
       IN Becomes(p, IF app[k] = "rejected"
                     THEN Continued([call[p] EXCEPT !.todo = @ \ {k}])
                     ELSE [call[p] EXCEPT !.at = "write"])
    /\ Unaffected
    /\ UNCHANGED <<groups, holder, app, posting, left>>

(* mutation: a member that is raised is not closed as well                  *)
UpdateEither(p) ==
    /\ At(p, "write")
    /\ LET k == NextChange(call[p]) read == call[p].read
       IN /\ app' = IF k \in Raised(read)
                    THEN [app EXCEPT ![k] = Target(read)] ELSE app
          /\ posting' = IF k \in Closing(read) \ Raised(read)
                        THEN [posting EXCEPT ![k] = "closed"] ELSE posting
          /\ Becomes(p, Continued([call[p] EXCEPT !.todo = @ \ {k}]))
    /\ Unaffected
    /\ UNCHANGED <<groups, holder, left>>
UpdateMember(p) ==
    /\ At(p, "write")
    /\ LET k == NextChange(call[p]) read == call[p].read
       IN /\ app' = IF k \in Raised(read)
                    THEN [app EXCEPT ![k] = Target(read)] ELSE app
          /\ posting' = IF k \in Closing(read)
                        THEN [posting EXCEPT ![k] = "closed"] ELSE posting
          /\ Becomes(p, Continued([call[p] EXCEPT !.todo = @ \ {k}]))
    /\ Unaffected
    /\ UNCHANGED <<groups, holder, left>>

-----------------------------------------------------------------------------
(* A record is collected; its application status is set (set-status, the    *)
(* console, a posting set aside for an earlier application); its posting    *)
(* status is set (set-status, check_closed, --recheck-closed, backfill,     *)
(* set aside as closed).  Each is one update that looks at nothing.         *)

Edited == left.edits > 0 /\ left' = [left EXCEPT !.edits = @ - 1]

Collect(k) ==
    /\ Edited
    /\ app[k] = "none"
    /\ app' = [app EXCEPT ![k] = "pending"]
    /\ UNCHANGED call /\ Overlapped
    /\ UNCHANGED <<groups, holder, posting>>

SetStatus(k, s) ==
    /\ Edited
    /\ app[k] # "none"
    /\ app' = [app EXCEPT ![k] = s]
    /\ UNCHANGED call /\ Overlapped
    /\ UNCHANGED <<groups, holder, posting>>

SetPosting(k, s) ==
    /\ Edited
    /\ app[k] # "none"
    /\ posting' = [posting EXCEPT ![k] = s]
    /\ UNCHANGED call /\ Overlapped
    /\ UNCHANGED <<groups, holder, app>>

(* A process is killed, or an update raises: the lock goes with it.         *)
Stop(p) ==
    /\ ~At(p, "idle")
    /\ left.stops > 0 /\ left' = [left EXCEPT !.stops = @ - 1]
    /\ holder' = IF holder = p THEN None ELSE holder
    /\ Becomes(p, Idle)
    /\ Unaffected
    /\ UNCHANGED <<groups, app, posting>>

-----------------------------------------------------------------------------
LinkStep(p) == Create(p) \/ SaveGroup(p) \/ Unlink(p) \/ RemoveMember(p)
SyncStep(p) == ReadMember(p) \/ Look(p) \/ UpdateMember(p)
Edit == \E k \in Key : \/ Collect(k)
                       \/ \E s \in Chosen : SetStatus(k, s)
                       \/ \E s \in Posting : SetPosting(k, s)

Next ==
    \/ \E p \in Proc :
          \/ \E keys \in Group : Add(p, keys)
          \/ \E k \in Key : Remove(p, k) \/ StartSync(p, k)
          \/ LinkStep(p) \/ SyncStep(p) \/ Stop(p)
    \/ Edit

Spec == Init /\ [][Next]_vars

-----------------------------------------------------------------------------
TypeOK ==
    /\ groups \subseteq Group
    /\ holder \in Proc \cup {None}
    /\ app \in [Key -> Status \cup {"none"}]
    /\ posting \in [Key -> Posting]
    /\ call \in [Proc -> CallState]
    /\ calm \in BOOLEAN
    /\ left \in [edits : Nat, links : Nat, stops : Nat]

(* A posting is in one group at most, whatever add and remove commands run  *)
(* at once (LinkStore.create, remove_member).                               *)
LinkedOnce ==
    \A g, h \in groups : g # h => g \cap h = {}

(* While syncs overlap nothing but each other, they lower no status and     *)
(* leave rejections alone (LinkService.sync).                               *)
Progress == [][calm /\ left' = left =>
                 \A k \in Key : \/ app'[k] = app[k]
                                \/ /\ app[k] \notin {"none", "rejected"}
                                   /\ app'[k] \in Status
                                   /\ Order[app[k]] < Order[app'[k]]]_vars

(* A sync that ends while nothing else has changed anything leaves the      *)
(* members of its group together, whatever an interrupted sync before it    *)
(* had left undone (test_sync_partial_failure_then_rerun_converges).        *)
Open(k) == app[k] \notin {"none", "rejected"}
Agree(k, m) ==
    (Open(k) /\ Open(m) /\ \E g \in groups : {k, m} \subseteq g)
        => app[k] = app[m] /\ posting[k] = posting[m]
Members(state) == Known(state.read) \cup state.unread
Together ==
    [][\A p \in Proc :
         call[p].at \in Syncing /\ call'[p].at = "idle" /\ left' = left /\ calm
            => \A k, m \in Members(call[p]) : Agree(k, m)']_vars

=============================================================================
