--------------------------- MODULE MCRecordStore ---------------------------
(* Small instances of RecordStore: a few operations of each kind. *)
EXTENDS RecordStoreInv

CONSTANTS p1, p2, r1, r2, r3, j1, j2, s1, s2, recommended, hold, claude,
          local, title, pending, applied, active, closed

New(jd) == [jd |-> jd, screening |-> None, verdict |-> None,
            provider |-> None, capped |-> FALSE, prescreen |-> None,
            status |-> pending, posting |-> active, history |-> <<>>]
Create(jd) == [kind |-> "create", record |-> New(jd)]
Save(jd)   == [kind |-> "save", record |-> New(jd)]
Replace(jd) == [kind |-> "replace_jd", jd |-> jd]
SetVerdict(v) == [kind |-> "verdict", verdict |-> v, reason |-> None]
SetStatus(s, p) == [kind |-> "status", status |-> s, posting |-> p]
Get == [kind |-> "get"]
Metadata == [kind |-> "metadata"]

NoExpectation == [posting |-> {active, closed},
                  provider |-> {claude, local, None},
                  screening |-> {s1, s2, None}, jd |-> {j1, j2}]
Screen(s, v, jds) ==
    [kind |-> "screening_result", screening |-> s, verdict |-> v,
     provider |-> claude, capped |-> FALSE,
     expected |-> [NoExpectation EXCEPT !.jd = jds]]
(* the local fallback leaves verdict and cap as they are *)
Fallback(s) ==
    [kind |-> "screening_result", screening |-> s, verdict |-> None,
     provider |-> local, capped |-> None,
     expected |-> [NoExpectation EXCEPT !.screening = {None}]]

(* Content writers, status updates and readers of one record. *)
ContentOps == {Create(j1), Save(j2), Screen(s1, recommended, {j1}),
               Replace(j2), SetStatus(applied, None), Get}

(* Writers of single fields, a reader, and the two forms of screening        *)
(* publication.                                                            *)
MetadataOps == {Create(j1), Fallback(s1), SetVerdict(hold), Metadata}
EveryOp == ContentOps \cup MetadataOps

(* The operations of one behaviour are those of one of the two sets.        *)
VARIABLE offered

(* A new revision has a name nobody uses: which one, does not matter, as no *)
(* definition names one, so it is the first of them.                        *)
Names == <<r1, r2, r3>>
Free(r) == Unused(r) /\ \A p \in Proc : rev[p] # r
First(r) == \A i, j \in DOMAIN Names : r = Names[j] /\ i < j => ~Free(Names[i])

MCInit == Init /\ offered \in {ContentOps, MetadataOps}
MCNext ==
    /\ Next
    /\ \A p \in Proc : /\ op'[p] \in offered \cup {None}
                       /\ rev'[p] \in {rev[p], None} \cup {r \in Rev : First(r)}
    /\ UNCHANGED offered
MCSpec == MCInit /\ [][MCNext]_<<vars, offered>> /\ \A p \in Proc : WF_vars(Step(p))
=============================================================================
