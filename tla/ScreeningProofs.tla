-------------------------- MODULE ScreeningProofs --------------------------
(* Machine-checked proofs about ScreeningRuns, for every set of JDs and     *)
(* callers, every provider chain and any number of calls, refreshes and     *)
(* crashes.  IInv (ScreeningInv) is inductive; the properties follow.       *)
EXTENDS ScreeningInv, TLAPS

USE DEF Process

(* The bounds of the model as a state of their own type.                    *)
Left == [calls: Nat, edits: Nat, crashes: Nat]

(* What IInv asks of the call of the snapshot rescreen.                     *)
RunnerOK(c) ==
    /\ c.at # "idle" => snapshot # None
    /\ c.at = "eligible" => journal = "open"
    /\ c.at \in Working \cup {"load", "report"} => journal = "started"

(* A step that moves one call to a good state and leaves a good record      *)
(* keeps the invariant.                                                     *)
LEMMA CallAndRecordMove ==
    ASSUME IInv, MarkStays, NEW CONSTANT p \in Process, NEW CONSTANT new \in CallState,
           call' = [call EXCEPT ![p] = new], CallOK(p, new),
           p = Runner => RunnerOK(new),
           record' \in Loadable, JudgesStoredJd', LocalNeverRecommends',
           UNCHANGED <<snapshot, journal>>, left' \in Left
    PROVE  IInv'
<1>1. call \in [Process -> CallState]
  BY DEF IInv, TypeOK
<1>2. /\ call' \in [Process -> CallState]
      /\ call'[p] = new
      /\ \A q \in Process \ {p} : call'[q] = call[q]
  BY <1>1
<1>3. TypeOK'
  BY <1>2 DEF IInv, TypeOK, Left, MarkStays
<1>4. \A q \in Process : CallOK(q, call[q])'
  <2>1. ASSUME NEW q \in Process PROVE CallOK(q, call'[q])
    <3>1. CASE q = p
      BY <1>2, <3>1
    <3>2. CASE q # p
      <4>1. call'[q] = call[q] /\ CallOK(q, call[q])
        BY <1>2, <3>2 DEF IInv
      <4> QED  BY <4>1
    <3> QED  BY <3>1, <3>2
  <2> QED  BY <2>1 DEF CallOK
<1>5. FilesOK'
  <2>1. CASE p = Runner
    BY <2>1, <1>2 DEF IInv, FilesOK, RunnerOK, At
  <2>2. CASE p # Runner
    <3>1. call'[Runner] = call[Runner]
      BY <2>2, <1>2
    <3> QED  BY <3>1 DEF IInv, FilesOK, At
  <2> QED  BY <2>1, <2>2
<1> QED  BY <1>3, <1>4, <1>5 DEF IInv

LEMMA CallMoves ==
    ASSUME IInv, MarkStays, NEW CONSTANT p \in Process, NEW CONSTANT new \in CallState,
           call' = [call EXCEPT ![p] = new], CallOK(p, new),
           p = Runner => RunnerOK(new),
           UNCHANGED <<record, snapshot, journal>>, left' \in Left
    PROVE  IInv'
<1>1. record' \in Loadable /\ JudgesStoredJd' /\ LocalNeverRecommends'
  BY DEF IInv, TypeOK, JudgesStoredJd, LocalNeverRecommends, MarkStays
<1> QED  BY <1>1, CallAndRecordMove

(* The initial call, and what a returned call becomes.                      *)
LEMMA IdleIsACall ==
    /\ Idle \in CallState
    /\ \A p \in Process : CallOK(p, Idle)
    /\ RunnerOK(Idle)
BY DEF Idle, CallState, CallOK, RunnerOK, Optional, Working

(* A call that returns or raises is in a good state.                        *)
LEMMA EndedCall ==
    ASSUME IInv, NEW p \in Process, NEW how \in Ended,
           At(p, Working \cup {"load"}), Ends(p, how)
    PROVE  \E new \in CallState : /\ call' = [call EXCEPT ![p] = new]
                                  /\ CallOK(p, new)
                                  /\ p = Runner => RunnerOK(new)
<1>1. CASE p = Runner
  <2>1. PICK new : new = [call[p] EXCEPT !.at = "report", !.how = how]
    OBVIOUS
  <2>2. call[p] \in CallState /\ CallOK(p, call[p])
    BY DEF IInv, TypeOK
  <2>3. call' = [call EXCEPT ![p] = new]
    BY <1>1, <2>1 DEF Ends, Becomes
  <2>4. new \in CallState
    BY <2>1, <2>2 DEF CallState, Optional
  <2>5. CallOK(p, new)
    <3>1. /\ new.at = "report" /\ new.how = how /\ new.doc = call[p].doc
          /\ new.jd = call[p].jd /\ new.by = call[p].by
          /\ new.strong = call[p].strong /\ new.capped = call[p].capped
      BY <2>1, <2>2 DEF CallState
    <3>2. how # None
      BY ScreeningAssumption
    <3> QED  BY <2>2, <3>1, <3>2 DEF CallOK, Working
  <2>6. RunnerOK(new)
    BY <1>1, <2>1, <2>2 DEF IInv, FilesOK, RunnerOK, At, Working, CallState
  <2> QED  BY <2>3, <2>4, <2>5, <2>6
<1>2. CASE p # Runner
  <2>1. call' = [call EXCEPT ![p] = Idle]
    BY <1>2 DEF Ends, Becomes
  <2> QED  BY <1>2, <2>1, IdleIsACall
<1> QED  BY <1>1, <1>2

LEMMA CallEnds ==
    ASSUME IInv, MarkStays, NEW CONSTANT p \in Process, NEW CONSTANT how \in Ended,
           At(p, Working \cup {"load"}), Ends(p, how),
           UNCHANGED <<record, snapshot, journal, left>>
    PROVE  IInv'
<1>1. PICK new : /\ new \in CallState
                 /\ call' = [call EXCEPT ![p] = new]
                 /\ CallOK(p, new)
                 /\ p = Runner => RunnerOK(new)
  BY EndedCall
<1>2. left' \in Left /\ UNCHANGED <<record, snapshot, journal>>
  BY DEF IInv, TypeOK, Left
<1> QED  BY <1>1, <1>2, CallMoves

-----------------------------------------------------------------------------
(* Asking the providers.                                                    *)

(* Whom an assessment is from: one of the providers that were tried.        *)
LEMMA AnswerFacts ==
    ASSUME NEW p \in Process, NEW answer \in Answers(p)
    PROVE  /\ answer.gave \in Said
           /\ answer.by \in Optional(Strong \cup {Local})
           /\ answer.gave = "ok" => answer.by # None
           /\ p = Runner => answer.by \in {None, Selected}
<1>1. PICK tried : /\ tried = IF p = Runner THEN <<Selected>>
                                           ELSE Append(Cli, Local)
                   /\ answer \in AnswersOf(tried)
  <2>1. Selected # None
    BY ScreeningAssumption DEF Provider
  <2>2. Tried(None) = Append(Cli, Local) /\ Tried(Selected) = <<Selected>>
    BY <2>1 DEF Tried
  <2>3. CASE p = Runner
    BY <2>2, <2>3 DEF Answers, SelectedAnswers
  <2>4. CASE p # Runner
    BY <2>2, <2>4 DEF Answers, AnyAnswers
  <2> QED  BY <2>3, <2>4
<1>2. \A i \in 1..Len(tried) :
        /\ tried[i] \in Strong \cup {Local}
        /\ p = Runner => tried[i] = Selected
  <2>1. CASE p = Runner
    BY <1>1, <2>1, ScreeningAssumption
  <2>2. CASE p # Runner
    <3>1. tried = Append(Cli, Local) /\ Cli \in Seq(Strong)
      BY <1>1, <2>2, ScreeningAssumption
    <3>2. Len(tried) = Len(Cli) + 1 /\ Len(Cli) \in Nat
      BY <3>1
    <3>3. \A i \in 1..Len(Cli) + 1 :
            tried[i] = IF i = Len(Cli) + 1 THEN Local ELSE Cli[i]
      BY <3>1
    <3>4. \A i \in 1..Len(Cli) : Cli[i] \in Strong
      BY DEF Strong
    <3> QED  BY <2>2, <3>2, <3>3, <3>4
  <2> QED  BY <2>1, <2>2
<1>3. /\ answer.gave \in Said
      /\ answer.by \in Optional(Strong \cup {Local})
      /\ \E said \in [Strong \cup {Local} -> Said] : Answer(tried, said, answer)
  BY <1>1 DEF AnswersOf
<1>4. \/ \E i \in 1..Len(tried) : answer.by = tried[i]
      \/ answer.gave = "error" /\ answer.by = None
  BY <1>3 DEF Answer
<1>5. None \notin Strong \cup {Local}
  BY ScreeningAssumption DEF Provider
<1> QED  BY <1>2, <1>3, <1>4, <1>5

(* A call that gives up withholds, or carries a fallback of the JD it read. *)
LEMMA GivingUp ==
    ASSUME IInv, MarkStays, NEW CONSTANT p \in Process,
           At(p, {"ask", "ask contract"}), GivesUp(p),
           UNCHANGED <<record, snapshot, journal, left>>
    PROVE  IInv'
<1>1. /\ call[p] \in CallState /\ CallOK(p, call[p])
      /\ call[p].jd \in Jd /\ left' \in Left
      /\ At(p, Working \cup {"load"})
  BY DEF IInv, TypeOK, CallOK, At, Working, Left
<1>2. CASE call[p].strong
  BY <1>1, <1>2, CallEnds DEF GivesUp, Ended
<1>3. CASE ~call[p].strong
  <2>1. p # Runner
    BY <1>1, <1>3 DEF CallOK, At, Working
  <2>2. FallbackOf(call[p].jd) \in Document
    BY <1>1 DEF FallbackOf, Document, Provider, Verdict
  <2>3. PICK new : new = [call[p] EXCEPT !.at = "stored",
                            !.doc = FallbackOf(call[p].jd)]
    OBVIOUS
  <2>4. call' = [call EXCEPT ![p] = new]
    BY <1>3, <2>3 DEF GivesUp, Becomes
  <2>5. new \in CallState
    BY <1>1, <2>2, <2>3 DEF CallState, Working, Optional
  <2>6. /\ new.doc.jd = new.jd /\ new.doc.by = "fallback"
        /\ new.doc.verdict = "hold" /\ new.capped = None
        /\ new.jd \in Jd /\ ~new.strong /\ new.at = "stored"
    BY <1>1, <1>3, <2>3 DEF CallState, FallbackOf, CallOK, At, Working
  <2>8. new.doc # None
    BY <2>2, <2>3, <1>1, ScreeningAssumption DEF CallState
  <2>7. CallOK(p, new)
    BY <2>1, <2>6, <2>8 DEF CallOK
  <2> QED  BY <1>1, <2>1, <2>4, <2>5, <2>7, CallMoves
<1> QED  BY <1>2, <1>3

-----------------------------------------------------------------------------
(* The steps of a call that leave the record alone.                         *)

LEMMA StartKeeps ==
    ASSUME IInv, MarkStays, NEW CONSTANT c \in Caller, NEW CONSTANT strong \in BOOLEAN,
           NEW CONSTANT classify \in BOOLEAN, Start(c, strong, classify)
    PROVE  IInv'
<1>1. PICK new : new = [Idle EXCEPT !.at = "ask", !.strong = strong,
                          !.classify = classify, !.jd = record.jd]
  OBVIOUS
<1>2. c # Runner /\ c \in Process
  BY ScreeningAssumption
<1>3. record.jd \in Jd /\ left' \in Left
  BY DEF IInv, TypeOK, Loadable, Stored, Start, Left
<1>4. new \in CallState /\ new.doc = None /\ new.at = "ask" /\ new.jd \in Jd
      /\ new.capped = None
  BY <1>1, <1>3 DEF Idle, CallState, Working, Optional
<1>5. CallOK(c, new)
  BY <1>2, <1>4 DEF CallOK
<1>6. /\ call' = [call EXCEPT ![c] = new]
      /\ UNCHANGED <<record, snapshot, journal>>
  BY <1>1 DEF Start, Becomes
<1> QED  BY <1>2, <1>3, <1>4, <1>5, <1>6, CallMoves

(* What is known of a call under way.                                       *)
LEMMA UnderWay ==
    ASSUME IInv, NEW p \in Process, At(p, Working)
    PROVE  /\ call[p] \in CallState
           /\ CallOK(p, call[p])
           /\ call[p].jd \in Jd
           /\ p = Runner => call[p].strong /\ snapshot # None
                            /\ journal = "started"
BY DEF IInv, TypeOK, CallOK, At, FilesOK, Working

(* A call goes on to another stage with the document it has, or a provider. *)
LEMMA StageMoves ==
    ASSUME IInv, MarkStays, NEW CONSTANT p \in Process, At(p, Working),
           NEW CONSTANT at \in Working \ {"verdict"}, NEW CONSTANT new,
           new \in {[call[p] EXCEPT !.at = at],
                    [call[p] EXCEPT !.at = at, !.retried = TRUE]},
           at \in {"ask", "ask contract", "ask quality", "gate"} =>
               call[p].capped = None,
           at = "gate" => call[p].by # None,
           at \in {"stored", "publish"} => call[p].doc # None,
           call' = [call EXCEPT ![p] = new],
           UNCHANGED <<record, snapshot, journal, left>>
    PROVE  IInv'
<1>1. /\ call[p] \in CallState /\ CallOK(p, call[p])
      /\ call[p].jd \in Jd /\ left' \in Left
      /\ p = Runner => call[p].strong /\ snapshot # None
                       /\ journal = "started"
  BY UnderWay DEF IInv, TypeOK, Left
<1>2. /\ new \in CallState /\ new.at = at
      /\ new.jd = call[p].jd /\ new.doc = call[p].doc /\ new.by = call[p].by
      /\ new.strong = call[p].strong /\ new.capped = call[p].capped
  <2>1. CASE new = [call[p] EXCEPT !.at = at]
    BY <1>1, <2>1 DEF CallState
  <2>2. CASE new = [call[p] EXCEPT !.at = at, !.retried = TRUE]
    BY <1>1, <2>2 DEF CallState
  <2> QED  BY <2>1, <2>2
<1>3. CallOK(p, new)
  BY <1>1, <1>2 DEF CallOK, Working
<1>4. p = Runner => RunnerOK(new)
  BY <1>1, <1>2 DEF RunnerOK, Working
<1> QED  BY <1>1, <1>2, <1>3, <1>4, CallMoves

LEMMA AskKeeps ==
    ASSUME IInv, MarkStays, NEW CONSTANT p \in Process, Ask(p)
    PROVE  IInv'
<1>1. /\ call[p] \in CallState /\ CallOK(p, call[p])
      /\ call[p].jd \in Jd /\ left' \in Left
      /\ At(p, Working \cup {"load"}) /\ At(p, Working)
      /\ call[p].capped = None
      /\ p = Runner => call[p].strong /\ snapshot # None
                       /\ journal = "started"
  BY UnderWay DEF IInv, TypeOK, Left, Ask, At, Working, CallOK
<1>2. UNCHANGED <<record, snapshot, journal, left>>
  BY DEF Ask
<1>3. ASSUME NEW CONSTANT answer \in Answers(p), answer.gave = "ok",
             Becomes(p, [call[p] EXCEPT !.at = "gate", !.by = answer.by])
      PROVE  IInv'
  <2>1. PICK new : new = [call[p] EXCEPT !.at = "gate", !.by = answer.by]
    OBVIOUS
  <2>2. /\ answer.by \in Optional(Strong \cup {Local}) /\ answer.by # None
        /\ p = Runner => answer.by = Selected
    BY <1>3, AnswerFacts
  <2>3. /\ new \in CallState /\ new.at = "gate" /\ new.by = answer.by
        /\ new.jd = call[p].jd /\ new.doc = call[p].doc
        /\ new.strong = call[p].strong /\ new.capped = call[p].capped
    BY <1>1, <2>1, <2>2 DEF CallState, Working
  <2>4. CallOK(p, new)
    BY <1>1, <2>2, <2>3 DEF CallOK
  <2>5. p = Runner => RunnerOK(new)
    BY <1>1, <2>3 DEF RunnerOK
  <2>6. call' = [call EXCEPT ![p] = new]
    BY <1>3, <2>1 DEF Becomes
  <2> QED  BY <1>1, <1>2, <2>3, <2>4, <2>5, <2>6, CallMoves
<1>4. ASSUME Becomes(p, [call[p] EXCEPT !.at = "ask contract"])
      PROVE  IInv'
  <2>1. PICK new : new = [call[p] EXCEPT !.at = "ask contract"]
    OBVIOUS
  <2>2. /\ "ask contract" \in Working \ {"verdict"}
        /\ call' = [call EXCEPT ![p] = new]
    BY <1>4, <2>1 DEF Becomes, Working
  <2> QED  BY <1>1, <1>2, <2>1, <2>2, StageMoves
<1>5. ASSUME GivesUp(p), At(p, {"ask", "ask contract"})
      PROVE  IInv'
  BY <1>2, <1>5, GivingUp
<1>6. ASSUME Ends(p, "raised")
      PROVE  IInv'
  BY <1>1, <1>2, <1>6, CallEnds DEF Ended
<1>7. PICK answer \in Answers(p) :
        \/ /\ answer.gave = "ok"
           /\ Becomes(p, [call[p] EXCEPT !.at = "gate", !.by = answer.by])
        \/ Becomes(p, [call[p] EXCEPT !.at = "ask contract"])
        \/ GivesUp(p) /\ At(p, {"ask", "ask contract"})
        \/ Ends(p, "raised")
  BY DEF Ask, At
<1> QED  BY <1>3, <1>4, <1>5, <1>6, <1>7

(* The verdict guard lets no local recommendation through.                  *)
LEMMA GuardHolds ==
    ASSUME NEW by, NEW judged \in Judgements(by)
    PROVE  /\ judged.verdict \in Verdict /\ judged.capped \in BOOLEAN
           /\ by = Local => judged.verdict # "recommended"
<1>1. PICK verdict \in Verdict, facts \in Facts :
        judged = [verdict |-> Guarded(verdict, by, facts),
                  capped |-> verdict = "recommended" /\ by = Local]
  BY DEF Judgements
<1>2. /\ judged.verdict = Guarded(verdict, by, facts)
      /\ judged.capped = (verdict = "recommended" /\ by = Local)
  BY <1>1
<1>3. judged.capped \in BOOLEAN
  BY <1>2
<1>4. Guarded(verdict, by, facts) \in {verdict, "hold"}
  BY DEF Guarded
<1>5. by = Local => Guarded(verdict, by, facts) # "recommended"
  BY DEF Guarded, Held
<1> QED  BY <1>2, <1>3, <1>4, <1>5 DEF Verdict

LEMMA GateKeeps ==
    ASSUME IInv, MarkStays, NEW CONSTANT p \in Process, Gate(p)
    PROVE  IInv'
<1>1. /\ call[p] \in CallState /\ CallOK(p, call[p])
      /\ call[p].jd \in Jd /\ left' \in Left /\ call[p].by # None
      /\ At(p, Working \cup {"load"}) /\ At(p, Working)
      /\ call[p].capped = None
      /\ p = Runner => call[p].strong /\ snapshot # None
                       /\ journal = "started"
  <2>1. call[p].at = "gate" /\ At(p, Working)
    BY DEF Gate, At, Working
  <2>2. left' \in Left
    BY DEF IInv, TypeOK, Left, Gate
  <2> QED  BY <2>1, <2>2, UnderWay DEF CallOK, At
<1>2. UNCHANGED <<record, snapshot, journal, left>>
  BY DEF Gate
<1>3. ASSUME ~Withheld(p), NEW CONSTANT judged \in Judgements(call[p].by),
             Becomes(p, [call[p] EXCEPT !.at = "publish",
                !.doc = [by |-> call[p].by, verdict |-> judged.verdict,
                         jd |-> call[p].jd],
                !.capped = judged.capped])
      PROVE  IInv'
  <2>1. PICK doc : doc = [by |-> call[p].by, verdict |-> judged.verdict,
                          jd |-> call[p].jd]
    OBVIOUS
  <2>2. PICK new : new = [call[p] EXCEPT !.at = "publish", !.doc = doc,
                                         !.capped = judged.capped]
    OBVIOUS
  <2>3. /\ call[p].by \in Strong \cup {Local}
        /\ "fallback" \notin Strong \cup {Local}
    BY <1>1, ScreeningAssumption DEF CallState, Optional
  <2>4. /\ doc \in Document /\ doc.by = call[p].by /\ doc.jd = call[p].jd
        /\ doc.by # "fallback"
        /\ doc.by = Local => doc.verdict # "recommended"
    BY <1>1, <2>1, <2>3, GuardHolds DEF Document, Provider
  <2>5. doc # None
    BY <2>4, ScreeningAssumption
  <2>6. /\ new \in CallState /\ new.at = "publish" /\ new.by = call[p].by
        /\ new.jd = call[p].jd /\ new.doc = doc
        /\ new.strong = call[p].strong
    <3>1. /\ doc \in Optional(Document) /\ judged.capped \in Optional(BOOLEAN)
          /\ "publish" \in Working
      BY <2>4, GuardHolds DEF Optional, Working
    <3> QED  BY <1>1, <2>2, <3>1 DEF CallState
  <2>7. call[p].strong => doc.by \in Strong
    BY <1>3, <2>4 DEF Withheld
  <2>8. CallOK(p, new)
    BY <1>1, <2>4, <2>5, <2>6, <2>7 DEF CallOK
  <2>9. p = Runner => RunnerOK(new)
    BY <1>1, <2>6 DEF RunnerOK
  <2>10. call' = [call EXCEPT ![p] = new]
    BY <1>3, <2>1, <2>2 DEF Becomes
  <2> QED  BY <1>1, <1>2, <2>6, <2>8, <2>9, <2>10, CallMoves
<1>4. ASSUME Becomes(p, [call[p] EXCEPT !.at = "ask quality", !.retried = TRUE])
      PROVE  IInv'
  <2>1. PICK new : new = [call[p] EXCEPT !.at = "ask quality", !.retried = TRUE]
    OBVIOUS
  <2>2. /\ "ask quality" \in Working \ {"verdict"}
        /\ call' = [call EXCEPT ![p] = new]
    BY <1>4, <2>1 DEF Becomes, Working
  <2> QED  BY <1>1, <1>2, <2>1, <2>2, StageMoves
<1>5. ASSUME NEW CONSTANT how \in {"returned", "raised"}, Ends(p, how)
      PROVE  IInv'
  BY <1>1, <1>2, <1>5, CallEnds DEF Ended
<1>6. \/ /\ ~Withheld(p)
         /\ \E judged \in Judgements(call[p].by) :
               Becomes(p, [call[p] EXCEPT !.at = "publish",
                  !.doc = [by |-> call[p].by, verdict |-> judged.verdict,
                           jd |-> call[p].jd],
                  !.capped = judged.capped])
      \/ Ends(p, "returned")
      \/ Becomes(p, [call[p] EXCEPT !.at = "ask quality", !.retried = TRUE])
      \/ Ends(p, "raised")
  BY DEF Gate
<1> QED  BY <1>3, <1>4, <1>5, <1>6

LEMMA CheckStoredKeeps ==
    ASSUME IInv, MarkStays, NEW CONSTANT p \in Process, CheckStored(p)
    PROVE  IInv'
<1>1. /\ At(p, Working) /\ At(p, Working \cup {"load"})
      /\ UNCHANGED <<record, snapshot, journal, left>>
      /\ call[p].doc # None
  BY DEF CheckStored, At, Working, IInv, CallOK
<1>2. CASE IsAssessment(record.screening)
  BY <1>1, <1>2, CallEnds DEF CheckStored, Ended
<1>3. CASE ~IsAssessment(record.screening)
  <2>1. PICK new : new = [call[p] EXCEPT !.at = "publish"]
    OBVIOUS
  <2>2. "publish" \in Working \ {"verdict"} /\ call' = [call EXCEPT ![p] = new]
    BY <1>3, <2>1 DEF CheckStored, Becomes, Working
  <2> QED  BY <1>1, <2>1, <2>2, StageMoves
<1> QED  BY <1>2, <1>3

LEMMA ConfirmKeeps ==
    ASSUME IInv, MarkStays, NEW CONSTANT p \in Process, Confirm(p)
    PROVE  IInv'
<1>1. /\ At(p, Working) /\ At(p, Working \cup {"load"})
      /\ UNCHANGED <<record, snapshot, journal, left>>
  BY DEF Confirm, At, Working
<1>2. CASE record.screening = None \/ ~call[p].classify
  <2>1. PICK how \in {"returned", "raised"} : Ends(p, how)
    BY <1>2 DEF Confirm
  <2> QED  BY <1>1, <2>1, CallEnds DEF Ended
<1>3. CASE record.screening # None /\ call[p].classify
  <2>1. PICK new : new = [call[p] EXCEPT !.at = "classify"]
    OBVIOUS
  <2>2. "classify" \in Working \ {"verdict"} /\ call' = [call EXCEPT ![p] = new]
    BY <1>3, <2>1 DEF Confirm, Becomes, Working
  <2> QED  BY <1>1, <2>1, <2>2, StageMoves
<1> QED  BY <1>2, <1>3

LEMMA ClassifyKeeps ==
    ASSUME IInv, MarkStays, NEW CONSTANT p \in Process, Classify(p)
    PROVE  IInv'
<1>1. /\ call[p] \in CallState /\ CallOK(p, call[p])
      /\ call[p].jd \in Jd /\ left' \in Left
      /\ At(p, Working \cup {"load"})
      /\ p = Runner => call[p].strong /\ snapshot # None
                       /\ journal = "started"
      /\ UNCHANGED <<record, snapshot, journal, left>>
  BY UnderWay DEF IInv, TypeOK, Left, Classify, At, Working
<1>2. CASE record.status # "pending" \/ record.screening = None
  BY <1>1, <1>2, CallEnds DEF Classify, Ended
<1>3. CASE ~(record.status # "pending" \/ record.screening = None)
  <2>1. PICK new : new = [call[p] EXCEPT !.at = "verdict",
                                         !.told = record.screening.verdict]
    OBVIOUS
  <2>2. record.screening.verdict \in Verdict
    BY <1>3 DEF IInv, TypeOK, Loadable, Stored, Optional, Document
  <2>3. /\ new \in CallState /\ new.at = "verdict" /\ new.by = call[p].by
        /\ new.jd = call[p].jd /\ new.doc = call[p].doc
        /\ new.strong = call[p].strong /\ new.capped = call[p].capped
        /\ new.told # None
    <3>1. record.screening.verdict # None
      BY <2>2, ScreeningAssumption DEF Verdict
    <3> QED  BY <1>1, <2>1, <2>2, <3>1 DEF CallState, Working, Optional
  <2>4. CallOK(p, new)
    BY <1>1, <2>3 DEF CallOK
  <2>5. p = Runner => RunnerOK(new)
    BY <1>1, <2>3 DEF RunnerOK
  <2>6. call' = [call EXCEPT ![p] = new]
    BY <1>3, <2>1 DEF Classify, Becomes
  <2> QED  BY <1>1, <2>3, <2>4, <2>5, <2>6, CallMoves
<1> QED  BY <1>2, <1>3

-----------------------------------------------------------------------------
(* The snapshot rescreen.                                                   *)

LEMMA LoadKeeps ==
    ASSUME IInv, MarkStays, Load
    PROVE  IInv'
<1>1. /\ call[Runner] \in CallState /\ CallOK(Runner, call[Runner])
      /\ left' \in Left /\ Runner \in Process
      /\ At(Runner, Working \cup {"load"})
      /\ UNCHANGED <<record, snapshot, journal, left>>
  BY DEF IInv, TypeOK, Left, Load, At
<1>2. call[Runner].at = "load" /\ snapshot # None /\ journal = "started"
  BY DEF IInv, FilesOK, Load, At
<1>3. CASE Ends(Runner, "raised")
  BY <1>1, <1>3, CallEnds DEF Ended
<1>4. CASE Becomes(Runner, [call[Runner] EXCEPT !.at = "ask", !.jd = record.jd])
  <2>1. PICK new : new = [call[Runner] EXCEPT !.at = "ask", !.jd = record.jd]
    OBVIOUS
  <2>2. record.jd \in Jd
    BY DEF IInv, TypeOK, Loadable, Stored
  <2>3. /\ new \in CallState /\ new.at = "ask" /\ new.by = call[Runner].by
        /\ new.jd \in Jd /\ new.doc = call[Runner].doc
        /\ new.strong = call[Runner].strong
        /\ new.capped = call[Runner].capped
    BY <1>1, <2>1, <2>2 DEF CallState, Working, Optional
  <2>4. call[Runner].doc = None /\ call[Runner].capped = None
    BY <1>1, <1>2 DEF CallOK
  <2>5. CallOK(Runner, new)
    BY <1>1, <1>2, <2>3, <2>4 DEF CallOK
  <2>6. RunnerOK(new)
    BY <1>2, <2>3 DEF RunnerOK
  <2>7. call' = [call EXCEPT ![Runner] = new]
    BY <1>4, <2>1 DEF Becomes
  <2> QED  BY <1>1, <2>3, <2>5, <2>6, <2>7, CallMoves
<1> QED  BY <1>3, <1>4 DEF Load

(* Steps that move the runner and write its files.                          *)
LEMMA RunnerMoves ==
    ASSUME IInv, MarkStays, NEW CONSTANT new \in CallState,
           call' = [call EXCEPT ![Runner] = new], CallOK(Runner, new),
           RunnerOK(new)', UNCHANGED <<record, snapshot>>,
           journal' \in {None, "open", "started"} \cup Terminal, left' \in Left
    PROVE  IInv'
<1>1. call \in [Process -> CallState]
  BY DEF IInv, TypeOK
<1>2. /\ call' \in [Process -> CallState]
      /\ call'[Runner] = new
      /\ \A q \in Process \ {Runner} : call'[q] = call[q]
  BY <1>1
<1>3. TypeOK'
  BY <1>2 DEF IInv, TypeOK, Left, MarkStays
<1>4. JudgesStoredJd' /\ LocalNeverRecommends'
  BY DEF IInv, TypeOK, JudgesStoredJd, LocalNeverRecommends, MarkStays
<1>5. \A q \in Process : CallOK(q, call[q])'
  <2>1. ASSUME NEW q \in Process PROVE CallOK(q, call'[q])
    <3>1. CASE q = Runner
      BY <1>2, <3>1
    <3>2. CASE q # Runner
      <4>1. call'[q] = call[q] /\ CallOK(q, call[q])
        BY <1>2, <3>2 DEF IInv
      <4> QED  BY <4>1
    <3> QED  BY <3>1, <3>2
  <2> QED  BY <2>1 DEF CallOK
<1>6. FilesOK'
  BY <1>2 DEF IInv, FilesOK, RunnerOK, At
<1> QED  BY <1>3, <1>4, <1>5, <1>6 DEF IInv

LEMMA BeginRunnerKeeps ==
    ASSUME IInv, MarkStays, BeginRunner
    PROVE  IInv'
<1>1. PICK new : new = IF journal' = "open" THEN [Idle EXCEPT !.at = "eligible"]
                                            ELSE Idle
  OBVIOUS
<1>2. /\ call' = [call EXCEPT ![Runner] = new]
      /\ UNCHANGED <<record, snapshot>> /\ snapshot # None
  BY <1>1 DEF BeginRunner, Becomes
<1>3. /\ journal' \in {None, "open", "started"} \cup Terminal
      /\ left' \in Left
  BY DEF BeginRunner, IInv, TypeOK, Left, Terminal
<1>4. /\ new \in CallState /\ new.at \in {"idle", "eligible"}
      /\ new.at = "eligible" => journal' = "open"
      /\ new.doc = None /\ new.by = None
  BY <1>1 DEF Idle, CallState, Optional
<1>5. CallOK(Runner, new) /\ RunnerOK(new)'
  BY <1>2, <1>4 DEF CallOK, RunnerOK, Working
<1> QED  BY <1>2, <1>3, <1>4, <1>5, RunnerMoves

LEMMA EligibleKeeps ==
    ASSUME IInv, MarkStays, Eligible
    PROVE  IInv'
<1>1. PICK new : new = IF Matches THEN [Idle EXCEPT !.at = "load",
                                          !.strong = TRUE, !.classify = TRUE]
                                  ELSE Idle
  OBVIOUS
<1>2. snapshot # None /\ UNCHANGED <<record, snapshot>> /\ left' \in Left
  BY DEF IInv, TypeOK, FilesOK, Eligible, At, Left
<1>3. /\ call' = [call EXCEPT ![Runner] = new]
      /\ journal' \in {"started", "skipped_drift"}
      /\ new.at = "load" => journal' = "started"
  BY <1>1 DEF Eligible, Becomes, Idle
<1>4. /\ new \in CallState /\ new.at \in {"idle", "load"}
      /\ new.at = "load" => new.strong
      /\ new.doc = None /\ new.by = None /\ new.capped = None
  BY <1>1 DEF Idle, CallState, Optional
<1>5. CallOK(Runner, new) /\ RunnerOK(new)'
  BY <1>2, <1>3, <1>4 DEF CallOK, RunnerOK, Working
<1> QED  BY <1>2, <1>3, <1>4, <1>5, RunnerMoves DEF Terminal

LEMMA ReportKeeps ==
    ASSUME IInv, MarkStays, Report
    PROVE  IInv'
<1>1. PICK new : new = Idle
  OBVIOUS
<1>2. new \in CallState /\ CallOK(Runner, new) /\ RunnerOK(new)'
  BY <1>1, IdleIsACall DEF RunnerOK, Idle, Working
<1>3. /\ call' = [call EXCEPT ![Runner] = new]
      /\ UNCHANGED <<record, snapshot>> /\ left' \in Left
  BY <1>1 DEF Report, Becomes, IInv, TypeOK, Left
<1>4. journal' \in Terminal
  <2>1. call[Runner] \in CallState /\ journal' = Outcome
    BY DEF IInv, TypeOK, Report
  <2>2. call[Runner].how \in {"returned", "raised", "conflict"}
    BY <2>1 DEF IInv, CallOK, CallState, Optional, Ended, Report, At
  <2> QED  BY <2>1, <2>2 DEF Outcome, Terminal
<1> QED  BY <1>2, <1>3, <1>4, RunnerMoves

-----------------------------------------------------------------------------
(* What is written to the record.                                           *)

(* A publication that is not refused finds what it expects and puts its     *)
(* document over it.                                                        *)
LEMMA Published ==
    ASSUME IInv, NEW p \in Process, At(p, {"publish"}),
           ~Refused(Publication(p), record),
           record' = Screened(Publication(p), record)
    PROVE  /\ call[p].doc \in Document /\ call[p].doc # None
           /\ record'.jd = record.jd /\ record.jd = call[p].doc.jd
           /\ record'.screening = call[p].doc
           /\ record'.capped = Or(call[p].capped, record.capped)
           /\ record' \in Loadable
           /\ p = Runner => /\ record.posting = "active"
                            /\ record.screening = snapshot.screening
<1>1. /\ call[p] \in CallState /\ CallOK(p, call[p]) /\ record \in Loadable
      /\ call[p].at = "publish"
  BY DEF IInv, TypeOK, At
<1>2. call[p].doc \in Document /\ call[p].doc # None
  BY <1>1 DEF CallOK, CallState, Optional
<1>3. call[p].doc.jd = call[p].jd
  BY <1>1, <1>2 DEF CallOK
<1>4. record \in Stored /\ LatestEventProjects(record)
  BY <1>1 DEF Loadable
<1>5. PICK verdict, provider, capped :
        /\ verdict = Or(call[p].doc.verdict, record.verdict)
        /\ provider = Or(call[p].doc.by, record.provider)
        /\ capped = Or(call[p].capped, record.capped)
  OBVIOUS
<1>6. record' = [record EXCEPT !.screening = call[p].doc, !.verdict = verdict,
                               !.provider = provider, !.capped = capped]
  BY <1>5 DEF Screened, Publication
<1>7. /\ verdict \in Optional(Verdict) /\ provider \in Optional(Provider)
      /\ call[p].doc \in Optional(Document)
  BY <1>2, <1>4, <1>5 DEF Or, Optional, Stored, Document
<1>8. capped \in BOOLEAN
  <2>1. call[p].capped \in BOOLEAN \cup {None} /\ record.capped \in BOOLEAN
    BY <1>1, <1>4 DEF CallState, Optional, Stored
  <2> QED  BY <1>5, <2>1, Zenon DEF Or
<1>9. /\ record' \in Stored
      /\ record'.history = record.history /\ record'.status = record.status
      /\ record'.jd = record.jd /\ record'.screening = call[p].doc
      /\ record'.capped = capped
  BY <1>2, <1>4, <1>6, <1>7, <1>8 DEF Stored
<1>10. record' \in Loadable
  BY <1>4, <1>9 DEF Loadable, LatestEventProjects
<1>11. /\ record.posting \in Expected(p).posting
       /\ record.screening \in Expected(p).screening
       /\ record.jd \in Expected(p).jd
  BY DEF Refused, Publication
<1>12. record.jd = call[p].jd
  BY <1>11 DEF Expected
<1>13. p = Runner => /\ record.posting = "active"
                     /\ record.screening = snapshot.screening
  BY <1>11 DEF Expected
<1> QED  BY <1>2, <1>3, <1>5, <1>9, <1>10, <1>12, <1>13

LEMMA PublishKeeps ==
    ASSUME IInv, MarkStays, NEW CONSTANT p \in Process, Publish(p)
    PROVE  IInv'
<1>1. /\ At(p, {"publish"}) /\ At(p, Working) /\ At(p, Working \cup {"load"})
      /\ UNCHANGED <<snapshot, journal, left>>
  BY DEF Publish, At, Working
<1>2. CASE Refused(Publication(p), record)
  <2>1. Ends(p, "conflict") /\ UNCHANGED <<record, snapshot, journal, left>>
    BY <1>1, <1>2 DEF Publish
  <2> QED  BY <1>1, <2>1, CallEnds DEF Ended
<1>3. CASE ~Refused(Publication(p), record)
  <2>1. PICK new : new = [call[p] EXCEPT !.at = "confirm"]
    OBVIOUS
  <2>2. /\ call' = [call EXCEPT ![p] = new]
        /\ record' = Screened(Publication(p), record)
    BY <1>3, <2>1 DEF Publish, Becomes
  <2>3. /\ call[p] \in CallState /\ CallOK(p, call[p])
        /\ call[p].jd \in Jd
        /\ p = Runner => call[p].strong /\ snapshot # None
                         /\ journal = "started"
    BY <1>1, UnderWay
  <2>4. /\ new \in CallState /\ new.at = "confirm" /\ new.by = call[p].by
        /\ new.jd = call[p].jd /\ new.doc = call[p].doc
        /\ new.strong = call[p].strong /\ new.capped = call[p].capped
    BY <2>1, <2>3 DEF CallState, Working
  <2>5. CallOK(p, new)
    BY <2>3, <2>4 DEF CallOK
  <2>6. /\ record' \in Loadable /\ record'.screening = call[p].doc
        /\ record'.jd = call[p].doc.jd /\ call[p].doc # None
    BY <1>1, <1>3, <2>2, Published
  <2>7. JudgesStoredJd' /\ LocalNeverRecommends'
    BY <2>3, <2>6 DEF JudgesStoredJd, LocalNeverRecommends, CallOK
  <2>8. left' \in Left /\ (p = Runner => RunnerOK(new))
    BY <1>1, <2>3, <2>4 DEF IInv, TypeOK, Left, RunnerOK, Working
  <2> QED  BY <1>1, <2>2, <2>4, <2>5, <2>6, <2>7, <2>8, CallAndRecordMove
<1> QED  BY <1>2, <1>3

(* Steps that change the record and move no call.                           *)
LEMMA RecordMoves ==
    ASSUME IInv, MarkStays, record' \in Loadable, JudgesStoredJd', LocalNeverRecommends',
           UNCHANGED <<call, snapshot, journal>>, left' \in Left
    PROVE  IInv'
<1>1. TypeOK'
  BY DEF IInv, TypeOK, Left, MarkStays
<1>2. \A q \in Process : CallOK(q, call[q])'
  BY DEF IInv, CallOK
<1>3. FilesOK'
  BY DEF IInv, FilesOK, At
<1> QED  BY <1>1, <1>2, <1>3 DEF IInv

(* A status update leaves documents and judgements as they are, and a       *)
(* record that can be loaded.                                               *)
LEMMA StatusKeepsJudgement ==
    ASSUME NEW status \in Optional(Status), NEW posting \in Optional(Posting),
           NEW cur \in Loadable, NEW new,
           new = StatusUpdated([status |-> status, posting |-> posting], cur)
    PROVE  /\ new \in Loadable /\ new.jd = cur.jd
           /\ new.screening = cur.screening /\ new.capped = cur.capped
<1>1. cur \in Stored /\ cur.history \in Seq(Status) /\ LatestEventProjects(cur)
  BY DEF Loadable, Stored
<1>2. PICK to, shown, history :
        /\ shown = Or(posting, cur.posting)
        /\ to = Or(status, cur.status)
        /\ history = IF status = None THEN cur.history
                                      ELSE Append(cur.history, status)
  OBVIOUS
<1>3. shown \in Posting /\ to \in Status /\ history \in Seq(Status)
  <2>1. cur.posting \in Posting /\ cur.status \in Status
    BY <1>1 DEF Stored
  <2>2. shown \in Posting /\ to \in Status
    BY <1>2, <2>1 DEF Or, Optional
  <2>3. CASE status = None
    BY <1>1, <1>2, <2>2, <2>3
  <2>4. CASE status # None
    BY <1>1, <1>2, <2>2, <2>4 DEF Optional
  <2> QED  BY <2>3, <2>4
<1>4. new = [cur EXCEPT !.posting = shown, !.status = to, !.history = history]
  BY <1>2 DEF StatusUpdated
<1>5. /\ new \in Stored /\ new.history = history /\ new.status = to
      /\ new.jd = cur.jd /\ new.screening = cur.screening
      /\ new.capped = cur.capped
  BY <1>1, <1>3, <1>4 DEF Stored
<1>6. LatestEventProjects(new)
  <2>1. CASE status = None
    BY <1>1, <1>2, <1>5, <2>1 DEF LatestEventProjects, Or
  <2>2. CASE status # None
    <3>1. status \in Status /\ to = status
      BY <1>2, <2>2 DEF Or, Optional
    <3>2. history = Append(cur.history, status)
      BY <1>2, <2>2
    <3>3. history[Len(history)] = status
      BY <1>1, <3>1, <3>2
    <3> QED  BY <1>5, <3>1, <3>3 DEF LatestEventProjects
  <2> QED  BY <2>1, <2>2
<1> QED  BY <1>5, <1>6 DEF Loadable

LEMMA EditKeeps ==
    ASSUME IInv, MarkStays, Edit
    PROVE  IInv'
<1>1. /\ UNCHANGED <<call, snapshot, journal>> /\ left' \in Left
      /\ record \in Loadable
  BY DEF Edit, IInv, TypeOK, Left
<1>2. ASSUME NEW CONSTANT jd \in Jd, record' = JdReplaced([jd |-> jd], record)
      PROVE  IInv'
  <2>1. record' \in Loadable /\ record'.screening = None
    BY <1>1, <1>2
       DEF JdReplaced, Loadable, Stored, Optional, LatestEventProjects
  <2>2. JudgesStoredJd' /\ LocalNeverRecommends'
    BY <2>1 DEF JudgesStoredJd, LocalNeverRecommends
  <2> QED  BY <1>1, <2>1, <2>2, RecordMoves
<1>3. ASSUME NEW CONSTANT status \in Optional(Status),
             NEW CONSTANT posting \in Optional(Posting),
             record' = StatusUpdated([status |-> status, posting |-> posting],
                                     record)
      PROVE  IInv'
  <2>1. /\ record' \in Loadable /\ record'.jd = record.jd
        /\ record'.screening = record.screening
    BY <1>1, <1>3, StatusKeepsJudgement
  <2>2. JudgesStoredJd' /\ LocalNeverRecommends'
    BY <2>1 DEF IInv, TypeOK, JudgesStoredJd, LocalNeverRecommends, MarkStays
  <2> QED  BY <1>1, <2>1, <2>2, RecordMoves
<1> QED  BY <1>2, <1>3 DEF Edit

(* An update of the verdict leaves the documents as they are.               *)
LEMMA VerdictKeepsJudgement ==
    ASSUME NEW verdict \in Verdict, NEW cur \in Loadable, NEW new,
           new = VerdictUpdated([verdict |-> verdict, reason |-> None], cur)
    PROVE  /\ new \in Loadable /\ new.jd = cur.jd
           /\ new.screening = cur.screening /\ new.capped = cur.capped
BY DEF VerdictUpdated, Or, Loadable, Stored, Optional, LatestEventProjects

LEMMA WriteVerdictKeeps ==
    ASSUME IInv, MarkStays, NEW CONSTANT p \in Process, WriteVerdict(p)
    PROVE  IInv'
<1>1. /\ At(p, Working) /\ At(p, Working \cup {"load"})
      /\ UNCHANGED <<snapshot, journal>> /\ left' \in Left
      /\ Ends(p, "returned")
      /\ record' = VerdictUpdated([verdict |-> call[p].told, reason |-> None],
                                  record)
  BY DEF WriteVerdict, At, Working, IInv, TypeOK, Left
<1>2. call[p].told \in Verdict /\ record \in Loadable
  <2>1. call[p] \in CallState /\ CallOK(p, call[p]) /\ record \in Loadable
    BY DEF IInv, TypeOK
  <2>2. call[p].at = "verdict"
    BY DEF WriteVerdict, At
  <2> QED  BY <2>1, <2>2 DEF CallState, CallOK, Optional
<1>3. /\ record' \in Loadable /\ record'.jd = record.jd
      /\ record'.screening = record.screening
  BY <1>1, <1>2, VerdictKeepsJudgement
<1>4. JudgesStoredJd' /\ LocalNeverRecommends'
  BY <1>3 DEF IInv, TypeOK, JudgesStoredJd, LocalNeverRecommends, MarkStays
<1>5. PICK new : /\ new \in CallState
                 /\ call' = [call EXCEPT ![p] = new]
                 /\ CallOK(p, new)
                 /\ p = Runner => RunnerOK(new)
  BY <1>1, EndedCall DEF Ended
<1> QED  BY <1>1, <1>3, <1>4, <1>5, CallAndRecordMove

LEMMA CrashKeeps ==
    ASSUME IInv, MarkStays, NEW CONSTANT p \in Process, Crash(p)
    PROVE  IInv'
<1>1. PICK new : new = Idle
  OBVIOUS
<1>2. /\ call' = [call EXCEPT ![p] = new]
      /\ UNCHANGED <<record, snapshot, journal>> /\ left' \in Left
  BY <1>1 DEF Crash, Becomes, IInv, TypeOK, Left
<1>3. new \in CallState /\ CallOK(p, new) /\ RunnerOK(new)
  BY <1>1, IdleIsACall
<1> QED  BY <1>2, <1>3, CallMoves

(* The snapshot lists a fallback document of an active record.              *)
LEMMA TakeSnapshotKeeps ==
    ASSUME IInv, MarkStays, TakeSnapshot
    PROVE  IInv'
<1>1. /\ UNCHANGED <<record, call, journal, left>>
      /\ IsFallback(record.screening) /\ snapshot = None
      /\ snapshot' = [posting |-> "active", provider |-> record.provider,
                      screening |-> record.screening]
  BY DEF TakeSnapshot
<1>2. record.provider \in Optional(Provider) /\ record.screening \in Document
  BY <1>1 DEF IInv, TypeOK, Loadable, Stored, IsFallback, Optional
<1>3. /\ snapshot' \in [posting: Posting, provider: Optional(Provider),
                         screening: Document]
      /\ snapshot'.screening = record.screening
  BY <1>1, <1>2 DEF Posting
<1>4. TypeOK'
  BY <1>1, <1>3 DEF IInv, TypeOK, Optional, MarkStays
<1>5. JudgesStoredJd' /\ LocalNeverRecommends'
  BY <1>1 DEF IInv, TypeOK, JudgesStoredJd, LocalNeverRecommends, MarkStays
<1>6. \A q \in Process : CallOK(q, call[q])'
  BY <1>1 DEF IInv, CallOK
<1>7. FilesOK'
  BY <1>1, <1>3 DEF IInv, FilesOK, At, IsFallback
<1> QED  BY <1>4, <1>5, <1>6, <1>7 DEF IInv

(* A save refreshes the JD, leaves documents and judgements as they are,    *)
(* and the mark says so.                                                    *)
LEMMA SaveFacts ==
    ASSUME IInv, NEW jd \in Jd
    PROVE  /\ SavedJd(jd) \in Loadable /\ SavedJd(jd).screening = record.screening
           /\ SavedJd(jd).capped = record.capped
<1>1. record \in Stored /\ LatestEventProjects(record) /\ record # None
  <2>1. record \in Loadable
    BY DEF IInv, TypeOK
  <2> QED  BY <2>1, ScreeningAssumption DEF Loadable
<1>2. SavedJd(jd) = [record EXCEPT !.jd = jd]
  BY <1>1 DEF SavedJd, Saved
<1>3. /\ SavedJd(jd) \in Stored /\ SavedJd(jd).screening = record.screening
      /\ SavedJd(jd).history = record.history
      /\ SavedJd(jd).status = record.status
      /\ SavedJd(jd).capped = record.capped
  BY <1>1, <1>2 DEF Stored
<1> QED  BY <1>1, <1>3 DEF Loadable, LatestEventProjects

LEMMA SaveKeeps ==
    ASSUME IInv, Save, kept' = (record.screening # None)
    PROVE  IInv'
<1>1. PICK jd \in Jd : record' = SavedJd(jd)
  BY DEF Save
<1>2. record' \in Loadable /\ record'.screening = record.screening
  BY <1>1, SaveFacts
<1>3. UNCHANGED <<call, snapshot, journal>> /\ left' \in Left /\ kept' \in BOOLEAN
  BY DEF Save, IInv, TypeOK, Left
<1>4. TypeOK'
  BY <1>2, <1>3 DEF IInv, TypeOK, Left
<1>5. JudgesStoredJd' /\ LocalNeverRecommends'
  BY <1>2 DEF IInv, JudgesStoredJd, LocalNeverRecommends
<1>6. \A q \in Process : CallOK(q, call[q])'
  BY <1>3 DEF IInv, CallOK
<1>7. FilesOK'
  BY <1>3 DEF IInv, FilesOK, At
<1> QED  BY <1>4, <1>5, <1>6, <1>7 DEF IInv

-----------------------------------------------------------------------------
(* IInv is inductive.                                                       *)
LEMMA InvariantInitially == Init => IInv
<1> SUFFICES ASSUME Init PROVE IInv
  OBVIOUS
<1>1. PICK jd \in Jd : record \in {Unscreened(jd), Unassessed(jd)}
  BY DEF Init
<1>2. /\ Unscreened(jd) \in Stored /\ Unscreened(jd).history = <<>>
      /\ Unscreened(jd).screening = None /\ Unscreened(jd).jd = jd
  BY DEF Unscreened, Stored, Optional, Status, Posting
<1>3. /\ FallbackOf(jd) \in Document /\ FallbackOf(jd).jd = jd
      /\ FallbackOf(jd).verdict = "hold"
  BY DEF FallbackOf, Document, Provider, Verdict
<1>4. /\ Unassessed(jd) \in Stored /\ Unassessed(jd).history = <<>>
      /\ Unassessed(jd).screening = FallbackOf(jd) /\ Unassessed(jd).jd = jd
  BY <1>2, <1>3 DEF Unassessed, Stored, Optional, Provider, Verdict
<1>5. record \in Loadable
  BY <1>1, <1>2, <1>4 DEF Loadable, LatestEventProjects
<1>6. TypeOK
  <2>1. call \in [Process -> CallState]
    BY IdleIsACall DEF Init
  <2>2. left \in [calls: Nat, edits: Nat, crashes: Nat]
    BY ScreeningAssumption DEF Init
  <2> QED  BY <1>5, <2>1, <2>2 DEF Init, TypeOK, Optional
<1>7. JudgesStoredJd /\ LocalNeverRecommends
  BY <1>1, <1>2, <1>3, <1>4 DEF JudgesStoredJd, LocalNeverRecommends
<1>8. \A p \in Process : CallOK(p, call[p])
  BY IdleIsACall DEF Init
<1>9. FilesOK
  BY DEF Init, FilesOK, At, Idle, Working
<1> QED  BY <1>6, <1>7, <1>8, <1>9 DEF IInv

LEMMA InvariantKept == IInv /\ [Next]_vars => IInv'
<1> SUFFICES ASSUME IInv, [Next]_vars PROVE IInv'
  OBVIOUS
<1>1. ASSUME MarkStays, NEW CONSTANT c \in Caller, Call(c)
      PROVE  IInv'
  <2>1. PICK strong \in BOOLEAN, classify \in BOOLEAN :
          Start(c, strong, classify)
    BY <1>1 DEF Call
  <2> QED  BY <1>1, <2>1, StartKeeps
<1>2. ASSUME MarkStays, NEW CONSTANT p \in Process, Screen(p)
      PROVE  IInv'
  BY <1>2, AskKeeps, GateKeeps, CheckStoredKeeps, PublishKeeps, ConfirmKeeps,
     ClassifyKeeps, WriteVerdictKeeps DEF Screen
<1>3. ASSUME MarkStays, NEW CONSTANT p \in Process, Crash(p)
      PROVE  IInv'
  BY <1>3, CrashKeeps
<1>4. CASE TakeSnapshot /\ MarkStays
  BY <1>4, TakeSnapshotKeeps
<1>5. CASE Run /\ MarkStays
  BY <1>5, BeginRunnerKeeps, EligibleKeeps, LoadKeeps, ReportKeeps DEF Run
<1>6. CASE Edit /\ MarkStays
  BY <1>6, EditKeeps
<1>7. CASE Save /\ kept' = (record.screening # None)
  BY <1>7, SaveKeeps
<1>8. CASE UNCHANGED vars
  <2>1. /\ record' \in Loadable /\ left' \in Left /\ MarkStays
        /\ UNCHANGED <<call, snapshot, journal>>
        /\ JudgesStoredJd' /\ LocalNeverRecommends'
    BY <1>8 DEF vars, IInv, TypeOK, Left, JudgesStoredJd, LocalNeverRecommends,
                MarkStays
  <2> QED  BY <2>1, RecordMoves
<1> QED  BY <1>1, <1>2, <1>3, <1>4, <1>5, <1>6, <1>7, <1>8 DEF Next, Step

THEOREM Invariant == Spec => []IInv
<1> QED  BY InvariantInitially, InvariantKept, PTL DEF Spec

-----------------------------------------------------------------------------
(* The invariants of the runs.                                              *)

(* The variables keep their types; the record can be loaded whatever the    *)
(* screenings and the user did to it.                                       *)
THEOREM TypeCorrect == Spec => []TypeOK
<1>1. IInv => TypeOK
  BY DEF IInv
<1> QED  BY <1>1, Invariant, PTL

(* The stored screening judges the stored JD (run_screening's precondition  *)
(* on the JD, replace_jd's removal of the screening), but for what a save   *)
(* of a late extraction keeps.                                              *)
THEOREM ScreeningJudgesJd == Spec => []JudgesStoredJd
<1>1. IInv => JudgesStoredJd
  BY DEF IInv
<1> QED  BY <1>1, Invariant, PTL

(* The verdict guard is on every path from a provider to the record.        *)
THEOREM LocalIsGuarded == Spec => []LocalNeverRecommends
<1>1. IInv => LocalNeverRecommends
  BY DEF IInv
<1> QED  BY <1>1, Invariant, PTL

(* The snapshot rescreen pays a provider only for an entry whose start is   *)
(* on disk.                                                                 *)
THEOREM PaidIsJournaled == Spec => []AskedIsJournaled
<1>1. IInv => AskedIsJournaled
  BY DEF IInv, FilesOK, AskedIsJournaled, At
<1> QED  BY <1>1, Invariant, PTL

-----------------------------------------------------------------------------
(* What a step may not do.                                                  *)

(* A step of a call moves no other call.                                    *)
LEMMA OneCallMoves ==
    ASSUME IInv, NEW p \in Process, NEW q \in Process, p # q,
           Screen(q) \/ Crash(q) \/ (q \in Caller /\ Call(q))
                     \/ (q = Runner /\ Run)
    PROVE  call'[p] = call[p]
<1>1. call \in [Process -> CallState]
  BY DEF IInv, TypeOK
<1>2. ASSUME NEW state, Becomes(q, state) PROVE call'[p] = call[p]
  BY <1>1, <1>2 DEF Becomes
<1>3. ASSUME NEW how, Ends(q, how) PROVE call'[p] = call[p]
  BY <1>2, <1>3 DEF Ends
<1>4. CASE Ask(q)
  BY <1>2, <1>3, <1>4 DEF Ask, GivesUp
<1>5. CASE Gate(q)
  BY <1>2, <1>3, <1>5 DEF Gate
<1>6. CASE CheckStored(q)
  BY <1>2, <1>3, <1>6 DEF CheckStored
<1>7. CASE Publish(q)
  BY <1>2, <1>3, <1>7 DEF Publish
<1>8. CASE Confirm(q)
  BY <1>2, <1>3, <1>8 DEF Confirm
<1>9. CASE Classify(q)
  BY <1>2, <1>3, <1>9 DEF Classify
<1>10. CASE WriteVerdict(q) \/ Crash(q)
  BY <1>2, <1>3, <1>10 DEF WriteVerdict, Crash
<1>11. CASE q \in Caller /\ Call(q)
  BY <1>2, <1>11 DEF Call, Start
<1>12. CASE q = Runner /\ Run
  BY <1>2, <1>3, <1>12 DEF Run, BeginRunner, Eligible, Load, Report
<1> QED  BY <1>4, <1>5, <1>6, <1>7, <1>8, <1>9, <1>10, <1>11, <1>12 DEF Screen

(* A call gets from "publish" to "confirm" by publishing only.              *)
LEMMA ConfirmedIsPublished ==
    ASSUME IInv, Next, NEW p \in Process,
           At(p, {"publish"}), call'[p].at = "confirm"
    PROVE  /\ ~Refused(Publication(p), record)
           /\ record' = Screened(Publication(p), record)
<1>1. /\ call \in [Process -> CallState] /\ call[p].at = "publish"
      /\ call'[p] # call[p]
  BY DEF IInv, TypeOK, At
<1>2. ASSUME NEW state, Becomes(p, state) PROVE state.at = "confirm"
  BY <1>1, <1>2 DEF Becomes
<1>3. ASSUME NEW how, Ends(p, how) PROVE FALSE
  <2>1. CASE p = Runner
    <3>1. call' = [call EXCEPT ![p] = [call[p] EXCEPT !.at = "report",
                                                      !.how = how]]
      BY <1>3, <2>1 DEF Ends, Becomes
    <3>2. call[p] \in CallState
      BY <1>1
    <3>3. call'[p].at = "report"
      BY <1>1, <3>1, <3>2 DEF CallState
    <3> QED  BY <3>3
  <2>2. CASE p # Runner
    <3>1. call'[p].at = "idle"
      BY <1>1, <1>3, <2>2 DEF Ends, Becomes, Idle
    <3> QED  BY <3>1
  <2> QED  BY <2>1, <2>2
<1>4. ~Crash(p)
  BY <1>2 DEF Crash, Idle
<1>5. Screen(p)
  <2>1. ASSUME NEW c \in Caller, Call(c) PROVE FALSE
    <3>1. c # p
      BY <1>1, <2>1 DEF Call, Start, At
    <3> QED  BY <1>1, <2>1, <3>1, OneCallMoves
  <2>2. ASSUME Run PROVE FALSE
    <3>1. Runner # p
      BY <1>1, <2>2 DEF Run, BeginRunner, Eligible, Load, Report, At
    <3> QED  BY <1>1, <2>2, <3>1, OneCallMoves
  <2>3. ASSUME NEW q \in Process, q # p, Screen(q) \/ Crash(q) PROVE FALSE
    BY <1>1, <2>3, OneCallMoves
  <2>4. ~TakeSnapshot /\ ~Edit /\ ~Save
    BY <1>1 DEF TakeSnapshot, Edit, Save
  <2> QED  BY <1>4, <2>1, <2>2, <2>3, <2>4 DEF Next, Step
<1>6. Publish(p)
  BY <1>1, <1>5 DEF Screen, Ask, Gate, CheckStored, Confirm, Classify,
                    WriteVerdict, At
<1> QED  BY <1>3, <1>6 DEF Publish

(* Only a strong provider answers a caller that requires one (line 853).    *)
THEOREM StrongRescreens == Spec => StrongRescreenIsStrong
<1>1. ASSUME IInv, Next, NEW p \in Process, call[p].strong,
             At(p, {"publish"}), call'[p].at = "confirm"
      PROVE  record'.screening.by \in Strong
  <2>1. /\ ~Refused(Publication(p), record)
        /\ record' = Screened(Publication(p), record)
    BY <1>1, ConfirmedIsPublished
  <2>2. record'.screening = call[p].doc /\ call[p].doc # None
    BY <1>1, <2>1, Published
  <2>3. CallOK(p, call[p])
    BY <1>1 DEF IInv
  <2> QED  BY <1>1, <2>2, <2>3 DEF CallOK
<1>2. IInv /\ [Next]_vars =>
        [\A p \in Process :
           call[p].strong /\ At(p, {"publish"}) /\ call'[p].at = "confirm" =>
               record'.screening.by \in Strong]_vars
  BY <1>1
<1> QED  BY <1>2, Invariant, PTL DEF Spec, StrongRescreenIsStrong

(* What the snapshot rescreen replaces is the fallback document it listed,  *)
(* for every order of publications, refreshes and edits in between.         *)
THEOREM SnapshotRescreens == Spec => SnapshotReplacesItsFallback
<1>1. ASSUME IInv, Next, At(Runner, {"publish"}), call'[Runner].at = "confirm"
      PROVE  /\ record.posting = "active"
             /\ IsFallback(record.screening)
             /\ record.screening = snapshot.screening
             /\ record'.screening.by = Selected
  <2>1. /\ ~Refused(Publication(Runner), record)
        /\ record' = Screened(Publication(Runner), record)
    BY <1>1, ConfirmedIsPublished
  <2>2. /\ record'.screening = call[Runner].doc /\ call[Runner].doc # None
        /\ record.posting = "active" /\ record.screening = snapshot.screening
    BY <1>1, <2>1, Published
  <2>3. CallOK(Runner, call[Runner])
    BY <1>1 DEF IInv
  <2>4. IsFallback(snapshot.screening)
    BY <1>1 DEF IInv, FilesOK, At
  <2> QED  BY <2>2, <2>3, <2>4 DEF CallOK
<1>2. IInv /\ [Next]_vars =>
        [At(Runner, {"publish"}) /\ call'[Runner].at = "confirm" =>
           /\ record.posting = "active"
           /\ IsFallback(record.screening)
           /\ record.screening = snapshot.screening
           /\ record'.screening.by = Selected]_vars
  BY <1>1
<1> QED  BY <1>2, Invariant, PTL DEF Spec, SnapshotReplacesItsFallback

(* A cap is lifted by an assessment, or goes with the screening.            *)
THEOREM CapsAreKept == Spec => CapIsKept
<1> DEFINE Lifted == record'.screening = None \/ IsAssessment(record'.screening)
<1>1. ASSUME IInv, NEW p \in Process, Publish(p), record.capped, ~record'.capped
      PROVE  Lifted
  <2>1. /\ ~Refused(Publication(p), record) /\ At(p, {"publish"})
        /\ record' = Screened(Publication(p), record)
    BY <1>1 DEF Publish
  <2>2. /\ record'.screening = call[p].doc /\ call[p].doc # None
        /\ record'.capped = Or(call[p].capped, record.capped)
    BY <1>1, <2>1, Published
  <2>3. call[p].capped # None
    <3>1. CASE call[p].capped = None
      <4>1. record'.capped = record.capped
        BY <2>2, <3>1, Zenon DEF Or
      <4> QED  BY <1>1, <4>1
    <3> QED  BY <3>1
  <2>4. CallOK(p, call[p])
    BY <1>1 DEF IInv
  <2>5. call[p].doc.by # "fallback"
    BY <2>2, <2>3, <2>4 DEF CallOK
  <2> QED  BY <2>2, <2>5 DEF IsAssessment
<1>2. ASSUME IInv, NEW p \in Process, WriteVerdict(p)
      PROVE  record'.capped = record.capped
  <2>1. /\ call[p] \in CallState /\ CallOK(p, call[p]) /\ record \in Loadable
        /\ call[p].at = "verdict"
    BY <1>2 DEF IInv, TypeOK, WriteVerdict, At
  <2>2. call[p].told \in Verdict
    BY <2>1 DEF CallState, CallOK, Optional
  <2>3. record' = VerdictUpdated([verdict |-> call[p].told, reason |-> None],
                                 record)
    BY <1>2 DEF WriteVerdict
  <2> QED  BY <2>1, <2>2, <2>3, VerdictKeepsJudgement
<1>3. ASSUME IInv, Edit, record.capped, ~record'.capped
      PROVE  Lifted
  <2>1. record \in Loadable
    BY <1>3 DEF IInv, TypeOK
  <2>2. CASE \E jd \in Jd : record' = JdReplaced([jd |-> jd], record)
    <3>1. record'.screening = None
      BY <2>1, <2>2 DEF JdReplaced, Loadable, Stored
    <3> QED  BY <3>1
  <2>3. CASE \E status \in Optional(Status), posting \in Optional(Posting) :
               record' = StatusUpdated([status |-> status, posting |-> posting],
                                       record)
    <3>1. record'.capped = record.capped
      BY <2>1, <2>3, StatusKeepsJudgement
    <3> QED  BY <1>3, <3>1
  <2> QED  BY <1>3, <2>2, <2>3 DEF Edit
<1>4. ASSUME IInv, Next, record.capped, ~record'.capped
      PROVE  Lifted
  <2>1. CASE UNCHANGED record
    BY <1>4, <2>1
  <2>2. ASSUME NEW p \in Process, Screen(p) PROVE Lifted
    <3>1. CASE Publish(p)
      BY <1>1, <1>4, <3>1
    <3>2. CASE WriteVerdict(p)
      BY <1>2, <1>4, <3>2
    <3>3. CASE UNCHANGED record
      BY <2>1, <3>3
    <3> QED  BY <2>2, <3>1, <3>2, <3>3
                DEF Screen, Ask, Gate, CheckStored, Confirm, Classify
  <2>3. ASSUME NEW p \in Process, Crash(p) PROVE Lifted
    BY <2>1, <2>3 DEF Crash
  <2>4. ASSUME NEW c \in Caller, Call(c) PROVE Lifted
    BY <2>1, <2>4 DEF Call, Start
  <2>5. ASSUME TakeSnapshot \/ Run PROVE Lifted
    BY <2>1, <2>5 DEF TakeSnapshot, Run, BeginRunner, Eligible, Load, Report
  <2>6. ASSUME Save PROVE FALSE
    <3>1. PICK jd \in Jd : record' = SavedJd(jd)
      BY <2>6 DEF Save
    <3> QED  BY <1>4, <3>1, SaveFacts
  <2> QED  BY <1>3, <1>4, <2>2, <2>3, <2>4, <2>5, <2>6 DEF Next, Step
<1>5. IInv /\ [Next]_vars =>
        [record.capped /\ ~record'.capped =>
           record'.screening = None \/ IsAssessment(record'.screening)]_vars
  BY <1>4
<1> QED  BY <1>5, Invariant, PTL DEF Spec, CapIsKept

(* No start of the rescreen takes up an entry a provider was paid for.      *)
THEOREM StartsAreKept == Spec => StartedIsTakenOnce
<1> DEFINE Kept ==
           /\ journal = "started" => journal' \in {"started"} \cup Terminal
           /\ journal \in Terminal => journal' = journal
<1>0. None \notin {"open", "started"} \cup Terminal
  BY ScreeningAssumption
<1>1. ASSUME UNCHANGED journal PROVE Kept
  BY <1>1
<1>2. ASSUME BeginRunner PROVE Kept
  BY <1>0, <1>2 DEF BeginRunner, Terminal
<1>3. ASSUME IInv, Eligible PROVE Kept
  <2>1. journal = "open"
    BY <1>3 DEF IInv, FilesOK, Eligible
  <2> QED  BY <2>1 DEF Terminal
<1>4. ASSUME IInv, Report PROVE Kept
  <2>1. journal = "started" /\ call[Runner] \in CallState
        /\ CallOK(Runner, call[Runner]) /\ call[Runner].at = "report"
    BY <1>4 DEF IInv, TypeOK, FilesOK, Report, At
  <2>2. call[Runner].how \in Ended /\ journal' = Outcome
    BY <1>4, <2>1 DEF CallOK, CallState, Optional, Report
  <2>3. journal' \in Terminal
    BY <2>2 DEF Outcome, Ended, Terminal
  <2> QED  BY <2>1, <2>3 DEF Terminal
<1>5. ASSUME IInv, Next PROVE Kept
  <2>1. ASSUME NEW p \in Process, Screen(p) \/ Crash(p) PROVE Kept
    <3>1. UNCHANGED journal
      BY <2>1 DEF Screen, Ask, Gate, CheckStored, Publish, Confirm, Classify,
                  WriteVerdict, Crash
    <3> QED  BY <1>1, <3>1
  <2>2. ASSUME NEW c \in Caller, Call(c) PROVE Kept
    BY <1>1, <2>2 DEF Call, Start
  <2>3. CASE TakeSnapshot \/ Edit \/ Load \/ Save
    BY <1>1, <2>3 DEF TakeSnapshot, Edit, Load, Save
  <2> QED  BY <1>2, <1>3, <1>4, <1>5, <2>1, <2>2, <2>3 DEF Next, Step, Run
<1>6. IInv /\ [Next]_vars =>
        [/\ journal = "started" => journal' \in {"started"} \cup Terminal
         /\ journal \in Terminal => journal' = journal]_vars
  BY <1>5
<1> QED  BY <1>6, Invariant, PTL DEF Spec, StartedIsTakenOnce
=============================================================================
