--------------------------- MODULE PostingChecks ---------------------------
(* JobsMaintenanceService.check_closed: the postings of a list read at the  *)
(* start are looked up one after the other on their sites, and the records  *)
(* of those that closed, or with --recheck-closed opened again, are         *)
(* updated.  The sites fail, ask to wait and change their mind meanwhile,   *)
(* and the user sets statuses next to the run.                              *)
EXTENDS Integers, Sequences, SequencesExt

CONSTANTS
    Record,         \* the records in the order of repository.list()
    PlatformOf,     \* the platform of each
    Marked,         \* records whose document says that the posting closed
    MaxChanges      \* bound on changes of the sites and by the user

ASSUME RecordsAssumption ==
    /\ Record \in Nat
    /\ DOMAIN PlatformOf = 1..Record
    /\ Marked \subseteq 1..Record
    /\ MaxChanges \in Nat

Records == 1..Record

Probed == {"wanted", "remember", "jumpit", "groupby", "offercent", "greeting", "saramin"}
(* mutation: every platform can be rechecked                                *)
AnyRecheckSafe == Probed
RecheckSafe == {"wanted", "remember", "jumpit", "greeting"}

Retryable == {"429", "503"}
Fault == Retryable \cup {"error", "garbage"}

(* The answers each probe takes for a closed posting, and for an open one;  *)
(* everything else is UNKNOWN.                                              *)
ReadAsClosed(platform) ==
    CASE platform = "wanted" -> {"closed", "draft", "404"}
      [] platform = "remember" -> {"closed"}
      [] platform = "jumpit" -> {"C003", "expired"}
      [] platform = "groupby" -> {"private"}
      [] platform = "offercent" -> {"no page"}
      [] platform = "greeting" -> {"closed", "404"}
      [] platform = "saramin" -> {"no page", "expired"}
      [] OTHER -> {}
ReadAsActive(platform) ==
    CASE platform = "offercent" -> {"active", "other page"}    \* any other title
      [] platform = "saramin" -> {"active", "undated"}         \* title, no deadline
      [] platform \in Probed -> {"active"}
      [] OTHER -> {}
Outcome(platform, answer) ==
    IF answer \in ReadAsClosed(platform) THEN "closed"
    ELSE IF answer \in ReadAsActive(platform) THEN "active"
    ELSE "unknown"

(* What a site says of a posting: faults at any time; offercent and saramin *)
(* show other pages too, groupby a placeholder, whether it is open or not.  *)
Says(platform, truth) ==
    Fault \cup (IF truth = "active" THEN {"active"} ELSE ReadAsClosed(platform))
          \cup (CASE platform = "offercent" -> {"other page"}
                  [] platform = "saramin" -> {"undated"}
                  [] platform = "groupby" -> {"placeholder"}
                  [] OTHER -> {})

VARIABLES
    posting,    \* posting[r]: posting_status of the record
    site,       \* site[r]: what the posting really is
    check,      \* the run
    changes     \* changes of sites and statuses so far

checkVars == <<posting, site, check, changes>>

(* todo: records still to look at; tries: answers asked for the first of    *)
(* them; outcome and truth: how it was answered and what was true then;     *)
(* unknowns, tripped, failing: consecutive UNKNOWN outcomes of a platform,  *)
(* the platforms given up, and requests since a platform last answered      *)
Ready == [at |-> "idle", todo |-> <<>>, recheck |-> FALSE, apply |-> FALSE,
          tries |-> 0, outcome |-> "unknown", truth |-> "active",
          unknowns |-> [p \in Probed |-> 0], tripped |-> {},
          failing |-> [p \in Probed |-> 0]]

CheckInit ==
    /\ posting \in [Records -> {"active", "closed"}]
    /\ site = posting
    /\ \A r, q \in Records : r < q /\ PlatformOf[r] = PlatformOf[q] =>
          posting[r] = posting[q]
    /\ check = Ready
    /\ changes = 0

(* the list is the records of the status asked for, or the keys named; a    *)
(* platform without a probe is counted as skipped                           *)
Begin ==
    /\ check.at = "idle"
    /\ \E recheck, apply \in BOOLEAN, named \in {Records, {1}} :
        check' = [Ready EXCEPT !.at = "next", !.recheck = recheck, !.apply = apply,
            !.todo = SelectSeq([r \in Records |-> r], LAMBDA r :
                /\ r \in named
                /\ posting[r] = (IF recheck THEN "closed" ELSE "active")
                /\ PlatformOf[r] \in Probed)]
    /\ UNCHANGED <<posting, site, changes>>

Platform == PlatformOf[Head(check.todo)]
Dropped(c) == [c EXCEPT !.at = "next", !.tries = 0, !.todo = Tail(@)]

Ended ==
    /\ check.at = "next"
    /\ check.todo = <<>>
    /\ check' = Ready
    /\ UNCHANGED <<posting, site, changes>>

(* a platform that was given up is not asked again                          *)
Skip ==
    /\ check.at = "next"
    /\ check.todo # <<>>
    /\ Platform \in check.tripped
    /\ check' = Dropped(check)
    /\ UNCHANGED <<posting, site, changes>>

(* One request.  A site that asks to wait is asked once more; the second    *)
(* 429 or 503 is final.                                                     *)
Ask ==
    /\ check.at = "next"
    /\ check.todo # <<>>
    /\ Platform \notin check.tripped
    /\ LET r == Head(check.todo) IN
       \E answer \in Says(Platform, site[r]) :
        IF answer \in Retryable /\ check.tries = 0
        THEN check' = [check EXCEPT !.tries = 1, !.failing[Platform] = @ + 1]
        ELSE check' = [check EXCEPT !.at = "judge", !.truth = site[r],
                  !.outcome = Outcome(Platform, answer),
                  !.failing[Platform] = IF Outcome(Platform, answer) = "unknown"
                                        THEN @ + 1 ELSE 0]
    /\ UNCHANGED <<posting, site, changes>>

(* three UNKNOWN outcomes of a platform in a row trip it                    *)
Unknown ==
    /\ check.at = "judge"
    /\ check.outcome = "unknown"
    /\ LET n == check.unknowns[Platform] + 1 IN
       check' = Dropped([check EXCEPT !.unknowns[Platform] = n,
                   !.tripped = IF n >= 3 THEN @ \cup {Platform} ELSE @])
    /\ UNCHANGED <<posting, site, changes>>

(* The record is updated by its key, whatever became of it since the list   *)
(* was read; a posting is opened again only where ACTIVE can be trusted.    *)
Known ==
    LET r == Head(check.todo)
        written == \/ check.recheck /\ check.outcome = "active" /\ Platform \in RecheckSafe
                   \/ ~check.recheck /\ check.outcome = "closed" IN
    /\ check.at = "judge"
    /\ check.outcome # "unknown"
    /\ posting' = IF written /\ check.apply
                  THEN [posting EXCEPT ![r] = check.outcome] ELSE posting
    /\ check' = Dropped([check EXCEPT !.unknowns[Platform] = 0])
    /\ UNCHANGED <<site, changes>>

(* backfill_closed --apply: a record listed as active with a closed marker  *)
(* is closed in its turn, whatever became of it since                       *)
Backfill ==
    /\ \E r \in Marked : posting' = [posting EXCEPT ![r] = "closed"]
    /\ UNCHANGED <<site, check, changes>>

(* the site closes a posting or opens it again; the user sets a status      *)
Changes ==
    /\ changes < MaxChanges
    /\ changes' = changes + 1
    /\ \E r \in Records, s \in {"active", "closed"} :
        \/ site' = [site EXCEPT ![r] = s] /\ UNCHANGED posting
        \/ posting' = [posting EXCEPT ![r] = s] /\ UNCHANGED site
    /\ UNCHANGED check

CheckStep == Begin \/ Ended \/ Skip \/ Ask \/ Unknown \/ Known
CheckNext == CheckStep \/ Backfill \/ Changes
CheckSpec == CheckInit /\ [][CheckNext]_checkVars

-----------------------------------------------------------------------------
(* A check writes of a posting only what was true of it when its site       *)
(* answered: no failure, wait or foreign page closes a record or opens it   *)
(* again (check_closed with RECHECK_SAFE_PLATFORMS, the probes of           *)
(* status_probes.py).                                                       *)
WritesWhatWasTrue ==
    [][check' # check /\ posting' # posting
          => posting'[Head(check.todo)] = check.truth]_checkVars

=============================================================================
