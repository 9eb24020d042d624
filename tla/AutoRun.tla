------------------------------ MODULE AutoRun ------------------------------
(* automation.AutomationService._run_auto: one `run auto` after another, by *)
(* search, from a URL file or resumed, over the pending URL file, the seen  *)
(* keys of the search and the job records.  A run dies at any statement; a  *)
(* browser collection adds records while it works.                          *)
EXTENDS Integers, Sequences, FiniteSets

CONSTANTS
    Posting,     \* postings of the platforms; URL, seen key and record key
    MaxRun,      \* execution.max_urls_per_run of the search
    Cap,         \* the --max-urls values users give
    MaxCrashes   \* bound

ASSUME AutoAssumption ==
    /\ IsFiniteSet(Posting)
    /\ MaxRun \in Nat \ {0}
    /\ Cap \subseteq Nat \ {0}
    /\ MaxCrashes \in Nat

VARIABLES
    seen,      \* search_state.json
    pending,   \* pending_urls.json; <<>> when it is absent
    record,    \* what the record of a posting holds
    run,       \* the run being executed
    left       \* crashes that may still happen

vars == <<seen, pending, record, run, left>>

RecordState == {"none", "unscreened", "setaside", "screened"}

(* lists of URLs without repetition, and what is listed                     *)
Listed(urls) == {urls[i] : i \in 1..Len(urls)}
UrlList(S) ==
    UNION {{urls \in [1..n -> S] : \A i, j \in 1..n : urls[i] = urls[j] => i = j} :
           n \in 0..Cardinality(S)}
First(n, urls) == SubSeq(urls, 1, IF n < Len(urls) THEN n ELSE Len(urls))
Rest(n, urls) == SubSeq(urls, n + 1, Len(urls))
(* those of the URLs that are in S, in their order                          *)
Among(urls, S) ==
    LET among[n \in 0..Len(urls)] ==
          IF n = 0 THEN <<>>
          ELSE IF urls[n] \in S THEN Append(among[n - 1], urls[n])
          ELSE among[n - 1]
    IN  among[Len(urls)]

(* at: the stage; tail: resume_remainder; marks: the keys to persist; k:    *)
(* the URL the stage is at; failed: extraction failures; got: records       *)
(* handed to screening; retry: screening failures and company warnings      *)
Idle == [at |-> "idle", mode |-> "none", only |-> FALSE,
         urls |-> <<>>, tail |-> <<>>, marks |-> {}, k |-> 1,
         failed |-> {}, got |-> {}, retry |-> {}]

Init ==
    /\ seen = {}
    /\ pending = <<>>
    /\ record = [u \in Posting |-> "none"]
    /\ run = Idle
    /\ left = [crashes |-> MaxCrashes]

-----------------------------------------------------------------------------
(* What the run is about.                                                   *)

(* SearchService.run: postings that are not seen and have no record, up to  *)
(* the cap; the keys of the returned ones, and of those with a record, are  *)
(* to be marked                                                             *)
Found(listing) ==
    Among(listing, {u \in Posting : u \notin seen /\ record[u] = "none"})
(* mutation: what the cap cuts off is marked as well                        *)
MarksAll(listing, cap) == Listed(listing)
Marks(listing, cap) ==
    Listed(First(cap, Found(listing)))
        \cup {u \in Listed(listing) \ seen : record[u] # "none"}

StartSearch(listing, cap) ==
    /\ run.at = "idle"
    /\ run' = [Idle EXCEPT !.at = "persist", !.mode = "search",
                           !.urls = First(cap, Found(listing)),
                           !.marks = Marks(listing, cap)]
    /\ UNCHANGED <<seen, pending, record, left>>

(* the seen keys are merged before anything else is written; --search-only  *)
(* ends here                                                                *)
Persist ==
    /\ run.at = "persist"
    /\ seen' = seen \cup run.marks
    /\ run' \in {[run EXCEPT !.at = "save"], Idle}
    /\ UNCHANGED <<pending, record, left>>

StartUrls(urls, cap, only) ==
    /\ run.at = "idle"
    /\ run' = [Idle EXCEPT !.at = "save", !.mode = "urls", !.only = only,
                           !.urls = First(cap, urls)]
    /\ UNCHANGED <<seen, pending, record, left>>

(* mutation: off by one, the last URL is always left for the next run       *)
StartResumeShort(cap, only) ==
    /\ run.at = "idle" /\ cap > 0
    /\ run' = [Idle EXCEPT !.at = "save", !.mode = "resume", !.only = only,
                           !.urls = First(cap - 1, pending),
                           !.tail = Rest(cap - 1, pending)]
    /\ UNCHANGED <<seen, pending, record, left>>

StartResume(cap, only) ==
    /\ run.at = "idle"
    /\ run' = [Idle EXCEPT !.at = "save", !.mode = "resume", !.only = only,
                           !.urls = First(cap, pending),
                           !.tail = Rest(cap, pending)]
    /\ UNCHANGED <<seen, pending, record, left>>

(* mutation: the URLs beyond the cap are not written back                   *)
SavePendingCapped ==
    /\ run.at = "save"
    /\ pending' = run.urls
    /\ run' = [run EXCEPT !.at = "extract"]
    /\ UNCHANGED <<seen, record, left>>
SavePending ==
    /\ run.at = "save"
    /\ pending' = run.urls \o run.tail
    /\ run' = [run EXCEPT !.at = "extract"]
    /\ UNCHANGED <<seen, record, left>>

-----------------------------------------------------------------------------
(* The stages, one URL after the other.                                     *)

InStage(stage) == run.at = stage /\ run.k <= Len(run.urls)
Url == run.urls[run.k]
NextStage(from, to) ==
    /\ run.at = from
    /\ run.k > Len(run.urls)
    /\ run' = [run EXCEPT !.at = to, !.k = 1]
    /\ UNCHANGED <<seen, pending, record, left>>

(* a posting with a record is a duplicate, and is not screened either       *)
Duplicate ==
    /\ InStage("extract")
    /\ ~run.only /\ record[Url] # "none"
    /\ run' = [run EXCEPT !.k = @ + 1]
    /\ UNCHANGED <<seen, pending, record, left>>

(* --screening-only takes the record; otherwise the posting is fetched      *)
Extracted ==
    /\ InStage("extract")
    /\ run.only <=> record[Url] # "none"
    /\ record' = [record EXCEPT ![Url] = IF run.only THEN @ ELSE "unscreened"]
    /\ run' = [run EXCEPT !.k = @ + 1, !.got = @ \cup {Url}]
    /\ UNCHANGED <<seen, pending, left>>

(* mutation: the failed URL is skipped                                      *)
ExtractFailedUnnoted ==
    /\ InStage("extract")
    /\ record[Url] = "none"
    /\ run' = [run EXCEPT !.k = @ + 1]
    /\ UNCHANGED <<seen, pending, record, left>>

ExtractFailed ==
    /\ InStage("extract")
    /\ record[Url] = "none"
    /\ run' = [run EXCEPT !.k = @ + 1, !.failed = @ \cup {Url}]
    /\ UNCHANGED <<seen, pending, record, left>>

Extract == Duplicate \/ Extracted \/ ExtractFailed \/ NextStage("extract", "screen")

(* only extracted records are screened                                      *)
NotExtracted ==
    /\ InStage("screen")
    /\ Url \notin run.got
    /\ run' = [run EXCEPT !.k = @ + 1]
    /\ UNCHANGED <<seen, pending, record, left>>

(* a warning about the company information asks for a retry, whatever else  *)
(* becomes of the record                                                    *)
Warned(warned) ==
    run' = [run EXCEPT !.k = @ + 1,
                       !.retry = IF warned THEN @ \cup {Url} ELSE @]

ScreenFailed ==
    /\ InStage("screen")
    /\ Url \in run.got
    /\ Warned(TRUE)
    /\ UNCHANGED <<seen, pending, record, left>>

(* update_prescreen leaves an earlier screening alone                       *)
SetAside(warned) ==
    /\ InStage("screen")
    /\ Url \in run.got
    /\ record' = [record EXCEPT ![Url] = IF @ = "screened" THEN @ ELSE "setaside"]
    /\ Warned(warned)
    /\ UNCHANGED <<seen, pending, left>>

Screened(warned) ==
    /\ InStage("screen")
    /\ Url \in run.got
    /\ record' = [record EXCEPT ![Url] = "screened"]
    /\ Warned(warned)
    /\ UNCHANGED <<seen, pending, left>>

Screen ==
    \/ NotExtracted
    \/ ScreenFailed
    \/ \E warned \in BOOLEAN : SetAside(warned) \/ Screened(warned)
    \/ NextStage("screen", "complete")

(* mutation: company warnings and failures are not looked at                *)
CompleteExtractedOnly ==
    /\ run.at = "complete"
    /\ pending' = Among(run.urls, run.failed) \o run.tail
    /\ run' = Idle
    /\ UNCHANGED <<seen, record, left>>

(* What is left for --resume: failed extractions, then screenings to be     *)
(* repeated, then the URLs beyond the cap.                                  *)
Complete ==
    /\ run.at = "complete"
    /\ pending' = Among(run.urls, run.failed)
                    \o Among(run.urls, run.got \cap run.retry) \o run.tail
    /\ run' = Idle
    /\ UNCHANGED <<seen, record, left>>

-----------------------------------------------------------------------------
(* The run dies, or ends with an error: nothing is written on the way out.  *)
Crash ==
    /\ run.at # "idle"
    /\ left.crashes > 0
    /\ left' = [left EXCEPT !.crashes = @ - 1]
    /\ run' = Idle
    /\ UNCHANGED <<seen, pending, record>>

(* The browser extension collects, sets aside or screens a posting.         *)
Collect(u) ==
    /\ \/ record[u] = "none" /\ record' = [record EXCEPT ![u] = "unscreened"]
       \/ /\ record[u] = "unscreened"
          /\ record' \in {[record EXCEPT ![u] = s] : s \in {"setaside", "screened"}}
    /\ UNCHANGED <<seen, pending, run, left>>

ResetSearch ==
    /\ seen # {}
    /\ seen' = {}
    /\ UNCHANGED <<pending, record, run, left>>

(* without --max-urls the search keeps its configured cap, the others none  *)
Search == \E listing \in UrlList(Posting), cap \in Cap \cup {MaxRun} :
              StartSearch(listing, cap)
FromUrls == \E urls \in UrlList(Posting), only \in BOOLEAN :
              \E cap \in Cap \cup {Len(urls)} : StartUrls(urls, cap, only)
Resume == \E only \in BOOLEAN, cap \in Cap \cup {Len(pending)} :
              StartResume(cap, only)
Work == Persist \/ SavePending \/ Extract \/ Screen \/ Complete

Next ==
    \/ Search
    \/ FromUrls
    \/ Resume
    \/ Work
    \/ Crash
    \/ \E u \in Posting : Collect(u)
    \/ ResetSearch

Spec == Init /\ [][Next]_vars

(* A run goes on to its end; while something is pending the user resumes    *)
(* again and again, and a posting is not unreachable for ever.              *)
ResumeAll == pending # <<>> /\ StartResume(Len(pending), FALSE)
Reached(u) == run.at = "extract" /\ run.k <= Len(run.urls) /\ Url = u /\ Extracted
FairSpec ==
    /\ Spec
    /\ WF_vars(Work)
    /\ SF_vars(ResumeAll)
    /\ \A u \in Posting : SF_vars(Reached(u))

-----------------------------------------------------------------------------
TypeOK ==
    /\ seen \subseteq Posting
    /\ pending \in UrlList(Posting)
    /\ record \in [Posting -> RecordState]
    /\ run.at \in {"idle", "persist", "save", "extract", "screen", "complete"}
    /\ run.mode \in {"none", "search", "urls", "resume"}
    /\ run.only \in BOOLEAN
    /\ run.urls \o run.tail \in UrlList(Posting)
    /\ run.k \in 1..Len(run.urls) + 1
    /\ run.marks \subseteq Posting
    /\ run.failed \cup run.got \subseteq Listed(run.urls)
    /\ run.retry \subseteq run.got
    /\ left \in [crashes : 0..MaxCrashes]

(* Whenever a run dies in one of its stages, every posting it still had to  *)
(* handle, those beyond the cap of --resume included, is pending.           *)
RunIsPending ==
    run.at \in {"extract", "screen", "complete"} =>
        Listed(run.urls) \cup Listed(run.tail) \subseteq Listed(pending)

(* The search marks a posting as seen only when it hands it to this run or  *)
(* the posting has a record: what the cap cuts off is found again.          *)
SeenWasHandedOn ==
    [][\A u \in seen' \ seen : u \in Listed(run.urls) \/ record[u] # "none"]_vars

(* A resumed run drops a posting from the pending file only when the        *)
(* posting has a record.                                                    *)
ResumeKeepsUnrecorded ==
    [][run.mode = "resume" =>
        \A u \in Listed(pending) \ Listed(pending') : record'[u] # "none"]_vars

(* A run that got to its stages and ends, by itself or by a crash, leaves   *)
(* each of its postings pending, assessed, or recorded by someone else.     *)
RunAccountsForAll ==
    [][(run.at \in {"extract", "screen", "complete"} /\ run'.at = "idle") =>
        \A u \in Listed(run.urls \o run.tail) :
            \/ u \in Listed(pending')
            \/ record[u] \in {"setaside", "screened"}
            \/ u \notin run.got /\ record[u] # "none"]_vars

(* Resuming works the pending file off: a posting does not stay pending     *)
(* without a record for ever.                                               *)
PendingIsExtracted ==
    \A u \in Posting :
        (u \in Listed(pending)) ~> (record[u] # "none" \/ u \notin Listed(pending))

=============================================================================
