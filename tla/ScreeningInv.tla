---------------------------- MODULE ScreeningInv ----------------------------
(* The inductive invariant of ScreeningRuns.                                *)
EXTENDS ScreeningRuns

(* What a process knows of the call it makes: the document it carries       *)
(* judges the JD it read, is guarded, keeps the cap when it is a fallback,  *)
(* and is of a provider the caller accepts.                                 *)
CallOK(p, c) ==
    /\ c.at \in Working => c.jd \in Jd
    /\ c.at \in {"ask", "ask contract", "ask quality", "gate"} => c.capped = None
    /\ c.at = "gate" => c.by # None
    /\ c.at = "load" => c.doc = None /\ c.capped = None
    /\ c.at = "report" => c.how # None
    /\ c.at = "verdict" => c.told # None
    /\ c.at \in {"stored", "publish"} => c.doc # None
    /\ c.doc # None =>
         /\ c.doc.jd = c.jd
         /\ c.doc.by = Local => c.doc.verdict # "recommended"
         /\ c.strong => c.doc.by \in Strong
         /\ c.doc.by = "fallback" => c.capped = None
    /\ p = Runner =>
         /\ c.at \in Working \cup {"load"} => c.strong
         /\ c.by \in {None, Selected}
         /\ c.doc # None => c.doc.by = Selected

(* What the files of the snapshot rescreen say while it runs.               *)
FilesOK ==
    /\ snapshot # None => IsFallback(snapshot.screening)
    /\ ~At(Runner, {"idle"}) => snapshot # None
    /\ At(Runner, {"eligible"}) => journal = "open"
    /\ At(Runner, Working \cup {"load", "report"}) => journal = "started"

IInv ==
    /\ TypeOK
    /\ JudgesStoredJd
    /\ LocalNeverRecommends
    /\ \A p \in Process : CallOK(p, call[p])
    /\ FilesOK
=============================================================================
