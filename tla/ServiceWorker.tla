--------------------------- MODULE ServiceWorker ---------------------------
(* The extension: the service worker that owns the connection to the host   *)
(* (ext/background/service-worker.js), a tab with its badge                 *)
(* (ext/content/badge.js) and the side panel's rescreen button              *)
(* (ext/sidepanel/panel.js), with the hosts at the other end.               *)
EXTENDS NativeHost, TLC

VARIABLES
    port,         \* the host connected to, None without a connection
    requests,     \* pendingRequests, in the order of their IDs
    pending,      \* pendingScreenings: the tracked screenings
    session,      \* their copy in the session storage
    recovering,   \* what a connection has read from the session storage
    sent,         \* the number of requests so far
    badge         \* the tab: its URL, what the badge shows and of what

extVars == <<port, requests, pending, session, recovering, sent, badge>>
vars == <<hostVars, extVars>>

Blank == [url |-> None, polling |-> FALSE, of |-> None, shows |-> "nothing"]

(* no connection, and a tab where an earlier life of the service worker has *)
(* left the collect button                                                  *)
ExtInit ==
    /\ port = None
    /\ requests = {}
    /\ pending = {} /\ session = {} /\ recovering = {}
    /\ sent = 0
    /\ badge = [Blank EXCEPT !.url = Opened, !.shows = "collect"]

Init == HostInit /\ ExtInit

-----------------------------------------------------------------------------
(* What the badge does with what reaches it                                 *)

Shown(b, what) == [b EXCEPT !.shows = what, !.of = None]
ShownRecord(b, u) == [b EXCEPT !.shows = "record", !.of = u,
                               !.polling = FALSE]
ShownError(b) == [Shown(b, "error") EXCEPT !.polling = FALSE]

(* renderFromRecord for the answer of the first lookup of a page            *)
Checked(b, w, a) ==
    CASE a.status = "error"   -> Shown(b, "error")
      [] a.status = "absent"  -> Shown(b, "collect")
      [] a.status = "new"     -> Shown(b, "screen")
      [] OTHER -> [b EXCEPT !.shows = "record", !.of = w.url]
(* pollForVerdict: an answer for another URL stops the polling              *)
Polled(b, w, a) ==
    IF w.url # b.url THEN [b EXCEPT !.polling = FALSE]
    ELSE IF a.decided /\ a.status # "error" THEN ShownRecord(b, w.url) ELSE b
Collected(b, w, a) ==
    IF a.status = "error" THEN ShownError(b)
    ELSE IF a.decided THEN ShownRecord(b, w.url) ELSE b
(* the panel's answer changes nothing in the tab                            *)
(* mutation: the answer of the first lookup is taken for the page shown     *)
AnsweredAnyUrl(b, w, a) ==
    CASE w.by = "check" -> Checked(b, w, a)
      [] w.by = "poll" -> Polled(b, w, a)
      [] w.by = "collect" /\ w.url = b.url -> Collected(b, w, a)
      [] OTHER -> b
Answered(b, w, a) ==
    CASE w.by = "check" /\ w.url = b.url -> Checked(b, w, a)
      [] w.by = "poll" -> Polled(b, w, a)
      [] w.by = "collect" /\ w.url = b.url -> Collected(b, w, a)
      [] OTHER -> b

(* sendMessage failed because the service worker is gone                    *)
Unanswered(b) ==
    LET waits(by) == \E w \in requests : w.by = by /\ w.url = b.url
    IN  [IF waits("check") THEN Shown(b, "error") ELSE b
            EXCEPT !.polling = @ /\ ~waits("collect")]

(* the messages of notifyTab                                                *)
Told(b, s, type) ==
    IF s.url # b.url \/ ~s.tab THEN b
    ELSE IF type = "complete" THEN ShownRecord(b, s.url) ELSE ShownError(b)
ToldAll(b, urls) == IF b.url \in urls THEN ShownError(b) ELSE b
-----------------------------------------------------------------------------
(* The service worker                                                       *)

(* connectNativeHost, and the message posted: over the connection there is, *)
(* or to a new host, when what an earlier service worker left in the        *)
(* session storage is read as well                                          *)
Posted(message) ==
    \/ /\ port # None
       /\ stdin' = [stdin EXCEPT ![port] = @ \o message]
       /\ UNCHANGED <<port, open, serve, recovering>>
    \/ /\ port = None
       /\ \E h \in Host : Started(h, message) /\ port' = h
       /\ recovering' = session
ConnectionLess == <<record, stdout, queue, inFlight, worker, deaths>>

(* sendToNativeHost                                                         *)
Send(by, action, u, target) ==
    /\ sent < MaxSent /\ sent' = sent + 1
    /\ requests' = requests \cup {[id |-> sent + 1, url |-> u, by |-> by]}
    /\ Posted(<<[id |-> sent + 1, url |-> u, target |-> target,
                 action |-> action]>>)
    /\ UNCHANGED <<ConnectionLess, pending, session>>

(* checkUrl: the tab shows another page                                     *)
Navigate(u) ==
    /\ badge.url # u
    /\ badge' = [Blank EXCEPT !.url = u, !.shows = "checking"]
    /\ Send("check", "lookup", u, u)
(* startCollectAndPoll; a request with a captured page may be more than the *)
(* host can read                                                            *)
HasPage(u) == Targets[u] # {u}
Collect ==
    /\ badge.shows \in {"collect", "screen"}
    /\ badge' = [Shown(badge, "loading") EXCEPT !.polling = TRUE]
    /\ \/ \E target \in Targets[badge.url] :
            Send("collect", "collect", badge.url, target)
       \/ /\ HasPage(badge.url)
          /\ Send("collect", "unreadable", badge.url, None)
(* pollForVerdict: a lookup every three seconds, an error after two minutes *)
Poll ==
    /\ badge.polling
    /\ \A w \in requests : w.by # "poll"
    /\ Send("poll", "lookup", badge.url, badge.url)
    /\ UNCHANGED badge
PollTimeout ==
    /\ badge.polling /\ badge' = ShownError(badge)
    /\ UNCHANGED <<hostVars, port, requests, pending, session, recovering,
                   sent>>
(* the panel's buttons, for a posting without a record and for one with a   *)
(* verdict; the panel cannot read the page                                  *)
PanelCollect ==
    /\ badge.url # None /\ record[badge.url] = "absent"
    /\ Send("panel", "collect", badge.url,
            IF HasPage(badge.url) THEN None ELSE badge.url)
    /\ UNCHANGED badge
Rescreen ==
    /\ badge.url # None /\ record[badge.url] = "decided"
    /\ Send("panel", "rescreen", badge.url, badge.url)
    /\ UNCHANGED badge
(* the keepalive alarm                                                      *)
KeepAlive ==
    /\ port = None /\ Posted(<<>>)
    /\ UNCHANGED <<ConnectionLess, requests, pending, session, sent, badge>>

(* handleNativeMessage: a push about a tracked screening is passed on and   *)
(* ends the tracking; other pushes are dropped                              *)
Tracked(message) == {s \in pending : s.track = message.track}
PassOn(message) ==
    /\ IF Tracked(message) = {} THEN UNCHANGED <<pending, session, badge>>
       ELSE /\ pending' = pending \ Tracked(message)
            /\ session' = pending'
            /\ \E s \in Tracked(message) :
                 badge' = Told(badge, s, message.type)
    /\ UNCHANGED requests

(* a request is settled by the answer with its ID, or the oldest one by     *)
(* any other; handleAction then tracks an accepted screening                *)
Settled(message) ==
    LET byId == {w \in requests : w.id = message.id}
        candidates == IF byId = {} THEN requests ELSE byId
    IN  CHOOSE w \in candidates : \A v \in candidates : w.id <= v.id
Settle(message) ==
    IF requests = {} THEN UNCHANGED <<requests, pending, session, badge>>
    ELSE LET w == Settled(message)
         IN  /\ requests' = requests \ {w}
             /\ badge' = Answered(badge, w, message)
             /\ IF message.status = "accepted"
                THEN /\ pending' = pending \cup
                          {[track |-> message.of, url |-> w.url,
                            tab |-> w.by = "collect"]}
                     /\ session' = pending'
                ELSE UNCHANGED <<pending, session>>
Receive ==
    /\ port # None /\ stdout[port] # <<>>
    /\ LET message == Head(stdout[port])
       IN  IF message.type = "answer" THEN Settle(message)
           ELSE PassOn(message)
    /\ stdout' = [stdout EXCEPT ![port] = Tail(@)]
    /\ UNCHANGED <<record, stdin, open, serve, queue, inFlight, worker,
                   deaths, port, recovering, sent>>

(* handleNativeDisconnect, when the host process has ended: every request   *)
(* is rejected, every tracked screening reported as failed, to the tab it   *)
(* started in or the one that is open                                       *)
RejectedAll(b) ==
    LET waits == {w \in requests :
                    w.url = b.url /\ w.by \in {"check", "collect"}}
    IN  IF waits = {} THEN b ELSE ShownError(b)
(* mutation: the requests without an answer are not forgotten               *)
DisconnectKeeping ==
    /\ port # None /\ ~Up(port)
    /\ open' = [open EXCEPT ![port] = FALSE]
    /\ port' = None
    /\ pending' = {}
    /\ session' = IF pending = {} THEN session ELSE {}
    /\ badge' = ToldAll(RejectedAll(badge), {s.url : s \in pending})
    /\ UNCHANGED <<record, stdin, stdout, serve, queue, inFlight, worker,
                   deaths, requests, recovering, sent>>
Disconnect ==
    /\ port # None /\ ~Up(port)
    /\ open' = [open EXCEPT ![port] = FALSE]
    /\ port' = None
    /\ requests' = {} /\ pending' = {}
    /\ session' = IF pending = {} THEN session ELSE {}
    /\ badge' = ToldAll(RejectedAll(badge), {s.url : s \in pending})
    /\ UNCHANGED <<record, stdin, stdout, serve, queue, inFlight, worker,
                   deaths, recovering, sent>>

(* rehydratePendingScreenings, when the storage has answered                *)
Recover ==
    /\ recovering # {} /\ recovering' = {}
    /\ badge' = ToldAll(badge, {s.url : s \in {r \in recovering : r.tab}})
    /\ session' = {}
    /\ UNCHANGED <<hostVars, port, requests, pending, sent>>

(* external: the browser ends the service worker, and the connection with   *)
(* it; the session storage stays                                            *)
WorkerEnds ==
    /\ port # None
    /\ deaths < MaxDeaths /\ deaths' = deaths + 1
    /\ open' = [open EXCEPT ![port] = FALSE]
    /\ port' = None /\ requests' = {} /\ pending' = {} /\ recovering' = {}
    /\ badge' = Unanswered(badge)
    /\ UNCHANGED <<record, stdin, stdout, serve, queue, inFlight, worker,
                   session, sent>>

User == Collect \/ PanelCollect \/ Rescreen \/ \E u \in Url : Navigate(u)
Timers == Poll \/ PollTimeout \/ KeepAlive
Extension == Receive \/ Disconnect \/ Recover
HostsGoOn == (\E h \in Host : HostStep(h)) /\ UNCHANGED extVars
HostsFail == (\E h \in Host : HostFails(h)) /\ UNCHANGED extVars
Next == User \/ Timers \/ Extension \/ WorkerEnds \/ HostsGoOn \/ HostsFail
Spec == Init /\ [][Next]_vars
(* threads and event loops go on; users, timers and faults need not         *)
FairSpec == Spec /\ WF_vars(Extension \/ HostsGoOn)
-----------------------------------------------------------------------------
(* Properties *)

(* Between the two ends no request is settled with the answer of another    *)
(* one, though an answer to a request the host cannot read carries no ID    *)
(* and goes to the oldest (service-worker.js:166-177, careerkit_host.py:    *)
(* 599-605).                                                                *)
OwnAnswer ==
    [][\A w \in requests :
         w \notin requests' /\ port' = port =>
           LET message == Head(stdout[port])
           IN  message.type = "answer" /\ message.of = w.id]_vars

(* A host never has a posting in work twice, whatever is asked while it     *)
(* queues, screens, fails and restarts its worker, and what it holds to be  *)
(* in work is: no URL is refused as "already queued" for ever, and no more  *)
(* than the limit is taken on (careerkit_host.py:315-320, 581-584, 630-635).*)
InWork(h) == queue[h] \o (IF Working(h) THEN <<worker[h].item>> ELSE <<>>)
InWorkOnce ==
    \A h \in Host :
      Up(h) =>
        LET urls == [i \in DOMAIN InWork(h) |-> InWork(h)[i].url]
            accepted == IF ServeAt(h, "read") \/ serve[h].item = None THEN {}
                        ELSE {serve[h].item.url}
        IN  /\ IsInjective(urls)
            /\ accepted \cap Range(urls) = {}
            /\ worker[h].at # "dead" => inFlight[h] = Range(urls)
            /\ Cardinality(inFlight[h] \cup accepted) <= MaxInFlight

(* The badge shows the record of the page that is open, whatever answers    *)
(* and pushes arrive late (badge.js:225, 337, 350-361).                     *)
BadgeShowsItsPage == badge.shows = "record" => badge.of = badge.url

(* A tracked screening is reported to the extension, or the connection is   *)
(* lost, which reports it as well; only the death of a thread leaves one    *)
(* tracked (careerkit_host.py:490-584, service-worker.js:302-360).          *)
TrackedIsReported == pending # {} ~> (pending = {} \/ deaths > 0)

(* A host whose connection is closed ends, unless its worker died over the  *)
(* closed pipe with postings still in the queue, which nothing takes out    *)
(* again (careerkit_host.py:575-584, 607-612).                              *)
Closed(h) == Up(h) /\ ~open[h]
ClosedHostEnds ==
    (\E h \in Host : Closed(h))
      ~> \A h \in Host : Closed(h) => worker[h].at = "dead" /\ queue[h] # <<>>
=============================================================================
