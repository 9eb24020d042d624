----------------------------- MODULE NativeHost -----------------------------
(* The native messaging host (ext/native-host/careerkit_host.py): a thread  *)
(* that answers the requests of the extension in the order they come, and a *)
(* worker thread that extracts and screens the accepted postings one by one *)
(* and pushes what came of them. The browser starts one host process per    *)
(* connection; a host whose connection is gone goes on with what it has.    *)
EXTENDS Integers, Sequences, FiniteSets, SequencesExt

CONSTANTS
    None,
    Host,          \* host processes, started in this order: 1..n
    Url,           \* postings of supported sites
    Targets,       \* the URLs a posting may be collected under: a captured
                   \* page names a supported origin or it does not
    Opened,        \* the posting a tab shows in the beginning
    MaxInFlight,   \* _MAX_IN_FLIGHT
    MaxSent,       \* bound: requests the extension sends
    MaxDeaths      \* bound: threads that end for a reason of their own

(* what is queued: the posting, the ID of the request, whether it is only   *)
(* to be screened                                                           *)
Item == [url : Url, track : Nat, only : BOOLEAN]

ASSUME HostAssumption ==
    /\ Host \subseteq Nat /\ IsFiniteSet(Host)
    /\ Targets \in [Url -> SUBSET Url] /\ Opened \in Url
    /\ MaxInFlight \in Nat /\ MaxSent \in Nat /\ MaxDeaths \in Nat
    /\ None \notin Host \cup Url \cup Nat \cup Item

VARIABLES
    record,      \* what is stored of each posting
    stdin,       \* requests in the pipe to each host
    stdout,      \* answers and pushes in the pipe from each host
    open,        \* the extension holds its ends of the pipes
    serve,       \* the thread that answers
    queue,       \* accepted postings that wait for the worker
    inFlight,    \* the URLs the host knows to be in work
    worker,      \* the thread that screens
    deaths

hostVars == <<record, stdin, stdout, open, serve, queue, inFlight, worker,
              deaths>>

(* id: the request_id echoed, None on a request that could not be read and  *)
(* on a push; of: history, the request this is the answer to                *)
Answer(id, of, status, decided) ==
    [type |-> "answer", id |-> id, of |-> of, track |-> None,
     status |-> status, decided |-> decided]
Push(type, track) ==
    [Answer(None, None, type, FALSE) EXCEPT !.type = type, !.track = track]

Reading == [at |-> "read", answer |-> None, item |-> None]
Waiting == [at |-> "idle", item |-> None]
HostInit ==
    /\ record = [u \in Url |-> "absent"]
    /\ stdin = [h \in Host |-> <<>>] /\ stdout = [h \in Host |-> <<>>]
    /\ open = [h \in Host |-> FALSE]
    /\ serve = [h \in Host |-> [Reading EXCEPT !.at = "unstarted"]]
    /\ queue = [h \in Host |-> <<>>]
    /\ inFlight = [h \in Host |-> {}]
    /\ worker = [h \in Host |-> Waiting]
    /\ deaths = 0

Up(h) == serve[h].at \notin {"unstarted", "ended"}
ServeAt(h, stage) == serve[h].at = stage
WorkerAt(h, stage) == Up(h) /\ worker[h].at = stage
Serves(h, state) == serve' = [serve EXCEPT ![h] = state]
Works(h, state) == worker' = [worker EXCEPT ![h] = state]

(* write_message: the messages are in the pipe, or the write raises because *)
(* the other end is closed                                                  *)
Written(h, messages) ==
    open[h] /\ stdout' = [stdout EXCEPT ![h] = @ \o messages]
BrokenPipe(h) == ~open[h] /\ UNCHANGED stdout

(* main, serve_with_worker: the browser starts a host for a connection      *)
Started(h, message) ==
    /\ ServeAt(h, "unstarted")
    /\ \A g \in Host : g < h => serve[g].at # "unstarted"
    /\ Serves(h, Reading)
    /\ open' = [open EXCEPT ![h] = TRUE]
    /\ stdin' = [stdin EXCEPT ![h] = message]
-----------------------------------------------------------------------------
(* dispatch                                                                 *)

Rejected(m) == Answer(m.id, m.id, "error", FALSE)
Accepted(m) == Answer(m.id, m.id, "accepted", FALSE)

(* mutation: only the number of postings in work is looked at               *)
BusyWhenFull(m, working) == Cardinality(working) >= MaxInFlight
(* already queued, or queue full                                            *)
Busy(m, working) ==
    m.target \in working \/ Cardinality(working) >= MaxInFlight

(* _prepare_collect, _prepare_rescreen: the answer and what to put in work; *)
(* a page that has to be captured and was not is no target                  *)
Prepared(m, working) ==
    LET job(only) == [answer |-> Accepted(m),
                      item |-> [url |-> m.target, track |-> m.id,
                                only |-> only]]
        reply(answer) == [answer |-> answer, item |-> None]
    IN  IF \/ m.target = None
           \/ m.action = "rescreen" /\ record[m.target] = "absent"
        THEN reply(Rejected(m))
        ELSE IF Busy(m, working) THEN reply(Rejected(m))
        ELSE IF m.action = "collect" /\ record[m.target] = "decided"
        THEN reply(Answer(m.id, m.id, "duplicate", TRUE))
        ELSE job(record[m.target] # "absent")

(* lookup, get_detail, get_company_info, ping: nothing but reads            *)
Lookup(m) == [answer |-> [Answer(m.id, m.id, "ok", record[m.url] = "decided")
                            EXCEPT !.status = record[m.url]],
              item |-> None]
Unreadable(m) == [answer |-> Answer(None, m.id, "error", FALSE),
                  item |-> None]

(* _ensure_worker_alive: what waits is reported as failed and forgotten, or *)
(* the report raises, which dispatch answers as an error                    *)
Orphans(h) == [i \in DOMAIN queue[h] |-> Push("failed", queue[h][i].track)]
Restart(h) ==
    /\ IF queue[h] = <<>> THEN UNCHANGED stdout ELSE Written(h, Orphans(h))
    /\ inFlight' = [inFlight EXCEPT ![h] = {}]
    /\ Works(h, Waiting)
RestartFails(h) ==
    /\ queue[h] # <<>> /\ BrokenPipe(h)
    /\ UNCHANGED <<inFlight, worker>>

Dispatch(h) ==
    /\ ServeAt(h, "read") /\ stdin[h] # <<>>
    /\ stdin' = [stdin EXCEPT ![h] = Tail(@)]
    /\ LET m == Head(stdin[h])
           answered(working) ==
             LET reply == CASE m.action = "unreadable" -> Unreadable(m)
                            [] m.action = "lookup" -> Lookup(m)
                            [] OTHER -> Prepared(m, working)
             IN  Serves(h, [at |-> "respond", answer |-> reply.answer,
                            item |-> reply.item])
       IN  \/ /\ worker[h].at = "dead" /\ m.action \in {"collect", "rescreen"}
              /\ queue' = [queue EXCEPT ![h] = <<>>]
              /\ \/ Restart(h) /\ answered({})
                 \/ /\ RestartFails(h)
                    /\ Serves(h, [at |-> "respond", answer |-> Rejected(m),
                                  item |-> None])
           \/ /\ worker[h].at # "dead" \/ m.action \in {"lookup", "unreadable"}
              /\ answered(inFlight[h])
              /\ UNCHANGED <<stdout, queue, inFlight, worker>>
    /\ UNCHANGED <<record, open, deaths>>

(* the answer is written before the work is queued; a write that raises     *)
(* ends the process                                                         *)
Respond(h) ==
    /\ ServeAt(h, "respond")
    /\ \/ /\ Written(h, <<serve[h].answer>>)
          /\ Serves(h, IF serve[h].item = None THEN Reading
                       ELSE [serve[h] EXCEPT !.at = "enqueue"])
       \/ /\ BrokenPipe(h)
          /\ Serves(h, [Reading EXCEPT !.at = "ended"])
    /\ UNCHANGED <<record, stdin, open, queue, inFlight, worker, deaths>>

Enqueue(h) ==
    /\ ServeAt(h, "enqueue")
    /\ inFlight' = [inFlight EXCEPT ![h] = @ \cup {serve[h].item.url}]
    /\ queue' = [queue EXCEPT ![h] = Append(@, serve[h].item)]
    /\ Serves(h, Reading)
    /\ UNCHANGED <<record, stdin, stdout, open, worker, deaths>>

(* end of stdin: wait for the work accepted so far, then end; the worker is *)
(* a daemon thread and ends with the process                                *)
Working(h) == worker[h].item # None
Eof(h) ==
    /\ ServeAt(h, "read") /\ stdin[h] = <<>> /\ ~open[h]
    /\ Serves(h, [Reading EXCEPT !.at = "join"])
    /\ UNCHANGED <<record, stdin, stdout, open, queue, inFlight, worker,
                   deaths>>
Joined(h) ==
    /\ ServeAt(h, "join") /\ queue[h] = <<>> /\ ~Working(h)
    /\ Serves(h, [Reading EXCEPT !.at = "ended"])
    /\ UNCHANGED <<record, stdin, stdout, open, queue, inFlight, worker,
                   deaths>>
-----------------------------------------------------------------------------
(* run_screening_worker                                                     *)

(* an idle worker has the first posting of the queue in its hands; what it  *)
(* writes is in the pipe, or writing raises, the handler of the exception   *)
(* writes again, and its exception ends the thread after the finally clause *)
Idle(h) == WorkerAt(h, "idle") /\ queue[h] # <<>>
Goes(h, next, item) ==
    Works(h, [at |-> next, item |-> item]) /\ UNCHANGED inFlight
Dies(h, item) ==
    /\ Works(h, [at |-> "dead", item |-> None])
    /\ inFlight' = [inFlight EXCEPT ![h] = @ \ {item.url}]
Tell(h, type, item) ==
    \/ Written(h, <<Push(type, item.track)>>) /\ Goes(h, "done", item)
    \/ BrokenPipe(h) /\ Dies(h, item)

(* extraction_stage.extract: a posting that has a record by now is passed   *)
(* over as a duplicate unless it was queued for screening only; the         *)
(* messages of progress change nothing but the wording of the panel         *)
Extract(h) ==
    /\ Idle(h) /\ queue' = [queue EXCEPT ![h] = Tail(@)]
    /\ LET item == Head(queue[h])
       IN  \/ /\ item.only <=> record[item.url] # "absent"
              /\ record' = [record EXCEPT ![item.url] =
                              IF @ = "absent" THEN "new" ELSE @]
              /\ \/ open[h] /\ Goes(h, "screen", item) /\ UNCHANGED stdout
                 \/ BrokenPipe(h) /\ Dies(h, item)
           \/ Tell(h, "failed", item) /\ UNCHANGED record
    /\ UNCHANGED <<stdin, open, serve, deaths>>

(* screening_stage.screen, then the push: complete when the record has a    *)
(* verdict or was set aside                                                 *)
Screen(h) ==
    /\ WorkerAt(h, "screen")
    /\ \/ record' = [record EXCEPT ![worker[h].item.url] = "decided"]
       \/ UNCHANGED record
    /\ Goes(h, "report", worker[h].item)
    /\ UNCHANGED <<stdin, stdout, open, serve, queue, deaths>>
(* mutation: nothing is pushed for a posting without a verdict              *)
ReportSilent(h) ==
    /\ WorkerAt(h, "report")
    /\ \/ /\ record[worker[h].item.url] = "decided"
          /\ Tell(h, "complete", worker[h].item)
       \/ Goes(h, "done", worker[h].item) /\ UNCHANGED stdout
    /\ UNCHANGED <<record, stdin, open, serve, queue, deaths>>
Report(h) ==
    /\ WorkerAt(h, "report")
    /\ \/ /\ record[worker[h].item.url] = "decided"
          /\ Tell(h, "complete", worker[h].item)
       \/ Tell(h, "failed", worker[h].item)
    /\ UNCHANGED <<record, stdin, open, serve, queue, deaths>>

(* the finally clause                                                       *)
(* mutation: the queue is not told that the posting is finished             *)
DoneUncounted(h) ==
    /\ WorkerAt(h, "done")
    /\ inFlight' = [inFlight EXCEPT ![h] = @ \ {worker[h].item.url}]
    /\ Works(h, [worker[h] EXCEPT !.at = "idle"])
    /\ UNCHANGED <<record, stdin, stdout, open, serve, queue, deaths>>
Done(h) ==
    /\ WorkerAt(h, "done")
    /\ inFlight' = [inFlight EXCEPT ![h] = @ \ {worker[h].item.url}]
    /\ Works(h, Waiting)
    /\ UNCHANGED <<record, stdin, stdout, open, serve, queue, deaths>>

(* external: the thread, or the process, ends for a reason of its own; of   *)
(* the thread's work only the finally clause is done                        *)
ThreadDies(h) ==
    /\ deaths < MaxDeaths /\ deaths' = deaths + 1
    /\ \/ /\ Idle(h) /\ Dies(h, Head(queue[h]))
          /\ queue' = [queue EXCEPT ![h] = Tail(@)]
       \/ /\ Up(h) /\ worker[h].at \in {"screen", "report"}
          /\ Dies(h, worker[h].item) /\ UNCHANGED queue
    /\ UNCHANGED <<record, stdin, stdout, open, serve>>
HostDies(h) ==
    /\ Up(h)
    /\ deaths < MaxDeaths /\ deaths' = deaths + 1
    /\ Serves(h, [Reading EXCEPT !.at = "ended"])
    /\ UNCHANGED <<record, stdin, stdout, open, queue, inFlight, worker>>

Answering(h) ==
    Dispatch(h) \/ Respond(h) \/ Enqueue(h) \/ Eof(h) \/ Joined(h)
Screening(h) == Extract(h) \/ Screen(h) \/ Report(h) \/ Done(h)
HostStep(h) == Answering(h) \/ Screening(h)
HostFails(h) == ThreadDies(h) \/ HostDies(h)
=============================================================================
