-------------------------- MODULE ExtensionProofs --------------------------
(* Proofs about the extension and its hosts (ServiceWorker, NativeHost): the *)
(* badge shows only the record of its page, a host has no posting in work    *)
(* twice, and no request is settled with the answer of another one.          *)
EXTENDS ServiceWorker, SequenceTheorems, FiniteSetTheorems, TLAPS

-----------------------------------------------------------------------------
(* The badge.  It is changed by functions of what it was; each keeps its URL *)
(* and, when it shows a record, shows the one of that URL.                   *)
BadgeOK(b) ==
    /\ b = [url |-> b.url, polling |-> b.polling, of |-> b.of, shows |-> b.shows]
    /\ b.shows = "record" => b.of = b.url

(* the result of each has a name of its own, which the provers need         *)
LEMMA ShownForm ==
    ASSUME NEW b, BadgeOK(b), NEW c, NEW x
    PROVE  /\ c = Shown(b, x) => /\ BadgeOK(c) \/ x = "record"
                                 /\ c.url = b.url
                                 /\ c = [url |-> b.url, polling |-> b.polling,
                                         of |-> None, shows |-> x]
           /\ c = ShownRecord(b, b.url) => BadgeOK(c) /\ c.url = b.url
           /\ c = [b EXCEPT !.polling = x] => BadgeOK(c) /\ c.url = b.url
           /\ c = [b EXCEPT !.shows = "record", !.of = b.url] => BadgeOK(c) /\ c.url = b.url
BY DEF BadgeOK, Shown, ShownRecord

LEMMA ShownKeeps ==
    ASSUME NEW b, BadgeOK(b)
    PROVE  /\ \A what \in {"error", "collect", "screen", "loading"} :
                 BadgeOK(Shown(b, what)) /\ Shown(b, what).url = b.url
           /\ BadgeOK(ShownRecord(b, b.url)) /\ ShownRecord(b, b.url).url = b.url
           /\ BadgeOK(ShownError(b)) /\ ShownError(b).url = b.url
           /\ \A stays : BadgeOK([b EXCEPT !.polling = stays])
                         /\ [b EXCEPT !.polling = stays].url = b.url
<1>1. \A what \in {"error", "collect", "screen", "loading"} :
         BadgeOK(Shown(b, what)) /\ Shown(b, what).url = b.url
  BY ShownForm
<1>2. BadgeOK(ShownRecord(b, b.url)) /\ ShownRecord(b, b.url).url = b.url
  BY ShownForm
<1>3. \A stays : BadgeOK([b EXCEPT !.polling = stays])
                 /\ [b EXCEPT !.polling = stays].url = b.url
  BY ShownForm
<1>4. BadgeOK(ShownError(b)) /\ ShownError(b).url = b.url
  BY <1>1, ShownForm DEF ShownError
<1> QED  BY <1>1, <1>2, <1>3, <1>4

LEMMA AnsweredKeeps ==
    ASSUME NEW b, BadgeOK(b), NEW w, NEW a
    PROVE  BadgeOK(Answered(b, w, a)) /\ Answered(b, w, a).url = b.url
<1>1. w.url = b.url => BadgeOK(Checked(b, w, a)) /\ Checked(b, w, a).url = b.url
  <2>1. w.url = b.url => BadgeOK([b EXCEPT !.shows = "record", !.of = w.url])
                         /\ [b EXCEPT !.shows = "record", !.of = w.url].url = b.url
    BY ShownForm
  <2> QED  BY <2>1, ShownKeeps DEF Checked
<1>2. BadgeOK(Polled(b, w, a)) /\ Polled(b, w, a).url = b.url
  BY ShownKeeps DEF Polled
<1>3. w.url = b.url => BadgeOK(Collected(b, w, a)) /\ Collected(b, w, a).url = b.url
  BY ShownKeeps DEF Collected
<1> QED  BY <1>1, <1>2, <1>3 DEF Answered

LEMMA ToldKeeps ==
    ASSUME NEW b, BadgeOK(b)
    PROVE  /\ \A s, type : BadgeOK(Told(b, s, type)) /\ Told(b, s, type).url = b.url
           /\ \A urls : BadgeOK(ToldAll(b, urls)) /\ ToldAll(b, urls).url = b.url
<1>1. ASSUME NEW s, NEW type
      PROVE  BadgeOK(Told(b, s, type)) /\ Told(b, s, type).url = b.url
  <2>1. CASE s.url # b.url \/ ~s.tab
    BY <2>1 DEF Told
  <2>2. CASE s.url = b.url /\ s.tab
    <3>1. Told(b, s, type) \in {ShownRecord(b, b.url), ShownError(b)}
      BY <2>2 DEF Told
    <3> QED  BY <3>1, ShownKeeps
  <2> QED  BY <2>1, <2>2
<1>2. \A urls : BadgeOK(ToldAll(b, urls)) /\ ToldAll(b, urls).url = b.url
  BY ShownKeeps DEF ToldAll
<1> QED  BY <1>1, <1>2

LEMMA RejectedKeeps ==
    ASSUME NEW b, BadgeOK(b)
    PROVE  /\ BadgeOK(RejectedAll(b)) /\ RejectedAll(b).url = b.url
           /\ BadgeOK(Unanswered(b)) /\ Unanswered(b).url = b.url
<1>1. BadgeOK(RejectedAll(b)) /\ RejectedAll(b).url = b.url
  BY ShownKeeps DEF RejectedAll
<1>2. BadgeOK(Unanswered(b)) /\ Unanswered(b).url = b.url
  <2> DEFINE c == IF \E w \in requests : w.by = "check" /\ w.url = b.url
                  THEN Shown(b, "error") ELSE b
         x == c.polling /\ ~\E w \in requests : w.by = "collect" /\ w.url = b.url
  <2>1. Unanswered(b) = [c EXCEPT !.polling = x]
    BY DEF Unanswered
  <2>2. BadgeOK(c) /\ c.url = b.url
    BY ShownKeeps
  <2> HIDE DEF c, x
  <2> QED  BY <2>1, <2>2, ShownForm
<1> QED  BY <1>1, <1>2

BadgeInv == badge.url \in Url /\ BadgeOK(badge)

(* BadgeInv is an invariant of the extension, its hosts and what ends them. *)
THEOREM BadgeInvariant == Spec => []BadgeInv
<1>1. Init => BadgeInv
  BY HostAssumption DEF Init, ExtInit, BadgeInv, BadgeOK, Blank
<1>2. BadgeInv /\ [Next]_vars => BadgeInv'
  <2> SUFFICES ASSUME BadgeInv, [Next]_vars PROVE BadgeInv'
    OBVIOUS
  <2> USE DEF BadgeInv
  <2>1. ASSUME NEW u \in Url, Navigate(u) PROVE BadgeInv'
    BY <2>1 DEF Navigate, Blank, BadgeOK
  <2>2. CASE Collect
    BY <2>2, ShownKeeps DEF Collect, Shown, BadgeOK
  <2>3. CASE Receive
    <3>1. CASE \E message : Settle(message)
      BY <3>1, AnsweredKeeps DEF Settle
    <3>2. CASE \E message : PassOn(message)
      BY <3>2, ToldKeeps DEF PassOn
    <3> QED  BY <2>3, <3>1, <3>2 DEF Receive
  <2>4. CASE Disconnect
    <3>1. badge' = ToldAll(RejectedAll(badge), {s.url : s \in pending})
      BY <2>4 DEF Disconnect
    <3> QED  BY <3>1, RejectedKeeps, ToldKeeps
  <2>5. CASE Recover
    <3>1. badge' = ToldAll(badge, {s.url : s \in {r \in recovering : r.tab}})
      BY <2>5 DEF Recover
    <3> QED  BY <3>1, ToldKeeps
  <2>6. CASE WorkerEnds
    BY <2>6, RejectedKeeps DEF WorkerEnds
  <2>7. CASE PollTimeout
    BY <2>7, ShownKeeps DEF PollTimeout
  <2>8. CASE PanelCollect \/ Rescreen \/ Poll \/ KeepAlive \/ HostsGoOn \/ HostsFail
             \/ UNCHANGED vars
    <3>1. badge' = badge
      BY <2>8 DEF PanelCollect, Rescreen, Poll, KeepAlive, HostsGoOn, HostsFail, vars, extVars
    <3> QED  BY <3>1
  <2> QED  BY <2>1, <2>2, <2>3, <2>4, <2>5, <2>6, <2>7, <2>8
              DEF Next, User, Timers, Extension
<1> QED  BY <1>1, <1>2, PTL DEF Spec

(* The badge never shows the record of another page than the one that is    *)
(* open, for any number of postings, connections and requests (badge.js).   *)
THEOREM BadgeShowsOnlyItsPage == Spec => []BadgeShowsItsPage
<1>1. BadgeInv => BadgeShowsItsPage
  BY DEF BadgeInv, BadgeOK, BadgeShowsItsPage
<1> QED  BY <1>1, BadgeInvariant, PTL

-----------------------------------------------------------------------------
(* What the pipes and the threads of a host hold.                           *)
Request == [id : Nat, url : Url, target : Url \cup {None},
            action : {"lookup", "collect", "rescreen", "unreadable"}]
WorkerState ==
    [at : {"idle", "dead"}, item : {None}]
        \cup [at : {"screen", "report", "done"}, item : Item]
ServeState(s) ==
    /\ s = [at |-> s.at, answer |-> s.answer, item |-> s.item]
    /\ s.at \in {"unstarted", "read", "join", "ended"} => s.item = None
    /\ s.at = "respond" => s.item \in Item \cup {None}
    /\ s.at = "enqueue" => s.item \in Item
    /\ s.at \in {"unstarted", "read", "respond", "enqueue", "join", "ended"}

HostTypeOK ==
    /\ stdin \in [Host -> Seq(Request)]
    /\ open \in [Host -> BOOLEAN]
    /\ DOMAIN serve = Host
    /\ \A h \in Host : ServeState(serve[h])
    /\ queue \in [Host -> Seq(Item)]
    /\ inFlight \in [Host -> SUBSET Url]
    /\ worker \in [Host -> WorkerState]
    /\ sent \in Nat

(* The posting an answer was written for, which is not in the queue yet.    *)
Taking(s) == IF s.at = "read" \/ s.item = None THEN {} ELSE {s.item.url}
InHand(w) == IF w.item # None THEN {w.item.url} ELSE {}
UrlsOf(q) == {q[i].url : i \in DOMAIN q}

(* No posting twice among the queue, the worker's hands and the answer; the *)
(* host knows of each, and of no other unless its worker is dead.           *)
Alone(q, w, s, f) ==
    /\ \A i, j \in DOMAIN q : q[i].url = q[j].url => i = j
    /\ UrlsOf(q) \cap InHand(w) = {}
    /\ UrlsOf(q) \cup InHand(w) \subseteq f
    /\ w.at # "dead" => f = UrlsOf(q) \cup InHand(w)
    /\ Taking(s) \cap f = {}
    /\ IsFiniteSet(f) /\ Cardinality(f \cup Taking(s)) <= MaxInFlight

WorkInv ==
    /\ HostTypeOK
    /\ \A h \in Host : Alone(queue[h], worker[h], serve[h], inFlight[h])

-----------------------------------------------------------------------------
(* Steps of the queue of one host, as facts about what it holds.            *)
LEMMA ShiftedUrls ==
    ASSUME NEW q, NEW t, NEW n \in Nat \ {0}, DOMAIN q = 1 .. n, DOMAIN t = 1 .. n - 1,
           \A i \in 1 .. n - 1 : t[i] = q[i + 1]
    PROVE  UrlsOf(q) = UrlsOf(t) \cup {q[1].url}
<1>1. ASSUME NEW i \in DOMAIN q, i # 1 PROVE q[i].url \in UrlsOf(t)
  <2>1. i - 1 \in 1 .. n - 1 /\ (i - 1) + 1 = i
    BY <1>1
  <2>2. t[i - 1] = q[i]
    BY <2>1
  <2> QED  BY <2>1, <2>2 DEF UrlsOf
<1>2. ASSUME NEW i \in DOMAIN t PROVE t[i].url \in UrlsOf(q)
  <2>1. i + 1 \in DOMAIN q /\ t[i] = q[i + 1]
    OBVIOUS
  <2> QED  BY <2>1 DEF UrlsOf
<1>3. 1 \in DOMAIN q
  OBVIOUS
<1>4. UrlsOf(q) \subseteq UrlsOf(t) \cup {q[1].url}
  BY <1>1 DEF UrlsOf
<1> QED  BY <1>2, <1>3, <1>4 DEF UrlsOf

LEMMA TailUrls ==
    ASSUME NEW q \in Seq(Item), q # <<>>,
           \A i, j \in DOMAIN q : q[i].url = q[j].url => i = j
    PROVE  /\ Head(q) \in Item /\ Tail(q) \in Seq(Item)
           /\ \A i, j \in DOMAIN Tail(q) : Tail(q)[i].url = Tail(q)[j].url => i = j
           /\ UrlsOf(q) = UrlsOf(Tail(q)) \cup {Head(q).url}
           /\ Head(q).url \notin UrlsOf(Tail(q))
<1>1. /\ Head(q) \in Item /\ Tail(q) \in Seq(Item) /\ Len(q) \in Nat \ {0}
      /\ DOMAIN q = 1 .. Len(q) /\ Head(q) = q[1]
      /\ DOMAIN Tail(q) = 1 .. Len(q) - 1
      /\ \A i \in 1 .. Len(q) - 1 : Tail(q)[i] = q[i + 1]
  OBVIOUS
<1>2. UrlsOf(q) = UrlsOf(Tail(q)) \cup {Head(q).url}
  BY <1>1, ShiftedUrls
<1>3. Head(q).url \notin UrlsOf(Tail(q))
  BY <1>1 DEF UrlsOf
<1>4. \A i, j \in DOMAIN Tail(q) : Tail(q)[i].url = Tail(q)[j].url => i = j
  BY <1>1
<1> QED  BY <1>1, <1>2, <1>3, <1>4

LEMMA AppendUrls ==
    ASSUME NEW q \in Seq(Item), NEW item \in Item, item.url \notin UrlsOf(q),
           \A i, j \in DOMAIN q : q[i].url = q[j].url => i = j
    PROVE  /\ Append(q, item) \in Seq(Item)
           /\ \A i, j \in DOMAIN Append(q, item) :
                 Append(q, item)[i].url = Append(q, item)[j].url => i = j
           /\ UrlsOf(Append(q, item)) = UrlsOf(q) \cup {item.url}
<1>1. /\ Append(q, item) \in Seq(Item) /\ Len(q) \in Nat
      /\ DOMAIN q = 1 .. Len(q) /\ DOMAIN Append(q, item) = 1 .. Len(q) + 1
      /\ \A i \in 1 .. Len(q) : Append(q, item)[i] = q[i]
      /\ Append(q, item)[Len(q) + 1] = item
  OBVIOUS
<1>2. UrlsOf(Append(q, item)) = UrlsOf(q) \cup {item.url}
  BY <1>1 DEF UrlsOf
<1>3. \A i \in DOMAIN q : q[i].url # item.url
  BY DEF UrlsOf
<1> QED  BY <1>1, <1>2, <1>3

LEMMA TakeAlone ==
    ASSUME NEW q \in Seq(Item), q # <<>>, NEW s, NEW f, NEW w \in WorkerState, w.at = "idle",
           Alone(q, w, s, f), NEW v \in WorkerState, v.item = Head(q), v.at # "dead"
    PROVE  Alone(Tail(q), v, s, f)
<1>1. v.item # None /\ w.item = None /\ w.at # "dead"
  BY HostAssumption DEF WorkerState
<1>2. Head(q) \in Item /\ UrlsOf(q) = UrlsOf(Tail(q)) \cup InHand(v)
      /\ UrlsOf(Tail(q)) \cap InHand(v) = {}
      /\ \A i, j \in DOMAIN Tail(q) : Tail(q)[i].url = Tail(q)[j].url => i = j
  BY <1>1, TailUrls DEF Alone, InHand
<1> QED  BY <1>1, <1>2 DEF Alone, InHand

LEMMA TakeAndDie ==
    ASSUME NEW q \in Seq(Item), q # <<>>, NEW s, NEW f, NEW w \in WorkerState, w.at = "idle",
           Alone(q, w, s, f)
    PROVE  Alone(Tail(q), [at |-> "dead", item |-> None], s, f \ {Head(q).url})
<1>1. w.item = None /\ w.at # "dead"
  BY DEF WorkerState
<1>2. /\ UrlsOf(q) = UrlsOf(Tail(q)) \cup {Head(q).url} /\ Head(q).url \notin UrlsOf(Tail(q))
      /\ \A i, j \in DOMAIN Tail(q) : Tail(q)[i].url = Tail(q)[j].url => i = j
  BY TailUrls DEF Alone
<1>3. /\ IsFiniteSet(f \ {Head(q).url})
      /\ Cardinality((f \ {Head(q).url}) \cup Taking(s)) <= MaxInFlight
  <2>1. IsFiniteSet(f \cup Taking(s))
    BY FS_AddElement, FS_EmptySet DEF Alone, Taking
  <2>2. (f \ {Head(q).url}) \cup Taking(s) \subseteq f \cup Taking(s)
    OBVIOUS
  <2>3. /\ Cardinality((f \ {Head(q).url}) \cup Taking(s)) <= Cardinality(f \cup Taking(s))
        /\ Cardinality((f \ {Head(q).url}) \cup Taking(s)) \in Nat
        /\ Cardinality(f \cup Taking(s)) \in Nat
    BY <2>1, <2>2, FS_Subset, FS_CardinalityType
  <2>4. IsFiniteSet(f \ {Head(q).url})
    BY FS_Subset DEF Alone
  <2> QED  BY <2>3, <2>4, HostAssumption DEF Alone
<1> QED  BY <1>1, <1>2, <1>3 DEF Alone, InHand

LEMMA PutDown ==
    ASSUME NEW q, NEW s, NEW f, NEW w \in WorkerState, w.item # None,
           Alone(q, w, s, f), NEW v, v.item = None
    PROVE  Alone(q, v, s, f \ {w.item.url})
<1>1. w.at # "dead"
  BY HostAssumption DEF WorkerState
<1>2. f \ {w.item.url} = UrlsOf(q)
  BY <1>1 DEF Alone, InHand
<1>3. /\ IsFiniteSet(f \ {w.item.url})
      /\ Cardinality((f \ {w.item.url}) \cup Taking(s)) <= MaxInFlight
  <2>1. IsFiniteSet(f \cup Taking(s))
    BY FS_AddElement, FS_EmptySet DEF Alone, Taking
  <2>2. (f \ {w.item.url}) \cup Taking(s) \subseteq f \cup Taking(s)
    OBVIOUS
  <2>3. /\ Cardinality((f \ {w.item.url}) \cup Taking(s)) <= Cardinality(f \cup Taking(s))
        /\ Cardinality((f \ {w.item.url}) \cup Taking(s)) \in Nat
        /\ Cardinality(f \cup Taking(s)) \in Nat
    BY <2>1, <2>2, FS_Subset, FS_CardinalityType
  <2>4. IsFiniteSet(f \ {w.item.url})
    BY FS_Subset DEF Alone
  <2> QED  BY <2>3, <2>4, HostAssumption DEF Alone
<1> QED  BY <1>1, <1>2, <1>3 DEF Alone, InHand

LEMMA SameHands ==
    ASSUME NEW q, NEW s, NEW f, NEW w \in WorkerState, w.item # None, Alone(q, w, s, f),
           NEW v, v.item = w.item, v.at # "dead"
    PROVE  Alone(q, v, s, f)
<1>1. w.at # "dead"
  BY HostAssumption DEF WorkerState
<1> QED  BY <1>1 DEF Alone, InHand

(* The thread that answers no longer takes a posting, or takes what is not  *)
(* known to be in work yet, when there is room.                             *)
LEMMA TakesNone ==
    ASSUME NEW q, NEW w, NEW s, NEW f, NEW t, Alone(q, w, s, f), Taking(t) = {}
    PROVE  Alone(q, w, t, f)
<1>1. IsFiniteSet(f \cup Taking(s))
  BY FS_AddElement, FS_EmptySet DEF Alone, Taking
<1>2. /\ Cardinality(f) <= Cardinality(f \cup Taking(s))
      /\ Cardinality(f) \in Nat /\ Cardinality(f \cup Taking(s)) \in Nat
  BY <1>1, FS_Subset, FS_CardinalityType DEF Alone
<1>3. f \cup Taking(t) = f
  OBVIOUS
<1> QED  BY <1>2, <1>3, HostAssumption DEF Alone

LEMMA TakesOneMore ==
    ASSUME NEW q, NEW w, NEW s, NEW f, Alone(q, w, s, f), Taking(s) = {}, NEW t,
           Taking(t) = {} \/ (t.item.url \notin f /\ Cardinality(f) < MaxInFlight)
    PROVE  Alone(q, w, t, f)
<1>1. CASE Taking(t) = {}
  BY <1>1, TakesNone
<1>2. CASE Taking(t) # {} /\ t.item.url \notin f /\ Cardinality(f) < MaxInFlight
  <2>1. Taking(t) = {t.item.url}
    BY <1>2 DEF Taking
  <2>2. Cardinality(f \cup {t.item.url}) = Cardinality(f) + 1 /\ Cardinality(f) \in Nat
    BY <1>2, FS_AddElement, FS_CardinalityType DEF Alone
  <2> QED  BY <1>2, <2>1, <2>2, HostAssumption DEF Alone
<1> QED  BY <1>1, <1>2

LEMMA PutsInQueue ==
    ASSUME NEW q \in Seq(Item), NEW w, NEW s, NEW f, s.item \in Item, s.at = "enqueue",
           Alone(q, w, s, f), NEW t, Taking(t) = {}
    PROVE  Alone(Append(q, s.item), w, t, f \cup {s.item.url})
<1>1. Taking(s) = {s.item.url} /\ s.item.url \notin f
  BY HostAssumption DEF Taking, Alone
<1>2. s.item.url \notin UrlsOf(q)
  BY <1>1 DEF Alone
<1>3. /\ \A i, j \in DOMAIN Append(q, s.item) :
             Append(q, s.item)[i].url = Append(q, s.item)[j].url => i = j
      /\ UrlsOf(Append(q, s.item)) = UrlsOf(q) \cup {s.item.url}
  BY <1>2, AppendUrls DEF Alone
<1>4. IsFiniteSet(f \cup {s.item.url}) /\ Taking(t) \cap (f \cup {s.item.url}) = {}
      /\ (f \cup {s.item.url}) \cup Taking(t) = f \cup Taking(s)
  BY <1>1, FS_AddElement DEF Alone
<1> QED  BY <1>1, <1>3, <1>4 DEF Alone, InHand

LEMMA StartsAgain ==
    ASSUME NEW s, Taking(s) = {} \/ MaxInFlight > 0, NEW v, v.item = None
    PROVE  Alone(<<>>, v, s, {})
<1>1. UrlsOf(<<>>) = {} /\ InHand(v) = {}
  BY DEF UrlsOf, InHand
<1>2. /\ IsFiniteSet({}) /\ Cardinality({}) = 0
  BY FS_EmptySet
<1>3. Cardinality({} \cup Taking(s)) <= MaxInFlight
  <2>1. CASE Taking(s) = {}
    BY <1>2, <2>1, HostAssumption
  <2>2. CASE Taking(s) # {}
    <3>1. Taking(s) = {s.item.url} /\ MaxInFlight > 0
      BY <2>2 DEF Taking
    <3>2. Cardinality({s.item.url}) = 1
      BY FS_Singleton
    <3>3. {} \cup Taking(s) = {s.item.url}
      BY <3>1
    <3> QED  BY <3>1, <3>2, <3>3, HostAssumption
  <2> QED  BY <2>1, <2>2
<1> QED  BY <1>1, <1>2, <1>3 DEF Alone

-----------------------------------------------------------------------------
(* The steps of a host, one lemma per action.                               *)
LEMMA OneHostWorks ==
    ASSUME WorkInv, NEW CONSTANT h \in Host, HostTypeOK',
           \A g \in Host \ {h} : /\ queue'[g] = queue[g] /\ worker'[g] = worker[g]
                                 /\ serve'[g] = serve[g] /\ inFlight'[g] = inFlight[g],
           Alone(queue'[h], worker'[h], serve'[h], inFlight'[h])
    PROVE  WorkInv'
BY DEF WorkInv

LEMMA PreparedTakes ==
    ASSUME NEW CONSTANT m \in Request, NEW CONSTANT working, IsFiniteSet(working)
    PROVE  LET item == Prepared(m, working).item IN
           /\ item \in Item \cup {None}
           /\ item # None => item.url \notin working /\ Cardinality(working) < MaxInFlight
<1>1. CASE Prepared(m, working).item = None
  BY <1>1
<1>2. CASE Prepared(m, working).item # None
  <2>1. /\ m.target # None /\ ~Busy(m, working)
        /\ Prepared(m, working).item = [url |-> m.target, track |-> m.id,
                                        only |-> record[m.target] # "absent"]
    BY <1>2 DEF Prepared
  <2>2. m.target \in Url /\ m.id \in Nat
    BY <2>1 DEF Request
  <2>3. m.target \notin working /\ Cardinality(working) < MaxInFlight
    BY <2>1, FS_CardinalityType, HostAssumption DEF Busy
  <2>4. Prepared(m, working).item \in Item
    <3> DEFINE only == record[m.target] # "absent"
    <3>1. only \in BOOLEAN
      OBVIOUS
    <3>2. Prepared(m, working).item = [url |-> m.target, track |-> m.id, only |-> only]
      BY <2>1
    <3> HIDE DEF only
    <3> QED  BY <2>2, <3>1, <3>2 DEF Item
  <2>5. Prepared(m, working).item.url = m.target
    BY <2>1
  <2> QED  BY <2>3, <2>4, <2>5
<1> QED  BY <1>1, <1>2

LEMMA ReplyTakes ==
    ASSUME NEW CONSTANT m \in Request, NEW CONSTANT working, IsFiniteSet(working),
           NEW CONSTANT reply,
           reply = CASE m.action = "unreadable" -> Unreadable(m)
                     [] m.action = "lookup" -> Lookup(m)
                     [] OTHER -> Prepared(m, working)
    PROVE  /\ reply.item \in Item \cup {None}
           /\ reply.item # None => /\ reply.item.url \notin working
                                   /\ Cardinality(working) < MaxInFlight
<1>1. Unreadable(m).item = None /\ Lookup(m).item = None
  BY DEF Unreadable, Lookup
<1>2. reply.item = None \/ reply.item = Prepared(m, working).item
  BY <1>1
<1> QED  BY <1>2, PreparedTakes

LEMMA DispatchKeeps ==
    ASSUME WorkInv, NEW CONSTANT h \in Host, Dispatch(h), UNCHANGED extVars
    PROVE  WorkInv'
<1> DEFINE m == Head(stdin[h])
           Reply(working) == CASE m.action = "unreadable" -> Unreadable(m)
                               [] m.action = "lookup" -> Lookup(m)
                               [] OTHER -> Prepared(m, working)
           Says(reply) == [at |-> "respond", answer |-> reply.answer, item |-> reply.item]
<1>1. /\ stdin[h] # <<>> /\ stdin[h] \in Seq(Request) /\ m \in Request
      /\ Tail(stdin[h]) \in Seq(Request) /\ serve[h].at = "read"
  BY DEF Dispatch, WorkInv, HostTypeOK, ServeAt
<1>2. /\ stdin' = [stdin EXCEPT ![h] = Tail(@)] /\ stdin' \in [Host -> Seq(Request)]
      /\ open' = open /\ sent' = sent
  BY <1>1 DEF Dispatch, WorkInv, HostTypeOK, extVars
<1>3. Alone(queue[h], worker[h], serve[h], inFlight[h]) /\ Taking(serve[h]) = {}
  BY <1>1 DEF WorkInv, Taking
<1>4. ASSUME NEW CONSTANT working, IsFiniteSet(working), NEW CONSTANT reply,
             reply = Reply(working)
      PROVE  /\ ServeState(Says(reply))
             /\ Taking(Says(reply)) = {} \/ /\ Says(reply).item.url \notin working
                                            /\ Cardinality(working) < MaxInFlight
  <2>1. /\ reply.item \in Item \cup {None}
        /\ reply.item # None => /\ reply.item.url \notin working
                                /\ Cardinality(working) < MaxInFlight
    BY <1>1, <1>4, ReplyTakes
  <2> QED  BY <2>1 DEF ServeState, Taking
<1> HIDE DEF m, Reply
<1>5. CASE /\ queue' = [queue EXCEPT ![h] = <<>>] /\ Restart(h)
           /\ serve' = [serve EXCEPT ![h] = Says(Reply({}))]
  <2>1. PICK reply : reply = Reply({})
    OBVIOUS
  <2>2. /\ ServeState(Says(reply))
        /\ Taking(Says(reply)) = {} \/ Cardinality({}) < MaxInFlight
    BY <1>4, <2>1, FS_EmptySet
  <2>3. Taking(Says(reply)) = {} \/ MaxInFlight > 0
    BY <2>2, FS_EmptySet, HostAssumption
  <2>4. /\ inFlight' = [inFlight EXCEPT ![h] = {}] /\ worker' = [worker EXCEPT ![h] = Waiting]
        /\ serve' = [serve EXCEPT ![h] = Says(reply)]
    BY <1>5, <2>1 DEF Restart, Works
  <2>5. Waiting \in WorkerState /\ Waiting.item = None
    BY DEF Waiting, WorkerState
  <2>6. HostTypeOK'
    BY <1>2, <1>5, <2>2, <2>4, <2>5 DEF WorkInv, HostTypeOK
  <2>7. Alone(<<>>, Waiting, Says(reply), {})
    BY <2>3, <2>5, StartsAgain
  <2>8. /\ queue'[h] = <<>> /\ worker'[h] = Waiting /\ serve'[h] = Says(reply)
        /\ inFlight'[h] = {}
    BY <1>5, <2>4 DEF WorkInv, HostTypeOK
  <2>9. Alone(queue'[h], worker'[h], serve'[h], inFlight'[h])
    BY <2>7, <2>8
  <2> QED  BY <1>5, <2>4, <2>6, <2>9, OneHostWorks DEF WorkInv, HostTypeOK
<1>6. CASE /\ queue' = [queue EXCEPT ![h] = <<>>] /\ worker[h].at = "dead"
           /\ RestartFails(h)
           /\ serve' = [serve EXCEPT ![h] = [at |-> "respond", answer |-> Rejected(m),
                                             item |-> None]]
  <2>1. /\ ServeState(serve'[h]) /\ Taking(serve'[h]) = {} /\ queue'[h] = <<>>
        /\ worker' = worker /\ inFlight' = inFlight
    BY <1>6 DEF ServeState, Taking, WorkInv, HostTypeOK, RestartFails
  <2>2. HostTypeOK'
    BY <1>2, <1>6, <2>1 DEF WorkInv, HostTypeOK
  <2>3. Alone(queue[h], worker[h], serve'[h], inFlight[h])
    BY <1>3, <2>1, TakesNone
  <2>4. Alone(queue'[h], worker'[h], serve'[h], inFlight'[h])
    BY <1>6, <2>1, <2>3 DEF Alone, UrlsOf
  <2> QED  BY <1>6, <2>1, <2>2, <2>4, OneHostWorks DEF WorkInv, HostTypeOK
<1>7. CASE /\ UNCHANGED <<queue, inFlight, worker>>
           /\ serve' = [serve EXCEPT ![h] = Says(Reply(inFlight[h]))]
  <2>1. PICK reply, working : reply = Reply(working) /\ working = inFlight[h]
    OBVIOUS
  <2>2. /\ ServeState(Says(reply))
        /\ Taking(Says(reply)) = {} \/ /\ Says(reply).item.url \notin working
                                       /\ Cardinality(working) < MaxInFlight
    BY <1>3, <1>4, <2>1 DEF Alone
  <2>3. serve' = [serve EXCEPT ![h] = Says(reply)] /\ serve'[h] = Says(reply)
    BY <1>7, <2>1 DEF WorkInv, HostTypeOK
  <2>4. HostTypeOK'
    BY <1>2, <1>7, <2>2, <2>3 DEF WorkInv, HostTypeOK
  <2>5. Alone(queue[h], worker[h], Says(reply), inFlight[h])
    BY <1>3, <2>1, <2>2, TakesOneMore
  <2>6. Alone(queue'[h], worker'[h], serve'[h], inFlight'[h])
    BY <1>7, <2>3, <2>5
  <2> QED  BY <1>7, <2>3, <2>4, <2>6, OneHostWorks DEF WorkInv, HostTypeOK
<1>8. \/ /\ queue' = [queue EXCEPT ![h] = <<>>] /\ Restart(h)
         /\ serve' = [serve EXCEPT ![h] = Says(Reply({}))]
      \/ /\ queue' = [queue EXCEPT ![h] = <<>>] /\ worker[h].at = "dead" /\ RestartFails(h)
         /\ serve' = [serve EXCEPT ![h] = [at |-> "respond", answer |-> Rejected(m),
                                           item |-> None]]
      \/ /\ UNCHANGED <<queue, inFlight, worker>>
         /\ serve' = [serve EXCEPT ![h] = Says(Reply(inFlight[h]))]
  BY DEF Dispatch, Serves, m, Reply
<1> QED  BY <1>5, <1>6, <1>7, <1>8

LEMMA RespondKeeps ==
    ASSUME WorkInv, NEW CONSTANT h \in Host, UNCHANGED extVars,
           Respond(h) \/ Eof(h) \/ Joined(h) \/ HostDies(h)
    PROVE  WorkInv'
<1>1. /\ UNCHANGED <<stdin, open, queue, inFlight, worker, sent>>
      /\ \/ serve'[h] = [serve[h] EXCEPT !.at = "enqueue"] /\ serve[h].at = "respond"
            /\ serve[h].item # None
         \/ \E at \in {"read", "join", "ended"} : serve'[h] = [Reading EXCEPT !.at = at]
      /\ \A g \in Host \ {h} : serve'[g] = serve[g]
      /\ DOMAIN serve' = Host
  <2>1. PICK s : /\ serve' = [serve EXCEPT ![h] = s]
                 /\ \/ /\ s = [serve[h] EXCEPT !.at = "enqueue"] /\ serve[h].at = "respond"
                       /\ serve[h].item # None
                    \/ s = Reading \/ s = [Reading EXCEPT !.at = "ended"]
                    \/ s = [Reading EXCEPT !.at = "join"]
    BY DEF Respond, Eof, Joined, HostDies, Serves, ServeAt
  <2>2. UNCHANGED <<stdin, open, queue, inFlight, worker, sent>>
    BY DEF Respond, Eof, Joined, HostDies, extVars
  <2>3. Reading = [Reading EXCEPT !.at = "read"]
    BY DEF Reading
  <2>4. serve'[h] = s /\ DOMAIN serve' = Host /\ \A g \in Host \ {h} : serve'[g] = serve[g]
    BY <2>1 DEF WorkInv, HostTypeOK
  <2> QED  BY <2>1, <2>2, <2>3, <2>4
<1>2. ServeState(serve[h]) /\ Alone(queue[h], worker[h], serve[h], inFlight[h])
  BY DEF WorkInv, HostTypeOK
<1>3. CASE /\ serve'[h] = [serve[h] EXCEPT !.at = "enqueue"] /\ serve[h].at = "respond"
           /\ serve[h].item # None
  <2>1. /\ ServeState(serve'[h]) /\ serve'[h].item = serve[h].item /\ serve'[h].at = "enqueue"
    BY <1>2, <1>3 DEF ServeState
  <2>2. Taking(serve'[h]) = Taking(serve[h])
    BY <1>3, <2>1 DEF Taking
  <2>3. Alone(queue[h], worker[h], serve'[h], inFlight[h])
    BY <1>2, <2>2 DEF Alone
  <2>4. HostTypeOK'
    BY <1>1, <2>1 DEF WorkInv, HostTypeOK
  <2> QED  BY <1>1, <2>3, <2>4, OneHostWorks
<1>4. CASE \E at \in {"read", "join", "ended"} : serve'[h] = [Reading EXCEPT !.at = at]
  <2>1. ServeState(serve'[h]) /\ Taking(serve'[h]) = {}
    BY <1>4 DEF ServeState, Reading, Taking
  <2>2. Alone(queue[h], worker[h], serve'[h], inFlight[h])
    BY <1>2, <2>1, TakesNone
  <2>3. HostTypeOK'
    BY <1>1, <2>1 DEF WorkInv, HostTypeOK
  <2> QED  BY <1>1, <2>2, <2>3, OneHostWorks
<1> QED  BY <1>1, <1>3, <1>4

LEMMA EnqueueKeeps ==
    ASSUME WorkInv, NEW CONSTANT h \in Host, UNCHANGED extVars, Enqueue(h)
    PROVE  WorkInv'
<1>1. /\ UNCHANGED <<stdin, open, worker, sent>>
      /\ inFlight' = [inFlight EXCEPT ![h] = @ \cup {serve[h].item.url}]
      /\ queue' = [queue EXCEPT ![h] = Append(@, serve[h].item)]
      /\ serve' = [serve EXCEPT ![h] = Reading] /\ serve[h].at = "enqueue"
  BY DEF Enqueue, Serves, ServeAt, extVars
<1>2. ServeState(serve[h]) /\ Alone(queue[h], worker[h], serve[h], inFlight[h])
      /\ queue[h] \in Seq(Item) /\ serve[h].item \in Item
  BY <1>1 DEF WorkInv, HostTypeOK, ServeState
<1>3. ServeState(Reading) /\ Taking(Reading) = {}
  BY DEF ServeState, Reading, Taking
<1>4. Append(queue[h], serve[h].item) \in Seq(Item) /\ serve[h].item.url \in Url
  BY <1>2 DEF Item
<1>5. HostTypeOK'
  BY <1>1, <1>3, <1>4 DEF WorkInv, HostTypeOK
<1>6. /\ queue'[h] = Append(queue[h], serve[h].item) /\ worker'[h] = worker[h]
      /\ serve'[h] = Reading /\ inFlight'[h] = inFlight[h] \cup {serve[h].item.url}
  BY <1>1 DEF WorkInv, HostTypeOK
<1>7. Alone(queue'[h], worker'[h], serve'[h], inFlight'[h])
  <2>1. Alone(Append(queue[h], serve[h].item), worker[h], Reading,
              inFlight[h] \cup {serve[h].item.url})
    BY <1>1, <1>2, <1>3, PutsInQueue
  <2> QED  BY <1>6, <2>1
<1> QED  BY <1>1, <1>5, <1>7, OneHostWorks DEF WorkInv, HostTypeOK

(* The worker takes a posting out of the queue, and dies over it or not.    *)
LEMMA TakeKeeps ==
    ASSUME WorkInv, NEW CONSTANT h \in Host, UNCHANGED extVars, Extract(h)
               \/ (Idle(h) /\ Dies(h, Head(queue[h]))
                     /\ queue' = [queue EXCEPT ![h] = Tail(@)]
                     /\ UNCHANGED <<record, stdin, stdout, open, serve>>)
    PROVE  WorkInv'
<1> DEFINE item == Head(queue[h])
<1>1. /\ UNCHANGED <<stdin, open, serve, sent>> /\ queue' = [queue EXCEPT ![h] = Tail(@)]
      /\ queue[h] # <<>> /\ worker[h].at = "idle"
      /\ \/ /\ worker' = [worker EXCEPT ![h] = [at |-> "dead", item |-> None]]
            /\ inFlight' = [inFlight EXCEPT ![h] = @ \ {item.url}]
         \/ \E next \in {"screen", "done"} :
               /\ worker' = [worker EXCEPT ![h] = [at |-> next, item |-> item]]
               /\ inFlight' = inFlight
  <2>1. ASSUME NEW next \in {"screen", "done"}, Goes(h, next, item)
        PROVE  \E n \in {"screen", "done"} :
                  /\ worker' = [worker EXCEPT ![h] = [at |-> n, item |-> item]]
                  /\ inFlight' = inFlight
    BY <2>1 DEF Goes, Works
  <2>2. Dies(h, item) => /\ worker' = [worker EXCEPT ![h] = [at |-> "dead", item |-> None]]
                         /\ inFlight' = [inFlight EXCEPT ![h] = @ \ {item.url}]
    BY DEF Dies, Works
  <2>3. Tell(h, "failed", item) => Goes(h, "done", item) \/ Dies(h, item)
    BY DEF Tell
  <2>4. Goes(h, "screen", item) \/ Goes(h, "done", item) \/ Dies(h, item)
    BY <2>3 DEF Extract
  <2>5. /\ UNCHANGED <<stdin, open, serve, sent>> /\ queue' = [queue EXCEPT ![h] = Tail(@)]
        /\ queue[h] # <<>> /\ worker[h].at = "idle"
    BY DEF Extract, Idle, WorkerAt, extVars
  <2> HIDE DEF item
  <2> QED  BY <2>1, <2>2, <2>4, <2>5
<1>2. /\ Alone(queue[h], worker[h], serve[h], inFlight[h]) /\ queue[h] \in Seq(Item)
      /\ worker[h] \in WorkerState
  BY DEF WorkInv, HostTypeOK
<1>3. item \in Item /\ Tail(queue[h]) \in Seq(Item)
  BY <1>1, <1>2
<1> HIDE DEF item
<1>4. CASE /\ worker' = [worker EXCEPT ![h] = [at |-> "dead", item |-> None]]
           /\ inFlight' = [inFlight EXCEPT ![h] = @ \ {item.url}]
  <2>1. HostTypeOK'
    BY <1>1, <1>3, <1>4 DEF WorkInv, HostTypeOK, WorkerState
  <2>2. /\ queue'[h] = Tail(queue[h]) /\ worker'[h] = [at |-> "dead", item |-> None]
        /\ serve'[h] = serve[h] /\ inFlight'[h] = inFlight[h] \ {item.url}
    BY <1>1, <1>4 DEF WorkInv, HostTypeOK
  <2>3. Alone(queue'[h], worker'[h], serve'[h], inFlight'[h])
    BY <1>1, <1>2, <2>2, TakeAndDie DEF item
  <2> QED  BY <1>1, <1>4, <2>1, <2>3, OneHostWorks DEF WorkInv, HostTypeOK
<1>5. ASSUME NEW CONSTANT next \in {"screen", "done"},
             worker' = [worker EXCEPT ![h] = [at |-> next, item |-> item]],
             inFlight' = inFlight
      PROVE  WorkInv'
  <2>1. [at |-> next, item |-> item] \in WorkerState
    BY <1>3 DEF WorkerState
  <2>2. HostTypeOK'
    BY <1>1, <1>3, <1>5, <2>1 DEF WorkInv, HostTypeOK
  <2>3. /\ queue'[h] = Tail(queue[h]) /\ worker'[h] = [at |-> next, item |-> item]
        /\ serve'[h] = serve[h] /\ inFlight'[h] = inFlight[h]
    BY <1>1, <1>5 DEF WorkInv, HostTypeOK
  <2>4. Alone(Tail(queue[h]), [at |-> next, item |-> item], serve[h], inFlight[h])
    BY <1>1, <1>2, <2>1, TakeAlone DEF item
  <2>5. Alone(queue'[h], worker'[h], serve'[h], inFlight'[h])
    BY <2>3, <2>4
  <2> QED  BY <1>1, <1>5, <2>2, <2>5, OneHostWorks DEF WorkInv, HostTypeOK
<1> QED  BY <1>1, <1>4, <1>5

(* The worker goes on with the posting in its hands, or dies over it.       *)
LEMMA WorkKeeps ==
    ASSUME WorkInv, NEW CONSTANT h \in Host, UNCHANGED extVars, Screen(h) \/ Report(h) \/ Done(h)
               \/ (worker[h].at \in {"screen", "report"} /\ Dies(h, worker[h].item)
                     /\ UNCHANGED <<record, stdin, stdout, open, serve, queue>>)
    PROVE  WorkInv'
<1>1. /\ UNCHANGED <<stdin, open, serve, queue, sent>>
      /\ worker[h].at \in {"screen", "report", "done"}
      /\ \/ /\ \E v \in {Waiting, [at |-> "dead", item |-> None]} :
                   worker' = [worker EXCEPT ![h] = v]
            /\ inFlight' = [inFlight EXCEPT ![h] = @ \ {worker[h].item.url}]
         \/ \E next \in {"report", "done"} :
               /\ worker' = [worker EXCEPT ![h] = [at |-> next, item |-> worker[h].item]]
               /\ inFlight' = inFlight
  <2> DEFINE item == worker[h].item
  <2>1. ASSUME NEW next \in {"report", "done"}, Goes(h, next, item)
        PROVE  \E n \in {"report", "done"} :
                  /\ worker' = [worker EXCEPT ![h] = [at |-> n, item |-> item]]
                  /\ inFlight' = inFlight
    BY <2>1 DEF Goes, Works
  <2>2. Dies(h, item) => /\ worker' = [worker EXCEPT ![h] = [at |-> "dead", item |-> None]]
                         /\ inFlight' = [inFlight EXCEPT ![h] = @ \ {item.url}]
    BY DEF Dies, Works
  <2>3. \A type : Tell(h, type, item) => Goes(h, "done", item) \/ Dies(h, item)
    BY DEF Tell
  <2>4. CASE Done(h)
    BY <2>4 DEF Done, WorkerAt, Works, extVars
  <2>5. CASE ~Done(h)
    <3>1. Goes(h, "report", item) \/ Goes(h, "done", item) \/ Dies(h, item)
      BY <2>3, <2>5 DEF Screen, Report
    <3>2. /\ UNCHANGED <<stdin, open, serve, queue, sent>>
          /\ worker[h].at \in {"screen", "report", "done"}
      BY <2>5 DEF Screen, Report, WorkerAt, extVars
    <3> HIDE DEF item
    <3>3. \/ /\ worker' = [worker EXCEPT ![h] = [at |-> "dead", item |-> None]]
             /\ inFlight' = [inFlight EXCEPT ![h] = @ \ {item.url}]
          \/ \E n \in {"report", "done"} :
                /\ worker' = [worker EXCEPT ![h] = [at |-> n, item |-> item]]
                /\ inFlight' = inFlight
      BY <2>1, <2>2, <3>1
    <3> QED  BY <3>2, <3>3 DEF item
  <2> QED  BY <2>4, <2>5
<1>2. /\ Alone(queue[h], worker[h], serve[h], inFlight[h])
      /\ worker[h] \in WorkerState
  BY DEF WorkInv, HostTypeOK
<1>3. worker[h].item \in Item /\ worker[h].item # None
  BY <1>1, <1>2, HostAssumption DEF WorkerState
<1>4. ASSUME NEW CONSTANT v \in {Waiting, [at |-> "dead", item |-> None]},
             worker' = [worker EXCEPT ![h] = v],
             inFlight' = [inFlight EXCEPT ![h] = @ \ {worker[h].item.url}]
      PROVE  WorkInv'
  <2>1. v \in WorkerState /\ v.item = None
    BY DEF Waiting, WorkerState
  <2>2. HostTypeOK'
    BY <1>1, <1>4, <2>1 DEF WorkInv, HostTypeOK
  <2>3. /\ queue'[h] = queue[h] /\ worker'[h] = v
        /\ serve'[h] = serve[h] /\ inFlight'[h] = inFlight[h] \ {worker[h].item.url}
    BY <1>1, <1>4 DEF WorkInv, HostTypeOK
  <2>4. Alone(queue'[h], worker'[h], serve'[h], inFlight'[h])
    BY <1>2, <1>3, <2>1, <2>3, PutDown
  <2> QED  BY <1>1, <1>4, <2>2, <2>4, OneHostWorks DEF WorkInv, HostTypeOK
<1>5. ASSUME NEW CONSTANT next \in {"report", "done"},
             worker' = [worker EXCEPT ![h] = [at |-> next, item |-> worker[h].item]],
             inFlight' = inFlight
      PROVE  WorkInv'
  <2>1. [at |-> next, item |-> worker[h].item] \in WorkerState
    BY <1>3 DEF WorkerState
  <2>2. HostTypeOK'
    BY <1>1, <1>5, <2>1 DEF WorkInv, HostTypeOK
  <2>3. /\ queue'[h] = queue[h] /\ worker'[h] = [at |-> next, item |-> worker[h].item]
        /\ serve'[h] = serve[h] /\ inFlight'[h] = inFlight[h]
    BY <1>1, <1>5 DEF WorkInv, HostTypeOK
  <2>4. worker'[h].item = worker[h].item /\ worker'[h].at # "dead"
    BY <2>3
  <2>5. Alone(queue'[h], worker'[h], serve'[h], inFlight'[h])
    BY <1>2, <1>3, <2>3, <2>4, SameHands
  <2> QED  BY <1>1, <1>5, <2>2, <2>5, OneHostWorks DEF WorkInv, HostTypeOK
<1> QED  BY <1>1, <1>4, <1>5

LEMMA HostKeeps ==
    ASSUME WorkInv, HostsGoOn \/ HostsFail
    PROVE  WorkInv'
<1>1. PICK h \in Host : (HostStep(h) \/ HostFails(h)) /\ UNCHANGED extVars
  BY DEF HostsGoOn, HostsFail
<1>2. CASE ThreadDies(h)
  BY <1>1, <1>2, TakeKeeps, WorkKeeps DEF ThreadDies
<1> QED  BY <1>1, <1>2, DispatchKeeps, RespondKeeps, EnqueueKeeps, TakeKeeps, WorkKeeps
            DEF HostStep, Answering, Screening, HostFails

(* What the extension does starts a host and fills its pipe, nothing else.  *)
LEMMA PipesKeep ==
    ASSUME WorkInv, UNCHANGED <<serve, queue, inFlight, worker>>,
           stdin' \in [Host -> Seq(Request)], open' \in [Host -> BOOLEAN], sent' \in Nat
    PROVE  WorkInv'
BY DEF WorkInv, HostTypeOK

LEMMA PostedKeeps ==
    ASSUME WorkInv, NEW message, message \in Seq(Request), Posted(message),
           UNCHANGED <<queue, inFlight, worker>>, sent' \in Nat
    PROVE  WorkInv'
<1>1. CASE /\ port # None /\ stdin' = [stdin EXCEPT ![port] = @ \o message]
           /\ UNCHANGED <<open, serve>>
  <2>1. \A h \in Host : stdin[h] \o message \in Seq(Request)
    BY ConcatProperties DEF WorkInv, HostTypeOK
  <2>2. stdin' \in [Host -> Seq(Request)] /\ open' \in [Host -> BOOLEAN]
    BY <1>1, <2>1 DEF WorkInv, HostTypeOK
  <2> QED  BY <1>1, <2>2, PipesKeep
<1>2. ASSUME NEW CONSTANT h \in Host, Started(h, message)
      PROVE  WorkInv'
  <2>1. /\ serve' = [serve EXCEPT ![h] = Reading]
        /\ open' = [open EXCEPT ![h] = TRUE] /\ stdin' = [stdin EXCEPT ![h] = message]
    BY <1>2 DEF Started, Serves
  <2>2. ServeState(Reading) /\ Taking(Reading) = {}
    BY DEF Reading, ServeState, Taking
  <2>3. HostTypeOK'
    BY <2>1, <2>2 DEF WorkInv, HostTypeOK
  <2>4. Alone(queue[h], worker[h], serve[h], inFlight[h])
    BY DEF WorkInv
  <2>5. Alone(queue[h], worker[h], Reading, inFlight[h])
    BY <2>2, <2>4, TakesNone
  <2>6. serve'[h] = Reading /\ queue' = queue /\ worker' = worker /\ inFlight' = inFlight
    BY <2>1 DEF WorkInv, HostTypeOK
  <2>7. Alone(queue'[h], worker'[h], serve'[h], inFlight'[h])
    BY <2>5, <2>6
  <2> QED  BY <2>1, <2>3, <2>6, <2>7, OneHostWorks DEF WorkInv, HostTypeOK
<1> QED  BY <1>1, <1>2 DEF Posted

LEMMA SendKeeps ==
    ASSUME WorkInv, NEW by, NEW action \in {"lookup", "collect", "rescreen", "unreadable"},
           NEW u \in Url, NEW target \in Url \cup {None}, Send(by, action, u, target)
    PROVE  WorkInv'
<1> DEFINE message == [id |-> sent + 1, url |-> u, target |-> target, action |-> action]
<1>1. message \in Request /\ sent' \in Nat
  BY DEF Send, Request, WorkInv, HostTypeOK
<1>2. <<message>> \in Seq(Request)
  BY <1>1
<1>3. Posted(<<message>>) /\ UNCHANGED <<queue, inFlight, worker>>
  BY DEF Send, ConnectionLess
<1> HIDE DEF message
<1> QED  BY <1>1, <1>2, <1>3, PostedKeeps

LEMMA ExtensionKeeps ==
    ASSUME WorkInv, BadgeInv, User \/ Timers \/ Extension \/ WorkerEnds
    PROVE  WorkInv'
<1>1. badge.url \in Url
  BY DEF BadgeInv
<1>2. Targets \in [Url -> SUBSET Url]
  BY HostAssumption
<1>3. ASSUME NEW u \in Url, Navigate(u) PROVE WorkInv'
  BY <1>3, SendKeeps DEF Navigate
<1>4. CASE Collect
  <2>1. ASSUME NEW target \in Targets[badge.url], Send("collect", "collect", badge.url, target)
        PROVE  WorkInv'
    <3>1. target \in Url
      BY <1>1, <1>2
    <3> QED  BY <1>1, <2>1, <3>1, SendKeeps
  <2>2. CASE Send("collect", "unreadable", badge.url, None)
    BY <1>1, <2>2, SendKeeps
  <2> QED  BY <1>4, <2>1, <2>2 DEF Collect
<1>5. CASE Poll
  BY <1>1, <1>5, SendKeeps DEF Poll
<1>6. CASE PanelCollect
  <2>1. Send("panel", "collect", badge.url, IF HasPage(badge.url) THEN None ELSE badge.url)
    BY <1>6 DEF PanelCollect
  <2>2. (IF HasPage(badge.url) THEN None ELSE badge.url) \in Url \cup {None}
    BY <1>1
  <2> QED  BY <1>1, <2>1, <2>2, SendKeeps
<1>7. CASE Rescreen
  BY <1>1, <1>7, SendKeeps DEF Rescreen
<1>8. CASE KeepAlive
  <2>1. Posted(<<>>) /\ UNCHANGED <<queue, inFlight, worker, sent>> /\ <<>> \in Seq(Request)
    BY <1>8 DEF KeepAlive, ConnectionLess
  <2>2. sent' \in Nat
    BY <2>1 DEF WorkInv, HostTypeOK
  <2> QED  BY <2>1, <2>2, PostedKeeps
<1>9. CASE PollTimeout \/ Receive \/ Disconnect \/ Recover \/ WorkerEnds
  <2>1. /\ UNCHANGED <<stdin, serve, queue, inFlight, worker, sent>>
        /\ open' = open \/ open' = [open EXCEPT ![port] = FALSE]
    BY <1>9 DEF PollTimeout, Receive, Disconnect, Recover, WorkerEnds, hostVars
  <2>2. stdin' \in [Host -> Seq(Request)] /\ open' \in [Host -> BOOLEAN] /\ sent' \in Nat
    BY <2>1 DEF WorkInv, HostTypeOK
  <2> QED  BY <2>1, <2>2, PipesKeep
<1> QED  BY <1>3, <1>4, <1>5, <1>6, <1>7, <1>8, <1>9 DEF User, Timers, Extension

LEMMA WorkInitHolds == Init => WorkInv
<1> SUFFICES ASSUME Init PROVE WorkInv
  OBVIOUS
<1>1. HostTypeOK
  <2>1. [Reading EXCEPT !.at = "unstarted"] = [at |-> "unstarted", answer |-> None, item |-> None]
    BY DEF Reading
  <2>2. ServeState([at |-> "unstarted", answer |-> None, item |-> None])
    BY DEF ServeState
  <2>3. Waiting \in WorkerState
    BY DEF Waiting, WorkerState
  <2> QED  BY <2>1, <2>2, <2>3 DEF Init, HostInit, ExtInit, HostTypeOK
<1>2. ASSUME NEW h \in Host PROVE Alone(queue[h], worker[h], serve[h], inFlight[h])
  <2>1. queue[h] = <<>> /\ worker[h].item = None /\ inFlight[h] = {} /\ serve[h].item = None
    BY DEF Init, HostInit, Waiting, Reading
  <2>2. Taking(serve[h]) = {}
    BY <2>1 DEF Taking
  <2> QED  BY <2>1, <2>2, StartsAgain
<1> QED  BY <1>1, <1>2 DEF WorkInv

(* WorkInv is an invariant of the hosts, whatever is asked of them and      *)
(* whatever ends (dispatch, run_screening_worker, _ensure_worker_alive).    *)
THEOREM WorkInvariant == Spec => []WorkInv
<1>1. WorkInv /\ BadgeInv /\ [Next]_vars => WorkInv'
  <2> SUFFICES ASSUME WorkInv, BadgeInv, [Next]_vars PROVE WorkInv'
    OBVIOUS
  <2>1. CASE UNCHANGED vars
    <3>1. UNCHANGED <<stdin, open, serve, queue, inFlight, worker, sent>>
      BY <2>1 DEF vars, hostVars, extVars
    <3>2. stdin' \in [Host -> Seq(Request)] /\ open' \in [Host -> BOOLEAN] /\ sent' \in Nat
      BY <3>1 DEF WorkInv, HostTypeOK
    <3> QED  BY <3>1, <3>2, PipesKeep
  <2> QED  BY <2>1, ExtensionKeeps, HostKeeps DEF Next
<1> QED  BY <1>1, WorkInitHolds, BadgeInvariant, PTL DEF Spec

LEMMA InWorkUrls ==
    ASSUME WorkInv, NEW h \in Host
    PROVE  /\ InWork(h) \in Seq(Item)
           /\ \A i, j \in DOMAIN InWork(h) : InWork(h)[i].url = InWork(h)[j].url => i = j
           /\ UrlsOf(InWork(h)) = UrlsOf(queue[h]) \cup InHand(worker[h])
<1>1. /\ queue[h] \in Seq(Item) /\ worker[h] \in WorkerState
      /\ Alone(queue[h], worker[h], serve[h], inFlight[h])
  BY DEF WorkInv, HostTypeOK
<1>2. CASE worker[h].item = None
  <2>1. InWork(h) = queue[h]
    BY <1>1, <1>2, ConcatEmptySeq DEF InWork, Working
  <2> QED  BY <1>1, <1>2, <2>1 DEF Alone, InHand
<1>3. CASE worker[h].item # None
  <2>1. worker[h].item \in Item /\ worker[h].item.url \notin UrlsOf(queue[h])
    BY <1>1, <1>3 DEF WorkerState, Alone, InHand
  <2>2. InWork(h) = queue[h] \o <<worker[h].item>>
    BY <1>3 DEF InWork, Working
  <2>3. InWork(h) = Append(queue[h], worker[h].item)
    BY <1>1, <2>1, <2>2, AppendIsConcat
  <2> QED  BY <1>1, <1>3, <2>1, <2>3, AppendUrls DEF Alone, InHand
<1> QED  BY <1>2, <1>3

(* A host never has a posting in work twice, and knows what it has in work, *)
(* for any postings, connections, requests and limit (careerkit_host.py).   *)
THEOREM InWorkOnlyOnce == Spec => []InWorkOnce
<1>1. WorkInv => InWorkOnce
  <2> SUFFICES ASSUME WorkInv, NEW h \in Host, Up(h)
               PROVE  LET urls == [i \in DOMAIN InWork(h) |-> InWork(h)[i].url]
                          accepted == IF ServeAt(h, "read") \/ serve[h].item = None THEN {}
                                      ELSE {serve[h].item.url}
                      IN  /\ IsInjective(urls)
                          /\ accepted \cap Range(urls) = {}
                          /\ worker[h].at # "dead" => inFlight[h] = Range(urls)
                          /\ Cardinality(inFlight[h] \cup accepted) <= MaxInFlight
    BY DEF InWorkOnce
  <2> DEFINE urls == [i \in DOMAIN InWork(h) |-> InWork(h)[i].url]
             accepted == IF ServeAt(h, "read") \/ serve[h].item = None THEN {}
                         ELSE {serve[h].item.url}
  <2>1. Alone(queue[h], worker[h], serve[h], inFlight[h])
    BY DEF WorkInv
  <2>2. accepted = Taking(serve[h])
    BY DEF Taking, ServeAt
  <2>3. Range(urls) = UrlsOf(queue[h]) \cup InHand(worker[h])
    BY InWorkUrls DEF Range, UrlsOf
  <2>4. IsInjective(urls)
    BY InWorkUrls DEF IsInjective
  <2> HIDE DEF urls, accepted
  <2>5. /\ IsInjective(urls)
        /\ accepted \cap Range(urls) = {}
        /\ worker[h].at # "dead" => inFlight[h] = Range(urls)
        /\ Cardinality(inFlight[h] \cup accepted) <= MaxInFlight
    BY <2>1, <2>2, <2>3, <2>4 DEF Alone
  <2> QED  BY <2>5 DEF urls, accepted
<1> QED  BY <1>1, WorkInvariant, PTL

-----------------------------------------------------------------------------
(* The way of an answer: the pipe to a host, its answering thread, the pipe *)
(* from it.  o and n are what the two pipes hold, s is the thread's state,  *)
(* ids are the requests that wait.                                          *)
IsSequence(o) == \E S : o \in Seq(S)
Answers(o) == {i \in DOMAIN o : o[i].type = "answer"}
In(o) == {o[i].of : i \in Answers(o)}
Given(s) == IF s.at = "respond" THEN {s.answer.of} ELSE {}
Asked(n) == {n[i].id : i \in DOMAIN n}
IdsOf(waiting) == {w.id : w \in waiting}
IsAnswer(m) == m.type = "answer" /\ m.of \in Nat /\ m.id \in {m.of, None}

(* Answers come in the order of their requests, each to one that waits, and *)
(* none overtakes the answer of a request sent before it.                   *)
InOrder(o, ids) ==
    /\ IsSequence(o)
    /\ \A i \in Answers(o) : IsAnswer(o[i])
    /\ \A i, j \in Answers(o) : i < j => o[i].of < o[j].of
    /\ In(o) \subseteq ids
    /\ \A a \in In(o), p \in ids : p <= a => p \in In(o)

(* While the host goes on, every request that waits is on its way.          *)
Coming(o, s, n, ids) ==
    /\ s.at = "respond" => IsAnswer(s.answer)
    /\ Given(s) \cup Asked(n) \subseteq ids
    /\ ids \subseteq In(o) \cup Given(s) \cup Asked(n)
    /\ \A a \in In(o), g \in Given(s) : a < g
    /\ \A a \in In(o) \cup Given(s), k \in Asked(n) : a < k
    /\ \A i, j \in DOMAIN n : i < j => n[i].id < n[j].id

AnswerInv ==
    /\ \A w \in requests : w.id \in Nat /\ w.id <= sent
    /\ \A v, w \in requests : v.id = w.id => v = w
    /\ port \in Host \cup {None}
    /\ port = None => requests = {}
    /\ DOMAIN stdout = Host
    /\ \A h \in Host : serve[h].at = "unstarted" => stdout[h] = <<>>
    /\ port # None =>
          /\ serve[port].at # "unstarted"
          /\ InOrder(stdout[port], IdsOf(requests))
          /\ serve[port].at # "ended" =>
                Coming(stdout[port], serve[port], stdin[port], IdsOf(requests))

-----------------------------------------------------------------------------
(* Messages that come to the end of the pipe or leave it at its head.       *)
LEMMA SequenceFacts ==
    ASSUME NEW o, IsSequence(o)
    PROVE  /\ Len(o) \in Nat /\ DOMAIN o = 1 .. Len(o)
           /\ o # <<>> => /\ IsSequence(Tail(o)) /\ Len(o) >= 1 /\ Head(o) = o[1]
                          /\ DOMAIN Tail(o) = 1 .. Len(o) - 1
                          /\ \A i \in 1 .. Len(o) - 1 : Tail(o)[i] = o[i + 1]
<1>1. PICK S : o \in Seq(S)
  BY DEF IsSequence
<1>2. o # <<>> => Tail(o) \in Seq(S)
  BY <1>1
<1> QED  BY <1>1, <1>2 DEF IsSequence

LEMMA ConcatFacts ==
    ASSUME NEW o, NEW p, IsSequence(o), IsSequence(p)
    PROVE  /\ IsSequence(o \o p) /\ Len(o) \in Nat /\ Len(p) \in Nat
           /\ DOMAIN o = 1 .. Len(o) /\ DOMAIN p = 1 .. Len(p)
           /\ DOMAIN (o \o p) = 1 .. Len(o) + Len(p)
           /\ \A i \in 1 .. Len(o) : (o \o p)[i] = o[i]
           /\ \A i \in 1 .. Len(p) : (o \o p)[Len(o) + i] = p[i]
<1>1. PICK S, T : o \in Seq(S) /\ p \in Seq(T)
  BY DEF IsSequence
<1>2. o \in Seq(S \cup T) /\ p \in Seq(S \cup T)
  BY <1>1, SeqMonotonic
<1>3. /\ o \o p \in Seq(S \cup T) /\ Len(o \o p) = Len(o) + Len(p)
      /\ \A i \in 1 .. Len(o) + Len(p) :
            (o \o p)[i] = IF i <= Len(o) THEN o[i] ELSE p[i - Len(o)]
  BY <1>2, ConcatProperties
<1>4. Len(o) \in Nat /\ Len(p) \in Nat /\ DOMAIN o = 1 .. Len(o) /\ DOMAIN p = 1 .. Len(p)
      /\ DOMAIN (o \o p) = 1 .. Len(o \o p)
  BY <1>2, <1>3
<1>5. ASSUME NEW i \in 1 .. Len(p) PROVE (o \o p)[Len(o) + i] = p[i]
  <2>1. Len(o) + i \in 1 .. Len(o) + Len(p) /\ ~(Len(o) + i <= Len(o))
        /\ (Len(o) + i) - Len(o) = i
    BY <1>4
  <2> QED  BY <1>3, <2>1
<1> QED  BY <1>3, <1>4, <1>5 DEF IsSequence

LEMMA PushesFollow ==
    ASSUME NEW o, NEW p, NEW ids, IsSequence(p), \A i \in DOMAIN p : p[i].type # "answer",
           InOrder(o, ids)
    PROVE  InOrder(o \o p, ids) /\ In(o \o p) = In(o)
<1> DEFINE q == o \o p
<1>1. /\ IsSequence(q) /\ Len(o) \in Nat /\ Len(p) \in Nat
      /\ DOMAIN o = 1 .. Len(o) /\ DOMAIN p = 1 .. Len(p)
      /\ DOMAIN q = 1 .. Len(o) + Len(p)
      /\ \A i \in 1 .. Len(o) : q[i] = o[i]
      /\ \A i \in 1 .. Len(p) : q[Len(o) + i] = p[i]
  BY ConcatFacts DEF InOrder
<1> HIDE DEF q
<1>2. Answers(q) = Answers(o)
  <2>1. ASSUME NEW i \in DOMAIN q, i \notin DOMAIN o PROVE q[i].type # "answer"
    <3>1. i - Len(o) \in 1 .. Len(p) /\ Len(o) + (i - Len(o)) = i
      BY <1>1, <2>1
    <3>2. q[i] = p[i - Len(o)]
      BY <1>1, <3>1
    <3> QED  BY <1>1, <3>1, <3>2
  <2>2. DOMAIN o \subseteq DOMAIN q /\ \A i \in DOMAIN o : q[i] = o[i]
    BY <1>1
  <2> QED  BY <2>1, <2>2 DEF Answers
<1>3. \A i \in Answers(o) : q[i] = o[i]
  BY <1>1 DEF Answers
<1>4. In(q) = In(o)
  BY <1>2, <1>3 DEF In
<1>5. InOrder(q, ids)
  BY <1>1, <1>2, <1>3, <1>4 DEF InOrder
<1> QED  BY <1>4, <1>5 DEF q

LEMMA AnswerFollows ==
    ASSUME NEW o, NEW x, NEW ids, IsAnswer(x), InOrder(o, ids), x.of \in ids,
           \A a \in In(o) : a < x.of, \A k \in ids : k < x.of => k \in In(o),
           \A k \in ids : k \in Nat
    PROVE  InOrder(o \o <<x>>, ids) /\ In(o \o <<x>>) = In(o) \cup {x.of}
<1> DEFINE q == o \o <<x>>
           n == Len(o)
<1>1. IsSequence(<<x>>) /\ Len(<<x>>) = 1 /\ <<x>>[1] = x
  <2>1. <<x>> \in Seq({x})
    OBVIOUS
  <2> QED  BY <2>1 DEF IsSequence
<1>2. /\ IsSequence(q) /\ n \in Nat /\ DOMAIN o = 1 .. n
      /\ DOMAIN q = 1 .. n + 1 /\ q[n + 1] = x
      /\ \A i \in 1 .. n : q[i] = o[i]
  <2>1. 1 \in 1 .. Len(<<x>>)
    BY <1>1
  <2> QED  BY <1>1, <2>1, ConcatFacts DEF InOrder
<1> HIDE DEF q, n
<1>3. Answers(q) = Answers(o) \cup {n + 1} /\ n + 1 \notin Answers(o)
  BY <1>2 DEF Answers, IsAnswer
<1>4. \A i \in Answers(o) : q[i] = o[i] /\ i < n + 1
  BY <1>2 DEF Answers
<1>5. In(q) = In(o) \cup {x.of}
  BY <1>2, <1>3, <1>4 DEF In
<1>6. \A i \in Answers(q) : IsAnswer(q[i])
  BY <1>2, <1>3, <1>4 DEF InOrder
<1>7. ASSUME NEW i \in Answers(q), NEW j \in Answers(q), i < j PROVE q[i].of < q[j].of
  <2>1. i \in Answers(o)
    BY <1>2, <1>3, <1>4, <1>7 DEF Answers
  <2>2. CASE j \in Answers(o)
    BY <1>4, <1>7, <2>1, <2>2 DEF InOrder
  <2>3. CASE j = n + 1
    <3>1. o[i].of \in In(o)
      BY <2>1 DEF In
    <3> QED  BY <1>2, <1>4, <2>1, <2>3, <3>1
  <2> QED  BY <1>3, <2>2, <2>3
<1>8. ASSUME NEW a \in In(q), NEW k \in ids, k <= a PROVE k \in In(q)
  <2>1. CASE a \in In(o)
    BY <1>5, <1>8, <2>1 DEF InOrder
  <2>2. CASE a = x.of
    <3>1. k = x.of \/ k < x.of
      BY <1>8, <2>2 DEF IsAnswer
    <3> QED  BY <1>5, <3>1
  <2> QED  BY <1>5, <2>1, <2>2
<1>9. InOrder(q, ids)
  BY <1>2, <1>5, <1>6, <1>7, <1>8 DEF InOrder
<1> QED  BY <1>5, <1>9 DEF q

LEMMA HeadLeaves ==
    ASSUME NEW o, NEW ids, InOrder(o, ids), o # <<>>, \A k \in ids : k \in Nat
    PROVE  /\ Head(o).type # "answer" =>
                  InOrder(Tail(o), ids) /\ In(Tail(o)) = In(o)
           /\ Head(o).type = "answer" =>
                  /\ IsAnswer(Head(o)) /\ Head(o).of \in ids
                  /\ \A k \in ids : Head(o).of <= k
                  /\ InOrder(Tail(o), ids \ {Head(o).of})
                  /\ In(Tail(o)) = In(o) \ {Head(o).of}
<1> DEFINE q == Tail(o)
           n == Len(o)
<1>1. /\ IsSequence(q) /\ n \in Nat /\ n >= 1 /\ DOMAIN o = 1 .. n /\ Head(o) = o[1]
      /\ DOMAIN q = 1 .. n - 1 /\ \A i \in 1 .. n - 1 : q[i] = o[i + 1]
  BY SequenceFacts DEF InOrder
<1> HIDE DEF q, n
<1>2. \A i \in Answers(q) : i + 1 \in Answers(o) /\ q[i] = o[i + 1] /\ i + 1 # 1 /\ i \in Nat
  BY <1>1 DEF Answers
<1>3. ASSUME NEW i \in Answers(o), i # 1
      PROVE  i - 1 \in Answers(q) /\ q[i - 1] = o[i] /\ i \in Nat /\ 1 < i
  <2>1. i - 1 \in 1 .. n - 1 /\ (i - 1) + 1 = i /\ i \in Nat /\ 1 < i
    BY <1>1, <1>3 DEF Answers
  <2>2. q[i - 1] = o[i]
    BY <1>1, <2>1
  <2> QED  BY <1>1, <2>1, <2>2 DEF Answers
<1>4. \A i \in Answers(q) : IsAnswer(q[i])
  BY <1>2 DEF InOrder
<1>5. ASSUME NEW i \in Answers(q), NEW j \in Answers(q), i < j PROVE q[i].of < q[j].of
  <2>1. i + 1 < j + 1
    BY <1>2, <1>5
  <2> QED  BY <1>2, <2>1 DEF InOrder
<1>6. CASE Head(o).type # "answer"
  <2>1. 1 \notin Answers(o)
    BY <1>1, <1>6 DEF Answers
  <2>2. In(q) = In(o)
    BY <1>2, <1>3, <2>1 DEF In
  <2>3. InOrder(q, ids)
    BY <1>1, <1>4, <1>5, <2>2 DEF InOrder
  <2> QED  BY <1>6, <2>2, <2>3 DEF q
<1>7. CASE Head(o).type = "answer"
  <2> DEFINE a == Head(o).of
  <2>1. 1 \in Answers(o) /\ a = o[1].of /\ a \in In(o)
    BY <1>1, <1>7 DEF Answers, In
  <2>2. IsAnswer(Head(o)) /\ a \in ids /\ a \in Nat
    BY <1>1, <2>1 DEF InOrder, IsAnswer
  <2>3. \A i \in Answers(o) : i # 1 => a < o[i].of
    BY <1>3, <2>1 DEF InOrder
  <2> HIDE DEF a
  <2>4. \A b \in In(o) : b = a \/ a < b
    BY <2>1, <2>3 DEF In
  <2>5. a \notin In(q)
    <3>1. ASSUME NEW i \in Answers(q) PROVE q[i].of # a
      <4>1. a < o[i + 1].of
        BY <1>2, <2>3
      <4>2. q[i].of = o[i + 1].of /\ q[i].of \in Nat
        BY <1>2, <1>4 DEF IsAnswer
      <4> QED  BY <2>2, <4>1, <4>2
    <3> QED  BY <3>1 DEF In
  <2>6. In(q) = In(o) \ {a}
    BY <1>2, <1>3, <2>1, <2>5 DEF In
  <2>7. ASSUME NEW k \in ids PROVE a <= k
    <3>1. SUFFICES ASSUME ~(a <= k) PROVE FALSE
      OBVIOUS
    <3>2. k <= a /\ k # a /\ k \in Nat
      BY <2>2, <3>1
    <3>3. k \in In(o)
      BY <2>1, <3>2 DEF InOrder
    <3> QED  BY <2>2, <2>4, <3>2, <3>3
  <2>8. InOrder(q, ids \ {a})
    BY <1>1, <1>4, <1>5, <2>6 DEF InOrder
  <2> QED  BY <1>7, <2>2, <2>6, <2>7, <2>8 DEF q, a
<1> QED  BY <1>6, <1>7

LEMMA OneMoreWaits ==
    ASSUME NEW o, NEW ids, NEW k \in Nat, InOrder(o, ids), \A p \in ids : p \in Nat /\ p < k
    PROVE  InOrder(o, ids \cup {k})
<1>1. \A a \in In(o) : a \in Nat /\ a < k
  BY DEF InOrder
<1>2. \A a \in In(o) : ~(k <= a)
  BY <1>1
<1> QED  BY <1>2 DEF InOrder

-----------------------------------------------------------------------------
(* Grown: what a host writes besides answers are pushes.                    *)
Grown(o, r) ==
    r = o \/ \E p : /\ IsSequence(p) /\ r = o \o p
                    /\ \A i \in DOMAIN p : p[i].type # "answer"

LEMMA GrownInOrder ==
    ASSUME NEW o, NEW r, NEW ids, InOrder(o, ids), Grown(o, r)
    PROVE  InOrder(r, ids) /\ In(r) = In(o)
BY PushesFollow DEF Grown

LEMMA HeadAsked ==
    ASSUME NEW n \in Seq(Request), n # <<>>,
           \A i, j \in DOMAIN n : i < j => n[i].id < n[j].id
    PROVE  /\ Head(n).id \in Nat
           /\ Asked(n) = {Head(n).id} \cup Asked(Tail(n))
           /\ \A k \in Asked(Tail(n)) : Head(n).id < k
           /\ \A i, j \in DOMAIN Tail(n) : i < j => Tail(n)[i].id < Tail(n)[j].id
<1> DEFINE t == Tail(n)
           m == Len(n)
<1>1. /\ m \in Nat /\ m >= 1 /\ DOMAIN n = 1 .. m /\ Head(n) = n[1] /\ Head(n) \in Request
      /\ DOMAIN t = 1 .. m - 1 /\ \A i \in 1 .. m - 1 : t[i] = n[i + 1]
  OBVIOUS
<1> HIDE DEF t, m
<1>2. ASSUME NEW i \in DOMAIN t
      PROVE  i \in Nat /\ i + 1 \in DOMAIN n /\ 1 < i + 1 /\ t[i] = n[i + 1]
  BY <1>1
<1>3. ASSUME NEW i \in DOMAIN n, i # 1 PROVE n[i].id \in Asked(t)
  <2>1. i - 1 \in 1 .. m - 1 /\ (i - 1) + 1 = i
    BY <1>1, <1>3
  <2>2. t[i - 1] = n[i]
    BY <1>1, <2>1
  <2> QED  BY <1>1, <2>1, <2>2 DEF Asked
<1>4. 1 \in DOMAIN n
  BY <1>1
<1>5. Asked(n) = {Head(n).id} \cup Asked(t)
  <2>1. Asked(n) \subseteq {Head(n).id} \cup Asked(t)
    BY <1>1, <1>3 DEF Asked
  <2>2. Asked(t) \subseteq Asked(n)
    BY <1>2 DEF Asked
  <2>3. Head(n).id \in Asked(n)
    BY <1>1, <1>4 DEF Asked
  <2> QED  BY <2>1, <2>2, <2>3
<1>6. \A k \in Asked(t) : Head(n).id < k
  BY <1>1, <1>2, <1>4 DEF Asked
<1>7. ASSUME NEW i \in DOMAIN t, NEW j \in DOMAIN t, i < j PROVE t[i].id < t[j].id
  <2>1. i + 1 < j + 1
    BY <1>2, <1>7
  <2> QED  BY <1>2, <2>1
<1>8. Head(n).id \in Nat
  BY <1>1 DEF Request
<1> QED  BY <1>5, <1>6, <1>7, <1>8 DEF t

LEMMA OneMoreAsked ==
    ASSUME NEW n \in Seq(Request), NEW m \in Request, \A k \in Asked(n) : k < m.id,
           \A i, j \in DOMAIN n : i < j => n[i].id < n[j].id
    PROVE  /\ Asked(n \o <<m>>) = Asked(n) \cup {m.id}
           /\ \A i, j \in DOMAIN (n \o <<m>>) :
                 i < j => (n \o <<m>>)[i].id < (n \o <<m>>)[j].id
<1> DEFINE t == n \o <<m>>
           l == Len(n)
<1>1. /\ l \in Nat /\ DOMAIN n = 1 .. l /\ DOMAIN t = 1 .. l + 1
      /\ t[l + 1] = m /\ \A i \in 1 .. l : t[i] = n[i]
  <2>1. IsSequence(n) /\ <<m>> \in Seq({m}) /\ IsSequence(<<m>>)
        /\ Len(<<m>>) = 1 /\ <<m>>[1] = m /\ 1 \in 1 .. Len(<<m>>)
    <3>1. <<m>> \in Seq({m}) /\ Len(<<m>>) = 1 /\ <<m>>[1] = m
      OBVIOUS
    <3> QED  BY <3>1 DEF IsSequence
  <2> QED  BY <2>1, ConcatFacts
<1> HIDE DEF t, l
<1>2. \A i \in DOMAIN t : i = l + 1 \/ (i \in DOMAIN n /\ t[i] = n[i])
  BY <1>1
<1>3. l + 1 \in DOMAIN t /\ DOMAIN n \subseteq DOMAIN t
  BY <1>1
<1>4. Asked(t) = Asked(n) \cup {m.id}
  BY <1>1, <1>2, <1>3 DEF Asked
<1>5. ASSUME NEW i \in DOMAIN t, NEW j \in DOMAIN t, i < j PROVE t[i].id < t[j].id
  <2>1. i \in DOMAIN n
    BY <1>1, <1>5
  <2>2. CASE j \in DOMAIN n
    BY <1>1, <1>5, <2>1, <2>2
  <2>3. CASE j = l + 1
    <3>1. n[i].id \in Asked(n)
      BY <2>1 DEF Asked
    <3> QED  BY <1>1, <2>1, <2>3, <3>1
  <2> QED  BY <1>2, <2>2, <2>3
<1> QED  BY <1>4, <1>5 DEF t

-----------------------------------------------------------------------------
(* What a step of a host does to the way of an answer.                      *)
GoesOn(h) ==
    /\ stdin'[h] = stdin[h] /\ Grown(stdout[h], stdout'[h])
    /\ serve'[h].at # "unstarted"
    /\ serve'[h] = serve[h] \/ (serve[h].at # "respond" /\ serve'[h].at # "respond")
Replies(h) ==
    /\ stdin'[h] = stdin[h] /\ serve[h].at = "respond"
    /\ stdout'[h] = stdout[h] \o <<serve[h].answer>>
    /\ serve'[h].at \in {"read", "enqueue"}
Ends(h) == serve'[h].at = "ended" /\ stdout'[h] = stdout[h]
Reads(h) ==
    /\ serve[h].at = "read" /\ stdin[h] # <<>> /\ stdin'[h] = Tail(stdin[h])
    /\ Grown(stdout[h], stdout'[h])
    /\ serve'[h].at = "respond"
    /\ IsAnswer(serve'[h].answer) /\ serve'[h].answer.of = Head(stdin[h]).id

LEMMA PushGrows ==
    ASSUME NEW o, NEW m, m.type # "answer"
    PROVE  Grown(o, o \o <<m>>)
<1>1. <<m>> \in Seq({m}) /\ DOMAIN <<m>> = {1} /\ <<m>>[1] = m
  OBVIOUS
<1> QED  BY <1>1 DEF Grown, IsSequence

LEMMA WrittenGrows ==
    ASSUME WorkInv, AnswerInv, NEW CONSTANT h \in Host
    PROVE  /\ UNCHANGED stdout => Grown(stdout[h], stdout'[h])
           /\ Written(h, Orphans(h)) => Grown(stdout[h], stdout'[h])
           /\ \A type \in {"failed", "complete"} : \A track :
                 Written(h, <<Push(type, track)>>) => Grown(stdout[h], stdout'[h])
           /\ \A m : Written(h, m) => \A g \in Host \ {h} : stdout'[g] = stdout[g]
           /\ \A m : Written(h, m) => DOMAIN stdout' = Host
<1>1. DOMAIN stdout = Host
  BY DEF AnswerInv
<1>2. ASSUME Written(h, Orphans(h)) PROVE Grown(stdout[h], stdout'[h])
  <2>1. stdout'[h] = stdout[h] \o Orphans(h)
    BY <1>1, <1>2 DEF Written
  <2>2. \A i \in DOMAIN Orphans(h) : Orphans(h)[i].type # "answer"
    BY DEF Orphans, Push, Answer
  <2>3. IsSequence(Orphans(h))
    <3> DEFINE S == {Push("failed", queue[h][i].track) : i \in DOMAIN queue[h]}
    <3>1. queue[h] \in Seq(Item)
      BY DEF WorkInv, HostTypeOK
    <3>2. Len(queue[h]) \in Nat /\ DOMAIN queue[h] = 1 .. Len(queue[h])
      BY <3>1
    <3>3. Orphans(h) \in [1 .. Len(queue[h]) -> S]
      BY <3>2 DEF Orphans
    <3>4. Orphans(h) \in Seq(S)
      BY <3>2, <3>3, IsASeq
    <3> QED  BY <3>4 DEF IsSequence
  <2> QED  BY <2>1, <2>2, <2>3 DEF Grown
<1>3. ASSUME NEW type \in {"failed", "complete"}, NEW track, Written(h, <<Push(type, track)>>)
      PROVE  Grown(stdout[h], stdout'[h])
  <2>1. stdout'[h] = stdout[h] \o <<Push(type, track)>>
    BY <1>1, <1>3 DEF Written
  <2>2. Push(type, track).type # "answer"
    BY DEF Push, Answer
  <2> QED  BY <2>1, <2>2, PushGrows
<1>4. \A m : Written(h, m) => /\ \A g \in Host \ {h} : stdout'[g] = stdout[g]
                              /\ DOMAIN stdout' = Host
  BY <1>1 DEF Written
<1>5. UNCHANGED stdout => Grown(stdout[h], stdout'[h])
  BY DEF Grown
<1> QED  BY <1>2, <1>3, <1>4, <1>5

LEMMA ReplyIsAnswer ==
    ASSUME NEW CONSTANT m \in Request, NEW CONSTANT working
    PROVE  /\ IsAnswer(Prepared(m, working).answer) /\ Prepared(m, working).answer.of = m.id
           /\ IsAnswer(Unreadable(m).answer) /\ Unreadable(m).answer.of = m.id
           /\ IsAnswer(Lookup(m).answer) /\ Lookup(m).answer.of = m.id
           /\ IsAnswer(Rejected(m)) /\ Rejected(m).of = m.id
<1>1. m.id \in Nat
  BY DEF Request
<1>2. \A id \in {m.id, None} : \A status, decided :
         IsAnswer(Answer(id, m.id, status, decided)) /\ Answer(id, m.id, status, decided).of = m.id
  BY <1>1 DEF Answer, IsAnswer
<1>3. IsAnswer(Rejected(m)) /\ Rejected(m).of = m.id
      /\ IsAnswer(Accepted(m)) /\ Accepted(m).of = m.id
  BY <1>2 DEF Rejected, Accepted
<1>4. \/ Prepared(m, working).answer \in {Rejected(m), Accepted(m)}
      \/ Prepared(m, working).answer = Answer(m.id, m.id, "duplicate", TRUE)
  BY DEF Prepared
<1>5. IsAnswer(Unreadable(m).answer) /\ Unreadable(m).answer.of = m.id
  BY <1>2 DEF Unreadable
<1>6. IsAnswer(Lookup(m).answer) /\ Lookup(m).answer.of = m.id
  BY <1>1 DEF Lookup, Answer, IsAnswer
<1> QED  BY <1>2, <1>3, <1>4, <1>5, <1>6

LEMMA DispatchReads ==
    ASSUME WorkInv, AnswerInv, NEW CONSTANT h \in Host, Dispatch(h)
    PROVE  Reads(h) /\ DOMAIN stdout' = Host /\ \A g \in Host \ {h} : stdout'[g] = stdout[g]
<1> DEFINE m == Head(stdin[h])
           Reply(working) == CASE m.action = "unreadable" -> Unreadable(m)
                               [] m.action = "lookup" -> Lookup(m)
                               [] OTHER -> Prepared(m, working)
           Says(reply) == [at |-> "respond", answer |-> reply.answer, item |-> reply.item]
<1>1. /\ serve[h].at = "read" /\ stdin[h] # <<>> /\ stdin[h] \in Seq(Request)
      /\ m \in Request /\ stdin'[h] = Tail(stdin[h])
  BY DEF Dispatch, ServeAt, WorkInv, HostTypeOK
<1>2. ASSUME NEW CONSTANT working
      PROVE  IsAnswer(Reply(working).answer) /\ Reply(working).answer.of = m.id
  BY <1>1, ReplyIsAnswer
<1>3. IsAnswer(Rejected(m)) /\ Rejected(m).of = m.id
  BY <1>1, ReplyIsAnswer
<1> HIDE DEF m, Reply
<1>4. \/ \E working : serve' = [serve EXCEPT ![h] = Says(Reply(working))]
      \/ serve' = [serve EXCEPT ![h] = [at |-> "respond", answer |-> Rejected(m), item |-> None]]
  BY DEF Dispatch, Serves, m, Reply
<1>5. /\ serve'[h].at = "respond" /\ IsAnswer(serve'[h].answer)
      /\ serve'[h].answer.of = m.id
  BY <1>2, <1>3, <1>4 DEF WorkInv, HostTypeOK
<1>6. UNCHANGED stdout \/ Written(h, Orphans(h))
  BY DEF Dispatch, Restart, RestartFails, BrokenPipe
<1>7. DOMAIN stdout = Host
  BY DEF AnswerInv
<1>8. Grown(stdout[h], stdout'[h]) /\ DOMAIN stdout' = Host
      /\ \A g \in Host \ {h} : stdout'[g] = stdout[g]
  BY <1>6, <1>7, WrittenGrows
<1> QED  BY <1>1, <1>5, <1>8 DEF Reads, m

LEMMA HostMoves ==
    ASSUME WorkInv, AnswerInv, NEW CONSTANT h \in Host, HostStep(h) \/ HostFails(h)
    PROVE  /\ GoesOn(h) \/ Replies(h) \/ Ends(h) \/ Reads(h)
           /\ serve[h].at \notin {"unstarted", "ended"}
           /\ DOMAIN stdout' = Host
           /\ \A g \in Host \ {h} : /\ stdout'[g] = stdout[g] /\ serve'[g] = serve[g]
                                    /\ stdin'[g] = stdin[g]
<1>1. DOMAIN stdout = Host /\ DOMAIN serve = Host /\ DOMAIN stdin = Host
  BY DEF AnswerInv, WorkInv, HostTypeOK
<1>2. CASE Dispatch(h)
  <2>1. serve[h].at = "read" /\ \A g \in Host \ {h} : serve'[g] = serve[g] /\ stdin'[g] = stdin[g]
    BY <1>1, <1>2 DEF Dispatch, Serves, ServeAt
  <2> QED  BY <1>2, <2>1, DispatchReads
<1>3. CASE Respond(h)
  <2>1. serve[h].at = "respond" /\ UNCHANGED stdin
    BY <1>3 DEF Respond, ServeAt
  <2>2. CASE /\ Written(h, <<serve[h].answer>>)
             /\ Serves(h, IF serve[h].item = None THEN Reading
                          ELSE [serve[h] EXCEPT !.at = "enqueue"])
    <3>1. ServeState(serve[h])
      BY DEF WorkInv, HostTypeOK
    <3>2. PICK s : s = [serve[h] EXCEPT !.at = "enqueue"]
      OBVIOUS
    <3>3. s.at = "enqueue"
      BY <3>1, <3>2 DEF ServeState
    <3>4. serve'[h].at \in {"read", "enqueue"} /\ \A g \in Host \ {h} : serve'[g] = serve[g]
      BY <1>1, <2>2, <3>2, <3>3 DEF Serves, Reading
    <3>5. /\ stdout'[h] = stdout[h] \o <<serve[h].answer>>
          /\ DOMAIN stdout' = Host /\ \A g \in Host \ {h} : stdout'[g] = stdout[g]
      BY <1>1, <2>2 DEF Written
    <3> QED  BY <2>1, <3>4, <3>5 DEF Replies
  <2>3. CASE BrokenPipe(h) /\ Serves(h, [Reading EXCEPT !.at = "ended"])
    <3>1. Ends(h) /\ UNCHANGED stdout /\ \A g \in Host \ {h} : serve'[g] = serve[g]
      BY <1>1, <2>3 DEF BrokenPipe, Serves, Reading, Ends
    <3> QED  BY <1>1, <2>1, <3>1
  <2> QED  BY <1>3, <2>2, <2>3 DEF Respond
<1>4. CASE Enqueue(h) \/ Eof(h)
  <2>1. /\ serve[h].at \in {"read", "enqueue"} /\ UNCHANGED <<stdin, stdout>>
        /\ \/ serve' = [serve EXCEPT ![h] = Reading]
           \/ serve' = [serve EXCEPT ![h] = [Reading EXCEPT !.at = "join"]]
    BY <1>4 DEF Enqueue, Eof, ServeAt, Serves
  <2>2. serve'[h].at \in {"read", "join"} /\ \A g \in Host \ {h} : serve'[g] = serve[g]
    BY <1>1, <2>1 DEF Reading
  <2>3. GoesOn(h)
    BY <2>1, <2>2 DEF GoesOn, Grown
  <2> QED  BY <1>1, <2>1, <2>2, <2>3
<1>5. CASE Joined(h) \/ HostDies(h)
  <2>1. /\ serve[h].at \notin {"unstarted", "ended"} /\ UNCHANGED <<stdin, stdout>>
        /\ serve' = [serve EXCEPT ![h] = [Reading EXCEPT !.at = "ended"]]
    BY <1>5 DEF Joined, HostDies, Up, ServeAt, Serves
  <2>2. serve'[h].at = "ended" /\ \A g \in Host \ {h} : serve'[g] = serve[g]
    BY <1>1, <2>1 DEF Reading
  <2> QED  BY <1>1, <2>1, <2>2 DEF Ends
<1>6. CASE Screening(h) \/ ThreadDies(h)
  <2>1. UNCHANGED <<stdin, serve>> /\ Up(h)
    BY <1>6 DEF Screening, ThreadDies, Extract, Screen, Report, Done, Idle, WorkerAt
  <2>2. \/ UNCHANGED stdout
        \/ \E type \in {"failed", "complete"} : \E item : Written(h, <<Push(type, item.track)>>)
    BY <1>6 DEF Screening, ThreadDies, Extract, Screen, Report, Done, Tell, BrokenPipe
  <2>3. Grown(stdout[h], stdout'[h]) /\ DOMAIN stdout' = Host
        /\ \A g \in Host \ {h} : stdout'[g] = stdout[g]
    BY <1>1, <2>2, WrittenGrows
  <2> QED  BY <2>1, <2>3 DEF GoesOn, Up
<1> QED  BY <1>2, <1>3, <1>4, <1>5, <1>6 DEF HostStep, HostFails, Answering

LEMMA IdsAreNat ==
    ASSUME AnswerInv
    PROVE  \A k \in IdsOf(requests) : k \in Nat /\ k <= sent
BY DEF AnswerInv, IdsOf

(* What comes out of a step of the host connected to.                       *)
LEMMA HostAnswers ==
    ASSUME WorkInv, AnswerInv, NEW CONSTANT h \in Host, port = h,
           GoesOn(h) \/ Replies(h) \/ Ends(h) \/ Reads(h),
           serve[h].at \notin {"unstarted", "ended"}
    PROVE  /\ serve'[h].at # "unstarted"
           /\ InOrder(stdout'[h], IdsOf(requests))
           /\ serve'[h].at # "ended" =>
                 Coming(stdout'[h], serve'[h], stdin'[h], IdsOf(requests))
<1> DEFINE o == stdout[h]
           s == serve[h]
           n == stdin[h]
           ids == IdsOf(requests)
<1>1. /\ InOrder(o, ids) /\ Coming(o, s, n, ids) /\ n \in Seq(Request)
      /\ \A k \in ids : k \in Nat
  BY HostAssumption, IdsAreNat DEF AnswerInv, WorkInv, HostTypeOK
<1> HIDE DEF ids
<1>2. CASE GoesOn(h)
  <2>1. InOrder(stdout'[h], ids) /\ In(stdout'[h]) = In(o)
    BY <1>1, <1>2, GrownInOrder DEF GoesOn
  <2>2. Given(serve'[h]) = Given(s) /\ (serve'[h].at = "respond" => IsAnswer(serve'[h].answer))
    BY <1>1, <1>2 DEF GoesOn, Given, Coming
  <2>3. stdin'[h] = n /\ serve'[h].at # "unstarted"
    BY <1>2 DEF GoesOn
  <2>4. Coming(stdout'[h], serve'[h], stdin'[h], ids)
    BY <1>1, <2>1, <2>2, <2>3 DEF Coming
  <2> QED  BY <2>1, <2>3, <2>4 DEF ids
<1>3. CASE Replies(h)
  <2> DEFINE x == s.answer
  <2>1. IsAnswer(x) /\ Given(s) = {x.of} /\ x.of \in ids
    BY <1>1, <1>3 DEF Replies, Coming, Given
  <2>2. (\A a \in In(o) : a < x.of) /\ (\A k \in Asked(n) : x.of < k)
    BY <1>1, <2>1 DEF Coming
  <2>3. \A k \in ids : k < x.of => k \in In(o)
    <3> SUFFICES ASSUME NEW k \in ids, k < x.of, k \notin In(o) PROVE FALSE
      OBVIOUS
    <3>1. k = x.of \/ k \in Asked(n)
      BY <1>1, <2>1 DEF Coming
    <3>2. k \in Nat /\ x.of \in Nat
      BY <1>1, <2>1
    <3> QED  BY <2>2, <3>1, <3>2
  <2>4. InOrder(o \o <<x>>, ids) /\ In(o \o <<x>>) = In(o) \cup {x.of}
    BY <1>1, <2>1, <2>2, <2>3, AnswerFollows
  <2>5. /\ stdout'[h] = o \o <<x>> /\ stdin'[h] = n /\ serve'[h].at \notin {"respond", "unstarted"}
        /\ Given(serve'[h]) = {}
    BY <1>3 DEF Replies, Given
  <2>6. Coming(stdout'[h], serve'[h], stdin'[h], ids)
    BY <1>1, <2>1, <2>2, <2>4, <2>5 DEF Coming
  <2> QED  BY <2>4, <2>5, <2>6 DEF ids
<1>4. CASE Ends(h)
  BY <1>1, <1>4 DEF Ends, ids
<1>5. CASE Reads(h)
  <2> DEFINE g == Head(n).id
  <2>1. InOrder(stdout'[h], ids) /\ In(stdout'[h]) = In(o)
    BY <1>1, <1>5, GrownInOrder DEF Reads
  <2>2. /\ stdin'[h] = Tail(n) /\ Given(s) = {} /\ Given(serve'[h]) = {g}
        /\ serve'[h].at = "respond" /\ IsAnswer(serve'[h].answer)
    BY <1>5 DEF Reads, Given
  <2>3. /\ Asked(n) = {g} \cup Asked(Tail(n)) /\ \A k \in Asked(Tail(n)) : g < k
        /\ \A i, j \in DOMAIN Tail(n) : i < j => Tail(n)[i].id < Tail(n)[j].id
    BY <1>1, <1>5, HeadAsked DEF Reads, Coming
  <2> HIDE DEF g
  <2>4. Coming(stdout'[h], serve'[h], Tail(n), ids)
    BY <1>1, <2>1, <2>2, <2>3 DEF Coming
  <2> QED  BY <2>1, <2>2, <2>4 DEF ids
<1> QED  BY <1>2, <1>3, <1>4, <1>5

LEMMA HostsAnswer ==
    ASSUME WorkInv, AnswerInv, HostsGoOn \/ HostsFail
    PROVE  AnswerInv'
<1>1. PICK h \in Host : (HostStep(h) \/ HostFails(h)) /\ UNCHANGED extVars
  BY DEF HostsGoOn, HostsFail
<1>2. /\ GoesOn(h) \/ Replies(h) \/ Ends(h) \/ Reads(h)
      /\ serve[h].at \notin {"unstarted", "ended"}
      /\ DOMAIN stdout' = Host
      /\ \A g \in Host \ {h} : /\ stdout'[g] = stdout[g] /\ serve'[g] = serve[g]
                               /\ stdin'[g] = stdin[g]
  BY <1>1, HostMoves
<1>3. UNCHANGED <<port, requests, sent>>
  BY <1>1 DEF extVars
<1>4. serve'[h].at # "unstarted"
  BY <1>2 DEF GoesOn, Replies, Ends, Reads
<1>5. \A g \in Host : serve'[g].at = "unstarted" => stdout'[g] = <<>>
  BY <1>2, <1>4 DEF AnswerInv
<1>6. ASSUME port # None
      PROVE  /\ serve'[port].at # "unstarted"
             /\ InOrder(stdout'[port], IdsOf(requests))
             /\ serve'[port].at # "ended" =>
                   Coming(stdout'[port], serve'[port], stdin'[port], IdsOf(requests))
  <2>1. CASE port = h
    BY <1>2, <2>1, HostAnswers
  <2>2. CASE port # h
    <3>1. port \in Host \ {h}
      BY <1>6, <2>2 DEF AnswerInv
    <3> QED  BY <1>2, <1>6, <3>1 DEF AnswerInv
  <2> QED  BY <2>1, <2>2
<1> QED  BY <1>2, <1>3, <1>5, <1>6 DEF AnswerInv

(* A message is posted over the connection there is, or over a new one.     *)
LEMMA PostedOrder ==
    ASSUME WorkInv, AnswerInv, NEW message, NEW waiting,
           \/ message = <<>> /\ waiting = {} /\ sent' = sent /\ port = None
           \/ \E m \in Request : \E w : /\ message = <<m>> /\ waiting = {w}
                                    /\ w.id = m.id /\ m.id = sent + 1 /\ sent' = sent + 1,
           requests' = requests \cup waiting, Posted(message), UNCHANGED stdout
    PROVE  AnswerInv'
<1>1. sent \in Nat /\ sent' \in Nat /\ sent <= sent'
  BY DEF WorkInv, HostTypeOK
<1>2. /\ \A w \in requests' : w.id \in Nat /\ w.id <= sent'
      /\ \A v, w \in requests' : v.id = w.id => v = w
  BY <1>1 DEF AnswerInv
<1>3. IdsOf(requests') = IdsOf(requests) \cup IdsOf(waiting)
  BY DEF IdsOf
<1>4. ASSUME NEW CONSTANT h \in Host, port = None, Started(h, message), port' = h
      PROVE  AnswerInv'
  <2>1. /\ serve' = [serve EXCEPT ![h] = Reading] /\ stdin' = [stdin EXCEPT ![h] = message]
        /\ serve[h].at = "unstarted"
    BY <1>4 DEF Started, Serves, ServeAt
  <2>2. serve'[h] = Reading /\ stdin'[h] = message /\ stdout'[h] = <<>>
        /\ \A g \in Host \ {h} : serve'[g] = serve[g]
    BY <2>1 DEF WorkInv, HostTypeOK, AnswerInv
  <2>3. requests = {} /\ IdsOf(requests) = {}
    BY <1>4 DEF AnswerInv, IdsOf
  <2>4. In(<<>>) = {} /\ Answers(<<>>) = {} /\ IsSequence(<<>>)
    <3>1. DOMAIN <<>> = {} /\ <<>> \in Seq({})
      OBVIOUS
    <3> QED  BY <3>1 DEF In, Answers, IsSequence
  <2>5. InOrder(<<>>, IdsOf(requests'))
    BY <2>4 DEF InOrder
  <2>6. Reading.at = "read" /\ Given(Reading) = {}
    BY DEF Reading, Given
  <2>7. Coming(<<>>, Reading, message, IdsOf(requests'))
    <3>1. CASE message = <<>> /\ waiting = {}
      <4>1. Asked(<<>>) = {} /\ IdsOf(requests') = {} /\ DOMAIN <<>> = {}
        BY <1>3, <2>3, <3>1 DEF Asked, IdsOf
      <4> QED  BY <2>4, <2>6, <3>1, <4>1 DEF Coming
    <3>2. ASSUME NEW m \in Request, NEW w, message = <<m>>, waiting = {w}, w.id = m.id
          PROVE  Coming(<<>>, Reading, message, IdsOf(requests'))
      <4>1. DOMAIN <<m>> = {1} /\ <<m>>[1] = m
        OBVIOUS
      <4>2. Asked(message) = {m.id} /\ IdsOf(requests') = {m.id}
        BY <1>3, <2>3, <3>2, <4>1 DEF Asked, IdsOf
      <4>3. \A i, j \in DOMAIN message : ~(i < j)
        BY <3>2, <4>1
      <4> QED  BY <2>4, <2>6, <4>2, <4>3 DEF Coming
    <3> QED  BY <3>1, <3>2
  <2>8. \A g \in Host : serve'[g].at = "unstarted" => stdout'[g] = <<>>
    BY <2>2, <2>6 DEF AnswerInv
  <2>9. DOMAIN stdout' = Host /\ port' # None
    BY <1>4, HostAssumption DEF AnswerInv
  <2> QED  BY <1>2, <1>4, <2>2, <2>5, <2>6, <2>7, <2>8, <2>9 DEF AnswerInv
<1>5. ASSUME NEW CONSTANT h \in Host, port = h, port # None, UNCHANGED <<port, serve>>,
             stdin' = [stdin EXCEPT ![h] = @ \o message]
      PROVE  AnswerInv'
  <2>1. PICK m \in Request : /\ message = <<m>> /\ m.id = sent + 1 /\ sent' = sent + 1
                            /\ IdsOf(waiting) = {m.id}
    BY <1>5 DEF IdsOf
  <2>2. /\ InOrder(stdout[h], IdsOf(requests)) /\ serve[h].at # "unstarted"
        /\ stdin[h] \in Seq(Request) /\ stdin'[h] = stdin[h] \o <<m>>
    BY <1>5, <2>1 DEF AnswerInv, WorkInv, HostTypeOK
  <2>3. IdsOf(requests') = IdsOf(requests) \cup {m.id}
    BY <1>3, <2>1
  <2>4. m.id \in Nat /\ \A k \in IdsOf(requests) : k \in Nat /\ k < m.id
    BY <1>1, <2>1, IdsAreNat
  <2>5. InOrder(stdout[h], IdsOf(requests'))
    <3> DEFINE ids == IdsOf(requests)
               k == m.id
    <3>1. InOrder(stdout[h], ids) /\ k \in Nat /\ \A p \in ids : p \in Nat /\ p < k
      BY <2>2, <2>4
    <3> HIDE DEF ids, k
    <3>2. InOrder(stdout[h], ids \cup {k})
      BY <3>1, OneMoreWaits
    <3> QED  BY <2>3, <3>2 DEF ids, k
  <2>6. ASSUME serve[h].at # "ended"
        PROVE  Coming(stdout[h], serve[h], stdin[h] \o <<m>>, IdsOf(requests'))
    <3>1. Coming(stdout[h], serve[h], stdin[h], IdsOf(requests))
      BY <1>5, <2>6 DEF AnswerInv
    <3>2. \A k \in Asked(stdin[h]) \cup Given(serve[h]) \cup In(stdout[h]) : k < m.id
      BY <2>2, <2>4, <3>1 DEF Coming, InOrder
    <3>3. /\ Asked(stdin[h] \o <<m>>) = Asked(stdin[h]) \cup {m.id}
          /\ \A i, j \in DOMAIN (stdin[h] \o <<m>>) :
                i < j => (stdin[h] \o <<m>>)[i].id < (stdin[h] \o <<m>>)[j].id
      BY <2>2, <3>1, <3>2, OneMoreAsked DEF Coming
    <3> QED  BY <2>3, <3>1, <3>2, <3>3 DEF Coming
  <2>7. DOMAIN stdout' = Host /\ \A g \in Host : serve'[g].at = "unstarted" => stdout'[g] = <<>>
    BY <1>5 DEF AnswerInv
  <2> QED  BY <1>2, <1>5, <2>2, <2>5, <2>6, <2>7 DEF AnswerInv
<1>6. port \in Host \cup {None}
  BY DEF AnswerInv
<1> QED  BY <1>4, <1>5, <1>6 DEF Posted

LEMMA SentOrder ==
    ASSUME WorkInv, AnswerInv, NEW by, NEW u \in Url, NEW target \in Url \cup {None},
           NEW action \in {"lookup", "collect", "rescreen", "unreadable"},
           Send(by, action, u, target)
    PROVE  AnswerInv' /\ requests \subseteq requests'
<1> DEFINE m == [id |-> sent + 1, url |-> u, target |-> target, action |-> action]
           w == [id |-> sent + 1, url |-> u, by |-> by]
<1>1. m \in Request /\ m.id = sent + 1 /\ w.id = m.id
  BY DEF Request, WorkInv, HostTypeOK
<1>2. /\ requests' = requests \cup {w} /\ sent' = sent + 1 /\ Posted(<<m>>)
      /\ UNCHANGED stdout
  BY DEF Send, ConnectionLess
<1> HIDE DEF m, w
<1> QED  BY <1>1, <1>2, PostedOrder

(* The answer at the head settles the request it is the answer to.          *)
LEMMA SettledIsOwn ==
    ASSUME AnswerInv, NEW message, NEW a, a = message.of, IsAnswer(message),
           a \in IdsOf(requests), \A k \in IdsOf(requests) : a <= k
    PROVE  /\ Settled(message) \in requests /\ Settled(message).id = a
           /\ requests # {}
           /\ IdsOf(requests \ {Settled(message)}) = IdsOf(requests) \ {a}
<1> DEFINE byId == {w \in requests : w.id = message.id}
           candidates == IF byId = {} THEN requests ELSE byId
<1>1. PICK w \in requests : w.id = a
  BY DEF IdsOf
<1>2. w \in candidates
  <2>1. ASSUME NEW v \in byId PROVE w \in byId
    <3>1. v.id \in Nat /\ v.id = message.id
      BY <2>1 DEF AnswerInv
    <3>2. message.id = a
      BY <3>1, HostAssumption DEF IsAnswer
    <3> QED  BY <1>1, <3>2
  <2> QED  BY <1>1, <2>1
<1>3. candidates \subseteq requests
  OBVIOUS
<1>4. \A v \in requests : a <= v.id /\ v.id \in Nat
  BY DEF IdsOf, AnswerInv
<1>5. Settled(message) = CHOOSE x \in candidates : \A v \in candidates : x.id <= v.id
  BY DEF Settled
<1> HIDE DEF candidates
<1>6. Settled(message) \in candidates /\ \A v \in candidates : Settled(message).id <= v.id
  BY <1>1, <1>2, <1>3, <1>4, <1>5
<1>7. Settled(message).id = a /\ Settled(message) \in requests
  BY <1>1, <1>2, <1>3, <1>4, <1>6
<1>8. \A v \in requests : v.id = a => v = Settled(message)
  BY <1>7 DEF AnswerInv
<1>9. IdsOf(requests \ {Settled(message)}) = IdsOf(requests) \ {a}
  BY <1>7, <1>8 DEF IdsOf
<1> QED  BY <1>1, <1>7, <1>9

LEMMA ReceivedOrder ==
    ASSUME WorkInv, AnswerInv, Receive
    PROVE  /\ AnswerInv'
           /\ \A w \in requests :
                 w \notin requests' =>
                    LET message == Head(stdout[port])
                    IN  message.type = "answer" /\ message.of = w.id
<1> DEFINE message == Head(stdout[port])
           o == stdout[port]
           ids == IdsOf(requests)
<1>1. /\ port \in Host /\ port # None /\ o # <<>> /\ port' = port /\ sent' = sent
      /\ UNCHANGED <<serve, stdin>> /\ stdout' = [stdout EXCEPT ![port] = Tail(@)]
  BY DEF Receive, AnswerInv
<1>2. /\ InOrder(o, ids) /\ serve[port].at # "unstarted" /\ DOMAIN stdout = Host
      /\ serve[port].at # "ended" => Coming(o, serve[port], stdin[port], ids)
      /\ \A k \in ids : k \in Nat
  BY <1>1, IdsAreNat DEF AnswerInv
<1>3. /\ stdout'[port] = Tail(o) /\ DOMAIN stdout' = Host
      /\ \A h \in Host : serve'[h].at = "unstarted" => stdout'[h] = <<>>
  BY <1>1, <1>2 DEF AnswerInv
<1>4. CASE message.type # "answer"
  <2>1. requests' = requests
    BY <1>4 DEF Receive, PassOn
  <2>2. InOrder(Tail(o), ids) /\ In(Tail(o)) = In(o)
    BY <1>1, <1>2, <1>4, HeadLeaves
  <2>3. serve[port].at # "ended" => Coming(Tail(o), serve[port], stdin[port], ids)
    BY <1>2, <2>2 DEF Coming
  <2> QED  BY <1>1, <1>2, <1>3, <2>1, <2>2, <2>3 DEF AnswerInv
<1>5. CASE message.type = "answer"
  <2> DEFINE a == message.of
  <2>1. /\ IsAnswer(message) /\ a \in ids /\ \A k \in ids : a <= k
        /\ InOrder(Tail(o), ids \ {a}) /\ In(Tail(o)) = In(o) \ {a}
    BY <1>1, <1>2, <1>5, HeadLeaves
  <2>2. /\ Settled(message) \in requests /\ Settled(message).id = a /\ requests # {}
        /\ IdsOf(requests \ {Settled(message)}) = ids \ {a}
    BY <2>1, SettledIsOwn
  <2>3. requests' = requests \ {Settled(message)}
    BY <1>5, <2>2 DEF Receive, Settle
  <2>4. InOrder(Tail(o), IdsOf(requests'))
    BY <2>1, <2>2, <2>3
  <2>5. ASSUME serve[port].at # "ended"
        PROVE  Coming(Tail(o), serve[port], stdin[port], IdsOf(requests'))
    <3>1. Coming(o, serve[port], stdin[port], ids)
      BY <1>2, <2>5
    <3>2. a \in In(o)
      <4>1. o # <<>> /\ IsSequence(o)
        BY <1>1, <1>2 DEF InOrder
      <4>2. 1 \in DOMAIN o /\ Head(o) = o[1]
        BY <4>1, SequenceFacts
      <4> QED  BY <1>5, <4>2 DEF In, Answers
    <3>3. \A k \in Given(serve[port]) \cup Asked(stdin[port]) : a < k /\ k \in ids
      BY <3>1, <3>2 DEF Coming
    <3>4. a \in Nat
      BY <1>2, <2>1
    <3>5. \A k \in Given(serve[port]) \cup Asked(stdin[port]) : k # a
      BY <3>3, <3>4
    <3> HIDE DEF a
    <3>6. Coming(Tail(o), serve[port], stdin[port], ids \ {a})
      BY <2>1, <3>1, <3>3, <3>5 DEF Coming
    <3> QED  BY <2>2, <2>3, <3>6
  <2>6. /\ \A w \in requests' : w.id \in Nat /\ w.id <= sent'
        /\ \A v, w \in requests' : v.id = w.id => v = w
    BY <1>1, <2>3 DEF AnswerInv
  <2>7. AnswerInv'
    BY <1>1, <1>2, <1>3, <2>4, <2>5, <2>6 DEF AnswerInv
  <2>8. \A w \in requests : w \notin requests' => w = Settled(message)
    BY <2>3
  <2> QED  BY <1>5, <2>2, <2>7, <2>8
<1> QED  BY <1>4, <1>5

LEMMA AnswerInit == Init => AnswerInv
<1> SUFFICES ASSUME Init PROVE AnswerInv
  OBVIOUS
<1>1. port = None /\ requests = {} /\ DOMAIN stdout = Host
      /\ \A h \in Host : stdout[h] = <<>>
  BY DEF Init, HostInit, ExtInit
<1> QED  BY <1>1 DEF AnswerInv

(* Every step of the extension.                                             *)
LEMMA ExtensionAnswers ==
    ASSUME WorkInv, BadgeInv, AnswerInv,
           User \/ Timers \/ Extension \/ WorkerEnds \/ UNCHANGED vars
    PROVE  AnswerInv'
<1>1. badge.url \in Url /\ Targets[badge.url] \subseteq Url
  BY HostAssumption DEF BadgeInv
<1>2. ASSUME NEW u \in Url, Navigate(u) PROVE AnswerInv'
  BY <1>2, SentOrder DEF Navigate
<1>3. CASE Collect
  <2>1. ASSUME NEW target \in Targets[badge.url],
               Send("collect", "collect", badge.url, target)
        PROVE  AnswerInv'
    BY <1>1, <2>1, SentOrder
  <2>2. ASSUME Send("collect", "unreadable", badge.url, None)
        PROVE  AnswerInv'
    BY <1>1, <2>2, SentOrder
  <2> QED  BY <1>3, <2>1, <2>2 DEF Collect
<1>4. CASE Poll
  BY <1>1, <1>4, SentOrder DEF Poll
<1>5. CASE PanelCollect
  BY <1>1, <1>5, SentOrder DEF PanelCollect
<1>6. CASE Rescreen
  BY <1>1, <1>6, SentOrder DEF Rescreen
<1>7. CASE KeepAlive
  <2>1. /\ port = None /\ Posted(<<>>) /\ requests' = requests \cup {} /\ sent' = sent
        /\ UNCHANGED stdout
    BY <1>7 DEF KeepAlive, ConnectionLess
  <2> QED  BY <2>1, PostedOrder
<1>8. CASE PollTimeout \/ Recover \/ UNCHANGED vars
  <2>1. UNCHANGED <<hostVars, port, requests, sent>>
    BY <1>8 DEF PollTimeout, Recover, vars, extVars
  <2> QED  BY <2>1 DEF AnswerInv, hostVars
<1>9. CASE Disconnect \/ WorkerEnds
  <2>1. /\ port' = None /\ requests' = {} /\ UNCHANGED <<stdout, serve>>
    BY <1>9 DEF Disconnect, WorkerEnds
  <2> QED  BY <2>1 DEF AnswerInv
<1>10. CASE Receive
  BY <1>10, ReceivedOrder
<1> QED  BY <1>2, <1>3, <1>4, <1>5, <1>6, <1>7, <1>8, <1>9, <1>10
         DEF User, Timers, Extension

(* AnswerInv is an invariant of the extension, its hosts and what ends them. *)
THEOREM AnswerInvariant == Spec => []AnswerInv
<1>1. Init => AnswerInv
  BY AnswerInit
<1>2. WorkInv /\ BadgeInv /\ AnswerInv /\ [Next]_vars => AnswerInv'
  BY HostsAnswer, ExtensionAnswers DEF Next
<1> QED  BY <1>1, <1>2, WorkInvariant, BadgeInvariant, PTL DEF Spec

(* No request is settled with the answer of another one, for any postings,  *)
(* connections and requests, whatever ends on the way                       *)
(* (service-worker.js, careerkit_host.py).                                  *)
THEOREM AnswersAreOwn == Spec => OwnAnswer
<1>1. WorkInv /\ BadgeInv /\ AnswerInv /\ [Next]_vars =>
        [\A w \in requests :
           w \notin requests' /\ port' = port =>
             LET message == Head(stdout[port])
             IN  message.type = "answer" /\ message.of = w.id]_vars
  <2> SUFFICES ASSUME WorkInv, BadgeInv, AnswerInv, Next,
                      NEW w \in requests, w \notin requests', port' = port
               PROVE  LET message == Head(stdout[port])
                      IN  message.type = "answer" /\ message.of = w.id
    OBVIOUS
  <2>1. port # None
    BY DEF AnswerInv
  <2>2. ~Disconnect /\ ~WorkerEnds
    BY <2>1 DEF Disconnect, WorkerEnds
  <2>3. requests \subseteq requests' \/ Receive
    <3>1. ASSUME NEW by, NEW action, NEW u, NEW target, Send(by, action, u, target)
          PROVE  requests \subseteq requests'
      BY <3>1 DEF Send
    <3>2. User \/ Poll => requests \subseteq requests'
      BY <3>1 DEF User, Navigate, Collect, PanelCollect, Rescreen, Poll
    <3>3. PollTimeout \/ KeepAlive \/ Recover \/ HostsGoOn \/ HostsFail => requests' = requests
      BY DEF PollTimeout, KeepAlive, Recover, HostsGoOn, HostsFail, extVars
    <3> QED  BY <2>2, <3>2, <3>3 DEF Next, Timers, Extension
  <2> QED  BY <2>3, ReceivedOrder
<1> QED  BY <1>1, WorkInvariant, BadgeInvariant, AnswerInvariant, PTL DEF Spec, OwnAnswer
=============================================================================
